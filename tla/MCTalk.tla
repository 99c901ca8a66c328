------------------------------- MODULE MCTalk -------------------------------
(* Conversations on a small instance.  In the behaviours with turn, at     *)
(* most one worker is busy at a time and no account is deleted: either     *)
(* the organization changes and its events are handled, and there is no    *)
(* private conversation and no administrator, or it does not.  In the      *)
(* others there is one conversation and no administrator, and the          *)
(* organization does not change.                                           *)
EXTENDS Conversations, TLC

VARIABLE turn

ASSUME Parameters ==
    AdminsAssumption /\ RolesAssumption /\ MaxRowsAssumption /\ NamesAssumption

MCInit ==
    /\ Init /\ turn \in BOOLEAN
    /\ synced => turn
    /\ synced \/ ~ turn => admins = {}

OneBusy == \A v, w \in Workers : worker[v].op # "idle" /\ worker[w].op # "idle" => v = w

MCNext ==
    /\ Next
    /\ UNCHANGED turn
    /\ turn => OneBusy'
    /\ turn => UNCHANGED gone
    /\ synced => \A c \in Conversations : kind'[c] # "PRIVATE"
    /\ ~ synced => UNCHANGED <<member, announced>>
    /\ ~ turn => /\ Cardinality(gone') <= 1
                 /\ Cardinality({c \in Conversations : kind'[c] # "NONE"}) <= 1

MCSpec == MCInit /\ [][MCNext]_<<vars, turn>>

(* Requests in turn: a user has one row in a group, two users have one     *)
(* private conversation and an organization one group (create_ and         *)
(* add_participant look for the old row first); and if the events of the   *)
(* organization are handled, the members that they announced take part in  *)
(* its group, unless removed, once the handlers are done                   *)
(* (sync_org_member_joined, ..._left).                                     *)
OneOfEachInTurn ==
    /\ TypeOK
    /\ turn => OneRowEach /\ OneOrgGroup /\ OnePrivateEach
    /\ turn /\ synced => AnnouncedTakePart

Symmetry == Permutations(Workers) \cup Permutations(Conversations)
=============================================================================
