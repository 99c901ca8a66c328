----------------------------- MODULE MCAccounts -----------------------------
(* Conversations beside one organization, and two components that share no *)
(* state with them, each on its small instance: the memberships of an      *)
(* organization and the sessions of a user.  A behaviour is one of the     *)
(* component that the variable of that name says, and the others rest.     *)
EXTENDS MCTalk

CONSTANTS Enrolled, Creator, SystemAdmins, SchoolAdmins, Policies, Capacities,
          Sessions, FewSessions, First, MaxTokens

VARIABLES component,
          deleted, policy, capacity, role, membership, oworker,
          user, session, version, token, expired, sworker

O == INSTANCE MCOrg WITH Users <- Enrolled, worker <- oworker
S == INSTANCE MCSessions WITH worker <- sworker

ASSUME OrganizationParameters == O!OrgAssumption
ASSUME SessionsParameters == S!FirstAssumption /\ S!BoundAssumption

tvars == <<admins, gone, member, announced, synced, kind, rows, worker>>
ovars == <<deleted, policy, capacity, role, membership, oworker>>
svars == <<user, session, version, token, expired, sworker>>
accountsVars == <<component, turn, tvars, ovars, svars>>

AccountsInit ==
    /\ component \in {"conversations", "organization", "sessions"}
    /\ MCInit /\ O!Init /\ S!MCInit
    /\ component # "conversations" => admins = {} /\ ~ synced
    /\ component = "organization" => turn
    /\ component # "organization" => /\ policy = CHOOSE p \in Policies : TRUE
                                     /\ capacity = CHOOSE n \in Capacities : TRUE

AccountsNext ==
    /\ UNCHANGED component
    /\ \/ /\ component = "conversations" /\ MCNext
          /\ UNCHANGED <<ovars, svars>>
       \/ /\ component = "organization" /\ O!Next /\ O!InTurn
          /\ UNCHANGED <<turn, tvars, svars>>
       \/ /\ component = "sessions" /\ S!MCNext
          /\ UNCHANGED <<tvars, ovars>>

AccountsSpec == AccountsInit /\ [][AccountsNext]_accountsVars

(* Requests in turn, but for a deletion: an organization that is not       *)
(* deleted has an owner (is_last_owner and its callers).                   *)
LastOwner == O!LastOwner

(* Requests in turn, but for a deletion: a user is let in where there is   *)
(* room, and never with an office held before (_check_capacity, the four   *)
(* ways in).                                                               *)
EntryKept == O!EntryKept

(* A commit made on what was read before the deletion does not undo it     *)
(* (delete_organization, update_organization).                             *)
DeletedForGood == O!DeletedForGood

(* Requests in turn: a family of refresh tokens has at most one live       *)
(* token, the session knows its number, and a deleted account has no open  *)
(* session (refresh_token_rotation, logout, deactivate_user).              *)
FamiliesInTurn == S!FamiliesInTurn

(* With any interleaving a session never counts a rotation that stored no  *)
(* token (refresh_token_rotation).                                         *)
VersionNeverAhead == S!VersionNeverAhead

(* With any interleaving a session that ended stays so, and so does a      *)
(* token that was used or revoked (refresh_token_rotation, logout).        *)
EndsForGood == S!EndsForGood

=============================================================================
