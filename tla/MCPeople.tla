------------------------------ MODULE MCPeople ------------------------------
(* The messages of a conversation, and three components beside them that   *)
(* share no state with it, each on a small instance: a behaviour is one of *)
(* the component that the variable of that name says, and the others rest. *)
(* In the behaviours with turn, at most one worker is busy at a time.      *)
EXTENDS Messages, TLC

CONSTANTS Pair, Expiries, Profiles, Limit, MaxTurns

VARIABLES component, turn,
          row, active, acted, cworker,
          record, memory, expiry, done, audited, rworker,
          agent, issued, deleted, thread, clock, wworker

C == INSTANCE Contacts WITH worker <- cworker
R == INSTANCE Memories WITH MaxRecords <- Limit, worker <- rworker
W == INSTANCE Workspace WITH MaxProfiles <- Limit, Window <- Limit,
                             MaxMessages <- MaxTurns, worker <- wworker

ASSUME MessagesParameters == AdminsAssumption /\ MaxMessagesAssumption
ASSUME ContactsParameters == C!PairAssumption
ASSUME MemoriesParameters == R!ExpiriesAssumption /\ R!MaxRecordsAssumption
ASSUME WorkspaceParameters == W!SizesAssumption /\ W!ProfilesAssumption

mvars == <<part, msg, worker>>
cvars == <<row, active, acted, cworker>>
rvars == <<record, memory, expiry, done, audited, rworker>>
wvars == <<agent, issued, deleted, thread, clock, wworker>>
peopleVars == <<component, turn, mvars, cvars, rvars, wvars>>

PeopleInit ==
    /\ component \in {"messages", "contacts", "memories", "workspace"}
    /\ turn \in BOOLEAN
    /\ Init /\ C!Init /\ R!Init /\ W!Init
    /\ part \in [Users -> {"NONE", "MEMBER"}]
    /\ component # "messages" => part = [u \in Users |-> "NONE"]

AtMostOne(job, idle) == \A v, w \in Workers : job[v] # idle /\ job[w] # idle => v = w
InTurn(job, idle) == turn => AtMostOne(job, idle)

(* Requests that overlap either chat or save profiles. *)
Either == turn \/ clock' = 0 \/ issued' = {}

PeopleNext ==
    /\ UNCHANGED <<component, turn>>
    /\ \/ /\ component = "messages" /\ Next /\ InTurn(worker', Idle)
          /\ UNCHANGED <<cvars, rvars, wvars>>
       \/ /\ component = "contacts" /\ C!Next /\ InTurn(cworker', C!Idle)
          /\ UNCHANGED <<mvars, rvars, wvars>>
       \/ /\ component = "memories" /\ R!Next /\ InTurn(rworker', R!Idle)
          /\ UNCHANGED <<mvars, cvars, wvars>>
       \/ /\ component = "workspace" /\ W!Next /\ InTurn(wworker', W!Idle)
          /\ Either
          /\ UNCHANGED <<mvars, cvars, rvars>>

PeopleSpec == PeopleInit /\ [][PeopleNext]_peopleVars

(* Requests in turn: the sequence numbers are those of the insertion, and  *)
(* an idempotency key has one message, however often a client that got no  *)
(* answer sends it again (create_message, get_next_sequence).              *)
SentOnceInTurn == turn => SequenceIsPosition /\ OneMessagePerKey

(* Contacts are sound: with any interleaving both users have had a hand in *)
(* a relationship and it has at most a row in each direction; with         *)
(* requests in turn it has one row, and what becomes ACCEPTED was waiting  *)
(* for the user who accepts it (create_ and accept_contact_request).       *)
ContactsSound ==
    /\ [](C!TypeOK /\ C!BothActed /\ (turn => C!OneRelationship))
    /\ [][turn => C!MadeByAgreement]_peopleVars

(* Memories and consents: with any interleaving what is deleted or revoked *)
(* never comes back and a committed audit row is of a committed operation; *)
(* with requests in turn a revocation leaves no consent in effect and the  *)
(* clean-up takes expired memories only (consent.py, cleanup.py).          *)
MemoriesSound ==
    /\ [](R!TypeOK /\ R!AuditTruthful)
    /\ R!GoneForGood
    /\ [][turn => R!RevokeTakesEffect /\ R!OnlyExpiredCleaned]_peopleVars

(* The personal agent: with any interleaving the profile in use is stored, *)
(* a question is committed and in the prompt when the model is asked, and  *)
(* an answer stands after its own question; with requests in turn a user   *)
(* has one agent and a deleted profile is not written back (agents).       *)
WorkspaceSound ==
    /\ W!TypeOK
    /\ W!RouteSound /\ W!QuestionKept /\ W!AnswersAttributed
    /\ turn => W!OnePersonalAgent /\ W!DeletedProfileGone

(* What the routes of memories and consents did has an audit row when the  *)
(* request has ended (log_audit, after the commit, and get_db_session); the *)
(* report of phase 6 says so.                                              *)
AuditComplete == [][R!AuditComplete]_peopleVars

Symmetry == Permutations(Workers) \cup Permutations(Profiles) \cup Permutations(Users)
=============================================================================
