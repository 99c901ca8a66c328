------------------------------ MODULE Memories ------------------------------
(***************************************************************************)
(* One memory of a user, the user's consents to its use by one agent for   *)
(* one purpose, and the audit of both (modules/memories: service.py,       *)
(* consent.py, cleanup.py; modules/audit/service.py).                      *)
(*                                                                         *)
(* A request plans its writes, commits only the columns that it changed,   *)
(* and then writes an audit row, which is flushed but not committed.  When *)
(* the request ends its session is closed, and what is not committed is    *)
(* rolled back (dependencies.py, get_db_session).                          *)
(***************************************************************************)
EXTENDS Integers, Sequences, FiniteSets

CONSTANTS Workers,
          Expiries,         \* what clients give for expires_at
          MaxRecords        \* no consent is planned beyond this number

ExpiriesAssumption == Expiries \subseteq {"NEVER", "FUTURE"}
MaxRecordsAssumption == MaxRecords \in Nat

VARIABLES record,       \* the consent records, oldest first
          memory,       \* memory_items.deleted_at, or "NONE" without a row
          expiry,       \* memory_items.expires_at, compared with the clock
          done,         \* operations to audit that have been committed
          audited,      \* operations that have a committed audit row
          worker        \* the request of each worker

vars == <<record, memory, expiry, done, audited, worker>>
stored == <<record, memory, expiry, done, audited>>

Expiry == {"NEVER", "FUTURE", "PAST"}
Record == [status : {"GRANTED", "REVOKED"}, expiry : Expiry]
Op == {"submit", "grant", "revoke", "write", "update", "read", "delete", "cleanup"}
Keep == "keep"

(* "commit" writes "op"; "log" adds its audit row to the session, whose    *)
(* rows that are not committed yet are "pending"; "save" commits again.    *)
Phase == {"idle", "commit", "log", "save", "close"}
Request == [phase : Phase, op : Op, index : Nat, expiry : Expiry \cup {Keep},
            pending : SUBSET Op, capsule : BOOLEAN]
Idle == [phase |-> "idle", op |-> "read", index |-> 0, expiry |-> Keep,
         pending |-> {}, capsule |-> FALSE]

Init ==
    /\ record = <<>>
    /\ memory = "NONE"
    /\ expiry = "NEVER"
    /\ done = {} /\ audited = {}
    /\ worker = [w \in Workers |-> Idle]

Begin(w, request) ==
    /\ worker[w] = Idle
    /\ worker' = [worker EXCEPT ![w] = request]
    /\ UNCHANGED stored

Plan(op) == [Idle EXCEPT !.phase = "commit", !.op = op]

(***************************************************************************)
(* Consent                                                                 *)
(***************************************************************************)
(* get_active *)
Effective(i) == record[i].status = "GRANTED" /\ record[i].expiry # "PAST"

CheckConsent == \E i \in DOMAIN record : Effective(i)

(* Mutant: the consent that is in effect is not looked for. *)
GrantAgain(w, e) ==
    /\ Len(record) < MaxRecords
    /\ Begin(w, [Plan("grant") EXCEPT !.expiry = e])

GrantConsent(w, e) ==
    /\ ~ CheckConsent
    /\ Len(record) < MaxRecords
    /\ Begin(w, [Plan("grant") EXCEPT !.expiry = e])

(* Any record of the grantor, whatever its status. *)
RevokeConsent(w, i) == Begin(w, [Plan("revoke") EXCEPT !.index = i])

(***************************************************************************)
(* The memory                                                              *)
(***************************************************************************)
Unwritten == memory = "NONE" /\ \A v \in Workers : worker[v].op # "write"

CreateMemory(w, e) ==
    /\ Unwritten
    /\ Begin(w, [Plan("write") EXCEPT !.expiry = e])

(* submit_private keeps the capsule as a memory that never expires: the    *)
(* audit row of the submission is pending in the session by then.          *)
SaveCapsule(w) ==
    /\ Unwritten
    /\ worker[w] = Idle
    /\ worker' = [worker EXCEPT ![w] =
                     [Plan("write") EXCEPT !.expiry = "NEVER", !.capsule = TRUE,
                                           !.pending = {"submit"}]]
    /\ done' = done \cup {"submit"}
    /\ UNCHANGED <<record, memory, expiry, audited>>

(* The owner, or somebody who names an agent that has consent: no write,   *)
(* and whatever expires_at says.                                           *)
GetMemory(w) ==
    /\ memory = "LIVE"
    /\ Begin(w, [Idle EXCEPT !.phase = "log", !.op = "read"])

UpdateMemory(w, e) ==
    /\ memory = "LIVE"
    /\ Begin(w, [Plan("update") EXCEPT !.expiry = e])

DeleteMemory(w) == memory = "LIVE" /\ Begin(w, Plan("delete"))

CleanupExpiredMemories(w) ==
    /\ memory = "LIVE" /\ expiry = "PAST"
    /\ Begin(w, Plan("cleanup"))

(***************************************************************************)
(* Committing, auditing, closing                                           *)
(***************************************************************************)
Audits(op) == op \notin {"update", "cleanup"}

Write(p) ==
    /\ record' = IF p.op = "grant"
                 THEN Append(record, [status |-> "GRANTED", expiry |-> p.expiry])
                 ELSE [i \in DOMAIN record |-> IF p.op = "revoke" /\ p.index = i
                          THEN [record[i] EXCEPT !.status = "REVOKED"] ELSE record[i]]
    /\ memory' = IF p.op = "write" THEN "LIVE"
                 ELSE IF p.op \in {"delete", "cleanup"} THEN "DELETED" ELSE memory
    /\ expiry' = IF p.op \in {"write", "update"} /\ p.expiry # Keep THEN p.expiry
                 ELSE expiry

Commit(w) ==
    LET p == worker[w] IN
    /\ p.phase = "commit"
    /\ Write(p)
    /\ done' = IF Audits(p.op) THEN done \cup {p.op} ELSE done
    /\ audited' = audited \cup p.pending
    /\ worker' = [worker EXCEPT ![w].pending = {},
                     ![w].phase = IF Audits(p.op) THEN "log" ELSE "close"]

(* log_audit *)
LogAudit(w) ==
    LET p == worker[w] IN
    /\ p.phase = "log"
    /\ done' = IF p.op = "read" THEN done \cup {"read"} ELSE done
    /\ worker' = [worker EXCEPT ![w].pending = p.pending \cup {p.op},
                                ![w].phase = IF p.capsule THEN "save" ELSE "close"]
    /\ UNCHANGED <<record, memory, expiry, audited>>

(* submit_private commits once more after create_memory. *)
SaveAgain(w) ==
    LET p == worker[w] IN
    /\ p.phase = "save"
    /\ audited' = audited \cup p.pending
    /\ worker' = [worker EXCEPT ![w].pending = {}, ![w].phase = "close"]
    /\ UNCHANGED <<record, memory, expiry, done>>

(* The request ends, or its worker dies: get_db_session closes the session. *)
Close(w) ==
    /\ worker[w] # Idle
    /\ worker' = [worker EXCEPT ![w] = Idle]
    /\ UNCHANGED stored

PassExpiry ==
    /\ expiry' = IF expiry = "FUTURE" THEN "PAST" ELSE expiry
    /\ record' = [i \in DOMAIN record |-> IF record[i].expiry = "FUTURE"
                     THEN [record[i] EXCEPT !.expiry = "PAST"] ELSE record[i]]
    /\ UNCHANGED <<memory, done, audited, worker>>

Serve(w) ==
    \/ \E e \in Expiries :
          GrantConsent(w, e) \/ CreateMemory(w, e) \/ UpdateMemory(w, e)
    \/ \E i \in DOMAIN record : RevokeConsent(w, i)
    \/ UpdateMemory(w, Keep)
    \/ SaveCapsule(w) \/ GetMemory(w) \/ DeleteMemory(w) \/ CleanupExpiredMemories(w)

Next ==
    \/ \E w \in Workers : \/ Serve(w) \/ Commit(w) \/ LogAudit(w)
                          \/ SaveAgain(w) \/ Close(w)
    \/ PassExpiry

Spec == Init /\ [][Next]_vars

(***************************************************************************)
(* Properties                                                              *)
(***************************************************************************)
(* Rows and requests are well typed. *)
TypeOK ==
    /\ record \in Seq(Record)
    /\ memory \in {"NONE", "LIVE", "DELETED"} /\ expiry \in Expiry
    /\ done \subseteq Op /\ audited \subseteq Op
    /\ worker \in [Workers -> Request]

(* A step, requests in turn.  When a consent that is in effect is revoked, the     *)
(* agent has no other one left: "consent revoke takes effect immediately"  *)
(* (consent.py) rests on grant_consent never making a second record.       *)
RevokeTakesEffect ==
    \A w \in Workers :
        (/\ worker[w].phase = "commit" /\ worker'[w].phase = "log"
         /\ worker[w].op = "revoke" /\ Effective(worker[w].index))
        => ~ CheckConsent'

(* A step, requests in turn.  The clean-up takes only memories that have expired,  *)
(* however often the owner moves their expiry.                             *)
OnlyExpiredCleaned ==
    \A w \in Workers :
        (/\ worker[w].phase = "commit" /\ worker[w].op = "cleanup"
         /\ memory = "LIVE" /\ memory' = "DELETED") => expiry = "PAST"

(* With any interleaving: a memory that was deleted or a consent that was  *)
(* revoked never comes back through a request that read it before.         *)
GoneForGood ==
    [][/\ memory = "DELETED" => memory' = "DELETED"
       /\ \A i \in DOMAIN record :
             record[i].status = "REVOKED" => record'[i].status = "REVOKED"]_vars

(* With any interleaving and any death of a worker: an audit row that is   *)
(* committed belongs to an operation that is.                              *)
AuditTruthful == audited \subseteq done

(* A step.  A request that has done what it had to do and written its      *)
(* audit row, one that did not die, leaves a committed row when it ends:   *)
(* what P6-12 says is audited is.                                          *)
AuditComplete ==
    \A w \in Workers :
        (/\ worker[w].phase = "close" /\ worker'[w] = Idle
         /\ Audits(worker[w].op)) => worker[w].op \in audited'
=============================================================================
