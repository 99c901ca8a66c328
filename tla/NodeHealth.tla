----------------------------- MODULE NodeHealth -----------------------------
(***************************************************************************)
(* One inference node: its row, its administration and the checks of its   *)
(* health behind a circuit breaker (modules/nodes: service.py, health.py,  *)
(* repository.py).                                                         *)
(*                                                                         *)
(* The breakers live in the memory of a process, the row in the database.  *)
(* A process serves one of these requests at a time, waiting for the probe *)
(* of a check, up to five seconds, while other processes go on.            *)
(***************************************************************************)
EXTENDS Integers

CONSTANTS Processes,
          Threshold,        \* failure_threshold, 3
          Recovery          \* recovery_timeout, in ticks of the clock

LimitsAssumption == Threshold \in Nat \ {0} /\ Recovery \in Nat \ {0}

VARIABLES row,          \* the node's row
          up,           \* the node answers
          breaker,      \* CircuitBreaker of each process
          streak,       \* failed probes of each process since its last success
          check         \* the check that each process has under way

vars == <<row, up, breaker, streak, check>>

(* NodeStatus, NodeHealthStatus *)
Status == {"registering", "healthy", "degraded", "maintenance", "offline", "deleted"}
Health == {"ONLINE", "DEGRADED", "OFFLINE"}
Row == [status : Status, health : Health, deleted : BOOLEAN]

(* age is the time since the last failure, up to the recovery timeout *)
Breaker == [state : {"CLOSED", "OPEN", "HALF_OPEN"}, failures : 0..Threshold,
            age : 0..Recovery]
Closed == [state |-> "CLOSED", failures |-> 0, age |-> 0]

Init ==
    /\ row = [status |-> "registering", health |-> "ONLINE", deleted |-> FALSE]
    /\ up \in BOOLEAN
    /\ breaker = [p \in Processes |-> Closed]
    /\ streak = [p \in Processes |-> 0]
    /\ check = [p \in Processes |-> "idle"]

Free(p) == check[p] = "idle" /\ ~ row.deleted

UpdateNode(p, status) ==
    /\ Free(p)
    /\ row' = [row EXCEPT !.status = status]
    /\ UNCHANGED <<up, breaker, streak, check>>

(* soft_delete; current_requests, which would refuse it, is always 0 *)
DeleteNode(p) ==
    /\ Free(p)
    /\ row' = [row EXCEPT !.status = "deleted", !.deleted = TRUE]
    /\ UNCHANGED <<up, breaker, streak, check>>

(***************************************************************************)
(* The circuit breaker                                                     *)
(***************************************************************************)
(* The property "state": an open breaker that has cooled down is half open. *)
Looked(b) ==
    IF b.state = "OPEN" /\ b.age >= Recovery THEN [b EXCEPT !.state = "HALF_OPEN"] ELSE b

AllowRequest(b) == Looked(b).state \in {"CLOSED", "HALF_OPEN"}

RecordSuccess(b) == Closed

RecordFailure(b) ==
    LET n == b.failures + 1 IN
    [state |-> IF b.state = "HALF_OPEN" \/ n >= Threshold THEN "OPEN" ELSE b.state,
     failures |-> IF n > Threshold THEN Threshold ELSE n, age |-> 0]

(* Mutant: a check that is skipped counts as a failure of the node. *)
StartCheckSkipFails(p) ==
    /\ Free(p)
    /\ LET b == Looked(breaker[p]) IN
       breaker' = [breaker EXCEPT ![p] = IF AllowRequest(b) THEN b ELSE RecordFailure(b)]
    /\ check' = [check EXCEPT ![p] = IF AllowRequest(breaker[p]) THEN "probe" ELSE "OFFLINE"]
    /\ UNCHANGED <<row, up, streak>>

(***************************************************************************)
(* A check                                                                 *)
(***************************************************************************)
(* trigger_health_check up to the probe, or past it if the circuit is open *)
StartCheck(p) ==
    /\ Free(p)
    /\ breaker' = [breaker EXCEPT ![p] = Looked(@)]
    /\ check' = [check EXCEPT ![p] = IF AllowRequest(breaker[p]) THEN "probe" ELSE "OFFLINE"]
    /\ UNCHANGED <<row, up, streak>>

(* Any answer but 200, a time-out and an error are failures. *)
Probe(p) ==
    /\ check[p] = "probe"
    /\ breaker' = [breaker EXCEPT ![p] = IF up THEN RecordSuccess(@) ELSE RecordFailure(@)]
    /\ check' = [check EXCEPT ![p] =
          IF up THEN "ONLINE" ELSE IF breaker'[p].state = "OPEN" THEN "OFFLINE" ELSE "DEGRADED"]
    /\ streak' = [streak EXCEPT ![p] =
          IF up THEN 0 ELSE IF @ = Threshold THEN Threshold ELSE @ + 1]
    /\ UNCHANGED <<row, up>>

Mapped(health) ==
    CASE health = "ONLINE" -> "healthy"
      [] health = "DEGRADED" -> "degraded"
      [] health = "OFFLINE" -> "offline"

(* Mutant: the whole row is written. *)
SaveCheckWholeRow(p) ==
    /\ check[p] \in Health
    /\ row' = [health |-> check[p], status |-> Mapped(check[p]), deleted |-> FALSE]
    /\ check' = [check EXCEPT ![p] = "idle"]
    /\ UNCHANGED <<up, breaker, streak>>

(* The row as it is by now: whatever was set or deleted in the meantime is *)
(* not looked at again.                                                    *)
SaveCheck(p) ==
    /\ check[p] \in Health
    /\ row' = [row EXCEPT !.health = check[p], !.status = Mapped(check[p])]
    /\ check' = [check EXCEPT ![p] = "idle"]
    /\ UNCHANGED <<up, breaker, streak>>

(***************************************************************************)
(* Time, the node and the processes                                        *)
(***************************************************************************)
Tick ==
    /\ \E p \in Processes : breaker[p].age < Recovery
    /\ breaker' = [p \in Processes |->
                      [breaker[p] EXCEPT !.age = IF @ < Recovery THEN @ + 1 ELSE @]]
    /\ UNCHANGED <<row, up, streak, check>>

ChangeUp == up' = ~ up /\ UNCHANGED <<row, breaker, streak, check>>

Restart(p) ==
    /\ breaker' = [breaker EXCEPT ![p] = Closed]
    /\ streak' = [streak EXCEPT ![p] = 0]
    /\ check' = [check EXCEPT ![p] = "idle"]
    /\ UNCHANGED <<row, up>>

Next ==
    \/ \E p \in Processes :
          \/ \E status \in Status : UpdateNode(p, status)
          \/ DeleteNode(p) \/ StartCheck(p) \/ Probe(p) \/ SaveCheck(p) \/ Restart(p)
    \/ Tick \/ ChangeUp

Checked(p) == StartCheck(p) /\ check'[p] # "idle"

(* Probes have a time-out and the clock goes on. *)
Fairness == WF_vars(Tick) /\ \A p \in Processes : WF_vars(Probe(p)) /\ WF_vars(SaveCheck(p))
Spec == Init /\ [][Next]_vars /\ Fairness

(***************************************************************************)
(* Properties                                                              *)
(***************************************************************************)
(* The row, the breakers and the checks are well typed. *)
TypeOK ==
    /\ row \in Row /\ up \in BOOLEAN
    /\ breaker \in [Processes -> Breaker]
    /\ streak \in [Processes -> 0..Threshold]
    /\ check \in [Processes -> Health \cup {"idle", "probe"}]

(* After as many failures in a row as the threshold, and until a success,  *)
(* a process probes no node whose last failure is less than the recovery   *)
(* timeout ago, also when a probe after an earlier pause failed.           *)
NoProbeWhileCooling ==
    \A p \in Processes :
        check[p] = "probe" /\ streak[p] = Threshold => breaker[p].age = Recovery

(* With one process: between checks, a node whose breaker is open is       *)
(* offline for the administrators, unless they have put another status     *)
(* over it; and a deleted node does not come back as a working one.        *)
RowTruthful ==
    /\ \A p \in Processes :
          check[p] = "idle" /\ breaker[p].state = "OPEN" => row.health = "OFFLINE"
    /\ row.deleted => row.status = "deleted"

(* A node that was deleted stays deleted, whatever check is under way.     *)
DeletedForGood == [][row.deleted => row'.deleted]_vars

(* A node that answers again, and keeps being checked, is seen online      *)
(* again: the breaker does not hold it off for ever, restarts aside.        *)
BreakerRecovers ==
    \A p \in Processes :
        (/\ <>[]up
         /\ []<><<Checked(p)>>_vars
         /\ <>[][~ Restart(p)]_vars) => []<>(row.health = "ONLINE")
=============================================================================
