------------------------------ MODULE Contacts ------------------------------
(***************************************************************************)
(* The contact rows of two users (modules/contacts/service.py).            *)
(*                                                                         *)
(* The unique key is (requester, addressee), an ordered pair, while        *)
(* _find_between looks for either order.  A commit writes only the columns *)
(* the request changed; an INSERT or UPDATE that breaks the unique key is  *)
(* refused.  A request that dies before its commit leaves nothing behind.  *)
(***************************************************************************)
EXTENDS Integers, Sequences, FiniteSets

CONSTANTS Pair,         \* the two users
          Workers

PairAssumption == \E a, b \in Pair : a # b /\ Pair = {a, b}

VARIABLES row,          \* the rows of contact_relationships between the two
          active,       \* users.status is ACTIVE
          acted,        \* the users who have asked for or accepted the contact
          worker        \* the plan of each worker

vars == <<row, active, acted, worker>>

Status == {"PENDING", "ACCEPTED", "REJECTED", "DELETED"}
Row == [requester : Pair, status : Status]
Keep == "keep"

(* What a request writes: index 0 stands for a new row. *)
Plan == [op : {"idle", "request", "accept", "reject", "delete"},
         actor : Pair \cup {"none"}, index : Nat,
         requester : Pair \cup {Keep}, status : Status \cup {Keep}]
Idle == [op |-> "idle", actor |-> "none", index |-> 0,
         requester |-> Keep, status |-> Keep]

Init ==
    /\ row = <<>>
    /\ active = Pair
    /\ acted = {}
    /\ worker = [w \in Workers |-> Idle]

Addressee(r) == CHOOSE u \in Pair : u # r.requester
Changed(old, new) == IF old = new THEN Keep ELSE new

Begin(w, plan) ==
    /\ worker[w] = Idle
    /\ plan.actor \in active
    /\ worker' = [worker EXCEPT ![w] = plan]
    /\ UNCHANGED <<row, active, acted>>

(* A row that was rejected or deleted is used again, with its direction    *)
(* turned if need be; otherwise the row there is answers the request.      *)
CreateContactRequest(w, a) ==
    /\ active = Pair
    /\ \/ /\ row = <<>>
          /\ Begin(w, [op |-> "request", actor |-> a, index |-> 0,
                       requester |-> a, status |-> "PENDING"])
       \/ \E i \in DOMAIN row :
             /\ row[i].status \in {"DELETED", "REJECTED"}
             /\ Begin(w, [op |-> "request", actor |-> a, index |-> i,
                          requester |-> Changed(row[i].requester, a),
                          status |-> "PENDING"])

(* Mutant: a request that was answered is answered again. *)
RespondAnyStatus(w, op, a, i, status) ==
    Begin(w, [op |-> op, actor |-> a, index |-> i,
              requester |-> Keep, status |-> status])

Respond(w, op, a, i, status) ==
    /\ row[i].status = "PENDING"
    /\ Begin(w, [op |-> op, actor |-> a, index |-> i,
                 requester |-> Keep, status |-> status])

AcceptContactRequest(w, a, i) ==
    /\ a = Addressee(row[i])
    /\ Respond(w, "accept", a, i, "ACCEPTED")

RejectContactRequest(w, a, i) ==
    /\ a = Addressee(row[i])
    /\ Respond(w, "reject", a, i, "REJECTED")

DeleteContact(w, a, i) ==
    /\ row[i].status = "ACCEPTED"
    /\ Begin(w, [op |-> "delete", actor |-> a, index |-> i,
                 requester |-> Keep, status |-> "DELETED"])

(***************************************************************************)
(* Committing it                                                           *)
(***************************************************************************)
(* uq_contacts_pair *)
Refused(p) == \E i \in DOMAIN row : i # p.index /\ row[i].requester = p.requester

Written(p) ==
    IF p.index = 0 THEN Append(row, [requester |-> p.requester, status |-> p.status])
    ELSE [row EXCEPT ![p.index] =
             [requester |-> IF p.requester = Keep THEN @.requester ELSE p.requester,
              status |-> IF p.status = Keep THEN @.status ELSE p.status]]

Commit(w) ==
    LET p == worker[w] IN
    /\ p # Idle
    /\ IF Refused(p) THEN UNCHANGED <<row, acted>>
       ELSE /\ row' = Written(p)
            /\ acted' = IF p.op \in {"request", "accept"} THEN acted \cup {p.actor}
                        ELSE acted
    /\ worker' = [worker EXCEPT ![w] = Idle]
    /\ UNCHANGED active

(* The account is deactivated, or an administrator changes its status. *)
SetActive(users) ==
    /\ active' = users
    /\ UNCHANGED <<row, acted, worker>>

Request(w) ==
    \E a \in Pair :
       \/ CreateContactRequest(w, a)
       \/ \E i \in DOMAIN row :
             AcceptContactRequest(w, a, i) \/ RejectContactRequest(w, a, i)
                \/ DeleteContact(w, a, i)

Next ==
    \/ \E w \in Workers : Request(w) \/ Commit(w)
    \/ \E users \in SUBSET Pair : SetActive(users)

Spec == Init /\ [][Next]_vars

(***************************************************************************)
(* Properties                                                              *)
(***************************************************************************)
(* Rows and plans are well typed. *)
TypeOK ==
    /\ row \in Seq(Row)
    /\ active \subseteq Pair /\ acted \subseteq Pair
    /\ worker \in [Workers -> Plan]

(* Requests in turn.  Two users have one row, whoever asks whom and how    *)
(* often (create_contact_request uses it again in either direction).       *)
OneRelationship == Len(row) <= 1

(* Requests in turn.  Contacts are made by agreement: what becomes         *)
(* ACCEPTED was waiting for the user who accepts it, also when the row was *)
(* used before in the other direction.                                     *)
MadeByAgreement ==
    \A i \in DOMAIN row :
        row[i].status # "ACCEPTED" /\ row'[i].status = "ACCEPTED" =>
            /\ row[i].status = "PENDING"
            /\ \E w \in Workers : /\ worker[w].actor = Addressee(row[i])
                                  /\ worker'[w] = Idle

(* With any interleaving: two users are contacts only if both have had a   *)
(* hand in it, and they never have more than a row in each direction, even *)
(* when an acceptance is committed after the row was turned round.         *)
BothActed ==
    /\ \A i \in DOMAIN row : row[i].status \in {"ACCEPTED", "DELETED"} => acted = Pair
    /\ \A i, j \in DOMAIN row : row[i].requester = row[j].requester => i = j
=============================================================================
