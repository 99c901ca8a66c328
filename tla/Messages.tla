------------------------------ MODULE Messages ------------------------------
(***************************************************************************)
(* The messages of one conversation (modules/conversations/service.py:     *)
(* create_message, create_system_message, delete_message).                 *)
(*                                                                         *)
(* Who may read and write changes under the requests: it is looked at when *)
(* a request is planned, not when it is committed.  A worker that dies     *)
(* before its commit leaves nothing, one that dies after it leaves the     *)
(* client without an answer, and clients send again with the same key.     *)
(***************************************************************************)
EXTENDS Integers, Sequences, FiniteSets

CONSTANTS Users, Admins,    \* Admins: users with a global admin role
          Keys,             \* the idempotency keys that clients use
          Workers,
          MaxMessages       \* no message is planned beyond this number

AdminsAssumption == Admins \subseteq Users
MaxMessagesAssumption == MaxMessages \in Nat

VARIABLES part,     \* each user's part in the conversation
          msg,      \* the messages in the order of their insertion
          worker    \* the plan of each worker

vars == <<part, msg, worker>>

Part == {"NONE", "MEMBER", "MODERATOR"}     \* MODERATOR: OWNER or ADMIN
NoKey == "none"
Message == [sender : Users \cup {"SYSTEM", "AGENT"}, key : Keys \cup {NoKey},
            sequence : Nat \ {0}, deleted : BOOLEAN]

(* What a request writes: a new message, or the deletion of an old one.    *)
Plan == [op : {"idle"}] \cup [op : {"send"}, message : Message]
            \cup [op : {"delete"}, index : Nat]
Idle == [op |-> "idle"]

Init ==
    /\ part \in [Users -> Part]
    /\ msg = <<>>
    /\ worker = [w \in Workers |-> Idle]

Begin(w, plan) ==
    /\ worker[w] = Idle
    /\ worker' = [worker EXCEPT ![w] = plan]
    /\ UNCHANGED <<part, msg>>

(* can_write_message, can_list_messages *)
TakesPart(u) == u \in Admins \/ part[u] # "NONE"

Sequences == {msg[i].sequence : i \in DOMAIN msg}

(* Mutant: numbers are reserved when a message is planned. *)
ReserveSequence ==
    {1 + Len(msg) + Cardinality({w \in Workers : worker[w].op = "send"})}

(* get_next_sequence: the maximum plus one, 1 for the first message *)
NextSequence ==
    {n \in 1..(Len(msg) + 1) : /\ n \notin Sequences
                               /\ n > 1 => n - 1 \in Sequences
                               /\ \A m \in Sequences : m < n}

Send(w, sender, key) ==
    /\ Len(msg) < MaxMessages
    /\ \E n \in NextSequence :
          Begin(w, [op |-> "send",
                    message |-> [sender |-> sender, key |-> key,
                                 sequence |-> n, deleted |-> FALSE]])

(* Mutant: a deleted message does not hold its key. *)
CreateMessageAfterDeletion(w, u, key) ==
    /\ TakesPart(u)
    /\ ~ \E i \in DOMAIN msg : key # NoKey /\ msg[i].key = key /\ ~ msg[i].deleted
    /\ Send(w, u, key)

(* A key that has a message, whoever sent it, returns that message. *)
CreateMessage(w, u, key) ==
    /\ TakesPart(u)
    /\ ~ \E i \in DOMAIN msg : key # NoKey /\ msg[i].key = key
    /\ Send(w, u, key)

CreateSystemMessage(w, sender) == Send(w, sender, NoKey)

DeleteMessage(w, u, i) ==
    /\ TakesPart(u)
    /\ ~ msg[i].deleted
    /\ \/ msg[i].sender = u
       \/ part[u] = "MODERATOR"
       \/ u \in Admins
    /\ Begin(w, [op |-> "delete", index |-> i])

(* Mutant: a deletion removes the row. *)
CommitRemovingRow(w) ==
    /\ worker[w] # Idle
    /\ msg' = IF worker[w].op = "send" THEN Append(msg, worker[w].message)
              ELSE SubSeq(msg, 1, worker[w].index - 1)
                      \o SubSeq(msg, worker[w].index + 1, Len(msg))
    /\ worker' = [worker EXCEPT ![w] = Idle]
    /\ UNCHANGED part

Commit(w) ==
    /\ worker[w] # Idle
    /\ msg' = IF worker[w].op = "send" THEN Append(msg, worker[w].message)
              ELSE [msg EXCEPT ![worker[w].index].deleted = TRUE]
    /\ worker' = [worker EXCEPT ![w] = Idle]
    /\ UNCHANGED part

(* The worker dies, or the client goes away: the transaction rolls back. *)
Abort(w) ==
    /\ worker[w] # Idle
    /\ worker' = [worker EXCEPT ![w] = Idle]
    /\ UNCHANGED <<part, msg>>

(* Somebody is added, removed or given another role. *)
ChangePart(u, p) ==
    /\ part' = [part EXCEPT ![u] = p]
    /\ UNCHANGED <<msg, worker>>

Request(w) ==
    \/ \E u \in Users, key \in Keys \cup {NoKey} : CreateMessage(w, u, key)
    \/ \E s \in {"SYSTEM", "AGENT"} : CreateSystemMessage(w, s)
    \/ \E u \in Users, i \in DOMAIN msg : DeleteMessage(w, u, i)

Next ==
    \/ \E w \in Workers : Request(w) \/ Commit(w) \/ Abort(w)
    \/ \E u \in Users, p \in Part : ChangePart(u, p)

Spec == Init /\ [][Next]_vars

(***************************************************************************)
(* Properties                                                              *)
(***************************************************************************)
(* Messages and plans are well typed. *)
TypeOK ==
    /\ part \in [Users -> Part]
    /\ msg \in Seq(Message)
    /\ worker \in [Workers -> Plan]

(* Requests in turn.  The sequence numbers a client sorts by are those of  *)
(* the insertion, also when messages are deleted in between or a sender    *)
(* dies (get_next_sequence).                                               *)
SequenceIsPosition == \A i \in DOMAIN msg : msg[i].sequence = i

(* Requests in turn.  However often a client repeats a request that it got *)
(* no answer to, its key has one message (create_message).                 *)
OneMessagePerKey ==
    \A i, j \in DOMAIN msg : msg[i].key = msg[j].key /\ msg[i].key # NoKey => i = j

(* With any interleaving: the numbers have no gap and none appears before  *)
(* its predecessor, though two overlapping requests may get the same one.  *)
NoGaps ==
    \A i \in DOMAIN msg :
        msg[i].sequence > 1 => \E j \in 1..(i - 1) : msg[j].sequence = msg[i].sequence - 1

(* With any interleaving: messages are never lost, reordered, edited or    *)
(* restored, whatever plans are still to be committed.                     *)
HistoryKept ==
    [][\A i \in DOMAIN msg :
          /\ i \in DOMAIN msg'
          /\ msg'[i].deleted \/ ~ msg[i].deleted
          /\ [msg'[i] EXCEPT !.deleted = FALSE] = [msg[i] EXCEPT !.deleted = FALSE]]_vars
=============================================================================
