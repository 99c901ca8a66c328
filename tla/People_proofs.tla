--------------------------- MODULE People_proofs ---------------------------
(***************************************************************************)
(* Proofs about the messages of a conversation, contacts, memories with    *)
(* their consents, and the personal agent, for any users, keys, profiles,  *)
(* workers and limits.                                                     *)
(*                                                                         *)
(* Each component has two invariants.  The first holds under any           *)
(* interleaving: it says what a request under way may rely on, however     *)
(* long ago it read.  The second is for behaviours in which requests come  *)
(* in turn: what a request has read is still so when it commits, because   *)
(* at most one worker is busy.                                             *)
(***************************************************************************)
EXTENDS MCPeople, FiniteSetTheorems, SequenceTheorems, TLAPS

(***************************************************************************)
(* Messages                                                                *)
(*                                                                         *)
(* NoGaps says nothing of the numbers that requests under way have chosen, *)
(* so it is not inductive: a planned number must still follow one that is  *)
(* there when it is committed, which holds as no row ever goes.            *)
(***************************************************************************)
(* A planned message is the first one or follows one that is there. *)
SendsFollow ==
    \A w \in Workers : worker[w].op = "send" /\ worker[w].message.sequence > 1 =>
        \E i \in DOMAIN msg : msg[i].sequence = worker[w].message.sequence - 1

(* A planned deletion is of a message that is there. *)
DeletionsExist ==
    \A w \in Workers : worker[w].op = "delete" => worker[w].index \in DOMAIN msg

MessagesInv == TypeOK /\ NoGaps /\ SendsFollow /\ DeletionsExist

LEMMA MessageIdleType == Idle \in Plan
BY DEF Idle, Plan

(* The number a request chooses follows one that is there. *)
LEMMA NextFollows ==
    ASSUME NEW n \in NextSequence, n > 1
    PROVE  \E i \in DOMAIN msg : msg[i].sequence = n - 1
BY DEF NextSequence, Sequences

(* Beginning a plan changes no message. *)
LEMMA MessageBeginKeeps ==
    ASSUME MessagesInv, NEW w \in Workers, NEW plan \in Plan, Begin(w, plan),
           plan.op = "send" /\ plan.message.sequence > 1 =>
              \E i \in DOMAIN msg : msg[i].sequence = plan.message.sequence - 1,
           plan.op = "delete" => plan.index \in DOMAIN msg
    PROVE  MessagesInv'
<1>1. /\ worker' \in [Workers -> Plan] /\ worker'[w] = plan
      /\ \A v \in Workers : v # w => worker'[v] = worker[v]
      /\ UNCHANGED <<part, msg>>
      BY DEF Begin, MessagesInv, TypeOK
<1>2. TypeOK' /\ NoGaps'
      BY <1>1 DEF MessagesInv, TypeOK, NoGaps
<1>3. SendsFollow'
      BY <1>1 DEF MessagesInv, SendsFollow
<1>4. DeletionsExist'
      BY <1>1 DEF MessagesInv, DeletionsExist
<1> QED BY <1>2, <1>3, <1>4 DEF MessagesInv

LEMMA MessageSendKeeps ==
    ASSUME MessagesInv, NEW w \in Workers, NEW sender \in Users \cup {"SYSTEM", "AGENT"},
           NEW key \in Keys \cup {NoKey}, Send(w, sender, key)
    PROVE  MessagesInv'
<1>1. PICK n \in NextSequence :
        Begin(w, [op |-> "send", message |-> [sender |-> sender, key |-> key,
                                              sequence |-> n, deleted |-> FALSE]])
      BY DEF Send
<1> DEFINE new == [sender |-> sender, key |-> key, sequence |-> n, deleted |-> FALSE]
           plan == [op |-> "send", message |-> new]
<1>2. n \in Nat \ {0}
      BY DEF NextSequence
<1>3. new \in Message
      BY <1>2 DEF Message
<1>4. plan \in Plan
      BY <1>3 DEF Plan
<1>5. plan.message.sequence = n
      OBVIOUS
<1>6. plan.op = "send"
      OBVIOUS
<1> HIDE DEF plan
<1> QED BY <1>1, <1>4, <1>5, <1>6, NextFollows, MessageBeginKeeps DEF plan

LEMMA MessageRequestKeeps ==
    ASSUME MessagesInv, NEW w \in Workers, Request(w)
    PROVE  MessagesInv'
<1>1. ASSUME NEW u \in Users, NEW key \in Keys \cup {NoKey}, CreateMessage(w, u, key)
      PROVE  MessagesInv'
      BY <1>1, MessageSendKeeps DEF CreateMessage
<1>2. ASSUME NEW s \in {"SYSTEM", "AGENT"}, CreateSystemMessage(w, s) PROVE MessagesInv'
      BY <1>2, MessageSendKeeps DEF CreateSystemMessage
<1>3. ASSUME NEW u \in Users, NEW i \in DOMAIN msg, DeleteMessage(w, u, i) PROVE MessagesInv'
  <2> DEFINE plan == [op |-> "delete", index |-> i]
  <2>1. i \in Nat
        BY DEF MessagesInv, TypeOK
  <2>2. plan \in Plan /\ plan.op = "delete" /\ plan.index = i
        BY <2>1 DEF Plan
  <2>3. Begin(w, plan)
        BY <1>3 DEF DeleteMessage
  <2> HIDE DEF plan
  <2> QED BY <2>2, <2>3, MessageBeginKeeps
<1> QED BY <1>1, <1>2, <1>3 DEF Request

(* What a commit does to the messages: it adds the planned one at the end, *)
(* or marks one as deleted.                                                *)
LEMMA MessageCommitExtends ==
    ASSUME MessagesInv, NEW w \in Workers, Commit(w)
    PROVE  /\ TypeOK'
           /\ \/ /\ worker[w].op = "send" /\ worker[w].message \in Message
                 /\ Len(msg') = Len(msg) + 1
                 /\ \A i \in 1..Len(msg) : msg'[i] = msg[i]
                 /\ msg'[Len(msg) + 1] = worker[w].message
              \/ /\ Len(msg') = Len(msg)
                 /\ \A i \in 1..Len(msg) :
                       msg'[i] = msg[i] \/ msg'[i] = [msg[i] EXCEPT !.deleted = TRUE]
<1> USE DEF MessagesInv
<1>1. worker[w] \in Plan /\ worker[w] # Idle
      BY DEF Commit, TypeOK
<1>2. worker' \in [Workers -> Plan] /\ part' \in [Users -> Part]
      BY MessageIdleType DEF Commit, TypeOK
<1>3. CASE worker[w].op = "send"
  <2>1. worker[w].message \in Message
        BY <1>1, <1>3 DEF Plan
  <2>2. msg' = Append(msg, worker[w].message)
        BY <1>3 DEF Commit
  <2> QED BY <1>2, <1>3, <2>1, <2>2 DEF TypeOK
<1>4. CASE worker[w].op # "send"
  <2>1. worker[w].op = "delete"
        BY <1>1, <1>4 DEF Plan, Idle
  <2>2. PICK k \in DOMAIN msg : k = worker[w].index
        BY <2>1 DEF DeletionsExist
  <2>3. msg' = [msg EXCEPT ![k].deleted = TRUE]
        BY <2>1, <2>2 DEF Commit
  <2>4. msg[k] \in Message
        BY DEF TypeOK
  <2>5. [msg[k] EXCEPT !.deleted = TRUE] \in Message
        BY <2>4 DEF Message
  <2>6. msg' = [msg EXCEPT ![k] = [msg[k] EXCEPT !.deleted = TRUE]]
        BY <2>3
  <2>7. msg' \in Seq(Message) /\ Len(msg') = Len(msg)
        BY <2>5, <2>6 DEF TypeOK
  <2>8. \A i \in 1..Len(msg) :
           msg'[i] = msg[i] \/ msg'[i] = [msg[i] EXCEPT !.deleted = TRUE]
    <3> SUFFICES ASSUME NEW i \in 1..Len(msg)
                 PROVE  msg'[i] = msg[i] \/ msg'[i] = [msg[i] EXCEPT !.deleted = TRUE]
        OBVIOUS
    <3>1. i \in DOMAIN msg
          BY DEF TypeOK
    <3>2. CASE i = k
          BY <2>6, <3>1, <3>2
    <3>3. CASE i # k
          BY <2>6, <3>1, <3>3
    <3> QED BY <3>2, <3>3
  <2> QED BY <1>2, <2>7, <2>8 DEF TypeOK
<1> QED BY <1>3, <1>4

LEMMA MessageCommitKeeps ==
    ASSUME MessagesInv, NEW w \in Workers, Commit(w)
    PROVE  MessagesInv'
<1> USE DEF MessagesInv
<1>1. TypeOK'
      BY MessageCommitExtends
<1>2. \A i \in DOMAIN msg : i \in DOMAIN msg' /\ msg'[i].sequence = msg[i].sequence
  <2> SUFFICES ASSUME NEW i \in DOMAIN msg
               PROVE  i \in DOMAIN msg' /\ msg'[i].sequence = msg[i].sequence
      OBVIOUS
  <2>1. i \in 1..Len(msg) /\ msg[i] \in Message
        BY DEF TypeOK
  <2>2. i \in DOMAIN msg'
        BY <1>1, <2>1, MessageCommitExtends DEF TypeOK
  <2>3. [msg[i] EXCEPT !.deleted = TRUE].sequence = msg[i].sequence
        BY <2>1 DEF Message
  <2>4. msg'[i] = msg[i] \/ msg'[i] = [msg[i] EXCEPT !.deleted = TRUE]
        BY <2>1, MessageCommitExtends
  <2> QED BY <2>2, <2>3, <2>4
<1>3. /\ worker' = [worker EXCEPT ![w] = Idle]
      /\ \A v \in Workers : v # w => worker'[v] = worker[v]
      /\ worker'[w] = Idle
      BY DEF Commit, TypeOK
<1>4. NoGaps'
  <2> SUFFICES ASSUME NEW i \in DOMAIN msg', msg'[i].sequence > 1
               PROVE  \E j \in 1..(i - 1) : msg'[j].sequence = msg'[i].sequence - 1
      BY DEF NoGaps
  <2>1. CASE i \in DOMAIN msg
    <3>1. PICK j \in 1..(i - 1) : msg[j].sequence = msg[i].sequence - 1
          BY <1>2, <2>1 DEF NoGaps
    <3>2. j \in DOMAIN msg
          BY <2>1, <3>1 DEF TypeOK
    <3> QED BY <1>2, <2>1, <3>1, <3>2
  <2>2. CASE i \notin DOMAIN msg
    <3>1. /\ worker[w].op = "send" /\ i = Len(msg) + 1
          /\ msg'[i] = worker[w].message
          BY <1>1, <2>2, MessageCommitExtends DEF TypeOK
    <3>2. PICK j \in DOMAIN msg : msg[j].sequence = msg'[i].sequence - 1
          BY <3>1 DEF SendsFollow
    <3>3. j \in 1..(i - 1)
          BY <3>1, <3>2 DEF TypeOK
    <3> QED BY <1>2, <3>2, <3>3
  <2> QED BY <2>1, <2>2
<1>5. SendsFollow'
  <2> SUFFICES ASSUME NEW v \in Workers, worker'[v].op = "send",
                      worker'[v].message.sequence > 1
               PROVE  \E i \in DOMAIN msg' : msg'[i].sequence = worker'[v].message.sequence - 1
      BY DEF SendsFollow
  <2>1. worker'[v] = worker[v]
        BY <1>3 DEF Idle
  <2>2. PICK i \in DOMAIN msg : msg[i].sequence = worker[v].message.sequence - 1
        BY <2>1 DEF SendsFollow
  <2> QED BY <1>2, <2>1, <2>2
<1>6. DeletionsExist'
      BY <1>2, <1>3 DEF DeletionsExist, Idle
<1> QED BY <1>1, <1>4, <1>5, <1>6

(* The conjunction is inductive. *)
LEMMA MessagesInductive == ASSUME MessagesInv, [Next]_vars PROVE MessagesInv'
<1>1. ASSUME NEW w \in Workers, Abort(w) PROVE MessagesInv'
  <2>1. TypeOK' /\ NoGaps'
        BY <1>1, MessageIdleType DEF Abort, MessagesInv, TypeOK, NoGaps
  <2>2. SendsFollow' /\ DeletionsExist'
        BY <1>1 DEF Abort, MessagesInv, TypeOK, SendsFollow, DeletionsExist, Idle
  <2> QED BY <2>1, <2>2 DEF MessagesInv
<1>2. ASSUME NEW u \in Users, NEW p \in Part, ChangePart(u, p) PROVE MessagesInv'
      BY <1>2 DEF ChangePart, MessagesInv, TypeOK, NoGaps, SendsFollow, DeletionsExist
<1>3. CASE UNCHANGED vars
      BY <1>3 DEF vars, MessagesInv, TypeOK, NoGaps, SendsFollow, DeletionsExist
<1> QED BY <1>1, <1>2, <1>3, MessageRequestKeeps, MessageCommitKeeps DEF Next

LEMMA MessagesStart == Init => MessagesInv
BY MessageIdleType DEF Init, MessagesInv, TypeOK, NoGaps, SendsFollow, DeletionsExist, Idle

(* Messages and plans are always well typed, however requests overlap, are *)
(* aborted, and users come and go.                                         *)
THEOREM MessagesTypeCorrect == Spec => []TypeOK
BY MessagesStart, MessagesInductive, PTL DEF Spec, MessagesInv

(* The numbers have no gap and none appears before its predecessor, with   *)
(* any interleaving of requests (get_next_sequence takes no lock).         *)
THEOREM NumbersHaveNoGap == Spec => []NoGaps
BY MessagesStart, MessagesInductive, PTL DEF Spec, MessagesInv

(* No step loses, reorders, edits or restores a message (delete_message).  *)
THEOREM HistoryIsKept == Spec => HistoryKept
<1> DEFINE Kept == \A i \in DOMAIN msg :
          /\ i \in DOMAIN msg'
          /\ msg'[i].deleted \/ ~ msg[i].deleted
          /\ [msg'[i] EXCEPT !.deleted = FALSE] = [msg[i] EXCEPT !.deleted = FALSE]
<1>1. MessagesInv /\ [Next]_vars => [Kept]_vars
  <2> SUFFICES ASSUME MessagesInv, Next PROVE Kept
      OBVIOUS
  <2>1. msg \in Seq(Message)
        BY DEF MessagesInv, TypeOK
  <2>2. ASSUME UNCHANGED msg PROVE Kept
        BY <2>2
  <2>3. ASSUME NEW w \in Workers, Commit(w) PROVE Kept
    <3> SUFFICES ASSUME NEW i \in DOMAIN msg
                 PROVE  /\ i \in DOMAIN msg'
                        /\ msg'[i].deleted \/ ~ msg[i].deleted
                        /\ [msg'[i] EXCEPT !.deleted = FALSE] = [msg[i] EXCEPT !.deleted = FALSE]
        OBVIOUS
    <3>1. i \in 1..Len(msg) /\ msg[i] \in Message
          BY <2>1
    <3>2. i \in DOMAIN msg'
          BY <2>3, <3>1, MessageCommitExtends DEF TypeOK
    <3>3. msg'[i] = msg[i] \/ msg'[i] = [msg[i] EXCEPT !.deleted = TRUE]
          BY <2>3, <3>1, MessageCommitExtends
    <3>4. CASE msg'[i] = msg[i]
          BY <3>1, <3>2, <3>4 DEF Message
    <3>5. CASE msg'[i] = [msg[i] EXCEPT !.deleted = TRUE]
          BY <3>1, <3>2, <3>5 DEF Message
    <3> QED BY <3>3, <3>4, <3>5
  <2>4. ASSUME NEW w \in Workers, Request(w) PROVE UNCHANGED msg
        BY <2>4 DEF Request, CreateMessage, CreateSystemMessage, Send, DeleteMessage, Begin
  <2>5. ASSUME NEW w \in Workers, Abort(w) PROVE UNCHANGED msg
        BY <2>5 DEF Abort
  <2>6. ASSUME NEW u \in Users, NEW p \in Part, ChangePart(u, p) PROVE UNCHANGED msg
        BY <2>6 DEF ChangePart
  <2> HIDE DEF Kept
  <2> QED BY <2>2, <2>3, <2>4, <2>5, <2>6 DEF Next
<1> QED BY <1>1, MessagesStart, MessagesInductive, PTL DEF Spec, HistoryKept

(* Requests in turn: what is sent gets the next number, and its key is new. *)
SendFresh(p) ==
    p.op = "send" => /\ p.message.sequence = Len(msg) + 1
                     /\ \A i \in DOMAIN msg : p.message.key # NoKey =>
                                              msg[i].key # p.message.key

MessagesTurn ==
    turn => /\ AtMostOne(worker, Idle)
            /\ SequenceIsPosition /\ OneMessagePerKey
            /\ \A w \in Workers : SendFresh(worker[w])

(* Where numbers are positions, the next number is the next position.      *)
LEMMA NextIsPosition ==
    ASSUME MessagesInv, SequenceIsPosition, NEW n \in NextSequence
    PROVE  n = Len(msg) + 1
<1>1. Len(msg) \in Nat /\ DOMAIN msg = 1..Len(msg)
      BY DEF MessagesInv, TypeOK
<1>2. \A i \in 1..Len(msg) : i \in Sequences
      BY <1>1 DEF Sequences, SequenceIsPosition
<1> QED BY <1>1, <1>2 DEF NextSequence

LEMMA SendIsFresh ==
    ASSUME MessagesInv, SequenceIsPosition, NEW w \in Workers, Request(w)
    PROVE  \E p : Begin(w, p) /\ SendFresh(p)
<1>1. ASSUME NEW sender, NEW key, Send(w, sender, key),
             key = NoKey \/ \A i \in DOMAIN msg : msg[i].key # key
      PROVE  \E p : Begin(w, p) /\ SendFresh(p)
  <2>1. PICK n \in NextSequence :
          Begin(w, [op |-> "send", message |-> [sender |-> sender, key |-> key,
                                                sequence |-> n, deleted |-> FALSE]])
        BY <1>1 DEF Send
  <2> QED BY <1>1, <2>1, NextIsPosition DEF SendFresh
<1>2. ASSUME NEW u \in Users, NEW key \in Keys \cup {NoKey}, CreateMessage(w, u, key)
      PROVE  \E p : Begin(w, p) /\ SendFresh(p)
      BY <1>1, <1>2 DEF CreateMessage
<1>3. ASSUME NEW s \in {"SYSTEM", "AGENT"}, CreateSystemMessage(w, s)
      PROVE  \E p : Begin(w, p) /\ SendFresh(p)
      BY <1>1, <1>3 DEF CreateSystemMessage
<1>4. ASSUME NEW u \in Users, NEW i \in DOMAIN msg, DeleteMessage(w, u, i)
      PROVE  \E p : Begin(w, p) /\ SendFresh(p)
      BY <1>4 DEF DeleteMessage, SendFresh
<1> QED BY <1>2, <1>3, <1>4 DEF Request

LEMMA MessageCommitInTurn ==
    ASSUME MessagesInv, MessagesTurn, turn, turn' = turn, NEW w \in Workers, Commit(w)
    PROVE  MessagesTurn'
<1>1. /\ AtMostOne(worker, Idle) /\ worker[w] # Idle /\ SendFresh(worker[w])
      /\ worker' = [worker EXCEPT ![w] = Idle] /\ worker \in [Workers -> Plan]
      BY DEF MessagesTurn, Commit, MessagesInv, TypeOK
<1>2. \A v \in Workers : worker'[v] = Idle
      BY <1>1 DEF AtMostOne
<1>3. AtMostOne(worker, Idle)' /\ \A v \in Workers : SendFresh(worker[v])'
      BY <1>2 DEF AtMostOne, SendFresh, Idle
<1>4. /\ Len(msg) \in Nat /\ DOMAIN msg = 1..Len(msg)
      /\ Len(msg') \in Nat /\ DOMAIN msg' = 1..Len(msg')
      /\ \A i \in DOMAIN msg : msg[i] \in Message /\ msg[i].sequence = i
      BY MessageCommitExtends DEF MessagesInv, TypeOK, MessagesTurn, SequenceIsPosition
<1>5. CASE /\ worker[w].op = "send" /\ worker[w].message \in Message
           /\ Len(msg') = Len(msg) + 1
           /\ \A i \in 1..Len(msg) : msg'[i] = msg[i]
           /\ msg'[Len(msg) + 1] = worker[w].message
  <2>1. \A i \in DOMAIN msg' : i \in DOMAIN msg \/ i = Len(msg) + 1
        BY <1>4, <1>5
  <2>2. SequenceIsPosition'
        BY <1>1, <1>4, <1>5, <2>1 DEF SequenceIsPosition, SendFresh
  <2>3. OneMessagePerKey'
        BY <1>1, <1>4, <1>5, <2>1 DEF OneMessagePerKey, SendFresh, MessagesTurn
  <2> QED BY <1>3, <2>2, <2>3 DEF MessagesTurn
<1>6. CASE /\ Len(msg') = Len(msg)
           /\ \A i \in 1..Len(msg) :
                 msg'[i] = msg[i] \/ msg'[i] = [msg[i] EXCEPT !.deleted = TRUE]
  <2>1. \A i \in DOMAIN msg : msg'[i].sequence = i /\ msg'[i].key = msg[i].key
        BY <1>4, <1>6 DEF Message
  <2>2. DOMAIN msg' = DOMAIN msg
        BY <1>4, <1>6
  <2>3. SequenceIsPosition' /\ OneMessagePerKey'
        BY <2>1, <2>2 DEF SequenceIsPosition, OneMessagePerKey, MessagesTurn
  <2> QED BY <1>3, <2>3 DEF MessagesTurn
<1> QED BY <1>5, <1>6, MessageCommitExtends

LEMMA MessagesTurnStep ==
    ASSUME MessagesInv, MessagesTurn, turn' = turn, Next, InTurn(worker', Idle)
    PROVE  MessagesTurn'
<1> SUFFICES ASSUME turn PROVE MessagesTurn'
    BY DEF MessagesTurn
<1>1. /\ worker \in [Workers -> Plan] /\ AtMostOne(worker, Idle) /\ AtMostOne(worker', Idle)
      /\ SequenceIsPosition
      BY DEF MessagesInv, TypeOK, MessagesTurn, InTurn
<1>2. ASSUME UNCHANGED msg, \A w \in Workers : SendFresh(worker'[w])
      PROVE  MessagesTurn'
      BY <1>1, <1>2 DEF MessagesTurn, SendFresh, SequenceIsPosition, OneMessagePerKey, AtMostOne
<1>3. ASSUME NEW w \in Workers, Request(w) PROVE MessagesTurn'
  <2>1. PICK p : Begin(w, p) /\ SendFresh(p)
        BY <1>1, <1>3, SendIsFresh
  <2>2. worker' = [worker EXCEPT ![w] = p] /\ msg' = msg
        BY <2>1 DEF Begin
  <2>3. \A v \in Workers : SendFresh(worker'[v])
        BY <1>1, <2>1, <2>2 DEF MessagesTurn
  <2> QED BY <1>2, <2>2, <2>3
<1>4. ASSUME NEW w \in Workers, Abort(w) PROVE MessagesTurn'
  <2>1. SendFresh(Idle)
        BY DEF SendFresh, Idle
  <2>2. worker' = [worker EXCEPT ![w] = Idle] /\ msg' = msg
        BY <1>4 DEF Abort
  <2>3. \A v \in Workers : SendFresh(worker'[v])
        BY <1>1, <2>1, <2>2 DEF MessagesTurn
  <2> QED BY <1>2, <2>2, <2>3
<1>5. ASSUME NEW u \in Users, NEW p \in Part, ChangePart(u, p) PROVE MessagesTurn'
      BY <1>2, <1>5 DEF ChangePart, MessagesTurn
<1> QED BY <1>3, <1>4, <1>5, MessageCommitInTurn DEF Next

LEMMA MessagesSteps ==
    [PeopleNext]_peopleVars =>
        /\ turn' = turn
        /\ \/ Next /\ InTurn(worker', Idle)
           \/ UNCHANGED vars
BY DEF PeopleNext, peopleVars, mvars, vars

(* With requests in turn, sequence numbers are positions and a key has one *)
(* message, for any number of users, workers, keys and messages.           *)
THEOREM MessagesAreSentOnce == PeopleSpec => []SentOnceInTurn
<1>1. PeopleInit => MessagesInv /\ MessagesTurn
  <2> SUFFICES ASSUME PeopleInit PROVE MessagesInv /\ MessagesTurn
      OBVIOUS
  <2>1. Init
        BY DEF PeopleInit
  <2>2. MessagesTurn
        BY <2>1 DEF Init, MessagesTurn, AtMostOne, SendFresh, Idle, SequenceIsPosition,
           OneMessagePerKey
  <2> QED BY <2>1, <2>2, MessagesStart
<1>2. MessagesInv /\ MessagesTurn /\ [PeopleNext]_peopleVars => MessagesInv' /\ MessagesTurn'
  <2> SUFFICES ASSUME MessagesInv, MessagesTurn, [PeopleNext]_peopleVars
               PROVE  MessagesInv' /\ MessagesTurn'
      OBVIOUS
  <2>1. CASE Next /\ InTurn(worker', Idle)
        BY <2>1, MessagesSteps, MessagesInductive, MessagesTurnStep
  <2>2. CASE UNCHANGED vars
    <3>1. MessagesInv' /\ turn' = turn
          BY <2>2, MessagesSteps, MessagesInductive
    <3>2. UNCHANGED <<msg, worker>>
          BY <2>2 DEF vars
    <3> QED BY <3>1, <3>2 DEF MessagesTurn, AtMostOne, SendFresh, SequenceIsPosition,
            OneMessagePerKey
  <2> QED BY <2>1, <2>2, MessagesSteps
<1>3. MessagesTurn => SentOnceInTurn
      BY DEF MessagesTurn, SentOnceInTurn
<1> QED BY <1>1, <1>2, <1>3, PTL DEF PeopleSpec

(***************************************************************************)
(* Contacts                                                                *)
(***************************************************************************)
(* What a request under way relies on, however long ago it read the row:   *)
(* rows are never removed and nobody's hand is taken back.                 *)
ContactPlanInv(w) ==
    LET p == cworker[w] IN
    /\ p.op = "idle" => p = C!Idle
    /\ p.op # "idle" => p.actor \in Pair
    /\ p.op # "idle" /\ p.index = 0 => p.op = "request" /\ p.requester = p.actor
    /\ p.index # 0 => p.index \in DOMAIN row
    /\ p.requester = "keep" \/ p.requester = p.actor
    /\ p.op # "request" => p.requester = "keep"
    /\ p.op = "request" => p.status = "PENDING"
    /\ p.op = "reject" => p.status = "REJECTED"
    /\ p.op = "accept" => p.status = "ACCEPTED" /\ Pair \subseteq acted \cup {p.actor}
    /\ p.op = "delete" => p.status = "DELETED" /\ acted = Pair

ContactsInv ==
    /\ C!TypeOK /\ C!BothActed
    /\ \A i \in DOMAIN row : row[i].requester \in acted
    /\ \A w \in Workers : ContactPlanInv(w)

LEMMA ContactsStart == C!Init => ContactsInv
<1> SUFFICES ASSUME C!Init PROVE ContactsInv
    OBVIOUS
<1>1. C!Idle \in C!Plan
      BY DEF C!Idle, C!Plan, C!Keep
<1>2. C!TypeOK
      BY <1>1 DEF C!Init, C!TypeOK
<1>3. \A w \in Workers : ContactPlanInv(w)
      BY DEF C!Init, ContactPlanInv, C!Idle, C!Keep
<1> QED BY <1>2, <1>3 DEF C!Init, ContactsInv, C!BothActed

(* Who is asked is the other user. *)
LEMMA AddresseeIsOther ==
    ASSUME NEW r \in C!Row
    PROVE  C!Addressee(r) \in Pair /\ Pair = {C!Addressee(r), r.requester}
<1>1. PICK a, b \in Pair : a # b /\ Pair = {a, b}
      BY ContactsParameters DEF C!PairAssumption
<1>2. r.requester \in Pair
      BY DEF C!Row
<1>3. \E u \in Pair : u # r.requester
      BY <1>1
<1>4. C!Addressee(r) \in Pair /\ C!Addressee(r) # r.requester
      BY <1>3 DEF C!Addressee
<1> QED BY <1>1, <1>2, <1>4

(* A request plans on rows as they are now. *)
LEMMA ContactRequestPlans ==
    ASSUME ContactsInv, NEW w \in Workers, C!Request(w)
    PROVE  ContactsInv'
<1>1. PICK a \in Pair :
        \/ C!CreateContactRequest(w, a)
        \/ \E i \in DOMAIN row :
              C!AcceptContactRequest(w, a, i) \/ C!RejectContactRequest(w, a, i)
                 \/ C!DeleteContact(w, a, i)
      BY DEF C!Request
<1>2. C!TypeOK /\ DOMAIN row \subseteq Nat \ {0} /\ \A i \in DOMAIN row : row[i] \in C!Row
      BY DEF ContactsInv, C!TypeOK
<1>3. ASSUME NEW p \in C!Plan, C!Begin(w, p), ContactPlanInv(w)'
      PROVE  ContactsInv'
  <2>1. /\ cworker' = [cworker EXCEPT ![w] = p]
        /\ UNCHANGED <<row, active, acted>>
        BY <1>3 DEF C!Begin
  <2>2. \A v \in Workers : ContactPlanInv(v)'
        BY <1>2, <1>3, <2>1 DEF ContactsInv, ContactPlanInv, C!TypeOK
  <2> QED BY <1>3, <2>1, <2>2 DEF ContactsInv, C!TypeOK, C!BothActed
<1>4. ASSUME NEW p, C!Begin(w, p) PROVE cworker'[w] = p /\ UNCHANGED <<row, acted>>
      BY <1>2, <1>4 DEF C!Begin, C!TypeOK
<1> USE DEF C!Plan, C!Status, C!Keep, ContactPlanInv
<1>5. CASE C!CreateContactRequest(w, a)
  <2>1. CASE C!Begin(w, [op |-> "request", actor |-> a, index |-> 0,
                         requester |-> a, status |-> "PENDING"])
        BY <1>3, <1>4, <2>1
  <2>2. ASSUME NEW i \in DOMAIN row,
               C!Begin(w, [op |-> "request", actor |-> a, index |-> i,
                           requester |-> C!Changed(row[i].requester, a),
                           status |-> "PENDING"])
        PROVE  ContactsInv'
        BY <1>2, <1>3, <1>4, <2>2 DEF C!Changed
  <2> QED BY <1>5, <2>1, <2>2 DEF C!CreateContactRequest
<1>6. ASSUME NEW i \in DOMAIN row, C!AcceptContactRequest(w, a, i) PROVE ContactsInv'
  <2>1. Pair \subseteq acted \cup {a}
        BY <1>2, <1>6, AddresseeIsOther DEF C!AcceptContactRequest, ContactsInv
  <2> QED BY <1>2, <1>3, <1>4, <1>6, <2>1 DEF C!AcceptContactRequest, C!Respond
<1>7. ASSUME NEW i \in DOMAIN row, C!RejectContactRequest(w, a, i) PROVE ContactsInv'
      BY <1>2, <1>3, <1>4, <1>7 DEF C!RejectContactRequest, C!Respond
<1>8. ASSUME NEW i \in DOMAIN row, C!DeleteContact(w, a, i) PROVE ContactsInv'
  <2>1. acted = Pair
        BY <1>8 DEF C!DeleteContact, ContactsInv, C!BothActed
  <2> QED BY <1>2, <1>3, <1>4, <1>8, <2>1 DEF C!DeleteContact
<1> QED BY <1>1, <1>5, <1>6, <1>7, <1>8

(* What a commit does to the rows, when the unique key lets it through.    *)
LEMMA ContactCommitWrites ==
    ASSUME ContactsInv, NEW w \in Workers, C!Commit(w), ~ C!Refused(cworker[w])
    PROVE  LET p == cworker[w] IN
           /\ row' \in Seq(C!Row) /\ acted' \subseteq Pair
           /\ acted \subseteq acted'
           /\ p.op \in {"request", "accept"} => p.actor \in acted'
           /\ \/ /\ p.op = "request" /\ p.index = 0 /\ Len(row') = Len(row) + 1
                 /\ row'[Len(row) + 1] = [requester |-> p.actor, status |-> "PENDING"]
                 /\ \A i \in DOMAIN row : row'[i] = row[i]
                                          /\ row[i].requester # p.actor
              \/ /\ p.index \in DOMAIN row /\ Len(row') = Len(row)
                 /\ \A i \in DOMAIN row : i # p.index => row'[i] = row[i]
                 /\ row'[p.index].status = p.status
                 /\ \/ row'[p.index].requester = row[p.index].requester
                    \/ /\ p.op = "request" /\ row'[p.index].requester = p.actor
                       /\ \A i \in DOMAIN row \ {p.index} : row[i].requester # p.actor
<1> DEFINE p == cworker[w]
<1>1. /\ C!TypeOK /\ p \in C!Plan /\ ContactPlanInv(w) /\ p # C!Idle
      /\ row \in Seq(C!Row) /\ Len(row) \in Nat /\ DOMAIN row = 1..Len(row)
      BY DEF ContactsInv, C!TypeOK, C!Commit
<1>2. p.op # "idle" /\ p.actor \in Pair
      BY <1>1 DEF ContactPlanInv
<1>3. p.status \in C!Status
      BY <1>1, <1>2 DEF ContactPlanInv, C!Plan, C!Status
<1>4. row' = C!Written(p)
      BY DEF C!Commit
<1>5. acted' = IF p.op \in {"request", "accept"} THEN acted \cup {p.actor} ELSE acted
      BY DEF C!Commit
<1>6. CASE p.index = 0
  <2> DEFINE new == [requester |-> p.requester, status |-> p.status]
  <2>1. p.op = "request" /\ p.requester = p.actor /\ p.status = "PENDING"
        BY <1>1, <1>2, <1>6 DEF ContactPlanInv
  <2>2. new \in C!Row
        BY <1>2, <1>3, <2>1 DEF C!Row
  <2>3. row' = Append(row, new)
        BY <1>4, <1>6 DEF C!Written
  <2>4. /\ row' \in Seq(C!Row) /\ Len(row') = Len(row) + 1
        /\ row'[Len(row) + 1] = new
        /\ \A i \in DOMAIN row : row'[i] = row[i]
    <3> HIDE DEF new, p
    <3> QED BY <1>1, <2>2, <2>3
  <2>5. \A i \in DOMAIN row : row[i].requester # p.actor
        BY <1>1, <1>6, <2>1 DEF C!Refused
  <2> QED BY <1>1, <1>2, <1>5, <1>6, <2>1, <2>4, <2>5 DEF C!TypeOK
<1>7. CASE p.index # 0
  <2> DEFINE k == p.index
             new == [requester |-> IF p.requester = "keep" THEN row[k].requester
                                   ELSE p.requester,
                     status |-> IF p.status = "keep" THEN row[k].status ELSE p.status]
  <2>1. k \in DOMAIN row /\ row[k] \in C!Row
        BY <1>1, <1>7 DEF ContactPlanInv
  <2>2. row' = [row EXCEPT ![k] = new]
        BY <1>4, <1>7 DEF C!Written, C!Keep
  <2>3. /\ new.status = p.status /\ new.requester \in {p.actor, row[k].requester}
        /\ \/ new.requester = row[k].requester
           \/ /\ p.op = "request" /\ new.requester = p.actor
              /\ \A i \in DOMAIN row \ {k} : row[i].requester # p.actor
        BY <1>1, <1>2, <1>3 DEF C!Status, ContactPlanInv, C!Refused
  <2>4. new \in C!Row
        BY <1>2, <1>3, <2>1, <2>3 DEF C!Row
  <2>5. /\ row' \in Seq(C!Row) /\ Len(row') = Len(row) /\ row'[k] = new
        /\ \A i \in DOMAIN row : i # k => row'[i] = row[i]
    <3> HIDE DEF new, k
    <3> QED BY <1>1, <2>1, <2>2, <2>4
  <2> QED BY <1>1, <1>2, <1>5, <2>1, <2>3, <2>5 DEF C!TypeOK
<1> QED BY <1>6, <1>7

(* Two rows of one direction would need two requests that the unique key   *)
(* let through, and a contact an acceptance and a request before it.       *)
LEMMA ContactCommitKeeps ==
    ASSUME ContactsInv, NEW w \in Workers, C!Commit(w)
    PROVE  ContactsInv'
<1> DEFINE p == cworker[w]
<1>1. /\ C!TypeOK /\ C!BothActed /\ p \in C!Plan /\ ContactPlanInv(w)
      /\ DOMAIN row = 1..Len(row) /\ Len(row) \in Nat
      BY DEF ContactsInv, C!TypeOK
<1>2. /\ cworker' = [cworker EXCEPT ![w] = C!Idle] /\ active' = active
      /\ C!Idle \in C!Plan
      BY DEF C!Commit, C!Idle, C!Plan, C!Keep
<1>3. CASE C!Refused(p)
  <2>1. UNCHANGED <<row, acted>>
        BY <1>3 DEF C!Commit
  <2>2. \A v \in Workers : ContactPlanInv(v)'
        BY <1>1, <1>2, <2>1 DEF ContactPlanInv, ContactsInv, C!TypeOK, C!Idle, C!Keep
  <2> QED BY <1>1, <1>2, <2>1, <2>2 DEF ContactsInv, C!TypeOK, C!BothActed
<1>4. CASE ~ C!Refused(p)
  <2> DEFINE Appended == /\ p.op = "request" /\ p.index = 0 /\ Len(row') = Len(row) + 1
                         /\ row'[Len(row) + 1] = [requester |-> p.actor, status |-> "PENDING"]
                         /\ \A i \in DOMAIN row : row'[i] = row[i]
                                                  /\ row[i].requester # p.actor
             Updated == /\ p.index \in DOMAIN row /\ Len(row') = Len(row)
                        /\ \A i \in DOMAIN row : i # p.index => row'[i] = row[i]
                        /\ row'[p.index].status = p.status
                        /\ \/ row'[p.index].requester = row[p.index].requester
                           \/ /\ p.op = "request" /\ row'[p.index].requester = p.actor
                              /\ \A i \in DOMAIN row \ {p.index} : row[i].requester # p.actor
  <2>1. /\ row' \in Seq(C!Row) /\ acted' \subseteq Pair /\ acted \subseteq acted'
        /\ p.op \in {"request", "accept"} => p.actor \in acted'
        /\ Appended \/ Updated
        BY <1>4, ContactCommitWrites
  <2>2. C!TypeOK'
        BY <1>1, <1>2, <2>1 DEF C!TypeOK
  <2>3. DOMAIN row' = 1..Len(row') /\ DOMAIN row \subseteq DOMAIN row'
        BY <1>1, <2>1
  <2>4. \A i \in DOMAIN row' : row'[i].requester \in acted'
    <3>1. CASE Appended
      <4> SUFFICES ASSUME NEW i \in DOMAIN row' PROVE row'[i].requester \in acted'
          OBVIOUS
      <4>1. i \in DOMAIN row \/ i = Len(row) + 1
            BY <1>1, <2>3, <3>1
      <4> QED BY <2>1, <3>1, <4>1 DEF ContactsInv
    <3>2. CASE Updated
          BY <1>1, <2>1, <2>3, <3>2 DEF ContactsInv
    <3> QED BY <2>1, <3>1, <3>2
  <2>5. \A i, j \in DOMAIN row' : row'[i].requester = row'[j].requester => i = j
    <3>1. CASE Appended
          BY <1>1, <2>3, <3>1 DEF C!BothActed
    <3>2. CASE Updated
          BY <1>1, <2>3, <3>2 DEF C!BothActed
    <3> QED BY <2>1, <3>1, <3>2
  <2>6. \A i \in DOMAIN row' : row'[i].status \in {"ACCEPTED", "DELETED"} => acted' = Pair
    <3>1. acted = Pair => acted' = Pair
          BY <2>1
    <3>2. CASE Appended
          BY <1>1, <2>3, <3>1, <3>2 DEF C!BothActed
    <3>3. CASE Updated
      <4>1. p.status \in {"ACCEPTED", "DELETED"} => acted' = Pair
        <5>1. p.op \in {"request", "accept", "reject", "delete"}
              BY <1>1 DEF ContactPlanInv, C!Plan, C!Commit
        <5>2. p.op = "accept" => Pair \subseteq acted \cup {p.actor}
              BY <1>1 DEF ContactPlanInv
        <5>3. p.op = "delete" => acted = Pair
              BY <1>1 DEF ContactPlanInv
        <5>4. p.op \in {"request", "reject"} => p.status \in {"PENDING", "REJECTED"}
              BY <1>1 DEF ContactPlanInv
        <5> HIDE DEF p
        <5> QED BY <2>1, <5>1, <5>2, <5>3, <5>4
      <4> QED BY <1>1, <2>3, <3>1, <3>3, <4>1 DEF C!BothActed
    <3> QED BY <2>1, <3>2, <3>3
  <2>7. ASSUME NEW v \in Workers PROVE ContactPlanInv(v)'
    <3>1. CASE v = w
      <4>1. cworker'[v] = C!Idle
            BY <1>1, <1>2, <3>1 DEF C!TypeOK
      <4> QED BY <4>1 DEF ContactPlanInv, C!Idle, C!Keep
    <3>2. CASE v # w
      <4>1. cworker'[v] = cworker[v] /\ ContactPlanInv(v)
            BY <1>1, <1>2, <3>2 DEF C!TypeOK, ContactsInv
      <4> QED BY <1>1, <2>1, <2>3, <4>1 DEF ContactPlanInv, C!TypeOK
    <3> QED BY <3>1, <3>2
  <2> QED BY <2>2, <2>4, <2>5, <2>6, <2>7 DEF ContactsInv, C!BothActed
<1> QED BY <1>3, <1>4

LEMMA ContactsInductive == ContactsInv /\ [C!Next]_(C!vars) => ContactsInv'
<1> SUFFICES ASSUME ContactsInv, [C!Next]_(C!vars) PROVE ContactsInv'
    OBVIOUS
<1>1. ASSUME NEW users \in SUBSET Pair, C!SetActive(users) PROVE ContactsInv'
      BY <1>1 DEF C!SetActive, ContactsInv, C!TypeOK, C!BothActed, ContactPlanInv
<1>2. CASE UNCHANGED C!vars
      BY <1>2 DEF C!vars, ContactsInv, C!TypeOK, C!BothActed, ContactPlanInv
<1> QED BY <1>1, <1>2, ContactRequestPlans, ContactCommitKeeps DEF C!Next

(* Requests in turn: what a request read is still so. *)
ContactFresh(p) ==
    /\ p.op = "request" /\ p.index = 0 => row = <<>>
    /\ p.op = "accept" => row[p.index].status = "PENDING"
                          /\ p.actor = C!Addressee(row[p.index])

ContactsTurn ==
    turn => /\ AtMostOne(cworker, C!Idle)
            /\ C!OneRelationship
            /\ \A w \in Workers : ContactFresh(cworker[w])

LEMMA ContactRequestIsFresh ==
    ASSUME NEW w \in Workers, C!Request(w)
    PROVE  \E p : C!Begin(w, p) /\ ContactFresh(p)
<1>1. PICK a \in Pair :
        \/ C!CreateContactRequest(w, a)
        \/ \E i \in DOMAIN row :
              C!AcceptContactRequest(w, a, i) \/ C!RejectContactRequest(w, a, i)
                 \/ C!DeleteContact(w, a, i)
      BY DEF C!Request
<1> USE DEF ContactFresh
<1>2. CASE C!CreateContactRequest(w, a)
  <2>1. ASSUME row = <<>>,
               C!Begin(w, [op |-> "request", actor |-> a, index |-> 0,
                           requester |-> a, status |-> "PENDING"])
        PROVE  \E p : C!Begin(w, p) /\ ContactFresh(p)
        BY <2>1
  <2>2. ASSUME NEW i \in DOMAIN row,
               C!Begin(w, [op |-> "request", actor |-> a, index |-> i,
                           requester |-> C!Changed(row[i].requester, a),
                           status |-> "PENDING"])
        PROVE  \E p : C!Begin(w, p) /\ ContactFresh(p)
        BY <2>2
  <2> QED BY <1>2, <2>1, <2>2 DEF C!CreateContactRequest
<1>3. ASSUME NEW i \in DOMAIN row, C!AcceptContactRequest(w, a, i)
      PROVE  \E p : C!Begin(w, p) /\ ContactFresh(p)
      BY <1>3 DEF C!AcceptContactRequest, C!Respond
<1>4. ASSUME NEW i \in DOMAIN row, C!RejectContactRequest(w, a, i)
      PROVE  \E p : C!Begin(w, p) /\ ContactFresh(p)
      BY <1>4 DEF C!RejectContactRequest, C!Respond
<1>5. ASSUME NEW i \in DOMAIN row, C!DeleteContact(w, a, i)
      PROVE  \E p : C!Begin(w, p) /\ ContactFresh(p)
      BY <1>5 DEF C!DeleteContact
<1> QED BY <1>1, <1>2, <1>3, <1>4, <1>5

(* In turn, a row is only added when there is none, and ACCEPTED is only   *)
(* written over a request that waits for the user who accepts it.          *)
LEMMA ContactsTurnStep ==
    ASSUME ContactsInv, ContactsTurn, turn' = turn, C!Next, InTurn(cworker', C!Idle)
    PROVE  ContactsTurn' /\ (turn => C!MadeByAgreement)
<1> SUFFICES ASSUME turn
             PROVE  ContactsTurn' /\ C!MadeByAgreement
    BY DEF ContactsTurn
<1>1. /\ cworker \in [Workers -> C!Plan] /\ row \in Seq(C!Row)
      /\ AtMostOne(cworker, C!Idle) /\ AtMostOne(cworker', C!Idle)
      /\ Len(row) <= 1 /\ Len(row) \in Nat /\ DOMAIN row = 1..Len(row)
      BY DEF ContactsInv, C!TypeOK, ContactsTurn, InTurn, C!OneRelationship
<1>2. ASSUME UNCHANGED row, \A w \in Workers : ContactFresh(cworker'[w])
      PROVE  ContactsTurn' /\ C!MadeByAgreement
      BY <1>1, <1>2 DEF ContactsTurn, ContactFresh, C!Addressee, C!MadeByAgreement,
         C!OneRelationship, AtMostOne
<1>3. ContactFresh(C!Idle)
      BY DEF ContactFresh, C!Idle
<1>4. ASSUME NEW w \in Workers, C!Request(w) PROVE ContactsTurn' /\ C!MadeByAgreement
  <2>1. PICK p : C!Begin(w, p) /\ ContactFresh(p)
        BY <1>4, ContactRequestIsFresh
  <2>2. cworker' = [cworker EXCEPT ![w] = p] /\ row' = row
        BY <2>1 DEF C!Begin
  <2>3. \A v \in Workers : ContactFresh(cworker'[v])
        BY <1>1, <2>1, <2>2 DEF ContactsTurn
  <2> QED BY <1>2, <2>2, <2>3
<1>5. ASSUME NEW w \in Workers, C!Commit(w) PROVE ContactsTurn' /\ C!MadeByAgreement
  <2> DEFINE p == cworker[w]
  <2>1. p # C!Idle /\ cworker' = [cworker EXCEPT ![w] = C!Idle]
        BY <1>5 DEF C!Commit
  <2>2. \A v \in Workers : cworker'[v] = C!Idle
        BY <1>1, <2>1 DEF AtMostOne
  <2>3. CASE C!Refused(p)
        BY <1>2, <1>3, <1>5, <2>2, <2>3 DEF C!Commit
  <2>4. CASE ~ C!Refused(p)
    <3>1. ContactFresh(p) /\ ContactPlanInv(w) /\ p.op # "idle"
          BY <2>1 DEF ContactsTurn, ContactsInv, ContactPlanInv
    <3>2. Len(row') <= 1
      <4>1. \/ p.op = "request" /\ p.index = 0 /\ Len(row') = Len(row) + 1
            \/ Len(row') = Len(row)
            BY <1>5, <2>4, ContactCommitWrites
      <4>2. p.op = "request" /\ p.index = 0 => Len(row) = 0
            BY <3>1 DEF ContactFresh
      <4> HIDE DEF p
      <4> QED BY <1>1, <4>1, <4>2
    <3>3. C!MadeByAgreement
      <4> SUFFICES ASSUME NEW i \in DOMAIN row, row[i].status # "ACCEPTED",
                          row'[i].status = "ACCEPTED"
                   PROVE  /\ row[i].status = "PENDING"
                          /\ \E v \in Workers : cworker[v].actor = C!Addressee(row[i])
                                                /\ cworker'[v] = C!Idle
          BY DEF C!MadeByAgreement
      <4>1. p.index = i /\ p.status = "ACCEPTED"
            BY <1>1, <1>5, <2>4, ContactCommitWrites
      <4>2. p.op = "accept"
            BY <1>1, <3>1, <4>1 DEF ContactPlanInv, C!Plan
      <4> QED BY <2>2, <3>1, <4>1, <4>2 DEF ContactFresh
    <3> QED BY <1>1, <1>3, <2>2, <3>2, <3>3 DEF ContactsTurn, C!OneRelationship, ContactFresh,
            C!Idle, AtMostOne
  <2> QED BY <2>3, <2>4
<1>6. ASSUME NEW users \in SUBSET Pair, C!SetActive(users)
      PROVE  ContactsTurn' /\ C!MadeByAgreement
      BY <1>2, <1>6 DEF C!SetActive, ContactsTurn
<1> QED BY <1>4, <1>5, <1>6 DEF C!Next

LEMMA ContactsSteps ==
    [PeopleNext]_peopleVars =>
        /\ turn' = turn
        /\ \/ C!Next /\ InTurn(cworker', C!Idle)
           \/ UNCHANGED C!vars
BY DEF PeopleNext, peopleVars, cvars, C!vars

(* Contacts are made by both: with any interleaving a row is ACCEPTED only *)
(* when both users had a hand in it and there is at most one row in each   *)
(* direction; with requests in turn there is one row, and who accepts is   *)
(* who was asked.                                                          *)
THEOREM ContactsAreSound == PeopleSpec => ContactsSound
<1>1. PeopleInit => ContactsInv /\ ContactsTurn
  <2> SUFFICES ASSUME PeopleInit PROVE ContactsInv /\ ContactsTurn
      OBVIOUS
  <2>1. C!Init
        BY DEF PeopleInit
  <2>2. ContactsTurn
        BY <2>1 DEF C!Init, ContactsTurn, AtMostOne, ContactFresh, C!Idle, C!OneRelationship
  <2> QED BY <2>1, <2>2, ContactsStart
<1>2. ContactsInv /\ ContactsTurn /\ [PeopleNext]_peopleVars
        => ContactsInv' /\ ContactsTurn' /\ [turn => C!MadeByAgreement]_peopleVars
  <2> SUFFICES ASSUME ContactsInv, ContactsTurn, [PeopleNext]_peopleVars
               PROVE  ContactsInv' /\ ContactsTurn' /\ (turn => C!MadeByAgreement)
      OBVIOUS
  <2>1. CASE C!Next /\ InTurn(cworker', C!Idle)
        BY <2>1, ContactsSteps, ContactsInductive, ContactsTurnStep
  <2>2. CASE UNCHANGED C!vars
    <3>1. ContactsInv' /\ turn' = turn
          BY <2>2, ContactsSteps, ContactsInductive
    <3>2. UNCHANGED <<row, cworker>>
          BY <2>2 DEF C!vars
    <3> QED BY <3>1, <3>2 DEF ContactsTurn, AtMostOne, ContactFresh, C!Addressee,
            C!OneRelationship, C!MadeByAgreement
  <2> QED BY <2>1, <2>2, ContactsSteps
<1>3. ContactsInv /\ ContactsTurn => C!TypeOK /\ C!BothActed /\ (turn => C!OneRelationship)
      BY DEF ContactsInv, ContactsTurn
<1> QED BY <1>1, <1>2, <1>3, PTL DEF PeopleSpec, ContactsSound

(***************************************************************************)
(* Memories and consents                                                   *)
(***************************************************************************)
(* What a request under way relies on: a memory that it read does not lose *)
(* its row, one that it is about to write is not there yet, and what its   *)
(* session holds for the audit has been done.                              *)
MemoryPlanInv(p) ==
    /\ p.phase = "commit" /\ p.op = "write" => memory = "NONE"
    /\ p.op \in {"delete", "cleanup"} => memory # "NONE"
    /\ p.op = "revoke" => p.index \in DOMAIN record
    /\ p.op = "grant" => p.expiry # R!Keep
    /\ p.pending \subseteq done
    /\ p.phase = "log" /\ p.op # "read" => p.op \in done
    /\ p.phase = "idle" => p = R!Idle

OneWrites ==
    \A v, w \in Workers : rworker[v].op = "write" /\ rworker[w].op = "write" => v = w

MemoriesInv ==
    /\ R!TypeOK /\ R!AuditTruthful
    /\ OneWrites
    /\ \A w \in Workers : MemoryPlanInv(rworker[w])

LEMMA MemoriesStart == R!Init => MemoriesInv
<1> SUFFICES ASSUME R!Init PROVE MemoriesInv
    OBVIOUS
<1>1. R!Idle \in R!Request /\ MemoryPlanInv(R!Idle)
      BY DEF R!Idle, R!Request, R!Phase, R!Op, R!Expiry, R!Keep, MemoryPlanInv
<1>2. R!TypeOK
      BY <1>1 DEF R!Init, R!TypeOK, R!Expiry
<1> QED BY <1>1, <1>2 DEF R!Init, MemoriesInv, R!AuditTruthful, OneWrites, R!Idle

(* A step of one request that takes nothing away from the others: only a   *)
(* request that writes makes the memory's row.                             *)
LEMMA MemoriesKeep ==
    ASSUME MemoriesInv, NEW w \in Workers, NEW q \in R!Request,
           rworker' = [rworker EXCEPT ![w] = q], MemoryPlanInv(rworker[w])',
           q.op = "write" => \/ rworker[w].op = "write"
                             \/ \A v \in Workers : rworker[v].op # "write",
           record' \in Seq(R!Record), DOMAIN record \subseteq DOMAIN record',
           memory' \in {"NONE", "LIVE", "DELETED"}, expiry' \in R!Expiry,
           memory # "NONE" => memory' # "NONE",
           memory' = memory \/ rworker[w].op = "write" \/ memory # "NONE",
           done \subseteq done', done' \subseteq R!Op, audited' \subseteq done'
    PROVE  MemoriesInv'
<1>1. /\ rworker \in [Workers -> R!Request] /\ rworker' \in [Workers -> R!Request]
      /\ rworker'[w] = q
      /\ \A v \in Workers : v # w => rworker'[v] = rworker[v]
      BY DEF MemoriesInv, R!TypeOK
<1>2. R!TypeOK' /\ R!AuditTruthful'
      BY <1>1 DEF R!TypeOK, R!AuditTruthful
<1>3. OneWrites'
      BY <1>1 DEF MemoriesInv, OneWrites
<1>4. ASSUME NEW v \in Workers PROVE MemoryPlanInv(rworker[v])'
  <2>1. CASE v = w
        BY <2>1
  <2>2. CASE v # w
    <3>1. rworker'[v] = rworker[v] /\ MemoryPlanInv(rworker[v])
          BY <1>1, <2>2 DEF MemoriesInv
    <3>2. rworker[v].op = "write" => rworker[w].op # "write"
          BY <2>2 DEF MemoriesInv, OneWrites
    <3> QED BY <3>1, <3>2 DEF MemoryPlanInv
  <2> QED BY <2>1, <2>2
<1> QED BY <1>2, <1>3, <1>4 DEF MemoriesInv

LEMMA MemoryServes ==
    ASSUME MemoriesInv, NEW w \in Workers, R!Serve(w)
    PROVE  MemoriesInv'
<1> USE DEF R!Plan, R!Idle, R!Request, R!Phase, R!Op, R!Expiry, R!Keep, MemoryPlanInv
<1>1. /\ R!TypeOK /\ audited \subseteq done /\ DOMAIN record \subseteq Nat
      /\ rworker \in [Workers -> R!Request] /\ Expiries \subseteq R!Expiry
      BY MemoriesParameters DEF MemoriesInv, R!AuditTruthful, R!TypeOK, R!ExpiriesAssumption
<1>2. ASSUME NEW q \in R!Request, R!Begin(w, q), q.phase # "idle", q.pending = {},
             q.op = "write" => R!Unwritten,
             q.op \in {"delete", "cleanup"} => memory # "NONE",
             q.op = "revoke" => q.index \in DOMAIN record,
             q.op = "grant" => q.expiry # "keep",
             q.phase = "log" => q.op = "read"
      PROVE  MemoriesInv'
  <2>1. /\ rworker' = [rworker EXCEPT ![w] = q]
        /\ UNCHANGED <<record, memory, expiry, done, audited>>
        BY <1>2 DEF R!Begin, R!stored
  <2>2. rworker'[w] = q
        BY <1>1, <2>1
  <2>3. MemoryPlanInv(rworker[w])'
        BY <1>2, <2>1, <2>2 DEF R!Unwritten
  <2> HIDE DEF R!Request, MemoryPlanInv
  <2> QED BY <1>1, <1>2, <2>1, <2>3, MemoriesKeep DEF R!Unwritten, R!TypeOK
<1>3. ASSUME NEW e \in Expiries, R!GrantConsent(w, e) PROVE MemoriesInv'
      BY <1>1, <1>2, <1>3 DEF R!GrantConsent
<1>4. ASSUME NEW e \in Expiries, R!CreateMemory(w, e) PROVE MemoriesInv'
      BY <1>1, <1>2, <1>4 DEF R!CreateMemory
<1>5. ASSUME NEW e \in Expiries \cup {R!Keep}, R!UpdateMemory(w, e) PROVE MemoriesInv'
      BY <1>1, <1>2, <1>5 DEF R!UpdateMemory
<1>6. ASSUME NEW i \in DOMAIN record, R!RevokeConsent(w, i) PROVE MemoriesInv'
      BY <1>1, <1>2, <1>6 DEF R!RevokeConsent
<1>7. CASE R!GetMemory(w)
      BY <1>1, <1>2, <1>7 DEF R!GetMemory
<1>8. CASE R!DeleteMemory(w)
      BY <1>1, <1>2, <1>8 DEF R!DeleteMemory
<1>9. CASE R!CleanupExpiredMemories(w)
      BY <1>1, <1>2, <1>9 DEF R!CleanupExpiredMemories
<1>10. CASE R!SaveCapsule(w)
  <2> DEFINE q == [R!Plan("write") EXCEPT !.expiry = "NEVER", !.capsule = TRUE,
                                          !.pending = {"submit"}]
  <2>1. /\ rworker' = [rworker EXCEPT ![w] = q] /\ done' = done \cup {"submit"}
        /\ UNCHANGED <<record, memory, expiry, audited>> /\ R!Unwritten
        BY <1>10 DEF R!SaveCapsule
  <2>2. q \in R!Request /\ q.op = "write" /\ q.phase = "commit" /\ q.pending = {"submit"}
        OBVIOUS
  <2>3. rworker'[w] = q
        BY <1>1, <2>1
  <2>4. MemoryPlanInv(rworker[w])'
    <3> HIDE DEF q
    <3> QED BY <2>1, <2>2, <2>3 DEF R!Unwritten
  <2> HIDE DEF q, R!Request, MemoryPlanInv
  <2> QED BY <1>1, <2>1, <2>2, <2>4, MemoriesKeep DEF R!Unwritten, R!TypeOK
<1> HIDE DEF R!Plan, R!Idle, R!Request, R!Phase, R!Op, R!Expiry, MemoryPlanInv
<1> QED BY <1>3, <1>4, <1>5, <1>6, <1>7, <1>8, <1>9, <1>10 DEF R!Serve

(* What a commit does to the consents: it adds the one that is granted, or *)
(* revokes the one that is named, or leaves them.                          *)
LEMMA ConsentCommits ==
    ASSUME MemoriesInv, NEW w \in Workers, R!Commit(w)
    PROVE  LET p == rworker[w] IN
           /\ record' \in Seq(R!Record)
           /\ \/ /\ p.op = "grant" /\ Len(record') = Len(record) + 1
                 /\ \A i \in DOMAIN record : record'[i] = record[i]
                 /\ record'[Len(record) + 1] = [status |-> "GRANTED", expiry |-> p.expiry]
              \/ /\ p.op # "grant" /\ Len(record') = Len(record)
                 /\ \A i \in DOMAIN record :
                       /\ record'[i].expiry = record[i].expiry
                       /\ record'[i].status = IF p.op = "revoke" /\ p.index = i
                                              THEN "REVOKED" ELSE record[i].status
<1> DEFINE p == rworker[w]
<1>1. /\ p \in R!Request /\ MemoryPlanInv(p) /\ record \in Seq(R!Record)
      /\ Len(record) \in Nat /\ DOMAIN record = 1..Len(record)
      BY DEF MemoriesInv, R!TypeOK
<1>2. CASE p.op = "grant"
  <2> DEFINE new == [status |-> "GRANTED", expiry |-> p.expiry]
  <2>1. new \in R!Record
        BY <1>1, <1>2 DEF R!Record, R!Request, MemoryPlanInv
  <2>2. record' = Append(record, new)
        BY <1>2 DEF R!Commit, R!Write
  <2>3. /\ record' \in Seq(R!Record) /\ Len(record') = Len(record) + 1
        /\ \A i \in DOMAIN record : record'[i] = record[i]
        /\ record'[Len(record) + 1] = new
    <3> HIDE DEF new
    <3> QED BY <1>1, <2>1, <2>2
  <2> QED BY <1>2, <2>3
<1>3. CASE p.op # "grant"
  <2> DEFINE new(i) == IF p.op = "revoke" /\ p.index = i
                       THEN [record[i] EXCEPT !.status = "REVOKED"] ELSE record[i]
  <2>1. record' = [i \in 1..Len(record) |-> new(i)]
        BY <1>1, <1>3 DEF R!Commit, R!Write
  <2>2. \A i \in 1..Len(record) :
           /\ new(i) \in R!Record /\ new(i).expiry = record[i].expiry
           /\ new(i).status = IF p.op = "revoke" /\ p.index = i
                              THEN "REVOKED" ELSE record[i].status
    <3>1. \A i \in 1..Len(record) : record[i] \in R!Record
          BY <1>1
    <3> HIDE DEF p
    <3> QED BY <3>1 DEF R!Record
  <2>3. record' \in Seq(R!Record) /\ Len(record') = Len(record)
    <3>1. record' \in [1..Len(record) -> R!Record]
      <4> HIDE DEF new
      <4> QED BY <2>1, <2>2
    <3> QED BY <1>1, <3>1, LenProperties, SeqDef
  <2> HIDE DEF new
  <2> QED BY <1>1, <1>3, <2>1, <2>2, <2>3
<1> QED BY <1>2, <1>3

LEMMA MemoryCommits ==
    ASSUME MemoriesInv, NEW w \in Workers, R!Commit(w)
    PROVE  MemoriesInv'
<1> DEFINE p == rworker[w]
           q == [p EXCEPT !.pending = {},
                          !.phase = IF R!Audits(p.op) THEN "log" ELSE "close"]
<1>1. /\ p \in R!Request /\ MemoryPlanInv(p) /\ p.phase = "commit"
      /\ rworker \in [Workers -> R!Request] /\ R!TypeOK /\ audited \subseteq done
      BY DEF MemoriesInv, R!TypeOK, R!Commit, R!AuditTruthful
<1>2. rworker' = [rworker EXCEPT ![w] = q]
      BY DEF R!Commit
<1>3. q \in R!Request /\ q.op = p.op /\ q.pending = {} /\ q.phase \in {"log", "close"}
      /\ q.index = p.index /\ q.expiry = p.expiry /\ (q.phase = "log" => R!Audits(p.op))
      BY <1>1 DEF R!Request, R!Phase
<1>4. record' \in Seq(R!Record) /\ DOMAIN record \subseteq DOMAIN record'
  <2>1. record' \in Seq(R!Record) /\ Len(record') \in {Len(record), Len(record) + 1}
        BY ConsentCommits
  <2>2. record \in Seq(R!Record)
        BY <1>1 DEF R!TypeOK
  <2> QED BY <2>1, <2>2
<1>5. /\ memory' = IF p.op = "write" THEN "LIVE"
                   ELSE IF p.op \in {"delete", "cleanup"} THEN "DELETED" ELSE memory
      /\ expiry' \in R!Expiry
      BY <1>1 DEF R!Commit, R!Write, R!TypeOK, R!Request
<1>6. /\ done \subseteq done' /\ done' \subseteq R!Op /\ audited' \subseteq done'
      /\ R!Audits(p.op) => p.op \in done'
      BY <1>1 DEF R!Commit, R!TypeOK, R!Request, MemoryPlanInv
<1>7. MemoryPlanInv(rworker[w])'
  <2>1. rworker'[w] = q
        BY <1>1, <1>2
  <2> HIDE DEF q, p
  <2> QED BY <1>1, <1>3, <1>4, <1>5, <1>6, <2>1 DEF MemoryPlanInv
<1>8. memory' \in {"NONE", "LIVE", "DELETED"} /\ (memory # "NONE" => memory' # "NONE")
      /\ (memory' = memory \/ p.op = "write" \/ memory # "NONE")
      BY <1>1, <1>5 DEF R!TypeOK, MemoryPlanInv
<1> HIDE DEF q
<1> QED BY <1>2, <1>3, <1>4, <1>5, <1>6, <1>7, <1>8, MemoriesKeep

(* When time passes, consents stay where they are and can only expire.     *)
LEMMA PassedRecords ==
    ASSUME record \in Seq(R!Record), R!PassExpiry
    PROVE  /\ record' \in Seq(R!Record) /\ DOMAIN record' = DOMAIN record
           /\ \A i \in DOMAIN record :
                 /\ record'[i].status = record[i].status
                 /\ record'[i].expiry \in {record[i].expiry, "PAST"}
<1> DEFINE new(i) == IF record[i].expiry = "FUTURE"
                     THEN [record[i] EXCEPT !.expiry = "PAST"] ELSE record[i]
<1>1. /\ Len(record) \in Nat /\ DOMAIN record = 1..Len(record)
      /\ \A i \in 1..Len(record) : record[i] \in R!Record
      OBVIOUS
<1>2. record' = [i \in 1..Len(record) |-> new(i)]
      BY <1>1 DEF R!PassExpiry
<1>3. \A i \in 1..Len(record) :
         /\ new(i) \in R!Record /\ new(i).status = record[i].status
         /\ new(i).expiry \in {record[i].expiry, "PAST"}
      BY <1>1 DEF R!Record, R!Expiry
<1>4. record' \in [1..Len(record) -> R!Record]
  <2> HIDE DEF new
  <2> QED BY <1>2, <1>3
<1>5. record' \in Seq(R!Record) /\ Len(record') = Len(record)
      BY <1>1, <1>4, LenProperties, SeqDef
<1> HIDE DEF new
<1> QED BY <1>1, <1>2, <1>3, <1>5

LEMMA MemoriesInductive == MemoriesInv /\ [R!Next]_(R!vars) => MemoriesInv'
<1> SUFFICES ASSUME MemoriesInv, [R!Next]_(R!vars) PROVE MemoriesInv'
    OBVIOUS
<1>1. /\ R!TypeOK /\ audited \subseteq done /\ record \in Seq(R!Record)
      /\ rworker \in [Workers -> R!Request]
      /\ \A w \in Workers : rworker[w] \in R!Request /\ MemoryPlanInv(rworker[w])
      BY DEF MemoriesInv, R!AuditTruthful, R!TypeOK
<1>2. ASSUME NEW w \in Workers, R!LogAudit(w) PROVE MemoriesInv'
  <2> DEFINE p == rworker[w]
             q == [p EXCEPT !.pending = p.pending \cup {p.op},
                            !.phase = IF p.capsule THEN "save" ELSE "close"]
  <2>1. /\ rworker' = [rworker EXCEPT ![w] = q] /\ p.phase = "log"
        /\ UNCHANGED <<record, memory, expiry, audited>>
        /\ done' = IF p.op = "read" THEN done \cup {"read"} ELSE done
        BY <1>2 DEF R!LogAudit
  <2>2. /\ q \in R!Request /\ q.op = p.op /\ q.pending = p.pending \cup {p.op}
        /\ q.phase \in {"save", "close"} /\ q.index = p.index /\ q.expiry = p.expiry
        /\ rworker'[w] = q
        BY <1>1, <2>1 DEF R!Request, R!Phase
  <2>3. done \subseteq done' /\ done' \subseteq R!Op /\ q.pending \subseteq done'
        BY <1>1, <2>1, <2>2 DEF R!TypeOK, MemoryPlanInv, R!Op
  <2>4. MemoryPlanInv(rworker[w])'
    <3> HIDE DEF q, p
    <3> QED BY <1>1, <2>1, <2>2, <2>3 DEF MemoryPlanInv, p
  <2> HIDE DEF q
  <2> QED BY <1>1, <2>1, <2>2, <2>3, <2>4, MemoriesKeep DEF R!TypeOK
<1>3. ASSUME NEW w \in Workers, R!SaveAgain(w) PROVE MemoriesInv'
  <2> DEFINE p == rworker[w]
             q == [p EXCEPT !.pending = {}, !.phase = "close"]
  <2>1. /\ rworker' = [rworker EXCEPT ![w] = q] /\ p.phase = "save"
        /\ UNCHANGED <<record, memory, expiry, done>> /\ audited' = audited \cup p.pending
        BY <1>3 DEF R!SaveAgain
  <2>2. /\ q \in R!Request /\ q.op = p.op /\ q.pending = {} /\ q.phase = "close"
        /\ q.index = p.index /\ q.expiry = p.expiry /\ rworker'[w] = q
        BY <1>1, <2>1 DEF R!Request, R!Phase
  <2>3. MemoryPlanInv(rworker[w])'
    <3> HIDE DEF q, p
    <3> QED BY <1>1, <2>1, <2>2 DEF MemoryPlanInv, p
  <2>4. audited' \subseteq done
        BY <1>1, <2>1 DEF MemoryPlanInv
  <2> HIDE DEF q
  <2> QED BY <1>1, <2>1, <2>2, <2>3, <2>4, MemoriesKeep DEF R!TypeOK
<1>4. ASSUME NEW w \in Workers, R!Close(w) PROVE MemoriesInv'
  <2>1. /\ rworker' = [rworker EXCEPT ![w] = R!Idle]
        /\ UNCHANGED <<record, memory, expiry, done, audited>>
        BY <1>4 DEF R!Close, R!stored
  <2>2. R!Idle \in R!Request /\ R!Idle.op = "read" /\ MemoryPlanInv(R!Idle)
        BY DEF R!Idle, R!Request, R!Phase, R!Op, R!Expiry, R!Keep, MemoryPlanInv
  <2>3. MemoryPlanInv(rworker[w])'
    <3>1. rworker'[w] = R!Idle
          BY <1>1, <2>1
    <3> QED BY <2>1, <2>2, <3>1 DEF MemoryPlanInv, R!Idle
  <2> QED BY <1>1, <2>1, <2>2, <2>3, MemoriesKeep DEF R!TypeOK
<1>5. CASE R!PassExpiry
  <2>1. /\ UNCHANGED <<memory, done, audited, rworker>> /\ expiry' \in R!Expiry
        BY <1>1, <1>5 DEF R!PassExpiry, R!TypeOK, R!Expiry
  <2>2. record' \in Seq(R!Record) /\ DOMAIN record' = DOMAIN record
        BY <1>1, <1>5, PassedRecords
  <2> QED BY <1>1, <2>1, <2>2 DEF MemoriesInv, R!TypeOK, R!AuditTruthful, OneWrites, MemoryPlanInv
<1>6. CASE UNCHANGED R!vars
      BY <1>6 DEF R!vars, MemoriesInv, R!TypeOK, R!AuditTruthful, OneWrites, MemoryPlanInv
<1> QED BY <1>2, <1>3, <1>4, <1>5, <1>6, MemoryServes, MemoryCommits DEF R!Next

(* Requests in turn: what a request found of the consents and of the       *)
(* expiry still holds when it commits, and one consent is in effect.       *)
MemoryFresh(p) ==
    p.phase = "commit" => /\ p.op = "grant" => ~ R!CheckConsent
                          /\ p.op = "cleanup" => expiry = "PAST"

OneEffective == \A i, j \in DOMAIN record : R!Effective(i) /\ R!Effective(j) => i = j

MemoriesTurn ==
    turn => /\ AtMostOne(rworker, R!Idle)
            /\ OneEffective
            /\ \A w \in Workers : MemoryFresh(rworker[w])

TurnSound == R!RevokeTakesEffect /\ R!OnlyExpiredCleaned

LEMMA MemoryServesFresh ==
    ASSUME MemoriesInv, NEW w \in Workers, R!Serve(w)
    PROVE  \E q : /\ rworker' = [rworker EXCEPT ![w] = q] /\ MemoryFresh(q)
                  /\ rworker[w] = R!Idle
                  /\ UNCHANGED <<record, memory, expiry>>
<1> USE DEF MemoryFresh, R!Plan, R!Idle, R!Begin, R!stored
<1>1. ASSUME NEW e \in Expiries, R!GrantConsent(w, e)
      PROVE  \E q : /\ rworker' = [rworker EXCEPT ![w] = q] /\ MemoryFresh(q)
                    /\ rworker[w] = R!Idle
                    /\ UNCHANGED <<record, memory, expiry>>
      BY <1>1 DEF R!GrantConsent
<1>2. ASSUME NEW e \in Expiries, R!CreateMemory(w, e)
      PROVE  \E q : /\ rworker' = [rworker EXCEPT ![w] = q] /\ MemoryFresh(q)
                    /\ rworker[w] = R!Idle
                    /\ UNCHANGED <<record, memory, expiry>>
      BY <1>2 DEF R!CreateMemory
<1>3. ASSUME NEW e \in Expiries \cup {R!Keep}, R!UpdateMemory(w, e)
      PROVE  \E q : /\ rworker' = [rworker EXCEPT ![w] = q] /\ MemoryFresh(q)
                    /\ rworker[w] = R!Idle
                    /\ UNCHANGED <<record, memory, expiry>>
      BY <1>3 DEF R!UpdateMemory
<1>4. ASSUME NEW i \in DOMAIN record, R!RevokeConsent(w, i)
      PROVE  \E q : /\ rworker' = [rworker EXCEPT ![w] = q] /\ MemoryFresh(q)
                    /\ rworker[w] = R!Idle
                    /\ UNCHANGED <<record, memory, expiry>>
      BY <1>4 DEF R!RevokeConsent
<1>5. ASSUME R!SaveCapsule(w) \/ R!GetMemory(w) \/ R!DeleteMemory(w)
                \/ R!CleanupExpiredMemories(w)
      PROVE  \E q : /\ rworker' = [rworker EXCEPT ![w] = q] /\ MemoryFresh(q)
                    /\ rworker[w] = R!Idle
                    /\ UNCHANGED <<record, memory, expiry>>
      BY <1>5 DEF R!SaveCapsule, R!GetMemory, R!DeleteMemory, R!CleanupExpiredMemories
<1> HIDE DEF MemoryFresh, R!Plan, R!Idle, R!Begin, R!stored
<1> QED BY <1>1, <1>2, <1>3, <1>4, <1>5 DEF R!Serve

(* A commit in turn: a grant found no consent in effect, and a revocation  *)
(* ends the only one.                                                      *)
LEMMA MemoryCommitsInTurn ==
    ASSUME MemoriesInv, MemoriesTurn, turn, turn' = turn, NEW w \in Workers, R!Commit(w)
    PROVE  /\ OneEffective' /\ TurnSound
           /\ \A v \in Workers : MemoryFresh(rworker[v])'
<1> DEFINE p == rworker[w]
<1>1. /\ rworker \in [Workers -> R!Request] /\ record \in Seq(R!Record)
      /\ Len(record) \in Nat /\ DOMAIN record = 1..Len(record)
      /\ p.phase = "commit" /\ MemoryFresh(p) /\ AtMostOne(rworker, R!Idle) /\ OneEffective
      BY DEF MemoriesInv, R!TypeOK, R!Commit, MemoriesTurn
<1>2. \A v \in Workers : v # w => rworker[v] = R!Idle
      BY <1>1 DEF AtMostOne, R!Idle
<1>3. /\ rworker'[w].phase \in {"log", "close"}
      /\ \A v \in Workers : v # w => rworker'[v] = R!Idle
  <2> DEFINE q == [p EXCEPT !.pending = {},
                            !.phase = IF R!Audits(p.op) THEN "log" ELSE "close"]
  <2>1. rworker' = [rworker EXCEPT ![w] = q]
        BY DEF R!Commit
  <2>2. q.phase \in {"log", "close"}
        BY <1>1 DEF R!Request
  <2> HIDE DEF q
  <2> QED BY <1>1, <1>2, <2>1, <2>2
<1>4. \A v \in Workers : MemoryFresh(rworker[v])'
      BY <1>3 DEF MemoryFresh, R!Idle
<1>5. R!OnlyExpiredCleaned
      BY <1>1, <1>2 DEF R!OnlyExpiredCleaned, MemoryFresh, R!Idle
<1>6. /\ Len(record') \in Nat /\ DOMAIN record' = 1..Len(record')
      BY ConsentCommits
<1>7. CASE /\ p.op = "grant" /\ Len(record') = Len(record) + 1
           /\ \A i \in DOMAIN record : record'[i] = record[i]
           /\ record'[Len(record) + 1] = [status |-> "GRANTED", expiry |-> p.expiry]
  <2>1. \A i \in DOMAIN record : ~ R!Effective(i)
        BY <1>1, <1>7 DEF MemoryFresh, R!CheckConsent
  <2>2. \A i \in DOMAIN record' : i \in DOMAIN record \/ i = Len(record) + 1
        BY <1>1, <1>6, <1>7
  <2>3. OneEffective'
        BY <1>7, <2>1, <2>2 DEF OneEffective, R!Effective
  <2>4. R!RevokeTakesEffect
        BY <1>2, <1>7 DEF R!RevokeTakesEffect, R!Idle
  <2> QED BY <1>4, <1>5, <2>3, <2>4 DEF TurnSound
<1>8. CASE /\ p.op # "grant" /\ Len(record') = Len(record)
           /\ \A i \in DOMAIN record :
                 /\ record'[i].expiry = record[i].expiry
                 /\ record'[i].status = IF p.op = "revoke" /\ p.index = i
                                        THEN "REVOKED" ELSE record[i].status
  <2>1. DOMAIN record' = DOMAIN record
        BY <1>1, <1>6, <1>8
  <2>2. \A i \in DOMAIN record :
           R!Effective(i)' => R!Effective(i) /\ ~ (p.op = "revoke" /\ p.index = i)
        BY <1>8 DEF R!Effective
  <2>3. OneEffective'
        BY <1>1, <2>1, <2>2 DEF OneEffective
  <2>4. p.op = "revoke" /\ R!Effective(p.index) => ~ R!CheckConsent'
    <3>1. p.op = "revoke" => p.index \in DOMAIN record
          BY DEF MemoriesInv, MemoryPlanInv
    <3> QED BY <1>1, <2>1, <2>2, <3>1 DEF OneEffective, R!CheckConsent
  <2>5. R!RevokeTakesEffect
        BY <1>2, <2>4 DEF R!RevokeTakesEffect, R!Idle
  <2> QED BY <1>4, <1>5, <2>3, <2>5 DEF TurnSound
<1> QED BY <1>7, <1>8, ConsentCommits

LEMMA MemoriesTurnStep ==
    ASSUME MemoriesInv, MemoriesTurn, turn' = turn, R!Next, InTurn(rworker', R!Idle)
    PROVE  MemoriesTurn' /\ (turn => TurnSound)
<1> SUFFICES ASSUME turn
             PROVE  MemoriesTurn' /\ TurnSound
    BY DEF MemoriesTurn
<1>1. /\ rworker \in [Workers -> R!Request] /\ record \in Seq(R!Record)
      /\ AtMostOne(rworker, R!Idle) /\ AtMostOne(rworker', R!Idle) /\ OneEffective
      /\ \A w \in Workers : MemoryFresh(rworker[w])
      BY DEF MemoriesInv, R!TypeOK, MemoriesTurn, InTurn
<1>2. ASSUME OneEffective', TurnSound, \A w \in Workers : MemoryFresh(rworker[w])'
      PROVE  MemoriesTurn' /\ TurnSound
      BY <1>1, <1>2 DEF MemoriesTurn, AtMostOne
<1>3. ASSUME UNCHANGED <<record, memory, expiry>>, NEW w \in Workers, NEW q, MemoryFresh(q),
             rworker' = [rworker EXCEPT ![w] = q], rworker[w].phase # "commit"
      PROVE  MemoriesTurn' /\ TurnSound
  <2>1. \A v \in Workers : MemoryFresh(rworker'[v])
        BY <1>1, <1>3
  <2>2. \A v \in Workers : MemoryFresh(rworker[v])'
        BY <1>3, <2>1 DEF MemoryFresh, R!CheckConsent, R!Effective
  <2>3. \A v \in Workers : rworker[v].phase = "commit" => rworker'[v] = rworker[v]
        BY <1>1, <1>3
  <2>4. TurnSound
        BY <1>3, <2>3 DEF TurnSound, R!RevokeTakesEffect, R!OnlyExpiredCleaned
  <2>5. OneEffective'
        BY <1>1, <1>3 DEF OneEffective, R!Effective
  <2> QED BY <1>2, <2>2, <2>4, <2>5
<1>4. ASSUME NEW w \in Workers, R!Serve(w) PROVE MemoriesTurn' /\ TurnSound
  <2>1. R!Idle.phase # "commit"
        BY DEF R!Idle
  <2> QED BY <1>3, <1>4, <2>1, MemoryServesFresh
<1>5. ASSUME NEW w \in Workers, R!Commit(w) PROVE MemoriesTurn' /\ TurnSound
      BY <1>2, <1>5, MemoryCommitsInTurn
<1>6. ASSUME NEW w \in Workers, R!LogAudit(w) PROVE MemoriesTurn' /\ TurnSound
  <2> DEFINE q == [rworker[w] EXCEPT !.pending = rworker[w].pending \cup {rworker[w].op},
                                     !.phase = IF rworker[w].capsule THEN "save" ELSE "close"]
  <2>1. /\ rworker' = [rworker EXCEPT ![w] = q] /\ rworker[w].phase = "log"
        /\ UNCHANGED <<record, memory, expiry>>
        BY <1>6 DEF R!LogAudit
  <2>2. MemoryFresh(q)
        BY <1>1 DEF MemoryFresh, R!Request
  <2> HIDE DEF q
  <2> QED BY <1>3, <2>1, <2>2
<1>7. ASSUME NEW w \in Workers, R!SaveAgain(w) PROVE MemoriesTurn' /\ TurnSound
  <2> DEFINE q == [rworker[w] EXCEPT !.pending = {}, !.phase = "close"]
  <2>1. /\ rworker' = [rworker EXCEPT ![w] = q] /\ rworker[w].phase = "save"
        /\ UNCHANGED <<record, memory, expiry>>
        BY <1>7 DEF R!SaveAgain
  <2>2. MemoryFresh(q)
        BY <1>1 DEF MemoryFresh, R!Request
  <2> HIDE DEF q
  <2> QED BY <1>3, <2>1, <2>2
<1>8. ASSUME NEW w \in Workers, R!Close(w) PROVE MemoriesTurn' /\ TurnSound
  <2>1. /\ rworker' = [rworker EXCEPT ![w] = R!Idle] /\ UNCHANGED <<record, memory, expiry>>
        BY <1>8 DEF R!Close, R!stored
  <2>2. \A v \in Workers : rworker'[v] \in {rworker[v], R!Idle}
        BY <1>1, <2>1
  <2>3. \A v \in Workers : MemoryFresh(rworker[v])'
        BY <1>1, <2>1, <2>2 DEF MemoryFresh, R!CheckConsent, R!Effective, R!Idle
  <2>4. TurnSound
        BY <2>1, <2>2 DEF TurnSound, R!RevokeTakesEffect, R!OnlyExpiredCleaned, R!Idle
  <2>5. OneEffective'
        BY <1>1, <2>1 DEF OneEffective, R!Effective
  <2> QED BY <1>2, <2>3, <2>4, <2>5
<1>9. CASE R!PassExpiry
  <2>1. /\ UNCHANGED <<memory, rworker>> /\ (expiry = "PAST" => expiry' = "PAST")
        /\ DOMAIN record' = DOMAIN record
        BY <1>1, <1>9, PassedRecords DEF R!PassExpiry
  <2>2. \A i \in DOMAIN record : R!Effective(i)' => R!Effective(i)
        BY <1>1, <1>9, PassedRecords DEF R!Effective
  <2>3. \A v \in Workers : MemoryFresh(rworker[v])'
        BY <1>1, <2>1, <2>2 DEF MemoryFresh, R!CheckConsent
  <2>4. TurnSound
        BY <2>1 DEF TurnSound, R!RevokeTakesEffect, R!OnlyExpiredCleaned
  <2>5. OneEffective'
        BY <1>1, <2>1, <2>2 DEF OneEffective
  <2> QED BY <1>2, <2>3, <2>4, <2>5
<1> QED BY <1>4, <1>5, <1>6, <1>7, <1>8, <1>9 DEF R!Next

(* With any interleaving: a deleted memory's row stays deleted, a revoked  *)
(* consent stays revoked.                                                  *)
GoneStay ==
    /\ memory = "DELETED" => memory' = "DELETED"
    /\ \A i \in DOMAIN record : record[i].status = "REVOKED" => record'[i].status = "REVOKED"

LEMMA GoneStays == MemoriesInv /\ [R!Next]_(R!vars) => GoneStay
<1> SUFFICES ASSUME MemoriesInv, R!Next PROVE GoneStay
    BY DEF R!vars, GoneStay
<1>1. record \in Seq(R!Record)
      BY DEF MemoriesInv, R!TypeOK
<1>2. ASSUME UNCHANGED <<record, memory>> PROVE GoneStay
      BY <1>2 DEF GoneStay
<1>3. ASSUME NEW w \in Workers, R!Commit(w) PROVE GoneStay
  <2>1. memory = "DELETED" => rworker[w].op # "write"
        BY <1>3 DEF MemoriesInv, MemoryPlanInv, R!Commit
  <2>2. memory = "DELETED" => memory' = "DELETED"
        BY <1>3, <2>1 DEF R!Commit, R!Write
  <2>3. \A i \in DOMAIN record : record[i].status = "REVOKED" => record'[i].status = "REVOKED"
        BY <1>3, ConsentCommits
  <2> QED BY <2>2, <2>3 DEF GoneStay
<1>4. ASSUME NEW w \in Workers, R!Serve(w) PROVE GoneStay
      BY <1>2, <1>4, MemoryServesFresh
<1>5. ASSUME NEW w \in Workers, R!LogAudit(w) \/ R!SaveAgain(w) \/ R!Close(w)
      PROVE  GoneStay
      BY <1>2, <1>5 DEF R!LogAudit, R!SaveAgain, R!Close, R!stored
<1>6. CASE R!PassExpiry
      BY <1>1, <1>6, PassedRecords DEF R!PassExpiry, GoneStay
<1> QED BY <1>3, <1>4, <1>5, <1>6 DEF R!Next

LEMMA MemoriesSteps ==
    [PeopleNext]_peopleVars =>
        /\ turn' = turn
        /\ \/ R!Next /\ InTurn(rworker', R!Idle)
           \/ UNCHANGED R!vars
BY DEF PeopleNext, peopleVars, rvars, R!vars

(* Memories and consents, with any number of workers and records: what is  *)
(* gone stays gone and audit rows tell the truth under any interleaving;   *)
(* in turn, a revocation leaves no consent in effect and the clean-up      *)
(* takes expired memories only.                                            *)
THEOREM MemoriesAreSound == PeopleSpec => MemoriesSound
<1>1. PeopleInit => MemoriesInv /\ MemoriesTurn
  <2> SUFFICES ASSUME PeopleInit PROVE MemoriesInv /\ MemoriesTurn
      OBVIOUS
  <2>1. R!Init
        BY DEF PeopleInit
  <2>2. MemoriesTurn
        BY <2>1 DEF R!Init, MemoriesTurn, AtMostOne, MemoryFresh, R!Idle, OneEffective
  <2> QED BY <2>1, <2>2, MemoriesStart
<1>2. MemoriesInv /\ MemoriesTurn /\ [PeopleNext]_peopleVars
        => MemoriesInv' /\ MemoriesTurn' /\ [turn => TurnSound]_peopleVars
  <2> SUFFICES ASSUME MemoriesInv, MemoriesTurn, [PeopleNext]_peopleVars
               PROVE  MemoriesInv' /\ MemoriesTurn' /\ (turn => TurnSound)
      OBVIOUS
  <2>1. CASE R!Next /\ InTurn(rworker', R!Idle)
        BY <2>1, MemoriesSteps, MemoriesInductive, MemoriesTurnStep
  <2>2. CASE UNCHANGED R!vars
    <3>1. MemoriesInv' /\ turn' = turn
          BY <2>2, MemoriesSteps, MemoriesInductive
    <3>2. UNCHANGED <<record, memory, expiry, rworker>>
          BY <2>2 DEF R!vars
    <3> QED BY <3>1, <3>2 DEF MemoriesTurn, AtMostOne, OneEffective, MemoryFresh,
            R!CheckConsent, R!Effective, TurnSound, R!RevokeTakesEffect, R!OnlyExpiredCleaned
  <2> QED BY <2>1, <2>2, MemoriesSteps
<1>3. MemoriesInv /\ [PeopleNext]_peopleVars => [GoneStay]_(R!vars)
      BY MemoriesSteps, GoneStays
<1>4. MemoriesInv => R!TypeOK /\ R!AuditTruthful
      BY DEF MemoriesInv
<1> QED BY <1>1, <1>2, <1>3, <1>4, PTL DEF PeopleSpec, MemoriesSound, R!GoneForGood, TurnSound,
        GoneStay

(***************************************************************************)
(* The personal agent                                                      *)
(***************************************************************************)
RouteKept(route) ==
    /\ route \in W!Route /\ IsFiniteSet(route.profiles)
    /\ route.profiles \subseteq issued
    /\ route.active \in route.profiles \cup {W!Platform}
    /\ Cardinality(route.profiles) <= Limit

RoutesKept == \A i \in DOMAIN agent : RouteKept(agent[i])

(* What a request is about to write is a sound route, however old the      *)
(* route was that it started from.                                         *)
RoutePlanInv(r) ==
    /\ RouteKept(r.route) /\ r.gone \subseteq issued
    /\ r.op \in {"update", "delete"} => r.index \in DOMAIN agent

Talks(r) == r.op \in {"question", "ask", "answer"}
Asked(r) == IF r.op = "answer" THEN r.message.answers ELSE r.message.at

(* A chat under way has a question of its own that nobody has answered.    *)
ChatPlanInv(r) ==
    /\ Talks(r) => /\ Asked(r) \in 1..clock
                   /\ \A n \in thread : n.answers # Asked(r)
    /\ r.op \in {"question", "ask"} => r.message.answers = 0
    /\ r.op = "question" => \A n \in r.prompt : n.at < r.message.at
    /\ r.op = "ask" => r.message \in thread \cap r.prompt
    /\ r.op = "answer" =>
          /\ r.message.via # "rule" /\ r.message.at <= clock
          /\ \E q \in thread : /\ q.at = r.message.answers /\ q.answers = 0
                               /\ q.at < r.message.at

OwnQuestions ==
    \A v, w \in Workers :
        Talks(wworker[v]) /\ Talks(wworker[w]) /\ Asked(wworker[v]) = Asked(wworker[w]) => v = w

ThreadInv ==
    /\ W!AnswersAttributed
    /\ \A n \in thread : n.at <= clock /\ n.answers <= clock

WorkspaceInv ==
    /\ W!TypeOK /\ ThreadInv /\ OwnQuestions /\ deleted \subseteq issued
    /\ RoutesKept
    /\ \A w \in Workers : RoutePlanInv(wworker[w]) /\ ChatPlanInv(wworker[w])

(* The library's count is the one that Workspace uses. *)
LEMMA SameCount == \A S : W!Cardinality(S) = Cardinality(S)
BY DEF W!Cardinality, Cardinality

LEMMA NewRouteKept == W!NewRoute \in W!Route /\ RouteKept(W!NewRoute)
<1>1. IsFiniteSet({}) /\ Cardinality({}) = 0
      BY FS_EmptySet
<1> QED BY <1>1, WorkspaceParameters DEF RouteKept, W!NewRoute, W!Route, W!SizesAssumption

LEMMA IdleRequest ==
    /\ W!Idle \in W!Request /\ W!Idle.op = "idle" /\ W!Idle.index = 0
    /\ W!Idle.route = W!NewRoute /\ W!Idle.gone = {} /\ W!Idle.prompt = {}
    /\ W!Idle.message = W!NoMessage
    /\ RoutePlanInv(W!Idle) /\ ChatPlanInv(W!Idle)
BY NewRouteKept DEF W!Idle, W!Request, W!Op, W!NoMessage, W!Message, RoutePlanInv, ChatPlanInv,
   Talks

LEMMA WorkspaceStart == W!Init => WorkspaceInv
<1> SUFFICES ASSUME W!Init PROVE WorkspaceInv
    OBVIOUS
<1>1. W!TypeOK
      BY IdleRequest DEF W!Init, W!TypeOK
<1>2. ThreadInv /\ OwnQuestions
      BY IdleRequest DEF W!Init, ThreadInv, W!AnswersAttributed, OwnQuestions, Talks
<1>3. RoutesKept /\ deleted \subseteq issued
      BY DEF W!Init, RoutesKept
<1>4. \A w \in Workers : wworker[w] = W!Idle
      BY DEF W!Init
<1> QED BY <1>1, <1>2, <1>3, <1>4, IdleRequest DEF WorkspaceInv

(* What a step adds to the thread answers the worker's own question, if    *)
(* any.                                                                    *)
AnswersOwn(w) ==
    \A n \in thread' \ thread :
        n.answers = 0 \/ (Talks(wworker[w]) /\ n.answers = Asked(wworker[w]))

(* A step of one request keeps the others' plans: rows, identifiers and    *)
(* messages are only added, and an answer goes to the worker's question.   *)
LEMMA WorkspaceKeep ==
    ASSUME WorkspaceInv, NEW w \in Workers, NEW q \in W!Request,
           wworker' = [wworker EXCEPT ![w] = q],
           RoutePlanInv(wworker[w])', ChatPlanInv(wworker[w])',
           Talks(q) => \/ Asked(q) > clock
                       \/ Talks(wworker[w]) /\ Asked(q) = Asked(wworker[w]),
           agent' \in Seq(W!Route), DOMAIN agent \subseteq DOMAIN agent',
           RoutesKept',
           issued \subseteq issued', issued' \subseteq Profiles, deleted' \subseteq issued',
           clock' \in Nat, clock <= clock', ThreadInv',
           thread \subseteq thread', thread' \subseteq W!Message,
           AnswersOwn(w)
    PROVE  WorkspaceInv'
<1>1. /\ wworker \in [Workers -> W!Request] /\ wworker' \in [Workers -> W!Request]
      /\ wworker'[w] = q /\ clock \in Nat
      /\ \A v \in Workers : v # w => wworker'[v] = wworker[v]
      BY DEF WorkspaceInv, W!TypeOK
<1>2. W!TypeOK' /\ (deleted \subseteq issued)'
      BY <1>1 DEF W!TypeOK
<1>3. \A v \in Workers : Talks(wworker[v]) => Asked(wworker[v]) \in 1..clock
      BY DEF WorkspaceInv, ChatPlanInv
<1>4. OwnQuestions'
  <2>1. ASSUME NEW v \in Workers, v # w, Talks(wworker[v]), Talks(q)
        PROVE  Asked(wworker[v]) # Asked(q)
    <3>1. CASE Asked(q) > clock
          BY <1>1, <1>3, <2>1, <3>1
    <3>2. CASE Talks(wworker[w]) /\ Asked(q) = Asked(wworker[w])
          BY <2>1, <3>2 DEF WorkspaceInv, OwnQuestions
    <3> QED BY <2>1, <3>1, <3>2
  <2>2. ASSUME NEW u \in Workers, NEW v \in Workers, Talks(wworker'[u]), Talks(wworker'[v]),
               Asked(wworker'[u]) = Asked(wworker'[v]), u # v
        PROVE  FALSE
    <3>1. CASE u = w
          BY <1>1, <2>1, <2>2, <3>1
    <3>2. CASE v = w
          BY <1>1, <2>1, <2>2, <3>2
    <3>3. CASE u # w /\ v # w
          BY <1>1, <2>2, <3>3 DEF WorkspaceInv, OwnQuestions
    <3> QED BY <3>1, <3>2, <3>3
  <2> QED BY <2>2 DEF OwnQuestions, Talks, Asked
<1>5. ASSUME NEW v \in Workers
      PROVE  RoutePlanInv(wworker[v])' /\ ChatPlanInv(wworker[v])'
  <2>1. CASE v = w
        BY <2>1
  <2>2. CASE v # w
    <3> DEFINE r == wworker[v]
    <3>1. wworker'[v] = r /\ RoutePlanInv(r) /\ ChatPlanInv(r) /\ r \in W!Request
          BY <1>1, <2>2 DEF WorkspaceInv
    <3>2. RoutePlanInv(wworker[v])'
          BY <3>1 DEF RoutePlanInv, RouteKept
    <3>3. Talks(r) => \A n \in thread' : n.answers # Asked(r)
          BY <1>3, <2>2, <3>1 DEF ChatPlanInv, WorkspaceInv, OwnQuestions, AnswersOwn
    <3>4. Talks(r) => Asked(r) \in 1..clock'
          BY <1>1, <1>3
    <3>5. r.op = "answer" => r.message.at <= clock'
          BY <1>1, <3>1 DEF ChatPlanInv, W!Request, W!Message
    <3> HIDE DEF r
    <3>6. ChatPlanInv(r)'
          BY <3>1, <3>3, <3>4, <3>5 DEF ChatPlanInv, r, Talks, Asked
    <3> QED BY <3>1, <3>2, <3>6 DEF r
  <2> QED BY <2>1, <2>2
<1> QED BY <1>2, <1>4, <1>5 DEF WorkspaceInv

LEMMA WorkspaceServes ==
    ASSUME WorkspaceInv, NEW w \in Workers, W!Serve(w)
    PROVE  WorkspaceInv'
<1>1. /\ W!TypeOK /\ ThreadInv /\ deleted \subseteq issued /\ clock \in Nat
      /\ wworker \in [Workers -> W!Request]
      /\ \A i \in DOMAIN agent : RouteKept(agent[i]) /\ i \in Nat
      BY DEF WorkspaceInv, RoutesKept, W!TypeOK
<1>2. ASSUME NEW q \in W!Request, W!Begin(w, q), RoutePlanInv(wworker[w])',
             q.op \in {"create", "update", "delete"},
             issued \subseteq issued', issued' \subseteq Profiles, clock' = clock
      PROVE  WorkspaceInv'
  <2>1. /\ wworker' = [wworker EXCEPT ![w] = q] /\ wworker'[w] = q
        /\ UNCHANGED <<agent, deleted, thread>>
        BY <1>1, <1>2 DEF W!Begin
  <2>2. ChatPlanInv(wworker[w])' /\ ~ Talks(q)
        BY <1>2, <2>1 DEF ChatPlanInv, Talks
  <2>3. ThreadInv' /\ RoutesKept'
        BY <1>1, <1>2, <2>1 DEF ThreadInv, W!AnswersAttributed, RoutesKept, RouteKept
  <2>4. /\ agent' \in Seq(W!Route) /\ DOMAIN agent \subseteq DOMAIN agent'
        /\ deleted' \subseteq issued' /\ clock' \in Nat /\ clock <= clock'
        /\ thread \subseteq thread' /\ thread' \subseteq W!Message /\ AnswersOwn(w)
        BY <1>1, <1>2, <2>1 DEF W!TypeOK, AnswersOwn
  <2> QED BY <1>2, <2>1, <2>2, <2>3, <2>4, WorkspaceKeep
<1>3. CASE W!CreatePersonalAgent(w)
  <2> DEFINE q == [W!Idle EXCEPT !.op = "create"]
  <2>1. /\ q \in W!Request /\ q.op = "create" /\ q.route = W!NewRoute /\ q.gone = {}
        BY IdleRequest DEF W!Request, W!Op
  <2>2. /\ W!Begin(w, q) /\ UNCHANGED <<agent, issued, clock>>
        BY <1>3 DEF W!CreatePersonalAgent, W!Begin
  <2>3. wworker'[w] = q
        BY <1>1, <2>2 DEF W!Begin
  <2> HIDE DEF q
  <2>4. RoutePlanInv(wworker[w])'
        BY <2>1, <2>2, <2>3, NewRouteKept DEF RoutePlanInv, RouteKept
  <2> QED BY <1>1, <1>2, <2>1, <2>2, <2>4 DEF W!TypeOK
<1>4. ASSUME NEW q \in W!Request, W!Begin(w, q), q.op \in {"update", "delete"},
             q.index \in DOMAIN agent, q.gone \subseteq issued',
             IsFiniteSet(q.route.profiles), q.route.profiles \subseteq issued',
             q.route.active \in q.route.profiles \cup {W!Platform},
             Cardinality(q.route.profiles) <= Limit,
             issued \subseteq issued', issued' \subseteq Profiles, clock' = clock
      PROVE  WorkspaceInv'
  <2>1. wworker'[w] = q /\ agent' = agent /\ q.route \in W!Route
        BY <1>1, <1>4 DEF W!Begin, W!Request
  <2>2. RoutePlanInv(wworker[w])'
        BY <1>4, <2>1 DEF RoutePlanInv, RouteKept
  <2> QED BY <1>2, <1>4, <2>2
<1>5. ASSUME NEW i \in DOMAIN agent, NEW route \in W!Route, NEW op \in {"update", "delete"}
      PROVE  LET q == W!Saving(i, op, route) IN
             /\ q \in W!Request /\ q.op = op /\ q.index = i /\ q.route = route /\ q.gone = {}
      BY <1>1, IdleRequest DEF W!Saving, W!Request, W!Op
<1>6. ASSUME NEW i \in DOMAIN agent, W!UsePlatform(w, i) PROVE WorkspaceInv'
  <2> DEFINE route == [agent[i] EXCEPT !.active = W!Platform]
             q == W!Saving(i, "update", route)
  <2>1. /\ route \in W!Route /\ route.profiles = agent[i].profiles
        /\ route.active = W!Platform
        BY <1>1, <1>6 DEF RouteKept, W!Route
  <2>2. W!Begin(w, q) /\ UNCHANGED <<issued, clock>>
        BY <1>6 DEF W!UsePlatform
  <2> HIDE DEF route
  <2>3. q \in W!Request /\ q.op = "update" /\ q.index = i /\ q.route = route /\ q.gone = {}
        BY <1>5, <2>1
  <2> HIDE DEF q
  <2> QED BY <1>1, <1>4, <2>1, <2>2, <2>3 DEF RouteKept, W!TypeOK
<1>7. ASSUME NEW i \in DOMAIN agent, NEW p \in Profiles, W!UpdateAgentModelRoute(w, i, p)
      PROVE  WorkspaceInv'
  <2> DEFINE route == [active |-> p, profiles |-> agent[i].profiles \cup {p}]
             q == W!Saving(i, "update", route)
  <2>1. /\ IsFiniteSet(agent[i].profiles) /\ agent[i].profiles \subseteq Profiles
        /\ Cardinality(agent[i].profiles) \in Nat
        /\ Cardinality(agent[i].profiles) <= Limit /\ agent[i].profiles \subseteq issued
        BY <1>1, <1>7, FS_CardinalityType DEF RouteKept, W!Route
  <2>2. route \in W!Route /\ route.profiles = agent[i].profiles \cup {p} /\ route.active = p
        BY <2>1 DEF W!Route
  <2>3. IsFiniteSet(route.profiles) /\ Cardinality(route.profiles) <= Limit
    <3>1. p \in agent[i].profiles \/ Cardinality(agent[i].profiles) < Limit
          BY <1>7, SameCount DEF W!UpdateAgentModelRoute
    <3>2. /\ IsFiniteSet(agent[i].profiles \cup {p})
          /\ Cardinality(agent[i].profiles \cup {p}) =
                IF p \in agent[i].profiles THEN Cardinality(agent[i].profiles)
                ELSE Cardinality(agent[i].profiles) + 1
          BY <2>1, FS_AddElement
    <3> QED BY <2>1, <2>2, <3>1, <3>2, WorkspaceParameters DEF W!SizesAssumption
  <2>4. W!Begin(w, q) /\ issued' = issued \cup {p} /\ clock' = clock
        BY <1>7 DEF W!UpdateAgentModelRoute
  <2> HIDE DEF route
  <2>5. q \in W!Request /\ q.op = "update" /\ q.index = i /\ q.route = route /\ q.gone = {}
        BY <1>5, <2>2
  <2> HIDE DEF q
  <2> QED BY <1>1, <1>4, <2>1, <2>2, <2>3, <2>4, <2>5 DEF W!TypeOK
<1>8. ASSUME NEW i \in DOMAIN agent, NEW p \in Profiles, W!DeleteProfile(w, i, p)
      PROVE  WorkspaceInv'
  <2> DEFINE route == [active |-> IF agent[i].active = p THEN W!Platform ELSE agent[i].active,
                       profiles |-> agent[i].profiles \ {p}]
             plan == W!Saving(i, "delete", route)
             q == [plan EXCEPT !.gone = {p}]
  <2>1. /\ IsFiniteSet(agent[i].profiles) /\ agent[i].profiles \subseteq Profiles
        /\ Cardinality(agent[i].profiles) \in Nat
        /\ Cardinality(agent[i].profiles) <= Limit /\ agent[i].profiles \subseteq issued
        /\ agent[i].active \in agent[i].profiles \cup {W!Platform}
        /\ p \in agent[i].profiles
        BY <1>1, <1>8, FS_CardinalityType DEF RouteKept, W!Route, W!DeleteProfile
  <2>2. /\ route.profiles = agent[i].profiles \ {p}
        /\ route.active \in route.profiles \cup {W!Platform} /\ route \in W!Route
        BY <2>1 DEF W!Route
  <2>3. IsFiniteSet(route.profiles) /\ Cardinality(route.profiles) <= Limit
        BY <2>1, <2>2, FS_RemoveElement, WorkspaceParameters DEF W!SizesAssumption
  <2>4. W!Begin(w, q) /\ UNCHANGED <<issued, clock>>
        BY <1>8 DEF W!DeleteProfile
  <2> HIDE DEF route
  <2>5. /\ plan \in W!Request /\ plan.op = "delete" /\ plan.index = i /\ plan.route = route
        BY <1>5, <2>2
  <2> HIDE DEF plan
  <2>6. q \in W!Request /\ q.op = "delete" /\ q.index = i /\ q.route = route /\ q.gone = {p}
        BY <2>5 DEF W!Request
  <2> HIDE DEF q
  <2> QED BY <1>1, <1>4, <2>1, <2>2, <2>3, <2>4, <2>6 DEF W!TypeOK
<1>9. ASSUME NEW i \in DOMAIN agent, W!Ask(w, i) PROVE WorkspaceInv'
  <2> DEFINE message == [W!NoMessage EXCEPT !.at = clock + 1]
             q == [W!Idle EXCEPT !.op = "question", !.index = i, !.route = agent[i],
                                 !.message = message, !.prompt = thread]
  <2>1. /\ message \in W!Message /\ message.at = clock + 1 /\ message.answers = 0
        BY <1>1 DEF W!Message, W!NoMessage
  <2>2. /\ q \in W!Request /\ q.op = "question" /\ q.route = agent[i] /\ q.gone = {}
        /\ q.message = message /\ q.prompt = thread
    <3> HIDE DEF message
    <3> QED BY <1>1, <2>1, IdleRequest DEF W!Request, W!Op, W!TypeOK, RouteKept
  <2>3. /\ wworker' = [wworker EXCEPT ![w] = q] /\ wworker'[w] = q /\ clock' = clock + 1
        /\ UNCHANGED <<agent, issued, deleted, thread>>
        BY <1>1, <1>9 DEF W!Ask, W!Begin
  <2> HIDE DEF q, message
  <2>4. \A n \in thread : n.at \in Nat /\ n.answers \in Nat /\ n.at <= clock /\ n.answers <= clock
        BY <1>1 DEF W!TypeOK, ThreadInv, W!Message
  <2>5. ChatPlanInv(wworker[w])' /\ Asked(q) > clock
        BY <1>1, <2>1, <2>2, <2>3, <2>4 DEF ChatPlanInv, Talks, Asked
  <2>6. RoutePlanInv(wworker[w])' /\ RoutesKept'
        BY <1>1, <2>2, <2>3 DEF RoutePlanInv, RoutesKept, RouteKept
  <2>7. ThreadInv'
        BY <1>1, <2>3, <2>4 DEF ThreadInv, W!AnswersAttributed
  <2>8. /\ agent' \in Seq(W!Route) /\ DOMAIN agent \subseteq DOMAIN agent'
        /\ deleted' \subseteq issued' /\ clock' \in Nat /\ clock <= clock'
        /\ thread \subseteq thread' /\ thread' \subseteq W!Message /\ AnswersOwn(w)
        /\ issued \subseteq issued' /\ issued' \subseteq Profiles
        BY <1>1, <2>3 DEF W!TypeOK, AnswersOwn
  <2> QED BY <2>2, <2>3, <2>5, <2>6, <2>7, <2>8, WorkspaceKeep
<1> QED BY <1>3, <1>6, <1>7, <1>8, <1>9 DEF W!Serve

LEMMA RouteCommits ==
    ASSUME WorkspaceInv, NEW w \in Workers, W!Commit(w)
    PROVE  /\ agent' \in Seq(W!Route) /\ DOMAIN agent \subseteq DOMAIN agent'
           /\ \/ /\ wworker[w].op = "create" /\ Len(agent') = Len(agent) + 1
                 /\ \A i \in DOMAIN agent : agent'[i] = agent[i]
                 /\ agent'[Len(agent) + 1] = W!NewRoute
              \/ /\ wworker[w].op \in {"update", "delete"} /\ Len(agent') = Len(agent)
                 /\ \A i \in DOMAIN agent :
                       agent'[i] = IF i = wworker[w].index THEN wworker[w].route ELSE agent[i]
<1>1. /\ agent \in Seq(W!Route) /\ wworker[w].route \in W!Route /\ RoutePlanInv(wworker[w])
      BY DEF WorkspaceInv, W!TypeOK, W!Request
<1>2. CASE wworker[w].op = "create" /\ agent' = Append(agent, W!NewRoute)
      BY <1>1, <1>2, NewRouteKept
<1>3. CASE /\ wworker[w].op \in {"update", "delete"}
           /\ agent' = [agent EXCEPT ![wworker[w].index] = wworker[w].route]
  <2> DEFINE k == wworker[w].index
             route == wworker[w].route
  <2>1. k \in DOMAIN agent
        BY <1>1, <1>3 DEF RoutePlanInv
  <2>2. agent' = [agent EXCEPT ![k] = route] /\ route \in W!Route
        BY <1>1, <1>3
  <2>3. /\ agent' \in Seq(W!Route) /\ Len(agent') = Len(agent)
        /\ \A i \in DOMAIN agent : agent'[i] = IF i = k THEN route ELSE agent[i]
    <3> HIDE DEF k, route
    <3> QED BY <1>1, <2>1, <2>2
  <2> QED BY <1>1, <1>3, <2>3
<1> QED BY <1>2, <1>3 DEF W!Commit

LEMMA WorkspaceCommits ==
    ASSUME WorkspaceInv, NEW w \in Workers, W!Commit(w)
    PROVE  WorkspaceInv'
<1>1. /\ W!TypeOK /\ ThreadInv /\ deleted \subseteq issued /\ clock \in Nat
      /\ RoutePlanInv(wworker[w]) /\ W!Idle \in W!Request
      BY IdleRequest DEF WorkspaceInv, W!TypeOK
<1>2. /\ wworker' = [wworker EXCEPT ![w] = W!Idle] /\ wworker'[w] = W!Idle
      /\ deleted' = deleted \cup wworker[w].gone
      /\ UNCHANGED <<issued, thread, clock>>
      BY <1>1 DEF W!Commit, W!TypeOK
<1>3. /\ agent' \in Seq(W!Route) /\ DOMAIN agent \subseteq DOMAIN agent'
      BY RouteCommits
<1>4. RoutesKept'
  <2> SUFFICES ASSUME NEW i \in DOMAIN agent' PROVE RouteKept(agent'[i])
      BY <1>2 DEF RoutesKept, RouteKept
  <2>1. \/ agent'[i] \in {W!NewRoute, wworker[w].route}
        \/ i \in DOMAIN agent /\ agent'[i] = agent[i]
    <3>1. agent \in Seq(W!Route)
          BY <1>1 DEF W!TypeOK
    <3> QED BY <1>3, <3>1, RouteCommits
  <2> QED BY <1>1, <2>1, NewRouteKept DEF RoutePlanInv, WorkspaceInv, RoutesKept
<1>5. RoutePlanInv(wworker[w])' /\ ChatPlanInv(wworker[w])' /\ ~ Talks(W!Idle)
      BY <1>2, IdleRequest DEF RoutePlanInv, RouteKept, ChatPlanInv, Talks
<1>6. ThreadInv'
      BY <1>1, <1>2 DEF ThreadInv, W!AnswersAttributed
<1>7. /\ deleted' \subseteq issued' /\ clock' \in Nat /\ clock <= clock'
      /\ thread \subseteq thread' /\ thread' \subseteq W!Message /\ AnswersOwn(w)
      /\ issued \subseteq issued' /\ issued' \subseteq Profiles
      BY <1>1, <1>2 DEF W!TypeOK, RoutePlanInv, AnswersOwn
<1> QED BY <1>1, <1>2, <1>3, <1>4, <1>5, <1>6, <1>7, WorkspaceKeep

(* Nothing in what was loaded is newer than the question, so it is among   *)
(* the latest.                                                             *)
LEMMA QuestionIsLatest ==
    ASSUME NEW messages, NEW m \in messages, \A n \in messages : ~ n.at > m.at
    PROVE  m \in W!Latest(messages)
<1>1. {n \in messages : n.at > m.at} = {}
      OBVIOUS
<1>2. W!Cardinality({}) = 0
      BY FS_EmptySet, SameCount
<1> QED BY <1>1, <1>2, WorkspaceParameters DEF W!Latest, W!SizesAssumption

LEMMA QuestionSaves ==
    ASSUME WorkspaceInv, NEW w \in Workers, W!SaveQuestion(w)
    PROVE  WorkspaceInv'
<1> DEFINE r == wworker[w]
           prompt == W!Latest(r.prompt \cup {r.message})
           q == [r EXCEPT !.op = "ask", !.prompt = prompt]
<1>1. /\ W!TypeOK /\ ThreadInv /\ deleted \subseteq issued /\ clock \in Nat /\ RoutesKept
      /\ RoutePlanInv(r) /\ ChatPlanInv(r) /\ r \in W!Request /\ r.op = "question"
      /\ wworker \in [Workers -> W!Request]
      BY DEF WorkspaceInv, W!TypeOK, W!SaveQuestion
<1>2. /\ r.message \in W!Message /\ r.message.at \in 1..clock /\ r.message.answers = 0
      /\ \A n \in thread : n.answers # r.message.at
      BY <1>1 DEF W!Request, ChatPlanInv, Talks, Asked
<1>3. r.message \in prompt /\ prompt \subseteq W!Message
  <2>1. \A n \in r.prompt \cup {r.message} : ~ n.at > r.message.at
    <3>1. \A n \in r.prompt : n.at \in Nat /\ n.at < r.message.at
          BY <1>1 DEF ChatPlanInv, W!Request, W!Message
    <3> QED BY <1>2, <3>1
  <2>2. r.message \in prompt
        BY <2>1, QuestionIsLatest
  <2> QED BY <1>1, <2>2 DEF W!Latest, W!Request
<1> HIDE DEF prompt
<1>4. /\ q \in W!Request /\ q.op = "ask" /\ q.message = r.message /\ q.prompt = prompt
      /\ q.route = r.route /\ q.gone = r.gone /\ q.index = r.index
      BY <1>1, <1>3 DEF W!Request, W!Op
<1>5. /\ wworker' = [wworker EXCEPT ![w] = q] /\ thread' = thread \cup {r.message}
      /\ UNCHANGED <<agent, issued, deleted, clock>>
      BY DEF W!SaveQuestion, prompt
<1> HIDE DEF q
<1>6. wworker'[w] = q
      BY <1>1, <1>5
<1>7. /\ agent' \in Seq(W!Route) /\ DOMAIN agent \subseteq DOMAIN agent' /\ RoutesKept'
      /\ deleted' \subseteq issued' /\ clock' \in Nat /\ clock <= clock'
      /\ issued \subseteq issued' /\ issued' \subseteq Profiles
      BY <1>1, <1>5 DEF W!TypeOK, RoutesKept, RouteKept
<1>8. thread \subseteq thread' /\ thread' \subseteq W!Message
      BY <1>1, <1>2, <1>5 DEF W!TypeOK
<1>9. RoutePlanInv(wworker[w])'
      BY <1>1, <1>4, <1>5, <1>6 DEF RoutePlanInv, RouteKept
<1>10. ChatPlanInv(wworker[w])'
  <2>1. \A n \in thread' : n.answers # r.message.at
        BY <1>2, <1>5
  <2> HIDE DEF r
  <2> QED BY <1>2, <1>3, <1>4, <1>5, <1>6, <2>1 DEF ChatPlanInv, Talks, Asked
<1>11. ThreadInv'
  <2>1. \A n \in thread' : n.at <= clock /\ n.answers <= clock
        BY <1>1, <1>2, <1>5 DEF ThreadInv
  <2>2. W!AnswersAttributed'
    <3> SUFFICES ASSUME NEW m \in thread', m.answers # 0
                 PROVE  /\ m.via # "rule"
                        /\ \E n \in thread' : n.at = m.answers /\ n.answers = 0 /\ n.at < m.at
                        /\ \A n \in thread' : n.answers = m.answers => n = m
        BY DEF W!AnswersAttributed
    <3>1. m \in thread
          BY <1>2, <1>5
    <3> QED BY <1>1, <1>2, <1>5, <3>1 DEF ThreadInv, W!AnswersAttributed
  <2> QED BY <1>5, <2>1, <2>2 DEF ThreadInv
<1>12. Talks(q) => Talks(wworker[w]) /\ Asked(q) = Asked(wworker[w])
      BY <1>1, <1>4 DEF Talks, Asked
<1>13. AnswersOwn(w)
      BY <1>2, <1>5 DEF AnswersOwn
<1>14. q \in W!Request /\ wworker' = [wworker EXCEPT ![w] = q]
      BY <1>4, <1>5
<1> QED BY <1>7, <1>8, <1>9, <1>10, <1>11, <1>12, <1>13, <1>14, WorkspaceKeep

LEMMA AnswerIsTaken ==
    ASSUME WorkspaceInv, NEW w \in Workers, W!TakeAnswer(w)
    PROVE  WorkspaceInv'
<1> DEFINE r == wworker[w]
           answer == [at |-> clock + 1, answers |-> r.message.at, via |-> r.route.active]
           q == [r EXCEPT !.op = "answer", !.message = answer]
<1>1. /\ W!TypeOK /\ ThreadInv /\ deleted \subseteq issued /\ clock \in Nat /\ RoutesKept
      /\ RoutePlanInv(r) /\ ChatPlanInv(r) /\ r \in W!Request /\ r.op = "ask"
      /\ wworker \in [Workers -> W!Request]
      BY DEF WorkspaceInv, W!TypeOK, W!TakeAnswer
<1>2. /\ r.message \in thread /\ r.message.at \in 1..clock /\ r.message.answers = 0
      /\ \A n \in thread : n.answers # r.message.at
      BY <1>1 DEF ChatPlanInv, Talks, Asked
<1>3. /\ answer \in W!Message /\ answer.answers = r.message.at /\ answer.at = clock + 1
      /\ answer.via # "rule"
  <2>1. r.route.active \in Profiles \cup {W!Platform}
        BY <1>1 DEF W!Request, W!Route
  <2>2. r.route.active # "rule"
        BY <2>1, WorkspaceParameters DEF W!ProfilesAssumption, W!Platform
  <2> QED BY <1>1, <1>2, <2>1, <2>2 DEF W!Message
<1> HIDE DEF answer
<1>4. /\ q \in W!Request /\ q.op = "answer" /\ q.message = answer /\ q.prompt = r.prompt
      /\ q.route = r.route /\ q.gone = r.gone /\ q.index = r.index
      BY <1>1, <1>3 DEF W!Request, W!Op
<1>5. /\ wworker' = [wworker EXCEPT ![w] = q] /\ clock' = clock + 1
      /\ UNCHANGED <<agent, issued, deleted, thread>>
      BY DEF W!TakeAnswer, answer
<1> HIDE DEF q
<1>6. wworker'[w] = q
      BY <1>1, <1>5
<1>7. /\ agent' \in Seq(W!Route) /\ DOMAIN agent \subseteq DOMAIN agent' /\ RoutesKept'
      /\ deleted' \subseteq issued' /\ clock' \in Nat /\ clock <= clock'
      /\ issued \subseteq issued' /\ issued' \subseteq Profiles
      /\ thread \subseteq thread' /\ thread' \subseteq W!Message /\ AnswersOwn(w)
      BY <1>1, <1>5 DEF W!TypeOK, RoutesKept, RouteKept, AnswersOwn
<1>8. RoutePlanInv(wworker[w])'
      BY <1>1, <1>4, <1>5, <1>6 DEF RoutePlanInv, RouteKept
<1>9. ChatPlanInv(wworker[w])'
  <2>1. r.message.at < clock' /\ r.message.at \in 1..clock' /\ answer.at = clock'
        BY <1>1, <1>2, <1>3, <1>5
  <2> HIDE DEF r
  <2> QED BY <1>1, <1>2, <1>3, <1>4, <1>5, <1>6, <2>1 DEF ChatPlanInv, Talks, Asked
<1>10. ThreadInv'
  <2>1. \A n \in thread : n.at \in Nat /\ n.answers \in Nat /\ n.at <= clock /\ n.answers <= clock
        BY <1>1 DEF ThreadInv, W!TypeOK, W!Message
  <2> QED BY <1>1, <1>5, <2>1 DEF ThreadInv, W!AnswersAttributed
<1>11. Talks(r) /\ Asked(q) = Asked(r)
      BY <1>1, <1>3, <1>4 DEF Talks, Asked
<1> QED BY <1>4, <1>5, <1>7, <1>8, <1>9, <1>10, <1>11, WorkspaceKeep

LEMMA AnswerSaves ==
    ASSUME WorkspaceInv, NEW w \in Workers, W!SaveAnswer(w)
    PROVE  WorkspaceInv'
<1> DEFINE r == wworker[w]
<1>1. /\ W!TypeOK /\ ThreadInv /\ deleted \subseteq issued /\ clock \in Nat /\ RoutesKept
      /\ ChatPlanInv(r) /\ r \in W!Request /\ r.op = "answer"
      /\ wworker \in [Workers -> W!Request]
      BY DEF WorkspaceInv, W!TypeOK, W!SaveAnswer
<1>2. /\ r.message \in W!Message /\ r.message.answers \in 1..clock /\ r.message.at <= clock
      /\ \A n \in thread : n.answers # r.message.answers
      BY <1>1 DEF W!Request, ChatPlanInv, Talks, Asked
<1>3. /\ wworker' = [wworker EXCEPT ![w] = W!Idle] /\ wworker'[w] = W!Idle
      /\ thread' = thread \cup {r.message}
      /\ UNCHANGED <<agent, issued, deleted, clock>>
      BY <1>1 DEF W!SaveAnswer
<1>4. /\ agent' \in Seq(W!Route) /\ DOMAIN agent \subseteq DOMAIN agent' /\ RoutesKept'
      /\ deleted' \subseteq issued' /\ clock' \in Nat /\ clock <= clock'
      /\ issued \subseteq issued' /\ issued' \subseteq Profiles
      BY <1>1, <1>3 DEF W!TypeOK, RoutesKept, RouteKept
<1>5. /\ thread \subseteq thread' /\ thread' \subseteq W!Message /\ AnswersOwn(w)
      BY <1>1, <1>2, <1>3 DEF W!TypeOK, AnswersOwn, Asked, Talks
<1>6. RoutePlanInv(wworker[w])' /\ ChatPlanInv(wworker[w])' /\ ~ Talks(W!Idle)
      BY <1>3, IdleRequest DEF RoutePlanInv, RouteKept, ChatPlanInv, Talks
<1>7. ThreadInv'
  <2>1. \A n \in thread' : n.at <= clock /\ n.answers <= clock
        BY <1>1, <1>2, <1>3 DEF ThreadInv
  <2>2. W!AnswersAttributed'
    <3> SUFFICES ASSUME NEW m \in thread', m.answers # 0
                 PROVE  /\ m.via # "rule"
                        /\ \E n \in thread' : n.at = m.answers /\ n.answers = 0 /\ n.at < m.at
                        /\ \A n \in thread' : n.answers = m.answers => n = m
        BY DEF W!AnswersAttributed
    <3>1. CASE m \in thread
      <4>1. m.answers # r.message.answers
            BY <1>2, <3>1
      <4> QED BY <1>1, <1>3, <3>1, <4>1 DEF ThreadInv, W!AnswersAttributed
    <3>2. CASE m = r.message
          BY <1>1, <1>2, <1>3, <3>2 DEF ChatPlanInv
    <3> QED BY <1>3, <3>1, <3>2
  <2> QED BY <1>3, <2>1, <2>2 DEF ThreadInv
<1> QED BY <1>3, <1>4, <1>5, <1>6, <1>7, IdleRequest, WorkspaceKeep

LEMMA WorkspaceInductive == WorkspaceInv /\ [W!Next]_(W!vars) => WorkspaceInv'
<1> SUFFICES ASSUME WorkspaceInv, [W!Next]_(W!vars) PROVE WorkspaceInv'
    OBVIOUS
<1>1. ASSUME NEW w \in Workers, W!Fail(w) PROVE WorkspaceInv'
  <2>1. /\ wworker' = [wworker EXCEPT ![w] = W!Idle]
        /\ UNCHANGED <<agent, issued, deleted, thread, clock>>
        BY <1>1 DEF W!Fail
  <2>2. W!TypeOK /\ RoutesKept /\ deleted \subseteq issued /\ ThreadInv
        BY DEF WorkspaceInv
  <2>3. wworker'[w] = W!Idle
        BY <2>1, <2>2 DEF W!TypeOK
  <2>4. /\ agent' \in Seq(W!Route) /\ DOMAIN agent \subseteq DOMAIN agent' /\ RoutesKept'
        /\ deleted' \subseteq issued' /\ clock' \in Nat /\ clock <= clock'
        /\ issued \subseteq issued' /\ issued' \subseteq Profiles
        /\ thread \subseteq thread' /\ thread' \subseteq W!Message /\ AnswersOwn(w)
        BY <2>1, <2>2 DEF W!TypeOK, RoutesKept, RouteKept, AnswersOwn
  <2>5. RoutePlanInv(wworker[w])' /\ ChatPlanInv(wworker[w])' /\ ~ Talks(W!Idle)
        BY <2>1, <2>3, IdleRequest DEF RoutePlanInv, RouteKept, ChatPlanInv, Talks
  <2>6. ThreadInv'
        BY <2>1, <2>2 DEF ThreadInv, W!AnswersAttributed
  <2> QED BY <2>1, <2>4, <2>5, <2>6, IdleRequest, WorkspaceKeep
<1>2. CASE UNCHANGED W!vars
      BY <1>2 DEF W!vars, WorkspaceInv, W!TypeOK, ThreadInv, W!AnswersAttributed, OwnQuestions,
         RoutesKept, RouteKept, RoutePlanInv, ChatPlanInv
<1> QED BY <1>1, <1>2, WorkspaceServes, WorkspaceCommits, QuestionSaves, AnswerIsTaken,
        AnswerSaves DEF W!Next

(* Requests in turn: an agent is made where there is none, and a route     *)
(* that is written back has no profile that was deleted.                   *)
RouteFresh(r) ==
    /\ r.op = "create" => agent = <<>>
    /\ r.op \in {"create", "update"} => r.gone = {}
    /\ r.op \in {"update", "delete"} => r.route.profiles \cap (deleted \cup r.gone) = {}

WorkspaceTurn ==
    turn => /\ AtMostOne(wworker, W!Idle)
            /\ W!OnePersonalAgent /\ W!DeletedProfileGone
            /\ \A w \in Workers : RouteFresh(wworker[w])

(* Steps that leave the agents alone. *)
LEMMA TurnKeeps ==
    ASSUME WorkspaceInv, WorkspaceTurn, turn, turn' = turn, InTurn(wworker', W!Idle),
           UNCHANGED <<agent, deleted>>, NEW w \in Workers, NEW q,
           wworker' = [wworker EXCEPT ![w] = q], RouteFresh(q)
    PROVE  WorkspaceTurn'
<1>1. /\ AtMostOne(wworker', W!Idle)
      /\ \A v \in Workers : RouteFresh(wworker'[v])
      BY DEF InTurn, WorkspaceTurn, WorkspaceInv, W!TypeOK
<1> QED BY <1>1 DEF WorkspaceTurn, AtMostOne, RouteFresh, W!OnePersonalAgent, W!DeletedProfileGone

LEMMA ServeIsFresh ==
    ASSUME WorkspaceInv, W!DeletedProfileGone, NEW w \in Workers, W!Serve(w)
    PROVE  /\ UNCHANGED <<agent, deleted>>
           /\ \E q : wworker' = [wworker EXCEPT ![w] = q] /\ RouteFresh(q)
<1> DEFINE Fresh == /\ UNCHANGED <<agent, deleted>>
                    /\ \E q : wworker' = [wworker EXCEPT ![w] = q] /\ RouteFresh(q)
<1>1. /\ \A i \in DOMAIN agent : agent[i] \in W!Route
      /\ \A i \in DOMAIN agent : agent[i].profiles \cap deleted = {}
      /\ deleted \subseteq issued
      BY DEF WorkspaceInv, W!TypeOK, W!DeletedProfileGone
<1>2. ASSUME NEW q, W!Begin(w, q), RouteFresh(q) PROVE Fresh
      BY <1>2 DEF W!Begin
<1>3. ASSUME NEW i, NEW route, NEW op
      PROVE  LET q == W!Saving(i, op, route) IN
             q.op = op /\ q.route = route /\ q.gone = {}
      BY DEF W!Saving, W!Idle
<1> SUFFICES Fresh
    OBVIOUS
<1> HIDE DEF Fresh
<1>4. CASE W!CreatePersonalAgent(w)
  <2> DEFINE q == [W!Idle EXCEPT !.op = "create"]
  <2>1. q.op = "create" /\ q.gone = {}
        BY DEF W!Idle
  <2>2. W!Begin(w, q) /\ agent = <<>>
        BY <1>4 DEF W!CreatePersonalAgent
  <2> HIDE DEF q
  <2>3. RouteFresh(q)
        BY <2>1, <2>2 DEF RouteFresh
  <2> QED BY <1>2, <2>2, <2>3
<1>5. ASSUME NEW i \in DOMAIN agent, W!UsePlatform(w, i) PROVE Fresh
  <2> DEFINE route == [agent[i] EXCEPT !.active = W!Platform]
             q == W!Saving(i, "update", route)
  <2>1. route.profiles \cap deleted = {}
        BY <1>1, <1>5 DEF W!Route
  <2>2. W!Begin(w, q)
        BY <1>5 DEF W!UsePlatform
  <2> HIDE DEF route
  <2>3. q.op = "update" /\ q.route = route /\ q.gone = {}
        BY <1>3
  <2> HIDE DEF q
  <2> QED BY <1>2, <2>1, <2>2, <2>3 DEF RouteFresh
<1>6. ASSUME NEW i \in DOMAIN agent, NEW p \in Profiles, W!UpdateAgentModelRoute(w, i, p)
      PROVE  Fresh
  <2> DEFINE route == [active |-> p, profiles |-> agent[i].profiles \cup {p}]
             q == W!Saving(i, "update", route)
  <2>1. route.profiles \cap deleted = {}
        BY <1>1, <1>6 DEF W!UpdateAgentModelRoute
  <2>2. W!Begin(w, q)
        BY <1>6 DEF W!UpdateAgentModelRoute
  <2> HIDE DEF route
  <2>3. q.op = "update" /\ q.route = route /\ q.gone = {}
        BY <1>3
  <2> HIDE DEF q
  <2> QED BY <1>2, <2>1, <2>2, <2>3 DEF RouteFresh
<1>7. ASSUME NEW i \in DOMAIN agent, NEW p \in Profiles, W!DeleteProfile(w, i, p)
      PROVE  Fresh
  <2> DEFINE route == [active |-> IF agent[i].active = p THEN W!Platform ELSE agent[i].active,
                       profiles |-> agent[i].profiles \ {p}]
             q == [W!Saving(i, "delete", route) EXCEPT !.gone = {p}]
  <2>1. route.profiles \cap (deleted \cup {p}) = {}
        BY <1>1, <1>7
  <2>2. W!Begin(w, q)
        BY <1>7 DEF W!DeleteProfile
  <2> HIDE DEF route
  <2>3. q.op = "delete" /\ q.route = route /\ q.gone = {p}
        BY DEF W!Saving, W!Idle
  <2> HIDE DEF q
  <2> QED BY <1>2, <2>1, <2>2, <2>3 DEF RouteFresh
<1>8. ASSUME NEW i \in DOMAIN agent, W!Ask(w, i) PROVE Fresh
  <2> DEFINE q == [W!Idle EXCEPT !.op = "question", !.index = i, !.route = agent[i],
                     !.message = [W!NoMessage EXCEPT !.at = clock + 1], !.prompt = thread]
  <2>1. q.op = "question"
        BY DEF W!Idle
  <2>2. W!Begin(w, q)
        BY <1>8 DEF W!Ask
  <2> HIDE DEF q
  <2> QED BY <1>2, <2>1, <2>2 DEF RouteFresh
<1> QED BY <1>4, <1>5, <1>6, <1>7, <1>8 DEF W!Serve, Fresh

LEMMA WorkspaceCommitsInTurn ==
    ASSUME WorkspaceInv, WorkspaceTurn, turn, turn' = turn, NEW w \in Workers, W!Commit(w)
    PROVE  WorkspaceTurn'
<1> DEFINE r == wworker[w]
<1>1. /\ wworker \in [Workers -> W!Request] /\ AtMostOne(wworker, W!Idle)
      /\ r.op \in {"create", "update", "delete"} /\ RouteFresh(r) /\ RoutePlanInv(r)
      /\ wworker' = [wworker EXCEPT ![w] = W!Idle] /\ deleted' = deleted \cup r.gone
      BY DEF WorkspaceInv, W!TypeOK, WorkspaceTurn, W!Commit
<1>2. \A v \in Workers : wworker'[v] = W!Idle
      BY <1>1, IdleRequest DEF AtMostOne
<1>3. AtMostOne(wworker, W!Idle)' /\ \A v \in Workers : RouteFresh(wworker[v])'
      BY <1>2, IdleRequest DEF AtMostOne, RouteFresh
<1>4. /\ Len(agent) \in Nat /\ DOMAIN agent = 1..Len(agent) /\ Len(agent) <= 1
      /\ Len(agent') \in Nat /\ DOMAIN agent' = 1..Len(agent')
      /\ \A i \in DOMAIN agent : agent[i].profiles \cap deleted = {}
  <2>1. agent \in Seq(W!Route) /\ agent' \in Seq(W!Route)
        BY RouteCommits DEF WorkspaceInv, W!TypeOK
  <2> QED BY <2>1 DEF WorkspaceTurn, W!OnePersonalAgent, W!DeletedProfileGone
<1>5. CASE /\ r.op = "create" /\ Len(agent') = Len(agent) + 1
           /\ \A i \in DOMAIN agent : agent'[i] = agent[i]
           /\ agent'[Len(agent) + 1] = W!NewRoute
  <2>1. Len(agent) = 0
        BY <1>1, <1>5 DEF RouteFresh
  <2>2. Len(agent') = 1 /\ DOMAIN agent' = {1} /\ agent'[1].profiles = {}
        BY <1>4, <1>5, <2>1 DEF W!NewRoute
  <2> QED BY <1>3, <2>2 DEF WorkspaceTurn, W!OnePersonalAgent, W!DeletedProfileGone
<1>6. CASE /\ r.op \in {"update", "delete"} /\ Len(agent') = Len(agent)
           /\ \A i \in DOMAIN agent :
                 agent'[i] = IF i = r.index THEN r.route ELSE agent[i]
  <2>1. \A i \in DOMAIN agent' : i = r.index /\ agent'[i] = r.route
        BY <1>1, <1>4, <1>6 DEF RoutePlanInv
  <2>2. Len(agent') <= 1
        BY <1>4, <1>6
  <2>3. r.route.profiles \cap deleted' = {}
        BY <1>1, <1>6 DEF RouteFresh
  <2> QED BY <1>3, <2>1, <2>2, <2>3 DEF WorkspaceTurn, W!OnePersonalAgent, W!DeletedProfileGone
<1> QED BY <1>5, <1>6, RouteCommits

LEMMA WorkspaceTurnStep ==
    ASSUME WorkspaceInv, WorkspaceTurn, turn' = turn, W!Next, InTurn(wworker', W!Idle)
    PROVE  WorkspaceTurn'
<1> SUFFICES ASSUME turn PROVE WorkspaceTurn'
    BY DEF WorkspaceTurn
<1>1. /\ wworker \in [Workers -> W!Request] /\ W!DeletedProfileGone
      BY DEF WorkspaceInv, W!TypeOK, WorkspaceTurn
<1>2. ASSUME NEW w \in Workers, W!Serve(w) PROVE WorkspaceTurn'
      BY <1>1, <1>2, ServeIsFresh, TurnKeeps
<1>3. ASSUME NEW w \in Workers, W!Commit(w) PROVE WorkspaceTurn'
      BY <1>3, WorkspaceCommitsInTurn
<1>4. ASSUME NEW w \in Workers, W!SaveQuestion(w) PROVE WorkspaceTurn'
  <2> DEFINE q == [wworker[w] EXCEPT !.op = "ask",
                     !.prompt = W!Latest(wworker[w].prompt \cup {wworker[w].message})]
  <2>1. wworker' = [wworker EXCEPT ![w] = q] /\ UNCHANGED <<agent, deleted>>
        BY <1>4 DEF W!SaveQuestion
  <2>2. q.op = "ask"
        BY <1>1 DEF W!Request
  <2> HIDE DEF q
  <2>3. RouteFresh(q)
        BY <2>2 DEF RouteFresh
  <2> QED BY <2>1, <2>3, TurnKeeps
<1>5. ASSUME NEW w \in Workers, W!TakeAnswer(w) PROVE WorkspaceTurn'
  <2> DEFINE q == [wworker[w] EXCEPT !.op = "answer",
                     !.message = [at |-> clock + 1, answers |-> wworker[w].message.at,
                                  via |-> wworker[w].route.active]]
  <2>1. wworker' = [wworker EXCEPT ![w] = q] /\ UNCHANGED <<agent, deleted>>
        BY <1>5 DEF W!TakeAnswer
  <2>2. q.op = "answer"
        BY <1>1 DEF W!Request
  <2> HIDE DEF q
  <2>3. RouteFresh(q)
        BY <2>2 DEF RouteFresh
  <2> QED BY <2>1, <2>3, TurnKeeps
<1>6. RouteFresh(W!Idle)
      BY IdleRequest DEF RouteFresh
<1>7. ASSUME NEW w \in Workers, W!SaveAnswer(w) \/ W!Fail(w) PROVE WorkspaceTurn'
      BY <1>6, <1>7, TurnKeeps DEF W!SaveAnswer, W!Fail
<1> QED BY <1>2, <1>3, <1>4, <1>5, <1>7 DEF W!Next

LEMMA WorkspaceSteps ==
    [PeopleNext]_peopleVars =>
        /\ turn' = turn
        /\ \/ W!Next /\ InTurn(wworker', W!Idle)
           \/ UNCHANGED W!vars
BY DEF PeopleNext, peopleVars, wvars, W!vars

(* The personal agent, for any number of workers, profiles and messages:   *)
(* the profile in use is stored and no more than the limit are, a question *)
(* is committed and in the prompt when the model is asked, an answer       *)
(* stands after its own question; in turn, one agent, and what was deleted *)
(* is not written back.                                                    *)
THEOREM WorkspaceIsSound == PeopleSpec => []WorkspaceSound
<1>1. PeopleInit => WorkspaceInv /\ WorkspaceTurn
  <2> SUFFICES ASSUME PeopleInit PROVE WorkspaceInv /\ WorkspaceTurn
      OBVIOUS
  <2>1. W!Init
        BY DEF PeopleInit
  <2>2. agent = <<>> /\ \A w \in Workers : wworker[w] = W!Idle
        BY <2>1 DEF W!Init
  <2>3. WorkspaceTurn
        BY <2>2, IdleRequest DEF WorkspaceTurn, AtMostOne, RouteFresh, W!OnePersonalAgent,
           W!DeletedProfileGone
  <2> QED BY <2>1, <2>3, WorkspaceStart
<1>2. WorkspaceInv /\ WorkspaceTurn /\ [PeopleNext]_peopleVars
        => WorkspaceInv' /\ WorkspaceTurn'
  <2> SUFFICES ASSUME WorkspaceInv, WorkspaceTurn, [PeopleNext]_peopleVars
               PROVE  WorkspaceInv' /\ WorkspaceTurn'
      OBVIOUS
  <2>1. CASE W!Next /\ InTurn(wworker', W!Idle)
        BY <2>1, WorkspaceSteps, WorkspaceInductive, WorkspaceTurnStep
  <2>2. CASE UNCHANGED W!vars
    <3>1. WorkspaceInv' /\ turn' = turn
          BY <2>2, WorkspaceSteps, WorkspaceInductive
    <3>2. UNCHANGED <<agent, deleted, wworker>>
          BY <2>2 DEF W!vars
    <3> QED BY <3>1, <3>2 DEF WorkspaceTurn, AtMostOne, RouteFresh, W!OnePersonalAgent,
            W!DeletedProfileGone
  <2> QED BY <2>1, <2>2, WorkspaceSteps
<1>3. WorkspaceInv /\ WorkspaceTurn => WorkspaceSound
  <2> SUFFICES ASSUME WorkspaceInv, WorkspaceTurn PROVE WorkspaceSound
      OBVIOUS
  <2>1. W!RouteSound
        BY SameCount DEF WorkspaceInv, RoutesKept, RouteKept, W!RouteSound
  <2>2. W!QuestionKept
        BY DEF WorkspaceInv, ChatPlanInv, W!QuestionKept
  <2> QED BY <2>1, <2>2 DEF WorkspaceInv, ThreadInv, WorkspaceTurn, WorkspaceSound
<1> QED BY <1>1, <1>2, <1>3, PTL DEF PeopleSpec
=============================================================================
