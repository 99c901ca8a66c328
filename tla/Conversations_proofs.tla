------------------------ MODULE Conversations_proofs ------------------------
(***************************************************************************)
(* Proofs about conversations, for any users, conversations and workers.   *)
(*                                                                         *)
(* With any interleaving, a plan for a private conversation without        *)
(* administrators is its actor's own removal (PlanOK), since the rows of   *)
(* such a conversation give no role that manages (RowsOK).  With requests  *)
(* in turn, what a plan found in the rows still holds at its commit        *)
(* (TurnPlan), and a member whose joining the organization announced and   *)
(* who is not in its group yet has a plan on the way (Coming).             *)
(***************************************************************************)
EXTENDS MCTalk, SequenceTheorems, FiniteSetTheorems, TLAPS

NoRows == [u \in Users |-> <<>>]

(* A private conversation without administrators. *)
Closed(c) == admins = {} /\ kind[c] = "PRIVATE"

PlanOK(p) ==
    /\ p.op # "write" => p.conv = "none"
    /\ p.op \in {"joined", "left"} => p.user \in Users
    /\ p.op = "joined" => p.role \in Role
    /\ p.op = "write" =>
          /\ p.conv \in Conversations
          /\ p.kind # "NONE" <=> kind[p.conv] = "NONE"
          /\ p.kind # "NONE" => p.user = "none"
          /\ p.kind = "PRIVATE" => \E a, t \in Users : p.add = PrivateRows(a, t)
          /\ Closed(p.conv) => /\ p.add = NoRows /\ p.user = p.actor
                               /\ p.role = Keep /\ p.status = "REMOVED"

RowsOK(c) ==
    /\ kind[c] = "NONE" => rows[c] = NoRows
    /\ Closed(c) => /\ \A u \in Users : \A i \in RowsOf(c, u) : rows[c][u][i].role = "MEMBER"
                    /\ \E a, t \in Users : ActiveUsers(c) \subseteq {a, t}

(* A conversation that is created is created by one worker. *)
OneCreator ==
    \A v, w \in Workers :
        /\ worker[v].conv = worker[w].conv /\ worker[v].conv \in Conversations
        /\ kind[worker[v].conv] = "NONE"
        => v = w

IInv == /\ TypeOK /\ OneCreator
        /\ \A w \in Workers : PlanOK(worker[w])
        /\ \A c \in Conversations : RowsOK(c)

-----------------------------------------------------------------------------
(* The plans *)

LEMMA Names == /\ \A u \in Users : u # "none"
               /\ \A c \in Conversations : c # "none"
               /\ Admins \subseteq Users /\ Roles \subseteq Role /\ MaxRows \in Nat
BY Parameters DEF AdminsAssumption, RolesAssumption, MaxRowsAssumption, NamesAssumption, Role

LEMMA NoRowsType == NoRows \in [Users -> Seq(Row)] /\ \A u \in Users : NoRows[u] = <<>>
BY DEF NoRows

LEMMA IdleFacts ==
    /\ Idle \in Plan /\ Idle.op = "idle" /\ Idle.conv = "none" /\ PlanOK(Idle)
<1>1. /\ Idle = [op |-> "idle", actor |-> "none", conv |-> "none", kind |-> "NONE",
                 add |-> NoRows, user |-> "none", row |-> 0, role |-> Keep, status |-> Keep]
      BY DEF Idle, NoRows
<1>2. Idle \in Plan
      BY <1>1, NoRowsType DEF Plan
<1> QED BY <1>1, <1>2 DEF PlanOK

LEMMA WriteFacts ==
    ASSUME NEW a \in Users \cup {"none"}, NEW p, p = Write(a)
    PROVE  /\ p \in Plan /\ p.op = "write" /\ p.actor = a /\ p.conv = "none" /\ p.kind = "NONE"
           /\ p.add = NoRows /\ p.user = "none" /\ p.role = Keep /\ p.status = Keep
<1>1. /\ Idle \in Plan /\ Idle.conv = "none" /\ Idle.kind = "NONE" /\ Idle.add = NoRows
      /\ Idle.user = "none" /\ Idle.role = Keep /\ Idle.status = Keep
      BY IdleFacts DEF Idle, NoRows
<1> QED BY <1>1 DEF Write, Plan

LEMMA NewRowFacts ==
    ASSUME NEW r \in Role
    PROVE  /\ NewRow(r) \in Seq(Row) /\ Len(NewRow(r)) = 1 /\ NewRow(r) # <<>>
           /\ NewRow(r)[1].role = r /\ NewRow(r)[1].status = "ACTIVE"
BY DEF NewRow, Row, Status

(* A plan that creates a conversation. *)
Creation(a, c, k, new) == [Write(a) EXCEPT !.conv = c, !.kind = k, !.add = new]

LEMMA CreationFacts ==
    ASSUME NEW a \in Users, NEW c \in Conversations, NEW k \in Kind,
           NEW new \in [Users -> Seq(Row)], NEW p,
           p = Creation(a, c, k, new)
    PROVE  /\ p \in Plan /\ p.op = "write" /\ p.conv = c /\ p.kind = k /\ p.add = new
           /\ p.user = "none" /\ p.actor = a /\ p.status = Keep
<1> DEFINE base == Write(a)
<1>1. /\ base \in Plan /\ base.op = "write" /\ base.actor = a /\ base.user = "none"
      /\ base.status = Keep
      BY WriteFacts
<1>2. p = [base EXCEPT !.conv = c, !.kind = k, !.add = new]
      BY DEF Creation
<1> HIDE DEF base
<1> QED BY <1>1, <1>2 DEF Plan

(* A plan that adds a row. *)
Addition(a, c, u, r) == [Write(a) EXCEPT !.conv = c, !.add[u] = NewRow(r)]

LEMMA AdditionFacts ==
    ASSUME NEW a \in Users \cup {"none"}, NEW c \in Conversations, NEW u \in Users,
           NEW r \in Role, NEW p,
           p = Addition(a, c, u, r)
    PROVE  /\ p \in Plan /\ p.op = "write" /\ p.conv = c /\ p.kind = "NONE"
           /\ p.user = "none" /\ p.actor = a /\ p.status = Keep
           /\ p.add[u] = NewRow(r) /\ \A v \in Users \ {u} : p.add[v] = <<>>
<1>1. /\ NewRow(r) \in Seq(Row) /\ NoRows \in [Users -> Seq(Row)]
      /\ \A v \in Users : NoRows[v] = <<>>
      BY NoRowsType, NewRowFacts
<1> DEFINE base == Write(a)
<1>2. /\ base \in Plan /\ base.op = "write" /\ base.actor = a /\ base.user = "none"
      /\ base.status = Keep /\ base.kind = "NONE" /\ base.add = NoRows
      BY WriteFacts
<1>3. p = [base EXCEPT !.conv = c, !.add[u] = NewRow(r)]
      BY DEF Addition
<1> HIDE DEF base
<1> DEFINE new == [NoRows EXCEPT ![u] = NewRow(r)]
<1>4. /\ new \in [Users -> Seq(Row)] /\ new[u] = NewRow(r)
      /\ \A v \in Users \ {u} : new[v] = <<>>
      BY <1>1
<1>5. p.add = new
      BY <1>2, <1>3 DEF Plan
<1>6. /\ p = [base EXCEPT !.conv = c, !.add = new]
      BY <1>2, <1>3 DEF Plan
<1> HIDE DEF new
<1> QED BY <1>2, <1>4, <1>5, <1>6 DEF Plan

(* A plan that changes a row. *)
LEMMA ChangeFacts ==
    ASSUME TypeOK, NEW a \in Users \cup {"none"}, NEW c \in Conversations, NEW u \in Users,
           NEW i \in RowsOf(c, u), NEW r \in Role, NEW s \in Status, NEW p,
           p = UpdatedRow(a, c, u, i, r, s)
    PROVE  /\ p \in Plan /\ p.op = "write" /\ p.conv = c /\ p.kind = "NONE" /\ p.add = NoRows
           /\ p.user = u /\ p.row = i /\ p.actor = a
           /\ p.role = Changed(rows[c][u][i].role, r)
           /\ p.status = Changed(rows[c][u][i].status, s)
<1> DEFINE newRole == Changed(rows[c][u][i].role, r)
           newStatus == Changed(rows[c][u][i].status, s)
<1>1. newRole \in Role \cup {Keep} /\ newStatus \in Status \cup {Keep}
      BY DEF Changed
<1>2. i \in Nat
      BY DEF RowsOf, TypeOK
<1> DEFINE base == Write(a)
<1>3. p = [base EXCEPT !.conv = c, !.user = u, !.row = i,
                       !.role = newRole, !.status = newStatus]
      BY DEF UpdatedRow
<1>5. /\ base \in Plan /\ base.op = "write" /\ base.actor = a /\ base.kind = "NONE"
      /\ base.add = NoRows
      BY WriteFacts
<1> HIDE DEF newRole, newStatus, base
<1>4. /\ p \in Plan /\ p.op = "write" /\ p.conv = c /\ p.kind = "NONE" /\ p.add = NoRows
      /\ p.user = u /\ p.row = i /\ p.actor = a /\ p.role = newRole /\ p.status = newStatus
      BY <1>1, <1>2, <1>3, <1>5 DEF Plan
<1> QED BY <1>4 DEF newRole, newStatus

LEMMA PrivateRowsFacts ==
    ASSUME NEW a \in Users, NEW t \in Users
    PROVE  /\ PrivateRows(a, t) \in [Users -> Seq(Row)]
           /\ \A u \in Users : \A i \in DOMAIN PrivateRows(a, t)[u] :
                 /\ PrivateRows(a, t)[u][i].role = "MEMBER"
                 /\ PrivateRows(a, t)[u][i].status = "ACTIVE"
           /\ \A u \in Users : PrivateRows(a, t)[u] # <<>> <=> u \in {a, t}
<1> DEFINE one == NewRow("MEMBER")
           two == one \o one
<1>1. /\ one \in Seq(Row) /\ Len(one) = 1 /\ one # <<>>
      /\ one[1].role = "MEMBER" /\ one[1].status = "ACTIVE"
      BY NewRowFacts DEF Role
<1> HIDE DEF one
<1>2. /\ two \in Seq(Row) /\ Len(two) = 2 /\ two[1] = one[1] /\ two[2] = one[1]
      BY <1>1, ConcatProperties
<1> HIDE DEF two
<1>3. \A i \in DOMAIN one : one[i].role = "MEMBER" /\ one[i].status = "ACTIVE"
      BY <1>1
<1>4. two # <<>> /\ \A i \in DOMAIN two : two[i].role = "MEMBER" /\ two[i].status = "ACTIVE"
  <2>1. DOMAIN two = 1..2
        BY <1>2
  <2> QED BY <1>1, <1>2, <2>1
<1>5. /\ <<>> \in Seq(Row) /\ DOMAIN <<>> = {}
      OBVIOUS
<1>6. PrivateRows(a, t) =
         [u \in Users |-> IF a = t /\ u = a THEN two ELSE IF u \in {a, t} THEN one ELSE <<>>]
      BY DEF PrivateRows, one, two
<1> QED BY <1>1, <1>2, <1>3, <1>4, <1>5, <1>6

(***************************************************************************)
(* Any interleaving                                                        *)
(***************************************************************************)
LEMMA RowTyped ==
    ASSUME TypeOK, NEW c \in Conversations, NEW u \in Users
    PROVE  /\ rows[c][u] \in Seq(Row) /\ rows[c] \in [Users -> Seq(Row)]
           /\ \A i \in RowsOf(c, u) : i \in Nat /\ rows[c][u][i] \in Row
                 /\ rows[c][u][i].role \in Role /\ rows[c][u][i].status \in Status
<1>1. rows[c][u] \in Seq(Row) /\ rows[c] \in [Users -> Seq(Row)]
      BY DEF TypeOK
<1>2. ASSUME NEW i \in RowsOf(c, u) PROVE i \in Nat /\ rows[c][u][i] \in Row
      BY <1>1 DEF RowsOf
<1> QED BY <1>1, <1>2 DEF Row

(* A worker that takes up a plan. *)
LEMMA PlanKeeps ==
    ASSUME IInv, NEW w \in Workers, NEW p \in Plan, PlanOK(p),
           worker' = [worker EXCEPT ![w] = p],
           UNCHANGED <<admins, gone, synced, kind, rows>>,
           member' \in [Users -> Role \cup {"NONE"}],
           announced' \subseteq {u \in Users : member'[u] # "NONE"},
           p.op = "write" /\ p.kind # "NONE" => \A v \in Workers : worker[v].conv # p.conv
    PROVE  IInv'
<1>1. worker'[w] = p /\ \A v \in Workers : v # w => worker'[v] = worker[v]
      BY DEF IInv, TypeOK
<1>2. TypeOK'
      BY DEF IInv, TypeOK
<1>3. \A k : PlanOK(k) => PlanOK(k)'
      BY DEF PlanOK, Closed
<1>4. \A v \in Workers : PlanOK(worker'[v])
      BY <1>1 DEF IInv
<1>5. \A v \in Workers : PlanOK(worker[v])'
      BY <1>3, <1>4
<1>6. \A c \in Conversations : RowsOK(c)'
  <2>1. \A c \in Conversations : RowsOK(c)' = RowsOK(c)
        BY DEF RowsOK, Closed, RowsOf, ActiveUsers, ActiveRows
  <2> QED BY <2>1 DEF IInv
<1>7. ASSUME NEW v \in Workers, NEW x \in Workers, worker'[v].conv = worker'[x].conv,
             worker'[v].conv \in Conversations, kind[worker'[v].conv] = "NONE"
      PROVE  v = x
  <2>1. CASE v # w /\ x # w
        BY <1>1, <1>7, <2>1 DEF IInv, OneCreator
  <2>2. p.conv \in Conversations /\ kind[p.conv] = "NONE" =>
           \A y \in Workers : y # w => worker[y].conv # p.conv
        BY Names DEF PlanOK
  <2> QED BY <1>1, <1>7, <2>1, <2>2
<1> QED BY <1>2, <1>5, <1>6, <1>7 DEF IInv, OneCreator

(* What a plan of a request is like, when it is made. *)
LEMMA CreationKeeps ==
    ASSUME IInv, NEW w \in Workers, NEW a \in Users, NEW c \in Conversations, NEW k \in Kind,
           NEW new \in [Users -> Seq(Row)], Create(w, a, c, k, new),
           k = "PRIVATE" => \E b, t \in Users : new = PrivateRows(b, t)
    PROVE  /\ IInv' /\ UNCHANGED stored /\ worker[w].op = "idle" /\ kind[c] = "NONE"
           /\ worker' = [worker EXCEPT ![w] = worker'[w]]
           /\ worker'[w].op = "write" /\ worker'[w].conv = c /\ worker'[w].kind = k
           /\ worker'[w].add = new /\ worker'[w].user = "none"
<1> DEFINE p == Creation(a, c, k, new)
<1>1. /\ p \in Plan /\ p.op = "write" /\ p.conv = c /\ p.kind = k /\ p.add = new
      /\ p.user = "none"
      BY CreationFacts
<1>2. /\ worker' = [worker EXCEPT ![w] = p] /\ UNCHANGED stored /\ kind[c] = "NONE"
      /\ worker[w].op = "idle" /\ \A v \in Workers : worker[v].conv # c
      BY DEF Create, Begin, Unused, Creation
<1> HIDE DEF p
<1>3. worker'[w] = p
      BY <1>2 DEF IInv, TypeOK
<1>4. PlanOK(p)
      BY <1>1, <1>2 DEF PlanOK, Closed, Kind
<1>5. /\ UNCHANGED <<admins, gone, synced, kind, rows>>
      /\ member' \in [Users -> Role \cup {"NONE"}]
      /\ announced' \subseteq {u \in Users : member'[u] # "NONE"}
      BY <1>2 DEF stored, IInv, TypeOK
<1>6. IInv'
      BY <1>1, <1>2, <1>4, <1>5, PlanKeeps
<1> QED BY <1>1, <1>2, <1>3, <1>6

(* A plan for rows of a conversation that exists. *)
LEMMA RowPlanKeeps ==
    ASSUME IInv, NEW w \in Workers, NEW p \in Plan, p.op = "write", p.conv \in Conversations,
           kind[p.conv] # "NONE", p.kind = "NONE",
           Closed(p.conv) => /\ p.add = NoRows /\ p.user = p.actor
                             /\ p.role = Keep /\ p.status = "REMOVED",
           worker' = [worker EXCEPT ![w] = p], UNCHANGED stored
    PROVE  IInv' /\ worker'[w] = p
<1>1. PlanOK(p)
      BY DEF PlanOK
<1>2. /\ UNCHANGED <<admins, gone, synced, kind, rows>>
      /\ member' \in [Users -> Role \cup {"NONE"}]
      /\ announced' \subseteq {u \in Users : member'[u] # "NONE"}
      BY DEF stored, IInv, TypeOK
<1>3. IInv'
      BY <1>1, <1>2, PlanKeeps
<1> QED BY <1>3 DEF IInv, TypeOK

LEMMA ActorRowFacts ==
    ASSUME TypeOK, NEW c \in Conversations, NEW u \in Users, NEW i \in ActiveRows(c, u)
    PROVE  i \in RowsOf(c, u) /\ rows[c][u][i].status = "ACTIVE"
BY DEF ActiveRows

(* Without administrators nobody manages a private conversation. *)
LEMMA NobodyManages ==
    ASSUME IInv, NEW c \in Conversations, Closed(c), NEW a \in Users, NEW i \in ActorRows(c, a)
    PROVE  ~ Manages(c, a, i)
<1>1. i = 0 \/ i \in RowsOf(c, a)
      BY DEF ActorRows, ActiveRows
<1>2. i \in RowsOf(c, a) => rows[c][a][i].role = "MEMBER"
      BY DEF IInv, RowsOK
<1> QED BY <1>1, <1>2 DEF Manages

(* The plan of an addition: a row for a user without one, or a row of the  *)
(* user that is active no more.                                            *)
LEMMA AddKeeps ==
    ASSUME IInv, NEW w \in Workers, NEW a \in Users, NEW c \in Conversations, NEW t \in Users,
           NEW r \in Roles, AddParticipant(w, a, c, t, r)
    PROVE  /\ IInv' /\ UNCHANGED stored /\ worker[w].op = "idle"
           /\ worker' = [worker EXCEPT ![w] = worker'[w]]
           /\ worker'[w].op = "write" /\ worker'[w].conv = c /\ worker'[w].kind = "NONE"
           /\ worker'[w].status # "LEFT"
           /\ \/ /\ RowsOf(c, t) = {} /\ worker'[w].add[t] = NewRow(r) /\ r \in Role
                 /\ \A v \in Users \ {t} : worker'[w].add[v] = <<>>
              \/ worker'[w].add = NoRows
<1>1. kind[c] # "NONE" /\ ~ Closed(c)
      BY NobodyManages DEF AddParticipant, CanAddParticipant, Closed
<1>2. r \in Role
      BY Names
<1>3. CASE RowsOf(c, t) = {} /\ Insert(w, a, c, t, r)
  <2> DEFINE p == Addition(a, c, t, r)
  <2>1. /\ p \in Plan /\ p.op = "write" /\ p.conv = c /\ p.kind = "NONE" /\ p.status = Keep
        /\ p.add[t] = NewRow(r) /\ \A v \in Users \ {t} : p.add[v] = <<>>
        BY <1>2, AdditionFacts
  <2>2. worker' = [worker EXCEPT ![w] = p] /\ UNCHANGED stored /\ worker[w].op = "idle"
        BY <1>3 DEF Insert, Begin, Addition
  <2> HIDE DEF p
  <2>3. IInv' /\ worker'[w] = p
        BY <1>1, <2>1, <2>2, RowPlanKeeps
  <2> QED BY <1>2, <1>3, <2>1, <2>2, <2>3 DEF Keep
<1>4. ASSUME NEW i \in RowsOf(c, t), Begin(w, UpdatedRow(a, c, t, i, r, "ACTIVE"))
      PROVE  /\ IInv' /\ UNCHANGED stored /\ worker[w].op = "idle"
             /\ worker' = [worker EXCEPT ![w] = worker'[w]]
             /\ worker'[w].op = "write" /\ worker'[w].conv = c /\ worker'[w].kind = "NONE"
             /\ worker'[w].status # "LEFT" /\ worker'[w].add = NoRows
  <2> DEFINE p == UpdatedRow(a, c, t, i, r, "ACTIVE")
  <2>1. /\ p \in Plan /\ p.op = "write" /\ p.conv = c /\ p.kind = "NONE" /\ p.add = NoRows
        /\ p.status = Changed(rows[c][t][i].status, "ACTIVE")
        BY <1>2, ChangeFacts DEF IInv, Status
  <2>2. worker' = [worker EXCEPT ![w] = p] /\ UNCHANGED stored /\ worker[w].op = "idle"
        BY <1>4 DEF Begin
  <2> HIDE DEF p
  <2>3. IInv' /\ worker'[w] = p
        BY <1>1, <2>1, <2>2, RowPlanKeeps
  <2> QED BY <2>1, <2>2, <2>3 DEF Changed, Keep
<1> QED BY <1>3, <1>4 DEF AddParticipant

(* The plan of a removal. *)
LEMMA RemoveKeeps ==
    ASSUME IInv, NEW w \in Workers, NEW a \in Users, NEW c \in Conversations, NEW t \in Users,
           RemoveParticipant(w, a, c, t)
    PROVE  /\ IInv' /\ UNCHANGED stored /\ worker[w].op = "idle"
           /\ worker' = [worker EXCEPT ![w] = worker'[w]]
           /\ worker'[w].op = "write" /\ worker'[w].conv = c /\ worker'[w].kind = "NONE"
           /\ worker'[w].status # "LEFT" /\ worker'[w].add = NoRows
<1>1. PICK i \in ActorRows(c, a), j \in ActiveRows(c, t) :
         /\ CanRemoveParticipant(c, a, i, t, j)
         /\ Begin(w, UpdatedRow(a, c, t, j, rows[c][t][j].role, "REMOVED"))
      BY DEF RemoveParticipant
<1>2. /\ j \in RowsOf(c, t) /\ rows[c][t][j].status = "ACTIVE" /\ rows[c][t][j].role \in Role
      /\ kind[c] # "NONE"
      BY RowTyped DEF ActiveRows, IInv, RemoveParticipant
<1> DEFINE r == rows[c][t][j].role
           p == UpdatedRow(a, c, t, j, r, "REMOVED")
<1>3. /\ p \in Plan /\ p.op = "write" /\ p.conv = c /\ p.kind = "NONE" /\ p.add = NoRows
      /\ p.user = t /\ p.actor = a /\ p.role = Changed(r, r)
      /\ p.status = Changed(rows[c][t][j].status, "REMOVED")
      BY <1>2, ChangeFacts DEF IInv, Status
<1>4. worker' = [worker EXCEPT ![w] = p] /\ UNCHANGED stored /\ worker[w].op = "idle"
      BY <1>1 DEF Begin
<1> HIDE DEF p, r
<1>5. p.role = Keep /\ p.status = "REMOVED"
      BY <1>2, <1>3 DEF Changed
<1>6. Closed(c) => a = t
      BY <1>1, NobodyManages DEF CanRemoveParticipant, Closed
<1>7. IInv' /\ worker'[w] = p
      BY <1>2, <1>3, <1>4, <1>5, <1>6, RowPlanKeeps
<1> QED BY <1>3, <1>4, <1>5, <1>7

(* An event is published. *)
LEMMA PublishKeeps ==
    ASSUME IInv, NEW w \in Workers, NEW u \in Users, NEW role \in Role \cup {Keep},
           NEW event \in {"joined", "left"}, event = "joined" => role \in Role,
           Publish(w, event, u, role),
           member' \in [Users -> Role \cup {"NONE"}],
           announced' \subseteq {v \in Users : member'[v] # "NONE"}
    PROVE  /\ IInv' /\ worker[w].op = "idle" /\ UNCHANGED <<admins, gone, synced, kind, rows>>
           /\ synced => /\ worker' = [worker EXCEPT ![w] = worker'[w]]
                        /\ worker'[w].op = event /\ worker'[w].user = u
           /\ ~ synced => worker' = worker
<1> DEFINE p == [Idle EXCEPT !.op = event, !.user = u, !.role = role]
<1>1. /\ worker[w].op = "idle" /\ UNCHANGED <<admins, gone, synced, kind, rows>>
      /\ worker' = IF synced THEN [worker EXCEPT ![w] = p] ELSE worker
      BY DEF Publish
<1>2. p \in Plan /\ p.op = event /\ p.user = u /\ p.role = role /\ p.conv = "none"
      BY IdleFacts DEF Plan
<1> HIDE DEF p
<1>3. CASE synced
  <2>1. PlanOK(p)
        BY <1>2 DEF PlanOK
  <2>2. worker' = [worker EXCEPT ![w] = p] /\ p.op # "write"
        BY <1>1, <1>2, <1>3
  <2>3. IInv'
        BY <1>1, <1>2, <2>1, <2>2, PlanKeeps
  <2>4. worker'[w] = p
        BY <2>2 DEF IInv, TypeOK
  <2> QED BY <1>1, <1>2, <1>3, <2>2, <2>3, <2>4
<1>4. CASE ~ synced
  <2>1. worker' = worker
        BY <1>1, <1>4
  <2>2. \A v \in Workers : PlanOK(worker[v])' = PlanOK(worker[v])
        BY <1>1, <2>1 DEF PlanOK, Closed
  <2>3. \A c \in Conversations : RowsOK(c)' = RowsOK(c)
        BY <1>1 DEF RowsOK, Closed, RowsOf, ActiveUsers, ActiveRows
  <2>4. OneCreator'
        BY <1>1, <2>1 DEF IInv, OneCreator
  <2>5. TypeOK'
        BY <1>1, <2>1 DEF IInv, TypeOK
  <2>6. IInv'
        BY <2>2, <2>3, <2>4, <2>5 DEF IInv
  <2> QED BY <1>1, <1>4, <2>1, <2>6
<1> QED BY <1>3, <1>4

(* A step of the organization that is published. *)
OrgStep(w, u) ==
    (\E role \in Roles : OrgJoin(w, u, role)) \/ OrgRequest(w, u) \/ OrgLeave(w, u)

LEMMA OrgKeeps ==
    ASSUME IInv, NEW w \in Workers, NEW u \in Users, OrgStep(w, u)
    PROVE  /\ IInv' /\ worker[w].op = "idle" /\ UNCHANGED <<admins, gone, synced, kind, rows>>
           /\ ~ synced => worker' = worker
           /\ synced =>
                 /\ worker' = [worker EXCEPT ![w] = worker'[w]] /\ worker'[w].user = u
                 /\ \/ worker'[w].op = "joined" /\ announced' \subseteq announced \cup {u}
                    \/ worker'[w].op = "left" /\ announced' = announced \ {u}
<1> USE DEF IInv, TypeOK
<1>1. ASSUME NEW r \in Roles, OrgJoin(w, u, r)
      PROVE  /\ Publish(w, "joined", u, ConversationRole(r)) /\ ConversationRole(r) \in Role
             /\ announced' = announced \cup {u}
             /\ member' \in [Users -> Role \cup {"NONE"}]
             /\ announced' \subseteq {v \in Users : member'[v] # "NONE"}
  <2>1. /\ member' = [member EXCEPT ![u] = r] /\ r \in Role /\ r # "NONE"
        /\ Publish(w, "joined", u, ConversationRole(r)) /\ announced' = announced \cup {u}
        BY <1>1, Names DEF OrgJoin, Joins, Role
  <2>2. ConversationRole(r) \in Role
        BY DEF ConversationRole, Role
  <2> QED BY <2>1, <2>2
<1>2. ASSUME OrgRequest(w, u)
      PROVE  /\ Publish(w, "joined", u, "MEMBER") /\ "MEMBER" \in Role
             /\ member' = member /\ announced' = announced
      BY <1>2 DEF OrgRequest, Role
<1>3. ASSUME OrgLeave(w, u)
      PROVE  /\ Publish(w, "left", u, Keep) /\ announced' = announced \ {u}
             /\ member' \in [Users -> Role \cup {"NONE"}]
             /\ announced' \subseteq {v \in Users : member'[v] # "NONE"}
      BY <1>3 DEF OrgLeave
<1> PICK joined, left : joined = "joined" /\ left = "left"
    OBVIOUS
<1>4. CASE \E role \in Roles : OrgJoin(w, u, role)
  <2> PICK r \in Roles : OrgJoin(w, u, r)
      BY <1>4
  <2>1. PICK role \in Role \cup {Keep} : role = ConversationRole(r) /\ role \in Role
        BY <1>1
  <2>2. Publish(w, joined, u, role) /\ joined \in {"joined", "left"}
        BY <1>1, <2>1
  <2> QED BY <1>1, <2>1, <2>2, PublishKeeps
<1>5. CASE OrgRequest(w, u)
  <2>1. PICK role \in Role \cup {Keep} : role = "MEMBER" /\ role \in Role
        BY <1>2, <1>5
  <2>2. Publish(w, joined, u, role) /\ joined \in {"joined", "left"}
        BY <1>2, <1>5, <2>1
  <2> QED BY <1>2, <1>5, <2>1, <2>2, PublishKeeps
<1>6. CASE OrgLeave(w, u)
  <2>1. PICK role \in Role \cup {Keep} : role = Keep
        OBVIOUS
  <2>2. Publish(w, left, u, role) /\ left \in {"joined", "left"} /\ left # "joined"
        BY <1>3, <1>6, <2>1
  <2> QED BY <1>3, <1>6, <2>1, <2>2, PublishKeeps
<1> QED BY <1>4, <1>5, <1>6 DEF OrgStep

LEMMA IdleKeeps ==
    ASSUME IInv, NEW w \in Workers, Replan(w, Idle)
    PROVE  IInv' /\ UNCHANGED stored /\ worker' = [worker EXCEPT ![w] = Idle]
<1>1. /\ worker' = [worker EXCEPT ![w] = Idle] /\ UNCHANGED stored
      /\ UNCHANGED <<admins, gone, synced, kind, rows>> /\ member' = member
      /\ announced' = announced
      BY DEF Replan, stored
<1>2. IInv'
      BY <1>1, IdleFacts, PlanKeeps DEF IInv, TypeOK
<1> QED BY <1>1, <1>2

(* The handler of an event changes or adds a row of the user it is about,  *)
(* in a group of the organization, or does nothing.                        *)
LEMMA SyncKeeps ==
    ASSUME IInv, NEW w \in Workers, Sync(w)
    PROVE  /\ IInv' /\ UNCHANGED stored
           /\ \/ OrgGroups = {} /\ worker' = [worker EXCEPT ![w] = Idle]
              \/ \E c \in OrgGroups :
                    \/ /\ worker[w].op = "left" /\ worker' = [worker EXCEPT ![w] = Idle]
                    \/ /\ worker' = [worker EXCEPT ![w] = worker'[w]]
                       /\ worker'[w].op = "write" /\ worker'[w].conv = c
                       /\ worker'[w].kind = "NONE"
                       /\ \/ /\ worker'[w].add = NoRows /\ worker'[w].user = worker[w].user
                             /\ worker'[w].row \in RowsOf(c, worker[w].user)
                             /\ worker[w].op = "left" => worker'[w].status # "ACTIVE"
                             /\ worker[w].op = "joined" =>
                                   worker'[w].status = Changed(
                                      rows[c][worker[w].user][worker'[w].row].status, "ACTIVE")
                          \/ /\ worker[w].op = "joined" /\ RowsOf(c, worker[w].user) = {}
                             /\ worker'[w].status # "LEFT"
                             /\ worker'[w].add[worker[w].user] = NewRow(worker[w].role)
                             /\ \A v \in Users \ {worker[w].user} : worker'[w].add[v] = <<>>
<1> DEFINE u == worker[w].user
           r == worker[w].role
<1>1. /\ worker[w].op \in {"joined", "left"} /\ u \in Users
      /\ worker[w].op = "joined" => r \in Role
      BY DEF Sync, SyncOrgMemberJoined, SyncOrgMemberLeft, IInv, PlanOK
<1> HIDE DEF u, r
<1>2. ASSUME Replan(w, Idle), worker[w].op = "left" \/ OrgGroups = {}, NEW c \in OrgGroups
      PROVE  /\ IInv' /\ UNCHANGED stored
             /\ worker[w].op = "left" /\ worker' = [worker EXCEPT ![w] = Idle]
      BY <1>2, IdleKeeps
<1>3. ASSUME NEW c \in OrgGroups, NEW i \in RowsOf(c, u), NEW role \in Role,
             NEW s \in {"ACTIVE", "LEFT"},
             Replan(w, UpdatedRow("none", c, u, i, role, s))
      PROVE  /\ IInv' /\ UNCHANGED stored
             /\ worker' = [worker EXCEPT ![w] = worker'[w]]
             /\ worker'[w].op = "write" /\ worker'[w].conv = c /\ worker'[w].kind = "NONE"
             /\ worker'[w].add = NoRows /\ worker'[w].user = u /\ worker'[w].row = i
             /\ worker'[w].status = Changed(rows[c][u][i].status, s)
  <2> DEFINE p == UpdatedRow("none", c, u, i, role, s)
  <2>1. /\ p \in Plan /\ p.op = "write" /\ p.conv = c /\ p.kind = "NONE" /\ p.add = NoRows
        /\ p.user = u /\ p.row = i /\ p.status = Changed(rows[c][u][i].status, s)
        BY <1>1, ChangeFacts DEF IInv, OrgGroups, Status
  <2>2. worker' = [worker EXCEPT ![w] = p] /\ UNCHANGED stored
        BY <1>3 DEF Replan
  <2>3. c \in Conversations /\ kind[c] # "NONE" /\ ~ Closed(c)
        BY DEF OrgGroups, Closed
  <2> HIDE DEF p
  <2>4. IInv' /\ worker'[w] = p
        BY <2>1, <2>2, <2>3, RowPlanKeeps
  <2> QED BY <2>1, <2>2, <2>4
<1>4. ASSUME NEW c \in OrgGroups, RowsOf(c, u) = {}, r \in Role, Replan(w, Addition("none", c, u, r))
      PROVE  /\ IInv' /\ UNCHANGED stored
             /\ worker' = [worker EXCEPT ![w] = worker'[w]]
             /\ worker'[w].op = "write" /\ worker'[w].conv = c /\ worker'[w].kind = "NONE"
             /\ worker'[w].status # "LEFT" /\ worker'[w].add[u] = NewRow(r)
             /\ \A v \in Users \ {u} : worker'[w].add[v] = <<>>
  <2> DEFINE p == Addition("none", c, u, r)
  <2>1. /\ p \in Plan /\ p.op = "write" /\ p.conv = c /\ p.kind = "NONE" /\ p.status = Keep
        /\ p.add[u] = NewRow(r) /\ \A v \in Users \ {u} : p.add[v] = <<>>
        BY <1>1, <1>4, AdditionFacts DEF OrgGroups
  <2>2. worker' = [worker EXCEPT ![w] = p] /\ UNCHANGED stored
        BY <1>4 DEF Replan
  <2>3. c \in Conversations /\ kind[c] # "NONE" /\ ~ Closed(c)
        BY DEF OrgGroups, Closed
  <2> HIDE DEF p
  <2>4. IInv' /\ worker'[w] = p
        BY <2>1, <2>2, <2>3, RowPlanKeeps
  <2> QED BY <2>1, <2>2, <2>4 DEF Keep
<1>5. CASE OrgGroups = {} /\ Replan(w, Idle)
      BY <1>5, IdleKeeps
<1>6. CASE SyncOrgMemberJoined(w) /\ ~ (OrgGroups = {} /\ Replan(w, Idle))
  <2>1. worker[w].op = "joined" /\ r \in Role
        BY <1>1, <1>6 DEF SyncOrgMemberJoined
  <2>2. PICK c \in OrgGroups :
           \/ \E i \in RowsOf(c, u) : Replan(w, UpdatedRow("none", c, u, i, r, "ACTIVE"))
           \/ RowsOf(c, u) = {} /\ Replan(w, Addition("none", c, u, r))
        BY <1>6 DEF SyncOrgMemberJoined, u, r, Addition
  <2>3. CASE RowsOf(c, u) = {} /\ Replan(w, Addition("none", c, u, r))
        BY <1>4, <2>1, <2>3 DEF u, r
  <2>4. ASSUME NEW i \in RowsOf(c, u), Replan(w, UpdatedRow("none", c, u, i, r, "ACTIVE"))
        PROVE  /\ IInv' /\ UNCHANGED stored
               /\ worker' = [worker EXCEPT ![w] = worker'[w]]
               /\ worker'[w].op = "write" /\ worker'[w].conv = c /\ worker'[w].kind = "NONE"
               /\ worker'[w].add = NoRows /\ worker'[w].user = u /\ worker'[w].row \in RowsOf(c, u)
               /\ worker'[w].status = Changed(rows[c][u][worker'[w].row].status, "ACTIVE")
        BY <1>3, <2>1, <2>4
  <2> QED BY <2>1, <2>2, <2>3, <2>4 DEF u, r
<1>7. CASE SyncOrgMemberLeft(w) /\ ~ (OrgGroups = {} /\ Replan(w, Idle))
  <2>1. worker[w].op = "left"
        BY <1>7 DEF SyncOrgMemberLeft
  <2>2. PICK c \in OrgGroups :
           \/ ActiveRows(c, u) = {} /\ Replan(w, Idle)
           \/ \E i \in ActiveRows(c, u) :
                 Replan(w, UpdatedRow("none", c, u, i, rows[c][u][i].role, "LEFT"))
        BY <1>7 DEF SyncOrgMemberLeft, u
  <2>3. CASE Replan(w, Idle)
        BY <1>2, <2>1, <2>3
  <2>4. ASSUME NEW i \in ActiveRows(c, u),
               Replan(w, UpdatedRow("none", c, u, i, rows[c][u][i].role, "LEFT"))
        PROVE  /\ IInv' /\ UNCHANGED stored
               /\ worker' = [worker EXCEPT ![w] = worker'[w]]
               /\ worker'[w].op = "write" /\ worker'[w].conv = c /\ worker'[w].kind = "NONE"
               /\ worker'[w].add = NoRows /\ worker'[w].user = u
               /\ worker'[w].row \in RowsOf(c, u) /\ worker'[w].status # "ACTIVE"
    <3>1. /\ i \in RowsOf(c, u) /\ rows[c][u][i].role \in Role
          /\ rows[c][u][i].status = "ACTIVE"
          BY <1>1, RowTyped DEF ActiveRows, OrgGroups, IInv
    <3>2. Changed(rows[c][u][i].status, "LEFT") = "LEFT"
          BY <3>1 DEF Changed
    <3> QED BY <1>3, <2>4, <3>1, <3>2
  <2> QED BY <2>1, <2>2, <2>3, <2>4 DEF u
<1> QED BY <1>5, <1>6, <1>7 DEF Sync

(* Sequences one after the other. *)
LEMMA Joined ==
    ASSUME NEW s \in Seq(Row), NEW t \in Seq(Row)
    PROVE  /\ s \o t \in Seq(Row) /\ Len(s \o t) = Len(s) + Len(t)
           /\ DOMAIN s = 1..Len(s) /\ DOMAIN t = 1..Len(t)
           /\ DOMAIN (s \o t) = 1..(Len(s) + Len(t))
           /\ \A i \in DOMAIN s : i \in DOMAIN (s \o t) /\ (s \o t)[i] = s[i]
           /\ \A i \in DOMAIN (s \o t) \ DOMAIN s :
                 \E j \in DOMAIN t : (s \o t)[i] = t[j]
<1>1. /\ s \o t \in Seq(Row) /\ Len(s \o t) = Len(s) + Len(t)
      /\ \A i \in 1..(Len(s) + Len(t)) :
            (s \o t)[i] = IF i <= Len(s) THEN s[i] ELSE t[i - Len(s)]
      BY ConcatProperties
<1>2. Len(s) \in Nat /\ Len(t) \in Nat /\ DOMAIN s = 1..Len(s) /\ DOMAIN t = 1..Len(t)
      OBVIOUS
<1>3. DOMAIN (s \o t) = 1..(Len(s) + Len(t))
      BY <1>1
<1>4. ASSUME NEW i \in DOMAIN (s \o t) \ DOMAIN s
      PROVE  i - Len(s) \in DOMAIN t /\ (s \o t)[i] = t[i - Len(s)]
      BY <1>1, <1>2, <1>3
<1>5. \A i \in DOMAIN s : i \in DOMAIN (s \o t) /\ (s \o t)[i] = s[i]
      BY <1>1, <1>2, <1>3
<1> QED BY <1>1, <1>2, <1>3, <1>4, <1>5

(* What the commit of plan p writes, in conversation c. *)
RowsWritten(p, c, u) ==
    /\ p.add[u] \in Seq(Row)
    /\ Len(rows'[c][u]) = Len(rows[c][u]) + Len(p.add[u])
    /\ \A i \in RowsOf(c, u) :
          /\ i \in RowsOf(c, u)'
          /\ rows'[c][u][i] = IF p.user = u /\ p.row = i
                              THEN Merged(rows[c][u][i], p) ELSE rows[c][u][i]
    /\ \A i \in RowsOf(c, u)' \ RowsOf(c, u) :
          \E j \in DOMAIN p.add[u] : rows'[c][u][i] = p.add[u][j]

Commits(w, p, c) ==
    /\ p = worker[w] /\ c = p.conv /\ p.op = "write"
    /\ worker' = [worker EXCEPT ![w] = Idle]
    /\ UNCHANGED <<admins, gone, member, announced, synced>>
    /\ kind' \in [Conversations -> Kind \cup {"NONE"}]
    /\ rows' \in [Conversations -> [Users -> Seq(Row)]]
    /\ \A d \in Conversations : d # c => kind'[d] = kind[d] /\ rows'[d] = rows[d]
    /\ kind'[c] = IF p.kind # "NONE" THEN p.kind ELSE kind[c]
    /\ \A u \in Users : RowsWritten(p, c, u)

LEMMA CommitFacts ==
    ASSUME IInv, NEW w \in Workers, Commit(w)
    PROVE  \E p \in Plan, c \in Conversations : Commits(w, p, c)
<1>0. /\ worker[w] \in Plan /\ worker[w].op = "write" /\ worker[w].conv \in Conversations
      BY DEF IInv, TypeOK, Commit, PlanOK
<1> PICK p \in Plan, c \in Conversations : p = worker[w] /\ c = p.conv
    BY <1>0
<1>1. p.op = "write" /\ p = worker[w] /\ c = p.conv
      BY <1>0
<1>2. /\ kind' = [d \in Conversations |-> IF c = d /\ p.kind # "NONE" THEN p.kind ELSE kind[d]]
      /\ rows' = [d \in Conversations |-> IF c # d THEN rows[d]
                     ELSE [u \in Users |-> Written(d, u, p) \o p.add[u]]]
      /\ worker' = [worker EXCEPT ![w] = Idle]
      /\ UNCHANGED <<admins, gone, member, announced, synced>>
      BY <1>1 DEF Commit
<1>3. kind' \in [Conversations -> Kind \cup {"NONE"}]
      BY <1>2 DEF IInv, TypeOK, Plan
<1>4. /\ p.add \in [Users -> Seq(Row)] /\ p.role \in Role \cup {Keep}
      /\ p.status \in Status \cup {Keep}
      BY DEF Plan
<1>5. ASSUME NEW row \in Row PROVE Merged(row, p) \in Row
      BY <1>4 DEF Merged, Row
<1>6. ASSUME NEW u \in Users
      PROVE  /\ Written(c, u, p) \in Seq(Row) /\ Len(Written(c, u, p)) = Len(rows[c][u])
             /\ \A i \in RowsOf(c, u) :
                   Written(c, u, p)[i] = IF p.user = u /\ p.row = i
                                         THEN Merged(rows[c][u][i], p) ELSE rows[c][u][i]
  <2> DEFINE old == rows[c][u]
             wr == [i \in 1..Len(old) |-> IF p.user = u /\ p.row = i
                                          THEN Merged(old[i], p) ELSE old[i]]
  <2>1. old \in Seq(Row) /\ RowsOf(c, u) = 1..Len(old) /\ Len(old) \in Nat
        BY RowTyped DEF IInv, RowsOf
  <2> HIDE DEF old
  <2>2. \A i \in 1..Len(old) : old[i] \in Row
        BY <2>1
  <2>3. wr \in Seq(Row) /\ Len(wr) = Len(old)
        BY <1>5, <2>1, <2>2
  <2>4. Written(c, u, p) = wr
        BY <2>1 DEF Written, old
  <2> QED BY <2>1, <2>3, <2>4 DEF old
<1>7. ASSUME NEW u \in Users
      PROVE  /\ rows'[c][u] \in Seq(Row)
             /\ Len(rows'[c][u]) = Len(rows[c][u]) + Len(p.add[u])
             /\ \A i \in RowsOf(c, u) :
                   /\ i \in RowsOf(c, u)'
                   /\ rows'[c][u][i] = IF p.user = u /\ p.row = i
                                       THEN Merged(rows[c][u][i], p) ELSE rows[c][u][i]
             /\ \A i \in RowsOf(c, u)' \ RowsOf(c, u) :
                   \E j \in DOMAIN p.add[u] : rows'[c][u][i] = p.add[u][j]
  <2>1. PICK wr \in Seq(Row), new \in Seq(Row), old \in Seq(Row) :
           wr = Written(c, u, p) /\ new = p.add[u] /\ old = rows[c][u]
        BY <1>4, <1>6, RowTyped DEF IInv
  <2>2. rows'[c][u] = wr \o new
        BY <1>2, <2>1
  <2>3. Len(wr) = Len(old) /\ DOMAIN wr = 1..Len(wr) /\ DOMAIN old = 1..Len(old)
        BY <1>6, <2>1
  <2>4. RowsOf(c, u) = DOMAIN wr /\ RowsOf(c, u)' = DOMAIN (wr \o new)
    <3>1. RowsOf(c, u)' = DOMAIN rows'[c][u]
          BY DEF RowsOf
    <3>2. RowsOf(c, u) = DOMAIN old
          BY <2>1 DEF RowsOf
    <3> QED BY <2>2, <2>3, <3>1, <3>2
  <2>5. \A i \in DOMAIN wr : wr[i] = IF p.user = u /\ p.row = i
                                     THEN Merged(rows[c][u][i], p) ELSE rows[c][u][i]
        BY <1>6, <2>1, <2>4
  <2>6. /\ Len(wr \o new) = Len(wr) + Len(new) /\ wr \o new \in Seq(Row)
        /\ \A i \in DOMAIN wr : i \in DOMAIN (wr \o new) /\ (wr \o new)[i] = wr[i]
        /\ \A i \in DOMAIN (wr \o new) \ DOMAIN wr :
              \E j \in DOMAIN new : (wr \o new)[i] = new[j]
        BY Joined
  <2> DEFINE both == rows'[c][u]
  <2>7. both = wr \o new
        BY <2>2
  <2> HIDE DEF both
  <2>8. /\ Len(both) = Len(old) + Len(new) /\ both \in Seq(Row)
        /\ \A i \in DOMAIN wr : i \in DOMAIN both /\ both[i] = wr[i]
        /\ \A i \in DOMAIN both \ DOMAIN wr : \E j \in DOMAIN new : both[i] = new[j]
        /\ RowsOf(c, u) = DOMAIN wr /\ RowsOf(c, u)' = DOMAIN both
        BY <2>3, <2>4, <2>6, <2>7
  <2>9. Len(both) = Len(rows[c][u]) + Len(p.add[u])
        BY <2>1, <2>8
  <2>10. \A i \in RowsOf(c, u) :
            /\ i \in RowsOf(c, u)'
            /\ both[i] = IF p.user = u /\ p.row = i THEN Merged(rows[c][u][i], p)
                         ELSE rows[c][u][i]
         BY <2>5, <2>8
  <2>11. \A i \in RowsOf(c, u)' \ RowsOf(c, u) : \E j \in DOMAIN p.add[u] : both[i] = p.add[u][j]
    <3>1. \A i \in DOMAIN both \ DOMAIN wr : \E j \in DOMAIN new : both[i] = new[j]
          BY <2>8
    <3>2. RowsOf(c, u) = DOMAIN wr /\ RowsOf(c, u)' = DOMAIN both
          BY <2>8
    <3>3. \A i \in RowsOf(c, u)' \ RowsOf(c, u) : \E j \in DOMAIN new : both[i] = new[j]
          BY <3>1, <3>2
    <3> QED BY <2>1, <3>3
  <2> QED BY <2>8, <2>9, <2>10, <2>11, Zenon DEF both
<1>8. rows' \in [Conversations -> [Users -> Seq(Row)]]
  <2>1. ASSUME NEW d \in Conversations PROVE rows'[d] \in [Users -> Seq(Row)]
    <3>1. CASE d # c
          BY <1>2, <3>1, RowTyped DEF IInv, TypeOK
    <3>2. CASE d = c
      <4>1. rows'[c] = [u \in Users |-> Written(c, u, p) \o p.add[u]]
            BY <1>2
      <4>2. \A u \in Users : rows'[c][u] \in Seq(Row)
            BY <1>7
      <4> QED BY <3>2, <4>1, <4>2
    <3> QED BY <3>1, <3>2
  <2> QED BY <1>2, <2>1
<1>9. /\ \A d \in Conversations : d # c => kind'[d] = kind[d] /\ rows'[d] = rows[d]
      /\ kind'[c] = IF p.kind # "NONE" THEN p.kind ELSE kind[c]
      BY <1>2
<1>10. \A u \in Users : p.add[u] \in Seq(Row)
       BY <1>4
<1>11. \A u \in Users : RowsWritten(p, c, u)
       BY <1>7, <1>10 DEF RowsWritten
<1>12. Commits(w, p, c)
       BY <1>1, <1>2, <1>3, <1>8, <1>9, <1>11 DEF Commits
<1> QED BY <1>12

(* In a closed conversation a commit is its actor's own removal. *)
LEMMA CommitCloses ==
    ASSUME IInv, NEW w \in Workers, Commit(w), NEW c \in Conversations, Closed(c)
    PROVE  /\ kind'[c] = kind[c] /\ rows'[c] \in [Users -> Seq(Row)]
           /\ \A u \in Users :
                 /\ RowsOf(c, u)' = RowsOf(c, u) /\ Len(rows'[c][u]) = Len(rows[c][u])
                 /\ \A i \in RowsOf(c, u) : rows'[c][u][i].role = rows[c][u][i].role
                 /\ ActiveRows(c, u)' \subseteq ActiveRows(c, u)
                 /\ ActiveRows(c, u)' # ActiveRows(c, u) => worker[w].actor = u
<1> PICK p \in Plan, e \in Conversations : Commits(w, p, e)
    BY CommitFacts
<1>1. /\ p = worker[w] /\ e = p.conv /\ p.op = "write"
      /\ rows' \in [Conversations -> [Users -> Seq(Row)]]
      /\ \A d \in Conversations : d # e => kind'[d] = kind[d] /\ rows'[d] = rows[d]
      /\ kind'[e] = IF p.kind # "NONE" THEN p.kind ELSE kind[e]
      BY DEF Commits
<1>2. ASSUME NEW u \in Users
      PROVE  /\ Len(rows'[e][u]) = Len(rows[e][u]) + Len(p.add[u])
             /\ \A i \in RowsOf(e, u) :
                   rows'[e][u][i] = IF p.user = u /\ p.row = i
                                    THEN Merged(rows[e][u][i], p) ELSE rows[e][u][i]
  <2>1. RowsWritten(p, e, u)
        BY DEF Commits
  <2> QED BY <2>1 DEF RowsWritten
<1>3. PlanOK(p)
      BY <1>1 DEF IInv
<1>4. CASE c # e
  <2>1. kind'[c] = kind[c] /\ rows'[c] = rows[c]
        BY <1>1, <1>4
  <2>2. \A u \in Users : RowsOf(c, u)' = RowsOf(c, u) /\ ActiveRows(c, u)' = ActiveRows(c, u)
        BY <2>1 DEF RowsOf, ActiveRows
  <2> QED BY <1>1, <2>1, <2>2
<1>5. CASE c = e
  <2>1. /\ p.add = NoRows /\ p.user = p.actor /\ p.role = Keep /\ p.status = "REMOVED"
        /\ p.kind = "NONE"
        BY <1>1, <1>3, <1>5 DEF PlanOK, Closed
  <2>2. kind'[c] = kind[c]
        BY <1>1, <1>5, <2>1
  <2>3. ASSUME NEW u \in Users
        PROVE  /\ RowsOf(c, u)' = RowsOf(c, u) /\ Len(rows'[c][u]) = Len(rows[c][u])
               /\ \A i \in RowsOf(c, u) : rows'[c][u][i].role = rows[c][u][i].role
               /\ ActiveRows(c, u)' \subseteq ActiveRows(c, u)
               /\ ActiveRows(c, u)' # ActiveRows(c, u) => p.actor = u
    <3>1. p.add[u] = <<>> /\ Len(p.add[u]) = 0
          BY <2>1, NoRowsType
    <3>2. /\ rows[c][u] \in Seq(Row) /\ rows'[c][u] \in Seq(Row)
          /\ Len(rows'[c][u]) = Len(rows[c][u])
      <4>1. rows[c][u] \in Seq(Row) /\ rows'[c][u] \in Seq(Row)
            BY <1>1, RowTyped DEF IInv
      <4>2. Len(rows'[c][u]) = Len(rows[c][u]) + Len(p.add[u])
            BY <1>2, <1>5
      <4> QED BY <3>1, <4>1, <4>2
    <3>3. RowsOf(c, u)' = RowsOf(c, u)
      <4>1. RowsOf(c, u) = 1..Len(rows[c][u]) /\ RowsOf(c, u)' = 1..Len(rows'[c][u])
            BY <3>2 DEF RowsOf
      <4> QED BY <3>2, <4>1
    <3>4. \A i \in RowsOf(c, u) :
             rows'[c][u][i] = IF p.user = u /\ p.row = i THEN Merged(rows[c][u][i], p)
                              ELSE rows[c][u][i]
          BY <1>2, <1>5
    <3>5. ASSUME NEW i \in RowsOf(c, u)
          PROVE  /\ rows'[c][u][i].role = rows[c][u][i].role
                 /\ rows'[c][u][i].status = "ACTIVE" => rows[c][u][i].status = "ACTIVE"
                 /\ rows'[c][u][i] # rows[c][u][i] => p.actor = u
      <4>1. CASE p.user = u /\ p.row = i
        <5>1. rows'[c][u][i] = Merged(rows[c][u][i], p)
              BY <3>4, <4>1
        <5> QED BY <2>1, <4>1, <5>1 DEF Merged, Keep
      <4>2. CASE ~ (p.user = u /\ p.row = i)
            BY <3>4, <4>2
      <4> QED BY <4>1, <4>2
    <3>6. ActiveRows(c, u)' \subseteq ActiveRows(c, u)
          BY <3>3, <3>5 DEF ActiveRows
    <3>7. ActiveRows(c, u)' # ActiveRows(c, u) => p.actor = u
          BY <3>3, <3>5 DEF ActiveRows
    <3> QED BY <3>2, <3>3, <3>5, <3>6, <3>7
  <2>4. rows'[c] \in [Users -> Seq(Row)]
        BY <1>1
  <2> QED BY <1>1, <2>2, <2>3, <2>4
<1> QED BY <1>4, <1>5

LEMMA CommitKeeps ==
    ASSUME IInv, NEW w \in Workers, Commit(w)
    PROVE  IInv'
<1> PICK p \in Plan, c \in Conversations : Commits(w, p, c)
    BY CommitFacts
<1>0. PlanOK(p)
      BY DEF Commits, IInv
<1>1. /\ p = worker[w] /\ c = p.conv /\ p.op = "write" /\ PlanOK(p)
      /\ worker' = [worker EXCEPT ![w] = Idle] /\ UNCHANGED <<admins, gone, member, announced, synced>>
      /\ kind' \in [Conversations -> Kind \cup {"NONE"}]
      /\ rows' \in [Conversations -> [Users -> Seq(Row)]]
      /\ \A d \in Conversations : d # c => kind'[d] = kind[d] /\ rows'[d] = rows[d]
      /\ kind'[c] = IF p.kind # "NONE" THEN p.kind ELSE kind[c]
      BY <1>0 DEF Commits
<1>14. ASSUME NEW u \in Users, NEW i \in RowsOf(c, u)' \ RowsOf(c, u)
       PROVE  \E j \in DOMAIN p.add[u] : rows'[c][u][i] = p.add[u][j]
  <2>1. RowsWritten(p, c, u)
        BY DEF Commits
  <2> QED BY <2>1 DEF RowsWritten
<1>2. worker'[w] = Idle /\ \A v \in Workers : v # w => worker'[v] = worker[v]
      BY <1>1 DEF IInv, TypeOK
<1>3. TypeOK'
      BY <1>1, IdleFacts DEF IInv, TypeOK
<1>4. \A d \in Conversations : kind'[d] = "NONE" => kind[d] = "NONE"
      BY <1>1
<1>5. OneCreator'
  <2>1. ASSUME NEW v \in Workers, NEW x \in Workers, worker'[v].conv = worker'[x].conv,
               worker'[v].conv \in Conversations, kind'[worker'[v].conv] = "NONE"
        PROVE  v = x
    <3>1. v # w /\ x # w
          BY <1>2, <2>1, IdleFacts, Names
    <3> QED BY <1>2, <1>4, <2>1, <3>1 DEF IInv, OneCreator
  <2> QED BY <2>1 DEF OneCreator
<1>6. ASSUME NEW v \in Workers, v # w PROVE PlanOK(worker[v])'
  <2>1. PICK q : q = worker[v] /\ q = worker'[v] /\ PlanOK(q)
        BY <1>2, <1>6 DEF IInv
  <2>2. q.op = "write" => kind'[q.conv] = kind[q.conv] /\ q.conv \in Conversations
    <3>1. CASE q.op = "write" /\ q.conv = c
      <4>1. kind[c] # "NONE"
            BY <1>1, <1>6, <2>1, <3>1 DEF IInv, OneCreator
      <4>2. p.kind = "NONE"
            BY <1>1, <4>1 DEF PlanOK
      <4> QED BY <1>1, <3>1, <4>2
    <3>2. CASE q.op = "write" /\ q.conv # c
          BY <1>1, <2>1, <3>2 DEF PlanOK
    <3> QED BY <3>1, <3>2
  <2>3. PlanOK(q)'
        BY <1>1, <2>1, <2>2 DEF PlanOK, Closed
  <2> QED BY <2>1, <2>3
<1>7. PlanOK(worker[w])'
  <2>1. worker[w]' = Idle
        BY <1>2
  <2>2. \A k : k = Idle => PlanOK(k)'
        BY IdleFacts DEF PlanOK
  <2> QED BY <2>1, IdleFacts DEF PlanOK
<1>8. ASSUME NEW d \in Conversations, d # c PROVE RowsOK(d)'
  <2>1. kind'[d] = kind[d] /\ rows'[d] = rows[d] /\ admins' = admins /\ RowsOK(d)
        BY <1>1, <1>8 DEF IInv
  <2>2. /\ \A u \in Users : RowsOf(d, u)' = RowsOf(d, u) /\ ActiveRows(d, u)' = ActiveRows(d, u)
        /\ Closed(d)' = Closed(d)
        BY <2>1 DEF RowsOf, ActiveRows, Closed
  <2>3. ActiveUsers(d)' = ActiveUsers(d)
        BY <2>2 DEF ActiveUsers
  <2> QED BY <2>1, <2>2, <2>3 DEF RowsOK
<1>9. kind'[c] # "NONE"
      BY <1>1 DEF PlanOK
<1>10. ASSUME admins = {}, kind'[c] = "PRIVATE"
       PROVE  /\ \A u \in Users : \A i \in DOMAIN rows'[c][u] : rows'[c][u][i].role = "MEMBER"
              /\ \E a, t \in Users :
                    \A u \in Users : \A i \in DOMAIN rows'[c][u] :
                       rows'[c][u][i].status = "ACTIVE" => u \in {a, t}
  <2>1. CASE p.kind = "NONE"
    <3>1. Closed(c)
          BY <1>1, <1>10, <2>1 DEF Closed
    <3>2. RowsOK(c)
          BY <1>1 DEF IInv
    <3>3. PICK a \in Users, t \in Users : ActiveUsers(c) \subseteq {a, t}
          BY <3>1, <3>2 DEF RowsOK
    <3>4. ASSUME NEW u \in Users, NEW i \in DOMAIN rows'[c][u]
          PROVE  /\ i \in RowsOf(c, u) /\ rows'[c][u][i].role = rows[c][u][i].role
                 /\ rows'[c][u][i].status = "ACTIVE" => i \in ActiveRows(c, u)
      <4>1. /\ RowsOf(c, u)' = RowsOf(c, u) /\ ActiveRows(c, u)' \subseteq ActiveRows(c, u)
            /\ \A k \in RowsOf(c, u) : rows'[c][u][k].role = rows[c][u][k].role
            BY <1>1, <3>1, CommitCloses
      <4>3. DOMAIN rows'[c][u] = RowsOf(c, u)
            BY <4>1 DEF RowsOf
      <4>4. rows'[c][u][i].status = "ACTIVE" => i \in ActiveRows(c, u)'
            BY <4>3, <4>1 DEF ActiveRows
      <4> QED BY <4>1, <4>3, <4>4
    <3>5. \A u \in Users : \A i \in RowsOf(c, u) : rows[c][u][i].role = "MEMBER"
          BY <3>1, <3>2 DEF RowsOK
    <3>6. \A u \in Users : \A i \in ActiveRows(c, u) : u \in {a, t}
          BY <3>3 DEF ActiveUsers
    <3> QED BY <3>4, <3>5, <3>6
  <2>2. CASE p.kind # "NONE"
    <3>1. kind[c] = "NONE" /\ p.kind = "PRIVATE" /\ rows[c] = NoRows
          BY <1>1, <1>10, <2>2 DEF PlanOK, IInv, RowsOK
    <3>2. PICK a \in Users, t \in Users : p.add = PrivateRows(a, t)
          BY <1>1, <3>1 DEF PlanOK
    <3>3. ASSUME NEW u \in Users, NEW i \in DOMAIN rows'[c][u]
          PROVE  rows'[c][u][i].role = "MEMBER" /\ u \in {a, t}
      <4>1. RowsOf(c, u) = {}
            BY <3>1, NoRowsType DEF RowsOf
      <4>2. \A k \in RowsOf(c, u)' \ RowsOf(c, u) :
               \E j \in DOMAIN p.add[u] : rows'[c][u][k] = p.add[u][j]
            BY <1>14
      <4>3. i \in RowsOf(c, u)'
            BY <1>1 DEF RowsOf
      <4>4. PICK j \in DOMAIN p.add[u] : rows'[c][u][i] = p.add[u][j]
            BY <4>1, <4>2, <4>3
      <4>5. p.add[u][j].role = "MEMBER"
            BY <3>2, PrivateRowsFacts
      <4>6. p.add[u] # <<>>
            BY <4>4
      <4>7. u \in {a, t}
            BY <3>2, <4>6, PrivateRowsFacts
      <4> QED BY <4>4, <4>5, <4>7
    <3> QED BY <3>3
  <2> QED BY <2>1, <2>2
<1>11. RowsOK(c)'
  <2>1. admins' = admins
        BY <1>1
  <2>2. \A u \in Users : RowsOf(c, u)' = DOMAIN rows'[c][u]
        BY DEF RowsOf
  <2>3. CASE admins = {} /\ kind'[c] = "PRIVATE"
    <3>1. PICK a \in Users, t \in Users :
             \A u \in Users : \A i \in DOMAIN rows'[c][u] :
                rows'[c][u][i].status = "ACTIVE" => u \in {a, t}
          BY <1>10, <2>3
    <3>2. ActiveUsers(c)' \subseteq {a, t}
          BY <2>2, <3>1 DEF ActiveUsers, ActiveRows
    <3> QED BY <1>9, <1>10, <2>2, <2>3, <3>2 DEF RowsOK
  <2>4. CASE ~ (admins = {} /\ kind'[c] = "PRIVATE")
        BY <1>9, <2>1, <2>4 DEF RowsOK, Closed
  <2> QED BY <2>3, <2>4
<1>12. \A d \in Conversations : RowsOK(d)'
       BY <1>8, <1>11, Zenon
<1>13. \A v \in Workers : PlanOK(worker[v])'
       BY <1>6, <1>7
<1> QED BY <1>3, <1>5, <1>12, <1>13 DEF IInv

LEMMA InitKeeps ==
    ASSUME Init PROVE IInv
<1>1. worker \in [Workers -> Plan] /\ \A w \in Workers : worker[w] = Idle
      BY IdleFacts DEF Init
<1>2. rows = [c \in Conversations |-> NoRows]
      BY DEF Init, NoRows
<1>3. TypeOK
      BY <1>1, <1>2, NoRowsType DEF Init, TypeOK
<1>4. OneCreator
      BY <1>1, IdleFacts, Names DEF OneCreator
<1>5. \A c \in Conversations : RowsOK(c)
      BY <1>2 DEF Init, RowsOK, Closed
<1> QED BY <1>1, <1>3, <1>4, <1>5, IdleFacts DEF IInv

LEMMA DeactivateKeeps ==
    ASSUME IInv, NEW u \in Users, DeactivateUser(u) PROVE IInv'
<1>1. UNCHANGED <<admins, member, announced, synced, kind, rows, worker>> /\ gone' \subseteq Users
      BY DEF DeactivateUser, IInv, TypeOK
<1>2. TypeOK' /\ OneCreator'
      BY <1>1 DEF IInv, TypeOK, OneCreator
<1>3. \A w \in Workers : PlanOK(worker[w])' = PlanOK(worker[w])
      BY <1>1 DEF PlanOK, Closed
<1>4. \A c \in Conversations : RowsOK(c)' = RowsOK(c)
      BY <1>1 DEF RowsOK, Closed, RowsOf, ActiveUsers, ActiveRows
<1> QED BY <1>2, <1>3, <1>4 DEF IInv

LEMMA CreateGroupKeeps ==
    ASSUME IInv, NEW w \in Workers, NEW a \in Users, NEW invited \in SUBSET Users,
           NEW c \in Conversations, CreateGroup(w, a, invited, c)
    PROVE  /\ IInv' /\ UNCHANGED stored /\ worker[w].op = "idle" /\ kind[c] = "NONE"
           /\ worker' = [worker EXCEPT ![w] = worker'[w]]
           /\ worker'[w].op = "write" /\ worker'[w].conv = c /\ worker'[w].kind = "GROUP"
           /\ worker'[w].user = "none"
           /\ \A u \in Users : Len(worker'[w].add[u]) <= 1
<1> DEFINE new == [u \in Users |-> IF u = a THEN NewRow("OWNER")
                                   ELSE IF u \in invited THEN NewRow("MEMBER") ELSE <<>>]
<1>1. /\ NewRow("OWNER") \in Seq(Row) /\ NewRow("MEMBER") \in Seq(Row) /\ <<>> \in Seq(Row)
      /\ Len(NewRow("OWNER")) = 1 /\ Len(NewRow("MEMBER")) = 1 /\ Len(<<>>) = 0
      BY NewRowFacts DEF Role
<1>2. new \in [Users -> Seq(Row)] /\ \A u \in Users : Len(new[u]) <= 1
  <2>1. ASSUME NEW u \in Users PROVE new[u] \in Seq(Row) /\ Len(new[u]) <= 1
    <3>1. PICK n : n = new[u]
          OBVIOUS
    <3>2. n = NewRow("OWNER") \/ n = NewRow("MEMBER") \/ n = <<>>
          BY <3>1
    <3> HIDE DEF new
    <3>3. n \in Seq(Row) /\ Len(n) <= 1
      <4>1. CASE n = <<>>
            BY <4>1
      <4>2. CASE n # <<>>
        <5>1. n \in Seq(Row) /\ Len(n) = 1
              BY <1>1, <3>2, <4>2, Zenon
        <5> QED BY <5>1
      <4> QED BY <4>1, <4>2
    <3> QED BY <3>1, <3>3
  <2> QED BY <2>1
<1>3. Create(w, a, c, "GROUP", new)
      BY DEF CreateGroup
<1> HIDE DEF new
<1>4. "GROUP" \in Kind /\ "GROUP" # "PRIVATE"
      BY DEF Kind
<1>5. /\ IInv' /\ UNCHANGED stored /\ worker[w].op = "idle" /\ kind[c] = "NONE"
      /\ worker' = [worker EXCEPT ![w] = worker'[w]]
      /\ worker'[w].op = "write" /\ worker'[w].conv = c /\ worker'[w].kind = "GROUP"
      /\ worker'[w].user = "none" /\ worker'[w].add = new
      BY <1>2, <1>3, <1>4, CreationKeeps
<1> QED BY <1>2, <1>5

LEMMA CreateOrgGroupKeeps ==
    ASSUME IInv, NEW w \in Workers, NEW a \in Users, NEW c \in Conversations,
           CreateOrgGroup(w, a, c)
    PROVE  /\ IInv' /\ UNCHANGED stored /\ worker[w].op = "idle" /\ kind[c] = "NONE"
           /\ worker' = [worker EXCEPT ![w] = worker'[w]]
           /\ worker'[w].op = "write" /\ worker'[w].conv = c /\ worker'[w].kind = "ORG_GROUP"
           /\ worker'[w].user = "none" /\ OrgGroups = {}
           /\ \A u \in Users :
                 /\ Len(worker'[w].add[u]) <= 1
                 /\ member[u] # "NONE" => \E r \in Role : worker'[w].add[u] = NewRow(r)
<1> DEFINE new == [u \in Users |-> IF member[u] = "NONE" THEN <<>>
                                   ELSE NewRow(ConversationRole(member[u]))]
<1>1. \A u \in Users : ConversationRole(member[u]) \in Role
      BY DEF ConversationRole, Role
<1>2. /\ <<>> \in Seq(Row) /\ Len(<<>>) = 0
      /\ \A r \in Role : NewRow(r) \in Seq(Row) /\ Len(NewRow(r)) = 1
      BY NewRowFacts
<1>3. /\ new \in [Users -> Seq(Row)]
      /\ \A u \in Users : /\ Len(new[u]) <= 1
                          /\ member[u] # "NONE" => \E r \in Role : new[u] = NewRow(r)
  <2>1. ASSUME NEW u \in Users
        PROVE  /\ new[u] \in Seq(Row) /\ Len(new[u]) <= 1
               /\ member[u] # "NONE" => \E r \in Role : new[u] = NewRow(r)
    <3>1. CASE member[u] = "NONE"
          BY <1>2, <3>1
    <3>2. CASE member[u] # "NONE"
      <4>1. PICK r \in Role : r = ConversationRole(member[u])
            BY <1>1
      <4>2. PICK n : n = new[u]
            OBVIOUS
      <4>3. n = NewRow(r)
            BY <3>2, <4>1, <4>2
      <4> HIDE DEF new
      <4>4. n \in Seq(Row) /\ Len(n) = 1
            BY <1>2, <4>3
      <4> QED BY <4>2, <4>3, <4>4
    <3> QED BY <3>1, <3>2
  <2> QED BY <2>1
<1>4. Create(w, a, c, "ORG_GROUP", new) /\ OrgGroups = {}
      BY DEF CreateOrgGroup
<1> HIDE DEF new
<1>5. "ORG_GROUP" \in Kind /\ "ORG_GROUP" # "PRIVATE"
      BY DEF Kind
<1>6. /\ IInv' /\ UNCHANGED stored /\ worker[w].op = "idle" /\ kind[c] = "NONE"
      /\ worker' = [worker EXCEPT ![w] = worker'[w]]
      /\ worker'[w].op = "write" /\ worker'[w].conv = c /\ worker'[w].kind = "ORG_GROUP"
      /\ worker'[w].user = "none" /\ worker'[w].add = new
      BY <1>3, <1>4, <1>5, CreationKeeps
<1> QED BY <1>3, <1>4, <1>6

LEMMA CreatePrivateKeeps ==
    ASSUME IInv, NEW w \in Workers, NEW a \in Users, NEW t \in Users, NEW c \in Conversations,
           CreatePrivate(w, a, t, c)
    PROVE  /\ IInv' /\ UNCHANGED stored /\ worker[w].op = "idle" /\ kind[c] = "NONE"
           /\ worker' = [worker EXCEPT ![w] = worker'[w]]
           /\ worker'[w].op = "write" /\ worker'[w].conv = c /\ worker'[w].kind = "PRIVATE"
           /\ worker'[w].user = "none" /\ worker'[w].add = PrivateRows(a, t)
<1>1. Create(w, a, c, "PRIVATE", PrivateRows(a, t))
      BY DEF CreatePrivate
<1>2. PrivateRows(a, t) \in [Users -> Seq(Row)] /\ "PRIVATE" \in Kind
      BY PrivateRowsFacts DEF Kind
<1> QED BY <1>1, <1>2, CreationKeeps

LEMMA SilentKeeps ==
    ASSUME IInv, NEW u \in Users, NEW r \in Roles, OrgJoinSilently(u, r)
    PROVE  IInv' /\ UNCHANGED <<admins, gone, announced, synced, kind, rows, worker>>
<1>1. /\ UNCHANGED <<admins, gone, announced, synced, kind, rows, worker>>
      /\ member' = [member EXCEPT ![u] = r] /\ r \in Role /\ r # "NONE"
      BY Names DEF OrgJoinSilently, Joins, Role
<1>2. TypeOK' /\ OneCreator'
      BY <1>1 DEF IInv, TypeOK, OneCreator
<1>3. \A w \in Workers : PlanOK(worker[w])' = PlanOK(worker[w])
      BY <1>1 DEF PlanOK, Closed
<1>4. \A c \in Conversations : RowsOK(c)' = RowsOK(c)
      BY <1>1 DEF RowsOK, Closed, RowsOf, ActiveUsers, ActiveRows
<1> QED BY <1>1, <1>2, <1>3, <1>4 DEF IInv

(* The steps of a worker that write nothing yet, and those that write. *)
LEMMA NextKeeps ==
    ASSUME IInv, Next
    PROVE  /\ IInv'
           /\ \/ UNCHANGED <<admins, synced, kind, rows>>
              \/ \E w \in Workers : Commit(w)
<1>1. ASSUME NEW w \in Workers, NEW a \in Users, NEW c \in Conversations, NEW t \in Users,
             CreatePrivate(w, a, t, c)
      PROVE  IInv' /\ UNCHANGED stored
      BY <1>1, CreatePrivateKeeps
<1>2. ASSUME NEW w \in Workers, NEW a \in Users, NEW c \in Conversations,
             NEW invited \in SUBSET Users, CreateGroup(w, a, invited, c)
      PROVE  IInv' /\ UNCHANGED stored
      BY <1>2, CreateGroupKeeps
<1>3. ASSUME NEW w \in Workers, NEW a \in Users, NEW c \in Conversations, CreateOrgGroup(w, a, c)
      PROVE  IInv' /\ UNCHANGED stored
      BY <1>3, CreateOrgGroupKeeps
<1>4. ASSUME NEW w \in Workers, NEW a \in Users, NEW c \in Conversations, NEW t \in Users,
             NEW r \in Roles, AddParticipant(w, a, c, t, r)
      PROVE  IInv' /\ UNCHANGED stored
      BY <1>4, AddKeeps
<1>5. ASSUME NEW w \in Workers, NEW a \in Users, NEW c \in Conversations, NEW t \in Users,
             RemoveParticipant(w, a, c, t)
      PROVE  IInv' /\ UNCHANGED stored
      BY <1>5, RemoveKeeps
<1>6. ASSUME NEW w \in Workers, NEW a \in Users, OrgStep(w, a)
      PROVE  IInv' /\ UNCHANGED <<admins, synced, kind, rows>>
      BY <1>6, OrgKeeps
<1>7. ASSUME NEW u \in Users, NEW r \in Roles, OrgJoinSilently(u, r)
      PROVE  IInv' /\ UNCHANGED <<admins, synced, kind, rows>>
      BY <1>7, SilentKeeps
<1>8. ASSUME NEW w \in Workers, Request(w)
      PROVE  IInv' /\ UNCHANGED <<admins, synced, kind, rows>>
      BY <1>1, <1>2, <1>3, <1>4, <1>5, <1>6, <1>8 DEF Request, stored, OrgStep
<1>9. ASSUME NEW w \in Workers, Sync(w)
      PROVE  IInv' /\ UNCHANGED <<admins, synced, kind, rows>>
  <2>1. IInv' /\ UNCHANGED stored
        BY <1>9, SyncKeeps
  <2> QED BY <2>1 DEF stored
<1>10. ASSUME NEW w \in Workers, Commit(w) PROVE IInv'
       BY <1>10, CommitKeeps
<1>11. ASSUME NEW u \in Users, DeactivateUser(u)
       PROVE  IInv' /\ UNCHANGED <<admins, synced, kind, rows>>
       BY <1>11, DeactivateKeeps DEF DeactivateUser
<1> QED BY <1>7, <1>8, <1>9, <1>10, <1>11 DEF Next

LEMMA StutterKeeps ==
    ASSUME IInv, UNCHANGED vars PROVE IInv'
<1>1. UNCHANGED <<admins, gone, member, announced, synced, kind, rows, worker>>
      BY DEF vars
<1>2. TypeOK' /\ OneCreator'
      BY <1>1 DEF IInv, TypeOK, OneCreator
<1>3. \A w \in Workers : PlanOK(worker[w])' = PlanOK(worker[w])
      BY <1>1 DEF PlanOK, Closed
<1>4. \A c \in Conversations : RowsOK(c)' = RowsOK(c)
      BY <1>1 DEF RowsOK, Closed, RowsOf, ActiveUsers, ActiveRows
<1> QED BY <1>2, <1>3, <1>4 DEF IInv

(* With any interleaving, rows and plans are well typed; a plan for a     *)
(* closed conversation is its actor's own removal; and a conversation that *)
(* is not there yet has no rows and at most one creator.                   *)
THEOREM PlansAreSound == Spec => []IInv
<1>1. Init => IInv
      BY InitKeeps
<1>2. IInv /\ [Next]_vars => IInv'
      BY NextKeeps, StutterKeeps
<1> QED BY <1>1, <1>2, PTL DEF Spec

(* What PrivateIsPersonal says of a step. *)
Personal ==
    admins = {} =>
        \A c \in Conversations, u \in Users : kind[c] = "PRIVATE" =>
            /\ Len(rows'[c][u]) = Len(rows[c][u])
            /\ ActiveRows(c, u)' \subseteq ActiveRows(c, u)
            /\ ActiveRows(c, u)' # ActiveRows(c, u) =>
                  \E w \in Workers : worker[w].actor = u /\ worker'[w] = Idle

LEMMA StepIsPersonal ==
    ASSUME IInv, Next PROVE Personal
<1>1. CASE UNCHANGED <<admins, synced, kind, rows>>
      BY <1>1 DEF Personal, ActiveRows, RowsOf
<1>2. ASSUME NEW w \in Workers, Commit(w) PROVE Personal
  <2> SUFFICES ASSUME NEW c \in Conversations, NEW u \in Users, Closed(c)
               PROVE  /\ Len(rows'[c][u]) = Len(rows[c][u])
                      /\ ActiveRows(c, u)' \subseteq ActiveRows(c, u)
                      /\ ActiveRows(c, u)' # ActiveRows(c, u) =>
                            \E v \in Workers : worker[v].actor = u /\ worker'[v] = Idle
      BY DEF Personal, Closed
  <2>1. worker'[w] = Idle
        BY <1>2 DEF Commit, IInv, TypeOK
  <2> QED BY <1>2, <2>1, CommitCloses
<1> QED BY <1>1, <1>2, NextKeeps

(* With any interleaving, and no administrator: nobody enters a private    *)
(* conversation after its creation (add_participant refuses), and nobody   *)
(* but the participant ends a participation (remove_participant).          *)
THEOREM PrivateStaysPersonal == Spec => PrivateIsPersonal
<1>1. IInv /\ [Next]_vars => [Personal]_vars
      BY StepIsPersonal
<1>2. Spec => [][Personal]_vars
      BY <1>1, PlansAreSound, PTL DEF Spec
<1> QED BY <1>2 DEF PrivateIsPersonal, Personal

(***************************************************************************)
(* Requests in turn                                                        *)
(***************************************************************************)
(* What the plan found still holds.                                        *)
TurnPlan(p) ==
    /\ synced /\ p.op = "left" => p.user \notin announced
    /\ p.op = "write" =>
          /\ p.kind = "NONE" =>
                \A u \in Users : \/ p.add[u] = <<>>
                                 \/ /\ RowsOf(p.conv, u) = {}
                                    /\ \E r \in Role : p.add[u] = NewRow(r)
          /\ p.kind \in {"GROUP", "ORG_GROUP"} => \A u \in Users : Len(p.add[u]) <= 1
          /\ p.kind = "ORG_GROUP" =>
                /\ OrgGroups = {}
                /\ synced => \A u \in announced : \E r \in Role : p.add[u] = NewRow(r)
          /\ p.kind = "PRIVATE" =>
                \E a, t \in Users :
                   /\ p.add = PrivateRows(a, t)
                   /\ ~ \E d \in Conversations : PrivateBetween(d, a, t)
          /\ synced /\ p.user \in Users /\ p.status = "LEFT" => p.user \notin announced

Takes(c, u) == \E i \in RowsOf(c, u) : rows[c][u][i].status # "LEFT"

(* The plan lets user u take part in c, or will. *)
Coming(p, c, u) ==
    \/ p.op = "joined" /\ p.user = u
    \/ /\ p.op = "write" /\ p.conv = c
       /\ \/ p.add[u] # <<>>
          \/ p.user = u /\ p.row \in RowsOf(c, u) /\ p.status = "ACTIVE"

MembersCome ==
    synced => \A c \in OrgGroups, u \in Users : u \in announced =>
        Takes(c, u) \/ \E w \in Workers : Coming(worker[w], c, u)

InTurn ==
    /\ OneBusy /\ OneRowEach /\ OneOrgGroup /\ OnePrivateEach /\ MembersCome
    /\ \A w \in Workers : TurnPlan(worker[w])

TurnInv == turn => InTurn

(* A step of worker w that writes nothing. *)
LEMMA TurnKeeps ==
    ASSUME InTurn, NEW w \in Workers, \A v \in Workers \ {w} : worker'[v] = worker[v],
           UNCHANGED <<admins, synced, kind, rows>>, OneBusy',
           worker[w].op # "idle" \/ worker'[w].op # "idle", TurnPlan(worker[w])',
           synced => \A c \in OrgGroups, u \in Users :
              u \in announced' => Takes(c, u) \/ Coming(worker[w], c, u)'
    PROVE  InTurn'
<1>1. \A v \in Workers \ {w} : worker'[v].op = "idle"
      BY DEF InTurn, OneBusy
<1>2. \A v \in Workers : TurnPlan(worker[v])'
      BY <1>1 DEF TurnPlan
<1>3. /\ OrgGroups' = OrgGroups
      /\ \A c \in Conversations, u \in Users :
            /\ RowsOf(c, u)' = RowsOf(c, u) /\ ActiveRows(c, u)' = ActiveRows(c, u)
            /\ Takes(c, u)' = Takes(c, u)
      BY DEF OrgGroups, RowsOf, ActiveRows, Takes
<1>4. \A c \in Conversations : ActiveUsers(c)' = ActiveUsers(c)
      BY <1>3 DEF ActiveUsers
<1>5. OneRowEach' /\ OneOrgGroup' /\ synced' = synced
      BY <1>3 DEF InTurn, OneRowEach, OneOrgGroup
<1>6. OnePrivateEach'
      BY <1>4 DEF InTurn, OnePrivateEach
<1>7. ASSUME NEW c \in OrgGroups', NEW u \in Users, u \in announced', synced
      PROVE  Takes(c, u)' \/ \E v \in Workers : Coming(worker[v], c, u)'
      BY <1>3, <1>7 DEF OrgGroups
<1>8. MembersCome'
      BY <1>7 DEF MembersCome
<1> QED BY <1>2, <1>5, <1>6, <1>8 DEF InTurn

(* A worker is only taken up when all are idle. *)
LEMMA AllIdle ==
    ASSUME InTurn, NEW w \in Workers, \A v \in Workers \ {w} : worker'[v] = worker[v],
           OneBusy', worker[w].op = "idle", worker'[w].op # "idle"
    PROVE  synced => \A c \in OrgGroups, u \in Users : u \in announced => Takes(c, u)
<1>1. \A v \in Workers : worker[v].op = "idle"
      BY DEF OneBusy
<1> QED BY <1>1 DEF InTurn, MembersCome, Coming

(* A request in turn that plans a write. *)
LEMMA WriteTurns ==
    ASSUME IInv, InTurn, NEW w \in Workers, OneBusy', worker[w].op = "idle",
           worker' = [worker EXCEPT ![w] = worker'[w]], UNCHANGED stored,
           worker'[w].op = "write", TurnPlan(worker[w])'
    PROVE  InTurn'
<1>1. \A v \in Workers \ {w} : worker'[v] = worker[v]
      BY DEF IInv, TypeOK
<1>2. UNCHANGED <<admins, synced, kind, rows>> /\ announced' = announced
      BY DEF stored
<1>3. synced => \A c \in OrgGroups, u \in Users : u \in announced' => Takes(c, u)
      BY <1>1, <1>2, AllIdle
<1> QED BY <1>1, <1>2, <1>3, TurnKeeps

LEMMA StoredSame ==
    ASSUME UNCHANGED stored
    PROVE  /\ OrgGroups' = OrgGroups /\ member' = member /\ kind' = kind /\ admins' = admins
           /\ announced' = announced /\ synced' = synced /\ rows' = rows
           /\ \A c \in Conversations, u \in Users :
                 RowsOf(c, u)' = RowsOf(c, u) /\ ActiveRows(c, u)' = ActiveRows(c, u)
           /\ \A c \in Conversations, a, t \in Users :
                 PrivateBetween(c, a, t)' = PrivateBetween(c, a, t)
<1>1. UNCHANGED <<admins, gone, member, announced, synced, kind, rows>>
      BY DEF stored
<1>2. \A c \in Conversations, u \in Users :
         RowsOf(c, u)' = RowsOf(c, u) /\ ActiveRows(c, u)' = ActiveRows(c, u)
      BY <1>1 DEF RowsOf, ActiveRows
<1>3. \A c \in Conversations : ActiveUsers(c)' = ActiveUsers(c)
      BY <1>2 DEF ActiveUsers
<1> QED BY <1>1, <1>2, <1>3 DEF OrgGroups, PrivateBetween

LEMMA CreatePrivateTurns ==
    ASSUME IInv, InTurn, NEW w \in Workers, OneBusy', NEW a \in Users, NEW t \in Users,
           NEW c \in Conversations, CreatePrivate(w, a, t, c)
    PROVE  InTurn'
<1>1. /\ UNCHANGED stored /\ worker[w].op = "idle"
      /\ worker' = [worker EXCEPT ![w] = worker'[w]]
      /\ worker'[w].op = "write" /\ worker'[w].kind = "PRIVATE"
      /\ worker'[w].user = "none" /\ worker'[w].add = PrivateRows(a, t)
      BY CreatePrivateKeeps
<1>2. ~ \E d \in Conversations : PrivateBetween(d, a, t)'
      BY <1>1, StoredSame DEF CreatePrivate
<1>3. TurnPlan(worker[w])'
      BY <1>1, <1>2, Names DEF TurnPlan
<1> QED BY <1>1, <1>3, WriteTurns

LEMMA CreateGroupTurns ==
    ASSUME IInv, InTurn, NEW w \in Workers, OneBusy', NEW a \in Users,
           NEW invited \in SUBSET Users, NEW c \in Conversations,
           CreateGroup(w, a, invited, c)
    PROVE  InTurn'
<1>1. /\ UNCHANGED stored /\ worker[w].op = "idle"
      /\ worker' = [worker EXCEPT ![w] = worker'[w]]
      /\ worker'[w].op = "write" /\ worker'[w].kind = "GROUP" /\ worker'[w].user = "none"
      /\ \A u \in Users : Len(worker'[w].add[u]) <= 1
      BY CreateGroupKeeps
<1>2. TurnPlan(worker[w])'
      BY <1>1, Names DEF TurnPlan
<1> QED BY <1>1, <1>2, WriteTurns

LEMMA CreateOrgGroupTurns ==
    ASSUME IInv, InTurn, NEW w \in Workers, OneBusy', NEW a \in Users,
           NEW c \in Conversations, CreateOrgGroup(w, a, c)
    PROVE  InTurn'
<1>1. /\ UNCHANGED stored /\ worker[w].op = "idle"
      /\ worker' = [worker EXCEPT ![w] = worker'[w]]
      /\ worker'[w].op = "write" /\ worker'[w].kind = "ORG_GROUP" /\ worker'[w].user = "none"
      /\ OrgGroups = {}
      /\ \A u \in Users :
            /\ Len(worker'[w].add[u]) <= 1
            /\ member[u] # "NONE" => \E r \in Role : worker'[w].add[u] = NewRow(r)
      BY CreateOrgGroupKeeps
<1>2. /\ OrgGroups' = {} /\ announced' = announced
      /\ \A u \in announced : u \in Users /\ member[u] # "NONE"
      BY <1>1, StoredSame DEF IInv, TypeOK
<1>3. TurnPlan(worker[w])'
      BY <1>1, <1>2, Names DEF TurnPlan
<1> QED BY <1>1, <1>3, WriteTurns

LEMMA AddTurns ==
    ASSUME IInv, InTurn, NEW w \in Workers, OneBusy', NEW a \in Users, NEW c \in Conversations,
           NEW t \in Users, NEW r \in Roles, AddParticipant(w, a, c, t, r)
    PROVE  InTurn'
<1>1. /\ UNCHANGED stored /\ worker[w].op = "idle"
      /\ worker' = [worker EXCEPT ![w] = worker'[w]]
      /\ worker'[w].op = "write" /\ worker'[w].conv = c /\ worker'[w].kind = "NONE"
      /\ worker'[w].status # "LEFT"
      /\ \/ /\ RowsOf(c, t) = {} /\ worker'[w].add[t] = NewRow(r) /\ r \in Role
            /\ \A v \in Users \ {t} : worker'[w].add[v] = <<>>
         \/ worker'[w].add = NoRows
      BY AddKeeps
<1>2. \A u \in Users : RowsOf(c, u)' = RowsOf(c, u)
      BY <1>1, StoredSame
<1>3. \A u \in Users : \/ worker'[w].add[u] = <<>>
                       \/ RowsOf(c, u)' = {} /\ \E k \in Role : worker'[w].add[u] = NewRow(k)
      BY <1>1, <1>2, NoRowsType
<1>4. TurnPlan(worker[w])'
  <2>1. \A u \in Users : RowsOf(c, u)' = DOMAIN rows'[c][u]
        BY DEF RowsOf
  <2> QED BY <1>1, <1>3, <2>1 DEF TurnPlan, RowsOf
<1> QED BY <1>1, <1>4, WriteTurns

LEMMA RemoveTurns ==
    ASSUME IInv, InTurn, NEW w \in Workers, OneBusy', NEW a \in Users, NEW c \in Conversations,
           NEW t \in Users, RemoveParticipant(w, a, c, t)
    PROVE  InTurn'
<1>1. /\ UNCHANGED stored /\ worker[w].op = "idle"
      /\ worker' = [worker EXCEPT ![w] = worker'[w]]
      /\ worker'[w].op = "write" /\ worker'[w].kind = "NONE"
      /\ worker'[w].status # "LEFT" /\ worker'[w].add = NoRows
      BY RemoveKeeps
<1>2. TurnPlan(worker[w])'
      BY <1>1, NoRowsType DEF TurnPlan
<1> QED BY <1>1, <1>2, WriteTurns

(* Neither the rows nor the plans change, nor, where they matter, the *)
(* members that were announced.                                       *)
LEMMA SameTurns ==
    ASSUME InTurn, UNCHANGED <<admins, synced, kind, rows, worker>>,
           synced => announced' = announced
    PROVE  InTurn'
<1>1. \A c \in Conversations, u \in Users :
         /\ RowsOf(c, u)' = RowsOf(c, u) /\ Takes(c, u)' = Takes(c, u)
         /\ ActiveRows(c, u)' = ActiveRows(c, u)
      BY DEF RowsOf, Takes, ActiveRows
<1>2. \A c \in Conversations : ActiveUsers(c)' = ActiveUsers(c)
      BY <1>1 DEF ActiveUsers
<1>3. OneRowEach' /\ OneOrgGroup' /\ OneBusy'
      BY DEF InTurn, OneRowEach, OneOrgGroup, OneBusy, OrgGroups
<1>4. OnePrivateEach'
      BY <1>2 DEF InTurn, OnePrivateEach
<1>5. \A w \in Workers : TurnPlan(worker[w])'
  <2>1. OrgGroups' = OrgGroups /\ \A u \in Users : \A c : DOMAIN rows'[c][u] = DOMAIN rows[c][u]
        BY DEF OrgGroups
  <2>2. \A d \in Conversations, a, t \in Users :
           PrivateBetween(d, a, t)' = PrivateBetween(d, a, t)
        BY <1>2 DEF PrivateBetween
  <2>3. SUFFICES ASSUME NEW w \in Workers PROVE TurnPlan(worker[w])'
        OBVIOUS
  <2> DEFINE p == worker[w]
  <2>4. TurnPlan(p) /\ p' = p
        BY DEF InTurn
  <2>5. \A u \in Users : (RowsOf(p.conv, u) = {} => RowsOf(p.conv, u)' = {})
        BY <2>4 DEF RowsOf
  <2>6. p.op = "write" =>
           /\ p'.kind = "NONE" =>
                 \A u \in Users : \/ p'.add[u] = <<>>
                                  \/ /\ RowsOf(p.conv, u)' = {}
                                     /\ \E r \in Role : p'.add[u] = NewRow(r)
           /\ p'.kind \in {"GROUP", "ORG_GROUP"} => \A u \in Users : Len(p'.add[u]) <= 1
        BY <2>4, <2>5 DEF TurnPlan
  <2>7. p.op = "write" /\ p'.kind = "PRIVATE" =>
           \E a, t \in Users :
              /\ p'.add = PrivateRows(a, t)
              /\ ~ \E d \in Conversations : PrivateBetween(d, a, t)'
        BY <2>2, <2>4 DEF TurnPlan
  <2> QED BY <2>1, <2>4, <2>6, <2>7 DEF TurnPlan
<1>6. MembersCome'
  <2>1. \A w \in Workers, c \in Conversations, u \in Users :
           Coming(worker[w], c, u)' = Coming(worker[w], c, u)
        BY DEF Coming, RowsOf
  <2>2. OrgGroups' = OrgGroups /\ OrgGroups \subseteq Conversations
        BY DEF OrgGroups
  <2> QED BY <1>1, <2>1, <2>2 DEF InTurn, MembersCome
<1> QED BY <1>3, <1>4, <1>5, <1>6 DEF InTurn

LEMMA OrgTurns ==
    ASSUME IInv, InTurn, NEW w \in Workers, OneBusy', NEW u \in Users, OrgStep(w, u)
    PROVE  InTurn'
<1>1. /\ worker[w].op = "idle" /\ UNCHANGED <<admins, synced, kind, rows>>
      /\ ~ synced => worker' = worker
      /\ synced =>
            /\ worker' = [worker EXCEPT ![w] = worker'[w]] /\ worker'[w].user = u
            /\ \/ worker'[w].op = "joined" /\ announced' \subseteq announced \cup {u}
               \/ worker'[w].op = "left" /\ announced' = announced \ {u}
      BY OrgKeeps
<1>2. CASE ~ synced
      BY <1>1, <1>2, SameTurns
<1>3. CASE synced
  <2>1. /\ \A v \in Workers \ {w} : worker'[v] = worker[v]
        /\ worker'[w].op # "idle"
        BY <1>1, <1>3 DEF IInv, TypeOK
  <2>2. TurnPlan(worker[w])'
        BY <1>1, <1>3 DEF TurnPlan
  <2>3. ASSUME NEW c \in OrgGroups, NEW x \in Users, x \in announced'
        PROVE  Takes(c, x) \/ Coming(worker[w], c, x)'
    <3>1. CASE x = u
          BY <1>1, <1>3, <2>3, <3>1 DEF Coming
    <3>2. CASE x # u
      <4>1. x \in announced
            BY <1>1, <1>3, <2>3, <3>2
      <4> QED BY <1>1, <1>3, <2>1, <4>1, AllIdle
    <3> QED BY <3>1, <3>2
  <2> QED BY <1>1, <2>1, <2>2, <2>3, TurnKeeps
<1> QED BY <1>2, <1>3

LEMMA SyncTurns ==
    ASSUME IInv, InTurn, NEW w \in Workers, OneBusy', Sync(w)
    PROVE  InTurn'
<1> DEFINE u == worker[w].user
<1>1. /\ worker[w].op \in {"joined", "left"} /\ worker[w].op # "idle" /\ u \in Users
      /\ worker[w].op = "joined" => worker[w].role \in Role
      /\ synced /\ worker[w].op = "left" => u \notin announced
      BY DEF Sync, SyncOrgMemberJoined, SyncOrgMemberLeft, IInv, PlanOK, InTurn, TurnPlan
<1>2. /\ UNCHANGED <<admins, synced, kind, rows>> /\ announced' = announced
      /\ \A c \in Conversations, x \in Users : RowsOf(c, x)' = RowsOf(c, x)
      BY SyncKeeps, StoredSame
<1>3. ASSUME synced, NEW c \in OrgGroups, NEW x \in Users, x \in announced,
             ~ (worker[w].op = "joined" /\ x = u)
      PROVE  Takes(c, x)
      BY <1>1, <1>3 DEF InTurn, OneBusy, MembersCome, Coming
<1>4. CASE worker' = [worker EXCEPT ![w] = Idle] /\ (OrgGroups = {} \/ worker[w].op = "left")
  <2>1. worker'[w] = Idle /\ \A v \in Workers \ {w} : worker'[v] = worker[v]
        BY <1>4 DEF IInv, TypeOK
  <2>2. TurnPlan(worker[w])'
        BY <2>1, IdleFacts DEF TurnPlan
  <2>3. synced => \A c \in OrgGroups, x \in Users : x \in announced' => Takes(c, x)
        BY <1>1, <1>2, <1>3, <1>4
  <2> QED BY <1>1, <1>2, <2>1, <2>2, <2>3, TurnKeeps
<1>5. ASSUME NEW c \in OrgGroups,
             worker' = [worker EXCEPT ![w] = worker'[w]],
             worker'[w].op = "write", worker'[w].conv = c, worker'[w].kind = "NONE",
             \/ /\ worker'[w].add = NoRows /\ worker'[w].user = u
                /\ worker'[w].row \in RowsOf(c, u)
                /\ worker[w].op = "joined" =>
                      worker'[w].status = Changed(rows[c][u][worker'[w].row].status, "ACTIVE")
             \/ /\ worker[w].op = "joined" /\ RowsOf(c, u) = {} /\ worker'[w].status # "LEFT"
                /\ worker'[w].add[u] = NewRow(worker[w].role)
                /\ \A v \in Users \ {u} : worker'[w].add[v] = <<>>
      PROVE  InTurn'
  <2> PICK x \in Users, k \in {"joined", "left"} : x = u /\ k = worker[w].op
      BY <1>1
  <2>1. \A v \in Workers \ {w} : worker'[v] = worker[v]
        BY <1>5 DEF IInv, TypeOK
  <2>2. c \in Conversations /\ \A d \in OrgGroups : d = c
        BY DEF InTurn, OneOrgGroup, OrgGroups
  <2>3. \A y \in Users : \/ worker'[w].add[y] = <<>>
                         \/ RowsOf(c, y) = {} /\ \E r \in Role : worker'[w].add[y] = NewRow(r)
        BY <1>1, <1>5, NoRowsType
  <2>4. synced /\ worker'[w].status = "LEFT" => worker'[w].user = x /\ x \notin announced
        BY <1>1, <1>5 DEF Changed, Keep
  <2>5. TurnPlan(worker[w])'
    <3>1. \A y \in Users : RowsOf(c, y) = DOMAIN rows'[c][y]
          BY <1>2, <2>2 DEF RowsOf
    <3> QED BY <1>2, <1>5, <2>3, <2>4, <3>1 DEF TurnPlan, RowsOf
  <2>6. k = "joined" => Takes(c, x) \/ Coming(worker[w], c, x)'
    <3>1. CASE k = "joined" /\ RowsOf(c, x) = {}
      <4>1. worker'[w].add[x] = NewRow(worker[w].role) /\ NewRow(worker[w].role) # <<>>
            BY <1>1, <1>5, <3>1, NewRowFacts
      <4> QED BY <1>5, <4>1 DEF Coming
    <3>2. CASE k = "joined" /\ RowsOf(c, x) # {}
      <4>1. /\ worker'[w].user = x /\ worker'[w].row \in RowsOf(c, x)
            /\ worker'[w].status = Changed(rows[c][x][worker'[w].row].status, "ACTIVE")
            BY <1>5, <3>2
      <4>2. worker'[w].row \in RowsOf(c, x)'
            BY <1>2, <2>2, <4>1
      <4>3. CASE rows[c][x][worker'[w].row].status # "LEFT"
            BY <4>1, <4>3 DEF Takes
      <4>4. CASE rows[c][x][worker'[w].row].status = "LEFT"
        <5>1. worker'[w].status = "ACTIVE"
              BY <4>1, <4>4 DEF Changed
        <5> QED BY <1>5, <4>1, <4>2, <5>1 DEF Coming
      <4> QED BY <4>3, <4>4
    <3> QED BY <3>1, <3>2
  <2>7. synced => \A d \in OrgGroups, y \in Users :
           y \in announced' => Takes(d, y) \/ Coming(worker[w], d, y)'
        BY <1>1, <1>2, <1>3, <2>2, <2>6
  <2> QED BY <1>1, <1>2, <2>1, <2>5, <2>7, TurnKeeps
<1> QED BY <1>4, <1>5, SyncKeeps

LEMMA PairOnly ==
    ASSUME NEW S, NEW a, NEW t, S \subseteq {a, t}, Cardinality(S) = 2
    PROVE  S = {a, t}
<1>1. SUFFICES ASSUME S # {a, t} PROVE FALSE
      OBVIOUS
<1>2. S = {} \/ S = {a} \/ S = {t}
      BY <1>1
<1>3. Cardinality({}) = 0 /\ Cardinality({a}) = 1 /\ Cardinality({t}) = 1
      BY FS_EmptySet, FS_Singleton
<1> QED BY <1>2, <1>3

(* What a commit makes of the rows of its conversation. *)
LEMMA CommitTurns ==
    ASSUME IInv, InTurn, NEW w \in Workers, OneBusy', Commit(w), IInv'
    PROVE  InTurn'
<1> PICK p \in Plan, c \in Conversations : Commits(w, p, c)
    BY CommitFacts
<1>1. /\ p = worker[w] /\ c = p.conv /\ p.op = "write" /\ PlanOK(p) /\ TurnPlan(p)
      /\ worker'[w] = Idle /\ UNCHANGED <<admins, member, announced, synced>>
      /\ \A d \in Conversations : d # c => kind'[d] = kind[d] /\ rows'[d] = rows[d]
      /\ kind'[c] = IF p.kind # "NONE" THEN p.kind ELSE kind[c]
      BY DEF Commits, IInv, TypeOK, InTurn
<1>2. ASSUME NEW u \in Users
      PROVE  /\ p.add[u] \in Seq(Row)
             /\ Len(rows'[c][u]) = Len(rows[c][u]) + Len(p.add[u])
             /\ \A i \in RowsOf(c, u) :
                   /\ i \in RowsOf(c, u)'
                   /\ rows'[c][u][i] = IF p.user = u /\ p.row = i
                                       THEN Merged(rows[c][u][i], p) ELSE rows[c][u][i]
             /\ \A i \in RowsOf(c, u)' \ RowsOf(c, u) :
                   \E j \in DOMAIN p.add[u] : rows'[c][u][i] = p.add[u][j]
  <2>1. RowsWritten(p, c, u)
        BY DEF Commits
  <2> QED BY <2>1 DEF RowsWritten
<1>3. /\ \A v \in Workers \ {w} : worker'[v] = worker[v] /\ worker'[v].op = "idle"
      /\ \A v \in Workers : v # w => worker[v].op = "idle"
      BY <1>1 DEF Commits, IInv, TypeOK, InTurn, OneBusy
<1>4. \A v \in Workers : TurnPlan(worker[v])'
      BY <1>1, <1>3, IdleFacts DEF TurnPlan
<1>5. synced' = synced /\ announced' = announced
      BY <1>1
<1>6. \A d \in Conversations, u \in Users : d # c =>
         RowsOf(d, u)' = RowsOf(d, u) /\ ActiveRows(d, u)' = ActiveRows(d, u)
      BY <1>1 DEF RowsOf, ActiveRows
<1>7. kind[c] = "NONE" => \A u \in Users : Len(rows[c][u]) = 0
      BY NoRowsType DEF IInv, RowsOK
<1>8. OneOrgGroup'
  <2>1. CASE p.kind = "ORG_GROUP"
    <3>1. OrgGroups = {}
          BY <1>1, <2>1 DEF TurnPlan
    <3> QED BY <1>1, <3>1 DEF OneOrgGroup, OrgGroups
  <2>2. CASE p.kind # "ORG_GROUP"
    <3>1. OrgGroups' \subseteq OrgGroups
          BY <1>1, <2>2 DEF OrgGroups
    <3> QED BY <3>1 DEF InTurn, OneOrgGroup
  <2> QED BY <2>1, <2>2
<1>9. OneRowEach'
  <2> SUFFICES ASSUME NEW u \in Users, kind'[c] # "PRIVATE" PROVE Len(rows'[c][u]) <= 1
      BY <1>1 DEF InTurn, OneRowEach
  <2>1. rows[c][u] \in Seq(Row) /\ p.add[u] \in Seq(Row)
        BY <1>2, RowTyped DEF IInv
  <2> PICK n \in Nat, m \in Nat : n = Len(rows[c][u]) /\ m = Len(p.add[u])
      BY <2>1
  <2>5. Len(rows'[c][u]) = n + m
        BY <1>2
  <2>2. CASE p.kind # "NONE"
    <3>1. n = 0 /\ m <= 1
          BY <1>1, <1>7, <2>2 DEF PlanOK, TurnPlan, Plan, Kind
    <3> QED BY <2>5, <3>1
  <2>3. CASE p.kind = "NONE" /\ p.add[u] = <<>>
    <3>1. n <= 1 /\ m = 0
          BY <1>1, <2>3 DEF InTurn, OneRowEach
    <3> QED BY <2>5, <3>1
  <2>4. CASE p.kind = "NONE" /\ p.add[u] # <<>>
    <3>1. RowsOf(c, u) = {} /\ \E r \in Role : p.add[u] = NewRow(r)
          BY <1>1, <2>4 DEF TurnPlan
    <3>2. m = 1
          BY <3>1, NewRowFacts
    <3>3. RowsOf(c, u) = 1..n
          BY <2>1 DEF RowsOf
    <3>4. n = 0
          BY <3>1, <3>3
    <3> QED BY <2>5, <3>2, <3>4
  <2> QED BY <2>2, <2>3, <2>4
<1>10. ASSUME NEW d \in Conversations, NEW u \in Users, Takes(d, u), u \in announced, synced
       PROVE  Takes(d, u)'
  <2>1. CASE d # c
        BY <1>1, <1>6, <1>10, <2>1 DEF Takes
  <2>2. CASE d = c
    <3>1. PICK i \in RowsOf(c, u) : rows[c][u][i].status # "LEFT"
          BY <1>10, <2>2 DEF Takes
    <3>2. p.user = u => p.status # "LEFT"
          BY <1>1, <1>10 DEF TurnPlan
    <3>3. rows'[c][u][i].status # "LEFT"
      <4>1. CASE p.user = u /\ p.row = i
        <5>1. rows'[c][u][i] = Merged(rows[c][u][i], p)
              BY <1>2, <4>1
        <5> QED BY <3>1, <3>2, <4>1, <5>1 DEF Merged
      <4>2. CASE ~ (p.user = u /\ p.row = i)
        <5>1. rows'[c][u][i] = rows[c][u][i]
              BY <1>2, <4>2
        <5> QED BY <3>1, <5>1
      <4> QED BY <4>1, <4>2
    <3>4. i \in RowsOf(c, u)'
          BY <1>2
    <3> QED BY <2>2, <3>3, <3>4 DEF Takes
  <2> QED BY <2>1, <2>2
<1>11. ASSUME NEW u \in Users, NEW r \in Role, p.add[u] = NewRow(r)
       PROVE  Takes(c, u)'
  <2>1. /\ Len(p.add[u]) = 1 /\ p.add[u][1].status = "ACTIVE" /\ DOMAIN p.add[u] = 1..1
        BY <1>2, <1>11, NewRowFacts
  <2>2. /\ rows[c][u] \in Seq(Row) /\ rows'[c][u] \in Seq(Row)
        /\ Len(rows'[c][u]) = Len(rows[c][u]) + 1
    <3>1. rows[c][u] \in Seq(Row)
          BY RowTyped DEF IInv
    <3>2. rows'[c][u] \in Seq(Row)
          BY DEF IInv, TypeOK
    <3>3. Len(rows'[c][u]) = Len(rows[c][u]) + Len(p.add[u])
          BY <1>2
    <3> QED BY <2>1, <3>1, <3>2, <3>3
  <2>3. /\ RowsOf(c, u) = 1..Len(rows[c][u]) /\ RowsOf(c, u)' = 1..Len(rows'[c][u])
        BY <2>2 DEF RowsOf
  <2>4. PICK i \in RowsOf(c, u)' \ RowsOf(c, u) : TRUE
    <3>1. Len(rows'[c][u]) \in RowsOf(c, u)' \ RowsOf(c, u)
          BY <2>2, <2>3
    <3> QED BY <3>1
  <2>5. PICK j \in DOMAIN p.add[u] : rows'[c][u][i] = p.add[u][j]
        BY <1>2, <2>4
  <2>6. rows'[c][u][i].status = "ACTIVE"
        BY <2>1, <2>5
  <2> QED BY <2>4, <2>6 DEF Takes
<1>12. MembersCome'
  <2> SUFFICES ASSUME NEW d \in OrgGroups', NEW u \in Users, u \in announced, synced
               PROVE  Takes(d, u)'
      BY <1>5 DEF MembersCome
  <2>1. CASE d \notin OrgGroups
    <3>1. d = c /\ p.kind = "ORG_GROUP"
          BY <1>1, <2>1 DEF OrgGroups
    <3>2. \E r \in Role : p.add[u] = NewRow(r)
          BY <1>1, <3>1 DEF TurnPlan
    <3> QED BY <1>11, <3>1, <3>2
  <2>2. CASE d \in OrgGroups /\ Takes(d, u)
        BY <1>10, <2>2 DEF OrgGroups
  <2>3. CASE d \in OrgGroups /\ ~ Takes(d, u)
    <3>1. PICK v \in Workers : Coming(worker[v], d, u)
          BY <2>3 DEF InTurn, MembersCome
    <3>2. v = w /\ d = c
          BY <1>1, <1>3, <3>1 DEF Coming
    <3>3. p.kind = "NONE"
          BY <1>1, <2>3, <3>2 DEF PlanOK, OrgGroups
    <3>4. CASE p.add[u] # <<>>
      <4>1. \E r \in Role : p.add[u] = NewRow(r)
            BY <1>1, <3>3, <3>4 DEF TurnPlan
      <4> QED BY <1>11, <3>2, <4>1
    <3>5. CASE p.user = u /\ p.row \in RowsOf(c, u) /\ p.status = "ACTIVE"
      <4>1. rows'[c][u][p.row] = Merged(rows[c][u][p.row], p) /\ p.row \in RowsOf(c, u)'
            BY <1>2, <3>5
      <4>2. rows'[c][u][p.row].status = "ACTIVE"
            BY <3>5, <4>1 DEF Merged, Keep
      <4> QED BY <3>2, <4>1, <4>2 DEF Takes
    <3> QED BY <1>1, <3>1, <3>2, <3>4, <3>5 DEF Coming
  <2> QED BY <2>1, <2>2, <2>3
<1>13. OnePrivateEach'
  <2> SUFFICES ASSUME admins = {}, NEW d \in Conversations, NEW e \in Conversations,
                      kind'[d] = "PRIVATE", kind'[e] = "PRIVATE",
                      ActiveUsers(d)' = ActiveUsers(e)', Cardinality(ActiveUsers(d)') = 2,
                      d # e, d # c \/ kind[c] # "NONE"
               PROVE  FALSE
    <3>1. admins' = admins
          BY <1>1
    <3> QED BY <3>1 DEF OnePrivateEach
  <2>1. ASSUME NEW x \in Conversations, kind[x] # "NONE", kind'[x] = "PRIVATE",
               Cardinality(ActiveUsers(x)') = 2
        PROVE  kind[x] = "PRIVATE" /\ ActiveUsers(x)' = ActiveUsers(x)
    <3>1. Closed(x)
          BY <1>1, <2>1 DEF Closed, PlanOK
    <3>2. PICK a \in Users, t \in Users : ActiveUsers(x) \subseteq {a, t}
          BY <3>1 DEF IInv, RowsOK
    <3>3. ActiveUsers(x)' \subseteq ActiveUsers(x)
      <4>1. \A u \in Users : ActiveRows(x, u)' \subseteq ActiveRows(x, u)
            BY <3>1, CommitCloses
      <4> QED BY <4>1 DEF ActiveUsers
    <3>4. ActiveUsers(x)' = {a, t}
          BY <2>1, <3>2, <3>3, PairOnly
    <3> QED BY <3>1, <3>2, <3>3, <3>4 DEF Closed
  <2>2. kind[d] # "NONE"
        BY <1>1
  <2>3. CASE kind[e] # "NONE"
        BY <2>1, <2>2, <2>3 DEF InTurn, OnePrivateEach
  <2>4. CASE kind[e] = "NONE"
    <3>1. e = c /\ p.kind = "PRIVATE" /\ rows[c] = NoRows
          BY <1>1, <2>4 DEF IInv, RowsOK
    <3>2. PICK a \in Users, t \in Users :
             /\ p.add = PrivateRows(a, t)
             /\ ~ \E x \in Conversations : PrivateBetween(x, a, t)
          BY <1>1, <3>1 DEF TurnPlan
    <3>3. ActiveUsers(c)' \subseteq {a, t}
      <4> SUFFICES ASSUME NEW u \in Users, NEW i \in ActiveRows(c, u)' PROVE u \in {a, t}
          BY DEF ActiveUsers
      <4>1. i \in RowsOf(c, u)' \ RowsOf(c, u)
            BY <3>1, NoRowsType DEF ActiveRows, RowsOf
      <4>2. DOMAIN p.add[u] # {}
            BY <1>2, <4>1
      <4>3. p.add[u] # <<>>
            BY <4>2
      <4> QED BY <3>2, <4>3, PrivateRowsFacts
    <3>6. ActiveUsers(d)' \subseteq {a, t}
      <4>1. ActiveUsers(e)' = ActiveUsers(c)'
            BY <3>1 DEF ActiveUsers
      <4> QED BY <3>3, <4>1
    <3>4. ActiveUsers(d)' = {a, t}
          BY <3>6, PairOnly
    <3>5. kind[d] = "PRIVATE" /\ ActiveUsers(d) = {a, t}
          BY <2>1, <2>2, <3>4
    <3> QED BY <3>2, <3>5 DEF PrivateBetween
  <2> QED BY <2>3, <2>4
<1> QED BY <1>4, <1>5, <1>8, <1>9, <1>12, <1>13 DEF InTurn

LEMMA TurnSteps ==
    ASSUME IInv, InTurn, IInv', Next, OneBusy', UNCHANGED gone PROVE InTurn'
<1>1. ASSUME NEW w \in Workers, NEW a \in Users, NEW c \in Conversations, NEW t \in Users,
             CreatePrivate(w, a, t, c)
      PROVE  InTurn'
      BY <1>1, CreatePrivateTurns
<1>2. ASSUME NEW w \in Workers, NEW a \in Users, NEW c \in Conversations,
             NEW invited \in SUBSET Users, CreateGroup(w, a, invited, c)
      PROVE  InTurn'
      BY <1>2, CreateGroupTurns
<1>3. ASSUME NEW w \in Workers, NEW a \in Users, NEW c \in Conversations, CreateOrgGroup(w, a, c)
      PROVE  InTurn'
      BY <1>3, CreateOrgGroupTurns
<1>4. ASSUME NEW w \in Workers, NEW a \in Users, NEW c \in Conversations, NEW t \in Users,
             NEW r \in Roles, AddParticipant(w, a, c, t, r)
      PROVE  InTurn'
      BY <1>4, AddTurns
<1>5. ASSUME NEW w \in Workers, NEW a \in Users, NEW c \in Conversations, NEW t \in Users,
             RemoveParticipant(w, a, c, t)
      PROVE  InTurn'
      BY <1>5, RemoveTurns
<1>6. ASSUME NEW w \in Workers, NEW a \in Users, OrgStep(w, a)
      PROVE  InTurn'
      BY <1>6, OrgTurns
<1>7. ASSUME NEW u \in Users, NEW r \in Roles, OrgJoinSilently(u, r)
      PROVE  InTurn'
      BY <1>7, SilentKeeps, SameTurns
<1>8. ASSUME NEW w \in Workers, Request(w) PROVE InTurn'
      BY <1>1, <1>2, <1>3, <1>4, <1>5, <1>6, <1>8 DEF Request, OrgStep
<1>9. ASSUME NEW w \in Workers, Sync(w) \/ Commit(w) PROVE InTurn'
      BY <1>9, SyncTurns, CommitTurns
<1>10. ASSUME NEW u \in Users PROVE ~ DeactivateUser(u)
       BY DEF DeactivateUser
<1> QED BY <1>7, <1>8, <1>9, <1>10 DEF Next

LEMMA InitInTurn ==
    ASSUME Init PROVE InTurn
<1>1. \A w \in Workers : worker[w] = Idle
      BY DEF Init
<1>2. OneBusy /\ \A w \in Workers : TurnPlan(worker[w])
      BY <1>1, IdleFacts DEF OneBusy, TurnPlan
<1>3. \A c \in Conversations : kind[c] = "NONE" /\ rows[c] = NoRows
      BY DEF Init, NoRows
<1>4. OneRowEach
      BY <1>3, NoRowsType DEF OneRowEach
<1>5. OneOrgGroup /\ OnePrivateEach /\ MembersCome
      BY <1>3 DEF OneOrgGroup, OnePrivateEach, MembersCome, OrgGroups
<1> QED BY <1>2, <1>4, <1>5 DEF InTurn

(* With requests in turn, a user has at most one row in a group, two users *)
(* one private conversation and the organization one group, for any number *)
(* of workers; and the members whose joining the organization announced    *)
(* take part in its group once the handlers of the events are done, unless *)
(* somebody removed them (OrgJoin, OrgRequest, sync_org_member_joined).    *)
THEOREM OneOfEach == MCSpec => []OneOfEachInTurn
<1>1. MCInit => IInv /\ TurnInv
      BY InitKeeps, InitInTurn DEF MCInit, TurnInv
<1>2. IInv /\ TurnInv /\ [MCNext]_<<vars, turn>> => (IInv /\ TurnInv)'
  <2> SUFFICES ASSUME IInv, TurnInv, [MCNext]_<<vars, turn>> PROVE (IInv /\ TurnInv)'
      OBVIOUS
  <2>1. CASE MCNext
    <3>1. Next /\ UNCHANGED turn /\ (turn => OneBusy' /\ UNCHANGED gone)
          BY <2>1 DEF MCNext
    <3>2. IInv'
          BY <3>1, NextKeeps
    <3> QED BY <3>1, <3>2, TurnSteps DEF TurnInv
  <2>2. CASE UNCHANGED <<vars, turn>>
    <3>1. UNCHANGED vars /\ UNCHANGED turn
          BY <2>2
    <3>2. UNCHANGED <<admins, synced, kind, rows, worker>> /\ announced' = announced
          BY <3>1 DEF vars
    <3> QED BY <3>1, <3>2, StutterKeeps, SameTurns DEF TurnInv
  <2> QED BY <2>1, <2>2
<1>3. IInv /\ TurnInv => OneOfEachInTurn
  <2> SUFFICES ASSUME IInv, TurnInv PROVE OneOfEachInTurn
      OBVIOUS
  <2>1. turn /\ synced => AnnouncedTakePart
        BY DEF IInv, TypeOK, TurnInv, InTurn, MembersCome, AnnouncedTakePart, Coming, Takes
  <2> QED BY <2>1 DEF OneOfEachInTurn, TurnInv, InTurn, IInv
<1> QED BY <1>1, <1>2, <1>3, PTL DEF MCSpec
=============================================================================
