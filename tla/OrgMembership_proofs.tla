------------------------ MODULE OrgMembership_proofs ------------------------
(***************************************************************************)
(* For any users, roles and capacities: the types and the finality of a    *)
(* deletion with any number of concurrent requests; that an organization   *)
(* always has an owner, and lets in only whom it may, when requests are    *)
(* served one at a time.                                                   *)
(***************************************************************************)
EXTENDS OrgMembership, FiniteSetTheorems, TLAPS

(* The type of the rows and the plans. *)
LEMMA IdleType == OrgAssumption => Idle \in Plan
BY DEF OrgAssumption, Idle, Plan, Op

(* A plan that writes one membership row is well typed. *)
LEMMA WriteRowType ==
    ASSUME OrgAssumption, TypeOK, NEW op \in Op, NEW t \in Users,
           NEW r \in Role, NEW s \in MembershipStatus
    PROVE  WriteRow(op, t, r, s) \in Plan
<1>1. Changed(role[t], r) \in Role \cup {Keep}
      BY DEF Changed
<1>2. Changed(membership[t], s) \in MembershipStatus \cup {Keep}
      BY DEF Changed
<1>3. (membership[t] = "NONE") \in BOOLEAN
      OBVIOUS
<1> QED BY <1>1, <1>2, <1>3, IdleType DEF WriteRow, Plan

(* Beginning a well-typed plan, and committing one, keeps the types. *)
LEMMA BeginType ==
    ASSUME TypeOK, NEW w \in Workers, NEW plan \in Plan, Begin(w, plan)
    PROVE  TypeOK'
BY DEF Begin, TypeOK

LEMMA CommitType ==
    ASSUME OrgAssumption, TypeOK, NEW w \in Workers, Commit(w)
    PROVE  TypeOK'
<1>1. worker[w] \in Plan
      BY DEF TypeOK
<1>2. CASE UNCHANGED <<deleted, policy, capacity, role, membership>>
      BY <1>2, IdleType DEF Commit, TypeOK
<1>3. CASE /\ deleted' = (deleted \/ worker[w].delete)
           /\ policy' = IF worker[w].policy = Keep THEN policy ELSE worker[w].policy
           /\ capacity' = IF worker[w].capacity = 0 THEN capacity ELSE worker[w].capacity
           /\ role' = Merge(role, worker[w].role)
           /\ membership' = Merge(membership, worker[w].status)
  <2>1. role' \in [Users -> Role]
        BY <1>1, <1>3 DEF Merge, TypeOK, Plan
  <2>2. membership' \in [Users -> MembershipStatus \cup {"NONE"}]
        BY <1>1, <1>3 DEF Merge, TypeOK, Plan
  <2>3. policy' \in Policies /\ capacity' \in Capacities
        BY <1>1, <1>3 DEF TypeOK, Plan
  <2>4. deleted' \in BOOLEAN
        BY <1>3
  <2>5. worker' \in [Workers -> Plan]
        BY IdleType DEF Commit, TypeOK
  <2> QED BY <2>1, <2>2, <2>3, <2>4, <2>5 DEF TypeOK
<1> QED BY <1>2, <1>3 DEF Commit

(* Every request begins a well-typed plan. *)
LEMMA RequestType ==
    ASSUME OrgAssumption, TypeOK, NEW w \in Workers, Request(w)
    PROVE  TypeOK'
<1>1. PICK a \in Users :
       \/ AcceptInvitation(w, a) \/ DeclineInvitation(w, a)
       \/ JoinOrganization(w, a) \/ LeaveOrganization(w, a)
       \/ DeleteOrganization(w, a)
       \/ \E p \in Policies, c \in Capacities : UpdateOrganization(w, a, p, c)
       \/ \E t \in Users : TransferOwnership(w, a, t) \/ RemoveMember(w, a, t)
       \/ \E t \in Users, r \in Role :
             \/ AddMember(w, a, t, r) \/ InviteMember(w, a, t, r)
             \/ ApproveRequest(w, a, t, r) \/ RejectRequest(w, a, t, r)
             \/ UpdateMemberRole(w, a, t, r)
      BY DEF Request
<1> USE DEF Op, Role, MembershipStatus
<1>2. \A u \in Users : role[u] \in Role
      BY DEF TypeOK
<1>3. CASE \/ AcceptInvitation(w, a) \/ DeclineInvitation(w, a)
           \/ JoinOrganization(w, a) \/ LeaveOrganization(w, a)
  <2>1. \A s \in {"ACTIVE", "PENDING", "LEFT", "REMOVED"},
           op \in {"accept", "decline", "join", "leave"}, r \in {role[a], "MEMBER"} :
           WriteRow(op, a, r, s) \in Plan
        BY <1>2, WriteRowType
  <2> QED BY <1>3, <2>1, BeginType DEF AcceptInvitation, DeclineInvitation,
              JoinOrganization, LeaveOrganization
<1>4. CASE DeleteOrganization(w, a)
  <2>1. [Idle EXCEPT !.op = "delete", !.delete = TRUE] \in Plan
        BY IdleType DEF Plan
  <2> QED BY <1>4, <2>1, BeginType DEF DeleteOrganization
<1>5. ASSUME NEW p \in Policies, NEW c \in Capacities, UpdateOrganization(w, a, p, c)
      PROVE  TypeOK'
  <2>1. Changed(policy, p) \in Policies \cup {Keep}
        BY DEF Changed
  <2>2. (IF c = capacity THEN 0 ELSE c) \in Capacities \cup {0}
        OBVIOUS
  <2>3. [Idle EXCEPT !.op = "update",
                     !.policy = Changed(policy, p),
                     !.capacity = IF c = capacity THEN 0 ELSE c] \in Plan
        BY <2>1, <2>2, IdleType DEF Plan
  <2> QED BY <1>5, <2>3, BeginType DEF UpdateOrganization
<1>6. ASSUME NEW t \in Users, TransferOwnership(w, a, t) PROVE TypeOK'
  <2>1. WriteRow("transfer", t, "OWNER", "ACTIVE") \in Plan
        BY WriteRowType
  <2>2. [WriteRow("transfer", t, "OWNER", "ACTIVE") EXCEPT !.role[a] = "ADMIN"] \in Plan
        BY <2>1 DEF Plan
  <2> QED BY <1>6, <2>2, BeginType DEF TransferOwnership
<1>7. ASSUME NEW t \in Users, RemoveMember(w, a, t) PROVE TypeOK'
      BY <1>2, <1>7, BeginType, WriteRowType DEF RemoveMember
<1>8. ASSUME NEW t \in Users, NEW r \in Role,
             \/ AddMember(w, a, t, r) \/ InviteMember(w, a, t, r)
             \/ ApproveRequest(w, a, t, r) \/ RejectRequest(w, a, t, r)
             \/ UpdateMemberRole(w, a, t, r)
      PROVE  TypeOK'
  <2>1. CASE AddMember(w, a, t, r)
        BY <2>1, BeginType, WriteRowType DEF AddMember
  <2>2. CASE InviteMember(w, a, t, r)
        BY <2>2, BeginType, WriteRowType DEF InviteMember
  <2>3. CASE ApproveRequest(w, a, t, r)
        BY <2>3, BeginType, WriteRowType DEF ApproveRequest
  <2>4. CASE RejectRequest(w, a, t, r)
        BY <1>2, <2>4, BeginType, WriteRowType DEF RejectRequest
  <2>5. CASE UpdateMemberRole(w, a, t, r)
        BY <2>5, BeginType, WriteRowType DEF UpdateMemberRole
  <2> QED BY <1>8, <2>1, <2>2, <2>3, <2>4, <2>5
<1> QED BY <1>1, <1>3, <1>4, <1>5, <1>6, <1>7, <1>8

(* A request only begins a plan: no row changes before it is committed.    *)
LEMMA RequestBegins ==
    ASSUME NEW w \in Workers, Request(w)
    PROVE  ~ deleted /\ UNCHANGED <<deleted, policy, capacity, role, membership>>
<1>1. ASSUME NEW a \in Users,
             \/ AcceptInvitation(w, a) \/ DeclineInvitation(w, a)
             \/ JoinOrganization(w, a) \/ LeaveOrganization(w, a)
             \/ DeleteOrganization(w, a)
      PROVE  ~ deleted /\ UNCHANGED <<deleted, policy, capacity, role, membership>>
      BY <1>1 DEF AcceptInvitation, DeclineInvitation, JoinOrganization,
             LeaveOrganization, DeleteOrganization, Begin
<1>2. ASSUME NEW a \in Users, NEW p \in Policies, NEW c \in Capacities,
             UpdateOrganization(w, a, p, c)
      PROVE  ~ deleted /\ UNCHANGED <<deleted, policy, capacity, role, membership>>
      BY <1>2 DEF UpdateOrganization, Begin
<1>3. ASSUME NEW a \in Users, NEW t \in Users,
             TransferOwnership(w, a, t) \/ RemoveMember(w, a, t)
      PROVE  ~ deleted /\ UNCHANGED <<deleted, policy, capacity, role, membership>>
      BY <1>3 DEF TransferOwnership, RemoveMember, Begin
<1>4. ASSUME NEW a \in Users, NEW t \in Users, NEW r \in Role,
             \/ AddMember(w, a, t, r) \/ InviteMember(w, a, t, r)
             \/ ApproveRequest(w, a, t, r) \/ RejectRequest(w, a, t, r)
             \/ UpdateMemberRole(w, a, t, r)
      PROVE  ~ deleted /\ UNCHANGED <<deleted, policy, capacity, role, membership>>
      BY <1>4 DEF AddMember, InviteMember, ApproveRequest, RejectRequest,
             UpdateMemberRole, Begin
<1> QED BY <1>1, <1>2, <1>3, <1>4 DEF Request

(* The rows and the plans are always well typed, whatever runs at the      *)
(* same time.                                                              *)
THEOREM TypeCorrect == ASSUME OrgAssumption PROVE Spec => []TypeOK
<1>1. Init => TypeOK
  BY IdleType DEF OrgAssumption, Init, TypeOK, Role, MembershipStatus
<1>2. TypeOK /\ [Next]_vars => TypeOK'
  <2> SUFFICES ASSUME TypeOK, [Next]_vars PROVE TypeOK'
      OBVIOUS
  <2>1. CASE UNCHANGED vars
        BY <2>1 DEF vars, TypeOK
  <2> QED BY <2>1, RequestType, CommitType DEF Next
<1> QED BY <1>1, <1>2, PTL DEF Spec

(* A commit never takes back a deletion, however old its plan is. *)
THEOREM DeletionIsFinal == ASSUME OrgAssumption PROVE Spec => DeletedForGood
<1>1. TypeOK /\ [Next]_vars => (deleted => deleted')
  <2> SUFFICES ASSUME TypeOK, [Next]_vars, deleted PROVE deleted'
      OBVIOUS
  <2>1. ASSUME NEW w \in Workers, Commit(w) PROVE deleted'
        BY <2>1 DEF Commit
  <2>2. ASSUME NEW w \in Workers, Request(w) PROVE FALSE
        BY <2>2, RequestBegins
  <2>3. UNCHANGED vars => deleted'
        BY DEF vars
  <2> QED BY <2>1, <2>2, <2>3 DEF Next
<1> QED BY <1>1, TypeCorrect, PTL DEF Spec, DeletedForGood

-----------------------------------------------------------------------------
(***************************************************************************)
(* One request at a time.  A plan made on rows nobody else changes leaves  *)
(* an owner once it is committed; that has to be said of plans under way,  *)
(* as LastOwner alone says nothing of what a commit will do.               *)
(***************************************************************************)
LeavesAnOwner(plan) ==
    \E u \in Users : /\ Merge(membership, plan.status)[u] = "ACTIVE"
                     /\ Merge(role, plan.role)[u] = "OWNER"

PlansInv == \A w \in Workers : worker[w] # Idle => LeavesAnOwner(worker[w])

IInv == TypeOK /\ LastOwner /\ PlansInv

(* Who is not the last owner leaves another owner behind. *)
LEMMA OwnerRemains ==
    ASSUME OrgAssumption, Owners # {}, NEW t \in Users, ~ IsLastOwner(t)
    PROVE  (t \notin Owners \/ Cardinality(Owners) > 1) /\ \E v \in Owners : v # t
<1>1. CASE t \notin Owners
      BY <1>1
<1>2. CASE t \in Owners
  <2>1. IsFiniteSet(Owners)
        BY FS_Subset DEF Owners, OrgAssumption
  <2>2. Cardinality(Owners) \in Nat
        BY <2>1, FS_CardinalityType
  <2>3. Cardinality(Owners) > 1
        BY <1>2, <2>2 DEF IsLastOwner, Owners
  <2>4. Owners # {t}
        BY <2>3, FS_Singleton, SMT
  <2> QED BY <1>2, <2>3, <2>4
<1> QED BY <1>1, <1>2

(* Writing the row of t leaves an owner when there is another one, or when *)
(* t becomes one.                                                          *)
LEMMA WriteRowLeavesAnOwner ==
    ASSUME TypeOK, NEW op \in Op, NEW t \in Users,
           NEW r \in Role, NEW s \in MembershipStatus,
           (\E v \in Owners : v # t) \/ (r = "OWNER" /\ s = "ACTIVE")
    PROVE  LeavesAnOwner(WriteRow(op, t, r, s))
<1> DEFINE plan == WriteRow(op, t, r, s)
<1>1. /\ plan.role = [u \in Users |-> IF u = t THEN Changed(role[t], r) ELSE Keep]
      /\ plan.status = [u \in Users |-> IF u = t THEN Changed(membership[t], s)
                                                 ELSE Keep]
      BY DEF WriteRow, Idle
<1>2. CASE \E v \in Owners : v # t
  <2>1. PICK v \in Owners : v # t
        BY <1>2
  <2>2. /\ v \in Users
        /\ Merge(membership, plan.status)[v] = "ACTIVE"
        /\ Merge(role, plan.role)[v] = "OWNER"
        BY <1>1, <2>1 DEF Merge, Owners
  <2> QED BY <2>2 DEF LeavesAnOwner
<1>3. CASE r = "OWNER" /\ s = "ACTIVE"
  <2>1. /\ Merge(membership, plan.status)[t] = "ACTIVE"
        /\ Merge(role, plan.role)[t] = "OWNER"
        BY <1>1, <1>3 DEF Merge, Changed, Keep
  <2> QED BY <2>1 DEF LeavesAnOwner
<1> QED BY <1>2, <1>3

(* Every request begins a plan that leaves an owner. *)
LEMMA RequestLeavesAnOwner ==
    ASSUME OrgAssumption, IInv, NEW w \in Workers, Request(w),
           \A v, x \in Workers : v = x
    PROVE  PlansInv'
<1>1. TypeOK /\ LastOwner
      BY DEF IInv
<1>2. Owners # {}
      BY <1>1, RequestBegins DEF LastOwner
<1>3. ASSUME NEW plan, Begin(w, plan), LeavesAnOwner(plan) PROVE PlansInv'
  <2>1. worker'[w] = plan
        BY <1>1, <1>3 DEF Begin, TypeOK
  <2> QED BY <1>3, <2>1, RequestBegins DEF PlansInv, LeavesAnOwner, Merge
<1>4. \A u \in Users : role[u] \in Role /\ (membership[u] # "ACTIVE" => u \notin Owners)
      BY <1>1 DEF TypeOK, Owners
<1>5. ASSUME NEW op \in Op, NEW t \in Users, NEW r \in Role,
             NEW s \in MembershipStatus, Begin(w, WriteRow(op, t, r, s)),
             \/ membership[t] # "ACTIVE" \/ ~ IsLastOwner(t)
             \/ r = "OWNER" /\ s = "ACTIVE"
      PROVE  PlansInv'
  <2>1. (\E v \in Owners : v # t) \/ (r = "OWNER" /\ s = "ACTIVE")
        BY <1>2, <1>4, <1>5, OwnerRemains
  <2> QED BY <1>1, <1>3, <1>5, <2>1, WriteRowLeavesAnOwner
<1>6. ASSUME NEW plan, Begin(w, plan),
             plan.role = [u \in Users |-> Keep], plan.status = [u \in Users |-> Keep]
      PROVE  PlansInv'
  <2>1. PICK v \in Users : membership[v] = "ACTIVE" /\ role[v] = "OWNER"
        BY <1>2 DEF Owners
  <2>2. LeavesAnOwner(plan)
        BY <1>6, <2>1 DEF LeavesAnOwner, Merge
  <2> QED BY <1>3, <1>6, <2>2
<1> USE DEF Op, Role, MembershipStatus
<1>7. PICK a \in Users :
       \/ AcceptInvitation(w, a) \/ DeclineInvitation(w, a)
       \/ JoinOrganization(w, a) \/ LeaveOrganization(w, a)
       \/ DeleteOrganization(w, a)
       \/ \E p \in Policies, c \in Capacities : UpdateOrganization(w, a, p, c)
       \/ \E t \in Users : TransferOwnership(w, a, t) \/ RemoveMember(w, a, t)
       \/ \E t \in Users, r \in Role :
             \/ AddMember(w, a, t, r) \/ InviteMember(w, a, t, r)
             \/ ApproveRequest(w, a, t, r) \/ RejectRequest(w, a, t, r)
             \/ UpdateMemberRole(w, a, t, r)
      BY DEF Request
<1>8. CASE AcceptInvitation(w, a)
      BY <1>4, <1>5, <1>8 DEF AcceptInvitation
<1>9. CASE DeclineInvitation(w, a)
      BY <1>4, <1>5, <1>9 DEF DeclineInvitation
<1>10. CASE JoinOrganization(w, a)
       BY <1>5, <1>10 DEF JoinOrganization, Vacant
<1>11. CASE LeaveOrganization(w, a)
       BY <1>4, <1>5, <1>11 DEF LeaveOrganization
<1>12. CASE DeleteOrganization(w, a)
       BY <1>6, <1>12 DEF DeleteOrganization, Idle
<1>13. ASSUME NEW p \in Policies, NEW c \in Capacities, UpdateOrganization(w, a, p, c)
       PROVE  PlansInv'
       BY <1>6, <1>13 DEF UpdateOrganization, Idle
<1>14. ASSUME NEW t \in Users, TransferOwnership(w, a, t) PROVE PlansInv'
  <2> DEFINE plan == [WriteRow("transfer", t, "OWNER", "ACTIVE") EXCEPT
                         !.role[a] = "ADMIN"]
  <2>1. t # a /\ membership[t] = "ACTIVE"
        BY <1>14 DEF TransferOwnership
  <2>2. /\ plan.role[t] = Changed(role[t], "OWNER")
        /\ plan.status[t] = Changed(membership[t], "ACTIVE")
        BY <2>1 DEF WriteRow, Idle
  <2>3. /\ Merge(membership, plan.status)[t] = "ACTIVE"
        /\ Merge(role, plan.role)[t] = "OWNER"
        BY <2>2 DEF Merge, Changed, Keep
  <2>4. LeavesAnOwner(plan)
        BY <2>3 DEF LeavesAnOwner
  <2> QED BY <1>3, <1>14, <2>4 DEF TransferOwnership
<1>15. ASSUME NEW t \in Users, RemoveMember(w, a, t) PROVE PlansInv'
       BY <1>4, <1>5, <1>15 DEF RemoveMember
<1>16. ASSUME NEW t \in Users, NEW r \in Role, AddMember(w, a, t, r) PROVE PlansInv'
       BY <1>5, <1>16 DEF AddMember, Vacant
<1>17. ASSUME NEW t \in Users, NEW r \in Role, InviteMember(w, a, t, r) PROVE PlansInv'
       BY <1>5, <1>17 DEF InviteMember, Vacant
<1>18. ASSUME NEW t \in Users, NEW r \in Role, ApproveRequest(w, a, t, r) PROVE PlansInv'
       BY <1>5, <1>18 DEF ApproveRequest
<1>19. ASSUME NEW t \in Users, NEW r \in Role, RejectRequest(w, a, t, r) PROVE PlansInv'
       BY <1>4, <1>5, <1>19 DEF RejectRequest
<1>20. ASSUME NEW t \in Users, NEW r \in Role, UpdateMemberRole(w, a, t, r)
       PROVE  PlansInv'
       BY <1>5, <1>20 DEF UpdateMemberRole
<1> QED BY <1>7, <1>8, <1>9, <1>10, <1>11, <1>12, <1>13, <1>14, <1>15, <1>16,
           <1>17, <1>18, <1>19, <1>20

(* A commit of the only plan under way leaves an owner, and no plan. *)
LEMMA CommitLeavesAnOwner ==
    ASSUME OrgAssumption, IInv, NEW w \in Workers, Commit(w), \A v, x \in Workers : v = x
    PROVE  LastOwner' /\ PlansInv'
<1>1. TypeOK /\ LastOwner /\ LeavesAnOwner(worker[w])
      BY DEF IInv, PlansInv, Commit
<1>2. worker'[w] = Idle
      BY <1>1 DEF Commit, TypeOK
<1>3. PlansInv'
      BY <1>2 DEF PlansInv
<1>4. CASE UNCHANGED <<deleted, policy, capacity, role, membership>>
      BY <1>1, <1>3, <1>4 DEF LastOwner, Owners
<1>5. CASE /\ role' = Merge(role, worker[w].role)
           /\ membership' = Merge(membership, worker[w].status)
      BY <1>1, <1>3, <1>5 DEF LastOwner, Owners, LeavesAnOwner
<1> QED BY <1>4, <1>5 DEF Commit

(* While requests are served one at a time, an organization that is not    *)
(* deleted has an owner.  Without the assumption two owners who leave at   *)
(* the same moment leave none (run org_last_owner).                        *)
THEOREM OwnerRemainsInTurn ==
    ASSUME OrgAssumption, \A v, w \in Workers : v = w
    PROVE  Spec => []LastOwner
<1>1. Init => IInv
  <2> SUFFICES ASSUME Init PROVE IInv
      OBVIOUS
  <2>1. TypeOK
        BY IdleType DEF OrgAssumption, Init, TypeOK, Role, MembershipStatus
  <2>2. LastOwner
        BY DEF OrgAssumption, Init, LastOwner, Owners
  <2>3. PlansInv
        BY DEF Init, PlansInv
  <2> QED BY <2>1, <2>2, <2>3 DEF IInv
<1>2. IInv /\ [Next]_vars => IInv'
  <2> SUFFICES ASSUME IInv, [Next]_vars PROVE IInv'
      OBVIOUS
  <2>1. CASE UNCHANGED vars
        BY <2>1 DEF vars, IInv, TypeOK, LastOwner, Owners, PlansInv, LeavesAnOwner, Merge
  <2>2. ASSUME NEW w \in Workers, Request(w) PROVE IInv'
    <3>1. UNCHANGED <<deleted, role, membership>>
          BY <2>2, RequestBegins
    <3>2. LastOwner'
          BY <3>1 DEF IInv, LastOwner, Owners
    <3> QED BY <2>2, <3>2, RequestType, RequestLeavesAnOwner DEF IInv
  <2>3. ASSUME NEW w \in Workers, Commit(w) PROVE IInv'
        BY <2>3, CommitType, CommitLeavesAnOwner DEF IInv
  <2> QED BY <2>1, <2>2, <2>3 DEF Next
<1>3. IInv => LastOwner
      BY DEF IInv
<1> QED BY <1>1, <1>2, <1>3, PTL DEF Spec
-----------------------------------------------------------------------------
(***************************************************************************)
(* Who gets in, one request at a time.  The room, the role and the status  *)
(* were checked when the request was planned; a plan under way carries     *)
(* them to its commit.                                                     *)
(***************************************************************************)
Entering(plan) == {u \in Users : Merge(membership, plan.status)[u] = "ACTIVE"}

NoOfficeOutside(rows, roles) ==
    \A u \in Users : rows[u] \in {"INVITED", "PENDING"} => roles[u] # "OWNER"

EntersRightly(plan) ==
    /\ ~ (Entering(plan) \subseteq Members) => Cardinality(Entering(plan)) <= capacity
    /\ NoOfficeOutside(Merge(membership, plan.status), Merge(role, plan.role))
    /\ plan.op = "join" => Merge(role, plan.role)[plan.target] = "MEMBER"

EntryInv == /\ TypeOK
            /\ NoOfficeOutside(membership, role)
            /\ \A w \in Workers : worker[w] # Idle => EntersRightly(worker[w])

(* One more member fits where there is room. *)
LEMMA RoomForOne ==
    ASSUME OrgAssumption, TypeOK, HasRoom, NEW t \in Users
    PROVE  Cardinality(Members \cup {t}) <= capacity
<1>1. IsFiniteSet(Members)
      BY FS_Subset DEF Members, OrgAssumption
<1>2. Cardinality(Members) \in Nat /\ capacity \in Nat
      BY <1>1, FS_CardinalityType DEF TypeOK, OrgAssumption
<1>3. \/ Cardinality(Members \cup {t}) = Cardinality(Members)
      \/ Cardinality(Members \cup {t}) = Cardinality(Members) + 1
      BY <1>1, FS_AddElement
<1> QED BY <1>2, <1>3 DEF HasRoom

(* A plan that changes no row lets nobody in. *)
LEMMA NoRowEnters ==
    ASSUME EntryInv, NEW plan, plan.op # "join",
           plan.role = [u \in Users |-> Keep], plan.status = [u \in Users |-> Keep]
    PROVE  EntersRightly(plan)
<1>1. Merge(membership, plan.status) = membership /\ Merge(role, plan.role) = role
      BY DEF EntryInv, TypeOK, Merge
<1> QED BY <1>1 DEF EntryInv, EntersRightly, Entering, Members

(* Writing the row of t, under the conditions that the requests check. *)
LEMMA WriteRowEnters ==
    ASSUME OrgAssumption, EntryInv, NEW op \in Op, NEW t \in Users,
           NEW r \in Role, NEW s \in MembershipStatus,
           s = "ACTIVE" => HasRoom \/ membership[t] = "ACTIVE",
           s \in {"INVITED", "PENDING"} => r # "OWNER",
           op = "join" => r = "MEMBER"
    PROVE  EntersRightly(WriteRow(op, t, r, s))
<1> DEFINE plan == WriteRow(op, t, r, s)
           rows == Merge(membership, plan.status)
           roles == Merge(role, plan.role)
<1>1. /\ plan.role = [u \in Users |-> IF u = t THEN Changed(role[t], r) ELSE Keep]
      /\ plan.status = [u \in Users |-> IF u = t THEN Changed(membership[t], s) ELSE Keep]
      /\ plan.op = op /\ plan.target = t
      BY DEF WriteRow, Idle
<1>2. /\ rows = [membership EXCEPT ![t] = s]
      /\ roles = [role EXCEPT ![t] = r]
  <2>1. s # Keep /\ r # Keep
        BY DEF Keep, MembershipStatus, Role
  <2>2. \A u \in Users : /\ rows[u] = IF u = t THEN s ELSE membership[u]
                         /\ roles[u] = IF u = t THEN r ELSE role[u]
        BY <1>1, <2>1 DEF Merge, Changed
  <2>3. rows = [u \in Users |-> rows[u]] /\ roles = [u \in Users |-> roles[u]]
        BY DEF Merge
  <2> QED BY <2>2, <2>3 DEF EntryInv, TypeOK
<1>3. membership \in [Users -> MembershipStatus \cup {"NONE"}] /\ role \in [Users -> Role]
      BY DEF EntryInv, TypeOK
<1>4. ~ (Entering(plan) \subseteq Members) => Cardinality(Entering(plan)) <= capacity
  <2>1. CASE s = "ACTIVE" /\ membership[t] # "ACTIVE"
    <3>1. Entering(plan) = Members \cup {t}
          BY <1>2, <1>3, <2>1 DEF Entering, Members
    <3> QED BY <2>1, <3>1, RoomForOne DEF EntryInv
  <2>2. CASE s # "ACTIVE" \/ membership[t] = "ACTIVE"
        BY <1>2, <1>3, <2>2 DEF Entering, Members
  <2> QED BY <2>1, <2>2
<1>5. NoOfficeOutside(rows, roles)
      BY <1>2, <1>3 DEF NoOfficeOutside, EntryInv
<1>6. plan.op = "join" => roles[plan.target] = "MEMBER"
      BY <1>1, <1>2, <1>3
<1> QED BY <1>4, <1>5, <1>6 DEF EntersRightly

(* Every request begins a plan that lets in whom it may. *)
LEMMA RequestEntersRightly ==
    ASSUME OrgAssumption, EntryInv, NEW w \in Workers, Request(w),
           \A v, x \in Workers : v = x
    PROVE  EntryInv'
<1>1. TypeOK' /\ UNCHANGED <<deleted, policy, capacity, role, membership>>
      BY RequestType, RequestBegins DEF EntryInv
<1>2. ASSUME NEW plan, Begin(w, plan), EntersRightly(plan) PROVE EntryInv'
  <2>1. worker'[w] = plan
        BY <1>2 DEF Begin, EntryInv, TypeOK
  <2>2. \A v \in Workers : EntersRightly(worker[v])'
        BY <1>1, <1>2, <2>1 DEF EntersRightly, Entering, Members, Merge, NoOfficeOutside
  <2>3. NoOfficeOutside(membership, role)'
        BY <1>1 DEF EntryInv, NoOfficeOutside
  <2> QED BY <1>1, <2>2, <2>3 DEF EntryInv
<1>3. ASSUME NEW op \in Op, NEW t \in Users, NEW r \in Role,
             NEW s \in MembershipStatus, Begin(w, WriteRow(op, t, r, s)),
             s = "ACTIVE" => HasRoom \/ membership[t] = "ACTIVE",
             s \in {"INVITED", "PENDING"} => r # "OWNER",
             op = "join" => r = "MEMBER"
      PROVE  EntryInv'
      BY <1>2, <1>3, WriteRowEnters
<1>4. \A u \in Users : role[u] \in Role
      BY DEF EntryInv, TypeOK
<1> USE DEF Op, Role, MembershipStatus
<1>5. ASSUME NEW a \in Users, AcceptInvitation(w, a) PROVE EntryInv'
      BY <1>3, <1>4, <1>5 DEF AcceptInvitation
<1>6. ASSUME NEW a \in Users, DeclineInvitation(w, a) PROVE EntryInv'
      BY <1>3, <1>4, <1>6 DEF DeclineInvitation
<1>7. ASSUME NEW a \in Users, JoinOrganization(w, a) PROVE EntryInv'
      BY <1>3, <1>7 DEF JoinOrganization
<1>8. ASSUME NEW a \in Users, LeaveOrganization(w, a) PROVE EntryInv'
      BY <1>3, <1>4, <1>8 DEF LeaveOrganization
<1>9. ASSUME NEW a \in Users, DeleteOrganization(w, a) PROVE EntryInv'
      BY <1>2, <1>9, NoRowEnters DEF DeleteOrganization, Idle
<1>10. ASSUME NEW a \in Users, NEW p \in Policies, NEW c \in Capacities,
              UpdateOrganization(w, a, p, c)
       PROVE  EntryInv'
       BY <1>2, <1>10, NoRowEnters DEF UpdateOrganization, Idle
<1>11. ASSUME NEW a \in Users, NEW t \in Users, TransferOwnership(w, a, t)
       PROVE  EntryInv'
  <2> DEFINE plan == [WriteRow("transfer", t, "OWNER", "ACTIVE") EXCEPT
                         !.role[a] = "ADMIN"]
  <2>1. t # a /\ membership[t] = "ACTIVE" /\ membership[a] = "ACTIVE"
        BY <1>11 DEF TransferOwnership, RoleOf
  <2>2. /\ plan.op = "transfer"
        /\ \A u \in Users : plan.status[u] = Keep
        BY <2>1 DEF WriteRow, Idle, Changed
  <2>3. \A u \in Users \ {a, t} : plan.role[u] = Keep
        BY DEF WriteRow, Idle
  <2>4. /\ Merge(membership, plan.status) = membership
        /\ \A u \in Users \ {a, t} : Merge(role, plan.role)[u] = role[u]
        BY <2>2, <2>3 DEF Merge, EntryInv, TypeOK
  <2>5. NoOfficeOutside(membership, Merge(role, plan.role))
        BY <2>1, <2>4 DEF NoOfficeOutside, EntryInv
  <2>6. EntersRightly(plan)
        BY <2>2, <2>4, <2>5 DEF EntersRightly, Entering, Members
  <2> QED BY <1>2, <1>11, <2>6 DEF TransferOwnership
<1>12. ASSUME NEW a \in Users, NEW t \in Users, RemoveMember(w, a, t) PROVE EntryInv'
       BY <1>3, <1>4, <1>12 DEF RemoveMember
<1>13. ASSUME NEW a \in Users, NEW t \in Users, NEW r \in Role, AddMember(w, a, t, r)
       PROVE  EntryInv'
       BY <1>3, <1>13 DEF AddMember
<1>14. ASSUME NEW a \in Users, NEW t \in Users, NEW r \in Role, InviteMember(w, a, t, r)
       PROVE  EntryInv'
       BY <1>3, <1>14 DEF InviteMember
<1>15. ASSUME NEW a \in Users, NEW t \in Users, NEW r \in Role, ApproveRequest(w, a, t, r)
       PROVE  EntryInv'
       BY <1>3, <1>15 DEF ApproveRequest
<1>16. ASSUME NEW a \in Users, NEW t \in Users, NEW r \in Role, RejectRequest(w, a, t, r)
       PROVE  EntryInv'
       BY <1>3, <1>4, <1>16 DEF RejectRequest
<1>17. ASSUME NEW a \in Users, NEW t \in Users, NEW r \in Role, UpdateMemberRole(w, a, t, r)
       PROVE  EntryInv'
       BY <1>3, <1>17 DEF UpdateMemberRole
<1> QED BY <1>5, <1>6, <1>7, <1>8, <1>9, <1>10, <1>11, <1>12, <1>13, <1>14, <1>15,
        <1>16, <1>17 DEF Request

(* The rows of the only plan under way are written as they were planned.   *)
LEMMA CommitEntersRightly ==
    ASSUME OrgAssumption, EntryInv, NEW w \in Workers, Commit(w), \A v, x \in Workers : v = x
    PROVE  /\ EntryInv'
           /\ ~ (Members' \subseteq Members) => Cardinality(Members') <= capacity
           /\ worker[w].op = "join" /\ membership' # membership
              => role'[worker[w].target] = "MEMBER"
<1>1. TypeOK' /\ worker'[w] = Idle /\ EntersRightly(worker[w])
      BY CommitType DEF EntryInv, Commit, TypeOK
<1>2. CASE UNCHANGED <<deleted, policy, capacity, role, membership>>
      BY <1>1, <1>2 DEF EntryInv, NoOfficeOutside, Members
<1>3. CASE /\ role' = Merge(role, worker[w].role)
           /\ membership' = Merge(membership, worker[w].status)
  <2>1. Members' = Entering(worker[w])
        BY <1>3 DEF Members, Entering
  <2> QED BY <1>1, <1>3, <2>1 DEF EntryInv, EntersRightly, NoOfficeOutside
<1> QED BY <1>2, <1>3 DEF Commit

(* While requests are served one at a time, nobody is let in without room, *)
(* whatever the capacities are set to, and nobody gets back in with an     *)
(* office held before.  With two workers a capacity is exceeded.           *)
THEOREM EntryIsKeptInTurn ==
    ASSUME OrgAssumption, \A v, w \in Workers : v = w
    PROVE  Spec => EntryKept
<1> DEFINE Kept ==
       /\ ~ (Members' \subseteq Members) => Cardinality(Members') <= capacity
       /\ \A u \in Users : membership'[u] \in {"INVITED", "PENDING"} => role'[u] # "OWNER"
       /\ \A w \in Workers :
             worker[w].op = "join" /\ worker'[w] = Idle /\ membership' # membership
             => role'[worker[w].target] = "MEMBER"
<1>1. Init => EntryInv
  <2> SUFFICES ASSUME Init PROVE EntryInv
      OBVIOUS
  <2>1. TypeOK
        BY IdleType DEF OrgAssumption, Init, TypeOK, Role, MembershipStatus
  <2>2. NoOfficeOutside(membership, role) /\ \A w \in Workers : worker[w] = Idle
        BY DEF Init, NoOfficeOutside
  <2> QED BY <2>1, <2>2 DEF EntryInv
<1>2. ASSUME EntryInv, [Next]_vars PROVE EntryInv' /\ [Kept]_vars
  <2>1. CASE UNCHANGED vars
    <3>1. TypeOK' /\ NoOfficeOutside(membership, role)'
          BY <1>2, <2>1 DEF vars, EntryInv, TypeOK, NoOfficeOutside
    <3>2. \A w \in Workers : worker'[w] # Idle => EntersRightly(worker[w])'
          BY <1>2, <2>1 DEF vars, EntryInv, EntersRightly, Entering, Members, Merge,
             NoOfficeOutside
    <3> QED BY <2>1, <3>1, <3>2 DEF EntryInv
  <2>2. ASSUME NEW w \in Workers, Request(w) PROVE EntryInv' /\ Kept
    <3>1. EntryInv' /\ UNCHANGED <<role, membership>>
          BY <1>2, <2>2, RequestEntersRightly, RequestBegins
    <3> QED BY <3>1 DEF EntryInv, NoOfficeOutside, Members
  <2>3. ASSUME NEW w \in Workers, Commit(w) PROVE EntryInv' /\ Kept
        BY <1>2, <2>3, CommitEntersRightly DEF EntryInv, NoOfficeOutside
  <2> QED BY <1>2, <2>1, <2>2, <2>3 DEF Next
<1> QED BY <1>1, <1>2, PTL DEF Spec, EntryKept
=============================================================================
