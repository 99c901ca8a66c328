--------------------------- MODULE OrgMembership ---------------------------
(***************************************************************************)
(* One organization and its memberships (modules/organizations: service.py *)
(* and permissions.py).                                                    *)
(*                                                                         *)
(* A request checks what it has read and plans its writes; the commit      *)
(* writes, row by row, only the columns the request changed against what   *)
(* it had read, without looking again.  An INSERT is refused if the user   *)
(* has a membership row by then.  Nothing is locked, so with several       *)
(* workers a plan may be stale when it is committed; with one worker the   *)
(* requests are served one after another.                                  *)
(***************************************************************************)
EXTENDS Integers, FiniteSets

CONSTANTS Users, Creator,
          SystemAdmins, SchoolAdmins,   \* users with a global role
          Policies,                     \* the join policies to consider
          Capacities,                   \* the capacities to consider; Cardinality(Users)
                                        \* and more stand for no limit
          Workers

OrgAssumption ==
    /\ IsFiniteSet(Users) /\ Creator \in Users
    /\ SystemAdmins \cup SchoolAdmins \subseteq Users
    /\ Policies \subseteq {"OPEN", "APPROVAL", "INVITE_ONLY", "CLOSED"}
    /\ Capacities \subseteq Nat \ {0}

VARIABLES deleted,      \* organizations.status is DELETED
          policy,       \* organizations.join_policy
          capacity,     \* organizations.capacity
          role,         \* organization_memberships.role of each user
          membership,   \* organization_memberships.status, or "NONE" without a row
          worker        \* the plan of each worker

vars == <<deleted, policy, capacity, role, membership, worker>>

Role == {"OWNER", "ADMIN", "MEMBER", "GUEST"}
MembershipStatus == {"INVITED", "PENDING", "ACTIVE", "LEFT", "REMOVED"}
Keep == "keep"          \* a column the request did not change

Op == {"idle", "add", "invite", "accept", "decline", "approve", "reject",
       "changeRole", "transfer", "remove", "join", "leave", "update", "delete"}

Plan == [op : Op, target : Users, insert : BOOLEAN,
         role : [Users -> Role \cup {Keep}],
         status : [Users -> MembershipStatus \cup {Keep}],
         policy : Policies \cup {Keep}, capacity : Capacities \cup {0},
         delete : BOOLEAN]

Idle == [op |-> "idle", target |-> Creator, insert |-> FALSE,
         role |-> [u \in Users |-> Keep], status |-> [u \in Users |-> Keep],
         policy |-> Keep, capacity |-> 0, delete |-> FALSE]

Owners == {u \in Users : membership[u] = "ACTIVE" /\ role[u] = "OWNER"}
Members == {u \in Users : membership[u] = "ACTIVE"}

(* create_organization *)
Init ==
    /\ deleted = FALSE
    /\ policy \in Policies
    /\ capacity \in Capacities
    /\ role = [u \in Users |-> IF u = Creator THEN "OWNER" ELSE "MEMBER"]
    /\ membership = [u \in Users |-> IF u = Creator THEN "ACTIVE" ELSE "NONE"]
    /\ worker = [w \in Workers |-> Idle]

(***************************************************************************)
(* Permissions                                                             *)
(***************************************************************************)
RoleOf(u) == IF membership[u] = "ACTIVE" THEN role[u] ELSE "NONE"
IsAdminLevel(a) == a \in SystemAdmins \cup SchoolAdmins

CanUpdateOrganization(a) == IsAdminLevel(a) \/ RoleOf(a) \in {"OWNER", "ADMIN"}
CanDeleteOrganization(a) == a \in SystemAdmins \/ RoleOf(a) = "OWNER"
CanTransferOwnership(a) == a \in SystemAdmins \/ RoleOf(a) = "OWNER"

CanAddMember(a, r) ==
    \/ IsAdminLevel(a)
    \/ RoleOf(a) = "OWNER"
    \/ RoleOf(a) = "ADMIN" /\ r \in {"MEMBER", "GUEST"}

CanRemoveMember(a, t) ==
    \/ IsAdminLevel(a)
    \/ RoleOf(a) = "OWNER"
    \/ RoleOf(a) = "ADMIN" /\ RoleOf(t) \in {"MEMBER", "GUEST"}

CanChangeMemberRole(a, t, r) ==
    \/ IsAdminLevel(a)
    \/ RoleOf(a) = "OWNER"
    \/ RoleOf(a) = "ADMIN" /\ r # "OWNER" /\ RoleOf(t) \in {"MEMBER", "GUEST"}

(***************************************************************************)
(* Planning a request                                                      *)
(***************************************************************************)
Begin(w, plan) ==
    /\ worker[w] = Idle
    /\ ~ deleted                        \* get_active_by_id
    /\ worker' = [worker EXCEPT ![w] = plan]
    /\ UNCHANGED <<deleted, policy, capacity, role, membership>>

Changed(old, new) == IF new = old THEN Keep ELSE new

(* Write the row of t, which is created if t has none. *)
WriteRow(op, t, r, s) ==
    [Idle EXCEPT !.op = op, !.target = t,
                 !.insert = (membership[t] = "NONE"),
                 !.role[t] = Changed(role[t], r),
                 !.status[t] = Changed(membership[t], s)]

HasRoom == Cardinality(Members) < capacity      \* _check_capacity
Vacant(u) == membership[u] \in {"NONE", "LEFT", "REMOVED"}

(* Mutant: owners who have left are counted as well. *)
IsLastOwnerOfAnyStatus(u) ==
    role[u] = "OWNER" /\ Cardinality({v \in Users : role[v] = "OWNER"}) <= 1

IsLastOwner(u) == role[u] = "OWNER" /\ Cardinality(Owners) <= 1

AddMember(w, a, t, r) ==
    /\ CanAddMember(a, r)
    /\ r = "OWNER" => CanTransferOwnership(a)
    /\ HasRoom
    /\ Vacant(t)
    /\ Begin(w, WriteRow("add", t, r, "ACTIVE"))

(* Mutant: an old row keeps the role it had. *)
InviteWithOldRole(w, a, t, r) ==
    /\ r # "OWNER"
    /\ CanAddMember(a, r)
    /\ Vacant(t)
    /\ Begin(w, WriteRow("invite", t, role[t], "INVITED"))

InviteMember(w, a, t, r) ==
    /\ r # "OWNER"
    /\ CanAddMember(a, r)
    /\ Vacant(t)
    /\ Begin(w, WriteRow("invite", t, r, "INVITED"))

AcceptInvitation(w, a) ==
    /\ membership[a] = "INVITED"
    /\ HasRoom
    /\ Begin(w, WriteRow("accept", a, role[a], "ACTIVE"))

DeclineInvitation(w, a) ==
    /\ membership[a] = "INVITED"
    /\ Begin(w, WriteRow("decline", a, role[a], "REMOVED"))

ApproveRequest(w, a, t, r) ==
    /\ CanAddMember(a, r)
    /\ membership[t] = "PENDING"
    /\ HasRoom
    /\ Begin(w, WriteRow("approve", t, r, "ACTIVE"))

RejectRequest(w, a, t, r) ==
    /\ CanAddMember(a, r)
    /\ membership[t] = "PENDING"
    /\ Begin(w, WriteRow("reject", t, role[t], "REMOVED"))

UpdateMemberRole(w, a, t, r) ==
    /\ membership[t] = "ACTIVE"
    /\ CanChangeMemberRole(a, t, r)
    /\ r = "OWNER" => CanTransferOwnership(a)
    /\ r # "OWNER" => ~ IsLastOwner(t)
    /\ Begin(w, WriteRow("changeRole", t, r, "ACTIVE"))

TransferOwnership(w, a, t) ==
    /\ RoleOf(a) = "OWNER"
    /\ t # a
    /\ membership[t] = "ACTIVE"
    /\ Begin(w, [WriteRow("transfer", t, "OWNER", "ACTIVE") EXCEPT
                    !.role[a] = "ADMIN"])

RemoveMember(w, a, t) ==
    /\ membership[t] = "ACTIVE"
    /\ CanRemoveMember(a, t)
    /\ ~ IsLastOwner(t)
    /\ Begin(w, WriteRow("remove", t, role[t], "REMOVED"))

JoinOrganization(w, a) ==
    /\ Vacant(a)
    /\ \/ policy = "OPEN" /\ HasRoom
          /\ Begin(w, WriteRow("join", a, "MEMBER", "ACTIVE"))
       \/ policy = "APPROVAL"
          /\ Begin(w, WriteRow("join", a, "MEMBER", "PENDING"))

LeaveOrganization(w, a) ==
    /\ membership[a] = "ACTIVE"
    /\ ~ IsLastOwner(a)
    /\ Begin(w, WriteRow("leave", a, role[a], "LEFT"))

UpdateOrganization(w, a, p, c) ==
    /\ CanUpdateOrganization(a)
    /\ Begin(w, [Idle EXCEPT !.op = "update", !.policy = Changed(policy, p),
                             !.capacity = IF c = capacity THEN 0 ELSE c])

DeleteOrganization(w, a) ==
    /\ CanDeleteOrganization(a)
    /\ Begin(w, [Idle EXCEPT !.op = "delete", !.delete = TRUE])

(***************************************************************************)
(* Committing it: the UPDATEs by primary key, or the INSERT                *)
(***************************************************************************)
Merge(column, changes) ==
    [u \in Users |-> IF changes[u] = Keep THEN column[u] ELSE changes[u]]

(* Mutant: the organization's row is written as a whole. *)
CommitWholeRow(w) ==
    LET plan == worker[w] IN
    /\ plan # Idle
    /\ IF plan.insert /\ membership[plan.target] # "NONE"
       THEN UNCHANGED <<deleted, policy, capacity, role, membership>>
       ELSE /\ deleted' = plan.delete
            /\ policy' = IF plan.policy = Keep THEN policy ELSE plan.policy
            /\ capacity' = IF plan.capacity = 0 THEN capacity ELSE plan.capacity
            /\ role' = Merge(role, plan.role)
            /\ membership' = Merge(membership, plan.status)
    /\ worker' = [worker EXCEPT ![w] = Idle]

Commit(w) ==
    LET plan == worker[w] IN
    /\ plan # Idle
    /\ IF plan.insert /\ membership[plan.target] # "NONE"
       THEN UNCHANGED <<deleted, policy, capacity, role, membership>>
       ELSE /\ deleted' = (deleted \/ plan.delete)
            /\ policy' = IF plan.policy = Keep THEN policy ELSE plan.policy
            /\ capacity' = IF plan.capacity = 0 THEN capacity ELSE plan.capacity
            /\ role' = Merge(role, plan.role)
            /\ membership' = Merge(membership, plan.status)
    /\ worker' = [worker EXCEPT ![w] = Idle]

Request(w) ==
    \E a \in Users :
       \/ AcceptInvitation(w, a) \/ DeclineInvitation(w, a)
       \/ JoinOrganization(w, a) \/ LeaveOrganization(w, a)
       \/ DeleteOrganization(w, a)
       \/ \E p \in Policies, c \in Capacities : UpdateOrganization(w, a, p, c)
       \/ \E t \in Users : TransferOwnership(w, a, t) \/ RemoveMember(w, a, t)
       \/ \E t \in Users, r \in Role :
             \/ AddMember(w, a, t, r) \/ InviteMember(w, a, t, r)
             \/ ApproveRequest(w, a, t, r) \/ RejectRequest(w, a, t, r)
             \/ UpdateMemberRole(w, a, t, r)

Next == \E w \in Workers : Request(w) \/ Commit(w)

Spec == Init /\ [][Next]_vars

-----------------------------------------------------------------------------
(* Every column and plan holds a value of its type. *)
TypeOK ==
    /\ deleted \in BOOLEAN
    /\ policy \in Policies
    /\ capacity \in Capacities
    /\ role \in [Users -> Role]
    /\ membership \in [Users -> MembershipStatus \cup {"NONE"}]
    /\ worker \in [Workers -> Plan]

(* An organization that is not deleted always has an active owner, through *)
(* any sequence of joining, leaving, removing, demoting and transferring   *)
(* (the last-owner checks of update_member_role, remove_member and         *)
(* leave_organization).                                                    *)
LastOwner == ~ deleted => Owners # {}

(* A step, requests in turn.  Whoever is let in finds room, though         *)
(* update_organization may set the capacity below the number of members;   *)
(* and no row brings an office back from before its user left: who is not  *)
(* in yet is no owner, and who joins by oneself is a MEMBER.               *)
EntryKept ==
    [][/\ ~ (Members' \subseteq Members) => Cardinality(Members') <= capacity
       /\ \A u \in Users : membership'[u] \in {"INVITED", "PENDING"} => role'[u] # "OWNER"
       /\ \A w \in Workers :
             worker[w].op = "join" /\ worker'[w] = Idle /\ membership' # membership
             => role'[worker[w].target] = "MEMBER"]_vars

(* A deleted organization is never active again, although other requests   *)
(* still commit what they planned before the deletion.                     *)
DeletedForGood == [][deleted => deleted']_vars
=============================================================================
