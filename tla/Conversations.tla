---------------------------- MODULE Conversations ----------------------------
(***************************************************************************)
(* Conversations and who takes part in them (modules/conversations:        *)
(* service.py, repository.py, permissions.py), beside one organization     *)
(* whose default group is one of them.                                     *)
(*                                                                         *)
(* A request reads, decides and plans its writes; the commit writes only   *)
(* the columns that the request changed, without looking again.  The       *)
(* unique key of participant rows includes a column that is always NULL,   *)
(* so the database refuses no row, and a query for "the" row of a user     *)
(* returns any of those the user has.                                      *)
(*                                                                         *)
(* A request that dies before its commit leaves nothing behind, and is one *)
(* whose commit has not come yet.                                          *)
(***************************************************************************)
EXTENDS Integers, Sequences, FiniteSets

CONSTANTS Users,
          Admins,           \* users who may have a global admin role
          Conversations,    \* the rows of conversations, in use or not yet
          Roles,            \* the roles to consider, of participants and members
          Workers,
          MaxRows           \* no row is added for a user who has so many

AdminsAssumption == Admins \subseteq Users
RolesAssumption == Roles \subseteq {"OWNER", "ADMIN", "MEMBER", "GUEST"}
MaxRowsAssumption == MaxRows \in Nat
NamesAssumption == "none" \notin Users \cup Conversations

VARIABLES admins,       \* the users with a global admin role
          gone,         \* users.status is DELETED
          member,       \* the role of an active member of the organization
          announced,    \* the active members whose joining was published
          synced,       \* the organization's events reach sync_org_member_*;
                        \* main.py subscribes neither, the tests call both
          kind,         \* conversations.type, or "NONE" without a row
          rows,         \* the participant rows of each user
          worker        \* the plan of each worker

vars == <<admins, gone, member, announced, synced, kind, rows, worker>>
stored == <<admins, gone, member, announced, synced, kind, rows>>

Kind == {"PRIVATE", "GROUP", "ORG_GROUP"}
Role == {"OWNER", "ADMIN", "MEMBER", "GUEST"}
Status == {"ACTIVE", "LEFT", "REMOVED"}
Row == [role : Role, status : Status]
Keep == "keep"                                  \* a column that is not written

(* What a request writes: the conversation it creates as a "kind"; the     *)
(* rows it adds; the columns of row "row" of "user" it changes.            *)
Plan == [op : {"idle", "write", "joined", "left"},
         actor : Users \cup {"none"},
         conv : Conversations \cup {"none"}, kind : Kind \cup {"NONE"},
         add : [Users -> Seq(Row)],
         user : Users \cup {"none"}, row : Nat,
         role : Role \cup {Keep}, status : Status \cup {Keep}]

Idle == [op |-> "idle", actor |-> "none", conv |-> "none", kind |-> "NONE",
         add |-> [u \in Users |-> <<>>],
         user |-> "none", row |-> 0, role |-> Keep, status |-> Keep]

Init ==
    /\ admins \in SUBSET Admins
    /\ gone = {}
    /\ member = [u \in Users |-> "NONE"]
    /\ announced = {}
    /\ synced \in BOOLEAN
    /\ kind = [c \in Conversations |-> "NONE"]
    /\ rows = [c \in Conversations |-> [u \in Users |-> <<>>]]
    /\ worker = [w \in Workers |-> Idle]

NewRow(role) == <<[role |-> role, status |-> "ACTIVE"]>>
RowsOf(c, u) == DOMAIN rows[c][u]
ActiveRows(c, u) == {i \in RowsOf(c, u) : rows[c][u][i].status = "ACTIVE"}
ActiveUsers(c) == {u \in Users : ActiveRows(c, u) # {}}

(* get_active_by_conversation_user: any active row, or 0 for none *)
ActorRows(c, a) == IF ActiveRows(c, a) = {} THEN {0} ELSE ActiveRows(c, a)

(***************************************************************************)
(* Permissions                                                             *)
(***************************************************************************)
Manages(c, a, i) == i # 0 /\ rows[c][a][i].role \in {"OWNER", "ADMIN"}

CanAddParticipant(c, a, i) ==
    \/ a \in admins
    \/ kind[c] # "PRIVATE" /\ Manages(c, a, i)

(* Mutant: every participant may remove another. *)
CanRemoveAsParticipant(c, a, i, t, j) == a \in admins \/ i # 0

CanRemoveParticipant(c, a, i, t, j) ==
    \/ a \in admins
    \/ i # 0 /\ a = t /\ i = j
    \/ Manages(c, a, i)

(***************************************************************************)
(* Planning a request                                                      *)
(***************************************************************************)
Begin(w, plan) ==
    /\ worker[w].op = "idle"
    /\ worker' = [worker EXCEPT ![w] = plan]
    /\ UNCHANGED stored

Write(a) == [Idle EXCEPT !.op = "write", !.actor = a]

Unused(c) == kind[c] = "NONE" /\ \A v \in Workers : worker[v].conv # c

Create(w, a, c, k, new) ==
    /\ Unused(c)
    /\ Begin(w, [Write(a) EXCEPT !.conv = c, !.kind = k, !.add = new])

(* find_private_conversation: exactly these two are active in it *)
PrivateBetween(d, a, t) == kind[d] = "PRIVATE" /\ ActiveUsers(d) = {a, t}

PrivateRows(a, t) ==
    [u \in Users |-> IF a = t /\ u = a THEN NewRow("MEMBER") \o NewRow("MEMBER")
                     ELSE IF u \in {a, t} THEN NewRow("MEMBER") ELSE <<>>]

(* Mutant: the conversation is not looked up before it is created. *)
CreatePrivateAgain(w, a, t, c) ==
    /\ a \notin gone /\ t \notin gone
    /\ Create(w, a, c, "PRIVATE", PrivateRows(a, t))

(* A conversation with oneself gets two rows of the same user. *)
CreatePrivate(w, a, t, c) ==
    /\ a \notin gone /\ t \notin gone
    /\ ~ \E d \in Conversations : PrivateBetween(d, a, t)
    /\ Create(w, a, c, "PRIVATE", PrivateRows(a, t))

CreateGroup(w, a, invited, c) ==
    /\ a \notin gone /\ invited \cap gone = {}
    /\ Create(w, a, c, "GROUP",
              [u \in Users |-> IF u = a THEN NewRow("OWNER")
                               ELSE IF u \in invited THEN NewRow("MEMBER") ELSE <<>>])

(* The role in the group of a member of the organization. *)
ConversationRole(r) == IF r \in {"OWNER", "ADMIN"} THEN r ELSE "MEMBER"

OrgGroups == {c \in Conversations : kind[c] = "ORG_GROUP"}

CreateOrgGroup(w, a, c) ==
    /\ a \notin gone
    /\ member[a] # "NONE" \/ a \in admins
    /\ OrgGroups = {}
    /\ Create(w, a, c, "ORG_GROUP",
              [u \in Users |-> IF member[u] = "NONE" THEN <<>> ELSE NewRow(ConversationRole(member[u]))])

Insert(w, a, c, u, role) ==
    /\ Len(rows[c][u]) < MaxRows
    /\ Begin(w, [Write(a) EXCEPT !.conv = c, !.add[u] = NewRow(role)])

Changed(old, new) == IF old = new THEN Keep ELSE new

UpdatedRow(a, c, u, i, role, status) ==
    [Write(a) EXCEPT !.conv = c, !.user = u, !.row = i,
                     !.role = Changed(rows[c][u][i].role, role),
                     !.status = Changed(rows[c][u][i].status, status)]

AddParticipant(w, a, c, t, role) ==
    /\ a \notin gone /\ t \notin gone
    /\ kind[c] # "NONE"
    /\ \E i \in ActorRows(c, a) : CanAddParticipant(c, a, i)
    /\ \/ RowsOf(c, t) = {} /\ Insert(w, a, c, t, role)
       \/ \E i \in RowsOf(c, t) :
             /\ rows[c][t][i].status # "ACTIVE"
             /\ Begin(w, UpdatedRow(a, c, t, i, role, "ACTIVE"))

RemoveParticipant(w, a, c, t) ==
    /\ a \notin gone
    /\ kind[c] # "NONE"
    /\ \E i \in ActorRows(c, a), j \in ActiveRows(c, t) :
          /\ CanRemoveParticipant(c, a, i, t, j)
          /\ Begin(w, UpdatedRow(a, c, t, j, rows[c][t][j].role, "REMOVED"))

(***************************************************************************)
(* The organization, and its events                                        *)
(***************************************************************************)
(* An event is handled, if it is, by the worker that publishes it, after   *)
(* its commit.                                                             *)
Publish(w, event, u, role) ==
    /\ worker[w].op = "idle"
    /\ worker' = IF synced
                 THEN [worker EXCEPT ![w] = [Idle EXCEPT !.op = event, !.user = u,
                                                         !.role = role]]
                 ELSE worker
    /\ UNCHANGED <<admins, gone, synced, kind, rows>>

Joins(u, role) ==
    /\ u \notin gone /\ member[u] = "NONE"
    /\ member' = [member EXCEPT ![u] = role]

(* add_member, and join_organization where everybody may *)
OrgJoin(w, u, role) ==
    /\ Joins(u, role)
    /\ announced' = announced \cup {u}
    /\ Publish(w, "joined", u, ConversationRole(role))

(* The creation of the organization, an accepted invitation and an approved *)
(* request publish nothing.                                                 *)
OrgJoinSilently(u, role) ==
    /\ \E w \in Workers : worker[w].op = "idle"
    /\ Joins(u, role)
    /\ UNCHANGED <<admins, gone, announced, synced, kind, rows, worker>>

(* join_organization where a request must be approved: the event says that *)
(* the user has joined all the same, and the handler does not look.        *)
OrgRequest(w, u) ==
    /\ u \notin gone /\ member[u] = "NONE"
    /\ Publish(w, "joined", u, "MEMBER")
    /\ UNCHANGED <<member, announced>>

(* remove_member and leave_organization *)
OrgLeave(w, u) ==
    /\ member[u] # "NONE"
    /\ member' = [member EXCEPT ![u] = "NONE"]
    /\ announced' = announced \ {u}
    /\ Publish(w, "left", u, Keep)

Replan(w, plan) ==
    /\ worker' = [worker EXCEPT ![w] = plan]
    /\ UNCHANGED stored

SyncOrgMemberJoined(w) ==
    LET u == worker[w].user
        role == worker[w].role
    IN  /\ worker[w].op = "joined"
        /\ \/ OrgGroups = {} /\ Replan(w, Idle)
           \/ \E c \in OrgGroups : \E i \in RowsOf(c, u) :
                 Replan(w, UpdatedRow("none", c, u, i, role, "ACTIVE"))
           \/ \E c \in OrgGroups :
                 /\ RowsOf(c, u) = {}
                 /\ Replan(w, [Write("none") EXCEPT !.conv = c, !.add[u] = NewRow(role)])

SyncOrgMemberLeft(w) ==
    LET u == worker[w].user
    IN  /\ worker[w].op = "left"
        /\ \/ OrgGroups = {} /\ Replan(w, Idle)
           \/ \E c \in OrgGroups :
                 \/ ActiveRows(c, u) = {} /\ Replan(w, Idle)
                 \/ \E i \in ActiveRows(c, u) :
                       Replan(w, UpdatedRow("none", c, u, i, rows[c][u][i].role, "LEFT"))

(***************************************************************************)
(* Committing it                                                           *)
(***************************************************************************)
Merged(row, p) ==
    [role |-> IF p.role = Keep THEN row.role ELSE p.role,
     status |-> IF p.status = Keep THEN row.status ELSE p.status]

Written(c, u, p) ==
    [i \in RowsOf(c, u) |-> IF p.user = u /\ p.row = i THEN Merged(rows[c][u][i], p)
                            ELSE rows[c][u][i]]

Commit(w) ==
    LET p == worker[w] IN
    /\ p.op = "write"
    /\ kind' = [c \in Conversations |-> IF p.conv = c /\ p.kind # "NONE" THEN p.kind
                                        ELSE kind[c]]
    /\ rows' = [c \in Conversations |-> IF p.conv # c THEN rows[c]
                   ELSE [u \in Users |-> Written(c, u, p) \o p.add[u]]]
    /\ worker' = [worker EXCEPT ![w] = Idle]
    /\ UNCHANGED <<admins, gone, member, announced, synced>>

DeactivateUser(u) ==
    /\ u \notin gone
    /\ gone' = gone \cup {u}
    /\ UNCHANGED <<admins, member, announced, synced, kind, rows, worker>>

Request(w) ==
    \E a \in Users :
       \/ \E c \in Conversations, t \in Users : CreatePrivate(w, a, t, c)
       \/ \E c \in Conversations, s \in SUBSET Users : CreateGroup(w, a, s, c)
       \/ \E c \in Conversations : CreateOrgGroup(w, a, c)
       \/ \E c \in Conversations, t \in Users, r \in Roles : AddParticipant(w, a, c, t, r)
       \/ \E c \in Conversations, t \in Users : RemoveParticipant(w, a, c, t)
       \/ \E r \in Roles : OrgJoin(w, a, r)
       \/ OrgRequest(w, a)
       \/ OrgLeave(w, a)

Sync(w) == SyncOrgMemberJoined(w) \/ SyncOrgMemberLeft(w)

Next ==
    \/ \E w \in Workers : Request(w) \/ Sync(w) \/ Commit(w)
    \/ \E u \in Users : DeactivateUser(u) \/ \E r \in Roles : OrgJoinSilently(u, r)

Spec == Init /\ [][Next]_vars

(***************************************************************************)
(* Properties                                                              *)
(***************************************************************************)
(* Rows and plans are well typed. *)
TypeOK ==
    /\ admins \subseteq Admins /\ gone \subseteq Users /\ synced \in BOOLEAN
    /\ member \in [Users -> Role \cup {"NONE"}]
    /\ announced \subseteq {u \in Users : member[u] # "NONE"}
    /\ kind \in [Conversations -> Kind \cup {"NONE"}]
    /\ rows \in [Conversations -> [Users -> Seq(Row)]]
    /\ worker \in [Workers -> Plan]

(* Requests in turn.  A user has at most one row in a group, however often *)
(* they leave, are removed and are added again (add_participant and        *)
(* sync_org_member_joined use an old row again), though the database would *)
(* take more.                                                              *)
OneRowEach ==
    \A c \in Conversations, u \in Users : kind[c] # "PRIVATE" => Len(rows[c][u]) <= 1

(* Requests in turn.  An organization has one default group.               *)
OneOrgGroup == \A c, d \in OrgGroups : c = d

(* Requests in turn, and no administrator.  Two users who both take part   *)
(* in a private conversation have no second one: who left the first never  *)
(* comes back to it (create_private_conversation, can_add_participant).    *)
OnePrivateEach ==
    admins = {} =>
        \A c, d \in Conversations :
            /\ kind[c] = "PRIVATE" /\ kind[d] = "PRIVATE"
            /\ ActiveUsers(c) = ActiveUsers(d) /\ Cardinality(ActiveUsers(c)) = 2
            => c = d

(* With any interleaving, and no administrator: nobody enters a private    *)
(* conversation after its creation, and nobody but themselves ends the     *)
(* participation of a user.                                                *)
PrivateIsPersonal ==
    [][admins = {} =>
        \A c \in Conversations, u \in Users : kind[c] = "PRIVATE" =>
            /\ Len(rows'[c][u]) = Len(rows[c][u])
            /\ ActiveRows(c, u)' \subseteq ActiveRows(c, u)
            /\ ActiveRows(c, u)' # ActiveRows(c, u) =>
                  \E w \in Workers : worker[w].actor = u /\ worker'[w] = Idle]_vars

(* Requests in turn.  When nothing is under way, every active member whose *)
(* joining was published, by an event that sync_org_member_joined handled, *)
(* has a row in the group of the organization and takes part unless        *)
(* somebody removed them: neither a group that is created later, nor an    *)
(* earlier leave, nor a request that was rejected, keeps them out.  Members *)
(* who came in silently are not in it, against permissions.py: "all active *)
(* org members can participate".                                           *)
AnnouncedTakePart ==
    (\A w \in Workers : worker[w].op = "idle") =>
        \A c \in OrgGroups, u \in announced :
            \E i \in RowsOf(c, u) : rows[c][u][i].status # "LEFT"
=============================================================================
