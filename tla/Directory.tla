----------------------------- MODULE Directory ------------------------------
(***************************************************************************)
(* What the directory shows of the organizations to whom (directory:       *)
(* service.py; organizations: the listing operations of service.py).       *)
(*                                                                         *)
(* Organizations are numbered in the order of their creation.  Only the    *)
(* facts that decide what is shown are kept: roles, requests and           *)
(* invitations are those of OrgMembership, and a membership counts here    *)
(* when it is ACTIVE.  No code archives an organization.                   *)
(***************************************************************************)
EXTENDS Integers, FiniteSets

CONSTANTS Users,
          Admins,           \* users with a global admin role
          MaxOrgs,          \* bound: organizations ever created
          Clubs,            \* those of type CLUB, COURSE or TEAM
          PageSize, Limit, MaxDepth

Orgs == 1..MaxOrgs
Anonymous == "anonymous"
Viewers == Users \cup {Anonymous}

DirectoryAssumption ==
    /\ MaxOrgs \in Nat /\ Admins \subseteq Users /\ Clubs \subseteq Orgs
    /\ PageSize \in Nat \ {0} /\ Limit \in Nat /\ MaxDepth \in Nat
    /\ Anonymous \notin Users

VARIABLES status, visibility, parent,
          member,           \* organizations with an ACTIVE membership, per user
          walk              \* somebody who reads the listing page by page

vars == <<status, visibility, parent, member, walk>>

NoWalk == [who |-> "nobody", page |-> 0, seen |-> {}, steady |-> {}, shrunk |-> FALSE]

Init ==
    /\ status = [o \in Orgs |-> "absent"]
    /\ visibility = [o \in Orgs |-> "PUBLIC"]
    /\ parent = [o \in Orgs |-> 0]
    /\ member = [u \in Users |-> {}]
    /\ walk = NoWalk

Existing == {o \in Orgs : status[o] = "ACTIVE"}
Public == {o \in Existing : visibility[o] = "PUBLIC"}

(* can_view_organization *)
CanView(v, o) ==
    \/ v \in Admins
    \/ v \in Users /\ o \in member[v]
    \/ visibility[o] = "PUBLIC"

(* get_organization answers *)
CanOpen(v, o) == o \in Existing /\ CanView(v, o)

(* The first n in the order of created_at DESC. *)
Newest(S, n) == {o \in S : Cardinality({p \in S : p > o}) < n}

(* Mutant: pages are counted from 0. *)
ListActiveFromZero(page) ==
    Newest(Existing, (page + 1) * PageSize) \ Newest(Existing, page * PageSize)

(* list_active with limit and offset *)
ListActive(page) ==
    Newest(Existing, page * PageSize) \ Newest(Existing, (page - 1) * PageSize)

(* list_organizations: the page is cut before what the viewer may not see  *)
(* is taken out.                                                           *)
ListOrganizations(v, page) == {o \in ListActive(page) : CanView(v, o)}

(* _search_organizations on a page of the organizations that match *)
SearchOrganizations(v, matches) == {o \in matches \cap Existing : CanView(v, o)}

(* list_user_organizations, asked by v about u *)
ListUserOrganizations(v, u) ==
    {o \in member[u] \cap Existing :
        v = u \/ v \in Admins \/ visibility[o] = "PUBLIC" \/ (v \in Users /\ o \in member[v])}

Children(v, shown) == {o \in Existing : parent[o] \in shown /\ CanView(v, o)}

(* get_organization_tree: the nodes down to a depth below the roots *)
Tree(v, roots) ==
    LET upTo[depth \in 0..MaxDepth] ==
            IF depth = 0
            THEN {o \in roots \cap Existing : CanView(v, o)}
            ELSE upTo[depth - 1] \cup Children(v, upTo[depth - 1])
    IN upTo[MaxDepth]

Roots == {o \in Existing : parent[o] = 0}

Siblings(u) ==
    {s \in Public \ member[u] :
        \E o \in member[u] \cap Existing : parent[o] # 0 /\ parent[s] = parent[o]}

(* get_recommended_organizations: the possible answers, since siblings     *)
(* come in no particular order.  Twice the limit of clubs is read before   *)
(* those the user is in are taken out.                                     *)
Recommendations(v) ==
    IF v \notin Users
    THEN {Newest(Existing, Limit) \cap Public}
    ELSE LET first == Siblings(v)
             room == Limit - Cardinality(first)
             clubs == Newest(Public \cap Clubs, 2 * Limit) \ (member[v] \cup first)
         IN IF room <= 0
            THEN {r \in SUBSET first : Cardinality(r) = Limit}
            ELSE {first \cup Newest(clubs, room)}

(* What the walker could see from the beginning goes on to be counted as   *)
(* long as it stays visible.                                               *)
KeepWalk(shrunk) ==
    \E v \in {walk.who} :
        walk' = [walk EXCEPT !.steady = {o \in @ : CanOpen(v, o)'}, !.shrunk = shrunk]

(* create_organization: the creator becomes its OWNER. *)
CreateOrganization(u, o, v, p) ==
    /\ status[o] = "absent" /\ \A n \in 1..(o - 1) : status[n] # "absent"
    /\ p \in Existing \cup {0}
    /\ status' = [status EXCEPT ![o] = "ACTIVE"]
    /\ visibility' = [visibility EXCEPT ![o] = v]
    /\ parent' = [parent EXCEPT ![o] = p]
    /\ member' = [member EXCEPT ![u] = @ \cup {o}]
    /\ KeepWalk(walk.shrunk)

Manages(u, o) == o \in Existing /\ (u \in Admins \/ o \in member[u])

UpdateVisibility(u, o, v) ==
    /\ Manages(u, o) /\ visibility[o] # v
    /\ visibility' = [visibility EXCEPT ![o] = v]
    /\ UNCHANGED <<status, parent, member>>
    /\ KeepWalk(walk.shrunk)

(* delete_organization: memberships and children stay. *)
DeleteOrganization(u, o) ==
    /\ Manages(u, o)
    /\ status' = [status EXCEPT ![o] = "DELETED"]
    /\ UNCHANGED <<visibility, parent, member>>
    /\ KeepWalk(TRUE)

(* A membership becomes ACTIVE, or stops being so. *)
ChangeMembership(u, o) ==
    /\ o \in Existing
    /\ member' = [member EXCEPT ![u] = IF o \in @ THEN @ \ {o} ELSE @ \cup {o}]
    /\ UNCHANGED <<status, visibility, parent>>
    /\ KeepWalk(walk.shrunk)

StartWalk(v) ==
    /\ walk = NoWalk
    /\ walk' = [NoWalk EXCEPT !.who = v, !.page = 1,
                              !.steady = {o \in Existing : CanView(v, o)}]
    /\ UNCHANGED <<status, visibility, parent, member>>

PastTheEnd == (walk.page - 1) * PageSize >= Cardinality(Existing)

ReadPage ==
    /\ walk.who # "nobody" /\ ~ PastTheEnd
    /\ walk' = [walk EXCEPT !.page = @ + 1,
                            !.seen = @ \cup ListOrganizations(walk.who, walk.page)]
    /\ UNCHANGED <<status, visibility, parent, member>>

Next ==
    \/ \E u \in Users, o \in Orgs, v \in {"PUBLIC", "PRIVATE"} :
          \/ \E p \in 0..MaxOrgs : CreateOrganization(u, o, v, p)
          \/ UpdateVisibility(u, o, v)
          \/ DeleteOrganization(u, o) \/ ChangeMembership(u, o)
    \/ \E v \in Viewers : StartWalk(v)
    \/ ReadPage

Spec == Init /\ [][Next]_vars

(***************************************************************************)
(* Properties                                                              *)
(***************************************************************************)
(* Organizations and memberships are well typed, and a parent is older     *)
(* than its children, so the tree has no cycle.                            *)
TypeOK ==
    /\ status \in [Orgs -> {"absent", "ACTIVE", "DELETED"}]
    /\ visibility \in [Orgs -> {"PUBLIC", "PRIVATE"}]
    /\ parent \in [Orgs -> 0..MaxOrgs] /\ \A o \in Orgs : parent[o] < o
    /\ member \in [Users -> SUBSET Orgs]
    /\ walk.who \in Viewers \cup {"nobody"} /\ walk.page \in Nat
    /\ walk.seen \subseteq Orgs /\ walk.steady \subseteq Orgs /\ walk.shrunk \in BOOLEAN

(* Whatever any listing shows a viewer (the list, the search, the          *)
(* organizations of another user, the recommendations), the viewer may     *)
(* also open: the four queries and get_organization each filter on their   *)
(* own, and agree.                                                         *)
ShownCanBeOpened ==
    \A v \in Viewers :
        /\ \A page \in 1..MaxOrgs : \A o \in ListOrganizations(v, page) : CanOpen(v, o)
        /\ \A o \in SearchOrganizations(v, Orgs) : CanOpen(v, o)
        /\ \A u \in Users : \A o \in ListUserOrganizations(v, u) : CanOpen(v, o)
        /\ \A shown \in Recommendations(v) : \A o \in shown : CanOpen(v, o)

(* The way from an organization up to a root, itself included. *)
Way(o) ==
    LET up[n \in Orgs \cup {0}] == IF n = 0 THEN {} ELSE {n} \cup up[parent[n]] IN up[o]

(* The tree shows exactly the organizations whose ancestors the viewer may *)
(* open too, down to its depth: what lies under a deleted or hidden parent *)
(* is not reached from the roots.                                          *)
TreeFollowsAncestors ==
    \A v \in Viewers : \A o \in Orgs :
        o \in Tree(v, Roots) <=>
            (\A n \in Way(o) : CanOpen(v, n)) /\ Cardinality(Way(o)) <= MaxDepth + 1

(* Nobody is recommended an organization they are in, nor more than the    *)
(* limit (get_recommended_organizations collects from two sources).        *)
RecommendsOthers ==
    \A v \in Viewers : \A shown \in Recommendations(v) :
        /\ v \in Users => shown \cap member[v] = {}
        /\ Cardinality(shown) <= Limit

(* Somebody who reads the listing to its end has seen every organization   *)
(* that was visible all the time, though others are created meanwhile and  *)
(* push the pages on; only a deletion pulls one over a page boundary.      *)
WalkComplete ==
    walk.who # "nobody" /\ PastTheEnd /\ ~ walk.shrunk => walk.steady \subseteq walk.seen
=============================================================================
