------------------------------ MODULE DemoData ------------------------------
(***************************************************************************)
(* The demo data set (demo: seed.py, reset.py): what seeding adds, commit  *)
(* by commit, and what a reset deletes, statement by statement in one      *)
(* transaction, while users work and other seedings run.                   *)
(*                                                                         *)
(* A row has a table, a name and number in it, and the rows it refers to;  *)
(* the database refuses a row that refers to nothing and the deletion of a *)
(* row something refers to (no foreign key here cascades).  Deletions of a *)
(* reset show when it commits; who needs one of those rows waits till then.*)
(***************************************************************************)
EXTENDS Integers, Sequences, FiniteSets

CONSTANTS Demo, Creator,   \* the users of DEMO_USERS, and the creator of the scene
          Activities,      \* sets of rows that an operation of a user adds
          Seeders,
          MaxScenes,       \* no seeding creates a scene beyond this number
          MaxActivities    \* no user does anything beyond this number

DemoAssumption == Creator \in Demo /\ MaxScenes \in Nat /\ MaxActivities \in Nat

VARIABLES db,          \* the rows
          seeder,      \* each seeding: where it is, its scene, did it find users
          progress,    \* how many commits each demo scene has behind it
          abandoned,   \* scenes whose seeding crashed
          reset,       \* the reset: its next statement, what it collected and deleted
          activity     \* how many activities there have been

vars == <<db, seeder, progress, abandoned, reset, activity>>

Row(t, name, n, refs) == [table |-> t, name |-> name, number |-> n, refs |-> refs]
Key(x) == <<x.table, x.name, x.number>>
KeysOf(rows) == {Key(x) : x \in rows}
UserKey(u) == <<"user", u, 0>>
SceneKey(n) == <<"scene", "demo", n>>
DemoOrganization == <<"organization", "demo", 0>>
DemoConversation == <<"conversation", "demo", 0>>
MemberRows(t, of) == {Row(t, u, of[3], {of, UserKey(u)}) : u \in Demo}

UserRows == {Row("user", u, 0, {}) : u \in Demo} \cup
            {Row("profile", u, 0, {UserKey(u)}) : u \in Demo}
OrganizationRows == {Row("organization", "demo", 0, {UserKey(Creator)})}
MembershipRows == MemberRows("membership", DemoOrganization)
ConversationRows ==
    {Row("conversation", "demo", 0, {UserKey(Creator)})} \cup
    MemberRows("participant", DemoConversation) \cup MemberRows("message", DemoConversation)
BaseRows == UserRows \cup OrganizationRows \cup MembershipRows \cup ConversationRows

(* _seed_dinner_scene: the rows the commits add: creation, acceptance,     *)
(* submissions, generation, votes, confirmation; a commit that only moves  *)
(* the scene to another state is taken with the one before it.             *)
Commits(n) ==
    LET scene == SceneKey(n)
        best == <<"candidate", "demo", n>>
    IN << {Row("scene", "demo", n, {UserKey(Creator), DemoOrganization, DemoConversation})}
             \cup MemberRows("seat", scene),
          {},
          MemberRows("submission", scene),
          {Row("candidate", "demo", n, {scene})},
          {Row("vote", u, n, {scene, best, UserKey(u)}) : u \in Demo},
          {Row("result", "demo", n, {scene, best})} >>

Complete(n) == progress[n] = Len(Commits(n))
DemoScenes == {n \in 1..MaxScenes : SceneKey(n) \in KeysOf(db)}

(* Every row a seeding can write.                                          *)
SeedRows == BaseRows \cup UNION {Commits(n)[i] : n \in 1..MaxScenes, i \in 1..6}

-----------------------------------------------------------------------------
Rest == [at |-> "rest", scene |-> 0, knew |-> FALSE]
NoReset == [next |-> 0, ids |-> {}, gone |-> {}, alone |-> TRUE]

Init ==
    /\ db = {Row("user", "eve", 0, {})}
    /\ seeder = [s \in Seeders |-> Rest]
    /\ progress = [n \in 1..MaxScenes |-> 0]
    /\ abandoned = {}
    /\ reset = NoReset
    /\ activity = 0

(* A commit of someone else during a reset, which no longer runs alone. *)
Add(rows) ==
    /\ db' = db \cup rows
    /\ reset' = [reset EXCEPT !.alone = (reset.next = 0)]

Free(rows) ==
    \A x \in rows : Key(x) \notin reset.gone /\ x.refs \cap reset.gone = {}
Resolved(rows) == \A x \in rows : x.refs \subseteq KeysOf(db \cup rows)

(* An operation of a user. *)
Act(rows) ==
    /\ activity < MaxActivities /\ activity' = activity + 1
    /\ KeysOf(rows) \cap KeysOf(db) = {}
    /\ Resolved(rows) /\ Free(rows)
    /\ Add(rows)
    /\ UNCHANGED <<seeder, progress, abandoned>>

-----------------------------------------------------------------------------
(* Seeding *)

(* seed_demo looks for the users. *)
BeginSeed(s) ==
    /\ seeder[s] = Rest
    /\ seeder' = [seeder EXCEPT ![s] =
                     [at |-> "base", scene |-> 0, knew |-> UserKey(Creator) \in KeysOf(db)]]
    /\ UNCHANGED <<db, progress, abandoned, reset, activity>>

(* get_by_idempotency_key finds nothing *)
NoScene == DemoScenes = {}

(* Everything up to the creation of the scene is one transaction, of which *)
(* the unique e-mail addresses let one at a time find no user.             *)
SeedBase(s) ==
    /\ seeder[s].at = "base"
    /\ Free(BaseRows)
    /\ \/ /\ seeder[s].knew # (UserKey(Creator) \in KeysOf(db))
          /\ seeder' = [seeder EXCEPT ![s] = Rest]
          /\ UNCHANGED <<db, reset, progress>>
       \/ /\ seeder[s].knew = (UserKey(Creator) \in KeysOf(db))
          /\ \/ /\ ~NoScene
                /\ Add(BaseRows)
                /\ seeder' = [seeder EXCEPT ![s] = Rest]
                /\ UNCHANGED progress
             \/ /\ NoScene
                /\ \E n \in 1..MaxScenes :
                      /\ progress[n] = 0 /\ \A m \in 1..(n - 1) : progress[m] > 0
                      /\ Add(BaseRows \cup Commits(n)[1])
                      /\ progress' = [progress EXCEPT ![n] = 1]
                      /\ seeder' = [seeder EXCEPT ![s] = [@ EXCEPT !.at = "run", !.scene = n]]
    /\ UNCHANGED <<abandoned, activity>>

(* The next step of the scene, which needs the scene. *)
SeedScene(s) ==
    /\ seeder[s].at = "run"
    /\ LET n == seeder[s].scene IN
       /\ SceneKey(n) \notin reset.gone
       /\ \/ /\ n \notin DemoScenes
             /\ seeder' = [seeder EXCEPT ![s] = Rest]
             /\ UNCHANGED <<db, reset, progress>>
          \/ /\ n \in DemoScenes /\ ~Complete(n)
             /\ Free(Commits(n)[progress[n] + 1])
             /\ Add(Commits(n)[progress[n] + 1])
             /\ progress' = [progress EXCEPT ![n] = @ + 1]
             /\ UNCHANGED seeder
          \/ /\ n \in DemoScenes /\ Complete(n)
             /\ seeder' = [seeder EXCEPT ![s] = Rest]
             /\ UNCHANGED <<db, reset, progress>>
    /\ UNCHANGED <<abandoned, activity>>

CrashSeed(s) ==
    /\ seeder[s].at = "run"
    /\ seeder' = [seeder EXCEPT ![s] = Rest]
    /\ abandoned' = abandoned \cup {seeder[s].scene}
    /\ UNCHANGED <<db, progress, reset, activity>>

-----------------------------------------------------------------------------
(* Reset *)
SceneTables == {"submission", "vote", "result", "candidate", "seat"}
TalkTables == {"message", "participant"}

(* What a reference must lead to for a row of the table to be deleted. *)
Owner(t) ==
    CASE t \in SceneTables -> {"scene"}
      [] t \in TalkTables -> {"conversation"}
      [] t = "membership" -> {"organization", "user"}
      [] t \in {"scene", "conversation", "organization", "user"} -> {}
      [] OTHER -> {"user"}

(* What rows of a table may refer to (the foreign keys of the models).     *)
ForeignKeys(t) ==
    CASE t \in {"submission", "seat"} -> {"scene", "user"}
      [] t \in {"vote", "result"} -> {"scene", "candidate", "user"}
      [] t = "candidate" -> {"scene"}
      [] t = "scene" -> {"user", "conversation", "organization"}
      [] t \in TalkTables -> {"conversation", "user"}
      [] t \in {"conversation", "membership", "organization"} -> {"organization", "user"}
      [] t = "run" -> {"user", "agent"}
      [] t = "token" -> {"user", "session"}
      [] t = "user" -> {}
      [] OTHER -> {"user"}

(* Mutant: candidates go before the votes for them. *)
CandidatesFirst == <<"submission", "candidate", "vote", "result", "seat", "scene">>

(* _delete_scene_graph *)
SceneGraph == <<"submission", "vote", "result", "candidate", "seat", "scene">>

(* reset_demo, whose "extra" looks for scenes of the conversations *)
Statements ==
    SceneGraph \o <<"extra">> \o SceneGraph \o
    <<"message", "participant", "conversation", "membership", "organization",
      "run", "agent", "audit", "contact", "token", "session", "profile", "user">>

(* Users add rows under identifiers of their own, that refer to what the   *)
(* tables they are in allow.                                               *)
SchemaAssumption ==
    \A x \in UNION Activities :
        /\ Key(x) \notin KeysOf(SeedRows) /\ x.table # "extra"
        /\ x.table \in {Statements[i] : i \in DOMAIN Statements} =>
              {k[1] : k \in x.refs} \subseteq ForeignKeys(x.table)

CollectUsers(rows) == {UserKey(u) : u \in Demo} \cap KeysOf(rows)
CollectOrganizations(rows) == {DemoOrganization} \cap KeysOf(rows)
Led(rows, tables, to, from) ==
    {k \in UNION {x.refs : x \in {y \in rows : y.table \in tables /\ y.refs \cap from # {}}} :
        k[1] = to}
CollectScenes(rows, users, organizations) ==
    ({SceneKey(n) : n \in 1..MaxScenes} \cap KeysOf(rows))
    \cup {Key(x) : x \in {y \in rows : y.table = "scene" /\ y.refs \cap (users \cup organizations) # {}}}
    \cup Led(rows, {"seat", "submission", "vote"}, "scene", users)
CollectConversations(rows, users) ==
    {Key(x) : x \in {y \in rows : y.table = "conversation" /\ y.refs \cap users # {}}}
    \cup Led(rows, {"participant"}, "conversation", users)

BeginReset ==
    /\ reset.next = 0
    /\ \E users \in {CollectUsers(db)} : \E organizations \in {CollectOrganizations(db)} :
          reset' = [next |-> 1, gone |-> {}, alone |-> TRUE,
                    ids |-> users \cup organizations
                            \cup CollectScenes(db, users, organizations)
                            \cup CollectConversations(db, users)]
    /\ UNCHANGED <<db, seeder, progress, abandoned, activity>>

Left == {x \in db : Key(x) \notin reset.gone}
Statement == Statements[reset.next]

(* The rows of a table a statement deletes; without demo organizations to  *)
(* begin with, the one with the suffix goes if it is there now.            *)
Doomed(t) ==
    {x \in Left : x.table = t /\
        \/ Key(x) \in reset.ids
        \/ \E k \in x.refs \cap reset.ids : k[1] \in Owner(t)
        \/ t = "organization" /\ Key(x) = DemoOrganization}

ExtraScenes ==
    {Key(x) : x \in {y \in Left : y.table = "scene" /\
        \E k \in y.refs \cap reset.ids : k[1] = "conversation"}}

Stuck == \E x \in Left \ Doomed(Statement) : x.refs \cap KeysOf(Doomed(Statement)) # {}

DeleteNext ==
    /\ reset.next \in DOMAIN Statements
    /\ \/ /\ Statement = "extra"
          /\ reset' = [reset EXCEPT !.next = @ + 1, !.ids = @ \cup ExtraScenes]
       \/ /\ Statement # "extra" /\ ~Stuck
          /\ reset' = [reset EXCEPT !.next = @ + 1, !.gone = @ \cup KeysOf(Doomed(Statement))]
    /\ UNCHANGED <<db, seeder, progress, abandoned, activity>>

(* A foreign key stops the reset: everything is rolled back. *)
FailReset ==
    /\ reset.next \in DOMAIN Statements /\ Statement # "extra" /\ Stuck
    /\ reset' = NoReset
    /\ UNCHANGED <<db, seeder, progress, abandoned, activity>>

CommitReset ==
    /\ reset.next = Len(Statements) + 1
    /\ db' = Left
    /\ reset' = NoReset
    /\ UNCHANGED <<seeder, progress, abandoned, activity>>

Next ==
    \/ \E rows \in Activities : Act(rows)
    \/ \E s \in Seeders : BeginSeed(s) \/ SeedBase(s) \/ SeedScene(s) \/ CrashSeed(s)
    \/ BeginReset \/ DeleteNext \/ FailReset \/ CommitReset

Spec == Init /\ [][Next]_vars

(***************************************************************************)
(* Properties                                                              *)
(***************************************************************************)
(* The seedings and the reset are well typed. *)
TypeOK ==
    /\ seeder \in [Seeders -> [at : {"rest", "base", "run"}, scene : 0..MaxScenes,
                               knew : BOOLEAN]]
    /\ progress \in [1..MaxScenes -> 0..Len(Commits(1))]
    /\ abandoned \subseteq 1..MaxScenes /\ activity \in 0..MaxActivities
    /\ reset.next \in 0..(Len(Statements) + 1) /\ reset.alone \in BOOLEAN
    /\ reset.gone \subseteq KeysOf(db)

(* However often and by however many the data set is seeded, there is one  *)
(* demo scene (its idempotency key), and it is complete unless a seeding   *)
(* is at it or one crashed.  After a crash it stays as it was left:        *)
(* SameEndState says what seed.py promises instead.                        *)
OneDemoScene ==
    /\ Cardinality(DemoScenes) <= 1
    /\ \A n \in DemoScenes :
          Complete(n) \/ n \in abandoned \/ \E s \in Seeders : seeder[s].scene = n

(* A reset that runs alone is stopped only by a row that no statement of   *)
(* it would delete and that refers to what it is about to delete: its      *)
(* order of tables follows every foreign key (_delete_scene_graph).        *)
Leftover ==
    \E x \in Left : /\ x.refs \cap KeysOf(Doomed(Statement)) # {}
                    /\ \A i \in DOMAIN Statements : x \notin Doomed(Statements[i])
ResetGoesThrough == [][FailReset => ~reset.alone \/ Leftover]_vars

(* A reset deletes only rows that lead, over scenes and conversations but  *)
(* over no other user, to a demo user or the demo organization.  A         *)
(* conversation or a scene of somebody else in which a demo user takes     *)
(* part does so, and goes with all its rows (_collect_demo_scene_ids,      *)
(* _collect_demo_conversation_ids).                                        *)
Roots == {UserKey(u) : u \in Demo} \cup {DemoOrganization}
Around(rows, near) ==
    LET there == {x \in rows : Key(x) \in near \/ x.refs \cap near # {}}
    IN near \cup KeysOf(there) \cup
       {k \in UNION {x.refs : x \in there} : k[1] \in {"scene", "conversation"}}
OnlyRelatedDeleted ==
    [][\A x \in db \ db' : Key(x) \in Around(db, Around(db, Around(db, Roots)))]_vars

(* What seed.py says: "repeated runs produce the same end state".  When a  *)
(* seeding has found the data set and ends, and no other one is at work,   *)
(* the demo scene is complete.                                             *)
SameEndState ==
    [][\A s \in Seeders :
          /\ seeder[s].at = "base" /\ seeder[s].knew /\ UserKey(Creator) \in KeysOf(db)
          /\ \A t \in Seeders : seeder'[t] = Rest
          => \A n \in DemoScenes : Complete(n)]_vars

(* What reset.py says: "non-demo rows are preserved".  What a reset        *)
(* deletes is written by the seeding, refers to a demo user or the demo    *)
(* organization, or is part of a conversation or scene that does.          *)
Owned(x) == x \in SeedRows \/ x.refs \cap Roots # {}
NonDemoKept ==
    [][\A x \in db \ db' :
          Owned(x) \/ \E y \in db : Owned(y) /\ Key(y) \in x.refs]_vars
=============================================================================
