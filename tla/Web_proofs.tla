----------------------------- MODULE Web_proofs -----------------------------
(***************************************************************************)
(* Proofs about the demo page and the hub, for any users, requests, scenes *)
(* and crashes, about the WebSocket client, for any pages, events and      *)
(* limits, about the message list of the conversation page, for any        *)
(* requests and page size, and about the directory, for any organizations, *)
(* page size, limit and depth.                                             *)
(*                                                                         *)
(* PublishedIsOpened speaks of the moments when nothing is under way.  The *)
(* invariant behind it says who will open a scene that has been published: *)
(* a request that believes it published it last (Driven).  ChoicesOffered  *)
(* needs that a candidate picked by a request under way stays one, which   *)
(* holds as nothing that a scene offers is ever taken back (Grows).        *)
(***************************************************************************)
EXTENDS MCWeb, FiniteSetTheorems, SequenceTheorems, WellFoundedInduction, TLAPS

Whole(row) ==
    DemoKeys \subseteq row.candidates \/ DemoKeys \cap row.candidates = {}
Offered(row) ==
    /\ row.chosen \in row.candidates \cup {Nothing, Unselected}
    /\ \A u \in Users : row.vote[u] # Nothing =>
          row.vote[u] \in row.candidates /\ row.part[u] # Nothing
RowOK(row) ==
    row \in Instance /\ Whole(row) /\ Offered(row) /\ row.part[row.key[2]] # Nothing

ScenesOK(s) == s \in Seq(Instance) /\ \A i \in DOMAIN s : RowOK(s[i])

(* What a request relies on once it has found its scene. *)
Sited == {"read", "write", "submit", "candidates", "fill", "save"}
RequestOK(r, s) ==
    /\ r \in Request
    /\ r.at \in {"check", "insert"} => r.action = "publish" /\ r.goal # "hub"
                                       /\ (r.kind = "page" => r.goal # "create")
    /\ r.at \in Sited => r.scene \in DOMAIN s
    /\ r.at \in Sited /\ r.goal # "hub" => s[r.scene].part[r.user] # Nothing
    /\ r.at = "save" => r.pick \in s[r.scene].candidates

RequestsOK == worker \in [Workers -> Request]
              /\ \A w \in Workers : RequestOK(worker[w], scene)

Doing(w, i, action, seen) ==
    /\ worker[w].at \in {"read", "write"}
    /\ worker[w].scene = i /\ worker[w].action = action /\ worker[w].seen = seen

(* Without a crash somebody is about to open every published scene and to  *)
(* publish every draft that the page made.                                 *)
Driven ==
    crashes = 0 => \A i \in DOMAIN scene :
       /\ scene[i].status = "INVITING" =>
             \E w \in Workers : Doing(w, i, "start_collecting", "INVITING")
       /\ scene[i].status = "DRAFT" /\ scene[i].key[1] = "page" =>
             \E w \in Workers : Doing(w, i, "publish", "DRAFT")

IInv == ScenesOK(scene) /\ RequestsOK /\ Driven /\ crashes \in 0 .. MaxCrashes

(* No step takes back a scene, a candidate or a participant row. *)
Kept(old, new) ==
    /\ new.key = old.key /\ old.candidates \subseteq new.candidates
    /\ \A u \in Users : old.part[u] # Nothing => new.part[u] # Nothing
Grows(s, t) == DOMAIN s \subseteq DOMAIN t /\ \A i \in DOMAIN s : Kept(s[i], t[i])

-----------------------------------------------------------------------------
LEMMA TargetsFacts ==
    /\ \A s, a : Targets(s, a) \subseteq SceneState /\ "DRAFT" \notin Targets(s, a)
    /\ \A s, a : "INVITING" \in Targets(s, a) => a = "publish"
    /\ Targets("DRAFT", "publish") # {} /\ Targets("INVITING", "start_collecting") # {}
    /\ "DRAFT" \in SceneState /\ "VOTING" \in SceneState
    /\ "GENERATING_CANDIDATES" \in SceneState
<1>1. \A s, a : Targets(s, a) \subseteq SceneState
      BY DEF Targets
<1>2. \A s, a : "DRAFT" \notin Targets(s, a)
      BY DEF Targets, LegalTransitions, NormalFlow
<1>3. \A s, a : "INVITING" \in Targets(s, a) => a = "publish"
      BY DEF Targets, LegalTransitions, NormalFlow
<1>4. "INVITING" \in Targets("DRAFT", "publish")
      BY DEF Targets, LegalTransitions, NormalFlow, SceneState, ActiveStates, TerminalStates
<1>5. "COLLECTING_PRIVATE_INPUT" \in Targets("INVITING", "start_collecting")
      BY DEF Targets, LegalTransitions, NormalFlow, SceneState, ActiveStates, TerminalStates
<1>6. {"DRAFT", "VOTING", "GENERATING_CANDIDATES"} \subseteq SceneState
      BY DEF SceneState, ActiveStates
<1> QED BY <1>1, <1>2, <1>3, <1>4, <1>5, <1>6

LEMMA IdleOK == ASSUME PageAssumption, NEW s PROVE RequestOK(Idle, s)
<1> DEFINE first == CHOOSE u \in Users : TRUE
<1>1. first \in Users
      BY DEF PageAssumption
<1>2. "DRAFT" \in SceneState /\ "publish" \in SceneActions
      BY TargetsFacts DEF SceneActions
<1>3. Idle = [at |-> "idle", user |-> first, goal |-> "status", kind |-> "page", scene |-> 0,
              action |-> "publish", seen |-> "DRAFT", pick |-> Nothing, was |-> Nothing]
      BY DEF Idle
<1> HIDE DEF first
<1>4. Idle \in Request
      BY <1>1, <1>2, <1>3 DEF Request, Goals
<1>5. Idle.at = "idle"
      BY <1>3
<1> QED BY <1>4, <1>5 DEF RequestOK, Sited

LEMMA GrowsReflexive == ASSUME NEW s PROVE Grows(s, s)
BY DEF Grows, Kept

(* A request keeps what it relies on while scenes only grow. *)
LEMMA RequestStable ==
    ASSUME NEW s, NEW t, Grows(s, t), NEW r, RequestOK(r, s)
    PROVE  RequestOK(r, t)
<1>1. r \in Request /\ r.user \in Users
      BY DEF RequestOK, Request
<1>2. CASE r.at \notin Sited
      BY <1>1, <1>2 DEF RequestOK, Sited
<1>3. CASE r.at \in Sited
  <2>1. r.scene \in DOMAIN s /\ r.scene \in DOMAIN t /\ Kept(s[r.scene], t[r.scene])
        BY <1>3 DEF RequestOK, Grows
  <2>2. r.goal # "hub" => t[r.scene].part[r.user] # Nothing
        BY <1>1, <1>3, <2>1 DEF RequestOK, Kept
  <2>3. r.at = "save" => r.pick \in t[r.scene].candidates
        BY <2>1 DEF RequestOK, Kept
  <2> QED BY <2>1, <2>2, <2>3 DEF RequestOK
<1> QED BY <1>2, <1>3

(* One request changes, while scenes grow. *)
LEMMA RequestsKept ==
    ASSUME RequestsOK, Grows(scene, scene'), NEW w \in Workers, NEW r,
           worker' = [worker EXCEPT ![w] = r], RequestOK(r, scene')
    PROVE  RequestsOK'
<1>1. r \in Request
      BY DEF RequestOK
<1>2. worker' \in [Workers -> Request]
      BY <1>1 DEF RequestsOK
<1>3. \A v \in Workers : RequestOK(worker[v], scene')
      BY RequestStable DEF RequestsOK
<1>4. \A v \in Workers : RequestOK(worker'[v], scene')
      BY <1>3 DEF RequestsOK
<1> QED BY <1>2, <1>4 DEF RequestsOK

(* One row changes. *)
LEMMA RowUpdated ==
    ASSUME ScenesOK(scene), NEW i \in DOMAIN scene, NEW row, Update(i, row),
           RowOK(row), Kept(scene[i], row)
    PROVE  /\ ScenesOK(scene') /\ Grows(scene, scene')
           /\ DOMAIN scene' = DOMAIN scene /\ scene'[i] = row
           /\ \A j \in DOMAIN scene : j # i => scene'[j] = scene[j]
<1>1. row \in Instance
      BY DEF RowOK
<1>2. /\ scene' \in Seq(Instance) /\ DOMAIN scene' = DOMAIN scene /\ scene'[i] = row
      /\ \A j \in DOMAIN scene : j # i => scene'[j] = scene[j]
      BY <1>1 DEF Update, ScenesOK
<1>3. \A j \in DOMAIN scene : Kept(scene[j], scene[j])
      BY DEF Kept
<1> QED BY <1>2, <1>3 DEF ScenesOK, Grows

(* A request that changes no scene: it may go on, unless it is the one     *)
(* that drives a scene.                                                    *)
LEMMA ThinkKeeps ==
    ASSUME IInv, NEW w \in Workers, NEW r, Think(w, r), RequestOK(r, scene),
           \A i \in DOMAIN scene :
              /\ scene[i].status = "INVITING" /\ Doing(w, i, "start_collecting", "INVITING")
                    => Doing(w, i, "start_collecting", "INVITING")'
              /\ scene[i].status = "DRAFT" /\ Doing(w, i, "publish", "DRAFT")
                    => Doing(w, i, "publish", "DRAFT")'
    PROVE  IInv'
<1>1. /\ worker' = [worker EXCEPT ![w] = r] /\ scene' = scene /\ crashes' = crashes
      BY DEF Think, Become
<1>2. RequestsOK'
      BY <1>1, GrowsReflexive, RequestsKept DEF IInv
<1>3. \A v \in Workers : v # w => worker'[v] = worker[v]
      BY <1>1 DEF IInv, RequestsOK
<1>4. \A v \in Workers : \A i, a, s : v # w /\ Doing(v, i, a, s) => Doing(v, i, a, s)'
      BY <1>3 DEF Doing
<1>5. Driven'
      BY <1>1, <1>4 DEF IInv, Driven
<1> QED BY <1>1, <1>2, <1>5 DEF IInv

(* A request that updates its scene without publishing or opening it. *)
LEMMA SaveKeeps ==
    ASSUME IInv, NEW w \in Workers, NEW r, NEW row,
           Save(w, row), Become(w, r), worker[w].at \in Sited \ {"read", "write"},
           RowOK(row), Kept(Mine(w), row), RequestOK(r, scene'),
           row.status = Mine(w).status
    PROVE  IInv'
<1> DEFINE i == worker[w].scene
<1>1. i \in DOMAIN scene /\ worker[w].at \notin {"read", "write"}
      BY DEF IInv, RequestsOK, RequestOK
<1>2. worker' = [worker EXCEPT ![w] = r] /\ crashes' = crashes /\ Update(i, row)
      BY DEF Save, Become
<1>3. /\ ScenesOK(scene') /\ Grows(scene, scene')
      /\ DOMAIN scene' = DOMAIN scene /\ scene'[i] = row
      /\ \A j \in DOMAIN scene : j # i => scene'[j] = scene[j]
      BY <1>1, <1>2, RowUpdated DEF IInv, Mine
<1>4. RequestsOK'
      BY <1>2, <1>3, RequestsKept DEF IInv
<1>5. \A v \in Workers : v # w => worker'[v] = worker[v]
      BY <1>2 DEF IInv, RequestsOK
<1>6. \A v \in Workers : \A j, a, s : Doing(v, j, a, s) => Doing(v, j, a, s)'
      BY <1>1, <1>5 DEF Doing
<1>7. \A j \in DOMAIN scene : scene'[j].status = scene[j].status
      BY <1>1, <1>3 DEF Mine
<1>8. \A j \in DOMAIN scene : scene'[j].key = scene[j].key
      BY <1>3 DEF Grows, Kept
<1>9. Driven'
      BY <1>2, <1>3, <1>6, <1>7, <1>8 DEF IInv, Driven
<1> QED BY <1>2, <1>3, <1>4, <1>9 DEF IInv

(* A step that is no request's and does not publish. *)
LEMMA UpdateKeeps ==
    ASSUME IInv, NEW i \in DOMAIN scene, NEW row, Update(i, row),
           UNCHANGED <<worker, crashes>>, RowOK(row), Kept(scene[i], row),
           row.status \in {scene[i].status, "GENERATING_CANDIDATES", "VOTING"}
    PROVE  IInv'
<1>1. /\ ScenesOK(scene') /\ Grows(scene, scene')
      /\ DOMAIN scene' = DOMAIN scene /\ scene'[i] = row
      /\ \A j \in DOMAIN scene : j # i => scene'[j] = scene[j]
      BY RowUpdated DEF IInv
<1>2. RequestsOK'
      BY <1>1, RequestStable DEF IInv, RequestsOK
<1>3. \A v, j, a, s : Doing(v, j, a, s) => Doing(v, j, a, s)'
      BY DEF Doing
<1>4. \A j \in DOMAIN scene : scene'[j].status \in {"INVITING", "DRAFT"}
                                 => scene'[j].status = scene[j].status
      BY <1>1
<1>5. \A j \in DOMAIN scene : scene'[j].key = scene[j].key
      BY <1>1 DEF Grows, Kept
<1>6. Driven'
      BY <1>1, <1>3, <1>4, <1>5 DEF IInv, Driven
<1> QED BY <1>1, <1>2, <1>6 DEF IInv

-----------------------------------------------------------------------------
LEMMA ContinueOK ==
    ASSUME PageAssumption, NEW s, NEW r \in Request, r.scene \in DOMAIN s,
           s[r.scene].part[r.user] # Nothing
    PROVE  RequestOK(Continue(r), s)
<1>1. CASE r.goal = "submit" /\ r.seen = "COLLECTING_PRIVATE_INPUT"
  <2> DEFINE q == [r EXCEPT !.at = "submit"]
  <2>1. q \in Request /\ q.at = "submit" /\ q.scene = r.scene /\ q.user = r.user
        BY DEF Request
  <2>2. Continue(r) = q
        BY <1>1 DEF Continue
  <2> HIDE DEF q
  <2> QED BY <2>1, <2>2 DEF RequestOK
<1>2. CASE r.goal \in {"list", "vote", "confirm", "unvote"}
  <2> DEFINE q == [r EXCEPT !.at = "candidates"]
  <2>1. q \in Request /\ q.at = "candidates" /\ q.scene = r.scene /\ q.user = r.user
        BY DEF Request
  <2>2. Continue(r) = q
        BY <1>2 DEF Continue
  <2> HIDE DEF q
  <2> QED BY <2>1, <2>2 DEF RequestOK
<1>3. CASE ~ (r.goal = "submit" /\ r.seen = "COLLECTING_PRIVATE_INPUT")
           /\ r.goal \notin {"list", "vote", "confirm", "unvote"}
      BY <1>3, IdleOK DEF Continue
<1> QED BY <1>1, <1>2, <1>3

LEMMA OpenKeeps ==
    ASSUME PageAssumption, IInv, NEW w \in Workers, NEW u \in Users,
           NEW goal \in Goals \ {"create", "hub"}, Open(w, u, goal)
    PROVE  IInv'
<1> DEFINE request == [Idle EXCEPT !.user = u, !.goal = goal]
<1>1. Idle \in Request /\ Idle.action = "publish"
      BY IdleOK DEF RequestOK, Idle
<1>2. request \in Request /\ request.action = "publish" /\ request.goal = goal
      /\ request.user = u
      BY <1>1 DEF Request
<1>3. \A i, a, s : ~ Doing(w, i, a, s)
      BY DEF Open, At, Doing
<1> HIDE DEF request
<1>4. CASE Think(w, [request EXCEPT !.at = "check"])
  <2> DEFINE r == [request EXCEPT !.at = "check"]
  <2>1. r \in Request /\ r.at = "check" /\ r.action = "publish" /\ r.goal = goal
        BY <1>2 DEF Request
  <2>2. Think(w, r)
        BY <1>4
  <2> HIDE DEF r
  <2>3. RequestOK(r, scene)
        BY <2>1 DEF RequestOK, Sited
  <2> QED BY <1>3, <2>2, <2>3, ThinkKeeps
<1>5. ASSUME NEW i \in Latest(u),
             Think(w, Continue([request EXCEPT !.scene = i, !.seen = scene[i].status]))
      PROVE  IInv'
  <2> DEFINE r == [request EXCEPT !.scene = i, !.seen = scene[i].status]
  <2>1. /\ i \in DOMAIN scene /\ i \in Nat
        /\ scene[i] \in Instance /\ scene[i].part[u] # Nothing
        BY DEF Latest, Dinners, IInv, ScenesOK, RowOK
  <2>2. scene[i].status \in SceneState
        BY <2>1 DEF Instance
  <2>3. r \in Request /\ r.scene = i /\ r.user = u
        BY <1>2, <2>1, <2>2 DEF Request
  <2>4. Think(w, Continue(r))
        BY <1>5
  <2> HIDE DEF r
  <2>5. RequestOK(Continue(r), scene)
        BY <2>1, <2>3, ContinueOK
  <2> QED BY <1>3, <2>4, <2>5, ThinkKeeps
<1> QED BY <1>4, <1>5 DEF Open, request

LEMMA CreateSceneKeeps ==
    ASSUME PageAssumption, IInv, NEW w \in Workers, NEW u \in Users, CreateScene(w, u)
    PROVE  IInv'
<1> DEFINE r == [Idle EXCEPT !.at = "check", !.user = u, !.goal = "create", !.kind = "client"]
<1>1. Idle \in Request /\ Idle.action = "publish"
      BY IdleOK DEF RequestOK, Idle
<1>2. r \in Request /\ r.at = "check" /\ r.action = "publish" /\ r.goal = "create"
      /\ r.kind = "client"
      BY <1>1 DEF Request, Goals
<1>3. Think(w, r) /\ \A i, a, s : ~ Doing(w, i, a, s)
      BY DEF CreateScene, At, Doing
<1> HIDE DEF r
<1>4. RequestOK(r, scene)
      BY <1>2 DEF RequestOK, Sited
<1> QED BY <1>3, <1>4, ThinkKeeps

LEMMA CheckKeyKeeps ==
    ASSUME PageAssumption, IInv, NEW w \in Workers, CheckKey(w)
    PROVE  IInv'
<1> DEFINE old == worker[w]
<1>1. /\ old \in Request /\ old.action = "publish" /\ old.goal # "hub"
      /\ old.kind = "page" => old.goal # "create"
      BY DEF CheckKey, At, IInv, RequestsOK, RequestOK
<1>2. \A i, a, s : ~ Doing(w, i, a, s)
      BY DEF CheckKey, At, Doing
<1>3. CASE Think(w, [old EXCEPT !.at = "insert"])
  <2> DEFINE r == [old EXCEPT !.at = "insert"]
  <2>1. /\ r \in Request /\ r.at = "insert" /\ r.action = "publish" /\ r.goal # "hub"
        /\ r.kind = "page" => r.goal # "create"
        BY <1>1 DEF Request
  <2>2. Think(w, r)
        BY <1>3
  <2> HIDE DEF r
  <2>3. RequestOK(r, scene)
        BY <2>1 DEF RequestOK, Sited
  <2> QED BY <1>2, <2>2, <2>3, ThinkKeeps
<1>4. CASE Done(w)
      BY <1>2, <1>4, IdleOK, ThinkKeeps DEF Done
<1>5. ASSUME NEW i \in Created(<<old.kind, old.user>>),
             Think(w, [old EXCEPT !.at = "read", !.scene = i, !.seen = scene[i].status])
      PROVE  IInv'
  <2> DEFINE r == [old EXCEPT !.at = "read", !.scene = i, !.seen = scene[i].status]
  <2>1. /\ i \in DOMAIN scene /\ i \in Nat /\ scene[i].key = <<old.kind, old.user>>
        /\ scene[i] \in Instance /\ scene[i].part[scene[i].key[2]] # Nothing
        BY DEF Created, IInv, ScenesOK, RowOK
  <2>2. scene[i].status \in SceneState /\ scene[i].part[old.user] # Nothing
        BY <2>1 DEF Instance
  <2>3. /\ r \in Request /\ r.at = "read" /\ r.scene = i /\ r.user = old.user
        BY <1>1, <2>1, <2>2 DEF Request
  <2>4. Think(w, r)
        BY <1>5
  <2> HIDE DEF r
  <2>5. RequestOK(r, scene)
        BY <2>1, <2>2, <2>3 DEF RequestOK, Sited
  <2> QED BY <1>2, <2>4, <2>5, ThinkKeeps
<1> QED BY <1>3, <1>4, <1>5 DEF CheckKey

(* A new scene is a draft; the request of the page that made it goes on to *)
(* publish it.                                                             *)
LEMMA InsertSceneKeeps ==
    ASSUME PageAssumption, IInv, NEW w \in Workers,
           NEW invited \in SUBSET (Users \ {worker[w].user}), InsertScene(w, invited)
    PROVE  IInv'
<1>0. PICK n \in Nat : n = Len(scene) + 1
      BY DEF IInv, ScenesOK
<1> DEFINE r == worker[w]
           new == [creator |-> r.user, key |-> <<r.kind, r.user>>,
                   part |-> [u \in Users |-> IF u = r.user THEN "ACCEPTED"
                                            ELSE IF u \in invited THEN "INVITED" ELSE Nothing],
                   status |-> "DRAFT", candidates |-> {},
                   submission |-> [u \in Users |-> Nothing],
                   vote |-> [u \in Users |-> Nothing], chosen |-> Nothing]
           q == IF r.goal = "create" THEN Idle
                ELSE [r EXCEPT !.at = "read", !.scene = n, !.seen = "DRAFT"]
<1>1. /\ r \in Request /\ r.action = "publish" /\ r.goal # "hub"
      /\ r.kind = "page" => r.goal # "create"
      BY DEF InsertScene, At, IInv, RequestsOK, RequestOK
<1>2. r.user \in Users /\ r.kind \in {"page", "client"}
      BY <1>1 DEF Request
<1>3. /\ new \in Instance /\ new.status = "DRAFT" /\ new.key = <<r.kind, r.user>>
      /\ new.candidates = {} /\ new.chosen = Nothing /\ new.part[r.user] = "ACCEPTED"
      /\ \A u \in Users : new.vote[u] = Nothing
      BY <1>2, TargetsFacts DEF Instance, IdempotencyKeys, Participation
<1>4. RowOK(new)
      BY <1>2, <1>3 DEF RowOK, Whole, Offered, Nothing
<1>5. /\ scene' = Append(scene, new) /\ worker' = [worker EXCEPT ![w] = q]
      /\ crashes' = crashes /\ r.at = "insert"
      BY <1>0 DEF InsertScene, Become, At
<1> HIDE DEF new
<1>6. n = Len(scene) + 1 /\ Len(scene) \in Nat /\ scene \in Seq(Instance)
      BY <1>0 DEF IInv, ScenesOK
<1>7. /\ scene' \in Seq(Instance) /\ DOMAIN scene = 1 .. Len(scene)
      /\ DOMAIN scene' = 1 .. n /\ scene'[n] = new
      /\ \A i \in DOMAIN scene : scene'[i] = scene[i]
      BY <1>3, <1>5, <1>6
<1>8. \A i \in DOMAIN scene' : i \in DOMAIN scene \/ i = n
      BY <1>6, <1>7
<1>9. ScenesOK(scene')
      BY <1>4, <1>7, <1>8 DEF IInv, ScenesOK
<1>10. Grows(scene, scene')
       BY <1>6, <1>7 DEF Grows, Kept
<1>11. r.goal # "create" =>
          /\ q \in Request /\ q.at = "read" /\ q.scene = n /\ q.user = r.user
          /\ q.action = "publish" /\ q.seen = "DRAFT"
  <2> SUFFICES ASSUME r.goal # "create"
               PROVE  /\ q \in Request /\ q.at = "read" /\ q.scene = n /\ q.user = r.user
                      /\ q.action = "publish" /\ q.seen = "DRAFT"
      OBVIOUS
  <2> QED BY <1>1, <1>6, TargetsFacts DEF Request
<1>12. RequestOK(q, scene')
  <2>1. CASE r.goal = "create"
    <3>1. q = Idle
          BY <2>1
    <3> HIDE DEF q
    <3> QED BY <3>1, IdleOK
  <2>2. CASE r.goal # "create"
    <3>1. n \in DOMAIN scene' /\ scene'[n].part[r.user] # Nothing
          BY <1>3, <1>6, <1>7 DEF Nothing
    <3> HIDE DEF q
    <3> QED BY <2>2, <3>1, <1>11 DEF RequestOK, Sited
  <2> QED BY <2>1, <2>2
<1>13. RequestsOK'
       BY <1>5, <1>10, <1>12, RequestsKept DEF IInv
<1>14. worker'[w] = q /\ \A v \in Workers : v # w => worker'[v] = worker[v]
       BY <1>5 DEF IInv, RequestsOK
<1>15. \A v \in Workers : \A i, a, s : Doing(v, i, a, s) => Doing(v, i, a, s)'
       BY <1>5, <1>14 DEF Doing
<1>16. new.key[1] = "page" => Doing(w, n, "publish", "DRAFT")'
  <2>1. new.key[1] = "page" => r.goal # "create"
        BY <1>1, <1>3
  <2> HIDE DEF q
  <2> QED BY <2>1, <1>11, <1>14 DEF Doing
<1>17. Driven'
       BY <1>3, <1>5, <1>7, <1>8, <1>15, <1>16 DEF IInv, Driven
<1> QED BY <1>5, <1>9, <1>13, <1>17 DEF IInv

LEMMA TransitionKeeps ==
    ASSUME PageAssumption, IInv, NEW w \in Workers, NEW i \in DOMAIN scene,
           NEW action \in HubActions, Transition(w, i, action)
    PROVE  IInv'
<1> DEFINE r == [Idle EXCEPT !.at = "read", !.user = scene[i].creator, !.goal = "hub",
                             !.scene = i, !.action = action, !.seen = scene[i].status]
<1>1. Idle \in Request /\ scene[i] \in Instance /\ i \in Nat
      BY IdleOK DEF RequestOK, IInv, ScenesOK, RowOK
<1>2. scene[i].creator \in Users /\ scene[i].status \in SceneState /\ action \in SceneActions
      BY <1>1 DEF Instance, HubActions, SceneActions
<1>3. r \in Request /\ r.at = "read" /\ r.goal = "hub" /\ r.scene = i
      BY <1>1, <1>2 DEF Request, Goals
<1>4. Think(w, r) /\ \A j, a, s : ~ Doing(w, j, a, s)
      BY DEF Transition, At, Doing
<1> HIDE DEF r
<1>5. RequestOK(r, scene)
      BY <1>3 DEF RequestOK, Sited
<1> QED BY <1>4, <1>5, ThinkKeeps

(* Who drives a scene believes what the scene says, and is not refused. *)
LEMMA ReadTransitionKeeps ==
    ASSUME PageAssumption, IInv, NEW w \in Workers, ReadTransition(w)
    PROVE  IInv'
<1> DEFINE old == worker[w]
<1>1. /\ old \in Request /\ old.at = "read" /\ old.scene \in DOMAIN scene
      /\ old.goal # "hub" => scene[old.scene].part[old.user] # Nothing
      BY DEF ReadTransition, At, IInv, RequestsOK, RequestOK, Sited
<1>2. PICK s \in {Mine(w).status} \cup (IF old.goal = "hub" THEN {} ELSE {old.seen}) :
         IF Targets(s, old.action) = {} THEN Done(w)
         ELSE Think(w, [old EXCEPT !.at = "write", !.seen = s])
      BY DEF ReadTransition
<1>3. scene[old.scene] \in Instance
      BY <1>1 DEF IInv, ScenesOK, RowOK
<1>4. s \in SceneState
      BY <1>1, <1>2, <1>3 DEF Mine, Instance, Request
<1>5. \A i \in DOMAIN scene : \A a, x : scene[i].status = x /\ Doing(w, i, a, x) => s = x
      BY <1>2 DEF Doing, Mine
<1>6. CASE Targets(s, old.action) = {}
  <2>1. \A i \in DOMAIN scene :
          /\ scene[i].status = "INVITING" => ~ Doing(w, i, "start_collecting", "INVITING")
          /\ scene[i].status = "DRAFT" => ~ Doing(w, i, "publish", "DRAFT")
        BY <1>5, <1>6, TargetsFacts DEF Doing
  <2>2. Think(w, Idle)
        BY <1>2, <1>6 DEF Done
  <2> QED BY <2>1, <2>2, IdleOK, ThinkKeeps
<1>7. CASE Targets(s, old.action) # {}
  <2> DEFINE r == [old EXCEPT !.at = "write", !.seen = s]
  <2>1. /\ r \in Request /\ r.at = "write" /\ r.scene = old.scene /\ r.user = old.user
        /\ r.goal = old.goal /\ r.seen = s /\ r.action = old.action
        BY <1>1, <1>4 DEF Request
  <2>2. Think(w, r)
        BY <1>2, <1>7
  <2> HIDE DEF r
  <2>3. RequestOK(r, scene)
        BY <1>1, <2>1 DEF RequestOK, Sited
  <2>4. worker'[w] = r
        BY <2>2 DEF Think, Become, IInv, RequestsOK
  <2>5. \A i \in DOMAIN scene : \A a, x :
           scene[i].status = x /\ Doing(w, i, a, x) => Doing(w, i, a, x)'
        BY <1>5, <2>1, <2>4 DEF Doing
  <2> QED BY <2>2, <2>3, <2>5, ThinkKeeps
<1> QED BY <1>6, <1>7

(* Who publishes a scene is the one to open it; who opens it is done.      *)
LEMMA WriteTransitionKeeps ==
    ASSUME PageAssumption, IInv, NEW w \in Workers, WriteTransition(w)
    PROVE  IInv'
<1>0. PICK i \in DOMAIN scene : i = worker[w].scene
      BY DEF WriteTransition, At, IInv, RequestsOK, RequestOK, Sited
<1> DEFINE old == worker[w]
<1>1. /\ old \in Request /\ old.at = "write" /\ i = old.scene
      /\ old.goal # "hub" => scene[i].part[old.user] # Nothing
      BY <1>0 DEF WriteTransition, At, IInv, RequestsOK, RequestOK, Sited
<1>2. PICK s \in Targets(old.seen, old.action) :
         /\ Save(w, [Mine(w) EXCEPT !.status = s])
         /\ Become(w, AfterTransition([old EXCEPT !.seen = s]))
      BY DEF WriteTransition
<1>3. s \in SceneState /\ s # "DRAFT" /\ (s = "INVITING" => old.action = "publish")
      BY TargetsFacts
<1> DEFINE row == [scene[i] EXCEPT !.status = s]
           q == [old EXCEPT !.seen = s]
           r == AfterTransition(q)
<1>4. RowOK(scene[i]) /\ scene[i] \in Instance
      BY DEF IInv, ScenesOK, RowOK
<1>5. /\ row \in Instance /\ row.status = s /\ row.key = scene[i].key
      /\ row.candidates = scene[i].candidates /\ row.part = scene[i].part
      /\ row.chosen = scene[i].chosen /\ row.vote = scene[i].vote
      BY <1>3, <1>4 DEF Instance
<1>6. Update(i, row) /\ worker' = [worker EXCEPT ![w] = r] /\ crashes' = crashes
      BY <1>1, <1>2 DEF Save, Mine, Become
<1>7. q \in Request /\ q.scene = i /\ q.user = old.user /\ q.goal = old.goal
      /\ q.action = old.action /\ q.seen = s
      BY <1>1, <1>3 DEF Request
<1> HIDE DEF row
<1>8. RowOK(row) /\ Kept(scene[i], row)
      BY <1>4, <1>5 DEF RowOK, Whole, Offered, Kept
<1>9. /\ ScenesOK(scene') /\ Grows(scene, scene')
      /\ DOMAIN scene' = DOMAIN scene /\ scene'[i] = row
      /\ \A j \in DOMAIN scene : j # i => scene'[j] = scene[j]
      BY <1>6, <1>8, RowUpdated DEF IInv
<1> HIDE DEF q
<1>10. old.action = "publish" =>
          /\ r \in Request /\ r.at = "read" /\ r.scene = i /\ r.user = old.user
          /\ r.goal = old.goal /\ r.action = "start_collecting" /\ r.seen = s
  <2> SUFFICES ASSUME old.action = "publish"
               PROVE  /\ r \in Request /\ r.at = "read" /\ r.scene = i /\ r.user = old.user
                      /\ r.goal = old.goal /\ r.action = "start_collecting" /\ r.seen = s
      OBVIOUS
  <2>1. r = [q EXCEPT !.at = "read", !.action = "start_collecting"]
        BY <1>7 DEF AfterTransition
  <2> HIDE DEF r
  <2> QED BY <1>7, <2>1 DEF Request, SceneActions
<1>11. RequestOK(r, scene')
  <2>1. CASE old.action = "publish"
    <3>1. i \in DOMAIN scene' /\ scene'[i].part = scene[i].part
          BY <1>5, <1>9
    <3> HIDE DEF r
    <3> QED BY <1>1, <1>10, <2>1, <3>1 DEF RequestOK, Sited
  <2>2. CASE old.action # "publish" /\ old.goal # "hub"
    <3>1. i \in DOMAIN scene' /\ scene'[i].part[old.user] # Nothing
          BY <1>1, <1>5, <1>9, <2>2
    <3>2. r = Continue(q)
          BY <1>7, <2>2 DEF AfterTransition
    <3> HIDE DEF r
    <3> QED BY <1>7, <3>1, <3>2, ContinueOK
  <2>3. CASE old.action # "publish" /\ old.goal = "hub"
    <3>1. r = Idle
          BY <1>7, <2>3 DEF AfterTransition, Continue
    <3> HIDE DEF r
    <3> QED BY <3>1, IdleOK
  <2> QED BY <2>1, <2>2, <2>3
<1> HIDE DEF r
<1>12. RequestsOK'
       BY <1>6, <1>9, <1>11, RequestsKept DEF IInv
<1>13. worker'[w] = r /\ \A v \in Workers : v # w => worker'[v] = worker[v]
       BY <1>6 DEF IInv, RequestsOK
<1>14. \A v \in Workers : \A j, a, x :
          j # i /\ Doing(v, j, a, x) => Doing(v, j, a, x)'
       BY <1>1, <1>13 DEF Doing
<1>15. s = "INVITING" => Doing(w, i, "start_collecting", "INVITING")'
       BY <1>3, <1>10, <1>13 DEF Doing
<1>16. \A j \in DOMAIN scene : scene'[j].key = scene[j].key
       BY <1>9 DEF Grows, Kept
<1>17. Driven'
       BY <1>3, <1>5, <1>6, <1>9, <1>14, <1>15, <1>16 DEF IInv, Driven
<1> QED BY <1>6, <1>9, <1>12, <1>17 DEF IInv

LEMMA NotDriving ==
    ASSUME NEW w \in Workers, worker[w].at \notin {"read", "write"}
    PROVE  \A i, a, s : ~ Doing(w, i, a, s)
BY DEF Doing

(* What a request found at its scene before it acts on it. *)
LEMMA AtScene ==
    ASSUME IInv, NEW w \in Workers,
           worker[w].at \in {"submit", "candidates", "fill", "save"}
    PROVE  /\ worker[w] \in Request /\ worker[w].scene \in DOMAIN scene
           /\ RequestOK(worker[w], scene)
           /\ worker[w].user \in Users
           /\ RowOK(Mine(w)) /\ Mine(w) = scene[worker[w].scene] /\ Mine(w) \in Instance
           /\ worker[w].goal # "hub" => Mine(w).part[worker[w].user] # Nothing
           /\ worker[w].at \in Sited \ {"read", "write"}
<1>1. RequestOK(worker[w], scene) /\ worker[w].at \in Sited \ {"read", "write"}
      BY DEF IInv, RequestsOK, Sited
<1>2. worker[w] \in Request /\ worker[w].scene \in DOMAIN scene
      /\ (worker[w].goal # "hub" => Mine(w).part[worker[w].user] # Nothing)
      BY <1>1 DEF RequestOK, Mine
<1>3. worker[w].user \in Users
      BY <1>2 DEF Request
<1>4. RowOK(Mine(w)) /\ Mine(w) \in Instance
      BY <1>2 DEF IInv, ScenesOK, RowOK, Mine
<1> QED BY <1>1, <1>2, <1>3, <1>4 DEF Mine

LEMMA SubmitKeeps ==
    ASSUME PageAssumption, IInv, NEW w \in Workers, Submit(w)
    PROVE  IInv'
<1> DEFINE row == [Mine(w) EXCEPT !.submission[worker[w].user] = "live"]
<1>1. worker[w].at = "submit"
      BY DEF Submit, At
<1>2. RowOK(Mine(w)) /\ Mine(w) \in Instance /\ worker[w].user \in Users
      /\ worker[w].at \in Sited \ {"read", "write"}
      BY <1>1, AtScene
<1>3. /\ row \in Instance /\ row.status = Mine(w).status /\ row.key = Mine(w).key
      /\ row.candidates = Mine(w).candidates /\ row.part = Mine(w).part
      /\ row.chosen = Mine(w).chosen /\ row.vote = Mine(w).vote
      BY <1>2 DEF Instance
<1> HIDE DEF row
<1>4. RowOK(row) /\ Kept(Mine(w), row)
      BY <1>2, <1>3 DEF RowOK, Whole, Offered, Kept
<1>5. CASE Save(w, row) /\ Become(w, Idle)
      BY <1>2, <1>3, <1>4, <1>5, IdleOK, SaveKeeps
<1>6. CASE Done(w)
      BY <1>1, <1>6, NotDriving, IdleOK, ThinkKeeps DEF Done
<1> QED BY <1>5, <1>6 DEF Submit, row

LEMMA DeletePreferenceKeeps ==
    ASSUME IInv, NEW i \in DOMAIN scene, NEW u \in Users, DeletePreference(u, i)
    PROVE  IInv'
<1> DEFINE row == [scene[i] EXCEPT !.submission[u] = "deleted"]
<1>1. RowOK(scene[i]) /\ scene[i] \in Instance
      BY DEF IInv, ScenesOK, RowOK
<1>2. /\ row \in Instance /\ row.status = scene[i].status /\ row.key = scene[i].key
      /\ row.candidates = scene[i].candidates /\ row.part = scene[i].part
      /\ row.chosen = scene[i].chosen /\ row.vote = scene[i].vote
      BY <1>1 DEF Instance
<1>3. Update(i, row) /\ UNCHANGED <<worker, crashes>>
      BY DEF DeletePreference
<1> HIDE DEF row
<1>4. RowOK(row) /\ Kept(scene[i], row)
      BY <1>1, <1>2 DEF RowOK, Whole, Offered, Kept
<1> QED BY <1>2, <1>3, <1>4, UpdateKeeps

(* A request that is going to vote or confirm has picked what is offered. *)
LEMMA PickOK ==
    ASSUME PageAssumption, NEW s, NEW r \in Request, r.scene \in DOMAIN s, NEW k,
           NEW offered, offered \subseteq s[r.scene].candidates,
           offered \subseteq Offers, NEW row \in Instance,
           r.goal # "hub" => s[r.scene].part[r.user] # Nothing
    PROVE  RequestOK(Pick(r, k, offered, row), s)
<1>1. CASE r.goal = "list" \/ k \notin offered
      BY <1>1, IdleOK DEF Pick
<1>2. CASE ~ (r.goal = "list" \/ k \notin offered)
  <2> DEFINE was == IF r.goal = "confirm" THEN row.chosen ELSE row.vote[r.user]
             q == [r EXCEPT !.at = "save", !.pick = k, !.was = was]
  <2>1. r.user \in Users
        BY DEF Request
  <2>2. was \in Offers \cup {Nothing, Unselected}
        BY <2>1 DEF Instance
  <2>3. Pick(r, k, offered, row) = q
        BY <1>2 DEF Pick
  <2> HIDE DEF was
  <2>4. q \in Request /\ q.at = "save" /\ q.scene = r.scene /\ q.user = r.user
        /\ q.pick = k /\ q.goal = r.goal
        BY <1>2, <2>2 DEF Request
  <2> HIDE DEF q
  <2> QED BY <1>2, <2>3, <2>4 DEF RequestOK, Sited
<1> QED BY <1>1, <1>2

LEMMA CandidatesKeeps ==
    ASSUME PageAssumption, IInv, NEW w \in Workers, NEW k, ListCandidates(w, k)
    PROVE  IInv'
<1> DEFINE r == worker[w]
<1>1. r.at = "candidates"
      BY DEF ListCandidates, At
<1>2. /\ r \in Request /\ r.scene \in DOMAIN scene /\ RequestOK(r, scene)
      /\ Mine(w) = scene[r.scene] /\ Mine(w) \in Instance
      /\ r.goal # "hub" => Mine(w).part[r.user] # Nothing
      BY <1>1, AtScene
<1>3. CASE Think(w, [r EXCEPT !.at = "fill"])
  <2> DEFINE q == [r EXCEPT !.at = "fill"]
  <2>1. /\ q \in Request /\ q.at = "fill" /\ q.scene = r.scene /\ q.user = r.user
        /\ q.goal = r.goal
        BY <1>2 DEF Request
  <2>2. Think(w, q)
        BY <1>3
  <2> HIDE DEF q
  <2>3. RequestOK(q, scene)
        BY <1>2, <2>1 DEF RequestOK, Sited
  <2> QED BY <1>1, <2>2, <2>3, NotDriving, ThinkKeeps
<1>4. CASE Think(w, Pick(r, k, Mine(w).candidates, Mine(w)))
  <2>1. Mine(w).candidates \subseteq Offers
        BY <1>2 DEF Instance
  <2>2. RequestOK(Pick(r, k, Mine(w).candidates, Mine(w)), scene)
        BY <1>2, <2>1, PickOK
  <2> QED BY <1>1, <1>4, <2>2, NotDriving, ThinkKeeps
<1> QED BY <1>3, <1>4 DEF ListCandidates

LEMMA FillKeeps ==
    ASSUME PageAssumption, IInv, NEW w \in Workers, NEW k, Fill(w, k)
    PROVE  IInv'
<1>a. worker[w].at = "fill"
      BY DEF Fill, At
<1>b. worker[w] \in Request /\ worker[w].scene \in DOMAIN scene /\ Mine(w) \in Instance
      BY <1>a, AtScene
<1>0. PICK r \in Request, i \in DOMAIN scene, before \in Instance :
         r = worker[w] /\ i = r.scene /\ before = Mine(w)
      BY <1>b, Zenon
<1> DEFINE row == [before EXCEPT !.candidates = before.candidates \cup DemoKeys]
           q == Pick(r, k, DemoKeys, before)
<1>1. r.at = "fill"
      BY <1>0 DEF Fill, At
<1>2. /\ r \in Request /\ before = scene[i] /\ RowOK(before)
      /\ r.goal # "hub" => before.part[r.user] # Nothing
      /\ r.at \in Sited \ {"read", "write"}
      BY <1>0, <1>1, AtScene
<1>3. DemoKeys \subseteq Offers
      BY DEF Offers
<1>4. /\ row \in Instance /\ row.status = before.status /\ row.key = before.key
      /\ row.candidates = before.candidates \cup DemoKeys /\ row.part = before.part
      /\ row.chosen = before.chosen /\ row.vote = before.vote
      BY <1>0, <1>3 DEF Instance
<1> HIDE DEF row
<1>5. RowOK(row) /\ Kept(before, row)
      BY <1>2, <1>4 DEF RowOK, Whole, Offered, Kept
<1>6. CASE Done(w)
      BY <1>0, <1>1, <1>6, NotDriving, IdleOK, ThinkKeeps DEF Done
<1>7. CASE Save(w, row) /\ Become(w, q)
  <2>1. Update(i, row)
        BY <1>0, <1>7 DEF Save
  <2>2. i \in DOMAIN scene' /\ scene'[i] = row
        BY <1>2, <1>5, <2>1, RowUpdated DEF IInv
  <2> HIDE DEF q
  <2>3. /\ DemoKeys \subseteq scene'[i].candidates
        /\ r.goal # "hub" => scene'[i].part[r.user] # Nothing
        BY <1>2, <1>4, <2>2
  <2>4. \A s : i \in DOMAIN s /\ DemoKeys \subseteq s[i].candidates
               /\ (r.goal # "hub" => s[i].part[r.user] # Nothing) => RequestOK(q, s)
        BY <1>0, <1>2, <1>3, PickOK DEF q
  <2>5. RequestOK(q, scene')
        BY <2>2, <2>3, <2>4
  <2> QED BY <1>0, <1>2, <1>4, <1>5, <1>7, <2>5, SaveKeeps
<1> QED BY <1>0, <1>6, <1>7 DEF Fill, row, q

(* The three endings of a request that picked a candidate. *)
LEMMA SaveVoteKeeps ==
    ASSUME PageAssumption, IInv, NEW w \in Workers, SaveVote(w)
    PROVE  IInv'
<1> DEFINE r == worker[w]
           row == [Mine(w) EXCEPT !.vote[r.user] = r.pick]
<1>1. r.at = "save" /\ r.goal = "vote"
      BY DEF SaveVote, At
<1>2. /\ RowOK(Mine(w)) /\ Mine(w) \in Instance /\ r.user \in Users
      /\ Mine(w).part[r.user] # Nothing /\ r.at \in Sited \ {"read", "write"}
      /\ r.pick \in Mine(w).candidates
      BY <1>1, AtScene DEF RequestOK
<1>3. /\ row \in Instance /\ row.status = Mine(w).status /\ row.key = Mine(w).key
      /\ row.candidates = Mine(w).candidates /\ row.part = Mine(w).part
      /\ row.chosen = Mine(w).chosen
      /\ \A u \in Users : row.vote[u] = IF u = r.user THEN r.pick ELSE Mine(w).vote[u]
      BY <1>2 DEF Instance
<1> HIDE DEF row
<1>4. RowOK(row) /\ Kept(Mine(w), row)
      BY <1>2, <1>3 DEF RowOK, Whole, Offered, Kept
<1>5. CASE Save(w, row) /\ Become(w, Idle)
      BY <1>2, <1>3, <1>4, <1>5, IdleOK, SaveKeeps
<1>6. CASE Done(w)
      BY <1>1, <1>6, NotDriving, IdleOK, ThinkKeeps DEF Done
<1> QED BY <1>5, <1>6 DEF SaveVote, row

LEMMA DeleteVoteKeeps ==
    ASSUME PageAssumption, IInv, NEW w \in Workers, DeleteVote(w)
    PROVE  IInv'
<1> DEFINE r == worker[w]
           row == [Mine(w) EXCEPT !.vote[r.user] = Nothing]
<1>1. r.at = "save" /\ r.goal = "unvote"
      BY DEF DeleteVote, At
<1>2. /\ RowOK(Mine(w)) /\ Mine(w) \in Instance /\ r.user \in Users
      /\ r.at \in Sited \ {"read", "write"}
      BY <1>1, AtScene
<1>3. /\ row \in Instance /\ row.status = Mine(w).status /\ row.key = Mine(w).key
      /\ row.candidates = Mine(w).candidates /\ row.part = Mine(w).part
      /\ row.chosen = Mine(w).chosen
      /\ \A u \in Users : row.vote[u] = IF u = r.user THEN Nothing ELSE Mine(w).vote[u]
      BY <1>2 DEF Instance
<1> HIDE DEF row
<1>4. RowOK(row) /\ Kept(Mine(w), row)
      BY <1>2, <1>3 DEF RowOK, Whole, Offered, Kept
<1>5. CASE Save(w, row) /\ Become(w, Idle)
      BY <1>2, <1>3, <1>4, <1>5, IdleOK, SaveKeeps
<1>6. CASE Done(w)
      BY <1>1, <1>6, NotDriving, IdleOK, ThinkKeeps DEF Done
<1> QED BY <1>5, <1>6 DEF DeleteVote, row

LEMMA ConfirmKeeps ==
    ASSUME PageAssumption, IInv, NEW w \in Workers, Confirm(w)
    PROVE  IInv'
<1> DEFINE r == worker[w]
           row == [Mine(w) EXCEPT !.chosen = r.pick]
<1>1. r.at = "save" /\ r.goal = "confirm"
      BY DEF Confirm, At
<1>2. /\ RowOK(Mine(w)) /\ Mine(w) \in Instance /\ r.pick \in Mine(w).candidates
      /\ r.at \in Sited \ {"read", "write"}
      BY <1>1, AtScene DEF RequestOK
<1>3. /\ row \in Instance /\ row.status = Mine(w).status /\ row.key = Mine(w).key
      /\ row.candidates = Mine(w).candidates /\ row.part = Mine(w).part
      /\ row.chosen = r.pick /\ row.vote = Mine(w).vote
      BY <1>2 DEF Instance
<1> HIDE DEF row
<1>4. RowOK(row) /\ Kept(Mine(w), row)
      BY <1>2, <1>3 DEF RowOK, Whole, Offered, Kept
<1>5. CASE Save(w, row) /\ Become(w, Idle)
      BY <1>2, <1>3, <1>4, <1>5, IdleOK, SaveKeeps
<1>6. CASE Done(w)
      BY <1>1, <1>6, NotDriving, IdleOK, ThinkKeeps DEF Done
<1> QED BY <1>5, <1>6 DEF Confirm, row

LEMMA ParticipateKeeps ==
    ASSUME IInv, NEW i \in DOMAIN scene, NEW u \in Users,
           NEW answer \in {"ACCEPTED", "DECLINED", "LEFT"}, Participate(u, i, answer)
    PROVE  IInv'
<1> DEFINE row == [scene[i] EXCEPT !.part[u] = answer]
<1>1. RowOK(scene[i]) /\ scene[i] \in Instance
      BY DEF IInv, ScenesOK, RowOK
<1>2. /\ row \in Instance /\ row.status = scene[i].status /\ row.key = scene[i].key
      /\ row.candidates = scene[i].candidates
      /\ row.chosen = scene[i].chosen /\ row.vote = scene[i].vote
      /\ \A v \in Users : row.part[v] = IF v = u THEN answer ELSE scene[i].part[v]
      BY <1>1 DEF Instance, Participation
<1>3. Update(i, row) /\ UNCHANGED <<worker, crashes>> /\ answer # Nothing
      BY DEF Participate, Nothing
<1>4. scene[i].key[2] \in Users
      BY <1>1 DEF Instance, IdempotencyKeys
<1> HIDE DEF row
<1>5. RowOK(row) /\ Kept(scene[i], row)
      BY <1>1, <1>2, <1>3, <1>4 DEF RowOK, Whole, Offered, Kept
<1> QED BY <1>2, <1>3, <1>5, UpdateKeeps

LEMMA ProcessKeeps ==
    ASSUME PageAssumption, IInv, NEW i \in DOMAIN scene, Process(i)
    PROVE  IInv'
<1>1. RowOK(scene[i]) /\ scene[i] \in Instance
      BY DEF IInv, ScenesOK, RowOK
<1>2. PICK best \in {PluginKey, Unselected, Nothing} : Update(i, Generated(scene[i], best))
      BY DEF Process
<1>3. UNCHANGED <<worker, crashes>>
      BY DEF Process
<1>4. CASE scene[i].chosen # Nothing
  <2> DEFINE row == [scene[i] EXCEPT !.status = "GENERATING_CANDIDATES"]
  <2>1. /\ row \in Instance /\ row.status = "GENERATING_CANDIDATES"
        /\ row.key = scene[i].key /\ row.candidates = scene[i].candidates
        /\ row.part = scene[i].part /\ row.chosen = scene[i].chosen
        /\ row.vote = scene[i].vote
        BY <1>1, TargetsFacts DEF Instance
  <2>2. Update(i, row)
        BY <1>2, <1>4 DEF Generated
  <2> HIDE DEF row
  <2>3. RowOK(row) /\ Kept(scene[i], row)
        BY <1>1, <2>1 DEF RowOK, Whole, Offered, Kept
  <2> QED BY <1>3, <2>1, <2>2, <2>3, UpdateKeeps
<1>5. CASE scene[i].chosen = Nothing
  <2> DEFINE more == scene[i].candidates \cup (IF best = Nothing THEN {} ELSE {PluginKey})
             result == IF best = Nothing THEN Unselected ELSE best
             purged == [u \in Users |-> IF scene[i].submission[u] = "live" THEN "deleted"
                                        ELSE scene[i].submission[u]]
             row == [scene[i] EXCEPT !.status = "VOTING", !.candidates = more,
                                     !.chosen = result, !.submission = purged]
  <2>1. /\ more \subseteq Offers /\ scene[i].candidates \subseteq more
        /\ DemoKeys \cap more = DemoKeys \cap scene[i].candidates
        BY <1>1 DEF Instance, Offers, PageAssumption
  <2>2. result \in {Unselected, PluginKey} /\ result \in more \cup {Unselected}
        BY <1>2
  <2>3. purged \in [Users -> {Nothing, "live", "deleted"}]
        BY <1>1 DEF Instance
  <2>4. Update(i, row)
        BY <1>2, <1>5 DEF Generated
  <2> HIDE DEF more, result, purged
  <2>5. /\ row \in Instance /\ row.status = "VOTING" /\ row.key = scene[i].key
        /\ row.candidates = more /\ row.part = scene[i].part /\ row.chosen = result
        /\ row.vote = scene[i].vote
        BY <1>1, <2>1, <2>2, <2>3, TargetsFacts DEF Instance, Offers
  <2> HIDE DEF row
  <2>6. result \in more \cup {Nothing, Unselected}
        BY <2>2
  <2>7. Offered(row)
        BY <1>1, <2>1, <2>5, <2>6 DEF RowOK, Offered
  <2>8. Whole(row)
        BY <1>1, <2>1, <2>5 DEF RowOK, Whole
  <2>9. RowOK(row) /\ Kept(scene[i], row)
        BY <1>1, <2>1, <2>5, <2>7, <2>8 DEF RowOK, Kept
  <2> QED BY <1>3, <2>4, <2>5, <2>9, UpdateKeeps
<1> QED BY <1>4, <1>5

(* After a crash nobody need open what is published. *)
LEMMA CrashKeeps ==
    ASSUME PageAssumption, IInv, NEW w \in Workers, Crash(w)
    PROVE  IInv'
<1>1. worker' = [worker EXCEPT ![w] = Idle] /\ scene' = scene
      /\ crashes' = crashes + 1 /\ crashes < MaxCrashes
      BY DEF Crash
<1>2. RequestsOK'
      BY <1>1, IdleOK, GrowsReflexive, RequestsKept DEF IInv
<1>3. crashes' \in 0 .. MaxCrashes /\ crashes' # 0
      BY <1>1 DEF IInv, PageAssumption
<1>4. Driven'
      BY <1>3 DEF Driven
<1> QED BY <1>1, <1>2, <1>3, <1>4 DEF IInv

LEMMA InitOK == ASSUME PageAssumption, Init PROVE IInv
<1>1. scene = <<>> /\ crashes = 0 /\ worker = [w \in Workers |-> Idle]
      BY DEF Init
<1>2. scene \in Seq(Instance) /\ DOMAIN scene = {}
      BY <1>1
<1>3. \A w \in Workers : RequestOK(worker[w], scene)
      BY <1>1, IdleOK
<1>4. worker \in [Workers -> Request]
      BY <1>1, IdleOK DEF RequestOK
<1>5. crashes \in 0 .. MaxCrashes
      BY <1>1 DEF PageAssumption
<1> QED BY <1>2, <1>3, <1>4, <1>5 DEF IInv, ScenesOK, RequestsOK, Driven

LEMMA StepOK == ASSUME PageAssumption, IInv, [Next]_vars PROVE IInv'
<1>1. CASE UNCHANGED vars
  <2>1. scene' = scene /\ worker' = worker /\ crashes' = crashes
        BY <1>1 DEF vars
  <2>2. RequestsOK'
        BY <2>1 DEF IInv, RequestsOK
  <2>3. Driven'
        BY <2>1 DEF IInv, Driven, Doing
  <2> QED BY <2>1, <2>2, <2>3 DEF IInv
<1>2. ASSUME NEW w \in Workers, WorkerStep(w)
      PROVE  IInv'
      BY <1>2, CheckKeyKeeps, InsertSceneKeeps, ReadTransitionKeeps, WriteTransitionKeeps,
         SubmitKeeps, CandidatesKeeps, FillKeeps, SaveVoteKeeps, DeleteVoteKeeps, ConfirmKeeps
      DEF WorkerStep
<1>3. ASSUME NEW w \in Workers, Crash(w)
      PROVE  IInv'
      BY <1>3, CrashKeeps
<1>4. ASSUME NEW w \in Workers, NEW u \in Users,
             (\E goal \in Goals \ {"create", "hub"} : Open(w, u, goal)) \/ CreateScene(w, u)
      PROVE  IInv'
      BY <1>4, OpenKeeps, CreateSceneKeeps
<1>5. ASSUME NEW w \in Workers, NEW i \in DOMAIN scene, NEW action \in HubActions,
             Transition(w, i, action)
      PROVE  IInv'
      BY <1>5, TransitionKeeps
<1>6. ASSUME NEW i \in DOMAIN scene, NEW u \in Users,
             DeletePreference(u, i) \/
                \E answer \in {"ACCEPTED", "DECLINED", "LEFT"} : Participate(u, i, answer)
      PROVE  IInv'
      BY <1>6, DeletePreferenceKeeps, ParticipateKeeps
<1>7. ASSUME NEW i \in DOMAIN scene, Process(i)
      PROVE  IInv'
      BY <1>7, ProcessKeeps
<1> QED BY <1>1, <1>2, <1>3, <1>4, <1>5, <1>6, <1>7 DEF Next

-----------------------------------------------------------------------------
LEMMA IInvIsInvariant == ASSUME PageAssumption PROVE Spec => []IInv
BY InitOK, StepOK, PTL DEF Spec

(* Rows and requests keep their columns and fields. *)
THEOREM ScenesTypeCorrect == ASSUME PageAssumption PROVE Spec => []TypeOK
<1>1. IInv => TypeOK
      BY DEF IInv, ScenesOK, RequestsOK, TypeOK
<1> QED BY <1>1, IInvIsInvariant, PTL

(* Unless a request has died, whenever nothing is under way every scene    *)
(* that was published is open and the page has left none a draft: an idle  *)
(* request drives nothing.                                                 *)
THEOREM PublishedOnesOpen == ASSUME PageAssumption PROVE Spec => []PublishedIsOpened
<1>1. IInv => PublishedIsOpened
  <2>1. \A w : worker[w] = Idle => \A i, a, s : ~ Doing(w, i, a, s)
        BY DEF Doing, Idle
  <2> QED BY <2>1 DEF IInv, Driven, PublishedIsOpened
<1> QED BY <1>1, IInvIsInvariant, PTL

(* The candidates of the page come all at once, and votes and the result   *)
(* name candidates of their scene, whatever the generation and other       *)
(* requests do between the lookup of a candidate and the saved choice.     *)
THEOREM ChoicesAreSound == ASSUME PageAssumption PROVE Spec => []ChoicesSound
<1>1. IInv => ChoicesSound
      BY DEF IInv, ScenesOK, RowOK, Whole, Offered, ChoicesSound
<1> QED BY <1>1, IInvIsInvariant, PTL

-----------------------------------------------------------------------------
(***************************************************************************)
(* One scene for each key                                                  *)
(*                                                                         *)
(* Between the look at a key and the insertion there is a moment: it is    *)
(* harmless because, with one request at a time, the scene that is looked  *)
(* for cannot come into being meanwhile.                                   *)
(***************************************************************************)
Working(w) == worker[w].at # "idle"

KeysInTurn ==
    part = "retry" =>
        /\ \A v, w \in Workers : Working(v) /\ Working(w) => v = w
        /\ \A w \in Workers : At(w, "insert") =>
              Created(<<worker[w].kind, worker[w].user>>) = {}
        /\ OneScenePerKey

SameKeys ==
    DOMAIN scene' = DOMAIN scene /\ \A i \in DOMAIN scene : scene'[i].key = scene[i].key

(* A step that inserts nothing and does not turn to it. *)
Plain(w) ==
    /\ SameKeys /\ \A v \in Workers : v # w => worker'[v] = worker[v]
    /\ worker'[w].at # "insert"

LEMMA SameScenes == ASSUME UNCHANGED scene PROVE SameKeys
BY DEF SameKeys

LEMMA UpdateSameKeys ==
    ASSUME IInv, NEW i \in DOMAIN scene, NEW row, Update(i, row), row.key = scene[i].key
    PROVE  SameKeys
<1>1. DOMAIN scene' = DOMAIN scene /\ scene' = [scene EXCEPT ![i] = row]
      BY DEF Update, IInv, ScenesOK
<1> QED BY <1>1 DEF SameKeys

LEMMA BecomeOne ==
    ASSUME IInv, NEW w \in Workers, NEW request, Become(w, request)
    PROVE  worker'[w] = request /\ \A v \in Workers : v # w => worker'[v] = worker[v]
BY DEF Become, IInv, RequestsOK

LEMMA PlainThink ==
    ASSUME IInv, NEW w \in Workers, NEW request, Think(w, request), request.at # "insert"
    PROVE  Plain(w)
BY BecomeOne, SameScenes DEF Think, Plain

LEMMA PlainSave ==
    ASSUME IInv, NEW w \in Workers, worker[w].scene \in DOMAIN scene, NEW row, Save(w, row),
           row.key = Mine(w).key, NEW request, Become(w, request), request.at # "insert"
    PROVE  Plain(w)
<1>1. Update(worker[w].scene, row) /\ row.key = scene[worker[w].scene].key
      BY DEF Save, Mine
<1>2. SameKeys
      BY <1>1, UpdateSameKeys
<1> QED BY <1>2, BecomeOne DEF Plain

LEMMA IdleAt == Idle.at = "idle"
BY DEF Idle

LEMMA ContinueAt ==
    ASSUME NEW r \in Request PROVE Continue(r).at \in {"idle", "submit", "candidates"}
BY IdleAt DEF Continue, Request

LEMMA AfterTransitionAt ==
    ASSUME NEW r \in Request PROVE AfterTransition(r).at # "insert"
BY ContinueAt DEF AfterTransition, Request

LEMMA PickAt ==
    ASSUME NEW r \in Request, NEW k, NEW offered, NEW row
    PROVE  Pick(r, k, offered, row).at \in {"idle", "save"}
BY IdleAt DEF Pick, Request

LEMMA DonePlain == ASSUME IInv, NEW w \in Workers, Done(w) PROVE Plain(w)
BY PlainThink, IdleAt DEF Done

(* Every step of a request but the look at a key and the insertion. *)
LEMMA StepPlain ==
    ASSUME IInv, NEW w \in Workers,
           \/ ReadTransition(w) \/ WriteTransition(w) \/ Submit(w)
           \/ (\E k \in Offers : ListCandidates(w, k)) \/ (\E k \in DemoKeys : Fill(w, k))
           \/ SaveVote(w) \/ DeleteVote(w) \/ Confirm(w)
    PROVE  Plain(w) /\ Working(w)
<1> DEFINE r == worker[w]
<1>1. r.at \in Sited /\ Working(w)
      BY DEF ReadTransition, WriteTransition, Submit, ListCandidates, Fill, SaveVote, DeleteVote,
             Confirm, At, Sited, Working
<1>2. r \in Request /\ r.scene \in DOMAIN scene
      BY <1>1 DEF IInv, RequestsOK, RequestOK
<1>3. Mine(w) \in Instance
      BY <1>2 DEF IInv, ScenesOK, RowOK, Mine
<1>4. CASE ReadTransition(w)
  <2>2. \A s : [r EXCEPT !.at = "write", !.seen = s].at = "write"
        BY <1>2 DEF Request
  <2>3. PICK s : Done(w) \/ Think(w, [r EXCEPT !.at = "write", !.seen = s])
        BY <1>4 DEF ReadTransition
  <2> QED BY <1>1, <2>2, <2>3, DonePlain, PlainThink
<1>5. CASE WriteTransition(w)
  <2>1. PICK s \in Targets(r.seen, r.action) :
           Save(w, [Mine(w) EXCEPT !.status = s])
           /\ Become(w, AfterTransition([r EXCEPT !.seen = s]))
        BY <1>5 DEF WriteTransition
  <2>2. s \in SceneState
        BY <2>1, TargetsFacts
  <2>3. [r EXCEPT !.seen = s] \in Request
        BY <1>2, <2>2 DEF Request
  <2>4. AfterTransition([r EXCEPT !.seen = s]).at # "insert"
        BY <2>3, AfterTransitionAt
  <2>5. [Mine(w) EXCEPT !.status = s].key = Mine(w).key
        BY <1>3 DEF Instance
  <2> QED BY <1>1, <1>2, <2>1, <2>4, <2>5, PlainSave
<1>6. CASE Submit(w)
  <2>1. [Mine(w) EXCEPT !.submission[r.user] = "live"].key = Mine(w).key
        BY <1>3 DEF Instance
  <2> QED BY <1>1, <1>2, <1>6, <2>1, DonePlain, PlainSave, IdleAt DEF Submit
<1>7. ASSUME NEW k, ListCandidates(w, k) PROVE Plain(w)
  <2>1. [r EXCEPT !.at = "fill"].at = "fill"
        BY <1>2 DEF Request
  <2>2. Pick(r, k, Mine(w).candidates, Mine(w)).at # "insert"
        BY <1>2, PickAt
  <2> QED BY <1>7, <2>1, <2>2, PlainThink DEF ListCandidates
<1>8. ASSUME NEW k, Fill(w, k) PROVE Plain(w)
  <2>1. [Mine(w) EXCEPT !.candidates = Mine(w).candidates \cup DemoKeys].key = Mine(w).key
        BY <1>3 DEF Instance
  <2>2. Pick(r, k, DemoKeys, Mine(w)).at # "insert"
        BY <1>2, PickAt
  <2> QED BY <1>2, <1>8, <2>1, <2>2, DonePlain, PlainSave DEF Fill
<1>9. CASE SaveVote(w)
  <2>1. [Mine(w) EXCEPT !.vote[r.user] = r.pick].key = Mine(w).key
        BY <1>3 DEF Instance
  <2> QED BY <1>1, <1>2, <1>9, <2>1, DonePlain, PlainSave, IdleAt DEF SaveVote
<1>10. CASE DeleteVote(w)
  <2>1. [Mine(w) EXCEPT !.vote[r.user] = Nothing].key = Mine(w).key
        BY <1>3 DEF Instance
  <2> QED BY <1>1, <1>2, <1>10, <2>1, DonePlain, PlainSave, IdleAt DEF DeleteVote
<1>11. CASE Confirm(w)
  <2>1. [Mine(w) EXCEPT !.chosen = r.pick].key = Mine(w).key
        BY <1>3 DEF Instance
  <2> QED BY <1>1, <1>2, <1>11, <2>1, DonePlain, PlainSave, IdleAt DEF Confirm
<1> QED BY <1>1, <1>4, <1>5, <1>6, <1>7, <1>8, <1>9, <1>10, <1>11

(* While the keys stay, no two scenes come to share one. *)
LEMMA SameKeysSaySame == ASSUME SameKeys, OneScenePerKey PROVE OneScenePerKey'
BY DEF SameKeys, OneScenePerKey

(* Only one request at a time works after a step of that part. *)
LEMMA OneWorks ==
    ASSUME RetryPart, NEW v \in Workers, NEW w \in Workers,
           worker'[v].at # "idle", worker'[w].at # "idle"
    PROVE  v = w
BY DEF RetryPart, Busy

LEMMA KeysKept ==
    ASSUME IInv, KeysInTurn, part = "retry", UNCHANGED part, Next, RetryPart
    PROVE  KeysInTurn'
<1>1. /\ \A v, w \in Workers : Working(v) /\ Working(w) => v = w
      /\ \A w \in Workers : At(w, "insert") =>
            Created(<<worker[w].kind, worker[w].user>>) = {}
      /\ OneScenePerKey
      BY DEF KeysInTurn
<1>2. \A v, w \in Workers : (Working(v) /\ Working(w) => v = w)'
      BY OneWorks DEF Working
<1>3. ASSUME SameKeys,
             \A v \in Workers : worker'[v].at = "insert" => worker'[v] = worker[v]
      PROVE  KeysInTurn'
  <2>1. ASSUME NEW v \in Workers, At(v, "insert")'
        PROVE  Created(<<worker[v].kind, worker[v].user>>)' = {}
    <3>1. worker'[v] = worker[v] /\ At(v, "insert")
          BY <1>3, <2>1 DEF At
    <3>2. Created(<<worker[v].kind, worker[v].user>>) = {}
          BY <1>1, <3>1
    <3> QED BY <1>3, <3>1, <3>2 DEF SameKeys, Created
  <2>2. OneScenePerKey'
        BY <1>1, <1>3, SameKeysSaySame
  <2> QED BY <1>2, <2>1, <2>2 DEF KeysInTurn
<1>4. ASSUME NEW w \in Workers, Plain(w) PROVE KeysInTurn'
      BY <1>3, <1>4 DEF Plain
<1>5. ASSUME NEW w \in Workers, CheckKey(w) PROVE KeysInTurn'
  <2> DEFINE r == worker[w]
             key == <<r.kind, r.user>>
  <2>1. r \in Request
        BY DEF IInv, RequestsOK
  <2>2. CASE Created(key) = {} /\ Think(w, [r EXCEPT !.at = "insert"])
    <3> DEFINE new == [r EXCEPT !.at = "insert"]
    <3>1. new.at = "insert" /\ new.kind = r.kind /\ new.user = r.user
          BY <2>1 DEF Request
    <3>2. worker'[w] = new /\ scene' = scene
          BY <2>2, BecomeOne DEF Think
    <3>3. SameKeys
          BY <3>2, SameScenes
    <3> HIDE DEF new
    <3>4. ASSUME NEW v \in Workers, At(v, "insert")'
          PROVE  Created(<<worker[v].kind, worker[v].user>>)' = {}
      <4>1. v = w
            BY <3>1, <3>2, <3>4, OneWorks DEF At
      <4>2. worker'[v].kind = r.kind /\ worker'[v].user = r.user
            BY <3>1, <3>2, <4>1
      <4> QED BY <2>2, <3>3, <4>2 DEF SameKeys, Created
    <3> QED BY <1>1, <1>2, <3>3, <3>4, SameKeysSaySame DEF KeysInTurn
  <2>3. ASSUME NEW i, \/ Done(w)
                      \/ Think(w, [r EXCEPT !.at = "read", !.scene = i, !.seen = scene[i].status])
        PROVE  KeysInTurn'
    <3>1. [r EXCEPT !.at = "read", !.scene = i, !.seen = scene[i].status].at = "read"
          BY <2>1 DEF Request
    <3> QED BY <1>4, <2>3, <3>1, DonePlain, PlainThink
  <2> QED BY <1>5, <2>2, <2>3 DEF CheckKey
<1>6. ASSUME NEW w \in Workers, NEW invited, InsertScene(w, invited) PROVE KeysInTurn'
  <2> DEFINE r == worker[w]
             key == <<r.kind, r.user>>
  <2>1. r \in Request /\ At(w, "insert") /\ Created(key) = {}
        BY <1>1, <1>6 DEF IInv, RequestsOK, InsertScene
  <2>2. PICK new : scene' = Append(scene, new) /\ new.key = key
        BY <1>6 DEF InsertScene
  <2>3. scene \in Seq(Instance)
        BY DEF IInv, ScenesOK
  <2>4. /\ DOMAIN scene' = 1..(Len(scene) + 1) /\ DOMAIN scene = 1..Len(scene)
        /\ scene'[Len(scene) + 1] = new /\ Len(scene) \in Nat
        /\ \A i \in 1..Len(scene) : scene'[i] = scene[i]
        BY <2>2, <2>3
  <2>5. OneScenePerKey'
    <3>1. \A i \in 1..Len(scene) : scene'[i].key # key
          BY <2>1, <2>4 DEF Created
    <3>2. ASSUME NEW i \in DOMAIN scene', NEW j \in DOMAIN scene',
                 scene'[i].key = scene'[j].key
          PROVE  i = j
      <4> HIDE DEF key
      <4>1. CASE i \in DOMAIN scene /\ j \in DOMAIN scene
            BY <1>1, <2>4, <3>2, <4>1 DEF OneScenePerKey
      <4>2. CASE i = Len(scene) + 1
            BY <2>2, <2>4, <3>1, <3>2, <4>2
      <4>3. CASE j = Len(scene) + 1
            BY <2>2, <2>4, <3>1, <3>2, <4>3
      <4> QED BY <2>4, <4>1, <4>2, <4>3
    <3> QED BY <3>2 DEF OneScenePerKey
  <2>6. worker'[w].at # "insert"
    <3>1. Become(w, IF r.goal = "create" THEN Idle
                    ELSE [r EXCEPT !.at = "read", !.scene = Len(scene) + 1, !.seen = "DRAFT"])
          BY <1>6 DEF InsertScene
    <3>2. [r EXCEPT !.at = "read", !.scene = Len(scene) + 1, !.seen = "DRAFT"].at = "read"
          BY <2>1 DEF Request
    <3>3. worker'[w] = IF r.goal = "create" THEN Idle
                  ELSE [r EXCEPT !.at = "read", !.scene = Len(scene) + 1, !.seen = "DRAFT"]
          BY <3>1, BecomeOne
    <3> QED BY <3>2, <3>3, IdleAt
  <2>7. \A v \in Workers : ~ At(v, "insert")'
    <3> SUFFICES ASSUME NEW v \in Workers, v # w PROVE ~ At(v, "insert")'
        BY <2>6 DEF At
    <3>1. worker'[v] = worker[v]
      <4>1. PICK request : Become(w, request)
            BY <1>6 DEF InsertScene
      <4> QED BY <4>1, BecomeOne
    <3>2. ~ Working(v)
          BY <1>1, <2>1 DEF Working, At
    <3> QED BY <3>1, <3>2 DEF At, Working
  <2> QED BY <1>2, <2>5, <2>7 DEF KeysInTurn
<1>7. ASSUME NEW w \in Workers, Crash(w) PROVE KeysInTurn'
  <2>1. worker' = [worker EXCEPT ![w] = Idle] /\ UNCHANGED scene
        BY <1>7 DEF Crash
  <2>2. \A v \in Workers : worker'[v].at = "insert" => worker'[v] = worker[v]
        BY <2>1, IdleAt DEF IInv, RequestsOK
  <2> QED BY <1>3, <2>1, <2>2, SameScenes
<1>8. ASSUME NEW w \in Workers, NEW u \in Users, NEW goal \in Goals, Open(w, u, goal)
      PROVE  KeysInTurn'
  <2> DEFINE request == [Idle EXCEPT !.user = u, !.goal = goal]
  <2>1. Idle \in Request
        BY PageParameters, IdleOK DEF RequestOK
  <2>2. request \in Request /\ [request EXCEPT !.at = "check"].at = "check"
        BY <2>1 DEF Request
  <2>3. \A i \in DOMAIN scene : i \in Nat /\ scene[i].status \in SceneState
        BY DEF IInv, ScenesOK, RowOK, Instance
  <2>4. ASSUME NEW i \in Latest(u)
        PROVE  Continue([request EXCEPT !.scene = i, !.seen = scene[i].status]).at # "insert"
    <3>1. i \in Nat /\ scene[i].status \in SceneState
          BY <2>3 DEF Latest, Dinners
    <3>2. [request EXCEPT !.scene = i, !.seen = scene[i].status] \in Request
          BY <2>2, <3>1 DEF Request
    <3> QED BY <3>2, ContinueAt
  <2> HIDE DEF request
  <2>5. \/ Think(w, [request EXCEPT !.at = "check"])
        \/ \E i \in Latest(u) :
              Think(w, Continue([request EXCEPT !.scene = i, !.seen = scene[i].status]))
        BY <1>8 DEF Open, request
  <2> QED BY <1>4, <2>2, <2>4, <2>5, PlainThink
<1>9. ASSUME NEW w \in Workers, NEW u \in Users, CreateScene(w, u) PROVE KeysInTurn'
  <2>1. Idle \in Request
        BY PageParameters, IdleOK DEF RequestOK
  <2>2. [Idle EXCEPT !.at = "check", !.user = u, !.goal = "create", !.kind = "client"].at
           = "check"
        BY <2>1 DEF Request
  <2> QED BY <1>4, <1>9, <2>2, PlainThink DEF CreateScene
<1>10. ASSUME NEW w \in Workers, NEW i \in DOMAIN scene, NEW action, Transition(w, i, action)
       PROVE  KeysInTurn'
  <2>1. Idle \in Request
        BY PageParameters, IdleOK DEF RequestOK
  <2>2. [Idle EXCEPT !.at = "read", !.user = scene[i].creator, !.goal = "hub",
                     !.scene = i, !.action = action, !.seen = scene[i].status].at = "read"
        BY <2>1 DEF Request
  <2> QED BY <1>4, <1>10, <2>2, PlainThink DEF Transition
<1>11. ASSUME UNCHANGED worker, NEW i \in DOMAIN scene, NEW row, Update(i, row),
              row.key = scene[i].key
       PROVE  KeysInTurn'
      BY <1>3, <1>11, UpdateSameKeys
<1>12. ASSUME NEW i \in DOMAIN scene PROVE scene[i] \in Instance
      BY <1>12 DEF IInv, ScenesOK, RowOK
<1>13. ASSUME NEW i \in DOMAIN scene, NEW u \in Users, DeletePreference(u, i) PROVE KeysInTurn'
  <2>1. [scene[i] EXCEPT !.submission[u] = "deleted"].key = scene[i].key
        BY <1>12 DEF Instance
  <2> QED BY <1>11, <1>13, <2>1 DEF DeletePreference
<1>14. ASSUME NEW i \in DOMAIN scene, NEW u \in Users, NEW answer, Participate(u, i, answer)
       PROVE  KeysInTurn'
  <2>1. [scene[i] EXCEPT !.part[u] = answer].key = scene[i].key
        BY <1>12 DEF Instance
  <2> QED BY <1>11, <1>14, <2>1 DEF Participate
<1>15. ASSUME NEW i \in DOMAIN scene, Process(i) PROVE KeysInTurn'
  <2>1. ASSUME NEW best PROVE Generated(scene[i], best).key = scene[i].key
        BY <1>12 DEF Generated, Instance
  <2> QED BY <1>11, <1>15, <2>1 DEF Process
<1> QED BY <1>4, <1>5, <1>6, <1>7, <1>8, <1>9, <1>10, <1>13, <1>14, <1>15, StepPlain
        DEF Next, WorkerStep

(* With one request at a time, a request that is sent again creates no     *)
(* second scene: after its answer, after a crash between the insertion and *)
(* the answer, and whatever other pages and the hub have done in between   *)
(* (create_scene_instance).                                                *)
THEOREM OneSceneForEachKey == WebSpec => []OneScenePerKeyInTurn
<1>1. WebInit => IInv /\ KeysInTurn
  <2>1. WebInit => Init
        BY DEF WebInit
  <2>2. Init => KeysInTurn
        BY DEF Init, KeysInTurn, Working, At, OneScenePerKey, Created, Idle
  <2> QED BY <2>1, <2>2, InitOK, PageParameters
<1>2. IInv /\ KeysInTurn /\ [WebNext]_webVars => IInv' /\ KeysInTurn'
  <2> SUFFICES ASSUME IInv, KeysInTurn, [WebNext]_webVars PROVE IInv' /\ KeysInTurn'
      OBVIOUS
  <2>1. CASE SceneStep
    <3>1. IInv'
          BY <2>1, StepOK, PageParameters DEF SceneStep
    <3>2. Next /\ (part = "retry" => RetryPart)
          BY <2>1 DEF SceneStep
    <3>3. UNCHANGED <<part, cvars, lvars, dvars>>
          BY <2>1 DEF SceneStep
    <3>4. UNCHANGED part
          BY <3>3
    <3>5. CASE part = "retry"
          BY <3>1, <3>2, <3>4, <3>5, KeysKept
    <3>6. CASE part # "retry"
          BY <3>1, <3>4, <3>6 DEF KeysInTurn
    <3> QED BY <3>5, <3>6
  <2>2. CASE UNCHANGED <<part, pvars>>
    <3>1. UNCHANGED vars /\ UNCHANGED part /\ UNCHANGED scene /\ UNCHANGED worker
          BY <2>2 DEF pvars, vars
    <3>2. IInv'
          BY <3>1, StepOK, PageParameters
    <3>3. OneScenePerKey' = OneScenePerKey
          BY <3>1 DEF OneScenePerKey
    <3>4. \A key : Created(key)' = Created(key)
          BY <3>1 DEF Created
    <3>5. \A w \in Workers : /\ Working(w)' = Working(w)
                             /\ At(w, "insert")' = At(w, "insert")
          BY <3>1 DEF Working, At
    <3>6. KeysInTurn'
          BY <3>1, <3>3, <3>4, <3>5 DEF KeysInTurn
    <3> QED BY <3>2, <3>6
  <2>3. ClientStep(C!Next) \/ ChatStep \/ DirectoryStep \/ UNCHANGED webVars
           => UNCHANGED <<part, pvars>>
        BY DEF ClientStep, ChatStep, DirectoryStep, webVars
  <2> QED BY <2>1, <2>2, <2>3 DEF WebNext
<1>3. KeysInTurn => OneScenePerKeyInTurn
      BY DEF KeysInTurn, OneScenePerKeyInTurn
<1> QED BY <1>1, <1>2, <1>3, PTL DEF WebSpec

(***************************************************************************)
(* The WebSocket client.  What drives it on is a matter of its state alone *)
(* (Steered).  That the server follows the page is kept by the commands    *)
(* under way: for every conversation, the last word to the server, which   *)
(* is the last command about it or, without one, the server's own state,   *)
(* says whether its page is open (Followed).  The numbers it reads are in  *)
(* no relation to that (Counted).                                          *)
(***************************************************************************)
Commands == {C!Command(k, p) : k \in {"subscribe", "unsubscribe"}, p \in Pages}
            \cup {C!Command("ping", C!Nobody)}
Connected == ws = "open" /\ alive

Steered ==
    /\ state \in {"IDLE", "CONNECTING", "OPEN", "RECONNECTING", "PAUSED", "CLOSED", "FORBIDDEN"}
    /\ ws \in {"none", "connecting", "open", "closing"}
    /\ ws = "connecting" <=> state = "CONNECTING"
    /\ ws \in {"open", "closing"} <=> state = "OPEN"
    /\ timers = IF state = "RECONNECTING" THEN 1 ELSE 0
    /\ failCount \in 0..MaxFailures /\ (state # "PAUSED" => failCount < MaxFailures)
    /\ missedPongs \in 0..(MaxMissed + 1) /\ clicks \in 0..MaxClicks
    /\ alive \in BOOLEAN /\ valid_url \in BOOLEAN

(* The last word about p among the commands under way, with the server's   *)
(* state as word number 0.                                                 *)
Says(i, p) == IF i = 0 THEN p \in subscribed ELSE commands[i].event = "subscribe"
LastWord(i, p) ==
    /\ i = 0 \/ commands[i].page = p
    /\ \A j \in 1..Len(commands) : j > i => commands[j].page # p
WordsFollow ==
    \A p \in Pages, i \in 0..Len(commands) : LastWord(i, p) => (Says(i, p) <=> p = open_page)

Followed ==
    /\ open_page \in Pages \cup {C!Nobody} /\ subscriptions = {open_page} \ {C!Nobody}
    /\ commands \in Seq(Commands) /\ subscribed \subseteq Pages
    /\ Connected => WordsFollow

Counted ==
    sent \in Nat /\ lastSequence \in Nat /\ behind \in BOOLEAN

ClientInv == Steered /\ Followed /\ Counted

LEMMA Limits ==
    /\ MaxFailures \in Nat \ {0} /\ MaxMissed \in Nat /\ MaxClicks \in Nat
    /\ C!Nobody \notin Pages
BY ClientParameters DEF C!ClientAssumption

LEMMA CommandFacts ==
    ASSUME NEW c \in Commands
    PROVE  \/ /\ c.event \in {"subscribe", "unsubscribe"} /\ c.page \in Pages
              /\ c = C!Command(c.event, c.page)
           \/ c.event = "ping" /\ c.page = C!Nobody
BY DEF Commands, C!Command

LEMMA CommandsSent ==
    /\ \A p \in Pages : \A k \in {"subscribe", "unsubscribe"} :
          /\ C!Command(k, p) \in Commands
          /\ C!Command(k, p).event = k /\ C!Command(k, p).page = p
    /\ C!Command("ping", C!Nobody) \in Commands
    /\ C!Command("ping", C!Nobody).page = C!Nobody
<1>1. \A p \in Pages : \A k \in {"subscribe", "unsubscribe"} : C!Command(k, p) \in Commands
      BY DEF Commands
<1>2. \A k, p : C!Command(k, p).event = k /\ C!Command(k, p).page = p
      BY DEF C!Command
<1> QED BY <1>1, <1>2 DEF Commands

(* An attempt to connect, of a client that is not connected, or of one     *)
(* that is, which leaves things alone.                                     *)
LEMMA ConnectSteers ==
    ASSUME Steered, NEW fails \in 0..MaxFailures, fails < MaxFailures, C!Connect(0, fails),
           clicks' \in 0..MaxClicks, UNCHANGED <<alive, valid_url>>
    PROVE  Steered' /\ (Connected' => Connected)
<1>1. CASE C!Busy /\ timers' = 0 /\ failCount' = fails /\ UNCHANGED <<state, ws, missedPongs>>
      BY <1>1, Limits DEF Steered, C!Busy, Connected
<1>2. CASE /\ ~ C!Busy /\ missedPongs' = 0 /\ valid_url
           /\ state' = "CONNECTING" /\ ws' = "connecting" /\ timers' = 0 /\ failCount' = fails
      BY <1>2, Limits DEF Steered, C!Busy, Connected
<1>3. CASE ~ C!Busy /\ missedPongs' = 0 /\ ~ valid_url /\ UNCHANGED ws /\ C!Fail(0, fails)
  <2>1. ws = "none"
        BY <1>3 DEF Steered, C!Busy
  <2> QED BY <1>3, <2>1, Limits DEF Steered, C!Fail, Connected
<1> QED BY <1>1, <1>2, <1>3 DEF C!Connect

(* While the page and what is under way stay, the words do. *)
LEMMA SameWords ==
    ASSUME Followed, UNCHANGED <<open_page, subscriptions, commands, subscribed>>,
           Connected' => Connected
    PROVE  Followed'
BY DEF Followed, WordsFollow, LastWord, Says

LEMMA SameCounts ==
    ASSUME Counted, UNCHANGED <<sent, lastSequence>>,
           behind' = behind \/ behind' \in BOOLEAN
    PROVE  Counted'
BY DEF Counted

(* A connection that is gone has nothing to follow. *)
LEMMA Unconnected ==
    ASSUME Followed, Counted, ~ Connected', commands' = <<>>, subscribed' = {},
           UNCHANGED <<open_page, subscriptions, lastSequence>>,
           sent' \in Nat, behind' = behind \/ behind' \in BOOLEAN
    PROVE  Followed' /\ Counted'
BY DEF Followed, Counted

(* A further command: it is the last word about its page, and the last     *)
(* words about the others are what they were.                              *)
LEMMA WordAdded ==
    ASSUME Followed, Connected, NEW c \in Commands, commands' = Append(commands, c),
           UNCHANGED subscribed,
           \A p \in Pages : IF c.page = p
                            THEN (c.event = "subscribe") <=> (p = open_page')
                            ELSE (p = open_page') <=> (p = open_page)
    PROVE  commands' \in Seq(Commands) /\ WordsFollow'
<1> DEFINE n == Len(commands)
<1>1. /\ commands \in Seq(Commands) /\ n \in Nat
      /\ commands' \in Seq(Commands) /\ Len(commands') = n + 1 /\ commands'[n + 1] = c
      /\ \A i \in 1..n : commands'[i] = commands[i]
      BY DEF Followed
<1>2. ASSUME NEW p \in Pages, NEW i \in 0..Len(commands'), LastWord(i, p)'
      PROVE  Says(i, p)' <=> p = open_page'
  <2> DEFINE new == commands'
  <2>1. i = 0 \/ new[i].page = p
        BY <1>2 DEF LastWord
  <2>2. \A j \in 1..(n + 1) : j > i => new[j].page # p
        BY <1>1, <1>2 DEF LastWord
  <2>3. Says(i, p)' = IF i = 0 THEN p \in subscribed ELSE new[i].event = "subscribe"
        BY DEF Says
  <2> HIDE DEF new
  <2>4. CASE i = n + 1
    <3>1. new[i] = c /\ i # 0
          BY <1>1, <2>4 DEF new
    <3>2. c.page = p
          BY <2>1, <3>1
    <3>3. Says(i, p)' <=> c.event = "subscribe"
          BY <2>3, <3>1
    <3> QED BY <3>2, <3>3
  <2>5. CASE i # n + 1
    <3>1. i \in 0..n /\ c.page # p
          BY <1>1, <1>2, <2>2, <2>5 DEF new
    <3>2. LastWord(i, p)
          BY <1>1, <2>1, <2>2, <3>1 DEF LastWord, new
    <3>3. Says(i, p) <=> p = open_page
          BY <3>1, <3>2 DEF Followed, WordsFollow
    <3>4. Says(i, p)' = Says(i, p)
          BY <1>1, <2>3, <3>1 DEF Says, new
    <3> QED BY <3>1, <3>3, <3>4
  <2> QED BY <2>4, <2>5
<1> QED BY <1>1, <1>2 DEF WordsFollow

(* The server has taken the oldest command at its word. *)
LEMMA WordTaken ==
    ASSUME Followed, Connected, commands # <<>>, commands' = Tail(commands),
           UNCHANGED open_page,
           subscribed' = CASE Head(commands).event = "subscribe"
                                -> subscribed \cup {Head(commands).page}
                           [] Head(commands).event = "unsubscribe"
                                -> subscribed \ {Head(commands).page}
                           [] OTHER -> subscribed
    PROVE  commands' \in Seq(Commands) /\ subscribed' \subseteq Pages /\ WordsFollow'
<1> DEFINE n == Len(commands)
           c == commands[1]
<1>1. /\ commands \in Seq(Commands) /\ n \in Nat \ {0} /\ c \in Commands
      /\ Head(commands) = c /\ subscribed \subseteq Pages
      BY DEF Followed
<1>2. /\ commands' \in Seq(Commands) /\ Len(commands') = n - 1
      /\ \A i \in 1..(n - 1) : commands'[i] = commands[i + 1]
      BY <1>1
<1>3. /\ subscribed' \subseteq Pages
      /\ \A p \in Pages : p \in subscribed' <=>
            IF c.page = p THEN c.event = "subscribe" ELSE p \in subscribed
  <2>1. CASE c.event = "subscribe" /\ c.page \in Pages
        BY <1>1, <2>1
  <2>2. CASE c.event = "unsubscribe" /\ c.page \in Pages
        BY <1>1, <2>2
  <2>3. CASE c.event = "ping" /\ c.page = C!Nobody
        BY <1>1, <2>3, Limits
  <2> QED BY <1>1, <2>1, <2>2, <2>3, CommandFacts
<1>4. ASSUME NEW p \in Pages, NEW i \in 0..Len(commands'), LastWord(i, p)'
      PROVE  Says(i, p)' <=> p = open_page'
  <2> DEFINE new == commands'
             now == subscribed'
  <2>1. i \in 0..(n - 1) /\ (i = 0 \/ new[i].page = p)
        BY <1>2, <1>4 DEF LastWord
  <2>2. \A j \in 1..(n - 1) : j > i => new[j].page # p
        BY <1>2, <1>4 DEF LastWord
  <2>3. Says(i, p)' <=> IF i = 0 THEN p \in now ELSE new[i].event = "subscribe"
        BY DEF Says
  <2>4. /\ \A k \in 1..(n - 1) : new[k] = commands[k + 1]
        /\ p \in now <=> IF c.page = p THEN c.event = "subscribe" ELSE p \in subscribed
        BY <1>2, <1>3
  <2> HIDE DEF new, now
  <2>5. \A j \in 2..n : j > i + 1 => commands[j].page # p
    <3> SUFFICES ASSUME NEW j \in 2..n, j > i + 1 PROVE commands[j].page # p
        OBVIOUS
    <3>1. j - 1 \in 1..(n - 1) /\ j - 1 > i /\ (j - 1) + 1 = j
          BY <1>1, <2>1
    <3> QED BY <2>2, <2>4, <3>1
  <2>6. CASE i = 0 /\ c.page # p
    <3>1. LastWord(0, p)
          BY <1>1, <2>5, <2>6 DEF LastWord
    <3>2. Says(0, p) <=> p \in subscribed
          BY DEF Says
    <3> QED BY <1>1, <2>3, <2>4, <2>6, <3>1, <3>2 DEF Followed, WordsFollow
  <2>7. CASE i # 0 \/ c.page = p
    <3>1. commands[i + 1].page = p /\ i + 1 \in 1..n
          BY <1>1, <2>1, <2>4, <2>7
    <3>2. LastWord(i + 1, p)
          BY <1>1, <2>1, <2>5, <3>1 DEF LastWord
    <3>3. Says(i + 1, p) <=> commands[i + 1].event = "subscribe"
          BY <2>1 DEF Says
    <3>4. Says(i, p)' <=> commands[i + 1].event = "subscribe"
      <4>1. CASE i = 0
            BY <2>3, <2>4, <3>1, <4>1
      <4>2. CASE i # 0
            BY <2>1, <2>3, <2>4, <4>2
      <4> QED BY <4>1, <4>2
    <3>5. i + 1 \in 0..Len(commands)
          BY <3>1
    <3> QED BY <3>2, <3>3, <3>4, <3>5 DEF Followed, WordsFollow
  <2> QED BY <2>6, <2>7
<1> QED BY <1>2, <1>3, <1>4 DEF WordsFollow

(* What a command of the client's own does, if it is sent at all. *)
LEMMA SendFollows ==
    ASSUME Steered, Followed, NEW c \in Commands, C!SendCommand(c),
           UNCHANGED <<subscribed, alive, state>>, ws' = ws \/ ws' = "closing",
           open_page' \in Pages \cup {C!Nobody},
           subscriptions' = {open_page'} \ {C!Nobody},
           \A p \in Pages : IF c.page = p
                            THEN (c.event = "subscribe") <=> (p = open_page')
                            ELSE (p = open_page') <=> (p = open_page)
    PROVE  Followed'
<1>1. commands \in Seq(Commands) /\ subscribed \subseteq Pages
      BY DEF Followed
<1>2. CASE Connected
  <2>1. commands' = Append(commands, c)
        BY <1>2 DEF C!SendCommand, Connected, Steered
  <2>2. commands' \in Seq(Commands) /\ WordsFollow'
        BY <1>2, <2>1, WordAdded
  <2> QED BY <1>1, <2>2 DEF Followed
<1>3. CASE ~ Connected
  <2>1. commands' = commands /\ ~ Connected'
        BY <1>3 DEF C!SendCommand, Connected, Steered
  <2> QED BY <1>1, <2>1 DEF Followed
<1> QED BY <1>2, <1>3

(* A frame of the server, numbered. *)
LEMMA FrameCounted ==
    ASSUME Steered, Counted, NEW e, C!HandleMessage(e), sent > 0 \/ e = C!Nobody
    PROVE  Steered' /\ Counted' /\ Connected /\ UNCHANGED <<open_page, subscriptions>>
<1> SUFFICES Steered' /\ Counted'
    BY DEF C!HandleMessage, Connected
<1>1. /\ ws = "open" /\ alive /\ sent' = sent + 1
      /\ UNCHANGED <<state, ws, timers, failCount, valid_url, alive, clicks>>
      BY DEF C!HandleMessage
<1>2. /\ missedPongs' \in {missedPongs, 0} /\ lastSequence' \in {lastSequence, sent + 1}
      /\ behind' \in BOOLEAN
      BY DEF C!HandleMessage, C!reading, Counted
<1>3. Steered'
      BY <1>1, <1>2, Limits DEF Steered
<1>4. Connected
      BY <1>1 DEF Connected
<1>5. Counted'
      BY <1>1, <1>2 DEF Counted
<1> QED BY <1>3, <1>5

(* What onopen sends: the page on screen, if there is one. *)
LEMMA RestoredWords ==
    ASSUME Followed, C!OnOpen
    PROVE  Followed'
<1> DEFINE n == C!Cardinality(subscriptions)
<1>1. PICK order \in [1..n -> subscriptions] :
         /\ \A p \in subscriptions : \E i \in DOMAIN order : order[i] = p
         /\ commands' = [i \in DOMAIN order |-> C!Command("subscribe", order[i])]
      BY DEF C!OnOpen
<1>2. /\ open_page \in Pages \cup {C!Nobody} /\ subscriptions = {open_page} \ {C!Nobody}
      /\ subscribed' = {} /\ UNCHANGED <<open_page, subscriptions>>
      BY DEF Followed, C!OnOpen
<1>3. subscriptions \subseteq Pages
      BY <1>2
<1>4. n = Cardinality(subscriptions)
      BY DEF C!Cardinality, Cardinality
<1>5. n = (IF open_page \in Pages THEN 1 ELSE 0)
  <2>1. CASE open_page \in Pages
    <3>1. subscriptions = {open_page}
          BY <1>2, <2>1, Limits
    <3> QED BY <1>4, <2>1, <3>1, FS_Singleton
  <2>2. CASE open_page \notin Pages
    <3>1. subscriptions = {}
          BY <1>2, <2>2
    <3> QED BY <1>4, <2>2, <3>1, FS_EmptySet
  <2> QED BY <2>1, <2>2
<1> HIDE DEF n
<1>6. DOMAIN order = 1..n /\ n \in {0, 1} /\ \A i \in 1..n : order[i] = open_page
      BY <1>1, <1>2, <1>5
<1>7. ASSUME NEW i \in 1..n
      PROVE  /\ C!Command("subscribe", order[i]) \in Commands
             /\ C!Command("subscribe", order[i]).event = "subscribe"
             /\ C!Command("subscribe", order[i]).page = open_page
      BY <1>1, <1>3, <1>6, CommandsSent
<1>8. /\ commands' \in Seq(Commands) /\ Len(commands') = n
      /\ \A i \in 1..n : commands'[i].event = "subscribe" /\ commands'[i].page = open_page
  <2> DEFINE new == [i \in 1..n |-> C!Command("subscribe", order[i])]
  <2>1. commands' = new
        BY <1>1, <1>6
  <2>2. new \in [1..n -> Commands]
        BY <1>7
  <2>3. \A i \in 1..n : new[i].event = "subscribe" /\ new[i].page = open_page
        BY <1>7
  <2> HIDE DEF new
  <2>4. new \in Seq(Commands) /\ Len(new) = n
        BY <1>6, <2>2
  <2> QED BY <2>1, <2>3, <2>4
<1>9. ASSUME NEW p \in Pages, NEW i \in 0..n, LastWord(i, p)'
      PROVE  Says(i, p)' <=> p = open_page'
  <2> DEFINE new == commands'
  <2>1. Says(i, p)' <=> IF i = 0 THEN FALSE ELSE new[i].event = "subscribe"
        BY <1>2 DEF Says
  <2>2. /\ i = 0 \/ new[i].page = p
        /\ \A j \in 1..n : j > i => new[j].page # p
        BY <1>8, <1>9 DEF LastWord
  <2>3. \A j \in 1..n : new[j].event = "subscribe" /\ new[j].page = open_page
        BY <1>8
  <2> HIDE DEF new
  <2>4. CASE i = 0 /\ open_page \in Pages
    <3>1. 1 \in 1..n /\ 1 > i
          BY <1>5, <2>4
    <3>2. p # open_page
          BY <2>2, <2>3, <3>1
    <3> QED BY <1>2, <2>1, <2>4, <3>2
  <2>5. CASE i = 0 /\ open_page \notin Pages
        BY <1>2, <2>1, <2>5
  <2>6. CASE i # 0
        BY <1>2, <1>6, <2>1, <2>2, <2>3, <2>6
  <2> QED BY <2>4, <2>5, <2>6
<1>10. WordsFollow'
  <2>1. Len(commands') = n
        BY <1>8
  <2> QED BY <1>9, <2>1 DEF WordsFollow
<1> QED BY <1>2, <1>8, <1>10 DEF Followed

LEMMA ClientStepOK == ASSUME ClientInv, C!Next PROVE ClientInv'
<1>1. Steered /\ Followed /\ Counted
      BY DEF ClientInv
<1>2. /\ subscriptions = {open_page} \ {C!Nobody} /\ commands \in Seq(Commands)
      /\ open_page \in Pages \cup {C!Nobody} /\ subscribed \subseteq Pages
      BY <1>1 DEF Followed
<1>3. /\ failCount \in 0..MaxFailures
      /\ state # "PAUSED" => failCount < MaxFailures
      /\ timers = IF state = "RECONNECTING" THEN 1 ELSE 0
      BY <1>1 DEF Steered
<1>4. ASSUME NEW p \in Pages, C!ShowPage(p) PROVE ClientInv'
  <2>1. /\ open_page = C!Nobody /\ open_page' = p /\ subscriptions' = subscriptions \cup {p}
        /\ UNCHANGED <<valid_url, alive, subscribed, sent, C!reading, clicks>>
        BY <1>4 DEF C!ShowPage
  <2>2. lastSequence' = lastSequence /\ behind' \in BOOLEAN
        BY <1>4, <2>1 DEF C!ShowPage, C!reading
  <2>3. subscriptions' = {p} \ {C!Nobody}
        BY <1>2, <2>1, Limits
  <2>4. CASE /\ state \in {"IDLE", "CLOSED"} /\ C!Connect(timers, failCount)
             /\ UNCHANGED commands
    <3>1. C!Connect(0, failCount) /\ failCount < MaxFailures
          BY <1>3, <2>4
    <3>2. Steered' /\ (Connected' => Connected)
      <4>1. clicks' \in 0..MaxClicks
            BY <1>1, <2>1 DEF Steered
      <4> QED BY <1>1, <1>3, <2>1, <3>1, <4>1, ConnectSteers
    <3>3. ~ Connected
          BY <1>1, <2>4 DEF Steered, Connected
    <3>4. Followed'
          BY <1>2, <2>1, <2>3, <2>4, <3>2, <3>3 DEF Followed
    <3> QED BY <1>1, <2>1, <2>2, <3>2, <3>4, SameCounts DEF ClientInv
  <2>5. CASE UNCHANGED C!connection /\ C!SendCommand(C!Command("subscribe", p))
    <3> DEFINE c == C!Command("subscribe", p)
    <3>1. c \in Commands /\ c.event = "subscribe" /\ c.page = p
          BY CommandsSent
    <3>2. UNCHANGED <<state, ws, timers, failCount, missedPongs>>
          BY <2>5 DEF C!connection
    <3>3. Steered' /\ (Connected' => Connected)
          BY <1>1, <2>1, <3>2 DEF Steered, Connected
    <3> HIDE DEF c
    <3>4. Followed'
      <4>1. \A q \in Pages : IF c.page = q
                             THEN (c.event = "subscribe") <=> (q = open_page')
                             ELSE (q = open_page') <=> (q = open_page)
            BY <2>1, <3>1, Limits
      <4>2. C!SendCommand(c) /\ ws' = ws /\ UNCHANGED <<subscribed, alive, state>>
            BY <2>1, <2>5, <3>2 DEF c
      <4> QED BY <1>1, <2>1, <2>3, <3>1, <4>1, <4>2, SendFollows
    <3> QED BY <1>1, <2>1, <2>2, <3>3, <3>4, SameCounts DEF ClientInv
  <2> QED BY <1>4, <2>4, <2>5 DEF C!ShowPage
<1>5. CASE C!LeavePage
  <2> DEFINE c == C!Command("unsubscribe", open_page)
  <2>1. /\ open_page # C!Nobody /\ open_page' = C!Nobody
        /\ subscriptions' = subscriptions \ {open_page} /\ C!SendCommand(c)
        /\ UNCHANGED <<C!connection, valid_url, alive, subscribed, sent, C!reading, clicks>>
        BY <1>5 DEF C!LeavePage
  <2>2. /\ UNCHANGED <<state, ws, timers, failCount, missedPongs, lastSequence>>
        /\ behind' \in BOOLEAN
        BY <1>5, <2>1 DEF C!LeavePage, C!reading, C!connection
  <2>3. open_page \in Pages /\ subscriptions' = {C!Nobody} \ {C!Nobody}
        BY <1>2, <2>1
  <2>4. c \in Commands /\ c.event = "unsubscribe" /\ c.page = open_page
        BY <2>3, CommandsSent
  <2>5. Steered' /\ (Connected' => Connected)
        BY <1>1, <2>1, <2>2 DEF Steered, Connected
  <2> HIDE DEF c
  <2>6. Followed'
    <3>1. \A q \in Pages : IF c.page = q
                           THEN (c.event = "subscribe") <=> (q = open_page')
                           ELSE (q = open_page') <=> (q = open_page)
          BY <2>1, <2>4, Limits
    <3> QED BY <1>1, <2>1, <2>2, <2>3, <2>4, <3>1, SendFollows
  <2> QED BY <1>1, <2>1, <2>2, <2>5, <2>6, SameCounts DEF ClientInv
<1>6. ASSUME NEW fails \in 0..MaxFailures, fails < MaxFailures, C!Connect(0, fails),
             UNCHANGED <<valid_url, subscriptions, open_page, C!server, C!reading, behind>>,
             clicks' \in 0..MaxClicks
      PROVE  ClientInv'
  <2>1. UNCHANGED <<valid_url, subscriptions, open_page, alive, commands, subscribed, sent,
                    lastSequence, behind>>
        BY <1>6 DEF C!server, C!reading
  <2>2. Steered' /\ (Connected' => Connected)
        BY <1>1, <1>6, <2>1, ConnectSteers
  <2> QED BY <1>1, <2>1, <2>2, SameWords, SameCounts DEF ClientInv
<1>7. CASE C!Retry
  <2>1. 0 \in 0..MaxFailures /\ 0 < MaxFailures /\ clicks' \in 0..MaxClicks
        BY <1>1, <1>7, Limits DEF C!Retry, Steered
  <2> QED BY <1>6, <1>7, <2>1 DEF C!Retry
<1>8. CASE C!TimerFires
  <2>1. state = "RECONNECTING" /\ timers - 1 = 0
        BY <1>3, <1>8 DEF C!TimerFires
  <2>2. C!Connect(0, failCount) /\ failCount < MaxFailures /\ clicks' \in 0..MaxClicks
        BY <1>1, <1>3, <1>8, <2>1 DEF C!TimerFires, Steered
  <2> QED BY <1>3, <1>6, <1>8, <2>2 DEF C!TimerFires
<1>9. CASE C!OnOpen
  <2>1. Followed'
        BY <1>1, <1>9, RestoredWords
  <2>2. Steered'
        BY <1>1, <1>9, Limits DEF C!OnOpen, Steered
  <2>3. Counted'
        BY <1>1, <1>9 DEF C!OnOpen, C!reading, Counted
  <2> QED BY <2>1, <2>2, <2>3 DEF ClientInv
<1>10. CASE C!OnClose
  <2>1. /\ ws # "none" /\ ws' = "none" /\ alive' = FALSE /\ commands' = <<>>
        /\ subscribed' = {} /\ sent' = 0
        /\ UNCHANGED <<missedPongs, valid_url, subscriptions, open_page, C!reading, clicks>>
        BY <1>10 DEF C!OnClose
  <2>2. state \in {"CONNECTING", "OPEN"} /\ timers = 0 /\ failCount < MaxFailures
        BY <1>1, <2>1 DEF Steered
  <2>3. \/ C!Fail(0, failCount)
        \/ state' \in {"CLOSED", "FORBIDDEN"} /\ UNCHANGED <<timers, failCount>>
    <3>1. \A code : C!StateFor(code) \in {"RECONNECTING", "CLOSED", "FORBIDDEN"}
          BY DEF C!StateFor
    <3> QED BY <1>10, <2>2, <3>1 DEF C!OnClose
  <2>4. Steered'
    <3>1. /\ state' \in {"RECONNECTING", "PAUSED", "CLOSED", "FORBIDDEN"}
          /\ timers' = IF state' = "RECONNECTING" THEN 1 ELSE 0
          /\ failCount' \in 0..MaxFailures /\ (state' # "PAUSED" => failCount' < MaxFailures)
      <4>1. CASE C!Fail(0, failCount)
        <5>1. failCount' = failCount + 1 /\ failCount' <= MaxFailures
              BY <1>3, <2>2, <4>1, Limits DEF C!Fail
        <5> QED BY <1>3, <4>1, <5>1, Limits DEF C!Fail
      <4>2. CASE state' \in {"CLOSED", "FORBIDDEN"} /\ UNCHANGED <<timers, failCount>>
            BY <1>3, <2>2, <4>2
      <4> QED BY <2>3, <4>1, <4>2
    <3> QED BY <1>1, <2>1, <3>1 DEF Steered
  <2>5. ~ Connected' /\ lastSequence' = lastSequence /\ behind' \in BOOLEAN
        BY <1>1, <1>10, <2>1 DEF C!OnClose, Connected, C!reading, Counted
  <2> QED BY <1>1, <2>1, <2>4, <2>5, Unconnected DEF ClientInv
<1>11. CASE C!Heartbeat
  <2>1. /\ ws \in {"open", "closing"} /\ state = "OPEN"
        /\ UNCHANGED <<state, timers, failCount, valid_url, subscriptions, open_page, alive,
                       subscribed, sent, C!reading, behind, clicks>>
        BY <1>11 DEF C!Heartbeat
  <2>2. UNCHANGED <<lastSequence, behind>>
        BY <2>1 DEF C!reading
  <2>3. CASE ws' = "closing" /\ missedPongs' = MaxMissed + 1 /\ UNCHANGED commands
    <3>1. Steered' /\ ~ Connected'
          BY <1>1, <2>1, <2>3, Limits DEF Steered, Connected
    <3> QED BY <1>1, <2>1, <2>2, <2>3, <3>1, SameWords, SameCounts DEF ClientInv
  <2>4. CASE /\ C!SendCommand(C!Command("ping", C!Nobody)) /\ UNCHANGED ws
             /\ ~ (missedPongs + 1 > MaxMissed) /\ missedPongs' = missedPongs + 1
    <3> DEFINE c == C!Command("ping", C!Nobody)
    <3>1. c \in Commands /\ c.page = C!Nobody
          BY CommandsSent
    <3> HIDE DEF c
    <3>2. Steered' /\ (Connected' => Connected)
          BY <1>1, <2>1, <2>4, Limits DEF Steered, Connected
    <3>3. \A q \in Pages : IF c.page = q
                           THEN (c.event = "subscribe") <=> (q = open_page')
                           ELSE (q = open_page') <=> (q = open_page)
          BY <2>1, <3>1, Limits
    <3>4. Followed'
          BY <1>1, <1>2, <2>1, <2>4, <3>1, <3>3, SendFollows DEF c
    <3> QED BY <1>1, <2>1, <2>2, <3>2, <3>4, SameCounts DEF ClientInv
  <2> QED BY <1>11, <2>3, <2>4 DEF C!Heartbeat
<1>12. CASE C!PeerVanishes
  <2>1. /\ alive' = FALSE /\ commands' = <<>> /\ subscribed' = {}
        /\ UNCHANGED <<C!connection, valid_url, subscriptions, open_page, sent, C!reading,
                       behind, clicks>>
        BY <1>12 DEF C!PeerVanishes
  <2>2. UNCHANGED <<state, ws, timers, failCount, missedPongs, lastSequence,
                    behind>>
        BY <2>1 DEF C!reading, C!connection
  <2>3. Steered' /\ ~ Connected' /\ sent' \in Nat
        BY <1>1, <2>1, <2>2 DEF Steered, Connected, Counted
  <2> QED BY <1>1, <2>1, <2>2, <2>3, Unconnected DEF ClientInv
<1>13. ASSUME NEW e, C!HandleMessage(e), sent > 0 \/ e = C!Nobody,
              UNCHANGED <<commands, subscribed>>
       PROVE  ClientInv'
  <2>1. Steered' /\ Counted' /\ Connected /\ UNCHANGED <<open_page, subscriptions>>
        BY <1>1, <1>13, FrameCounted
  <2> QED BY <1>1, <1>13, <2>1, SameWords DEF ClientInv
<1>14. CASE C!Answer
  <2>1. C!HandleMessage(C!Nobody) /\ commands # <<>> /\ commands' = Tail(commands)
        BY <1>14 DEF C!Answer
  <2>2. Steered' /\ Counted' /\ Connected /\ UNCHANGED <<open_page, subscriptions>>
        BY <1>1, <2>1, FrameCounted
  <2>3. commands' \in Seq(Commands) /\ subscribed' \subseteq Pages /\ WordsFollow'
        BY <1>1, <1>14, <2>1, <2>2, WordTaken DEF C!Answer
  <2>4. Followed'
        BY <1>2, <2>2, <2>3 DEF Followed
  <2> QED BY <2>2, <2>4 DEF ClientInv
<1> QED BY <1>4, <1>5, <1>7, <1>8, <1>9, <1>10, <1>11, <1>12, <1>13, <1>14
        DEF C!Next, C!Established, C!Push

(* Whatever fails, is retried, closes or goes silent, and wherever the user *)
(* turns meanwhile: one socket or one timer drives the client, and the     *)
(* server pushes the conversation on screen and no other (realtime.ts).    *)
THEOREM ClientStaysInStep == WebSpec => []ClientInStep
<1>1. WebInit => ClientInv
  <2> SUFFICES ASSUME WebInit PROVE ClientInv
      OBVIOUS
  <2>1. C!Init
        BY DEF WebInit
  <2>2. Steered
    <3>1. /\ state = "IDLE" /\ ws = "none" /\ timers = 0 /\ failCount = 0
          /\ missedPongs = 0 /\ clicks = 0 /\ alive \in BOOLEAN /\ valid_url \in BOOLEAN
          BY <2>1 DEF C!Init
    <3>2. /\ 0 \in 0..MaxFailures /\ 0 < MaxFailures /\ 0 \in 0..(MaxMissed + 1)
          /\ 0 \in 0..MaxClicks
          BY Limits
    <3> QED BY <3>1, <3>2 DEF Steered
  <2>3. Counted
        BY <2>1 DEF C!Init, Counted, Connected
  <2>4. Followed
        BY <2>1 DEF C!Init, Followed, Connected
  <2> QED BY <2>2, <2>3, <2>4 DEF ClientInv
<1>2. ClientInv /\ [WebNext]_webVars => ClientInv'
  <2> SUFFICES ASSUME ClientInv, [WebNext]_webVars PROVE ClientInv'
      OBVIOUS
  <2>1. CASE ClientStep(C!Next)
        BY <2>1, ClientStepOK DEF ClientStep
  <2>2. CASE UNCHANGED cvars
    <3>1. /\ UNCHANGED <<state, ws, timers, failCount, missedPongs, clicks, alive, valid_url>>
          /\ UNCHANGED <<open_page, subscriptions, commands, subscribed>>
          /\ UNCHANGED <<sent, lastSequence, behind>>
          BY <2>2 DEF cvars
    <3>2. Steered' /\ (Connected' => Connected)
          BY <3>1 DEF Steered, Connected, ClientInv
    <3> QED BY <3>1, <3>2, SameWords, SameCounts DEF ClientInv
  <2>3. SceneStep \/ ChatStep \/ DirectoryStep \/ UNCHANGED webVars => UNCHANGED cvars
        BY DEF SceneStep, ChatStep, DirectoryStep, webVars
  <2> QED BY <2>1, <2>2, <2>3 DEF WebNext
<1>3. ClientInv => ClientInStep
  <2> SUFFICES ASSUME ClientInv PROVE ClientInStep
      OBVIOUS
  <2>1. C!TypeOK
    <3>1. subscriptions \subseteq Pages
          BY DEF ClientInv, Followed
    <3> QED BY <3>1 DEF ClientInv, Steered, Followed, Counted, C!TypeOK
  <2>2. C!OneDriver
        BY DEF ClientInv, Steered, C!OneDriver
  <2>3. C!FollowsPage
    <3> SUFFICES ASSUME Connected, commands = <<>> PROVE subscribed = {open_page} \ {C!Nobody}
        BY DEF C!FollowsPage, Connected
    <3>1. \A p \in Pages : LastWord(0, p) /\ (Says(0, p) <=> p \in subscribed)
          BY DEF LastWord, Says
    <3>2. \A p \in Pages : p \in subscribed <=> p = open_page
          BY <3>1 DEF ClientInv, Followed, WordsFollow
    <3> QED BY <3>2, Limits DEF ClientInv, Followed
  <2> QED BY <2>1, <2>2, <2>3 DEF ClientInStep
<1> QED BY <1>1, <1>2, <1>3, PTL DEF WebSpec

(***************************************************************************)
(* The message list                                                        *)
(*                                                                         *)
(* The inductions below are by the least counterexample, which needs a     *)
(* least number in every set of numbers.                                   *)
(***************************************************************************)
LEMMA LeastOfOrder ==
    ASSUME NEW R, IsWellFoundedOn(R, Nat), NEW S, S \subseteq Nat, S # {}
    PROVE  \E m \in S : \A n \in S : ~ (<<n, m>> \in R)
  BY WFMin, Zenon

LEMMA NotBefore ==
    ASSUME NEW R, \A m, n \in Nat : m < n => <<m, n>> \in R,
           NEW S, S \subseteq Nat, NEW m \in S, \A n \in S : ~ (<<n, m>> \in R)
    PROVE  \A n \in S : m <= n
<1> SUFFICES ASSUME NEW n \in S PROVE m <= n
    OBVIOUS
<1>1. n \in Nat /\ m \in Nat
      OBVIOUS
<1>2. ~ (n < m)
      BY <1>1
<1> QED BY <1>1, <1>2

LEMMA Least ==
    ASSUME NEW S, S \subseteq Nat, S # {}
    PROVE  \E m \in S : \A n \in S : m <= n
<1> DEFINE R == OpToRel(<, Nat)
<1>1. IsWellFoundedOn(R, Nat)
      BY NatLessThanWellFounded
<1>2. \A m, n \in Nat : m < n => <<m, n>> \in R
      BY DEF OpToRel
<1> HIDE DEF R
<1>3. PICK m \in S : \A n \in S : ~ (<<n, m>> \in R)
      BY <1>1, LeastOfOrder
<1> QED BY <1>2, <1>3, NotBefore

LEMMA Greatest ==
    ASSUME NEW N \in Nat, NEW S, S \subseteq 0..N, S # {}
    PROVE  \E m \in S : \A n \in S : n <= m
<1> DEFINE T == {N - m : m \in S}
<1>1. \A m \in S : m \in 0..N /\ N - m \in Nat
  <2>1. \A m \in S : m \in 0..N
        OBVIOUS
  <2> QED BY <2>1
<1>2. T \subseteq Nat
      BY <1>1
<1>3. T # {}
  <2>1. PICK m \in S : TRUE
        OBVIOUS
  <2>2. N - m \in T
        OBVIOUS
  <2> QED BY <2>2
<1>4. PICK k \in T : \A n \in T : k <= n
  <2> HIDE DEF T
  <2> QED BY <1>2, <1>3, Least
<1>5. PICK m \in S : k = N - m
      OBVIOUS
<1>6. ASSUME NEW n \in S PROVE n <= m
  <2>1. N - n \in T
        OBVIOUS
  <2>2. N - m <= N - n
        BY <1>4, <1>5, <2>1
  <2> QED BY <1>1, <2>2
<1> QED BY <1>6

(* NewestFirst puts m at place i when fewer than i messages are newer, and *)
(* at least i are as new.                                                  *)
Values(list) == {list[i] : i \in DOMAIN list}
Newer(list, m) == {j \in DOMAIN list : list[j] > m}
AsNew(list, m) == {j \in DOMAIN list : list[j] >= m}
Placed(list, i, m) ==
    /\ m \in Values(list)
    /\ Cardinality(Newer(list, m)) < i /\ Cardinality(AsNew(list, m)) >= i

LEMMA UpToFinite ==
    ASSUME NEW n \in Nat
    PROVE  IsFiniteSet(1..n) /\ Cardinality(1..n) = n
<1>1. 1 \in Int /\ n \in Int
      OBVIOUS
<1>2. IsFiniteSet(1..n) /\ Cardinality(1..n) = IF 1 > n THEN 0 ELSE n - 1 + 1
      BY <1>1, FS_Interval
<1> QED BY <1>2

LEMMA Counts ==
    ASSUME NEW N \in Nat, NEW list \in Seq(1..N), NEW S, S \subseteq DOMAIN list
    PROVE  IsFiniteSet(S) /\ Cardinality(S) \in 0..Len(list)
<1>1. DOMAIN list = 1..Len(list) /\ Len(list) \in Nat
      OBVIOUS
<1>2. IsFiniteSet(1..Len(list)) /\ Cardinality(1..Len(list)) = Len(list)
      BY <1>1, UpToFinite
<1>3. IsFiniteSet(S) /\ Cardinality(S) <= Len(list)
      BY <1>1, <1>2, FS_Subset
<1>4. Cardinality(S) \in Nat
      BY <1>3, FS_CardinalityType
<1> QED BY <1>1, <1>3, <1>4

LEMMA NewerCounts ==
    ASSUME NEW N \in Nat, NEW list \in Seq(1..N), NEW m \in Nat
    PROVE  /\ IsFiniteSet(Newer(list, m)) /\ Cardinality(Newer(list, m)) \in 0..Len(list)
           /\ IsFiniteSet(AsNew(list, m)) /\ Cardinality(AsNew(list, m)) \in 0..Len(list)
<1>1. Newer(list, m) \subseteq DOMAIN list /\ AsNew(list, m) \subseteq DOMAIN list
      BY DEF Newer, AsNew
<1> QED BY <1>1, Counts

LEMMA ValuesType ==
    ASSUME NEW N \in Nat, NEW list \in Seq(1..N)
    PROVE  Values(list) \subseteq 1..N
<1>1. \A i \in DOMAIN list : list[i] \in 1..N
      OBVIOUS
<1> QED BY <1>1 DEF Values

(* A message is placed before those that are older. *)
LEMMA PlacesOrdered ==
    ASSUME NEW N \in Nat, NEW list \in Seq(1..N), NEW i \in Nat, NEW j \in Nat,
           NEW m, NEW n, Placed(list, i, m), Placed(list, j, n), i <= j
    PROVE  n <= m
<1>1. m \in 1..N /\ n \in 1..N
      BY ValuesType DEF Placed
<1>2. SUFFICES ASSUME n > m PROVE FALSE
      BY <1>1
<1>3. \A k \in DOMAIN list : list[k] \in 1..N
      OBVIOUS
<1>4. AsNew(list, n) \subseteq Newer(list, m)
      BY <1>1, <1>2, <1>3 DEF AsNew, Newer
<1>5. Cardinality(AsNew(list, n)) <= Cardinality(Newer(list, m))
      BY <1>1, <1>4, NewerCounts, FS_Subset
<1>6. Cardinality(AsNew(list, n)) \in Nat /\ Cardinality(Newer(list, m)) \in Nat
      BY <1>1, NewerCounts
<1> QED BY <1>5, <1>6 DEF Placed

(* Every place is taken: by the newest of the messages that so many are as *)
(* new as.                                                                 *)
LEMMA PlaceTaken ==
    ASSUME NEW N \in Nat, NEW list \in Seq(1..N), NEW i \in DOMAIN list
    PROVE  \E m : Placed(list, i, m)
<1>1. /\ DOMAIN list = 1..Len(list) /\ Len(list) \in Nat /\ i \in 1..Len(list)
      /\ \A k \in DOMAIN list : list[k] \in 1..N
      OBVIOUS
<1> DEFINE T == {m \in Values(list) : Cardinality(AsNew(list, m)) >= i}
<1>2. Values(list) \subseteq 1..N /\ \A k \in DOMAIN list : list[k] \in Values(list)
      BY ValuesType DEF Values
<1>3. T # {}
  <2>1. Values(list) # {} /\ Values(list) \subseteq Nat
        BY <1>1, <1>2
  <2>2. PICK m \in Values(list) : \A n \in Values(list) : m <= n
        BY <2>1, Least
  <2>3. AsNew(list, m) = 1..Len(list)
        BY <1>1, <1>2, <2>1, <2>2 DEF AsNew
  <2>4. Cardinality(AsNew(list, m)) = Len(list)
        BY <1>1, <2>3, UpToFinite
  <2> QED BY <1>1, <2>4
<1>4. T \subseteq 0..N
      BY <1>2
<1>5. PICK m \in T : \A n \in T : n <= m
  <2> HIDE DEF T
  <2> QED BY <1>3, <1>4, Greatest
<1>6. Cardinality(Newer(list, m)) < i
  <2> DEFINE V == {list[k] : k \in Newer(list, m)}
  <2>1. CASE Newer(list, m) = {}
    <3>1. Cardinality(Newer(list, m)) = 0
          BY <2>1, FS_EmptySet
    <3> QED BY <1>1, <3>1
  <2>2. CASE Newer(list, m) # {}
    <3>1. V \subseteq Values(list) /\ V # {} /\ \A n \in V : n > m
          BY <1>1, <2>2 DEF Newer, Values
    <3>2. V \subseteq Nat
      <4>1. Values(list) \subseteq Nat
            BY <1>2
      <4> QED BY <3>1, <4>1
    <3>3. PICK n \in V : \A o \in V : n <= o
      <4> HIDE DEF V
      <4> QED BY <3>1, <3>2, Least
    <3>4. n \in Values(list) /\ n \in Nat /\ m \in Nat /\ n > m
          BY <1>2, <3>1, <3>2, <3>3
    <3>5. AsNew(list, n) = Newer(list, m)
          BY <1>1, <3>3, <3>4 DEF AsNew, Newer
    <3>6. n \notin T
          BY <1>5, <3>4
    <3>7. ~ (Cardinality(AsNew(list, n)) >= i)
          BY <3>4, <3>6
    <3>8. Cardinality(AsNew(list, n)) \in Nat
          BY <3>4, NewerCounts
    <3> QED BY <1>1, <3>5, <3>7, <3>8
  <2> QED BY <2>1, <2>2
<1> QED BY <1>5, <1>6 DEF Placed

(* Every message is placed. *)
LEMMA EachPlaced ==
    ASSUME NEW N \in Nat, NEW list \in Seq(1..N), NEW m \in Values(list)
    PROVE  \E i \in DOMAIN list : Placed(list, i, m)
<1>1. PICK k \in DOMAIN list : list[k] = m
      BY DEF Values
<1>2. m \in Nat /\ \A j \in DOMAIN list : list[j] \in 1..N
      BY ValuesType
<1>3. Newer(list, m) \subseteq AsNew(list, m) /\ k \in AsNew(list, m) /\ k \notin Newer(list, m)
      BY <1>1, <1>2 DEF Newer, AsNew
<1>4. /\ IsFiniteSet(AsNew(list, m)) /\ Cardinality(AsNew(list, m)) \in 0..Len(list)
      /\ Cardinality(Newer(list, m)) \in Nat
      BY <1>2, NewerCounts
<1>5. Cardinality(Newer(list, m)) < Cardinality(AsNew(list, m))
  <2>1. /\ Cardinality(Newer(list, m)) <= Cardinality(AsNew(list, m))
        /\ Cardinality(Newer(list, m)) # Cardinality(AsNew(list, m))
        BY <1>3, <1>4, FS_Subset
  <2> QED BY <1>4, <2>1
<1>6. Cardinality(AsNew(list, m)) \in DOMAIN list
      BY <1>4, <1>5
<1> QED BY <1>4, <1>5, <1>6 DEF Placed

Once(list) == \A i, j \in DOMAIN list : list[i] = list[j] => i = j

(* A message that is there once has one place. *)
LEMMA OnePlace ==
    ASSUME NEW N \in Nat, NEW list \in Seq(1..N), Once(list),
           NEW i \in Nat, NEW j \in Nat, NEW m, Placed(list, i, m), Placed(list, j, m)
    PROVE  i = j
<1>1. PICK k \in DOMAIN list : list[k] = m
      BY DEF Values, Placed
<1>2. m \in Nat /\ \A n \in DOMAIN list : list[n] \in 1..N
      BY ValuesType DEF Placed
<1>3. AsNew(list, m) = Newer(list, m) \cup {k}
      BY <1>1, <1>2 DEF AsNew, Newer, Once
<1>4. k \notin Newer(list, m)
      BY <1>1, <1>2 DEF Newer
<1>5. IsFiniteSet(Newer(list, m)) /\ Cardinality(Newer(list, m)) \in Nat
      BY <1>2, NewerCounts
<1>6. Cardinality(AsNew(list, m)) = Cardinality(Newer(list, m)) + 1
      BY <1>3, <1>4, <1>5, FS_AddElement
<1> QED BY <1>5, <1>6 DEF Placed

Descending(list) == \A i, j \in DOMAIN list : i < j => list[i] > list[j]

LEMMA NewestFirstSorts ==
    ASSUME NEW N \in Nat, NEW list \in Seq(1..N)
    PROVE  /\ L!NewestFirst(list) \in Seq(1..N)
           /\ Values(L!NewestFirst(list)) = Values(list)
           /\ Once(list) => Descending(L!NewestFirst(list))
<1> DEFINE new == L!NewestFirst(list)
<1>1. DOMAIN list = 1..Len(list) /\ Len(list) \in Nat
      OBVIOUS
<1>2. new = [i \in DOMAIN list |-> CHOOSE m : Placed(list, i, m)]
  <2>1. new = [i \in DOMAIN list |->
                  CHOOSE m \in Values(list) :
                      /\ Cardinality(Newer(list, m)) < i /\ Cardinality(AsNew(list, m)) >= i]
        BY DEF L!NewestFirst, L!ToSet, L!Cardinality, Values, Newer, AsNew, Cardinality
  <2> QED BY <2>1 DEF Placed
<1>3. \A i \in DOMAIN list : Placed(list, i, new[i])
      BY <1>2, PlaceTaken
<1> HIDE DEF new
<1>4. \A i \in DOMAIN list : new[i] \in Values(list)
      BY <1>3 DEF Placed
<1>5. DOMAIN new = 1..Len(list) /\ Values(list) \subseteq 1..N
      BY <1>1, <1>2, ValuesType
<1>6. new \in Seq(1..N)
  <2>1. new \in [1..Len(list) -> 1..N]
        BY <1>1, <1>2, <1>4, <1>5
  <2> QED BY <1>1, <2>1
<1>7. Values(new) \subseteq Values(list)
      BY <1>1, <1>4, <1>5 DEF Values
<1>8. ASSUME NEW m \in Values(list) PROVE m \in Values(new)
  <2>1. PICK i \in DOMAIN list : Placed(list, i, m)
        BY EachPlaced
  <2>2. m \in Nat /\ new[i] \in Nat /\ i \in Nat
        BY <1>1, <1>4, <1>5
  <2>3. m <= new[i] /\ new[i] <= m
        BY <1>3, <2>1, <2>2, PlacesOrdered
  <2>4. new[i] = m
        BY <2>2, <2>3
  <2> QED BY <1>1, <1>5, <2>4 DEF Values
<1>9. ASSUME Once(list), NEW i \in DOMAIN new, NEW j \in DOMAIN new, i < j
      PROVE  new[i] > new[j]
  <2>1. i \in DOMAIN list /\ j \in DOMAIN list /\ i \in Nat /\ j \in Nat
        BY <1>1, <1>5
  <2>2. new[i] \in Nat /\ new[j] \in Nat
        BY <1>4, <1>5, <2>1
  <2>3. new[j] <= new[i]
        BY <1>3, <1>9, <2>1, PlacesOrdered
  <2>4. new[i] # new[j]
        BY <1>3, <1>9, <2>1, OnePlace
  <2> QED BY <2>2, <2>3, <2>4
<1> QED BY <1>6, <1>7, <1>8, <1>9 DEF Descending, new

(* A set of messages as a list. *)
LEMMA SetListed ==
    ASSUME NEW S, IsFiniteSet(S)
    PROVE  /\ Cardinality(S) \in Nat
           /\ L!SetToSeq(S) \in [1..Cardinality(S) -> S]
           /\ Once(L!SetToSeq(S)) /\ Values(L!SetToSeq(S)) = S
<1> DEFINE k == Cardinality(S)
           F == {f \in [1..k -> S] : \A i, j \in 1..k : f[i] = f[j] => i = j}
           new == L!SetToSeq(S)
<1>1. k \in Nat /\ ExistsBijection(1..k, S)
      BY FS_CardinalityType
<1>2. PICK g \in Bijection(1..k, S) : TRUE
      BY <1>1 DEF ExistsBijection
<1>3. g \in F
      BY <1>2 DEF Bijection, Injection, IsInjective
<1>4. new = CHOOSE f \in [1..k -> S] : L!IsInjective(f)
      BY DEF L!SetToSeq, L!Cardinality, Cardinality
<1>5. \A f \in [1..k -> S] : L!IsInjective(f) <=> f \in F
      BY DEF L!IsInjective
<1>6. new \in F
      BY <1>3, <1>4, <1>5
<1>7. new \in Injection(1..k, S)
      BY <1>6 DEF Injection, IsInjective
<1>8. Cardinality(1..k) = k
      BY <1>1, UpToFinite
<1>9. new \in Surjection(1..k, S)
      BY <1>7, <1>8, FS_Injection
<1>10. \A x \in S : \E i \in 1..k : new[i] = x
      BY <1>9 DEF Surjection
<1> HIDE DEF new
<1> QED BY <1>1, <1>6, <1>10 DEF Once, Values, new

(* Messages that are added to the list and sorted. *)
LEMMA WithSorts ==
    ASSUME NEW N \in Nat, shown \in Seq(1..N), NEW M, M \subseteq 1..N
    PROVE  /\ L!With(M) \in Seq(1..N)
           /\ Values(L!With(M)) = Values(shown) \cup M
           /\ Once(shown) /\ M \cap Values(shown) = {} => Descending(L!With(M))
<1>1. PICK s : s = shown
      OBVIOUS
<1>2. PICK t : t = L!SetToSeq(M)
      OBVIOUS
<1>3. IsFiniteSet(M)
      BY UpToFinite, FS_Subset
<1>4. PICK k \in Nat : t \in [1..k -> M] /\ Once(t) /\ Values(t) = M
      BY <1>2, <1>3, SetListed
<1>5. /\ s \in Seq(1..N) /\ t \in Seq(1..N) /\ Len(t) = k /\ DOMAIN t = 1..k
      /\ DOMAIN s = 1..Len(s) /\ Len(s) \in Nat
  <2>1. \A i \in 1..k : t[i] \in 1..N
        BY <1>4
  <2>2. t \in [1..k -> 1..N]
        BY <1>4, <2>1
  <2> QED BY <1>1, <1>4, <2>2
<1> DEFINE list == s \o t
<1>6. /\ list \in Seq(1..N) /\ Len(list) = Len(s) + k
      /\ DOMAIN list = 1..(Len(s) + k)
      /\ \A i \in 1..Len(s) : list[i] = s[i]
      /\ \A i \in (Len(s) + 1)..(Len(s) + k) : list[i] = t[i - Len(s)]
  <2>1. /\ list \in Seq(1..N) /\ Len(list) = Len(s) + k
        /\ \A i \in 1..(Len(s) + k) :
              list[i] = IF i <= Len(s) THEN s[i] ELSE t[i - Len(s)]
        BY <1>5, ConcatProperties
  <2> HIDE DEF list
  <2>2. \A i \in 1..Len(s) : i \in 1..(Len(s) + k) /\ i <= Len(s)
        BY <1>5
  <2>3. \A i \in (Len(s) + 1)..(Len(s) + k) : i \in 1..(Len(s) + k) /\ ~ (i <= Len(s))
        BY <1>5
  <2> QED BY <2>1, <2>2, <2>3
<1>7. L!With(M) = L!NewestFirst(list)
      BY <1>1, <1>2 DEF L!With
<1> HIDE DEF list
<1>8. Values(list) = Values(s) \cup M
  <2>1. ASSUME NEW i \in DOMAIN list PROVE list[i] \in Values(s) \cup Values(t)
    <3>1. i \in 1..Len(s) \/ (i \in (Len(s) + 1)..(Len(s) + k) /\ i - Len(s) \in 1..k)
          BY <1>6
    <3> QED BY <1>5, <1>6, <3>1 DEF Values
  <2>2. ASSUME NEW i \in DOMAIN s PROVE s[i] \in Values(list)
    <3>1. i \in DOMAIN list /\ list[i] = s[i]
          BY <1>5, <1>6
    <3> QED BY <3>1 DEF Values
  <2>3. ASSUME NEW i \in DOMAIN t PROVE t[i] \in Values(list)
    <3>1. i + Len(s) \in (Len(s) + 1)..(Len(s) + k) /\ (i + Len(s)) - Len(s) = i
          BY <1>5
    <3>2. i + Len(s) \in DOMAIN list /\ list[i + Len(s)] = t[i]
          BY <1>5, <1>6, <3>1
    <3> QED BY <3>2 DEF Values
  <2> QED BY <1>4, <2>1, <2>2, <2>3 DEF Values
<1>9. Once(s) /\ M \cap Values(s) = {} => Once(list)
  <2> SUFFICES ASSUME Once(s), M \cap Values(s) = {},
                      NEW i \in DOMAIN list, NEW j \in DOMAIN list, list[i] = list[j]
               PROVE  i = j
      BY DEF Once
  <2>1. \A a \in DOMAIN list :
           \/ a \in DOMAIN s
           \/ a \in (Len(s) + 1)..(Len(s) + k) /\ a - Len(s) \in DOMAIN t
        BY <1>5, <1>6
  <2>2. \A a \in DOMAIN s, b \in DOMAIN t : s[a] # t[b]
        BY <1>4 DEF Values
  <2>3. CASE i \in DOMAIN s /\ j \in DOMAIN s
        BY <1>5, <1>6, <2>3 DEF Once
  <2>4. CASE i \in DOMAIN s /\ j \notin DOMAIN s
        BY <1>5, <1>6, <2>1, <2>2, <2>4
  <2>5. CASE i \notin DOMAIN s /\ j \in DOMAIN s
        BY <1>5, <1>6, <2>1, <2>2, <2>5
  <2>6. CASE i \notin DOMAIN s /\ j \notin DOMAIN s
    <3>1. t[i - Len(s)] = t[j - Len(s)]
          BY <1>6, <2>1, <2>6
    <3>2. i - Len(s) = j - Len(s)
          BY <1>4, <2>1, <2>6, <3>1 DEF Once
    <3> QED BY <1>6, <3>2
  <2> QED BY <2>3, <2>4, <2>5, <2>6
<1> QED BY <1>1, <1>6, <1>7, <1>8, <1>9, NewestFirstSorts

LEMMA ChatLimits == PageSize \in Nat \ {0} /\ MaxMessages \in Nat
BY ListingParameters DEF L!PageSizeAssumption

LEMMA MaxMin ==
    ASSUME NEW a \in Int, NEW b \in Int
    PROVE  /\ L!Max({a, b}) = IF a >= b THEN a ELSE b
           /\ L!Min({a, b}) = IF a <= b THEN a ELSE b
<1>1. /\ \A x \in {a, b} : (\A y \in {a, b} : x >= y) <=> (x >= a /\ x >= b)
      /\ \A x \in {a, b} : (\A y \in {a, b} : x <= y) <=> (x <= a /\ x <= b)
      OBVIOUS
<1>2. \E x \in {a, b} : \A y \in {a, b} : x >= y
      BY <1>1
<1>3. \E x \in {a, b} : \A y \in {a, b} : x <= y
      BY <1>1
<1>4. L!Max({a, b}) \in {a, b} /\ L!Max({a, b}) >= a /\ L!Max({a, b}) >= b
      BY <1>2 DEF L!Max
<1>5. L!Min({a, b}) \in {a, b} /\ L!Min({a, b}) <= a /\ L!Min({a, b}) <= b
      BY <1>3 DEF L!Min
<1> QED BY <1>4, <1>5

(* A page of the history is newest first; the first one holds the latest.  *)
LEMMA WindowFacts ==
    ASSUME NEW n \in Nat, NEW number \in Nat \ {0}
    PROVE  /\ L!Window(n, number) \in Seq(1..n) /\ Descending(L!Window(n, number))
           /\ number = 1 => Values(L!Window(n, number)) = {m \in 1..n : m > n - PageSize}
<1>1. PICK skipped \in Nat : skipped = (number - 1) * PageSize
  <2>1. number - 1 \in Nat /\ PageSize \in Nat
        BY ChatLimits
  <2> QED BY <2>1
<1>2. number = 1 => skipped = 0
      BY <1>1, ChatLimits
<1>3. PICK size \in Nat :
         /\ size = IF n - skipped <= 0 THEN 0
                   ELSE IF PageSize <= n - skipped THEN PageSize ELSE n - skipped
         /\ size = L!Max({0, L!Min({PageSize, n - skipped})})
  <2>1. PageSize \in Int /\ PageSize > 0 /\ n - skipped \in Int
        BY <1>1, ChatLimits
  <2>2. L!Min({PageSize, n - skipped}) = IF PageSize <= n - skipped THEN PageSize ELSE n - skipped
        BY <2>1, MaxMin
  <2>3. L!Min({PageSize, n - skipped}) \in Int
        BY <2>1, <2>2
  <2>4. L!Max({0, L!Min({PageSize, n - skipped})}) =
           IF 0 >= L!Min({PageSize, n - skipped}) THEN 0 ELSE L!Min({PageSize, n - skipped})
        BY <2>3, MaxMin
  <2> QED BY <2>1, <2>2, <2>4
<1>4. PICK W : W = L!Window(n, number)
      OBVIOUS
<1>5. W = [i \in 1..size |-> n - skipped - i + 1]
      BY <1>1, <1>3, <1>4 DEF L!Window
<1>6. \A i \in 1..size : n - skipped - i + 1 \in 1..n
      BY <1>1, <1>3, ChatLimits
<1>7. W \in [1..size -> 1..n]
      BY <1>5, <1>6
<1>8. W \in Seq(1..n)
      BY <1>7
<1>9. Descending(W)
      BY <1>1, <1>3, <1>5 DEF Descending
<1>10. number = 1 => Values(W) = {m \in 1..n : m > n - PageSize}
  <2> SUFFICES ASSUME number = 1 PROVE Values(W) = {m \in 1..n : m > n - PageSize}
      OBVIOUS
  <2>1. size = IF PageSize <= n THEN PageSize ELSE n
        BY <1>2, <1>3, ChatLimits
  <2>2. \A i \in 1..size : W[i] = n - i + 1 /\ W[i] \in 1..n /\ W[i] > n - PageSize
        BY <1>2, <1>5, <1>6, <2>1, ChatLimits
  <2>3. ASSUME NEW m \in 1..n, m > n - PageSize PROVE n - m + 1 \in 1..size /\ W[n - m + 1] = m
    <3>1. n - m + 1 \in 1..size
          BY <2>1, <2>3, ChatLimits
    <3>2. W[n - m + 1] = n - (n - m + 1) + 1
          BY <2>2, <3>1
    <3> QED BY <3>1, <3>2
  <2> QED BY <1>5, <2>2, <2>3 DEF Values
<1> QED BY <1>4, <1>8, <1>9, <1>10

(* What is asked for: a page as it was when the server read it, which with *)
(* one request at a time is no older than what has been processed.         *)
Answer(a, last, seen, pages, together) ==
    \/ /\ a.kind \in {"latest", "backfill"}
       /\ \E n \in 0..last : /\ a.got = L!Window(n, 1)
                             /\ ~ together => seen \subseteq 1..n
    \/ a.kind = "more" /\ pages > 1 /\ a.got \in Seq(1..last)
    \/ a.kind = "send" /\ \E m \in 1..last : a.got = <<m>>

AnswerOK(r) == asked[r] = L!Idle \/ Answer(asked[r], stored, processed, page, overlap)

(* Until older pages are asked for, the list has what was processed only.  *)
ListOK == page = 1 => Descending(shown) /\ Values(shown) \subseteq processed

OneAsked ==
    ~ overlap => \A q, r \in Requests : asked[q] # L!Idle /\ asked[r] # L!Idle => q = r

ChatInv ==
    /\ stored \in 0..MaxMessages /\ page \in Nat \ {0} /\ overlap \in BOOLEAN
    /\ shown \in Seq(1..MaxMessages) /\ processed \subseteq 1..stored
    /\ asked = [r \in Requests |-> asked[r]]
    /\ \A r \in Requests : AnswerOK(r)
    /\ ListOK /\ OneAsked /\ L!NothingHidden

LEMMA DescendingOnce ==
    ASSUME NEW N \in Nat, NEW list \in Seq(1..N), Descending(list)
    PROVE  Once(list)
<1> SUFFICES ASSUME NEW i \in DOMAIN list, NEW j \in DOMAIN list, list[i] = list[j] PROVE i = j
    BY DEF Once
<1>1. i \in Nat /\ j \in Nat /\ list[i] \in Nat /\ list[j] \in Nat
      OBVIOUS
<1>2. ~ (i < j) /\ ~ (j < i)
      BY <1>1 DEF Descending
<1> QED BY <1>1, <1>2

(* An answer under way stays sound: messages are only added, and when      *)
(* requests come one at a time no other answer arrives before it.          *)
LEMMA AnswerStays ==
    ASSUME NEW a, NEW last \in Nat, NEW seen, NEW pages \in Nat, NEW together,
           Answer(a, last, seen, pages, together),
           NEW last2 \in Nat, last <= last2, NEW pages2 \in Nat, pages <= pages2,
           NEW seen2, together \/ seen2 = seen
    PROVE  Answer(a, last2, seen2, pages2, together)
<1>1. CASE a.kind \in {"latest", "backfill"}
  <2>1. PICK n \in 0..last : a.got = L!Window(n, 1) /\ (~ together => seen \subseteq 1..n)
        BY <1>1 DEF Answer
  <2>2. n \in 0..last2 /\ (~ together => seen2 \subseteq 1..n)
        BY <2>1
  <2> QED BY <1>1, <2>1, <2>2 DEF Answer
<1>2. CASE a.kind = "more"
  <2>1. a.got \in Seq(1..last) /\ pages > 1
        BY <1>2 DEF Answer
  <2>2. a.got \in Seq(1..last2) /\ pages2 > 1
    <3>1. 1..last \subseteq 1..last2
          OBVIOUS
    <3> QED BY <2>1, <3>1
  <2> QED BY <1>2, <2>2 DEF Answer
<1>3. CASE a.kind = "send"
  <2>1. PICK m \in 1..last : a.got = <<m>>
        BY <1>3 DEF Answer
  <2>2. m \in 1..last2
        OBVIOUS
  <2> QED BY <1>3, <2>1, <2>2 DEF Answer
<1> QED BY <1>1, <1>2, <1>3 DEF Answer

(* A request is made, or nothing happens to the requests, while the list   *)
(* stays.                                                                  *)
LEMMA ListStays ==
    ASSUME ChatInv, UNCHANGED <<shown, processed, overlap>>,
           stored' \in 0..MaxMessages, stored <= stored', page' \in Nat \ {0}, page <= page',
           asked' = [r \in Requests |-> asked'[r]],
           \A r \in Requests : \/ asked'[r] = asked[r] \/ asked'[r] = L!Idle
                               \/ Answer(asked'[r], stored', processed', page', overlap'),
           OneAsked'
    PROVE  ChatInv'
<1>1. stored \in Nat /\ stored' \in Nat /\ page \in Nat /\ page' \in Nat /\ MaxMessages \in Nat
      BY ChatLimits DEF ChatInv
<1>2. /\ processed' \subseteq 1..stored' /\ shown' \in Seq(1..MaxMessages)
      /\ overlap' \in BOOLEAN
      BY <1>1 DEF ChatInv
<1>3. ListOK'
      BY <1>1 DEF ChatInv, ListOK
<1>4. L!NothingHidden'
  <2> SUFFICES ASSUME ~ overlap, NEW m \in processed, m > stored' - PageSize
               PROVE  m \in L!ToSet(shown)
      BY DEF L!NothingHidden, L!ToSet
  <2>1. m \in Nat
        BY <1>1 DEF ChatInv
  <2>2. m > stored - PageSize
        BY <1>1, <2>1, ChatLimits
  <2> QED BY <2>2 DEF ChatInv, L!NothingHidden
<1>5. ASSUME NEW r \in Requests PROVE AnswerOK(r)'
  <2>1. asked[r] = L!Idle \/ Answer(asked[r], stored, processed, page, overlap)
        BY DEF ChatInv, AnswerOK
  <2>2. asked[r] = L!Idle \/ Answer(asked[r], stored', processed', page', overlap')
        BY <1>1, <2>1, AnswerStays
  <2> QED BY <2>2 DEF AnswerOK, L!Idle
<1> QED BY <1>2, <1>3, <1>4, <1>5 DEF ChatInv

(* A request ends: the others are as sound as before, whatever its answer  *)
(* has done to the list.                                                   *)
LEMMA RequestEnds ==
    ASSUME ChatInv, NEW r \in Requests, asked[r] # L!Idle,
           asked' = [asked EXCEPT ![r] = L!Idle], UNCHANGED <<stored, page, overlap>>,
           shown' \in Seq(1..MaxMessages), processed' \subseteq 1..stored,
           ListOK', L!NothingHidden'
    PROVE  ChatInv'
<1>1. asked' = [q \in Requests |-> asked'[q]]
      BY DEF ChatInv
<1>2. \A q \in Requests : asked'[q] = IF q = r THEN L!Idle ELSE asked[q]
      BY DEF ChatInv
<1>3. OneAsked'
      BY <1>2 DEF ChatInv, OneAsked, L!Idle
<1>4. ASSUME NEW q \in Requests PROVE AnswerOK(q)'
  <2>1. CASE q = r \/ asked[q] = L!Idle
        BY <1>2, <2>1 DEF AnswerOK, L!Idle
  <2>2. CASE q # r /\ asked[q] # L!Idle
    <3>1. overlap
          BY <2>2 DEF ChatInv, OneAsked
    <3>2. Answer(asked[q], stored, processed, page, overlap) /\ asked'[q] = asked[q]
          BY <1>2, <2>2 DEF ChatInv, AnswerOK
    <3>3. stored \in Nat /\ page \in Nat /\ stored <= stored /\ page <= page
          BY ChatLimits DEF ChatInv
    <3>4. Answer(asked[q], stored, processed', page, overlap)
          BY <3>1, <3>2, <3>3, AnswerStays
    <3> QED BY <3>2, <3>4 DEF AnswerOK
  <2> QED BY <2>1, <2>2
<1> QED BY <1>1, <1>3, <1>4 DEF ChatInv

LEMMA SameValues == ASSUME NEW list PROVE L!ToSet(list) = Values(list)
BY DEF L!ToSet, Values

(* The message that was sent, or a backfill, comes to the list unless it   *)
(* was processed before.                                                   *)
LEMMA AddingKeeps ==
    ASSUME ChatInv, NEW got, Values(got) \subseteq 1..stored,
           NEW M, M \subseteq Values(got) \ processed,
           Values(got) \ processed \subseteq M \cup Values(shown),
           \/ L!Fresh(got) = {} /\ shown' = shown
           \/ L!Fresh(got) # {} /\ shown' = L!With(M),
           processed' = processed \cup Values(got), UNCHANGED <<stored, page, overlap>>
    PROVE  /\ shown' \in Seq(1..MaxMessages) /\ processed' \subseteq 1..stored
           /\ ListOK' /\ L!NothingHidden'
<1>1. /\ stored \in Nat /\ stored <= MaxMessages /\ MaxMessages \in Nat /\ PageSize \in Nat
      /\ processed \subseteq 1..stored /\ shown \in Seq(1..MaxMessages)
      BY ChatLimits DEF ChatInv
<1>2. processed' \subseteq 1..stored
      BY <1>1
<1>3. L!Fresh(got) = Values(got) \ processed
      BY SameValues DEF L!Fresh
<1>4. M \subseteq 1..MaxMessages
      BY <1>1
<1>5. /\ shown' \in Seq(1..MaxMessages)
      /\ Values(shown) \cup (Values(got) \ processed) \subseteq Values(shown')
      /\ Values(shown') \subseteq Values(shown) \cup M
  <2>1. CASE L!Fresh(got) = {}
        BY <1>1, <1>3, <2>1
  <2>2. CASE L!Fresh(got) # {}
    <3>1. shown' = L!With(M)
          BY <2>2
    <3>2. /\ L!With(M) \in Seq(1..MaxMessages)
          /\ Values(L!With(M)) = Values(shown) \cup M
          BY <1>1, <1>4, WithSorts
    <3> QED BY <3>1, <3>2
  <2> QED BY <2>1, <2>2
<1>6. ListOK'
  <2> SUFFICES ASSUME page = 1
               PROVE  Descending(shown') /\ Values(shown') \subseteq processed'
      BY DEF ListOK, Descending, Values
  <2>1. Descending(shown) /\ Values(shown) \subseteq processed
        BY DEF ChatInv, ListOK
  <2>2. Values(shown') \subseteq processed'
        BY <1>5, <2>1
  <2>3. Once(shown) /\ M \cap Values(shown) = {}
        BY <1>1, <2>1, DescendingOnce
  <2>4. Descending(shown')
        BY <1>1, <1>4, <2>1, <2>3, WithSorts
  <2> QED BY <2>2, <2>4
<1>7. L!NothingHidden'
  <2> SUFFICES ASSUME ~ overlap, NEW m \in processed', m > stored - PageSize
               PROVE  m \in Values(shown')
      BY SameValues DEF L!NothingHidden, L!ToSet, Values
  <2>1. m \in processed => m \in Values(shown)
        BY SameValues DEF ChatInv, L!NothingHidden
  <2> QED BY <1>5, <2>1
<1> QED BY <1>2, <1>5, <1>6, <1>7

LEMMA WindowValues ==
    ASSUME NEW n \in 0..stored, stored \in Nat
    PROVE  /\ L!Window(n, 1) \in Seq(1..stored) /\ Descending(L!Window(n, 1))
           /\ Values(L!Window(n, 1)) = {m \in 1..n : m > n - PageSize}
           /\ Values(L!Window(n, 1)) \subseteq 1..stored
<1>1. n \in Nat /\ 1 \in Nat \ {0} /\ 1..n \subseteq 1..stored
      OBVIOUS
<1>2. /\ L!Window(n, 1) \in Seq(1..n) /\ Descending(L!Window(n, 1))
      /\ Values(L!Window(n, 1)) = {m \in 1..n : m > n - PageSize}
      BY <1>1, WindowFacts
<1>3. L!Window(n, 1) \in Seq(1..stored)
      BY <1>1, <1>2
<1> QED BY <1>1, <1>2, <1>3

LEMMA AnsweredKeeps == ASSUME ChatInv, NEW r \in Requests, L!Answered(r) PROVE ChatInv'
<1>1. PICK a : a = asked[r]
      OBVIOUS
<1>2. /\ a # L!Idle /\ L!Arrive(a.kind, a.got)
      /\ asked' = [asked EXCEPT ![r] = L!Idle] /\ UNCHANGED <<stored, page, overlap>>
      BY <1>1 DEF L!Answered
<1>3. Answer(a, stored, processed, page, overlap)
      BY <1>1, <1>2 DEF ChatInv, AnswerOK
<1>4. /\ stored \in Nat /\ stored <= MaxMessages /\ MaxMessages \in Nat /\ PageSize \in Nat
      /\ processed \subseteq 1..stored /\ shown \in Seq(1..MaxMessages)
      /\ 1..stored \subseteq 1..MaxMessages
      BY ChatLimits DEF ChatInv
<1> SUFFICES /\ shown' \in Seq(1..MaxMessages) /\ processed' \subseteq 1..stored
             /\ ListOK' /\ L!NothingHidden'
    BY <1>1, <1>2, RequestEnds
<1>5. CASE a.kind = "latest"
  <2>1. PICK n \in 0..stored : a.got = L!Window(n, 1) /\ (~ overlap => processed \subseteq 1..n)
        BY <1>3, <1>5 DEF Answer
  <2>2. shown' = a.got /\ processed' = processed \cup Values(a.got)
        BY <1>2, <1>5, SameValues DEF L!Arrive
  <2>3. /\ a.got \in Seq(1..stored) /\ Descending(a.got)
        /\ Values(a.got) = {m \in 1..n : m > n - PageSize} /\ Values(a.got) \subseteq 1..stored
        BY <1>4, <2>1, WindowValues
  <2>4. shown' \in Seq(1..MaxMessages) /\ processed' \subseteq 1..stored
    <3>1. a.got \in Seq(1..MaxMessages)
          BY <1>4, <2>3
    <3> QED BY <1>4, <2>2, <2>3, <3>1
  <2>5. ListOK'
    <3>1. Descending(shown') /\ Values(shown') \subseteq processed'
          BY <2>2, <2>3
    <3> QED BY <3>1 DEF ListOK, Descending, Values
  <2>6. L!NothingHidden'
    <3> SUFFICES ASSUME ~ overlap, NEW m \in processed', m > stored - PageSize
                 PROVE  m \in Values(shown')
        BY <1>2, SameValues DEF L!NothingHidden, L!ToSet, Values
    <3>1. m \in processed => m \in 1..n /\ m > n - PageSize
          BY <1>4, <2>1
    <3> QED BY <2>2, <2>3, <3>1
  <2> QED BY <2>4, <2>5, <2>6
<1>6. CASE a.kind = "more"
  <2>1. a.got \in Seq(1..stored) /\ page > 1
        BY <1>3, <1>6 DEF Answer
  <2>2. shown' = a.got \o shown /\ processed' = processed
        BY <1>2, <1>6 DEF L!Arrive
  <2>3. a.got \in Seq(1..MaxMessages)
        BY <1>4, <2>1
  <2>4. shown' \in Seq(1..MaxMessages)
        BY <1>4, <2>2, <2>3, ConcatProperties
  <2>5. ListOK'
        BY <1>2, <2>1 DEF ListOK, ChatInv
  <2>6. L!NothingHidden'
    <3>1. ASSUME NEW i \in DOMAIN shown PROVE \E j \in DOMAIN shown' : shown'[j] = shown[i]
      <4>1. PICK s : s = shown
            OBVIOUS
      <4>2. PICK g : g = a.got
            OBVIOUS
      <4>3. /\ s \in Seq(1..MaxMessages) /\ g \in Seq(1..MaxMessages)
            /\ Len(s) \in Nat /\ Len(g) \in Nat /\ i \in 1..Len(s)
            BY <1>4, <2>3, <4>1, <4>2
      <4>4. /\ Len(g \o s) = Len(g) + Len(s) /\ g \o s \in Seq(1..MaxMessages)
            /\ \A j \in 1..(Len(g) + Len(s)) :
                  (g \o s)[j] = IF j <= Len(g) THEN g[j] ELSE s[j - Len(g)]
            BY <4>3, ConcatProperties
      <4>5. /\ i + Len(g) \in 1..(Len(g) + Len(s)) /\ ~ (i + Len(g) <= Len(g))
            /\ (i + Len(g)) - Len(g) = i
            BY <4>3
      <4>6. i + Len(g) \in DOMAIN (g \o s) /\ (g \o s)[i + Len(g)] = s[i]
            BY <4>4, <4>5
      <4> QED BY <2>2, <4>1, <4>2, <4>6
    <3>2. Values(shown) \subseteq Values(shown')
          BY <3>1 DEF Values
    <3> SUFFICES ASSUME ~ overlap, NEW m \in processed', m > stored - PageSize
                 PROVE  m \in Values(shown')
        BY <1>2, SameValues DEF L!NothingHidden, L!ToSet, Values
    <3> QED BY <2>2, <3>2, SameValues DEF ChatInv, L!NothingHidden
  <2> QED BY <1>4, <2>2, <2>4, <2>5, <2>6
<1>7. CASE a.kind = "send"
  <2>1. PICK m \in 1..stored : a.got = <<m>>
        BY <1>3, <1>7 DEF Answer
  <2>2. Values(a.got) = {m}
        BY <2>1 DEF Values
  <2>3. /\ shown' = IF L!Fresh(a.got) = {} THEN shown ELSE L!With(L!Fresh(a.got))
        /\ processed' = processed \cup Values(a.got)
        BY <1>2, <1>7, SameValues DEF L!Arrive
  <2>4. L!Fresh(a.got) = Values(a.got) \ processed
        BY SameValues DEF L!Fresh
  <2>5. Values(a.got) \subseteq 1..stored
        BY <2>2
  <2> QED BY <1>2, <2>3, <2>4, <2>5, AddingKeeps
<1>8. CASE a.kind = "backfill"
  <2>1. PICK n \in 0..stored : a.got = L!Window(n, 1)
        BY <1>3, <1>8 DEF Answer
  <2>2. /\ shown' = IF L!Fresh(a.got) = {} THEN shown
                    ELSE L!With(L!Fresh(a.got) \ Values(shown))
        /\ processed' = processed \cup Values(a.got)
        BY <1>2, <1>8, SameValues DEF L!Arrive
  <2>3. L!Fresh(a.got) = Values(a.got) \ processed
        BY SameValues DEF L!Fresh
  <2>4. Values(a.got) \subseteq 1..stored
        BY <1>4, <2>1, WindowValues
  <2> QED BY <1>2, <2>2, <2>3, <2>4, AddingKeeps
<1> QED BY <1>3, <1>5, <1>6, <1>7, <1>8 DEF Answer

LEMMA ChatStarts == ASSUME L!Init PROVE ChatInv
<1>1. /\ stored \in 0..MaxMessages /\ shown = <<>> /\ processed = {} /\ page = 1
      /\ asked = [r \in Requests |-> L!Idle] /\ overlap \in BOOLEAN
      BY DEF L!Init
<1>2. shown \in Seq(1..MaxMessages) /\ processed \subseteq 1..stored /\ page \in Nat \ {0}
      BY <1>1
<1>3. ListOK
      BY <1>1 DEF ListOK, Descending, Values
<1>4. \A r \in Requests : asked[r] = L!Idle
      BY <1>1
<1>5. OneAsked /\ \A r \in Requests : AnswerOK(r)
      BY <1>4 DEF OneAsked, AnswerOK
<1>6. asked = [r \in Requests |-> asked[r]]
      BY <1>1
<1>7. L!NothingHidden
      BY <1>1 DEF L!NothingHidden
<1> QED BY <1>1, <1>2, <1>3, <1>5, <1>6, <1>7 DEF ChatInv

(* A request is made: its answer is sound, and no other one is under way   *)
(* when they come one at a time.                                           *)
LEMMA RequestBegins ==
    ASSUME ChatInv, NEW r \in Requests, L!MayAsk(r), NEW a,
           asked' = [asked EXCEPT ![r] = a], UNCHANGED <<shown, processed, overlap>>,
           stored' \in 0..MaxMessages, stored <= stored', page' \in Nat \ {0}, page <= page',
           Answer(a, stored', processed', page', overlap')
    PROVE  ChatInv'
<1>1. /\ asked' = [q \in Requests |-> asked'[q]]
      /\ \A q \in Requests : asked'[q] = IF q = r THEN a ELSE asked[q]
      BY DEF ChatInv
<1>2. OneAsked'
  <2> SUFFICES ASSUME ~ overlap, NEW p \in Requests, NEW q \in Requests,
                      asked'[p] # L!Idle, asked'[q] # L!Idle
               PROVE  p = q
      BY DEF OneAsked, L!Idle
  <2>1. \A o \in Requests : asked[o] = L!Idle
        BY DEF L!MayAsk
  <2> QED BY <1>1, <2>1
<1>3. \A q \in Requests : \/ asked'[q] = asked[q] \/ asked'[q] = L!Idle
                          \/ Answer(asked'[q], stored', processed', page', overlap')
      BY <1>1
<1> QED BY <1>1, <1>2, <1>3, ListStays

LEMMA ChatStepKeeps == ASSUME ChatInv, [L!Next]_lvars PROVE ChatInv'
<1>1. /\ stored \in Nat /\ stored <= MaxMessages /\ page \in Nat /\ page > 0
      /\ stored \in 0..stored /\ processed \subseteq 1..stored
      /\ PageSize \in Nat /\ MaxMessages \in Nat
      BY ChatLimits DEF ChatInv
<1>2. CASE L!OtherSends
  <2>1. /\ stored' = stored + 1 /\ stored < MaxMessages
        /\ UNCHANGED <<shown, processed, page, asked, overlap>>
        BY <1>2 DEF L!OtherSends
  <2>2. stored' \in 0..MaxMessages /\ stored <= stored' /\ page' \in Nat \ {0} /\ page <= page'
        BY <1>1, <2>1
  <2>3. /\ asked' = [r \in Requests |-> asked'[r]] /\ OneAsked'
        BY <2>1 DEF ChatInv, OneAsked, L!Idle
  <2> QED BY <2>1, <2>2, <2>3, ListStays
<1>3. ASSUME NEW r \in Requests, L!AskLatest(r) \/ L!AskBackfill(r) PROVE ChatInv'
  <2>1. PICK kind \in {"latest", "backfill"} :
           /\ L!Ask(r, kind, 1) /\ UNCHANGED <<stored, shown, processed, page, overlap>>
        BY <1>3 DEF L!AskLatest, L!AskBackfill
  <2>2. PICK a : a = [kind |-> kind, got |-> L!Window(stored, 1)]
        OBVIOUS
  <2>3. /\ L!MayAsk(r) /\ asked' = [asked EXCEPT ![r] = a]
        /\ a.kind \in {"latest", "backfill"} /\ a.got = L!Window(stored, 1)
        BY <2>1, <2>2 DEF L!Ask
  <2>4. Answer(a, stored, processed, page, overlap)
        BY <1>1, <2>3 DEF Answer
  <2>5. Answer(a, stored', processed', page', overlap')
        BY <2>1, <2>4
  <2>6. stored' \in 0..MaxMessages /\ stored <= stored' /\ page' \in Nat \ {0} /\ page <= page'
        BY <1>1, <2>1
  <2>7. UNCHANGED <<shown, processed, overlap>>
        BY <2>1
  <2> QED BY <2>3, <2>5, <2>6, <2>7, RequestBegins
<1>4. ASSUME NEW r \in Requests, L!AskMore(r) PROVE ChatInv'
  <2>1. /\ page' = page + 1 /\ L!Ask(r, "more", page + 1)
        /\ UNCHANGED <<stored, shown, processed, overlap>>
        BY <1>4 DEF L!AskMore
  <2>2. PICK a : a = [kind |-> "more", got |-> L!Window(stored, page + 1)]
        OBVIOUS
  <2>3. /\ L!MayAsk(r) /\ asked' = [asked EXCEPT ![r] = a]
        /\ a.kind = "more" /\ a.got = L!Window(stored, page + 1)
        BY <2>1, <2>2 DEF L!Ask
  <2>4. page' \in Nat \ {0} /\ page <= page' /\ page' > 1 /\ page + 1 \in Nat \ {0}
        BY <1>1, <2>1
  <2>5. a.got \in Seq(1..stored)
        BY <1>1, <2>3, <2>4, WindowFacts
  <2>6. Answer(a, stored', processed', page', overlap')
        BY <2>1, <2>3, <2>4, <2>5 DEF Answer
  <2>7. stored' \in 0..MaxMessages /\ stored <= stored' /\ UNCHANGED <<shown, processed, overlap>>
        BY <1>1, <2>1
  <2> QED BY <2>3, <2>4, <2>6, <2>7, RequestBegins
<1>5. ASSUME NEW r \in Requests, L!Send(r) PROVE ChatInv'
  <2>1. PICK a : a = [kind |-> "send", got |-> <<stored + 1>>]
        OBVIOUS
  <2>2. /\ L!MayAsk(r) /\ stored < MaxMessages /\ stored' = stored + 1
        /\ asked' = [asked EXCEPT ![r] = a] /\ UNCHANGED <<shown, processed, page, overlap>>
        /\ a.kind = "send" /\ a.got = <<stored + 1>>
        BY <1>5, <2>1 DEF L!Send
  <2>3. /\ stored' \in 0..MaxMessages /\ stored <= stored' /\ page' \in Nat \ {0}
        /\ page <= page' /\ stored + 1 \in 1..stored'
        BY <1>1, <2>2
  <2>4. Answer(a, stored', processed', page', overlap')
        BY <2>2, <2>3 DEF Answer
  <2> QED BY <2>2, <2>3, <2>4, RequestBegins
<1>6. ASSUME NEW r \in Requests, L!Fails(r) PROVE ChatInv'
  <2>1. /\ asked[r] # L!Idle /\ asked' = [asked EXCEPT ![r] = L!Idle]
        /\ UNCHANGED <<stored, shown, processed, page, overlap>>
        BY <1>6 DEF L!Fails
  <2>2. shown' \in Seq(1..MaxMessages) /\ processed' \subseteq 1..stored
        BY <2>1 DEF ChatInv
  <2>3. ListOK' /\ L!NothingHidden'
        BY <2>1 DEF ChatInv, ListOK, L!NothingHidden, L!ToSet
  <2> QED BY <2>1, <2>2, <2>3, RequestEnds
<1>7. CASE UNCHANGED lvars
  <2>1. UNCHANGED <<stored, shown, processed, page, asked, overlap>>
        BY <1>7 DEF lvars
  <2>2. /\ stored' \in 0..MaxMessages /\ stored <= stored' /\ page' \in Nat \ {0} /\ page <= page'
        /\ asked' = [r \in Requests |-> asked'[r]] /\ OneAsked'
        BY <1>1, <2>1 DEF ChatInv, OneAsked, L!Idle
  <2> QED BY <2>1, <2>2, ListStays
<1> QED BY <1>2, <1>3, <1>4, <1>5, <1>6, <1>7, AnsweredKeeps DEF L!Next

LEMMA ChatSound == ASSUME ChatInv PROVE L!TypeOK /\ L!ListInOrder /\ L!NothingHidden
<1>1. L!TypeOK
  <2>1. stored \in Nat /\ stored <= MaxMessages /\ processed \subseteq 1..MaxMessages
        BY ChatLimits DEF ChatInv
  <2>2. \A r \in Requests : asked[r].kind \in {"idle", "latest", "backfill", "more", "send"}
        BY DEF ChatInv, AnswerOK, Answer, L!Idle
  <2> QED BY <2>1, <2>2 DEF ChatInv, L!TypeOK
<1>2. L!ListInOrder
      BY DEF ChatInv, ListOK, Descending, L!ListInOrder
<1> QED BY <1>1, <1>2 DEF ChatInv

(***************************************************************************)
(* The directory of organizations                                          *)
(***************************************************************************)
LEMMA DirectoryLimits ==
    /\ MaxOrgs \in Nat /\ ListPage \in Nat \ {0} /\ Limit \in Nat /\ MaxDepth \in Nat
    /\ D!Anonymous \notin People /\ D!Orgs = 1..MaxOrgs /\ D!Viewers = People \cup {D!Anonymous}
BY ListingParameters DEF D!DirectoryAssumption, D!Orgs, D!Viewers

LEMMA SameCount == ASSUME NEW S PROVE D!Cardinality(S) = Cardinality(S)
BY DEF D!Cardinality, Cardinality

(* Organizations created after o. *)
Later(S, o) == {p \in S : p > o}

LEMMA OrgsCount ==
    ASSUME NEW S, S \subseteq 1..MaxOrgs
    PROVE  IsFiniteSet(S) /\ Cardinality(S) \in Nat
<1>1. IsFiniteSet(1..MaxOrgs)
      BY DirectoryLimits, UpToFinite
<1>2. IsFiniteSet(S)
      BY <1>1, FS_Subset
<1> QED BY <1>2, FS_CardinalityType

LEMMA MoreCount ==
    ASSUME NEW S, S \subseteq 1..MaxOrgs, NEW T, T \subseteq S
    PROVE  Cardinality(T) <= Cardinality(S)
<1>1. IsFiniteSet(S)
      BY OrgsCount
<1> QED BY <1>1, FS_Subset

LEMMA NewestMeans ==
    ASSUME NEW S, NEW n
    PROVE  D!Newest(S, n) = {o \in S : Cardinality(Later(S, o)) < n}
BY SameCount DEF D!Newest, Later

(* The first n are no more than n: the oldest of them has fewer after it.  *)
LEMMA NewestFew ==
    ASSUME NEW S, S \subseteq 1..MaxOrgs, NEW n \in Nat
    PROVE  /\ D!Newest(S, n) \subseteq S
           /\ IsFiniteSet(D!Newest(S, n)) /\ Cardinality(D!Newest(S, n)) <= n
<1>1. PICK T : T = D!Newest(S, n)
      OBVIOUS
<1>2. T = {o \in S : Cardinality(Later(S, o)) < n}
      BY <1>1, NewestMeans
<1>3. T \subseteq S /\ T \subseteq 1..MaxOrgs /\ T \subseteq Nat
  <2>1. T \subseteq S
        BY <1>2
  <2>2. T \subseteq 1..MaxOrgs
        BY <2>1
  <2>3. 1..MaxOrgs \subseteq Nat
        BY DirectoryLimits
  <2> QED BY <2>1, <2>2, <2>3
<1>4. IsFiniteSet(T) /\ Cardinality(T) \in Nat
      BY <1>3, OrgsCount
<1>5. CASE T = {}
  <2>1. Cardinality(T) = 0
        BY <1>5, FS_EmptySet
  <2> QED BY <1>1, <1>3, <1>4, <2>1
<1>6. CASE T # {}
  <2>1. PICK o \in T : \A p \in T : o <= p
        BY <1>3, <1>6, Least
  <2>2. \A p \in T : p # o => p > o
    <3>1. \A p \in T : p \in Nat
          BY <1>3
    <3> QED BY <2>1, <3>1
  <2>3. T \ {o} \subseteq Later(S, o)
        BY <1>3, <2>2 DEF Later
  <2>4. Later(S, o) \subseteq 1..MaxOrgs
        BY DEF Later
  <2>5. Cardinality(T \ {o}) <= Cardinality(Later(S, o)) /\ Cardinality(Later(S, o)) \in Nat
        BY <2>3, <2>4, MoreCount, OrgsCount
  <2>6. Cardinality(T \ {o}) = Cardinality(T) - 1
        BY <1>4, <2>1, FS_RemoveElement
  <2>7. Cardinality(Later(S, o)) < n
        BY <1>2, <2>1
  <2> QED BY <1>1, <1>3, <1>4, <2>5, <2>6, <2>7
<1> QED BY <1>5, <1>6

LEMMA ShownOnlyOpened == ASSUME D!TypeOK PROVE D!ShownCanBeOpened
<1> SUFFICES ASSUME NEW v \in D!Viewers
             PROVE  /\ \A n \in 1..MaxOrgs : \A o \in D!ListOrganizations(v, n) : D!CanOpen(v, o)
                    /\ \A o \in D!SearchOrganizations(v, D!Orgs) : D!CanOpen(v, o)
                    /\ \A u \in People : \A o \in D!ListUserOrganizations(v, u) : D!CanOpen(v, o)
                    /\ \A set \in D!Recommendations(v) : \A o \in set : D!CanOpen(v, o)
    BY DEF D!ShownCanBeOpened
<1>1. \A n \in 1..MaxOrgs : \A o \in D!ListOrganizations(v, n) : D!CanOpen(v, o)
      BY DEF D!ListOrganizations, D!ListActive, D!Newest, D!CanOpen
<1>2. \A o \in D!SearchOrganizations(v, D!Orgs) : D!CanOpen(v, o)
      BY DEF D!SearchOrganizations, D!CanOpen
<1>3. \A u \in People : \A o \in D!ListUserOrganizations(v, u) : D!CanOpen(v, o)
      BY DEF D!ListUserOrganizations, D!CanOpen, D!CanView
<1>4. \A o \in D!Public : D!CanOpen(v, o)
      BY DEF D!Public, D!CanOpen, D!CanView
<1>5. ASSUME NEW set \in D!Recommendations(v) PROVE set \subseteq D!Public
  <2>1. D!Siblings(v) \subseteq D!Public
        BY DEF D!Siblings
  <2>2. \A n, S : D!Newest(S, n) \subseteq S
        BY DEF D!Newest
  <2> DEFINE clubs == D!Newest(D!Public \cap Clubs, 2 * Limit) \ (member[v] \cup D!Siblings(v))
  <2>3. clubs \subseteq D!Public
        BY <2>2
  <2>4. CASE v \notin People
        BY <1>5, <2>4 DEF D!Recommendations
  <2>5. CASE v \in People
    <3>1. \/ set \in SUBSET D!Siblings(v)
          \/ set = D!Siblings(v) \cup D!Newest(clubs, Limit - D!Cardinality(D!Siblings(v)))
          BY <1>5, <2>5 DEF D!Recommendations
    <3> HIDE DEF clubs
    <3>2. D!Newest(clubs, Limit - D!Cardinality(D!Siblings(v))) \subseteq clubs
          BY <2>2
    <3> QED BY <2>1, <2>3, <3>1, <3>2
  <2> QED BY <2>4, <2>5
<1> QED BY <1>1, <1>2, <1>3, <1>4, <1>5

LEMMA RecommendedFew == ASSUME D!TypeOK PROVE D!RecommendsOthers
<1> SUFFICES ASSUME NEW v \in D!Viewers, NEW set \in D!Recommendations(v)
             PROVE  /\ v \in People => set \cap member[v] = {}
                    /\ Cardinality(set) <= Limit
    BY SameCount DEF D!RecommendsOthers
<1>1. D!Existing \subseteq 1..MaxOrgs /\ D!Public \subseteq D!Existing
      BY DEF D!Existing, D!Public, D!Orgs
<1>2. CASE v \notin People
  <2>1. set = D!Newest(D!Existing, Limit) \cap D!Public
        BY <1>2 DEF D!Recommendations
  <2>2. /\ D!Newest(D!Existing, Limit) \subseteq 1..MaxOrgs
        /\ Cardinality(D!Newest(D!Existing, Limit)) <= Limit
        BY <1>1, DirectoryLimits, NewestFew
  <2>3. Cardinality(set) <= Cardinality(D!Newest(D!Existing, Limit))
        BY <2>1, <2>2, MoreCount
  <2>4. Cardinality(set) \in Nat /\ Cardinality(D!Newest(D!Existing, Limit)) \in Nat
        BY <2>1, <2>2, OrgsCount
  <2> QED BY <1>2, <2>2, <2>3, <2>4, DirectoryLimits
<1>3. CASE v \in People
  <2>1. PICK first : first = D!Siblings(v)
        OBVIOUS
  <2>2. PICK clubs : clubs = D!Newest(D!Public \cap Clubs, 2 * Limit) \ (member[v] \cup first)
        OBVIOUS
  <2>3. /\ first \subseteq 1..MaxOrgs /\ first \cap member[v] = {}
        /\ clubs \subseteq 1..MaxOrgs /\ clubs \cap member[v] = {} /\ clubs \cap first = {}
        BY <1>1, <2>1, <2>2 DEF D!Siblings, D!Newest
  <2>4. IsFiniteSet(first) /\ Cardinality(first) \in Nat
        BY <2>3, OrgsCount
  <2>5. PICK room \in Int : room = Limit - Cardinality(first)
        BY <2>4, DirectoryLimits
  <2>6. IF room <= 0 THEN set \in {r \in SUBSET first : D!Cardinality(r) = Limit}
        ELSE set = first \cup D!Newest(clubs, room)
        BY <1>3, <2>1, <2>2, <2>5, SameCount DEF D!Recommendations
  <2>7. CASE room <= 0
    <3>1. set \subseteq first /\ Cardinality(set) = Limit
          BY <2>6, <2>7, SameCount
    <3>2. set \cap member[v] = {}
          BY <2>3, <3>1
    <3>3. Cardinality(set) <= Limit
          BY <3>1, DirectoryLimits
    <3> QED BY <3>2, <3>3
  <2>8. CASE ~ (room <= 0)
    <3>1. PICK N : N = D!Newest(clubs, room)
          OBVIOUS
    <3>2. room \in Nat
          BY <2>8
    <3>3. N \subseteq clubs /\ IsFiniteSet(N) /\ Cardinality(N) <= room
          BY <2>3, <3>1, <3>2, NewestFew
    <3>4. Cardinality(N) \in Nat
          BY <3>3, FS_CardinalityType
    <3>5. set = first \cup N /\ first \cap N = {}
          BY <2>3, <2>6, <2>8, <3>1, <3>3
    <3>6. Cardinality(set) = Cardinality(first) + Cardinality(N)
      <4>1. Cardinality(first \cap N) = 0
            BY <3>5, FS_EmptySet
      <4>2. Cardinality(first \cup N) =
               Cardinality(first) + Cardinality(N) - Cardinality(first \cap N)
            BY <2>4, <3>3, FS_Union
      <4> QED BY <2>4, <3>4, <3>5, <4>1, <4>2
    <3>7. set \cap member[v] = {}
          BY <2>3, <3>3, <3>5
    <3> QED BY <2>4, <2>5, <3>3, <3>4, <3>6, <3>7, DirectoryLimits
  <2> QED BY <2>7, <2>8
<1> QED BY <1>2, <1>3

(* Nobody has gaps in the numbers; the walker has not passed over anything *)
(* that was to be seen: as many organizations come before it as were read. *)
NoGaps == \A o \in D!Orgs : status[o] # "absent" => \A n \in 1..o : status[n] # "absent"
Walk == [who : D!Viewers \cup {"nobody"}, page : Nat, seen : SUBSET D!Orgs,
         steady : SUBSET D!Orgs, shrunk : BOOLEAN]
NotPassed(w, S) ==
    /\ w.who # "nobody" => w.page # 0
    /\ w.who # "nobody" /\ ~ w.shrunk =>
          \A o \in w.steady \ w.seen : Cardinality(Later(S, o)) >= (w.page - 1) * ListPage
DirectoryInv ==
    /\ status \in [D!Orgs -> {"absent", "ACTIVE", "DELETED"}]
    /\ visibility \in [D!Orgs -> {"PUBLIC", "PRIVATE"}]
    /\ parent \in [D!Orgs -> 0..MaxOrgs] /\ \A o \in D!Orgs : parent[o] < o
    /\ member \in [People -> SUBSET D!Orgs]
    /\ NoGaps
    /\ walk \in Walk /\ walk.steady \subseteq {o \in D!Orgs : D!CanOpen(walk.who, o)}
    /\ NotPassed(walk, D!Existing)

LEMMA DirectoryTyped == ASSUME DirectoryInv PROVE D!TypeOK
BY DEF DirectoryInv, D!TypeOK, Walk

LEMMA DirectoryStarts == ASSUME D!Init PROVE DirectoryInv
<1>1. /\ status = [o \in D!Orgs |-> "absent"] /\ visibility = [o \in D!Orgs |-> "PUBLIC"]
      /\ parent = [o \in D!Orgs |-> 0] /\ member = [u \in People |-> {}]
      /\ walk = [who |-> "nobody", page |-> 0, seen |-> {}, steady |-> {}, shrunk |-> FALSE]
      BY DEF D!Init, D!NoWalk
<1>2. \A o \in D!Orgs : o \in Nat /\ o > 0
      BY DirectoryLimits
<1>3. \A o \in D!Orgs : status[o] = "absent" /\ parent[o] < o
      BY <1>1, <1>2
<1>4. NoGaps
      BY <1>3 DEF NoGaps
<1>5. walk \in Walk /\ walk.steady = {} /\ walk.who = "nobody"
      BY <1>1 DEF Walk
<1>6. NotPassed(walk, D!Existing)
      BY <1>5 DEF NotPassed
<1>7. parent \in [D!Orgs -> 0..MaxOrgs]
      BY <1>1, DirectoryLimits
<1> QED BY <1>1, <1>3, <1>4, <1>5, <1>6, <1>7 DEF DirectoryInv

(* A walker keeps its place while no organization goes.                    *)
LEMMA WalkGoesOn ==
    ASSUME DirectoryInv, NEW flag \in BOOLEAN, D!KeepWalk(flag),
           D!Existing' \subseteq 1..MaxOrgs,
           flag \/ (flag = walk.shrunk /\ D!Existing \subseteq D!Existing')
    PROVE  /\ walk' \in Walk
           /\ (walk.steady \subseteq {o \in D!Orgs : D!CanOpen(walk.who, o)})'
           /\ NotPassed(walk, D!Existing)'
<1>1. PICK v : v = walk.who
      OBVIOUS
<1>2. PICK w : w = walk
      OBVIOUS
<1>3. PICK can : can = {o \in w.steady : D!CanOpen(v, o)'}
      OBVIOUS
<1>4. /\ w \in Walk /\ w.who = v
      /\ walk' = [w EXCEPT !.steady = can, !.shrunk = flag]
  <2>1. PICK x \in {walk.who} :
           walk' = [walk EXCEPT !.steady = {o \in @ : D!CanOpen(x, o)'}, !.shrunk = flag]
        BY DEF D!KeepWalk
  <2>2. x = v
        BY <1>1
  <2>3. can = {o \in w.steady : D!CanOpen(x, o)'}
        BY <1>3, <2>2
  <2>4. walk' = [w EXCEPT !.steady = can, !.shrunk = flag]
        BY <1>2, <2>1, <2>3
  <2> QED BY <1>1, <1>2, <2>4 DEF DirectoryInv
<1>5. /\ walk' \in Walk /\ walk'.who = v /\ walk'.page = w.page /\ walk'.seen = w.seen
      /\ walk'.steady = can /\ walk'.shrunk = flag /\ can \subseteq w.steady
      /\ w.steady \subseteq D!Orgs /\ w.page \in Nat
      BY <1>3, <1>4 DEF Walk
<1>6. (walk.steady \subseteq {o \in D!Orgs : D!CanOpen(walk.who, o)})'
  <2>1. \A o \in can : o \in D!Orgs /\ D!CanOpen(v, o)'
        BY <1>3, <1>5
  <2>2. \A o : D!CanOpen(walk.who, o)' <=> D!CanOpen(v, o)'
        BY <1>5 DEF D!CanOpen, D!CanView, D!Existing
  <2> QED BY <1>5, <2>1, <2>2 DEF D!Orgs
<1>7. NotPassed(walk', D!Existing')
  <2>1. walk'.who # "nobody" => walk'.page # 0
        BY <1>2, <1>4, <1>5 DEF DirectoryInv, NotPassed
  <2>2. ASSUME walk'.who # "nobody", ~ walk'.shrunk, NEW o \in walk'.steady \ walk'.seen
        PROVE  Cardinality(Later(D!Existing', o)) >= (walk'.page - 1) * ListPage
    <3>1. w.who # "nobody" /\ ~ w.shrunk /\ o \in w.steady \ w.seen /\ w.page # 0
          BY <1>2, <1>4, <1>5, <2>1, <2>2
    <3>2. Cardinality(Later(D!Existing, o)) >= (w.page - 1) * ListPage
          BY <1>2, <3>1 DEF DirectoryInv, NotPassed
    <3>3. Later(D!Existing, o) \subseteq Later(D!Existing', o)
          BY <1>2, <1>5, <2>2 DEF Later
    <3>4. Later(D!Existing', o) \subseteq 1..MaxOrgs
          BY DEF Later
    <3>5. Cardinality(Later(D!Existing, o)) <= Cardinality(Later(D!Existing', o))
          BY <3>3, <3>4, MoreCount
    <3>6. /\ Cardinality(Later(D!Existing, o)) \in Nat
          /\ Cardinality(Later(D!Existing', o)) \in Nat
          BY <3>3, <3>4, OrgsCount
    <3>7. PICK k \in Nat : k = (w.page - 1) * ListPage
      <4>1. w.page - 1 \in Nat
            BY <1>5, <3>1
      <4> QED BY <4>1, DirectoryLimits
    <3> QED BY <1>5, <3>2, <3>5, <3>6, <3>7
  <2> QED BY <2>1, <2>2 DEF NotPassed
<1> QED BY <1>5, <1>6, <1>7

LEMMA ExistingOrgs == D!Existing \subseteq 1..MaxOrgs /\ D!Existing' \subseteq 1..MaxOrgs
BY DEF D!Existing, D!Orgs

LEMMA PageRead == ASSUME DirectoryInv, D!ReadPage PROVE DirectoryInv'
<1>1. PICK w : w = walk
      OBVIOUS
<1>2. PICK E : E = D!Existing
      OBVIOUS
<1>3. PICK list : list = D!ListOrganizations(w.who, w.page)
      OBVIOUS
<1>4. /\ w \in Walk /\ w.who # "nobody" /\ w.page # 0
      /\ walk' = [w EXCEPT !.page = @ + 1, !.seen = @ \cup list]
      /\ UNCHANGED <<status, visibility, parent, member>>
      BY <1>1, <1>3 DEF D!ReadPage, DirectoryInv, NotPassed
<1>5. D!Existing' = E /\ E \subseteq 1..MaxOrgs
      BY <1>2, <1>4, ExistingOrgs DEF D!Existing
<1>6. list \subseteq D!Orgs
      BY <1>3 DEF D!ListOrganizations, D!ListActive, D!Newest, D!Existing
<1>7. /\ walk' \in Walk /\ walk'.who = w.who /\ walk'.page = w.page + 1
      /\ walk'.seen = w.seen \cup list /\ walk'.steady = w.steady /\ walk'.shrunk = w.shrunk
      /\ w.page \in Nat /\ w.steady \subseteq D!Orgs
  <2>1. /\ w \in [who : D!Viewers \cup {"nobody"}, page : Nat, seen : SUBSET D!Orgs,
                 steady : SUBSET D!Orgs, shrunk : BOOLEAN]
        /\ w.page + 1 \in Nat /\ w.seen \cup list \subseteq D!Orgs
        BY <1>4, <1>6 DEF Walk
  <2>2. walk' = [w EXCEPT !.page = w.page + 1, !.seen = w.seen \cup list]
        BY <1>4
  <2> HIDE DEF D!Orgs
  <2> QED BY <2>1, <2>2 DEF Walk
<1>8. (walk.steady \subseteq {o \in D!Orgs : D!CanOpen(walk.who, o)})'
      BY <1>1, <1>4, <1>7 DEF DirectoryInv, D!CanOpen, D!CanView, D!Existing, D!Orgs
<1>9. NotPassed(walk', E)
  <2>1. walk'.page # 0
        BY <1>7
  <2>2. ASSUME ~ walk'.shrunk, NEW o \in walk'.steady \ walk'.seen
        PROVE  Cardinality(Later(E, o)) >= (walk'.page - 1) * ListPage
    <3>1. /\ ~ w.shrunk /\ o \in w.steady \ w.seen /\ o \notin list
          /\ D!CanOpen(w.who, o)
          BY <1>1, <1>7, <2>2 DEF DirectoryInv
    <3>2. o \in E /\ D!CanView(w.who, o)
          BY <1>2, <3>1 DEF D!CanOpen
    <3>3. PICK k \in Nat : k = (w.page - 1) * ListPage
      <4>1. w.page - 1 \in Nat
            BY <1>4, <1>7
      <4> QED BY <4>1, DirectoryLimits
    <3>4. w.page * ListPage = k + ListPage
          BY <1>7, <3>3, DirectoryLimits
    <3>5. Cardinality(Later(E, o)) >= k
          BY <1>1, <1>2, <1>4, <3>1, <3>3 DEF DirectoryInv, NotPassed
    <3>6. Cardinality(Later(E, o)) \in Nat
      <4>1. Later(E, o) \subseteq 1..MaxOrgs
            BY <1>5 DEF Later
      <4> QED BY <4>1, OrgsCount
    <3>7. o \notin D!Newest(E, k + ListPage) \ D!Newest(E, k)
      <4>1. o \notin D!ListActive(w.page)
            BY <1>3, <3>1, <3>2 DEF D!ListOrganizations
      <4> QED BY <1>2, <3>3, <3>4, <4>1 DEF D!ListActive
    <3>8. o \notin D!Newest(E, k)
      <4>1. ~ (Cardinality(Later(E, o)) < k)
            BY <3>3, <3>5, <3>6
      <4> QED BY <4>1, NewestMeans
    <3>9. ~ (Cardinality(Later(E, o)) < k + ListPage)
      <4>1. o \notin D!Newest(E, k + ListPage)
            BY <3>7, <3>8
      <4> QED BY <3>2, <4>1, NewestMeans
    <3>10. (walk'.page - 1) * ListPage = k + ListPage
      <4>1. walk'.page - 1 = w.page
            BY <1>7
      <4> QED BY <3>4, <4>1
    <3> QED BY <3>3, <3>6, <3>9, <3>10, DirectoryLimits
  <2> QED BY <2>1, <2>2 DEF NotPassed
<1>10. NoGaps'
      BY <1>4 DEF DirectoryInv, NoGaps, D!Orgs
<1> QED BY <1>4, <1>5, <1>7, <1>8, <1>9, <1>10 DEF DirectoryInv, D!Orgs

(* The steps that leave status and parent alone. *)
LEMMA OrgsStay ==
    ASSUME DirectoryInv, UNCHANGED <<status, parent>>,
           visibility' \in [D!Orgs -> {"PUBLIC", "PRIVATE"}],
           member' \in [People -> SUBSET D!Orgs], D!KeepWalk(walk.shrunk)
    PROVE  DirectoryInv'
<1>1. D!Existing' = D!Existing
      BY DEF D!Existing
<1>2. walk.shrunk \in BOOLEAN
      BY DEF DirectoryInv, Walk
<1>3. /\ walk' \in Walk
      /\ (walk.steady \subseteq {o \in D!Orgs : D!CanOpen(walk.who, o)})'
      /\ NotPassed(walk, D!Existing)'
      BY <1>1, <1>2, ExistingOrgs, WalkGoesOn
<1>4. NoGaps'
      BY DEF DirectoryInv, NoGaps, D!Orgs
<1> QED BY <1>3, <1>4 DEF DirectoryInv, D!Orgs, Walk, D!Viewers

LEMMA OrganizationCreated ==
    ASSUME DirectoryInv, NEW u \in People, NEW o \in D!Orgs, NEW v \in {"PUBLIC", "PRIVATE"},
           NEW p \in 0..MaxOrgs, D!CreateOrganization(u, o, v, p)
    PROVE  DirectoryInv'
<1>1. /\ status[o] = "absent" /\ \A n \in 1..(o - 1) : status[n] # "absent"
      /\ p \in D!Existing \cup {0}
      /\ status' = [status EXCEPT ![o] = "ACTIVE"]
      /\ visibility' = [visibility EXCEPT ![o] = v]
      /\ parent' = [parent EXCEPT ![o] = p]
      /\ member' = [member EXCEPT ![u] = @ \cup {o}]
      /\ D!KeepWalk(walk.shrunk)
      BY DEF D!CreateOrganization
<1>2. /\ status \in [D!Orgs -> {"absent", "ACTIVE", "DELETED"}]
      /\ parent \in [D!Orgs -> 0..MaxOrgs] /\ member \in [People -> SUBSET D!Orgs]
      /\ visibility \in [D!Orgs -> {"PUBLIC", "PRIVATE"}]
      /\ \A n \in D!Orgs : parent[n] < n /\ n \in Nat /\ n > 0
      BY DirectoryLimits DEF DirectoryInv
<1>3. p < o
  <2>1. CASE p = 0
        BY <1>2, <2>1
  <2>2. CASE p \in D!Existing
    <3>1. p \in D!Orgs /\ status[p] = "ACTIVE"
          BY <2>2 DEF D!Existing
    <3>2. \A n \in 1..p : status[n] # "absent"
          BY <3>1 DEF DirectoryInv, NoGaps
    <3>3. o \notin 1..p
          BY <1>1, <3>2
    <3> QED BY <1>2, <3>1, <3>3
  <2> QED BY <1>1, <2>1, <2>2
<1>4. \A n \in D!Orgs : parent'[n] < n
      BY <1>1, <1>2, <1>3
<1>5. D!Existing \subseteq D!Existing'
      BY <1>1, <1>2 DEF D!Existing, D!Orgs
<1>6. walk.shrunk \in BOOLEAN
      BY DEF DirectoryInv, Walk
<1>7. /\ walk' \in Walk
      /\ (walk.steady \subseteq {n \in D!Orgs : D!CanOpen(walk.who, n)})'
      /\ NotPassed(walk, D!Existing)'
      BY <1>1, <1>5, <1>6, ExistingOrgs, WalkGoesOn
<1>8. NoGaps'
  <2> SUFFICES ASSUME NEW m \in D!Orgs, status'[m] # "absent", NEW n \in 1..m
               PROVE  status'[n] # "absent"
      BY DEF NoGaps, D!Orgs
  <2>1. m \in 1..MaxOrgs /\ n \in 1..MaxOrgs /\ o \in 1..MaxOrgs
        BY DirectoryLimits
  <2>2. CASE n = o
        BY <1>1, <1>2, <2>2
  <2>3. CASE n # o /\ m = o
    <3>1. n \in 1..(o - 1) /\ n \in D!Orgs
          BY <2>1, <2>3, DirectoryLimits
    <3> QED BY <1>1, <1>2, <2>3, <3>1
  <2>4. CASE n # o /\ m # o
    <3>1. status[m] # "absent"
          BY <1>1, <1>2, <2>4
    <3>2. status[n] # "absent" /\ n \in D!Orgs
          BY <2>1, <3>1, DirectoryLimits DEF DirectoryInv, NoGaps
    <3> QED BY <1>1, <1>2, <2>4, <3>2
  <2> QED BY <2>2, <2>3, <2>4
<1>9. /\ status' \in [D!Orgs -> {"absent", "ACTIVE", "DELETED"}]
      /\ visibility' \in [D!Orgs -> {"PUBLIC", "PRIVATE"}]
      /\ parent' \in [D!Orgs -> 0..MaxOrgs]
      /\ member' \in [People -> SUBSET D!Orgs]
      BY <1>1, <1>2
<1> QED BY <1>4, <1>7, <1>8, <1>9 DEF DirectoryInv, D!Orgs, Walk, D!Viewers

LEMMA OrganizationDeleted ==
    ASSUME DirectoryInv, NEW u \in People, NEW o \in D!Orgs, D!DeleteOrganization(u, o)
    PROVE  DirectoryInv'
<1>1. /\ D!Manages(u, o) /\ status' = [status EXCEPT ![o] = "DELETED"]
      /\ UNCHANGED <<visibility, parent, member>> /\ D!KeepWalk(TRUE)
      BY DEF D!DeleteOrganization
<1>2. /\ walk' \in Walk
      /\ (walk.steady \subseteq {n \in D!Orgs : D!CanOpen(walk.who, n)})'
      /\ NotPassed(walk, D!Existing)'
      BY <1>1, ExistingOrgs, WalkGoesOn
<1>3. status \in [D!Orgs -> {"absent", "ACTIVE", "DELETED"}] /\ status[o] = "ACTIVE"
      BY <1>1 DEF DirectoryInv, D!Manages, D!Existing
<1>4. /\ status' \in [D!Orgs -> {"absent", "ACTIVE", "DELETED"}]
      /\ \A n \in D!Orgs : status'[n] = "absent" <=> status[n] = "absent"
      BY <1>1, <1>3
<1>5. NoGaps'
  <2> SUFFICES ASSUME NEW m \in D!Orgs, status'[m] # "absent", NEW n \in 1..m
               PROVE  status'[n] # "absent"
      BY DEF NoGaps, D!Orgs
  <2>1. n \in D!Orgs
        BY DirectoryLimits
  <2>2. status[n] # "absent"
        BY <1>4 DEF DirectoryInv, NoGaps
  <2> QED BY <1>4, <2>1, <2>2
<1> QED BY <1>1, <1>2, <1>4, <1>5 DEF DirectoryInv, D!Orgs, Walk, D!Viewers

LEMMA WalkStarts ==
    ASSUME DirectoryInv, NEW v \in D!Viewers, D!StartWalk(v)
    PROVE  DirectoryInv'
<1>1. PICK can : can = {o \in D!Existing : D!CanView(v, o)}
      OBVIOUS
<1>2. /\ walk' = [who |-> v, page |-> 1, seen |-> {}, steady |-> can, shrunk |-> FALSE]
      /\ UNCHANGED <<status, visibility, parent, member>>
      BY <1>1 DEF D!StartWalk, D!NoWalk
<1>3. can \subseteq D!Orgs /\ \A o \in can : D!CanOpen(v, o)
      BY <1>1 DEF D!Existing, D!CanOpen
<1>4. walk' \in Walk
      BY <1>2, <1>3 DEF Walk
<1>5. (walk.steady \subseteq {o \in D!Orgs : D!CanOpen(walk.who, o)})'
      BY <1>2, <1>3 DEF D!CanOpen, D!CanView, D!Existing, D!Orgs
<1>6. NotPassed(walk, D!Existing)'
  <2>1. /\ walk'.page = 1 /\ walk'.steady = can /\ D!Existing' = D!Existing
        /\ (walk'.page - 1) * ListPage = 0
        BY <1>2, DirectoryLimits DEF D!Existing
  <2>2. \A o \in can : Cardinality(Later(D!Existing, o)) \in Nat
    <3>1. \A o : Later(D!Existing, o) \subseteq 1..MaxOrgs
          BY ExistingOrgs DEF Later
    <3> QED BY <3>1, OrgsCount
  <2> QED BY <2>1, <2>2 DEF NotPassed
<1>7. NoGaps'
      BY <1>2 DEF DirectoryInv, NoGaps, D!Orgs
<1> QED BY <1>2, <1>4, <1>5, <1>6, <1>7 DEF DirectoryInv, D!Orgs, Walk, D!Viewers

LEMMA DirectoryStepKeeps == ASSUME DirectoryInv, [D!Next]_dvars PROVE DirectoryInv'
<1>1. ASSUME NEW u \in People, NEW o \in D!Orgs, NEW v \in {"PUBLIC", "PRIVATE"},
             D!UpdateVisibility(u, o, v)
      PROVE  DirectoryInv'
  <2>1. /\ visibility' = [visibility EXCEPT ![o] = v]
        /\ UNCHANGED <<status, parent, member>> /\ D!KeepWalk(walk.shrunk)
        BY <1>1 DEF D!UpdateVisibility
  <2>2. /\ visibility' \in [D!Orgs -> {"PUBLIC", "PRIVATE"}]
        /\ member' \in [People -> SUBSET D!Orgs]
        BY <2>1 DEF DirectoryInv
  <2> QED BY <2>1, <2>2, OrgsStay
<1>2. ASSUME NEW u \in People, NEW o \in D!Orgs, D!ChangeMembership(u, o)
      PROVE  DirectoryInv'
  <2>1. /\ member' = [member EXCEPT ![u] = IF o \in @ THEN @ \ {o} ELSE @ \cup {o}]
        /\ UNCHANGED <<status, visibility, parent>> /\ D!KeepWalk(walk.shrunk)
        BY <1>2 DEF D!ChangeMembership
  <2>2. /\ visibility' \in [D!Orgs -> {"PUBLIC", "PRIVATE"}]
        /\ member' \in [People -> SUBSET D!Orgs]
        BY <2>1 DEF DirectoryInv
  <2> QED BY <2>1, <2>2, OrgsStay
<1>3. CASE UNCHANGED dvars
  <2>1. UNCHANGED <<status, visibility, parent, member, walk>>
        BY <1>3 DEF dvars
  <2> QED BY <2>1 DEF DirectoryInv, NoGaps, NotPassed, Walk, Later, D!CanOpen, D!CanView,
                     D!Existing, D!Orgs, D!Viewers, D!Anonymous
<1> QED BY <1>1, <1>2, <1>3, OrganizationCreated, OrganizationDeleted, WalkStarts, PageRead
           DEF D!Next

LEMMA WalkIsComplete == ASSUME DirectoryInv PROVE D!WalkComplete
<1> SUFFICES ASSUME walk.who # "nobody", D!PastTheEnd, ~ walk.shrunk,
                    NEW o \in walk.steady \ walk.seen
             PROVE  FALSE
    BY DEF D!WalkComplete
<1>1. (walk.page - 1) * ListPage >= Cardinality(D!Existing)
      BY SameCount DEF D!PastTheEnd
<1>2. PICK k \in Nat : k = (walk.page - 1) * ListPage
  <2>1. walk.page \in Nat /\ walk.page # 0
        BY DEF DirectoryInv, NotPassed, Walk
  <2>2. walk.page - 1 \in Nat
        BY <2>1
  <2> QED BY <2>2, DirectoryLimits
<1>3. Cardinality(Later(D!Existing, o)) >= k
      BY <1>2 DEF DirectoryInv, NotPassed
<1>4. o \in D!Existing
      BY DEF DirectoryInv, D!CanOpen
<1>5. o \in Nat
      BY <1>4, ExistingOrgs, DirectoryLimits
<1>6. /\ Later(D!Existing, o) \subseteq D!Existing /\ o \notin Later(D!Existing, o)
      BY <1>5 DEF Later
<1>7. IsFiniteSet(D!Existing) /\ Cardinality(D!Existing) \in Nat
      BY ExistingOrgs, OrgsCount
<1>8. /\ Cardinality(Later(D!Existing, o)) <= Cardinality(D!Existing)
      /\ Cardinality(Later(D!Existing, o)) # Cardinality(D!Existing)
      BY <1>4, <1>6, <1>7, FS_Subset
<1>9. Cardinality(Later(D!Existing, o)) \in Nat
      BY <1>6, ExistingOrgs, OrgsCount
<1> QED BY <1>1, <1>2, <1>3, <1>7, <1>8, <1>9

(* The way up to a root, and the levels of the tree, are recursive         *)
(* functions.  That there are such functions follows again from the least  *)
(* number up to which there is none.                                       *)
Below(f, k) == f = [n \in 0..k |-> IF n = 0 THEN {} ELSE {n} \cup f[parent[n]]]
Levels(f, v, roots, k) ==
    f = [d \in 0..k |-> IF d = 0 THEN {o \in roots \cap D!Existing : D!CanView(v, o)}
                        ELSE f[d - 1] \cup D!Children(v, f[d - 1])]

LEMMA SameFunction ==
    ASSUME NEW S, NEW f, NEW g, f = [x \in S |-> f[x]], g = [x \in S |-> g[x]],
           \A x \in S : f[x] = g[x]
    PROVE  f = g
OBVIOUS

LEMMA SomeWays ==
    ASSUME D!TypeOK, NEW k \in 0..MaxOrgs
    PROVE  \E f : Below(f, k)
<1> DEFINE S == {n \in 0..MaxOrgs : ~ \E f : Below(f, n)}
<1> SUFFICES ASSUME S # {} PROVE FALSE
    OBVIOUS
<1>1. S \subseteq Nat
      BY DirectoryLimits
<1>2. PICK m \in S : \A n \in S : m <= n
  <2> HIDE DEF S
  <2> QED BY <1>1, Least
<1>3. m # 0
  <2>1. \E f : Below(f, 0)
    <3>1. Below([n \in 0..0 |-> {}], 0)
          BY DEF Below
    <3> QED BY <3>1
  <2> QED BY <2>1
<1>4. m \in 1..MaxOrgs /\ m - 1 \in 0..MaxOrgs /\ m - 1 \notin S
      BY <1>2, <1>3, DirectoryLimits
<1>5. PICK f : Below(f, m - 1)
      BY <1>4
<1>6. \A n \in 1..m : n # 0 /\ parent[n] \in 0..(m - 1)
  <2>1. \A n \in 1..m : n \in 1..MaxOrgs /\ n <= m
    <3> HIDE DEF S
    <3>1. m \in Nat /\ m <= MaxOrgs
          BY <1>4, DirectoryLimits
    <3> QED BY <3>1, DirectoryLimits
  <2>2. \A n \in 1..m : parent[n] \in 0..MaxOrgs /\ parent[n] < n
        BY <2>1, DirectoryLimits DEF D!TypeOK
  <2> QED BY <1>4, <2>1, <2>2
<1> DEFINE g == [n \in 0..m |-> IF n = 0 THEN {} ELSE {n} \cup f[parent[n]]]
           h == [n \in 0..m |-> IF n = 0 THEN {} ELSE {n} \cup g[parent[n]]]
<1> HIDE DEF S
<1>7. /\ g = [n \in 0..m |-> g[n]] /\ h = [n \in 0..m |-> h[n]]
      /\ \A n \in 0..m : g[n] = IF n = 0 THEN {} ELSE {n} \cup f[parent[n]]
      /\ \A n \in 0..m : h[n] = IF n = 0 THEN {} ELSE {n} \cup g[parent[n]]
  <2> HIDE DEF h
  <2>1. /\ g = [n \in 0..m |-> g[n]]
        /\ \A n \in 0..m : g[n] = IF n = 0 THEN {} ELSE {n} \cup f[parent[n]]
        OBVIOUS
  <2> HIDE DEF g
  <2>2. /\ h = [n \in 0..m |-> h[n]]
        /\ \A n \in 0..m : h[n] = IF n = 0 THEN {} ELSE {n} \cup g[parent[n]]
        BY DEF h
  <2> QED BY <2>1, <2>2
<1>8. h = [n \in 0..m |-> IF n = 0 THEN {} ELSE {n} \cup g[parent[n]]]
      OBVIOUS
<1> HIDE DEF g, h
<1>9. \A n \in 0..(m - 1) : f[n] = IF n = 0 THEN {} ELSE {n} \cup f[parent[n]]
      BY <1>5 DEF Below
<1>10. \A n \in 0..m : n = 0 \/ n \in 1..m
      BY <1>4
<1>11. \A n \in 0..(m - 1) : n \in 0..m
      BY <1>4
<1>12. \A n \in 0..(m - 1) : g[n] = f[n]
      BY <1>7, <1>9, <1>11
<1>13. \A n \in 0..m : g[n] = h[n]
      BY <1>6, <1>7, <1>10, <1>12
<1>14. g = h
      BY <1>7, <1>13, SameFunction
<1>15. Below(g, m)
      BY <1>8, <1>14 DEF Below
<1>16. m \notin S
      BY <1>15 DEF S
<1> QED BY <1>2, <1>16

LEMMA SomeLevels ==
    ASSUME NEW v, NEW roots, NEW k \in Nat
    PROVE  \E f : Levels(f, v, roots, k)
<1> DEFINE S == {n \in Nat : ~ \E f : Levels(f, v, roots, n)}
<1> SUFFICES ASSUME S # {} PROVE FALSE
    OBVIOUS
<1>1. PICK m \in S : \A n \in S : m <= n
  <2>1. S \subseteq Nat
        OBVIOUS
  <2> HIDE DEF S
  <2> QED BY <2>1, Least
<1> DEFINE first == {o \in roots \cap D!Existing : D!CanView(v, o)}
<1>2. m # 0
  <2>1. Levels([d \in 0..0 |-> first], v, roots, 0)
        BY DEF Levels
  <2> QED BY <2>1
<1>3. m \in Nat /\ m - 1 \in Nat /\ m - 1 \notin S
      BY <1>1, <1>2
<1>4. PICK f : Levels(f, v, roots, m - 1)
      BY <1>3
<1> DEFINE g == [d \in 0..m |-> IF d = 0 THEN first
                                ELSE f[d - 1] \cup D!Children(v, f[d - 1])]
           h == [d \in 0..m |-> IF d = 0 THEN first
                                ELSE g[d - 1] \cup D!Children(v, g[d - 1])]
<1>5. \A d \in 0..(m - 1) : f[d] = IF d = 0 THEN first ELSE f[d - 1] \cup D!Children(v, f[d - 1])
      BY <1>4 DEF Levels
<1> HIDE DEF S, first
<1>6. /\ g = [d \in 0..m |-> g[d]] /\ h = [d \in 0..m |-> h[d]]
      /\ \A d \in 0..m : g[d] = IF d = 0 THEN first ELSE f[d - 1] \cup D!Children(v, f[d - 1])
      /\ \A d \in 0..m : h[d] = IF d = 0 THEN first ELSE g[d - 1] \cup D!Children(v, g[d - 1])
  <2> HIDE DEF h
  <2>1. /\ g = [d \in 0..m |-> g[d]]
        /\ \A d \in 0..m : g[d] = IF d = 0 THEN first ELSE f[d - 1] \cup D!Children(v, f[d - 1])
        OBVIOUS
  <2> HIDE DEF g
  <2>2. /\ h = [d \in 0..m |-> h[d]]
        /\ \A d \in 0..m : h[d] = IF d = 0 THEN first ELSE g[d - 1] \cup D!Children(v, g[d - 1])
        BY DEF h
  <2> QED BY <2>1, <2>2
<1>7. h = [d \in 0..m |-> IF d = 0 THEN first ELSE g[d - 1] \cup D!Children(v, g[d - 1])]
      OBVIOUS
<1> HIDE DEF g, h
<1>8. \A d \in 0..m : d = 0 \/ d - 1 \in 0..(m - 1)
      BY <1>3
<1>9. \A d \in 0..(m - 1) : d \in 0..m
      BY <1>3
<1>10. \A d \in 0..(m - 1) : g[d] = f[d]
      BY <1>5, <1>6, <1>9
<1>11. \A d \in 0..m : g[d] = h[d]
      BY <1>6, <1>8, <1>10
<1>12. g = h
      BY <1>6, <1>11, SameFunction
<1>13. Levels(g, v, roots, m)
      BY <1>7, <1>12 DEF Levels, first
<1>14. m \notin S
      BY <1>13 DEF S
<1> QED BY <1>1, <1>14

LEMMA WayUp ==
    ASSUME D!TypeOK, NEW o \in D!Orgs
    PROVE  /\ D!Way(o) = {o} \cup (IF parent[o] = 0 THEN {} ELSE D!Way(parent[o]))
<1> DEFINE up == CHOOSE f : Below(f, MaxOrgs)
<1>1. MaxOrgs \in 0..MaxOrgs /\ D!Orgs \cup {0} = 0..MaxOrgs
      BY DirectoryLimits
<1>2. Below(up, MaxOrgs)
      BY <1>1, SomeWays
<1>3. \A n : D!Way(n) = up[n]
      BY <1>1 DEF D!Way, Below
<1> HIDE DEF up
<1>4. \A n \in 0..MaxOrgs : up[n] = IF n = 0 THEN {} ELSE {n} \cup up[parent[n]]
      BY <1>2 DEF Below
<1>5. o \in 0..MaxOrgs /\ o # 0 /\ parent[o] \in 0..MaxOrgs /\ 0 \in 0..MaxOrgs
      BY DirectoryLimits DEF D!TypeOK
<1> QED BY <1>3, <1>4, <1>5

LEMMA TreeLevels ==
    ASSUME NEW v, NEW roots
    PROVE  \E f : Levels(f, v, roots, MaxDepth) /\ D!Tree(v, roots) = f[MaxDepth]
<1> DEFINE upTo == CHOOSE f : Levels(f, v, roots, MaxDepth)
<1>1. Levels(upTo, v, roots, MaxDepth)
      BY DirectoryLimits, SomeLevels
<1>2. D!Tree(v, roots) = upTo[MaxDepth]
      BY DEF D!Tree, Levels
<1> QED BY <1>1, <1>2

(* The way from o has the organizations up to o only, and is one longer    *)
(* than the way from its parent.                                           *)
Length(o) == Cardinality(D!Way(o))

LEMMA WayBelow ==
    ASSUME D!TypeOK, NEW o \in D!Orgs
    PROVE  D!Way(o) \subseteq 1..o
<1> DEFINE S == {n \in D!Orgs : ~ (D!Way(n) \subseteq 1..n)}
<1> SUFFICES ASSUME S # {} PROVE FALSE
    OBVIOUS
<1>1. S \subseteq Nat
      BY DirectoryLimits
<1>2. PICK m \in S : \A n \in S : m <= n
  <2> HIDE DEF S
  <2> QED BY <1>1, Least
<1>3. /\ m \in D!Orgs /\ m \in Nat /\ m > 0 /\ parent[m] \in 0..MaxOrgs /\ parent[m] < m
      /\ D!Way(m) = {m} \cup (IF parent[m] = 0 THEN {} ELSE D!Way(parent[m]))
  <2>1. m \in D!Orgs
        OBVIOUS
  <2>2. m \in Nat /\ m > 0
        BY <2>1, DirectoryLimits
  <2> HIDE DEF S
  <2> QED BY <2>1, <2>2, WayUp DEF D!TypeOK
<1>4. ~ (D!Way(m) \subseteq 1..m)
      OBVIOUS
<1>5. CASE parent[m] = 0
  <2> HIDE DEF S
  <2> QED BY <1>3, <1>4, <1>5
<1>6. CASE parent[m] # 0
  <2>1. parent[m] \in D!Orgs /\ ~ (m <= parent[m])
    <3> HIDE DEF S
    <3> QED BY <1>3, <1>6, DirectoryLimits
  <2>2. parent[m] \notin S
    <3> HIDE DEF S
    <3> QED BY <1>2, <2>1
  <2>3. D!Way(parent[m]) \subseteq 1..parent[m]
        BY <2>1, <2>2
  <2> HIDE DEF S
  <2>4. 1..parent[m] \subseteq 1..m
        BY <1>3
  <2>5. m \in 1..m
        BY <1>3
  <2> QED BY <1>3, <1>4, <1>6, <2>3, <2>4, <2>5
<1> QED BY <1>5, <1>6

LEMMA WayLength ==
    ASSUME D!TypeOK, NEW o \in D!Orgs
    PROVE  /\ o \in D!Way(o) /\ Length(o) \in Nat /\ Length(o) >= 1
           /\ parent[o] = 0 => D!Way(o) = {o} /\ Length(o) = 1
           /\ parent[o] # 0 => /\ parent[o] \in D!Orgs
                               /\ D!Way(o) = {o} \cup D!Way(parent[o])
                               /\ Length(parent[o]) \in Nat /\ Length(parent[o]) >= 1
                               /\ Length(o) = Length(parent[o]) + 1
<1>1. /\ o \in Nat /\ o > 0 /\ parent[o] \in 0..MaxOrgs /\ parent[o] < o
      /\ D!Way(o) = {o} \cup (IF parent[o] = 0 THEN {} ELSE D!Way(parent[o]))
      BY DirectoryLimits, WayUp DEF D!TypeOK
<1>2. \A n \in D!Orgs : /\ n \in D!Way(n) /\ IsFiniteSet(D!Way(n))
                         /\ Length(n) \in Nat /\ Length(n) >= 1
  <2> SUFFICES ASSUME NEW n \in D!Orgs
               PROVE  n \in D!Way(n) /\ IsFiniteSet(D!Way(n)) /\ Length(n) \in Nat /\ Length(n) >= 1
      OBVIOUS
  <2>1. n \in D!Way(n) /\ D!Way(n) \subseteq 1..n /\ n \in Nat
        BY WayUp, WayBelow, DirectoryLimits
  <2>2. IsFiniteSet(1..n)
        BY <2>1, UpToFinite
  <2>3. IsFiniteSet(D!Way(n))
        BY <2>1, <2>2, FS_Subset
  <2>4. Cardinality(D!Way(n)) \in Nat /\ Cardinality(D!Way(n)) # 0
        BY <2>1, <2>3, FS_CardinalityType, FS_EmptySet
  <2> QED BY <2>1, <2>3, <2>4 DEF Length
<1>3. CASE parent[o] = 0
  <2>1. D!Way(o) = {o}
        BY <1>1, <1>3
  <2>2. Length(o) = 1
        BY <2>1, FS_Singleton DEF Length
  <2> QED BY <1>2, <1>3, <2>1, <2>2
<1>4. CASE parent[o] # 0
  <2>1. parent[o] \in D!Orgs /\ D!Way(o) = D!Way(parent[o]) \cup {o}
        BY <1>1, <1>4, DirectoryLimits
  <2>2. o \notin D!Way(parent[o])
    <3>1. D!Way(parent[o]) \subseteq 1..parent[o]
          BY <2>1, WayBelow
    <3>2. o \notin 1..parent[o]
          BY <1>1
    <3> QED BY <3>1, <3>2
  <2>3. IsFiniteSet(D!Way(parent[o]))
        BY <1>2, <2>1
  <2>4. Cardinality(D!Way(parent[o]) \cup {o}) = Cardinality(D!Way(parent[o])) + 1
        BY <2>2, <2>3, FS_AddElement
  <2>5. Length(o) = Length(parent[o]) + 1
        BY <2>1, <2>4 DEF Length
  <2> QED BY <1>2, <1>4, <2>1, <2>5
<1> QED BY <1>3, <1>4

(* Each level of the tree has the organizations that may be opened with    *)
(* all that are above them, and that are no deeper than the level.         *)
Reachable(v, o, d) == (\A n \in D!Way(o) : D!CanOpen(v, n)) /\ Length(o) <= d + 1

LEMMA LevelsFollow ==
    ASSUME D!TypeOK, NEW v, NEW N \in Nat, NEW f, Levels(f, v, D!Roots, N), NEW k \in 0..N
    PROVE  f[k] = {o \in D!Orgs : Reachable(v, o, k)}
<1> DEFINE S == {d \in 0..N : f[d] # {o \in D!Orgs : Reachable(v, o, d)}}
<1> SUFFICES ASSUME S # {} PROVE FALSE
    OBVIOUS
<1>1. S \subseteq Nat
      OBVIOUS
<1>2. PICK m \in S : \A d \in S : m <= d
  <2> HIDE DEF S
  <2> QED BY <1>1, Least
<1>3. m \in 0..N /\ f[m] # {o \in D!Orgs : Reachable(v, o, m)}
      OBVIOUS
<1>4. f[m] = IF m = 0 THEN {o \in D!Roots \cap D!Existing : D!CanView(v, o)}
             ELSE f[m - 1] \cup D!Children(v, f[m - 1])
      BY <1>3 DEF Levels
<1>5. CASE m = 0
  <2> HIDE DEF S
  <2>1. ASSUME NEW o \in D!Orgs
        PROVE  Reachable(v, o, 0) <=> o \in D!Roots \cap D!Existing /\ D!CanView(v, o)
    <3>1. o \in D!Roots \cap D!Existing /\ D!CanView(v, o) <=> parent[o] = 0 /\ D!CanOpen(v, o)
          BY DEF D!Roots, D!CanOpen
    <3>2. Length(o) <= 1 <=> parent[o] = 0
          BY WayLength
    <3>3. parent[o] = 0 => D!Way(o) = {o}
          BY WayLength
    <3> QED BY <3>1, <3>2, <3>3 DEF Reachable
  <2>2. D!Roots \subseteq D!Orgs
        BY DEF D!Roots, D!Existing
  <2> QED BY <1>3, <1>4, <1>5, <2>1, <2>2
<1>6. CASE m # 0
  <2>1. m - 1 \in 0..N /\ m \in Nat /\ ~ (m <= m - 1)
    <3> HIDE DEF S
    <3> QED BY <1>3, <1>6
  <2>2. m - 1 \notin S
    <3> HIDE DEF S
    <3> QED BY <1>2, <2>1
  <2>3. f[m - 1] = {o \in D!Orgs : Reachable(v, o, m - 1)}
        BY <2>1, <2>2
  <2> HIDE DEF S
  <2>4. PICK above : above = f[m - 1]
        OBVIOUS
  <2>5. \A o \in D!Orgs : o \in above <=> (\A n \in D!Way(o) : D!CanOpen(v, n)) /\ Length(o) <= m
        BY <2>1, <2>3, <2>4 DEF Reachable
  <2>6. ASSUME NEW o \in D!Orgs
        PROVE  Reachable(v, o, m) <=> o \in above \cup D!Children(v, above)
    <3>1. o \in D!Children(v, above) <=> D!CanOpen(v, o) /\ parent[o] \in above
          BY DEF D!Children, D!CanOpen
    <3>2. CASE parent[o] = 0
      <4>1. D!Way(o) = {o} /\ Length(o) = 1
            BY <3>2, WayLength
      <4>2. parent[o] \notin above
        <5>1. above \subseteq D!Orgs /\ 0 \notin D!Orgs
              BY <2>3, <2>4, DirectoryLimits
        <5> QED BY <3>2, <5>1
      <4>3. 1 <= m /\ 1 <= m + 1
            BY <1>6, <2>1
      <4> QED BY <2>5, <3>1, <4>1, <4>2, <4>3 DEF Reachable
    <3>3. CASE parent[o] # 0
      <4>1. /\ parent[o] \in D!Orgs /\ D!Way(o) = {o} \cup D!Way(parent[o])
            /\ Length(parent[o]) \in Nat /\ Length(o) = Length(parent[o]) + 1
            BY <3>3, WayLength
      <4>2. Length(parent[o]) <= m <=> Length(o) <= m + 1
            BY <2>1, <4>1
      <4>3. Length(o) <= m => Length(o) <= m + 1
            BY <2>1, <4>1
      <4>4. parent[o] \in above <=>
               (\A n \in D!Way(parent[o]) : D!CanOpen(v, n)) /\ Length(parent[o]) <= m
            BY <2>5, <4>1
      <4> QED BY <2>5, <3>1, <4>1, <4>2, <4>3, <4>4 DEF Reachable
    <3> QED BY <3>2, <3>3
  <2>7. above \cup D!Children(v, above) \subseteq D!Orgs
        BY <2>3, <2>4 DEF D!Children, D!Existing
  <2> QED BY <1>3, <1>4, <1>6, <2>4, <2>6, <2>7
<1> QED BY <1>5, <1>6

LEMMA TreeFollows == ASSUME D!TypeOK PROVE D!TreeFollowsAncestors
<1> SUFFICES ASSUME NEW v \in D!Viewers, NEW o \in D!Orgs
             PROVE  o \in D!Tree(v, D!Roots) <=> Reachable(v, o, MaxDepth)
    BY SameCount DEF D!TreeFollowsAncestors, Reachable, Length
<1>1. PICK f : Levels(f, v, D!Roots, MaxDepth) /\ D!Tree(v, D!Roots) = f[MaxDepth]
      BY TreeLevels
<1>2. MaxDepth \in Nat /\ MaxDepth \in 0..MaxDepth
      BY DirectoryLimits
<1>3. f[MaxDepth] = {n \in D!Orgs : Reachable(v, n, MaxDepth)}
      BY <1>1, <1>2, LevelsFollow
<1> QED BY <1>1, <1>3

(* Whatever order answers arrive in, the message list is newest first      *)
(* until older pages are asked for and hides no processed message, for     *)
(* any page size and any requests (the conversation page); every listing   *)
(* shows a viewer what get_organization would open, the tree exactly what  *)
(* is reached through such organizations, and the walk to the last page    *)
(* everything that stayed visible, for any organizations, page size,       *)
(* limit and depth (directory and organizations).                          *)
THEOREM ListingsAreSound == WebSpec => []ListingsSound
<1>1. WebInit => ChatInv /\ DirectoryInv
      BY ChatStarts, DirectoryStarts DEF WebInit
<1>2. ChatInv /\ DirectoryInv /\ [WebNext]_webVars => ChatInv' /\ DirectoryInv'
  <2> SUFFICES ASSUME ChatInv, DirectoryInv, [WebNext]_webVars
               PROVE  ChatInv' /\ DirectoryInv'
      OBVIOUS
  <2>1. [L!Next]_lvars
        BY DEF WebNext, SceneStep, ClientStep, ChatStep, DirectoryStep, webVars
  <2>2. [D!Next]_dvars
        BY DEF WebNext, SceneStep, ClientStep, ChatStep, DirectoryStep, webVars
  <2> QED BY <2>1, <2>2, ChatStepKeeps, DirectoryStepKeeps
<1>3. ChatInv /\ DirectoryInv => ListingsSound
  <2> SUFFICES ASSUME ChatInv, DirectoryInv PROVE ListingsSound
      OBVIOUS
  <2>1. L!TypeOK /\ L!ListInOrder /\ L!NothingHidden
        BY ChatSound
  <2>2. D!TypeOK
        BY DirectoryTyped
  <2>3. D!ShownCanBeOpened /\ D!RecommendsOthers /\ D!TreeFollowsAncestors /\ D!WalkComplete
        BY <2>2, ShownOnlyOpened, RecommendedFew, TreeFollows, WalkIsComplete
  <2> QED BY <2>1, <2>2, <2>3 DEF ListingsSound
<1> QED BY <1>1, <1>2, <1>3, PTL DEF WebSpec
=============================================================================
