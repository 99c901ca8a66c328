------------------------------ MODULE ScenePage ------------------------------
(***************************************************************************)
(* Two ways into a scene beside the routes that SceneLifecycle models: the *)
(* demo page of the dorm dinner (/scenes/dorm_dinner/... in scenes/api.py) *)
(* and the hub of the web client (scenes/page.tsx), with the creation of a *)
(* scene that both use (create_scene_instance).                            *)
(*                                                                         *)
(* The page opens the newest dinner its user takes part in; without one it *)
(* creates, publishes and opens a scene in three commits.  It adds its own *)
(* candidates to a scene without any and writes votes and the result       *)
(* without looking at the phase.  The hub publishes and opens a draft with *)
(* two requests.  Several requests overlap; a request may die between its  *)
(* commits.  What a request loaded is not loaded again, or it is, if the   *)
(* object was released: seen is the status it may still believe.           *)
(***************************************************************************)
EXTENDS SceneStates, Integers, Sequences, FiniteSets

CONSTANTS Users, Workers,
          DemoKeys,     \* the candidate keys that the page adds
          PluginKey,    \* the candidate of a generation
          MaxScenes,    \* bound: creations begin while there are fewer scenes
          MaxCrashes    \* bound: requests that die between their steps

PageAssumption ==
    Users # {} /\ PluginKey \notin DemoKeys /\ MaxScenes \in Nat /\ MaxCrashes \in Nat

VARIABLES scene,        \* the rows of scene_instances, oldest first
          worker,       \* the request of each worker
          crashes

vars == <<scene, worker, crashes>>

Offers == DemoKeys \cup {PluginKey}
Nothing == "nothing"
(* Keys of creation: the page's for a user, and one that a client retries. *)
IdempotencyKeys == {"page", "client"} \X Users

(* part is the status of a user's row, if there is one; chosen is the      *)
(* candidate that the row of the result selects, if there is one.          *)
Participation == {Nothing, "INVITED", "ACCEPTED", "DECLINED", "LEFT"}
Unselected == "unselected"
Instance ==
    [creator : Users, key : IdempotencyKeys, part : [Users -> Participation],
     status : SceneState, candidates : SUBSET Offers,
     submission : [Users -> {Nothing, "live", "deleted"}],
     vote : [Users -> Offers \cup {Nothing}],
     chosen : Offers \cup {Nothing, Unselected}]

Goals == {"status", "submit", "list", "vote", "confirm", "unvote", "create", "hub"}
Request ==
    [at : {"idle", "check", "insert", "read", "write", "submit", "candidates", "fill", "save"},
     user : Users, goal : Goals, kind : {"page", "client"}, scene : Nat,
     action : SceneActions, seen : SceneState, pick : Offers \cup {Nothing},
     was : Offers \cup {Nothing, Unselected}]
Idle ==
    [at |-> "idle", user |-> CHOOSE u \in Users : TRUE, goal |-> "status", kind |-> "page",
     scene |-> 0, action |-> "publish", seen |-> "DRAFT", pick |-> Nothing, was |-> Nothing]

Init ==
    /\ scene = <<>>
    /\ worker = [w \in Workers |-> Idle]
    /\ crashes = 0

At(w, step) == worker[w].at = step
Become(w, request) == worker' = [worker EXCEPT ![w] = request] /\ UNCHANGED crashes
Think(w, request) == Become(w, request) /\ UNCHANGED scene
Done(w) == Think(w, Idle)
Mine(w) == scene[worker[w].scene]
Update(i, row) == scene' = [scene EXCEPT ![i] = row]
Save(w, row) == Update(worker[w].scene, row)

(* Mutant: the newest scene, whoever takes part in it. *)
DinnersOfAll(u) == DOMAIN scene

(* The dorm dinners in which the user has a participant row of any status. *)
Dinners(u) == {i \in DOMAIN scene : scene[i].part[u] # Nothing}

Latest(u) == {i \in Dinners(u) : \A j \in Dinners(u) : j <= i}

(* What remains to do once the scene is found or opened. *)
Continue(r) ==
    CASE r.goal = "submit" /\ r.seen = "COLLECTING_PRIVATE_INPUT" -> [r EXCEPT !.at = "submit"]
      [] r.goal \in {"list", "vote", "confirm", "unvote"} -> [r EXCEPT !.at = "candidates"]
      [] OTHER -> Idle

(* _open_dorm_dinner_instance; a request to take a vote back only looks.   *)
Open(w, u, goal) ==
    LET request == [Idle EXCEPT !.user = u, !.goal = goal] IN
    /\ At(w, "idle")
    /\ \/ /\ Dinners(u) = {} /\ goal # "unvote" /\ Len(scene) < MaxScenes
          /\ Think(w, [request EXCEPT !.at = "check"])
       \/ \E i \in Latest(u) :
             Think(w, Continue([request EXCEPT !.scene = i, !.seen = scene[i].status]))

(* POST /scenes with a key, perhaps again. *)
CreateScene(w, u) ==
    /\ At(w, "idle")
    /\ Len(scene) < MaxScenes
    /\ Think(w, [Idle EXCEPT !.at = "check", !.user = u, !.goal = "create", !.kind = "client"])

Created(key) == {i \in DOMAIN scene : scene[i].key = key}

(* Mutant: only a scene that is still under way answers a creation. *)
CheckKeyActive(w) ==
    LET r == worker[w]
        found == {i \in Created(<<r.kind, r.user>>) : scene[i].status \in ActiveStates} IN
    /\ At(w, "check")
    /\ \/ /\ found = {}
          /\ Think(w, [r EXCEPT !.at = "insert"])
       \/ \E i \in found :
             IF r.goal = "create"
             THEN Done(w)
             ELSE Think(w, [r EXCEPT !.at = "read", !.scene = i, !.seen = scene[i].status])

(* create_scene_instance: a scene with the key answers the request, and the *)
(* page goes on to publish it.                                             *)
CheckKey(w) ==
    LET r == worker[w]
        found == Created(<<r.kind, r.user>>) IN
    /\ At(w, "check")
    /\ \/ /\ found = {}
          /\ Think(w, [r EXCEPT !.at = "insert"])
       \/ \E i \in found :
             IF r.goal = "create"
             THEN Done(w)
             ELSE Think(w, [r EXCEPT !.at = "read", !.scene = i, !.seen = scene[i].status])

(* The creator takes part at once; a client invites others. *)
InsertScene(w, invited) ==
    LET r == worker[w]
        new == [creator |-> r.user, key |-> <<r.kind, r.user>>,
                part |-> [u \in Users |-> IF u = r.user THEN "ACCEPTED"
                                         ELSE IF u \in invited THEN "INVITED" ELSE Nothing],
                status |-> "DRAFT", candidates |-> {},
                submission |-> [u \in Users |-> Nothing],
                vote |-> [u \in Users |-> Nothing], chosen |-> Nothing] IN
    /\ At(w, "insert")
    /\ r.kind = "page" => invited = {}
    /\ scene' = Append(scene, new)
    /\ Become(w, IF r.goal = "create" THEN Idle
                 ELSE [r EXCEPT !.at = "read", !.scene = Len(scene) + 1, !.seen = "DRAFT"])

(* The hub publishes a draft, or the creator names another action; a hub   *)
(* that shows an old list asks for what the scene no longer allows.        *)
Transition(w, i, action) ==
    /\ At(w, "idle")
    /\ Think(w, [Idle EXCEPT !.at = "read", !.user = scene[i].creator, !.goal = "hub",
                             !.scene = i, !.action = action, !.seen = scene[i].status])

(* transition_state refuses what the status it believes does not allow.    *)
ReadTransition(w) ==
    LET r == worker[w] IN
    /\ At(w, "read")
    /\ \E s \in {Mine(w).status} \cup (IF r.goal = "hub" THEN {} ELSE {r.seen}) :
          IF Targets(s, r.action) = {}
          THEN Done(w)
          ELSE Think(w, [r EXCEPT !.at = "write", !.seen = s])

(* Mutant: a published scene is not opened for input. *)
AfterTransitionOnly(r) == Continue(r)

(* A publication is followed by the opening of the scene. *)
AfterTransition(r) ==
    IF r.action = "publish"
    THEN [r EXCEPT !.at = "read", !.action = "start_collecting"]
    ELSE Continue(r)

WriteTransition(w) ==
    /\ At(w, "write")
    /\ \E s \in Targets(worker[w].seen, worker[w].action) :
          /\ Save(w, [Mine(w) EXCEPT !.status = s])
          /\ Become(w, AfterTransition([worker[w] EXCEPT !.seen = s]))

(* submit_private_preferences with the status seen before the body of the  *)
(* request arrived; a deleted row still holds the unique key.              *)
Submit(w) ==
    LET u == worker[w].user IN
    /\ At(w, "submit")
    /\ IF Mine(w).part[u] = "ACCEPTED" /\ Mine(w).submission[u] # "deleted"
       THEN Save(w, [Mine(w) EXCEPT !.submission[u] = "live"]) /\ Become(w, Idle)
       ELSE Done(w)

DeletePreference(u, i) ==
    /\ \E w \in Workers : At(w, "idle")
    /\ scene[i].submission[u] = "live"
    /\ Update(i, [scene[i] EXCEPT !.submission[u] = "deleted"])
    /\ UNCHANGED <<worker, crashes>>

(* The candidate of the key, or IGNORED, and the row that is there.        *)
Pick(r, k, offered, row) ==
    IF r.goal = "list" \/ k \notin offered
    THEN Idle
    ELSE [r EXCEPT !.at = "save", !.pick = k,
                   !.was = IF r.goal = "confirm" THEN row.chosen ELSE row.vote[r.user]]

ListCandidates(w, k) ==
    /\ At(w, "candidates")
    /\ IF Mine(w).candidates = {}
       THEN Think(w, [worker[w] EXCEPT !.at = "fill"])
       ELSE Think(w, Pick(worker[w], k, Mine(w).candidates, Mine(w)))

(* _ensure_demo_candidates: one commit, refused if a key is there already. *)
Fill(w, k) ==
    /\ At(w, "fill")
    /\ IF DemoKeys \cap Mine(w).candidates = {}
       THEN /\ Save(w, [Mine(w) EXCEPT !.candidates = Mine(w).candidates \cup DemoKeys])
            /\ Become(w, Pick(worker[w], k, DemoKeys, Mine(w)))
       ELSE Done(w)

(* A second row breaks the unique key; an update of a row that is gone     *)
(* fails too.                                                              *)
Upsert(was, now) == (was = Nothing) = (now = Nothing)

SaveVote(w) ==
    LET r == worker[w] IN
    /\ At(w, "save") /\ r.goal = "vote"
    /\ IF Upsert(r.was, Mine(w).vote[r.user])
       THEN Save(w, [Mine(w) EXCEPT !.vote[r.user] = r.pick]) /\ Become(w, Idle)
       ELSE Done(w)

DeleteVote(w) ==
    LET r == worker[w] IN
    /\ At(w, "save") /\ r.goal = "unvote"
    /\ IF r.was = r.pick
       THEN Save(w, [Mine(w) EXCEPT !.vote[r.user] = Nothing]) /\ Become(w, Idle)
       ELSE Done(w)

Confirm(w) ==
    LET r == worker[w] IN
    /\ At(w, "save") /\ r.goal = "confirm"
    /\ IF Upsert(r.was, Mine(w).chosen)
       THEN Save(w, [Mine(w) EXCEPT !.chosen = r.pick]) /\ Become(w, Idle)
       ELSE Done(w)

(* accept_invitation, decline_invitation and leave *)
Participate(u, i, status) ==
    /\ \E w \in Workers : At(w, "idle")
    /\ scene[i].part[u] # Nothing /\ scene[i].part[u] # status
    /\ status = "ACCEPTED" => scene[i].part[u] = "INVITED"
    /\ status = "LEFT" => u # scene[i].creator
    /\ Update(i, [scene[i] EXCEPT !.part[u] = status])
    /\ UNCHANGED <<worker, crashes>>

(* Nothing is proposed when nobody submitted.  A result that is there      *)
(* already makes the generation break its unique key; the submissions are  *)
(* purged after it.                                                        *)
Generated(row, best) ==
    IF row.chosen # Nothing
    THEN [row EXCEPT !.status = "GENERATING_CANDIDATES"]
    ELSE [row EXCEPT !.status = "VOTING",
                     !.candidates = row.candidates \cup (IF best = Nothing THEN {} ELSE {PluginKey}),
                     !.chosen = IF best = Nothing THEN Unselected ELSE best,
                     !.submission = [u \in Users |-> IF row.submission[u] = "live" THEN "deleted"
                                                     ELSE row.submission[u]]]

(* POST /process in one step (SceneLifecycle has its commits) *)
Process(i) ==
    LET asked == \E u \in Users : scene[i].submission[u] = "live" IN
    /\ \E w \in Workers : At(w, "idle")
    /\ scene[i].status = "COLLECTING_PRIVATE_INPUT"
    /\ \E best \in IF asked THEN {PluginKey, Unselected} ELSE {Nothing} :
          Update(i, Generated(scene[i], best))
    /\ UNCHANGED <<worker, crashes>>

Crash(w) ==
    /\ ~ At(w, "idle")
    /\ crashes < MaxCrashes
    /\ crashes' = crashes + 1
    /\ worker' = [worker EXCEPT ![w] = Idle]
    /\ UNCHANGED scene

HubActions == {"publish", "voting_complete", "confirm", "cancel"}

WorkerStep(w) ==
    \/ CheckKey(w) \/ (\E invited \in SUBSET (Users \ {worker[w].user}) : InsertScene(w, invited))
    \/ ReadTransition(w) \/ WriteTransition(w) \/ Submit(w)
    \/ (\E k \in Offers : ListCandidates(w, k)) \/ (\E k \in DemoKeys : Fill(w, k))
    \/ SaveVote(w) \/ DeleteVote(w) \/ Confirm(w)

Next ==
    \/ \E w \in Workers :
          \/ WorkerStep(w) \/ Crash(w)
          \/ \E u \in Users :
                \/ \E goal \in Goals \ {"create", "hub"} : Open(w, u, goal)
                \/ CreateScene(w, u)
          \/ \E i \in DOMAIN scene, action \in HubActions : Transition(w, i, action)
    \/ \E i \in DOMAIN scene :
          \/ Process(i)
          \/ \E u \in Users :
                \/ DeletePreference(u, i)
                \/ \E status \in {"ACCEPTED", "DECLINED", "LEFT"} : Participate(u, i, status)

Spec == Init /\ [][Next]_vars

-----------------------------------------------------------------------------
(***************************************************************************)
(* Properties                                                              *)
(***************************************************************************)

(* Scenes and requests have the columns and fields of the code's rows.     *)
TypeOK ==
    /\ scene \in Seq(Instance)
    /\ worker \in [Workers -> Request]
    /\ crashes \in 0 .. MaxCrashes

(* A key creates one scene, however often its request is sent again, after *)
(* answers and after crashes (create_scene_instance; stated for requests   *)
(* served in turn, since the column has no unique key).                    *)
OneScenePerKey ==
    \A i, j \in DOMAIN scene : scene[i].key = scene[j].key => i = j

(* Without a crash, when nothing is under way, no scene is left between    *)
(* publication and opening, and none that the page made is left a draft:   *)
(* however page loads, tabs and cancellations overtake each other, the     *)
(* last to publish a scene also opens it.                                  *)
PublishedIsOpened ==
    crashes = 0 /\ (\A w \in Workers : worker[w] = Idle) =>
       \A i \in DOMAIN scene :
          /\ scene[i].status # "INVITING"
          /\ scene[i].key[1] = "page" => scene[i].status # "DRAFT"

(* The candidates of the page are in a scene all or not at all, so that    *)
(* the test for "any" in _ensure_demo_candidates is one for "all"; votes   *)
(* and the confirmed choice are for candidates of the very scene, and      *)
(* votes come from users who were asked to it, though the page checks      *)
(* neither phase nor acceptance and a generation adds to the candidates.   *)
ChoicesSound ==
    \A i \in DOMAIN scene :
       /\ DemoKeys \subseteq scene[i].candidates \/ DemoKeys \cap scene[i].candidates = {}
       /\ scene[i].chosen \in scene[i].candidates \cup {Nothing, Unselected}
       /\ \A u \in Users : scene[i].vote[u] # Nothing =>
             scene[i].vote[u] \in scene[i].candidates /\ scene[i].part[u] # Nothing
=============================================================================
