------------------------- MODULE ChatDinner_proofs -------------------------
(***************************************************************************)
(* Proofs about the dinner in a chat, for any members, threads, candidate  *)
(* keys and number of scenes and negotiations.                             *)
(*                                                                         *)
(* None of the properties is inductive.  Those of the scenes hold because  *)
(* the event loop is taken while a request is between two of its steps:    *)
(* what is true of the scene it is at until then has to be said of every   *)
(* step it can be at (LoopAt), and that only a negotiation publishes       *)
(* candidates (Unpublished).  The choice of the plugin and the search for  *)
(* evidence have invariants of their own (ChoiceInv, SearchInv): what a    *)
(* relaxed filter, a ranking and a fold over results leave.                *)
(* The demo data have DemoDataInv: how far from the demo users the rows    *)
(* are that a reset collects, and that nothing is left of a table it has   *)
(* been through.                                                           *)
(***************************************************************************)
EXTENDS MCDinner, FiniteSetTheorems, SequenceTheorems, WellFoundedInduction, TLAPS

(* The rows as ChatTypeOK has them, without a bound on the negotiations.   *)
AnyContext == [history : Nat, requesters : SUBSET Members, begun : BOOLEAN]
AnyRow == [status : Status, creator : Members, context : AnyContext]

AnyJob == [at : Steps, user : Members, scene : Scenes, read : AnyRow, choice : Choices]

Shape ==
    /\ scene \in [Scenes -> AnyRow]
    /\ candidate \in [Scenes -> [keys : SUBSET Keys, from : SUBSET Members]]
    /\ vote \in [Scenes -> [Members -> Keys \cup {NoVote}]]
    /\ submitted \in [Scenes -> SUBSET Members]
    /\ job \in [Servers -> AnyJob]

(* No candidate is published before the scene is voted on. *)
Early == {"ABSENT", "DRAFT", "COLLECTING"}
Unpublished == \A i \in Scenes : scene[i].status \in Early => candidate[i].keys = {}

(* What holds of the scene while the event loop is at it. *)
OnlyOpen(i) == \A j \in Scenes : IsCurrent(j) => j = i
Starting == {"initialise", "recover"}
Negotiating == {"negotiate", "post"}
LoopAt(now) ==
    /\ now.at \in Starting \cup Negotiating => OnlyOpen(now.scene)
    /\ now.at \in Starting \cup {"submit"} => candidate[now.scene].keys = {}
    /\ now.at \in Negotiating /\ now.read.status \notin Early
          => scene[now.scene].status \notin Early
    /\ now.at = "vote" => now.choice \in candidate[now.scene].keys
    /\ now.at = "post" => ~ Voted(now.scene)

IInv == /\ Shape /\ OneCurrentScene /\ VoteForOffered /\ EveryPreferenceCounted
        /\ Unpublished /\ LoopAt(job[Loop])

-----------------------------------------------------------------------------
LEMMA IdleShape ==
    ASSUME BoundsAssumption, ServersAssumption
    PROVE  Absent \in AnyRow /\ AtRest \in AnyJob /\ Loop \in Servers
<1>1. Absent.creator \in Members
      BY DEF Absent, ServersAssumption
<1>2. NoContext \in AnyContext
      BY DEF NoContext, AnyContext
<1>3. Absent \in AnyRow
      BY <1>1, <1>2 DEF Absent, AnyRow, Status, Open
<1>4. 1 \in Scenes
      BY DEF Scenes, BoundsAssumption
<1> QED BY <1>1, <1>3, <1>4 DEF AtRest, AnyJob, Servers, Steps, Choices

(* A request that changes no row leaves the invariant if what it makes the *)
(* loop do next agrees with the rows.                                      *)
LEMMA RowsKept ==
    ASSUME IInv, UNCHANGED rows, job' \in [Servers -> AnyJob], LoopAt(job'[Loop])
    PROVE  IInv'
<1>1. Shape' /\ OneCurrentScene' /\ VoteForOffered' /\ EveryPreferenceCounted' /\ Unpublished'
      BY DEF IInv, rows, Shape, OneCurrentScene, IsCurrent, VoteForOffered,
             EveryPreferenceCounted, Unpublished
<1>2. LoopAt(job[Loop])'
      BY DEF rows, LoopAt, OnlyOpen, IsCurrent, Voted
<1> QED BY <1>1, <1>2 DEF IInv

(* The request of another server than the loop. *)
LEMMA ThreadKept ==
    ASSUME IInv, ServersAssumption, NEW t \in Threads, UNCHANGED rows,
           NEW j \in AnyJob, job' = [job EXCEPT ![t] = j]
    PROVE  IInv'
<1>1. job' \in [Servers -> AnyJob] /\ job'[Loop] = job[Loop]
      BY DEF IInv, Shape, Servers, Loop, ServersAssumption
<1> QED BY <1>1, RowsKept DEF IInv

LEMMA LoopKept ==
    ASSUME IInv, UNCHANGED rows, NEW j \in AnyJob, LoopAt(j),
           job' = [job EXCEPT ![Loop] = j]
    PROVE  IInv'
<1>1. job' \in [Servers -> AnyJob] /\ job'[Loop] = j
      BY DEF IInv, Shape, Servers
<1> QED BY <1>1, RowsKept

LEMMA IdleAgrees == LoopAt(AtRest)
BY DEF LoopAt, AtRest, Starting, Negotiating

(* What a request holds of the scene it is at. *)
Held(at, u, i, choice) ==
    [at |-> at, user |-> u, scene |-> i,
     read |-> IF at \in Holders THEN scene[i] ELSE Absent, choice |-> choice]

LEMMA HeldShape ==
    ASSUME IInv, BoundsAssumption, ServersAssumption,
           NEW at \in Steps, NEW u \in Members, NEW i \in Scenes,
           NEW choice \in Choices
    PROVE  Held(at, u, i, choice) \in AnyJob
<1>1. scene[i] \in AnyRow
      BY DEF IInv, Shape
<1> QED BY <1>1, IdleShape DEF Held, AnyJob

(* The newest open scene is the only one. *)
LEMMA NewestAlone ==
    ASSUME IInv, NEW i \in Scenes, Newest(i)
    PROVE  OnlyOpen(i)
BY DEF IInv, OneCurrentScene, Newest, OnlyOpen

(* The loop may take up a request for the newest scene. *)
LEMMA ServeAgrees ==
    ASSUME IInv, NEW at, at # "initialise", at # "post", NEW u, NEW i \in Scenes, NEW choice,
           Newest(i),
           at \in {"recover", "submit"} => scene[i].status \in Early,
           at = "vote" => choice \in candidate[i].keys
    PROVE  LoopAt(Held(at, u, i, choice))
<1> DEFINE h == Held(at, u, i, choice)
<1>1. h.at = at /\ h.scene = i /\ h.choice = choice
      BY DEF Held
<1>2. at = "negotiate" => h.read = scene[i]
      BY DEF Held, Holders
<1>3. OnlyOpen(i)
      BY NewestAlone
<1>4. at \in {"recover", "submit"} => candidate[i].keys = {}
      BY DEF IInv, Unpublished
<1> HIDE DEF h
<1>5. LoopAt(h)
      BY <1>1, <1>2, <1>3, <1>4 DEF LoopAt, Starting, Negotiating
<1> QED BY <1>5 DEF h

LEMMA LoopBegins ==
    ASSUME IInv, BoundsAssumption, ServersAssumption,
           NEW at \in Steps, at # "initialise", at # "post",
           NEW u \in Members, NEW i \in Scenes,
           NEW choice \in Choices,
           Newest(i), Serve(Loop, at, u, i, choice), UNCHANGED rows,
           at \in {"recover", "submit"} => scene[i].status \in Early,
           at = "vote" => choice \in candidate[i].keys
    PROVE  IInv'
<1>1. job' = [job EXCEPT ![Loop] = Held(at, u, i, choice)]
      BY DEF Serve, Held
<1> QED BY <1>1, HeldShape, ServeAgrees, LoopKept

LEMMA ThreadBegins ==
    ASSUME IInv, BoundsAssumption, ServersAssumption, NEW t \in Threads,
           NEW at \in Steps, NEW u \in Members, NEW i \in Scenes,
           Begin(t, at, u, i, "ACCEPTED")
    PROVE  IInv'
<1>1. job' = [job EXCEPT ![t] = Held(at, u, i, "ACCEPTED")] /\ UNCHANGED rows
      BY DEF Begin, Serve, Held
<1>2. Held(at, u, i, "ACCEPTED") \in AnyJob
      BY HeldShape DEF Choices
<1> QED BY <1>1, <1>2, ThreadKept

LEMMA LoopReplies ==
    ASSUME IInv, BoundsAssumption, ServersAssumption, UNCHANGED rows, Reply(Loop)
    PROVE  IInv'
BY IdleShape, IdleAgrees, LoopKept DEF Reply

-----------------------------------------------------------------------------
(* Requests *)
LEMMA StartKeeps ==
    ASSUME IInv, BoundsAssumption, ServersAssumption, NEW u \in Members, StartNew(u)
    PROVE  IInv'
<1> DEFINE draft == [Absent EXCEPT !.status = "DRAFT", !.creator = u]
<1>1. PICK i \in Scenes :
        /\ scene[i].status = "ABSENT"
        /\ scene' = [scene EXCEPT ![i] = draft]
        /\ job' = [job EXCEPT ![Loop] = [AtRest EXCEPT !.at = "initialise", !.user = u,
                                         !.scene = i, !.read = draft]]
      BY DEF StartNew
<1> DEFINE j == [AtRest EXCEPT !.at = "initialise", !.user = u, !.scene = i, !.read = draft]
<1>2. draft \in AnyRow /\ draft.status = "DRAFT"
      BY IdleShape DEF AnyRow, Status, Open
<1>3. j \in AnyJob /\ j.at = "initialise" /\ j.scene = i
      BY <1>2, IdleShape DEF AnyJob, Steps, Choices
<1>4. UNCHANGED <<submitted, candidate, vote>>
      BY DEF StartNew
<1>5. scene' \in [Scenes -> AnyRow] /\ scene'[i] = draft
      /\ \A k \in Scenes : k # i => scene'[k] = scene[k]
      BY <1>1, <1>2 DEF IInv, Shape
<1>6. job' \in [Servers -> AnyJob] /\ job'[Loop] = j
      BY <1>1, <1>3, IdleShape DEF IInv, Shape
<1>7. Shape'
      BY <1>4, <1>5, <1>6 DEF IInv, Shape
<1>8. \A k \in Scenes : IsCurrent(k)' => k = i
      BY <1>5 DEF StartNew, IsCurrent
<1>9. candidate[i].keys = {}
      BY <1>1 DEF IInv, Unpublished, Early
<1>10. OneCurrentScene' /\ VoteForOffered' /\ EveryPreferenceCounted'
      BY <1>4, <1>8 DEF IInv, OneCurrentScene, VoteForOffered, EveryPreferenceCounted
<1>11. Unpublished'
      BY <1>4, <1>5, <1>9 DEF IInv, Unpublished
<1>12. LoopAt(job[Loop])'
      BY <1>3, <1>4, <1>6, <1>8, <1>9 DEF LoopAt, Starting, Negotiating, OnlyOpen
<1> QED BY <1>7, <1>10, <1>11, <1>12 DEF IInv

LEMMA RequestKeeps ==
    ASSUME IInv, BoundsAssumption, ServersAssumption, NEW u \in Members, NewRequest(u)
    PROVE  IInv'
<1>1. CASE StartAgain(u)
      BY <1>1, LoopBegins DEF StartAgain, Begin, Recoverable, Early, Steps, Choices
<1>2. CASE SetParticipation(u)
      BY <1>2, LoopBegins DEF SetParticipation, Begin, Steps, Choices
<1>3. CASE SubmitPreferences(u)
  <2>1. PICK i \in Scenes :
           \/ scene[i].status = "COLLECTING" /\ Begin(Loop, "submit", u, i, "ACCEPTED")
           \/ Begin(Loop, "join", u, i, "ACCEPTED")
        BY <1>3 DEF SubmitPreferences
  <2> QED BY <2>1, LoopBegins DEF Begin, Early, Steps, Choices
<1>4. CASE RunDebate(u)
      BY <1>4, LoopBegins DEF RunDebate, Begin, Steps, Choices
<1>5. CASE Vote(u)
  <2>1. PICK i \in Scenes : \E key \in candidate[i].keys : Begin(Loop, "vote", u, i, key)
        BY <1>5 DEF Vote
  <2>2. PICK key \in candidate[i].keys : Begin(Loop, "vote", u, i, key)
        BY <2>1
  <2>3. key \in Keys
        BY <2>2 DEF IInv, Shape
  <2> QED BY <2>2, <2>3, LoopBegins DEF Begin, Steps, Choices
<1>6. ASSUME NEW t \in Threads,
             CloseVote(t, u) \/ EndScene(t, u) \/ RequestNextNegotiation(t, u)
      PROVE  IInv'
      BY <1>6, ThreadBegins DEF CloseVote, EndScene, RequestNextNegotiation, Steps, Choices
<1> QED BY <1>1, <1>2, <1>3, <1>4, <1>5, <1>6, StartKeeps DEF NewRequest

-----------------------------------------------------------------------------
(* The steps of the loop *)

(* The status that an update leaves. *)
LEMMA WriteStatus ==
    ASSUME Shape, NEW i \in Scenes, NEW read \in AnyRow, NEW new \in AnyRow,
           Write(i, read, new)
    PROVE  /\ scene' \in [Scenes -> AnyRow]
           /\ \A j \in Scenes : j # i => scene'[j] = scene[j]
           /\ scene'[i].status = IF new.status = read.status THEN scene[i].status
                                                              ELSE new.status
<1>1. scene[i] \in AnyRow /\ DOMAIN new = {"status", "creator", "context"}
      BY DEF Shape, AnyRow
<1> DEFINE row == [c \in DOMAIN new |-> IF new[c] = read[c] THEN scene[i][c] ELSE new[c]]
<1>2. scene' = [scene EXCEPT ![i] = row]
      BY DEF Write
<1>3. row = [status |-> IF new.status = read.status THEN scene[i].status ELSE new.status,
             creator |-> IF new.creator = read.creator THEN scene[i].creator ELSE new.creator,
             context |-> IF new.context = read.context THEN scene[i].context ELSE new.context]
      BY <1>1
<1>4. row \in AnyRow
      BY <1>1, <1>3 DEF AnyRow
<1> HIDE DEF row
<1> QED BY <1>2, <1>3, <1>4 DEF Shape

(* What the requests write is a row. *)
LEMMA EditedContext ==
    ASSUME NEW read \in AnyRow, NEW status \in Status
    PROVE  /\ Edited(read.context) \in AnyContext
           /\ [read EXCEPT !.status = status,
                           !.context = Remembering(read.context)] \in AnyRow
           /\ \A u \in Members : Asked(read, u) \in AnyRow
           /\ [read EXCEPT !.status = status,
                           !.context = [NoContext EXCEPT !.begun = TRUE]] \in AnyRow
<1>1. read.context \in AnyContext
      BY DEF AnyRow
<1>2. read.context.history + 1 \in Nat
      BY <1>1 DEF AnyContext
<1>3. Edited(read.context) \in AnyContext
      BY <1>1 DEF Edited, AnyContext
<1>4. Remembering(read.context) \in AnyContext
      BY <1>1, <1>2 DEF Remembering, Edited, AnyContext
<1>5. \A u \in Members : Asking(read.context, u) \in AnyContext
      BY <1>1 DEF Asking, Edited, AnyContext
<1>6. [NoContext EXCEPT !.begun = TRUE] \in AnyContext
      BY DEF AnyContext, NoContext
<1> QED BY <1>3, <1>4, <1>5, <1>6 DEF AnyRow, Asked

LEMMA IdleAgreesNext ==
    ASSUME job'[Loop] = AtRest
    PROVE  LoopAt(job[Loop])'
BY DEF LoopAt, AtRest, Starting, Negotiating

(* A step that changes one scene's row keeps the invariant if the scene is *)
(* open only where no other is, and early only where nothing is on offer.  *)
LEMMA SceneKept ==
    ASSUME IInv, NEW i \in Scenes, UNCHANGED <<submitted, candidate, vote>>,
           scene' \in [Scenes -> AnyRow], \A j \in Scenes : j # i => scene'[j] = scene[j],
           scene'[i].status \in Open => OnlyOpen(i),
           scene'[i].status \in Early => candidate[i].keys = {},
           job' \in [Servers -> AnyJob], LoopAt(job[Loop])'
    PROVE  IInv'
<1>1. Shape'
      BY DEF IInv, Shape
<1>2. OneCurrentScene'
      BY DEF IInv, OneCurrentScene, IsCurrent, OnlyOpen
<1>3. VoteForOffered' /\ EveryPreferenceCounted' /\ Unpublished'
      BY DEF IInv, VoteForOffered, EveryPreferenceCounted, Unpublished
<1> QED BY <1>1, <1>2, <1>3 DEF IInv

(* The same for a step of the loop that replies. *)
LEMMA SceneReply ==
    ASSUME IInv, BoundsAssumption, ServersAssumption,
           NEW i \in Scenes, UNCHANGED <<submitted, candidate, vote>>,
           scene' \in [Scenes -> AnyRow], \A j \in Scenes : j # i => scene'[j] = scene[j],
           scene'[i].status \in Open => OnlyOpen(i),
           scene'[i].status \in Early => candidate[i].keys = {},
           Reply(Loop)
    PROVE  IInv'
<1>1. job' \in [Servers -> AnyJob] /\ job'[Loop] = AtRest
      BY IdleShape DEF Reply, IInv, Shape
<1> QED BY <1>1, SceneKept, IdleAgreesNext

LEMMA StartEnds ==
    ASSUME IInv, BoundsAssumption, ServersAssumption, Initialise \/ InitialiseFails
    PROVE  IInv'
<1> DEFINE now == job[Loop]  i == now.scene
<1>1. now \in AnyJob /\ i \in Scenes /\ now.read \in AnyRow
      BY IdleShape DEF IInv, Shape, AnyJob
<1>2. now.at \in Starting
      BY DEF Initialise, InitialiseFails, Busy, Starting
<1>3. OnlyOpen(i) /\ candidate[i].keys = {}
      BY <1>2 DEF IInv, LoopAt
<1>4. CASE Initialise
  <2> DEFINE new == [now.read EXCEPT !.status = "COLLECTING",
                                     !.context = [NoContext EXCEPT !.begun = TRUE]]
  <2>1. Write(i, now.read, new) /\ Reply(Loop) /\ UNCHANGED <<submitted, candidate, vote>>
        BY <1>4 DEF Initialise
  <2>2. "COLLECTING" \in Status
        BY DEF Status, Open
  <2>3. new \in AnyRow
        BY <1>1, <2>2, EditedContext
  <2> HIDE DEF new, i
  <2>4. /\ scene' \in [Scenes -> AnyRow]
        /\ \A j \in Scenes : j # i => scene'[j] = scene[j]
        BY <1>1, <2>1, <2>3, WriteStatus DEF IInv
  <2> QED BY <1>1, <1>3, <2>1, <2>4, SceneReply
<1>5. CASE InitialiseFails
  <2>1. /\ scene' = [scene EXCEPT ![i] = Absent]
        /\ Reply(Loop) /\ UNCHANGED <<submitted, candidate, vote>>
        BY <1>5 DEF InitialiseFails
  <2> HIDE DEF i
  <2>2. /\ scene' \in [Scenes -> AnyRow]
        /\ \A j \in Scenes : j # i => scene'[j] = scene[j]
        BY <2>1, IdleShape DEF IInv, Shape
  <2> QED BY <1>1, <1>3, <2>1, <2>2, SceneReply
<1> QED BY <1>4, <1>5

LEMMA MemberSteps ==
    ASSUME IInv, BoundsAssumption, ServersAssumption,
           SaveParticipation \/ ReadSceneAgain \/ SaveSubmission \/ SaveVote
    PROVE  IInv'
<1> DEFINE now == job[Loop]  i == now.scene
<1>1. now \in AnyJob /\ i \in Scenes /\ now.user \in Members
      BY IdleShape DEF IInv, Shape, AnyJob
<1>2. CASE SaveParticipation
  <2>1. PICK j \in AnyJob : LoopAt(j) /\ job' = [job EXCEPT ![Loop] = j]
    <3>1. CASE now.at = "join"
      <4>1. [now EXCEPT !.at = "again"] \in AnyJob
            BY <1>1 DEF AnyJob, Steps, Choices
      <4>2. LoopAt([now EXCEPT !.at = "again"])
            BY <1>1 DEF LoopAt, Starting, Negotiating, AnyJob
      <4> QED BY <1>2, <3>1, <4>1, <4>2 DEF SaveParticipation
    <3>2. CASE now.at # "join"
          BY <1>2, <3>2, IdleShape, IdleAgrees DEF SaveParticipation
    <3> QED BY <3>1, <3>2
  <2>2. job' \in [Servers -> AnyJob] /\ job'[Loop] = j
        BY <2>1, IdleShape DEF IInv, Shape
  <2>3. LoopAt(job[Loop])'
        BY <1>2, <2>1, <2>2 DEF SaveParticipation, LoopAt, OnlyOpen, IsCurrent, Voted
  <2>4. UNCHANGED <<scene, submitted, candidate, vote>>
        BY <1>2 DEF SaveParticipation
  <2> QED BY <2>2, <2>3, <2>4 DEF IInv, Shape, OneCurrentScene, IsCurrent,
             VoteForOffered, EveryPreferenceCounted, Unpublished
<1>3. CASE ReadSceneAgain
  <2>1. CASE Reply(Loop)
        BY <1>3, <2>1, LoopReplies DEF ReadSceneAgain
  <2>2. ASSUME NEW k \in Scenes, Newest(k), scene[k].status = "COLLECTING",
               Serve(Loop, "submit", now.user, k, "ACCEPTED")
        PROVE  IInv'
        BY <1>1, <1>3, <2>2, LoopBegins DEF ReadSceneAgain, Early, Steps, Choices
  <2> QED BY <1>3, <2>1, <2>2 DEF ReadSceneAgain
<1>4. CASE SaveSubmission
  <2>1. candidate[i].keys = {}
        BY <1>4 DEF SaveSubmission, Busy, IInv, LoopAt
  <2>2. /\ submitted' = [submitted EXCEPT ![i] = @ \cup {now.user}]
        /\ Reply(Loop) /\ UNCHANGED <<scene, candidate, vote>>
        BY <1>4 DEF SaveSubmission
  <2>3. job' \in [Servers -> AnyJob] /\ job'[Loop] = AtRest
        BY <2>2, IdleShape DEF Reply, IInv, Shape
  <2> HIDE DEF now, i
  <2>4. Shape'
        BY <1>1, <2>2, <2>3 DEF IInv, Shape
  <2>5. EveryPreferenceCounted'
        BY <1>1, <2>1, <2>2 DEF IInv, Shape, EveryPreferenceCounted
  <2>6. OneCurrentScene' /\ VoteForOffered' /\ Unpublished'
        BY <2>2 DEF IInv, OneCurrentScene, IsCurrent, VoteForOffered, Unpublished
  <2> QED BY <2>3, <2>4, <2>5, <2>6, IdleAgreesNext DEF IInv
<1>5. CASE SaveVote
  <2>1. now.choice \in candidate[i].keys
        BY <1>5 DEF SaveVote, Busy, IInv, LoopAt
  <2>2. /\ vote' = [vote EXCEPT ![i][now.user] = now.choice]
        /\ Reply(Loop) /\ UNCHANGED <<scene, submitted, candidate>>
        BY <1>5 DEF SaveVote
  <2>3. job' \in [Servers -> AnyJob] /\ job'[Loop] = AtRest
        BY <2>2, IdleShape DEF Reply, IInv, Shape
  <2> HIDE DEF now, i
  <2>4. vote' \in [Scenes -> [Members -> Keys \cup {NoVote}]]
        BY <1>1, <2>1, <2>2 DEF IInv, Shape
  <2>5. Shape'
        BY <2>2, <2>3, <2>4 DEF IInv, Shape
  <2>6. VoteForOffered'
        BY <1>1, <2>1, <2>2 DEF IInv, Shape, VoteForOffered
  <2>7. OneCurrentScene' /\ EveryPreferenceCounted' /\ Unpublished'
        BY <2>2 DEF IInv, OneCurrentScene, IsCurrent, EveryPreferenceCounted, Unpublished
  <2> QED BY <2>3, <2>5, <2>6, <2>7, IdleAgreesNext DEF IInv
<1> QED BY <1>2, <1>3, <1>4, <1>5

LEMMA NegotiationSteps ==
    ASSUME IInv, BoundsAssumption, ServersAssumption,
           SearchFails \/ PostTranscript \/ Conclude
    PROVE  IInv'
<1> DEFINE now == job[Loop]  i == now.scene
<1>1. now \in AnyJob /\ i \in Scenes /\ now.read \in AnyRow
      BY IdleShape DEF IInv, Shape, AnyJob
<1>2. now.at \in Negotiating /\ OnlyOpen(i)
      BY DEF SearchFails, PostTranscript, Conclude, Busy, Negotiating, IInv, LoopAt
<1>3. now.read.status \notin Early => scene[i].status \notin Early
      BY <1>2 DEF IInv, LoopAt
<1>4. scene[i] \in AnyRow
      BY <1>1 DEF IInv, Shape
<1>5. CASE SearchFails
  <2>1. Reply(Loop) /\ UNCHANGED <<submitted, candidate, vote>>
        BY <1>5 DEF SearchFails
  <2>2. CASE UNCHANGED scene
        BY <1>5, <2>2, LoopReplies DEF SearchFails, rows
  <2>3. CASE scene' = [scene EXCEPT ![i].context = Edited(now.read.context)]
    <3>1. Edited(now.read.context) \in AnyContext
          BY <1>1 DEF Edited, AnyRow, AnyContext
    <3> HIDE DEF now, i
    <3>2. /\ scene' \in [Scenes -> AnyRow]
          /\ \A j \in Scenes : j # i => scene'[j] = scene[j]
          /\ scene'[i].status = scene[i].status
          BY <1>1, <1>4, <2>3, <3>1 DEF IInv, Shape, AnyRow
    <3>3. scene[i].status \in Early => candidate[i].keys = {}
          BY <1>1 DEF IInv, Unpublished
    <3> QED BY <1>1, <1>2, <2>1, <3>2, <3>3, SceneReply
  <2> QED BY <1>5, <2>2, <2>3 DEF SearchFails
<1>6. CASE PostTranscript
  <2>1. /\ ~ Voted(i) /\ candidate' = [candidate EXCEPT ![i] = NoCandidates]
        /\ job' = [job EXCEPT ![Loop].at = "post"]
        /\ UNCHANGED <<scene, submitted, vote>>
        BY <1>6 DEF PostTranscript
  <2> DEFINE j == [now EXCEPT !.at = "post"]
  <2>2. j \in AnyJob /\ j.at = "post" /\ j.scene = i /\ j.read = now.read
        BY <1>1 DEF AnyJob, Steps, Choices
  <2>3. job' \in [Servers -> AnyJob] /\ job'[Loop] = j
        BY <2>1, <2>2, IdleShape DEF IInv, Shape
  <2> HIDE DEF j, now, i
  <2>4. Shape'
        BY <1>1, <2>1, <2>3 DEF IInv, Shape, NoCandidates
  <2>5. \A u \in Members : vote[i][u] = NoVote
        BY <2>1 DEF Voted
  <2>6. candidate'[i].keys = {} /\ \A k \in Scenes : k # i => candidate'[k] = candidate[k]
        BY <1>1, <2>1 DEF IInv, Shape, NoCandidates
  <2>7. VoteForOffered' /\ EveryPreferenceCounted' /\ Unpublished'
        BY <1>1, <2>1, <2>5, <2>6 DEF IInv, VoteForOffered, EveryPreferenceCounted, Unpublished
  <2>8. OneCurrentScene'
        BY <2>1 DEF IInv, OneCurrentScene, IsCurrent
  <2>9. LoopAt(job[Loop])'
        BY <1>2, <1>3, <2>1, <2>2, <2>3
        DEF LoopAt, Starting, Negotiating, OnlyOpen, IsCurrent, Voted
  <2> QED BY <2>4, <2>7, <2>8, <2>9 DEF IInv
<1>7. CASE Conclude
  <2> DEFINE new == [now.read EXCEPT !.status = "VOTING",
                                     !.context = Remembering(now.read.context)]
  <2>1. PICK keys \in SUBSET Keys : candidate' =
            [candidate EXCEPT ![i] = [keys |-> keys, from |-> submitted[i]]]
        BY <1>7 DEF Conclude
  <2>2. Reply(Loop) /\ UNCHANGED <<submitted, vote>> /\ ~ Voted(i)
        BY <1>7 DEF Conclude, Busy, IInv, LoopAt
  <2>3. Write(i, now.read, new)
        BY <1>7 DEF Conclude
  <2>4. "VOTING" \in Status
        BY DEF Status, Open
  <2>5. new \in AnyRow /\ new.status = "VOTING"
    <3>1. new \in AnyRow
          BY <1>1, <2>4, EditedContext
    <3>2. new.status = "VOTING"
          BY <1>1 DEF AnyRow
    <3> QED BY <3>1, <3>2
  <2>6. job' \in [Servers -> AnyJob] /\ job'[Loop] = AtRest
        BY <2>2, IdleShape DEF Reply, IInv, Shape
  <2> HIDE DEF new, now, i
  <2>7. /\ scene' \in [Scenes -> AnyRow]
        /\ \A j \in Scenes : j # i => scene'[j] = scene[j]
        /\ scene'[i].status \notin Early
        BY <1>1, <1>3, <2>3, <2>5, WriteStatus DEF IInv, Early
  <2>8. /\ candidate' \in [Scenes -> [keys : SUBSET Keys, from : SUBSET Members]]
        /\ candidate'[i].from = submitted[i]
        /\ \A j \in Scenes : j # i => candidate'[j] = candidate[j]
        BY <1>1, <2>1 DEF IInv, Shape
  <2>9. Shape'
        BY <2>2, <2>6, <2>7, <2>8 DEF IInv, Shape
  <2>10. OneCurrentScene'
        BY <1>2, <2>7 DEF IInv, OneCurrentScene, OnlyOpen, IsCurrent
  <2>11. VoteForOffered'
        BY <2>2, <2>8 DEF IInv, VoteForOffered, Voted
  <2>12. EveryPreferenceCounted' /\ Unpublished'
        BY <2>2, <2>7, <2>8 DEF IInv, EveryPreferenceCounted, Unpublished
  <2> QED BY <2>6, <2>9, <2>10, <2>11, <2>12, IdleAgreesNext DEF IInv
<1> QED BY <1>5, <1>6, <1>7

LEMMA LoopKeeps ==
    ASSUME IInv, BoundsAssumption, ServersAssumption, LoopStep
    PROVE  IInv'
<1>1. CASE DeleteRefused
  <2> DEFINE j == [job[Loop] EXCEPT !.at = "error"]
  <2>1. job[Loop] \in AnyJob
        BY IdleShape DEF IInv, Shape
  <2>2. j \in AnyJob /\ LoopAt(j)
        BY <2>1 DEF AnyJob, LoopAt, Starting, Negotiating, Steps, Choices
  <2> QED BY <1>1, <2>2, LoopKept DEF DeleteRefused
<1>2. CASE TranscriptFails \/ AnswerError
      BY <1>2, LoopReplies DEF TranscriptFails, AnswerError
<1> QED BY <1>1, <1>2, StartEnds, MemberSteps, NegotiationSteps DEF LoopStep

-----------------------------------------------------------------------------
(* A thread closes, ends or writes its request into the context: it leaves *)
(* the status or makes the scene one that is not open.                     *)
LEMMA ThreadKeeps ==
    ASSUME IInv, BoundsAssumption, ServersAssumption,
           NEW t \in Threads, SaveInThread(t)
    PROVE  IInv'
<1> DEFINE now == job[t]  i == now.scene
<1>1. now \in AnyJob /\ i \in Scenes /\ now.read \in AnyRow /\ now.user \in Members
      BY DEF IInv, Shape, AnyJob, Servers
<1>2. scene[i] \in AnyRow
      BY <1>1 DEF IInv, Shape
<1>3. job' \in [Servers -> AnyJob] /\ job'[Loop] = job[Loop]
      BY IdleShape DEF SaveInThread, Reply, IInv, Shape, Servers, ServersAssumption, Loop
<1>4. UNCHANGED <<submitted, candidate, vote>>
      BY DEF SaveInThread
<1>5. /\ scene' \in [Scenes -> AnyRow]
      /\ \A j \in Scenes : j # i => scene'[j] = scene[j]
      /\ scene'[i].status \in {scene[i].status, "VOTING_CLOSED", "COMPLETED"}
  <2>1. ASSUME NEW status \in {"VOTING_CLOSED", "COMPLETED"}, Finish(i, status)
        PROVE  <1>5
        BY <1>1, <1>2, <2>1 DEF Finish, IInv, Shape, AnyRow, Status
  <2>2. CASE Write(i, now.read, Asked(now.read, now.user))
    <3> DEFINE new == Asked(now.read, now.user)
    <3>1. new \in AnyRow /\ new.status = now.read.status
          BY <1>1, EditedContext DEF Asked, AnyRow
    <3> HIDE DEF new, now, i
    <3> QED BY <1>1, <2>2, <3>1, WriteStatus DEF IInv, new
  <2> QED BY <2>1, <2>2 DEF SaveInThread
<1> HIDE DEF now, i
<1>6. \A j \in Scenes : IsCurrent(j)' => IsCurrent(j)
      BY <1>5 DEF IsCurrent, Open
<1>7. \A j \in Scenes : scene'[j].status \in Early => scene[j].status \in Early
      BY <1>5 DEF Early
<1>8. scene'[i].status \in Open => OnlyOpen(i)
      BY <1>1, <1>6 DEF IInv, OneCurrentScene, OnlyOpen, IsCurrent
<1>9. scene'[i].status \in Early => candidate[i].keys = {}
      BY <1>1, <1>7 DEF IInv, Unpublished
<1>10. LoopAt(job[Loop])'
  <2>1. job[Loop].scene \in Scenes
        BY IdleShape DEF IInv, Shape, AnyJob
  <2> QED BY <1>3, <1>4, <1>6, <1>7, <2>1
          DEF IInv, LoopAt, OnlyOpen, Voted
<1> QED BY <1>1, <1>3, <1>4, <1>5, <1>8, <1>9, <1>10, SceneKept

LEMMA Inductive ==
    ASSUME IInv, BoundsAssumption, ServersAssumption, [ChatNext]_chatVars
    PROVE  IInv'
<1>1. CASE Crash
  <2>1. job' = [s \in Servers |-> AtRest] /\ UNCHANGED rows
        BY <1>1 DEF Crash
  <2>2. job' \in [Servers -> AnyJob] /\ job'[Loop] = AtRest
        BY <2>1, IdleShape
  <2> QED BY <2>1, <2>2, IdleAgrees, RowsKept
<1>2. CASE UNCHANGED chatVars
  <2>1. UNCHANGED rows /\ job' = job
        BY <1>2 DEF chatVars, rows
  <2> QED BY <2>1, RowsKept DEF IInv, Shape
<1> QED BY <1>1, <1>2, RequestKeeps, LoopKeeps, ThreadKeeps DEF ChatNext

LEMMA Initial ==
    ASSUME ChatInit, BoundsAssumption, ServersAssumption
    PROVE  IInv
<1>1. Shape
      BY IdleShape DEF ChatInit, Shape, NoCandidates
<1>2. \A i \in Scenes : scene[i].status = "ABSENT" /\ candidate[i].keys = {}
      BY DEF ChatInit, Absent, NoCandidates
<1>3. OneCurrentScene /\ EveryPreferenceCounted /\ Unpublished
      BY <1>2 DEF OneCurrentScene, IsCurrent, Open, EveryPreferenceCounted, Unpublished
<1>4. VoteForOffered
      BY DEF ChatInit, VoteForOffered
<1>5. job[Loop] = AtRest
      BY IdleShape DEF ChatInit
<1> QED BY <1>1, <1>3, <1>4, <1>5, IdleAgrees DEF IInv

LEMMA Invariance ==
    ASSUME BoundsAssumption, ServersAssumption
    PROVE  ChatSpec => []IInv
BY Initial, Inductive, PTL DEF ChatSpec

-----------------------------------------------------------------------------
(* The conversation never has two open scenes, although a negotiation that *)
(* outlives its scene reopens it: nothing starts on the loop meanwhile.    *)
THEOREM OneSceneAtATime ==
    ASSUME BoundsAssumption, ServersAssumption
    PROVE  ChatSpec => []OneCurrentScene
<1>1. IInv => OneCurrentScene
      BY DEF IInv
<1> QED BY <1>1, Invariance, PTL

(* Whatever a member has voted for is on offer, whichever negotiations,    *)
(* failures and crashes come after the vote, and the candidates on offer   *)
(* took every preference into account that has been handed in.             *)
THEOREM OffersAreKept ==
    ASSUME BoundsAssumption, ServersAssumption
    PROVE  ChatSpec => []OffersHold
<1>1. IInv => OffersHold
      BY DEF IInv, OffersHold
<1> QED BY <1>1, Invariance, PTL

-----------------------------------------------------------------------------
(* Everyone who takes part has handed in preferences, from the moment a    *)
(* negotiation starts until it ends: answers are on the loop as well.      *)
AllIn == job[Loop].at \in Negotiating
            => Accepted(job[Loop].scene) \subseteq submitted[job[Loop].scene]

LEMMA AllInKept ==
    ASSUME IInv, AllIn, BoundsAssumption, ServersAssumption, [ChatNext]_chatVars
    PROVE  AllIn'
<1>1. job \in [Servers -> AnyJob] /\ Loop \in Servers /\ Loop \notin Threads
      BY IdleShape DEF IInv, Shape, ServersAssumption, Loop
<1>2. ASSUME job'[Loop].at \notin Negotiating
      PROVE  AllIn'
      BY <1>2 DEF AllIn
<1>3. ASSUME UNCHANGED <<role, submitted>>, job'[Loop].scene = job[Loop].scene,
             job[Loop].at \in Negotiating
      PROVE  AllIn'
      BY <1>3 DEF AllIn, Accepted
<1>4. ASSUME UNCHANGED <<role, submitted>>, job'[Loop] = job[Loop]
      PROVE  AllIn'
      BY <1>4 DEF AllIn, Accepted
<1>5. ASSUME Reply(Loop)
      PROVE  AllIn'
      BY <1>1, <1>2, <1>5 DEF Reply, AtRest, Negotiating
<1>6. ASSUME NEW at \in Steps \ Negotiating, NEW u, NEW i, NEW choice,
             Serve(Loop, at, u, i, choice)
      PROVE  AllIn'
      BY <1>1, <1>2, <1>6 DEF Serve
<1>7. ASSUME NEW u \in Members, NewRequest(u)
      PROVE  AllIn'
  <2>1. CASE StartNew(u)
        BY <1>1, <1>2, <2>1 DEF StartNew, Negotiating, AtRest
  <2>2. CASE \/ StartAgain(u) \/ SetParticipation(u)
             \/ SubmitPreferences(u) \/ Vote(u)
        BY <1>6, <2>2 DEF StartAgain, SetParticipation, SubmitPreferences, Vote,
                          Begin, Steps, Negotiating
  <2>3. CASE RunDebate(u)
    <3>1. PICK i \in Scenes : Ready(i) /\ Begin(Loop, "negotiate", u, i, "ACCEPTED")
          BY <2>3 DEF RunDebate
    <3>2. job'[Loop].scene = i /\ UNCHANGED <<role, submitted>>
          BY <1>1, <3>1 DEF Begin, Serve, rows
    <3> QED BY <3>1, <3>2 DEF AllIn, Ready, Accepted
  <2>4. ASSUME NEW t \in Threads,
               CloseVote(t, u) \/ EndScene(t, u) \/ RequestNextNegotiation(t, u)
        PROVE  AllIn'
        BY <1>1, <1>4, <2>4 DEF CloseVote, EndScene, RequestNextNegotiation,
                                Begin, Serve, rows
  <2> QED BY <1>7, <2>1, <2>2, <2>3, <2>4 DEF NewRequest
<1>8. CASE LoopStep
  <2>1. CASE SaveParticipation
        BY <1>1, <1>2, <2>1 DEF SaveParticipation, AtRest, Negotiating, AnyJob
  <2>2. CASE ReadSceneAgain
        BY <1>5, <1>6, <2>2 DEF ReadSceneAgain, Steps, Negotiating
  <2>3. CASE PostTranscript
        BY <1>1, <1>3, <2>3 DEF PostTranscript, Busy, Negotiating, AnyJob
  <2>4. CASE DeleteRefused
        BY <1>1, <1>2, <2>4 DEF DeleteRefused, Negotiating, AnyJob
  <2> QED BY <1>5, <1>8, <2>1, <2>2, <2>3, <2>4
          DEF LoopStep, Initialise, InitialiseFails, SaveSubmission, SaveVote,
              SearchFails, TranscriptFails, Conclude, AnswerError
<1>9. ASSUME NEW t \in Threads, SaveInThread(t)
      PROVE  AllIn'
      BY <1>1, <1>4, <1>9 DEF SaveInThread, Reply
<1>10. CASE Crash
       BY <1>1, <1>2, <1>10 DEF Crash, AtRest, Negotiating
<1>11. CASE UNCHANGED chatVars
       BY <1>4, <1>11 DEF chatVars
<1> QED BY <1>7, <1>8, <1>9, <1>10, <1>11 DEF ChatNext

(* Candidates are replaced by a negotiation only, and it publishes with    *)
(* the preferences of everyone who takes part at that moment.              *)
LEMMA PublishesWithAll ==
    ASSUME IInv, AllIn, BoundsAssumption, ServersAssumption, ChatNext, NEW i \in Scenes
    PROVE  candidate'[i].keys \subseteq candidate[i].keys
           \/ Accepted(i)' \subseteq candidate'[i].from
<1>1. CASE PostTranscript
      BY <1>1 DEF PostTranscript, NoCandidates, IInv, Shape
<1>2. CASE Conclude
  <2>1. CASE i = job[Loop].scene
    <3>1. candidate'[i].from = submitted[i] /\ Accepted(i)' = Accepted(i)
          BY <1>2, <2>1 DEF Conclude, IInv, Shape, Accepted
    <3>2. Accepted(i) \subseteq submitted[i]
          BY <1>2, <2>1 DEF Conclude, Busy, AllIn, Negotiating
    <3> QED BY <3>1, <3>2
  <2>2. CASE i # job[Loop].scene
        BY <1>2, <2>2 DEF Conclude, IInv, Shape
  <2> QED BY <2>1, <2>2
<1>3. CASE UNCHANGED candidate
      BY <1>3
<1>4. ASSUME NEW u \in Members, NewRequest(u)
      PROVE  UNCHANGED candidate
      BY <1>4 DEF NewRequest, StartNew, StartAgain, SetParticipation, SubmitPreferences,
                  RunDebate, Vote, CloseVote, EndScene, RequestNextNegotiation, Begin, rows
<1>5. CASE LoopStep
      BY <1>1, <1>2, <1>3, <1>5
      DEF LoopStep, Initialise, InitialiseFails, SaveParticipation, ReadSceneAgain,
          SaveSubmission, SaveVote, SearchFails, DeleteRefused, TranscriptFails,
          AnswerError, rows
<1> QED BY <1>3, <1>4, <1>5 DEF ChatNext, SaveInThread, Crash, rows

(* Nobody who takes part when candidates are published has been left out,  *)
(* however long the negotiation waited for the providers.                  *)
THEOREM NobodyLeftOut ==
    ASSUME BoundsAssumption, ServersAssumption
    PROVE  ChatSpec => NobodyOverlooked
<1>1. ChatInit => AllIn
      BY IdleShape DEF ChatInit, AllIn, AtRest, Negotiating
<1>2. IInv /\ AllIn /\ [ChatNext]_chatVars => AllIn'
      BY AllInKept
<1>3. IInv /\ AllIn /\ [ChatNext]_chatVars
         => [\A i \in Scenes : candidate'[i].keys \subseteq candidate[i].keys
                               \/ Accepted(i)' \subseteq candidate'[i].from]_chatVars
      BY PublishesWithAll
<1> QED BY <1>1, <1>2, <1>3, Invariance, PTL DEF ChatSpec, NobodyOverlooked

-----------------------------------------------------------------------------
(* Types: no scene remembers more negotiations than may be recorded, since *)
(* the one that is running has read a row that may remember another.       *)
Answered == {"ACCEPTED", "DECLINED"}
Few(row) == row.context.history <= MaxDebates
Typed ==
    /\ role \in [Scenes -> [Members -> {"NONE", "INVITED"} \cup Answered]]
    /\ \A i \in Scenes : Few(scene[i])
    /\ \A s \in Servers : Few(job[s].read)
    /\ job[Loop].at \in Negotiating => job[Loop].read.context.history < MaxDebates
    /\ job[Loop].at \in {"participate", "join"} => job[Loop].choice \in Answered

(* What a job has to satisfy, and that of the loop beyond it. *)
LoopTyped(j) ==
    /\ j.at \in Negotiating => j.read.context.history < MaxDebates
    /\ j.at \in {"participate", "join"} => j.choice \in Answered

LEMMA IdleTyped ==
    ASSUME BoundsAssumption
    PROVE  Few(Absent) /\ Few(AtRest.read) /\ LoopTyped(AtRest)
BY DEF BoundsAssumption, Few, Absent, AtRest, NoContext, LoopTyped, Negotiating

LEMMA JobTyped ==
    ASSUME IInv, Typed, ServersAssumption, NEW s \in Servers, NEW j, Few(j.read),
           s = Loop => LoopTyped(j), job' = [job EXCEPT ![s] = j],
           UNCHANGED <<role, scene>>
    PROVE  Typed'
<1>1. job \in [Servers -> AnyJob]
      BY DEF IInv, Shape
<1>2. job'[s] = j /\ \A k \in Servers : k # s => job'[k] = job[k]
      BY <1>1
<1>3. \A k \in Servers : Few(job'[k].read)
      BY <1>2 DEF Typed
<1>4. LoopTyped(job'[Loop])
      BY <1>2 DEF Typed, LoopTyped, Servers
<1> QED BY <1>3, <1>4 DEF Typed, LoopTyped, Few

(* A step of server s that replies. *)
LEMMA ReplyTyped ==
    ASSUME IInv, Typed, BoundsAssumption, NEW s \in Servers, Reply(s),
           role' \in [Scenes -> [Members -> {"NONE", "INVITED"} \cup Answered]],
           \A i \in Scenes : Few(scene'[i])
    PROVE  Typed'
<1>1. job \in [Servers -> AnyJob] /\ job' = [job EXCEPT ![s] = AtRest]
      BY DEF IInv, Shape, Reply
<1>2. job'[s] = AtRest /\ \A k \in Servers : k # s => job'[k] = job[k]
      BY <1>1
<1>3. \A k \in Servers : Few(job'[k].read)
      BY <1>2, IdleTyped DEF Typed
<1>4. LoopTyped(job'[Loop])
      BY <1>2, IdleTyped DEF Typed, LoopTyped, Servers
<1> QED BY <1>3, <1>4 DEF Typed, LoopTyped, Few

LEMMA BeginTyped ==
    ASSUME IInv, Typed, BoundsAssumption, ServersAssumption, NEW s \in Servers,
           NEW at \in Steps, NEW u, NEW i \in Scenes, NEW choice,
           Serve(s, at, u, i, choice), UNCHANGED rows,
           at = "negotiate" => scene[i].context.history < MaxDebates, at # "post",
           at \in {"participate", "join"} => choice \in Answered
    PROVE  Typed'
<1>1. job' = [job EXCEPT ![s] = Held(at, u, i, choice)]
      BY DEF Serve, Held
<1>2. Few(Held(at, u, i, choice).read)
      BY IdleTyped DEF Held, Typed
<1>3. LoopTyped(Held(at, u, i, choice))
      BY DEF LoopTyped, Held, Negotiating, Holders
<1> QED BY <1>1, <1>2, <1>3, JobTyped DEF rows

LEMMA WriteFew ==
    ASSUME IInv, Typed, NEW i \in Scenes, NEW read \in AnyRow, NEW new \in AnyRow,
           Write(i, read, new), Few(new)
    PROVE  \A j \in Scenes : Few(scene'[j])
<1>1. scene[i] \in AnyRow /\ DOMAIN new = {"status", "creator", "context"}
      BY DEF IInv, Shape, AnyRow
<1> DEFINE row == [c \in DOMAIN new |-> IF new[c] = read[c] THEN scene[i][c] ELSE new[c]]
<1>2. scene' = [scene EXCEPT ![i] = row]
      BY DEF Write
<1>3. row.context = IF new.context = read.context THEN scene[i].context ELSE new.context
      BY <1>1
<1> HIDE DEF row
<1>4. Few(row)
      BY <1>3 DEF Few, Typed
<1>5. scene'[i] = row /\ \A j \in Scenes : j # i => scene'[j] = scene[j]
      BY <1>2 DEF IInv, Shape
<1> QED BY <1>4, <1>5 DEF Typed

LEMMA RequestTyped ==
    ASSUME IInv, Typed, BoundsAssumption, ServersAssumption, NEW u \in Members, NewRequest(u)
    PROVE  Typed'
<1>1. Loop \in Servers /\ Threads \subseteq Servers
      BY DEF Servers
<1>2. CASE StartNew(u)
  <2> DEFINE draft == [Absent EXCEPT !.status = "DRAFT", !.creator = u]
  <2>1. PICK i \in Scenes :
          /\ scene' = [scene EXCEPT ![i] = draft]
          /\ job' = [job EXCEPT ![Loop] = [AtRest EXCEPT !.at = "initialise", !.user = u,
                                           !.scene = i, !.read = draft]]
          /\ role' = [role EXCEPT ![i] = Invited(u)]
        BY <1>2 DEF StartNew
  <2> DEFINE j == [AtRest EXCEPT !.at = "initialise", !.user = u, !.scene = i, !.read = draft]
  <2>2. draft.context = Absent.context
        BY DEF Absent
  <2>3. Few(draft)
        BY <2>2, IdleTyped DEF Few
  <2>4. j.at = "initialise" /\ j.read = draft
        BY DEF AtRest
  <2> HIDE DEF j, draft
  <2>5. \A k \in Scenes : Few(scene'[k])
        BY <2>1, <2>3 DEF IInv, Shape, Typed
  <2>6. job'[Loop] = j /\ \A s \in Servers : s # Loop => job'[s] = job[s]
        BY <1>1, <2>1 DEF IInv, Shape, j
  <2>7. \A s \in Servers : Few(job'[s].read)
        BY <2>3, <2>4, <2>6 DEF Typed
  <2>8. role' \in [Scenes -> [Members -> {"NONE", "INVITED"} \cup Answered]]
        BY <2>1 DEF Typed, Invited, Answered
  <2>9. job'[Loop].at = "initialise"
        BY <2>4, <2>6
  <2> QED BY <2>5, <2>7, <2>8, <2>9 DEF Typed, Few, Negotiating
<1>3. CASE StartAgain(u) \/ SetParticipation(u) \/ SubmitPreferences(u) \/ Vote(u)
      BY <1>1, <1>3, BeginTyped DEF StartAgain, SetParticipation, SubmitPreferences, Vote,
         Begin, Steps, Answered
<1>4. CASE RunDebate(u)
      BY <1>1, <1>4, BeginTyped DEF RunDebate, Begin, Steps
<1>5. ASSUME NEW t \in Threads,
             CloseVote(t, u) \/ EndScene(t, u) \/ RequestNextNegotiation(t, u)
      PROVE  Typed'
      BY <1>1, <1>5, BeginTyped DEF CloseVote, EndScene, RequestNextNegotiation, Begin, Steps
<1> QED BY <1>2, <1>3, <1>4, <1>5 DEF NewRequest

LEMMA LoopKeepsTypes ==
    ASSUME IInv, Typed, BoundsAssumption, ServersAssumption, LoopStep
    PROVE  Typed'
<1> DEFINE now == job[Loop]  i == now.scene
<1>1. Loop \in Servers /\ now \in AnyJob /\ i \in Scenes /\ now.read \in AnyRow
      BY IdleShape DEF IInv, Shape, AnyJob
<1>2. Few(now.read) /\ \A k \in Scenes : Few(scene[k])
      BY <1>1 DEF Typed
<1>3. ASSUME Reply(Loop), UNCHANGED role, \A k \in Scenes : Few(scene'[k])
      PROVE  Typed'
      BY <1>1, <1>3, ReplyTyped DEF Typed
<1>4. CASE Initialise
  <2> DEFINE new == [now.read EXCEPT !.status = "COLLECTING",
                                     !.context = [NoContext EXCEPT !.begun = TRUE]]
  <2>1. Write(i, now.read, new) /\ Reply(Loop) /\ UNCHANGED role
        BY <1>4 DEF Initialise
  <2>2. new \in AnyRow
        BY <1>1, EditedContext DEF Status, Open
  <2>3. Few(new)
        BY <1>1 DEF Few, AnyRow, NoContext, BoundsAssumption
  <2> HIDE DEF new, now, i
  <2>4. \A k \in Scenes : Few(scene'[k])
        BY <1>1, <2>1, <2>2, <2>3, WriteFew
  <2> QED BY <1>3, <2>1, <2>4
<1>5. CASE InitialiseFails
  <2>1. /\ scene' = [scene EXCEPT ![i] = Absent]
        /\ role' = [role EXCEPT ![i] = [u \in Members |-> "NONE"]]
        /\ Reply(Loop)
        BY <1>5 DEF InitialiseFails
  <2> HIDE DEF now, i
  <2>2. \A k \in Scenes : Few(scene'[k])
        BY <1>1, <1>2, <2>1, IdleTyped DEF IInv, Shape
  <2>3. role' \in [Scenes -> [Members -> {"NONE", "INVITED"} \cup Answered]]
        BY <1>1, <2>1 DEF Typed
  <2> QED BY <1>1, <2>1, <2>2, <2>3, ReplyTyped
<1>6. CASE SaveParticipation
  <2>1. now.choice \in Answered
        BY <1>6 DEF SaveParticipation, Busy, Typed
  <2>2. role' \in [Scenes -> [Members -> {"NONE", "INVITED"} \cup Answered]]
        BY <1>6, <2>1 DEF SaveParticipation, Typed
  <2>3. UNCHANGED scene
        BY <1>6 DEF SaveParticipation
  <2>4. CASE Reply(Loop)
        BY <1>1, <1>2, <2>2, <2>3, <2>4, ReplyTyped
  <2>5. CASE job' = [job EXCEPT ![Loop] = [now EXCEPT !.at = "again"]]
    <3> DEFINE j == [now EXCEPT !.at = "again"]
    <3>1. j.at = "again" /\ j.read = now.read
          BY <1>1 DEF AnyJob
    <3> HIDE DEF j
    <3>2. job'[Loop] = j /\ \A s \in Servers : s # Loop => job'[s] = job[s]
          BY <1>1, <2>5 DEF IInv, Shape, j
    <3>3. \A s \in Servers : Few(job'[s].read)
          BY <1>2, <3>1, <3>2 DEF Typed
    <3> QED BY <1>2, <2>2, <2>3, <3>1, <3>2, <3>3 DEF Typed, Few, Negotiating
  <2> QED BY <1>6, <2>4, <2>5 DEF SaveParticipation, Reply
<1>7. CASE ReadSceneAgain
  <2>1. CASE Reply(Loop)
        BY <1>2, <1>3, <1>7, <2>1 DEF ReadSceneAgain, rows
  <2>2. ASSUME NEW k \in Scenes, Serve(Loop, "submit", now.user, k, "ACCEPTED")
        PROVE  Typed'
        BY <1>1, <1>7, <2>2, BeginTyped DEF ReadSceneAgain, Steps
  <2> QED BY <1>7, <2>1, <2>2 DEF ReadSceneAgain
<1>8. CASE SaveSubmission \/ SaveVote \/ TranscriptFails \/ AnswerError
      BY <1>2, <1>3, <1>8 DEF SaveSubmission, SaveVote, TranscriptFails, AnswerError, rows
<1>9. CASE SearchFails
  <2>1. Few([context |-> Edited(now.read.context)])
        BY <1>1, <1>2 DEF Few, Edited, AnyRow, AnyContext
  <2> HIDE DEF now, i
  <2>2. \A k \in Scenes : Few(scene'[k])
    <3>1. scene[i] \in AnyRow
          BY <1>1 DEF IInv, Shape
    <3>2. CASE scene' = [scene EXCEPT ![i].context = Edited(now.read.context)]
          BY <1>1, <1>2, <2>1, <3>1, <3>2 DEF Few, IInv, Shape, AnyRow
    <3> QED BY <1>2, <1>9, <3>2 DEF SearchFails, now, i
  <2> QED BY <1>3, <1>9, <2>2 DEF SearchFails
<1>10. CASE PostTranscript \/ DeleteRefused
  <2>1. PICK at \in {"post", "error"} : job' = [job EXCEPT ![Loop].at = at]
        BY <1>10 DEF PostTranscript, DeleteRefused
  <2> DEFINE j == [now EXCEPT !.at = at]
  <2>2. j.at = at /\ j.read = now.read
        BY <1>1 DEF AnyJob
  <2>3. now.at = "negotiate" /\ UNCHANGED <<role, scene>>
        BY <1>10 DEF PostTranscript, DeleteRefused, Busy, rows
  <2>4. Few(j.read) /\ LoopTyped(j)
        BY <1>2, <2>2, <2>3 DEF Typed, LoopTyped, Negotiating
  <2>5. job' = [job EXCEPT ![Loop] = j]
        BY <2>1
  <2> HIDE DEF j
  <2> QED BY <1>1, <2>3, <2>4, <2>5, JobTyped
<1>11. CASE Conclude
  <2> DEFINE new == [now.read EXCEPT !.status = "VOTING",
                                     !.context = Remembering(now.read.context)]
  <2>1. Write(i, now.read, new) /\ Reply(Loop) /\ UNCHANGED role
        BY <1>11 DEF Conclude
  <2>2. new \in AnyRow
        BY <1>1, EditedContext DEF Status, Open
  <2>3. now.read.context.history < MaxDebates
        BY <1>11 DEF Conclude, Busy, Typed, Negotiating
  <2>4. new.context.history = now.read.context.history + 1 /\ now.read.context.history \in Nat
        BY <1>1 DEF Remembering, Edited, AnyRow, AnyContext
  <2> HIDE DEF new, now, i
  <2>5. Few(new)
        BY <2>3, <2>4 DEF Few, BoundsAssumption
  <2>6. \A k \in Scenes : Few(scene'[k])
        BY <1>1, <2>1, <2>2, <2>5, WriteFew
  <2> QED BY <1>3, <2>1, <2>6
<1> QED BY <1>4, <1>5, <1>6, <1>7, <1>8, <1>9, <1>10, <1>11 DEF LoopStep

LEMMA ThreadTyped ==
    ASSUME IInv, Typed, BoundsAssumption, ServersAssumption,
           NEW t \in Threads, SaveInThread(t)
    PROVE  Typed'
<1> DEFINE now == job[t]  i == now.scene
<1>1. t \in Servers /\ now \in AnyJob /\ i \in Scenes /\ now.read \in AnyRow /\ now.user \in Members
      BY DEF IInv, Shape, AnyJob, Servers
<1>2. Few(now.read) /\ scene[i] \in AnyRow
      BY <1>1 DEF Typed, IInv, Shape
<1>3. UNCHANGED role /\ Reply(t)
      BY DEF SaveInThread
<1>4. \A k \in Scenes : Few(scene'[k])
  <2>1. ASSUME NEW status, Finish(i, status)
        PROVE  <1>4
    <3>1. scene' = [scene EXCEPT ![i].status = status]
          BY <2>1 DEF Finish
    <3> HIDE DEF now, i
    <3> QED BY <1>1, <1>2, <3>1 DEF Typed, Few, IInv, Shape, AnyRow
  <2>2. CASE Write(i, now.read, Asked(now.read, now.user))
    <3> DEFINE new == Asked(now.read, now.user)
    <3>1. new \in AnyRow
          BY <1>1, EditedContext DEF AnyRow
    <3>2. new.context.history = now.read.context.history
          BY <1>1 DEF Asked, Asking, Edited, AnyRow, AnyContext
    <3> HIDE DEF new, now, i
    <3>3. Few(new)
          BY <1>2, <3>2 DEF Few
    <3> QED BY <1>1, <2>2, <3>1, <3>3, WriteFew DEF new
  <2> QED BY <2>1, <2>2 DEF SaveInThread
<1> QED BY <1>1, <1>3, <1>4, ReplyTyped DEF Typed

LEMMA TypesKept ==
    ASSUME IInv, Typed, BoundsAssumption, ServersAssumption, [ChatNext]_chatVars
    PROVE  Typed'
<1>1. CASE Crash
  <2>1. job' = [s \in Servers |-> AtRest] /\ UNCHANGED <<role, scene>> /\ Loop \in Servers
        BY <1>1 DEF Crash, rows, Servers
  <2>2. \A s \in Servers : Few(job'[s].read)
        BY <2>1, IdleTyped
  <2>3. LoopTyped(job'[Loop])
        BY <2>1, IdleTyped
  <2> QED BY <2>1, <2>2, <2>3 DEF Typed, LoopTyped, Few
<1>2. CASE UNCHANGED chatVars
      BY <1>2 DEF chatVars, Typed, Few
<1> QED BY <1>1, <1>2, RequestTyped, LoopKeepsTypes, ThreadTyped DEF ChatNext

LEMMA TypesBegin ==
    ASSUME ChatInit, BoundsAssumption
    PROVE  Typed
<1>1. Loop \in Servers
      BY DEF Servers
<1>2. job = [s \in Servers |-> AtRest] /\ scene = [i \in Scenes |-> Absent]
      /\ role = [i \in Scenes |-> [u \in Members |-> "NONE"]]
      BY DEF ChatInit
<1>3. (\A s \in Servers : job[s] = AtRest) /\ job[Loop] = AtRest
      BY <1>1, <1>2
<1>4. \A i \in Scenes : Few(scene[i])
      BY <1>2, IdleTyped
<1>5. role \in [Scenes -> [Members -> {"NONE", "INVITED"} \cup Answered]]
      BY <1>2
<1> QED BY <1>3, <1>4, <1>5, IdleTyped DEF Typed, LoopTyped

LEMMA RowsTyped ==
    ASSUME IInv, Typed, BoundsAssumption PROVE ChatTypeOK
<1>1. ASSUME NEW r \in AnyRow, Few(r) PROVE r \in Row
  <2>1. r.context \in AnyContext /\ r.context.history \in Nat
        BY DEF AnyRow, AnyContext
  <2>2. r.context.history \in 0 .. MaxDebates
        BY <1>1, <2>1 DEF Few, BoundsAssumption
  <2>3. r.context \in Gathered
        BY <2>1, <2>2 DEF AnyContext, Gathered
  <2> QED BY <2>3 DEF AnyRow, Row
<1>2. scene \in [Scenes -> Row]
  <2>1. scene \in [Scenes -> AnyRow] /\ \A i \in Scenes : Few(scene[i])
        BY DEF IInv, Shape, Typed
  <2>2. scene = [i \in Scenes |-> scene[i]] /\ \A i \in Scenes : scene[i] \in Row
        BY <1>1, <2>1
  <2> QED BY <2>2
<1>3. job \in [Servers -> Job]
  <2>1. job \in [Servers -> AnyJob] /\ \A s \in Servers : Few(job[s].read)
        BY DEF IInv, Shape, Typed
  <2>2. ASSUME NEW s \in Servers PROVE job[s] \in Job
    <3>1. job[s] \in AnyJob /\ job[s].read \in Row
          BY <1>1, <2>1 DEF AnyJob
    <3> QED BY <3>1 DEF AnyJob, Job
  <2> QED BY <2>1, <2>2
<1>4. role \in [Scenes -> [Members -> {"NONE", "INVITED", "ACCEPTED", "DECLINED"}]]
      BY DEF Typed, Answered
<1> QED BY <1>2, <1>3, <1>4 DEF ChatTypeOK, IInv, Shape

-----------------------------------------------------------------------------
(* Least numbers and folds *)
LEMMA LeastOfOrder ==
    ASSUME NEW R, IsWellFoundedOn(R, Nat), NEW P, P \subseteq Nat, P # {}
    PROVE  \E m \in P : \A n \in P : ~ (<<n, m>> \in R)
  BY WFMin, Zenon

LEMMA NotBefore ==
    ASSUME NEW R, \A m, n \in Nat : m < n => <<m, n>> \in R,
           NEW P, P \subseteq Nat, NEW m \in P, \A n \in P : ~ (<<n, m>> \in R)
    PROVE  \A n \in P : m <= n
<1> SUFFICES ASSUME NEW n \in P PROVE m <= n
    OBVIOUS
<1>1. n \in Nat /\ m \in Nat
      OBVIOUS
<1>2. ~ (n < m)
      BY <1>1
<1> QED BY <1>1, <1>2

LEMMA Least ==
    ASSUME NEW P, P \subseteq Nat, P # {}
    PROVE  \E m \in P : \A n \in P : m <= n
<1> DEFINE R == OpToRel(<, Nat)
<1>1. IsWellFoundedOn(R, Nat)
      BY NatLessThanWellFounded
<1>2. \A m, n \in Nat : m < n => <<m, n>> \in R
      BY DEF OpToRel
<1> HIDE DEF R
<1>3. PICK m \in P : \A n \in P : ~ (<<n, m>> \in R)
      BY <1>1, LeastOfOrder
<1> QED BY <1>2, <1>3, NotBefore

(* The newest element of a set of numbers, which a fold takes last.        *)
LEMMA LastIsLast ==
    ASSUME NEW N \in Nat, NEW set, set \subseteq 1 .. N, set # {}
    PROVE  S!Max(set) \in set /\ \A n \in set : n <= S!Max(set)
<1> DEFINE T == {N - m : m \in set}
<1>1. \A m \in set : m \in 1 .. N /\ N - m \in Nat
  <2>1. \A m \in set : m \in 1 .. N
        OBVIOUS
  <2> QED BY <2>1
<1>2. T \subseteq Nat /\ T # {}
  <2>1. PICK m \in set : TRUE
        OBVIOUS
  <2>2. N - m \in T
        OBVIOUS
  <2> QED BY <1>1, <2>2
<1>3. PICK k \in T : \A n \in T : k <= n
  <2> HIDE DEF T
  <2> QED BY <1>2, Least
<1>4. PICK m \in set : k = N - m
      OBVIOUS
<1>5. ASSUME NEW n \in set PROVE n <= m
  <2>1. N - n \in T
        OBVIOUS
  <2>2. N - m <= N - n
        BY <1>3, <1>4, <2>1
  <2> QED BY <1>1, <2>2
<1>6. \E x \in set : \A y \in set : x >= y
  <2>1. \A y \in set : m >= y
        BY <1>1, <1>5
  <2> QED BY <2>1
<1>7. S!Max(set) \in set /\ \A y \in set : S!Max(set) >= y
      BY <1>6 DEF S!Max
<1> QED BY <1>1, <1>7

LEMMA WithoutLast ==
    ASSUME NEW k \in Nat, NEW set, set \subseteq 1 .. k, set # {}
    PROVE  /\ S!Max(set) \in 1 .. k
           /\ k # 0 /\ set \ {S!Max(set)} \subseteq 1 .. (k - 1)
<1>1. PICK m : m = S!Max(set)
      OBVIOUS
<1>2. m \in set /\ \A n \in set : n <= m
      BY <1>1, LastIsLast
<1>3. m \in 1 .. k /\ k # 0
      BY <1>2
<1>4. ASSUME NEW n \in set, n # m PROVE n \in 1 .. (k - 1)
  <2>1. n \in 1 .. k /\ n <= m
        BY <1>2
  <2> QED BY <1>3, <1>4, <2>1
<1> QED BY <1>1, <1>3, <1>4

(* A fold goes through the sets of the first places.  One whose steps are  *)
(* those of a function exists, and what its steps keep it has in the end.  *)
Step(f, base, F, s) == IF s = {} THEN base ELSE F[<<f[s \ {S!Max(s)}], S!Max(s)>>]
Folding(f, base, F, k) == f = [s \in SUBSET (1 .. k) |-> Step(f, base, F, s)]

LEMMA SameFunction ==
    ASSUME NEW set, NEW f, NEW g, f = [x \in set |-> f[x]], g = [x \in set |-> g[x]],
           \A x \in set : f[x] = g[x]
    PROVE  f = g
OBVIOUS

LEMMA FoldExists ==
    ASSUME NEW N \in Nat, NEW base, NEW F
    PROVE  \E f : Folding(f, base, F, N)
<1> DEFINE none == {k \in Nat : ~ \E f : Folding(f, base, F, k)}
<1> SUFFICES ASSUME none # {} PROVE FALSE
    OBVIOUS
<1>1. PICK m \in none : \A n \in none : m <= n
  <2>1. none \subseteq Nat
        OBVIOUS
  <2> HIDE DEF none
  <2> QED BY <2>1, Least
<1>2. m # 0
  <2>1. SUBSET (1 .. 0) = {{}}
        OBVIOUS
  <2> DEFINE f == [s \in {{}} |-> base]
  <2>2. f = [s \in {{}} |-> Step(f, base, F, s)]
        BY DEF Step
  <2>3. Folding(f, base, F, 0)
    <3> HIDE DEF f
    <3> QED BY <2>1, <2>2 DEF Folding
  <2> QED BY <2>3
<1>3. m \in Nat /\ m - 1 \in Nat /\ m - 1 \notin none
      BY <1>1, <1>2
<1>4. PICK f : Folding(f, base, F, m - 1)
      BY <1>3
<1> HIDE DEF none
<1> DEFINE g == [s \in SUBSET (1 .. m) |-> Step(f, base, F, s)]
           h == [s \in SUBSET (1 .. m) |-> Step(g, base, F, s)]
<1>5. g = [s \in SUBSET (1 .. m) |-> g[s]] /\ \A s \in SUBSET (1 .. m) : g[s] = Step(f, base, F, s)
      OBVIOUS
<1>6. h = [s \in SUBSET (1 .. m) |-> h[s]] /\ \A s \in SUBSET (1 .. m) : h[s] = Step(g, base, F, s)
  <2> HIDE DEF g
  <2> QED OBVIOUS
<1>7. h = [s \in SUBSET (1 .. m) |-> Step(g, base, F, s)]
      OBVIOUS
<1> HIDE DEF g, h
<1>8. \A s \in SUBSET (1 .. (m - 1)) : f[s] = Step(f, base, F, s)
      BY <1>4 DEF Folding
<1>9. SUBSET (1 .. (m - 1)) \subseteq SUBSET (1 .. m)
      BY <1>3
<1>10. \A s \in SUBSET (1 .. (m - 1)) : g[s] = f[s]
      BY <1>5, <1>8, <1>9
<1>11. ASSUME NEW s \in SUBSET (1 .. m) PROVE g[s] = h[s]
  <2>1. CASE s = {}
        BY <1>5, <1>6, <2>1 DEF Step
  <2>2. CASE s # {}
    <3>1. s \ {S!Max(s)} \in SUBSET (1 .. (m - 1))
          BY <1>3, <2>2, WithoutLast
    <3>2. g[s \ {S!Max(s)}] = f[s \ {S!Max(s)}]
          BY <1>10, <3>1
    <3> QED BY <1>5, <1>6, <2>2, <3>2 DEF Step
  <2> QED BY <2>1, <2>2
<1>12. g = h
      BY <1>5, <1>6, <1>11, SameFunction
<1>13. Folding(g, base, F, m)
      BY <1>7, <1>12 DEF Folding
<1>14. m \notin none
      BY <1>13 DEF none
<1> QED BY <1>1, <1>14

LEMMA FoldKeeps ==
    ASSUME NEW N \in Nat, NEW T, NEW g, g[{}] \in T,
           \A s \in SUBSET (1 .. N) : s # {} /\ g[s \ {S!Max(s)}] \in T => g[s] \in T
    PROVE  \A s \in SUBSET (1 .. N) : g[s] \in T
<1> DEFINE bad == {k \in 0 .. N : \E s \in SUBSET (1 .. k) : g[s] \notin T}
<1>1. bad \subseteq Nat
      OBVIOUS
<1>2. ASSUME bad # {} PROVE FALSE
  <2>1. PICK m \in bad : \A n \in bad : m <= n
    <3> HIDE DEF bad
    <3> QED BY <1>1, <1>2, Least
  <2>2. PICK s \in SUBSET (1 .. m) : g[s] \notin T
        OBVIOUS
  <2>3. m \in 0 .. N
        OBVIOUS
  <2> HIDE DEF bad
  <2>4. s # {} /\ s \subseteq 1 .. m /\ m \in Nat
    <3>1. s # {}
          BY <2>2
    <3>2. m \in Nat
          BY <2>3
    <3> QED BY <3>1, <3>2
  <2>5. s \ {S!Max(s)} \subseteq 1 .. (m - 1) /\ m # 0
        BY <2>4, WithoutLast
  <2>6. s \in SUBSET (1 .. N)
    <3>1. 1 .. m \subseteq 1 .. N
          BY <2>3
    <3> QED BY <2>4, <3>1
  <2>7. g[s \ {S!Max(s)}] \notin T
        BY <2>2, <2>4, <2>6
  <2>8. m - 1 \in 0 .. N /\ ~ (m <= m - 1)
        BY <2>3, <2>5
  <2>9. m - 1 \in bad
        BY <2>5, <2>7, <2>8 DEF bad
  <2> QED BY <2>1, <2>8, <2>9
<1> SUFFICES ASSUME NEW s \in SUBSET (1 .. N), g[s] \notin T PROVE FALSE
    OBVIOUS
<1>3. N \in 0 .. N
      OBVIOUS
<1> QED BY <1>2, <1>3

(* What adding a page keeps, the results of a search keep.                 *)
LEMMA FoundKeeps ==
    ASSUME NEW T, NEW found \in T, NEW list \in Seq(Pages),
           \A x \in T, a \in Pages : S!Add(x, a) \in T
    PROVE  S!FoldLeft(S!Add, found, list) \in T
<1> DEFINE N == Len(list)
           F == [x \in T \X (1 .. N) |-> S!Add(x[1], list[x[2]])]
           Rule(f, s) == IF s = {} THEN found
                         ELSE S!Add(f[s \ {S!Max(s)}], list[S!Max(s)])
           g == CHOOSE f : f = [s \in SUBSET DOMAIN list |-> Rule(f, s)]
<1>1. N \in Nat /\ DOMAIN list = 1 .. N /\ \A n \in 1 .. N : list[n] \in Pages
      OBVIOUS
<1>2. S!FoldLeft(S!Add, found, list) = g[DOMAIN list]
      BY DEF S!FoldLeft, S!MapThenFoldSet
<1>3. PICK f : Folding(f, found, F, N)
      BY <1>1, FoldExists
<1>4. \A x \in T, n \in 1 .. N : F[<<x, n>>] = S!Add(x, list[n]) /\ F[<<x, n>>] \in T
      BY <1>1
<1> HIDE DEF F, N, g
<1>5. f = [s \in SUBSET (1 .. N) |-> f[s]]
      /\ \A s \in SUBSET (1 .. N) : f[s] = Step(f, found, F, s)
      BY <1>3 DEF Folding
<1>6. \A s \in SUBSET (1 .. N) : s # {} => S!Max(s) \in 1 .. N /\ s \ {S!Max(s)} \in SUBSET (1 .. N)
      BY <1>1, WithoutLast
<1>7. \A s \in SUBSET (1 .. N) : f[s] \in T
  <2>1. f[{}] \in T
        BY <1>5 DEF Step
  <2>2. \A s \in SUBSET (1 .. N) : s # {} /\ f[s \ {S!Max(s)}] \in T => f[s] \in T
        BY <1>4, <1>5, <1>6 DEF Step
  <2> QED BY <1>1, <2>1, <2>2, FoldKeeps
<1>8. \A s \in SUBSET (1 .. N) : f[s] = Rule(f, s)
      BY <1>4, <1>5, <1>6, <1>7 DEF Step
<1> HIDE DEF Rule
<1>9. f = [s \in SUBSET (1 .. N) |-> Rule(f, s)]
      BY <1>5, <1>8
<1>10. g = [s \in SUBSET (1 .. N) |-> Rule(g, s)]
       BY <1>1, <1>9 DEF g
<1>11. \A s \in SUBSET (1 .. N) : g[s] = Rule(g, s)
       BY <1>10
<1>12. g[{}] \in T
       BY <1>11 DEF Rule
<1>13. \A s \in SUBSET (1 .. N) : s # {} /\ g[s \ {S!Max(s)}] \in T => g[s] \in T
       BY <1>1, <1>6, <1>11 DEF Rule
<1>14. \A s \in SUBSET (1 .. N) : g[s] \in T
       BY <1>1, <1>12, <1>13, FoldKeeps
<1> QED BY <1>1, <1>2, <1>14

(* What keeping an answer keeps, all answers of the model keep.            *)
LEMMA GroundedKeeps ==
    ASSUME NEW T, <<>> \in T, NEW list \in Seq(Answers),
           \A x \in T, a \in Answers : S!Kept(x, a) \in T
    PROVE  S!Grounded(list) \in T
<1> DEFINE N == Len(list)
           F == [x \in T \X (1 .. N) |-> S!Kept(x[1], list[x[2]])]
           Rule(f, s) == IF s = {} THEN <<>>
                         ELSE S!Kept(f[s \ {S!Max(s)}], list[S!Max(s)])
           g == CHOOSE f : f = [s \in SUBSET DOMAIN list |-> Rule(f, s)]
<1>1. N \in Nat /\ DOMAIN list = 1 .. N /\ \A n \in 1 .. N : list[n] \in Answers
      OBVIOUS
<1>2. S!Grounded(list) = g[DOMAIN list]
      BY DEF S!Grounded, S!FoldLeft, S!MapThenFoldSet
<1>3. PICK f : Folding(f, <<>>, F, N)
      BY <1>1, FoldExists
<1>4. \A x \in T, n \in 1 .. N : F[<<x, n>>] = S!Kept(x, list[n]) /\ F[<<x, n>>] \in T
      BY <1>1
<1> HIDE DEF F, N, g
<1>5. f = [s \in SUBSET (1 .. N) |-> f[s]]
      /\ \A s \in SUBSET (1 .. N) : f[s] = Step(f, <<>>, F, s)
      BY <1>3 DEF Folding
<1>6. \A s \in SUBSET (1 .. N) : s # {} => S!Max(s) \in 1 .. N /\ s \ {S!Max(s)} \in SUBSET (1 .. N)
      BY <1>1, WithoutLast
<1>7. \A s \in SUBSET (1 .. N) : f[s] \in T
  <2>1. f[{}] \in T
        BY <1>5 DEF Step
  <2>2. \A s \in SUBSET (1 .. N) : s # {} /\ f[s \ {S!Max(s)}] \in T => f[s] \in T
        BY <1>4, <1>5, <1>6 DEF Step
  <2> QED BY <1>1, <2>1, <2>2, FoldKeeps
<1>8. \A s \in SUBSET (1 .. N) : f[s] = Rule(f, s)
      BY <1>4, <1>5, <1>6, <1>7 DEF Step
<1> HIDE DEF Rule
<1>9. f = [s \in SUBSET (1 .. N) |-> Rule(f, s)]
      BY <1>5, <1>8
<1>10. g = [s \in SUBSET (1 .. N) |-> Rule(g, s)]
       BY <1>1, <1>9 DEF g
<1>11. \A s \in SUBSET (1 .. N) : g[s] = Rule(g, s)
       BY <1>10
<1>12. g[{}] \in T
       BY <1>11 DEF Rule
<1>13. \A s \in SUBSET (1 .. N) : s # {} /\ g[s \ {S!Max(s)}] \in T => g[s] \in T
       BY <1>1, <1>6, <1>11 DEF Rule
<1>14. \A s \in SUBSET (1 .. N) : g[s] \in T
       BY <1>1, <1>12, <1>13, FoldKeeps
<1> QED BY <1>1, <1>2, <1>14

(* What adding a proposal keeps, all proposals keep.                       *)
LEMMA ProposedKeeps ==
    ASSUME NEW T, NEW first \in T, NEW P, NEW list \in Seq(P),
           \A x \in T, a \in P : S!AddNew(x, a) \in T
    PROVE  S!FoldLeft(S!AddNew, first, list) \in T
<1> DEFINE N == Len(list)
           F == [x \in T \X (1 .. N) |-> S!AddNew(x[1], list[x[2]])]
           Rule(f, s) == IF s = {} THEN first
                         ELSE S!AddNew(f[s \ {S!Max(s)}], list[S!Max(s)])
           g == CHOOSE f : f = [s \in SUBSET DOMAIN list |-> Rule(f, s)]
<1>1. N \in Nat /\ DOMAIN list = 1 .. N /\ \A n \in 1 .. N : list[n] \in P
      OBVIOUS
<1>2. S!FoldLeft(S!AddNew, first, list) = g[DOMAIN list]
      BY DEF S!FoldLeft, S!MapThenFoldSet
<1>3. PICK f : Folding(f, first, F, N)
      BY <1>1, FoldExists
<1>4. \A x \in T, n \in 1 .. N : F[<<x, n>>] = S!AddNew(x, list[n]) /\ F[<<x, n>>] \in T
      BY <1>1
<1> HIDE DEF F, N, g
<1>5. f = [s \in SUBSET (1 .. N) |-> f[s]]
      /\ \A s \in SUBSET (1 .. N) : f[s] = Step(f, first, F, s)
      BY <1>3 DEF Folding
<1>6. \A s \in SUBSET (1 .. N) : s # {} => S!Max(s) \in 1 .. N /\ s \ {S!Max(s)} \in SUBSET (1 .. N)
      BY <1>1, WithoutLast
<1>7. \A s \in SUBSET (1 .. N) : f[s] \in T
  <2>1. f[{}] \in T
        BY <1>5 DEF Step
  <2>2. \A s \in SUBSET (1 .. N) : s # {} /\ f[s \ {S!Max(s)}] \in T => f[s] \in T
        BY <1>4, <1>5, <1>6 DEF Step
  <2> QED BY <1>1, <2>1, <2>2, FoldKeeps
<1>8. \A s \in SUBSET (1 .. N) : f[s] = Rule(f, s)
      BY <1>4, <1>5, <1>6, <1>7 DEF Step
<1> HIDE DEF Rule
<1>9. f = [s \in SUBSET (1 .. N) |-> Rule(f, s)]
      BY <1>5, <1>8
<1>10. g = [s \in SUBSET (1 .. N) |-> Rule(g, s)]
       BY <1>1, <1>9 DEF g
<1>11. \A s \in SUBSET (1 .. N) : g[s] = Rule(g, s)
       BY <1>10
<1>12. g[{}] \in T
       BY <1>11 DEF Rule
<1>13. \A s \in SUBSET (1 .. N) : s # {} /\ g[s \ {S!Max(s)}] \in T => g[s] \in T
       BY <1>1, <1>6, <1>11 DEF Rule
<1>14. \A s \in SUBSET (1 .. N) : g[s] \in T
       BY <1>1, <1>12, <1>13, FoldKeeps
<1> QED BY <1>1, <1>2, <1>14

(***************************************************************************)
(* The search: what is found is distinct, and what is proposed is found    *)
(***************************************************************************)

Distinct ==
    {list \in Seq(Pages) :
        \A i, j \in DOMAIN list :
            list[i].url = list[j].url \/ list[i].title = list[j].title => i = j}

Sourced == {[key |-> a.key, urls |-> cited] : a \in Answers, cited \in (SUBSET S!Urls) \ {{}}}
OneToFour == {list \in Seq(Sourced) : Len(list) \in 1 .. 4}

SearchInv ==
    /\ evidence \in Distinct
    /\ query \in 0 .. Queries
    /\ final \in {S!Pending, S!Fails} \cup OneToFour

LEMMA AddKeeps ==
    ASSUME NEW list \in Distinct, NEW page \in Pages
    PROVE  S!Add(list, page) \in Distinct
<1>1. list \in Seq(Pages)
      /\ \A i, j \in DOMAIN list :
            list[i].url = list[j].url \/ list[i].title = list[j].title => i = j
      BY DEF Distinct
<1>2. CASE \E i \in DOMAIN list : list[i].url = page.url \/ list[i].title = page.title
      BY <1>2 DEF S!Add
<1>3. CASE ~ \E i \in DOMAIN list : list[i].url = page.url \/ list[i].title = page.title
  <2> DEFINE longer == Append(list, page)
  <2>1. longer \in Seq(Pages) /\ DOMAIN longer = DOMAIN list \cup {Len(list) + 1}
        /\ longer[Len(list) + 1] = page /\ Len(list) + 1 \notin DOMAIN list
        /\ \A i \in DOMAIN list : longer[i] = list[i]
        BY <1>1
  <2> HIDE DEF longer
  <2>2. \A i, j \in DOMAIN longer :
            longer[i].url = longer[j].url \/ longer[i].title = longer[j].title => i = j
        BY <1>1, <1>3, <2>1
  <2>3. longer \in Distinct
        BY <2>1, <2>2 DEF Distinct
  <2>4. S!Add(list, page) \in {list, longer}
        BY DEF S!Add, longer
  <2> QED BY <2>3, <2>4
<1> QED BY <1>2, <1>3

LEMMA KeptKeeps ==
    ASSUME NEW list \in Seq(Sourced), NEW a \in Answers
    PROVE  S!Kept(list, a) \in Seq(Sourced)
<1> DEFINE cited == a.urls \cap S!Urls
<1>1. CASE cited = {}
      BY <1>1 DEF S!Kept
<1>2. CASE cited # {}
  <2>1. cited \in (SUBSET S!Urls) \ {{}}
        BY <1>2
  <2>2. [key |-> a.key, urls |-> cited] \in Sourced
        BY <2>1 DEF Sourced
  <2>3. Append(list, [key |-> a.key, urls |-> cited]) \in Seq(Sourced)
        BY <2>2
  <2> QED BY <2>3 DEF S!Kept
<1> QED BY <1>1, <1>2

LEMMA AddNewKeeps ==
    ASSUME NEW list \in OneToFour, NEW c \in Sourced
    PROVE  S!AddNew(list, c) \in OneToFour
<1>1. list \in Seq(Sourced) /\ Len(list) \in 1 .. 4
      BY DEF OneToFour
<1>2. CASE Len(list) >= 4
      BY <1>2 DEF S!AddNew
<1>3. CASE ~ (Len(list) >= 4)
  <2>1. Append(list, c) \in Seq(Sourced) /\ Len(Append(list, c)) = Len(list) + 1
        BY <1>1
  <2>2. Append(list, c) \in OneToFour
        BY <1>1, <1>3, <2>1 DEF OneToFour
  <2> QED BY <2>2 DEF S!AddNew
<1> QED BY <1>2, <1>3

LEMMA Lists ==
    ASSUME NEW n \in Nat, NEW P, NEW list \in S!UpTo(n, P)
    PROVE  list \in Seq(P)
<1>1. PICK k \in 0 .. n : list \in [1 .. k -> P]
      BY DEF S!UpTo
<1> QED BY <1>1

LEMMA FinalFromGrounded ==
    ASSUME NEW answers \in Seq(Answers), NEW proposals \in Seq(Answers),
           S!Grounded(answers) # <<>>
    PROVE  S!FinalCandidates(S!Grounded(answers), S!Grounded(proposals)) \in OneToFour
<1>1. <<>> \in Seq(Sourced) /\ \A x \in Seq(Sourced), a \in Answers : S!Kept(x, a) \in Seq(Sourced)
      BY KeptKeeps
<1> DEFINE T == Seq(Sourced)
<1>2. S!Grounded(answers) \in T /\ S!Grounded(proposals) \in T
  <2> HIDE DEF T
  <2>1. <<>> \in T /\ \A x \in T, a \in Answers : S!Kept(x, a) \in T
        BY <1>1 DEF T
  <2> QED BY <2>1, GroundedKeeps
<1>3. PICK first, more : first = S!Grounded(answers) /\ more = S!Grounded(proposals)
      OBVIOUS
<1>4. first \in Seq(Sourced) /\ more \in Seq(Sourced)
      /\ \E k \in Nat : k = Len(first) /\ k >= 1
  <2>1. first # <<>> /\ first \in Seq(Sourced) /\ more \in Seq(Sourced)
        BY <1>2, <1>3
  <2> QED BY <2>1
<1> HIDE DEF T
<1>5. PICK k \in Nat : k = Len(first) /\ k >= 1
      BY <1>4
<1>6. CASE k < 2
  <2>1. first \in OneToFour
    <3>1. Len(first) \in 1 .. 4
          BY <1>6, <1>5
    <3> QED BY <1>4, <3>1 DEF OneToFour
  <2>2. \A x \in OneToFour, c \in Sourced : S!AddNew(x, c) \in OneToFour
        BY AddNewKeeps
  <2>3. S!FoldLeft(S!AddNew, first, more) \in OneToFour
        BY <1>4, <2>1, <2>2, ProposedKeeps
  <2> QED BY <1>3, <1>6, <1>5, <2>3 DEF S!FinalCandidates
<1>7. CASE ~ (k < 2)
  <2> DEFINE n == IF k < 4 THEN k ELSE 4
  <2>1. n \in 1 .. 4 /\ n <= k
        BY <1>7
  <2> HIDE DEF n
  <2>2. SubSeq(first, 1, n) \in Seq(Sourced) /\ Len(SubSeq(first, 1, n)) = n
        BY <1>4, <1>5, <2>1
  <2>3. SubSeq(first, 1, n) \in OneToFour
        BY <2>1, <2>2 DEF OneToFour
  <2> QED BY <1>3, <1>7, <1>5, <2>3 DEF S!FinalCandidates, n
<1> QED BY <1>6, <1>7

LEMMA SearchBegins ==
    ASSUME S!SearchAssumption, S!Init PROVE SearchInv
<1>1. <<>> \in Distinct
      BY DEF Distinct
<1>2. 0 \in 0 .. Queries
      BY DEF S!SearchAssumption
<1> QED BY <1>1, <1>2 DEF S!Init, SearchInv

LEMMA SearchKeeps ==
    ASSUME S!SearchAssumption, SearchInv, S!Next PROVE SearchInv'
<1>1. CASE S!Search
  <2>1. PICK results \in S!UpTo(PerQuery, Pages) :
            evidence' = S!FoldLeft(S!Add, evidence, results)
        BY <1>1 DEF S!Search
  <2>2. results \in Seq(Pages)
        BY <2>1, Lists DEF S!SearchAssumption
  <2>3. evidence \in Distinct /\ \A x \in Distinct, a \in Pages : S!Add(x, a) \in Distinct
        BY AddKeeps DEF SearchInv
  <2>4. evidence' \in Distinct
        BY <2>1, <2>2, <2>3, FoundKeeps
  <2>5. query' \in 0 .. Queries
        BY <1>1 DEF S!Search, SearchInv, S!SearchAssumption
  <2>6. final' = S!Pending
        BY <1>1 DEF S!Search
  <2> QED BY <2>4, <2>5, <2>6 DEF SearchInv, S!Pending
<1>2. CASE S!SearchRefused
      BY <1>2 DEF S!SearchRefused, SearchInv, S!Fails
<1>3. CASE S!Negotiate
  <2>1. UNCHANGED <<evidence, query>>
        BY <1>3 DEF S!Negotiate
  <2>2. OneToFour' = OneToFour
        BY <2>1 DEF OneToFour, Sourced, S!Urls
  <2>3. CASE final' = S!Fails
        BY <2>1, <2>3 DEF SearchInv, S!Fails
  <2>4. CASE final' # S!Fails
    <3>1. PICK answers \in S!UpTo(MaxAnswers, Answers),
               proposals \in S!UpTo(MaxAnswers, Answers) :
            /\ S!Grounded(answers) # <<>>
            /\ final' = S!FinalCandidates(S!Grounded(answers), S!Grounded(proposals))
          BY <1>3, <2>4 DEF S!Negotiate
    <3>2. answers \in Seq(Answers) /\ proposals \in Seq(Answers)
          BY Lists DEF S!SearchAssumption
    <3>3. final' \in OneToFour
          BY <3>1, <3>2, FinalFromGrounded
    <3> QED BY <2>1, <2>2, <3>3 DEF SearchInv
  <2> QED BY <2>3, <2>4
<1> QED BY <1>1, <1>2, <1>3 DEF S!Next

LEMMA SearchSound ==
    ASSUME SearchInv PROVE S!TypeOK /\ S!EverySourceFound /\ S!EvidenceDistinct
<1>1. evidence \in Seq(Pages) /\ S!EvidenceDistinct
      BY DEF SearchInv, Distinct, S!EvidenceDistinct
<1>2. \A i \in DOMAIN evidence : evidence[i] \in Pages
      BY <1>1
<1>3. ASSUME final \in OneToFour
      PROVE  /\ Len(final) \in 1 .. 4
             /\ \A i \in DOMAIN final : final[i].urls # {} /\ final[i].urls \subseteq S!Urls
  <2>1. final \in Seq(Sourced) /\ Len(final) \in 1 .. 4
        BY <1>3 DEF OneToFour
  <2>2. ASSUME NEW i \in DOMAIN final
        PROVE  final[i].urls # {} /\ final[i].urls \subseteq S!Urls
    <3>1. final[i] \in Sourced
          BY <2>1
    <3>2. PICK a \in Answers, cited \in (SUBSET S!Urls) \ {{}} :
              final[i] = [key |-> a.key, urls |-> cited]
          BY <3>1 DEF Sourced
    <3> QED BY <3>2
  <2> QED BY <2>1, <2>2
<1>4. S!EverySourceFound
  <2> SUFFICES ASSUME final \notin {S!Pending, S!Fails} PROVE S!EverySourceFound
      BY DEF S!EverySourceFound
  <2>1. final \in OneToFour
        BY DEF SearchInv
  <2> QED BY <1>3, <2>1 DEF S!EverySourceFound, S!Urls
<1>5. S!TypeOK
  <2>1. final \in OneToFour \/ final = S!Fails \/ final = <<>>
        BY DEF SearchInv, S!Pending
  <2>2. final # S!Fails => \A i \in DOMAIN final : final[i].urls # {}
        BY <1>3, <2>1
  <2>3. query \in 0 .. Queries
        BY DEF SearchInv
  <2> QED BY <1>2, <2>2, <2>3 DEF S!TypeOK
<1> QED BY <1>1, <1>4, <1>5

(***************************************************************************)
(* The choice: extremes of finite sets, and the order of the ranking       *)
(***************************************************************************)

LEMMA SameFinite == ASSUME NEW P PROVE D!IsFiniteSet(P) <=> IsFiniteSet(P)
BY DEF D!IsFiniteSet, IsFiniteSet

LEMMA SameCount == ASSUME NEW P PROVE D!Cardinality(P) = Cardinality(P)
BY DEF D!Cardinality, Cardinality

LEMMA UpToFinite ==
    ASSUME NEW n \in Nat
    PROVE  IsFiniteSet(1..n) /\ Cardinality(1..n) = n
<1>1. 1 \in Int /\ n \in Int
      OBVIOUS
<1>2. IsFiniteSet(1..n) /\ Cardinality(1..n) = IF 1 > n THEN 0 ELSE n - 1 + 1
      BY <1>1, FS_Interval
<1> QED BY <1>2

(* The values of a function on a finite set are finitely many.             *)
LEMMA ValuesFinite ==
    ASSUME NEW P, IsFiniteSet(P), NEW f, f = [x \in P |-> f[x]], NEW Q, Q = {f[x] : x \in P}
    PROVE  IsFiniteSet(Q)
<1>1. f \in Surjection(P, Q)
      BY DEF Surjection
<1> QED BY <1>1, FS_Surjection

(* A finite set has an element that a total and transitive relation puts   *)
(* before all: else there is a smallest set without one.                   *)
LEMMA Extreme ==
    ASSUME NEW R, NEW P, IsFiniteSet(P), P # {},
           \A x, y \in P : <<x, y>> \in R \/ <<y, x>> \in R,
           \A x, y, z \in P : <<x, y>> \in R /\ <<y, z>> \in R => <<x, z>> \in R
    PROVE  \E x \in P : \A y \in P : <<x, y>> \in R
<1> DEFINE First(T, x) == x \in T /\ \A y \in T : <<x, y>> \in R
           Lacks(T) == T \subseteq P /\ T # {} /\ ~ \E x : First(T, x)
           sizes == {n \in Nat : \E T \in SUBSET P : Lacks(T) /\ Cardinality(T) = n}
<1>1. \A T \in SUBSET P : IsFiniteSet(T) /\ Cardinality(T) \in Nat
      BY FS_Subset, FS_CardinalityType
<1> SUFFICES ASSUME Lacks(P) PROVE FALSE
    OBVIOUS
<1>2. sizes \subseteq Nat /\ sizes # {}
  <2>1. Cardinality(P) \in sizes
        BY <1>1
  <2> QED BY <2>1
<1>3. PICK n \in sizes : \A m \in sizes : n <= m
  <2> HIDE DEF sizes
  <2> QED BY <1>2, Least
<1>4. PICK T \in SUBSET P : Lacks(T) /\ Cardinality(T) = n
      OBVIOUS
<1>5. PICK x \in T : TRUE
      BY <1>4
<1> DEFINE U == T \ {x}
<1>6. IsFiniteSet(U) /\ Cardinality(U) = n - 1 /\ n \in Nat
      BY <1>1, <1>4, <1>5, FS_RemoveElement
<1>7. n - 1 \notin sizes
  <2>1. n - 1 \in sizes => n <= n - 1
        BY <1>3
  <2>2. ~ (n <= n - 1)
        BY <1>6
  <2> QED BY <2>1, <2>2
<1>8. U \in SUBSET P
      BY <1>4
<1>9. n - 1 \in Nat
  <2>1. Cardinality(U) \in Nat
        BY <1>1, <1>8
  <2> QED BY <1>6, <2>1
<1>10. ~ Lacks(U)
       BY <1>6, <1>7, <1>8, <1>9
<1>11. <<x, x>> \in R /\ x \in P
       BY <1>4, <1>5
<1>12. CASE U = {}
  <2>1. First(T, x)
        BY <1>5, <1>11, <1>12
  <2> QED BY <1>4, <2>1
<1>13. CASE U # {}
  <2>1. PICK y : First(U, y)
        BY <1>8, <1>10, <1>13
  <2>2. y \in P /\ y \in T
        BY <1>8, <2>1
  <2>3. CASE <<y, x>> \in R
    <3>1. First(T, y)
          BY <2>1, <2>2, <2>3
    <3> QED BY <1>4, <3>1
  <2>4. CASE <<x, y>> \in R
    <3>1. \A z \in T : <<x, z>> \in R
          BY <1>4, <1>11, <2>1, <2>2, <2>4
    <3>2. First(T, x)
          BY <1>5, <3>1
    <3> QED BY <1>4, <3>2
  <2> QED BY <1>11, <2>2, <2>3, <2>4
<1> QED BY <1>12, <1>13

LEMMA Bounds ==
    ASSUME NEW P, IsFiniteSet(P), P # {}, P \subseteq Int
    PROVE  D!Min(P) \in P /\ D!Max(P) \in P
<1> DEFINE Less == {p \in Int \X Int : p[1] <= p[2]}
           More == {p \in Int \X Int : p[1] >= p[2]}
<1>1. \A x, y \in P : (<<x, y>> \in Less <=> x <= y) /\ (<<x, y>> \in More <=> x >= y)
      OBVIOUS
<1> HIDE DEF Less, More
<1>2. \A x \in P : x \in Int
      OBVIOUS
<1>3. ASSUME NEW x \in P, NEW y \in P
      PROVE  /\ <<x, y>> \in Less \/ <<y, x>> \in Less
             /\ <<x, y>> \in More \/ <<y, x>> \in More
  <2>1. x <= y \/ y <= x
        BY <1>2
  <2>2. x >= y \/ y >= x
        BY <1>2
  <2> QED BY <1>1, <2>1, <2>2
<1>4. ASSUME NEW x \in P, NEW y \in P, NEW z \in P
      PROVE  /\ <<x, y>> \in Less /\ <<y, z>> \in Less => <<x, z>> \in Less
             /\ <<x, y>> \in More /\ <<y, z>> \in More => <<x, z>> \in More
  <2>1. (x <= y /\ y <= z => x <= z) /\ (x >= y /\ y >= z => x >= z)
        BY <1>2
  <2> QED BY <1>1, <2>1
<1>5. \E x \in P : \A y \in P : <<x, y>> \in Less
      BY <1>3, <1>4, Extreme
<1>6. \E x \in P : \A y \in P : <<x, y>> \in More
      BY <1>3, <1>4, Extreme
<1>7. \E x \in P : \A y \in P : x <= y
      BY <1>1, <1>5
<1>8. \E x \in P : \A y \in P : x >= y
      BY <1>1, <1>6
<1> QED BY <1>7, <1>8 DEF D!Min, D!Max

(* What is ranked: aggregates with different keys. *)
Aggregates == [key : Nat, pass : BOOLEAN, score : Nat]
OneEach(P) == P \subseteq Aggregates /\ \A a, b \in P : a.key = b.key => a = b

LEMMA BeforeOrders ==
    ASSUME NEW P, OneEach(P)
    PROVE  /\ \A a \in P : ~ D!Before(a, a)
           /\ \A a, b \in P : a # b => D!Before(a, b) \/ D!Before(b, a)
           /\ \A a, b, c \in P : D!Before(a, b) /\ D!Before(b, c) => D!Before(a, c)
<1>1. \A a \in P : a.key \in Nat /\ a.pass \in BOOLEAN /\ a.score \in Nat
      BY DEF OneEach, Aggregates
<1>2. \A a \in P : ~ D!Before(a, a)
      BY <1>1 DEF D!Before
<1>3. ASSUME NEW a \in P, NEW b \in P, a # b
      PROVE  D!Before(a, b) \/ D!Before(b, a)
  <2>1. a.key # b.key
        BY <1>3 DEF OneEach
  <2> QED BY <1>1, <2>1 DEF D!Before
<1>4. ASSUME NEW a \in P, NEW b \in P, NEW c \in P, D!Before(a, b), D!Before(b, c)
      PROVE  D!Before(a, c)
      BY <1>1, <1>4 DEF D!Before
<1> QED BY <1>2, <1>3, <1>4

Ahead(P, a) == {b \in P : D!Before(b, a)}

LEMMA PlaceInOrder ==
    ASSUME NEW P, IsFiniteSet(P), OneEach(P)
    PROVE  /\ D!InOrder(P) = [i \in 1 .. Cardinality(P) |-> D!InOrder(P)[i]]
           /\ \A i \in 1 .. Cardinality(P) :
                 D!InOrder(P)[i] \in P /\ Cardinality(Ahead(P, D!InOrder(P)[i])) = i - 1
<1> DEFINE n == Cardinality(P)
           place == [a \in P |-> Cardinality(Ahead(P, a)) + 1]
<1>1. n \in Nat /\ \A T \in SUBSET P : IsFiniteSet(T) /\ Cardinality(T) \in Nat
      BY FS_Subset, FS_CardinalityType
<1>2. \A a \in P : ~ D!Before(a, a)
      BY BeforeOrders
<1>3. \A a, b \in P : a # b => D!Before(a, b) \/ D!Before(b, a)
      BY BeforeOrders
<1>4. \A a, b, c \in P : D!Before(a, b) /\ D!Before(b, c) => D!Before(a, c)
      BY BeforeOrders
<1>5. ASSUME NEW S1 \in SUBSET P, NEW S2 \in SUBSET P, S1 \subseteq S2, S1 # S2
      PROVE  Cardinality(S1) < Cardinality(S2)
  <2>1. IsFiniteSet(S2) /\ Cardinality(S1) \in Nat /\ Cardinality(S2) \in Nat
        BY <1>1
  <2>2. Cardinality(S1) <= Cardinality(S2) /\ Cardinality(S1) # Cardinality(S2)
        BY <1>5, <2>1, FS_Subset
  <2> QED BY <2>1, <2>2
<1>6. \A a \in P : Ahead(P, a) \in SUBSET P /\ a \notin Ahead(P, a)
      BY <1>2 DEF Ahead
<1>7. \A a \in P : place[a] \in 1 .. n /\ place[a] = Cardinality(Ahead(P, a)) + 1
  <2> TAKE a \in P
  <2>1. Cardinality(Ahead(P, a)) < n
        BY <1>5, <1>6
  <2>2. Cardinality(Ahead(P, a)) \in Nat
        BY <1>1, <1>6
  <2> QED BY <1>1, <2>1, <2>2
<1>8. ASSUME NEW a \in P, NEW b \in P, D!Before(a, b)
      PROVE  place[a] < place[b]
  <2>1. Ahead(P, a) \subseteq Ahead(P, b) /\ a \in Ahead(P, b)
        BY <1>4, <1>8 DEF Ahead
  <2>2. Cardinality(Ahead(P, a)) < Cardinality(Ahead(P, b))
        BY <1>5, <1>6, <2>1
  <2>3. Cardinality(Ahead(P, a)) \in Nat /\ Cardinality(Ahead(P, b)) \in Nat
        BY <1>1, <1>6
  <2> QED BY <2>2, <2>3
<1>9. place \in [P -> 1 .. n]
  <2>1. place = [a \in P |-> place[a]]
        OBVIOUS
  <2> HIDE DEF place, n
  <2> QED BY <1>7, <2>1
<1> HIDE DEF place, n
<1>10. ASSUME NEW a \in P, NEW b \in P, place[a] = place[b]
       PROVE  a = b
  <2> SUFFICES ASSUME a # b PROVE FALSE
      OBVIOUS
  <2>1. place[a] < place[b] \/ place[b] < place[a]
        BY <1>3, <1>8
  <2>2. place[a] \in Nat /\ place[b] \in Nat
        BY <1>7
  <2> QED BY <1>10, <2>1, <2>2
<1>11. place \in Injection(P, 1 .. n)
       BY <1>9, <1>10 DEF Injection, IsInjective
<1>12. IsFiniteSet(1 .. n) /\ Cardinality(1 .. n) = Cardinality(P)
       BY <1>1, UpToFinite DEF n
<1>13. place \in Surjection(P, 1 .. n)
       BY <1>11, <1>12, FS_Injection
<1>14. \A i \in 1 .. n : \E a \in P : place[a] = i
       BY <1>13 DEF Surjection
<1>15. ASSUME NEW i \in 1 .. n
       PROVE  \E a \in P : Cardinality(Ahead(P, a)) = i - 1
  <2>1. PICK a \in P : place[a] = i
        BY <1>14
  <2>2. Cardinality(Ahead(P, a)) \in Nat /\ i = Cardinality(Ahead(P, a)) + 1
        BY <1>1, <1>6, <1>7, <2>1
  <2>3. Cardinality(Ahead(P, a)) = i - 1
        BY <2>2
  <2> QED BY <2>3
<1>16. D!InOrder(P) = [i \in 1 .. n |-> CHOOSE a \in P : Cardinality(Ahead(P, a)) = i - 1]
       BY DEF D!InOrder, D!Cardinality, Cardinality, Ahead, n
<1>17. \A i \in 1 .. n :
          D!InOrder(P)[i] = CHOOSE a \in P : Cardinality(Ahead(P, a)) = i - 1
       BY <1>16
<1>18. D!InOrder(P) = [i \in 1 .. n |-> D!InOrder(P)[i]]
       BY <1>16
<1>19. \A i \in 1 .. n :
          D!InOrder(P)[i] \in P /\ Cardinality(Ahead(P, D!InOrder(P)[i])) = i - 1
       BY <1>15, <1>17
<1> QED BY <1>18, <1>19 DEF n

Suitable ==
    {r \in DOMAIN Restaurants :
        \A m \in Members : /\ D!HardPass(r, capsule[m])
                           /\ Restaurants[r].minutes <= capsule[m].minutes
                           /\ \E n \in Members :
                                 Restaurants[r].slots \cap capsule[n].slots # {}}
Passing == {r \in candidates : \A m \in Members : D!HardPass(r, capsule[m])}

(* Passing restaurants are ahead of the others in the ranking.             *)
RankedWell ==
    /\ \A i \in DOMAIN ranked : /\ ranked[i].key \in candidates
                                /\ ranked[i].score \in Scores \cup {0}
                                /\ ranked[i].pass = (ranked[i].key \in passing)
    /\ ranked = <<>> => candidates = {}
    /\ ranked # <<>> => 1 \in DOMAIN ranked
    /\ ranked # <<>> /\ ~ ranked[1].pass => passing = {}

ChoiceInv ==
    /\ capsule \in [Members -> D!Capsule]
    /\ stage \in {"generate", "evaluate", "rank", "done"}
    /\ candidates \subseteq DOMAIN Restaurants
    /\ stage # "generate" => Suitable \subseteq candidates
    /\ stage \in {"generate", "evaluate"} => passing = {}
    /\ stage \in {"rank", "done"} => passing = Passing
    /\ stage # "done" => ranked = <<>>
    /\ stage = "done" => RankedWell

LEMMA GroupBounds ==
    ASSUME D!MembersAssumption, D!RestaurantsAssumption, ChoiceInv
    PROVE  /\ \E m \in Members : D!Min(D!Lows) = capsule[m].budget[1]
           /\ \E m \in Members : D!Max(D!Lows) = capsule[m].budget[1]
           /\ \E m \in Members : D!Min(D!Highs) = capsule[m].budget[2]
           /\ \E m \in Members : D!Max(D!Highs) = capsule[m].budget[2]
           /\ \E m \in Members : D!GroupMinutes = capsule[m].minutes
<1>1. IsFiniteSet(Members) /\ Members # {}
      BY SameFinite DEF D!MembersAssumption
<1>2. \A m \in Members : capsule[m] \in D!Capsule
      BY DEF ChoiceInv
<1>3. \A m \in Members : /\ capsule[m].budget \in Budgets /\ capsule[m].minutes \in {10, 20, 30}
      BY <1>2 DEF D!Capsule
<1>4. \A m \in Members : /\ capsule[m].budget[1] \in Int /\ capsule[m].budget[2] \in Int
                         /\ capsule[m].minutes \in Int
      BY <1>3 DEF D!RestaurantsAssumption
<1> DEFINE minutes == {capsule[m].minutes : m \in Members}
<1>5. IsFiniteSet(D!Lows) /\ IsFiniteSet(D!Highs) /\ IsFiniteSet(minutes)
  <2> DEFINE f == [m \in Members |-> capsule[m].budget[1]]
             g == [m \in Members |-> capsule[m].budget[2]]
             h == [m \in Members |-> capsule[m].minutes]
  <2>1. f = [m \in Members |-> f[m]] /\ D!Lows = {f[m] : m \in Members}
        BY DEF D!Lows
  <2>2. g = [m \in Members |-> g[m]] /\ D!Highs = {g[m] : m \in Members}
        BY DEF D!Highs
  <2>3. h = [m \in Members |-> h[m]] /\ minutes = {h[m] : m \in Members}
        OBVIOUS
  <2> HIDE DEF f, g, h, minutes
  <2> QED BY <1>1, <2>1, <2>2, <2>3, ValuesFinite
<1>6. /\ D!Lows # {} /\ D!Lows \subseteq Int /\ D!Highs # {} /\ D!Highs \subseteq Int
      /\ minutes # {} /\ minutes \subseteq Int
      BY <1>1, <1>4 DEF D!Lows, D!Highs
<1>7. /\ D!Min(D!Lows) \in D!Lows /\ D!Max(D!Lows) \in D!Lows
      /\ D!Min(D!Highs) \in D!Highs /\ D!Max(D!Highs) \in D!Highs
      /\ D!Min(minutes) \in minutes
  <2> HIDE DEF minutes
  <2> QED BY <1>5, <1>6, Bounds
<1> QED BY <1>7 DEF D!Lows, D!Highs, D!GroupMinutes

(* Whatever is relaxed, a restaurant that suits all goes through.          *)
LEMMA SuitableGoesThrough ==
    ASSUME D!MembersAssumption, D!RestaurantsAssumption, ChoiceInv, NEW r \in Suitable
    PROVE  /\ D!Overlap(r, D!GroupBudget) /\ D!Overlap(r, D!Widest)
           /\ D!Serves(r, D!GroupDiets)
           /\ D!GroupSlots = {} \/ Restaurants[r].slots \cap D!GroupSlots # {}
           /\ Restaurants[r].minutes <= D!GroupMinutes /\ Restaurants[r].minutes <= 30
<1>1. r \in DOMAIN Restaurants /\ Members # {}
      BY DEF Suitable, D!MembersAssumption
<1>2. \A m \in Members : /\ Restaurants[r].low <= capsule[m].budget[2]
                         /\ Restaurants[r].high >= capsule[m].budget[1]
                         /\ D!Serves(r, capsule[m].diets)
                         /\ Restaurants[r].minutes <= capsule[m].minutes
                         /\ \E n \in Members : Restaurants[r].slots \cap capsule[n].slots # {}
      BY DEF Suitable, D!HardPass, D!Overlap
<1>3. \A m \in Members : capsule[m] \in D!Capsule
      BY DEF ChoiceInv
<1>4. \A m \in Members : /\ capsule[m].diets \in {{"none"}, {"vegetarian"}}
                         /\ capsule[m].minutes \in {10, 20, 30}
      BY <1>3 DEF D!Capsule
<1>5. Restaurants[r].minutes \in Int /\ "none" \in Restaurants[r].diets
  <2>1. Restaurants \in Seq(D!Restaurant)
        BY DEF D!RestaurantsAssumption
  <2>2. Restaurants[r] \in D!Restaurant
        BY <1>1, <2>1
  <2> QED BY <1>1, <2>2 DEF D!RestaurantsAssumption, D!Restaurant
<1>6. /\ Restaurants[r].low <= D!Min(D!Highs) /\ Restaurants[r].low <= D!Max(D!Highs)
      /\ Restaurants[r].high >= D!Min(D!Lows) /\ Restaurants[r].high >= D!Max(D!Lows)
      BY <1>2, GroupBounds
<1>7. D!Overlap(r, D!GroupBudget) /\ D!Overlap(r, D!Widest)
      BY <1>6 DEF D!Overlap, D!GroupBudget, D!Widest
<1>8. D!Serves(r, D!GroupDiets)
  <2>1. \A m \in Members : capsule[m].diets \subseteq Restaurants[r].diets
        BY <1>2, <1>4, <1>5 DEF D!Serves
  <2>2. D!GroupDiets \subseteq Restaurants[r].diets
        BY <2>1 DEF D!GroupDiets
  <2> QED BY <2>2 DEF D!Serves
<1>9. Restaurants[r].slots \cap D!GroupSlots # {}
  <2>1. PICK n \in Members : Restaurants[r].slots \cap capsule[n].slots # {}
        BY <1>1, <1>2
  <2> QED BY <2>1 DEF D!GroupSlots
<1>10. Restaurants[r].minutes <= D!GroupMinutes
       BY <1>2, GroupBounds
<1>11. Restaurants[r].minutes <= 30
  <2>1. PICK m \in Members : TRUE
        BY <1>1
  <2>2. Restaurants[r].minutes <= capsule[m].minutes /\ capsule[m].minutes \in {10, 20, 30}
        BY <1>2, <1>4
  <2> QED BY <1>5, <2>2
<1> QED BY <1>7, <1>8, <1>9, <1>10, <1>11

LEMMA GeneratedWell ==
    ASSUME D!MembersAssumption, D!RestaurantsAssumption, ChoiceInv
    PROVE  D!GenerateCandidates \subseteq DOMAIN Restaurants
           /\ Suitable \subseteq D!GenerateCandidates
<1> DEFINE Good(F) == F \subseteq DOMAIN Restaurants /\ Suitable \subseteq F
<1>1. Suitable \subseteq DOMAIN Restaurants
      BY DEF Suitable
<1>2. /\ Good(D!Filter(D!GroupBudget, D!GroupDiets, D!GroupSlots, D!GroupMinutes))
      /\ Good(D!Filter(D!GroupBudget, D!GroupDiets, D!GroupSlots, 30))
      /\ Good(D!Filter(D!Widest, D!GroupDiets, D!GroupSlots, 30))
      /\ Good(D!Filter(D!GroupBudget, D!GroupDiets, {}, 30))
      BY <1>1, SuitableGoesThrough DEF D!Filter
<1> HIDE DEF Good
<1>3. DOMAIN D!Attempts = 1 .. 4 /\ Len(D!Attempts) = 4 /\ \A i \in 1 .. 4 : Good(D!Attempts[i])
      BY <1>2 DEF D!Attempts
<1> DEFINE enough == {i \in DOMAIN D!Attempts : D!Cardinality(D!Attempts[i]) >= MinCandidates}
           from == enough \cup {Len(D!Attempts)}
<1>4. D!GenerateCandidates = D!Attempts[D!Min(from)]
      BY DEF D!GenerateCandidates
<1>5. from \subseteq 1 .. 4 /\ from # {}
      BY <1>3
<1> HIDE DEF from
<1>6. IsFiniteSet(from) /\ from \subseteq Int
  <2>1. IsFiniteSet(1 .. 4)
        BY UpToFinite
  <2>2. IsFiniteSet(from)
        BY <1>5, <2>1, FS_Subset
  <2> QED BY <1>5, <2>2
<1>7. D!Min(from) \in 1 .. 4
      BY <1>5, <1>6, Bounds
<1> QED BY <1>3, <1>4, <1>7 DEF Good

LEMMA ChoiceBegins ==
    ASSUME D!Init PROVE ChoiceInv
BY DEF D!Init, ChoiceInv

LEMMA RankedInOrder ==
    ASSUME D!RestaurantsAssumption, ChoiceInv, D!Rank
    PROVE  RankedWell'
<1>1. PICK score \in [candidates -> Scores] :
          ranked' = D!InOrder({D!Aggregate(r, score[r]) : r \in candidates})
      BY DEF D!Rank
<1> DEFINE f == [r \in candidates |-> D!Aggregate(r, score[r])]
           P == {f[r] : r \in candidates}
<1>2. P = {D!Aggregate(r, score[r]) : r \in candidates}
      OBVIOUS
<1>3. candidates \subseteq 1 .. Len(Restaurants) /\ Len(Restaurants) \in Nat
  <2>1. Restaurants \in Seq(D!Restaurant)
        BY DEF D!RestaurantsAssumption
  <2>2. DOMAIN Restaurants = 1 .. Len(Restaurants) /\ Len(Restaurants) \in Nat
        BY <2>1
  <2> QED BY <2>2 DEF ChoiceInv
<1>4. \A r \in candidates : /\ f[r].key = r /\ f[r].pass = (r \in passing)
                            /\ f[r].score \in Scores \cup {0} /\ f[r] \in Aggregates
  <2> TAKE r \in candidates
  <2>1. r \in Nat /\ score[r] \in Scores /\ Scores \subseteq Nat
        BY <1>3 DEF D!RestaurantsAssumption
  <2>2. (r \in passing) \in BOOLEAN
        OBVIOUS
  <2>3. D!Aggregate(r, score[r]) \in Aggregates
        BY <2>1, <2>2 DEF D!Aggregate, Aggregates
  <2> QED BY <2>1, <2>3 DEF D!Aggregate
<1>5. IsFiniteSet(P)
  <2>1. IsFiniteSet(candidates)
        BY <1>3, UpToFinite, FS_Subset
  <2>2. f = [r \in candidates |-> f[r]]
        OBVIOUS
  <2> HIDE DEF f
  <2> QED BY <2>1, <2>2, ValuesFinite
<1> HIDE DEF f
<1>6. OneEach(P)
      BY <1>4 DEF OneEach
<1>7. \A a \in P : /\ a.key \in candidates /\ a.score \in Scores \cup {0}
                   /\ a.pass = (a.key \in passing)
      BY <1>4
<1>8. \A r \in candidates : \E a \in P : a.key = r
      BY <1>4
<1> DEFINE n == Cardinality(P)
<1> HIDE DEF P
<1>9. ranked' = D!InOrder(P)
      BY <1>1, <1>2
<1>10. n \in Nat /\ (n = 0 <=> P = {})
       BY <1>5, FS_CardinalityType, FS_EmptySet
<1>11. /\ ranked' = [i \in 1 .. n |-> ranked'[i]]
       /\ \A i \in 1 .. n : ranked'[i] \in P /\ Cardinality(Ahead(P, ranked'[i])) = i - 1
       BY <1>5, <1>6, <1>9, PlaceInOrder
<1> HIDE DEF n
<1>12. DOMAIN ranked' = 1 .. n
       BY <1>11
<1>13. UNCHANGED <<candidates, passing>>
       BY DEF D!Rank
<1>14. \A i \in DOMAIN ranked' : /\ ranked'[i].key \in candidates
                                 /\ ranked'[i].score \in Scores \cup {0}
                                 /\ ranked'[i].pass = (ranked'[i].key \in passing)
       BY <1>7, <1>11, <1>12
<1>15. ASSUME ranked' = <<>> PROVE candidates = {}
  <2>1. n = 0
        BY <1>10, <1>12, <1>15
  <2> QED BY <1>8, <1>10, <2>1
<1>16. ASSUME ranked' # <<>> PROVE 1 \in DOMAIN ranked'
  <2>1. CASE n = 0
    <3>1. ranked' = [i \in {} |-> ranked'[i]]
          BY <1>11, <2>1
    <3> QED BY <1>16, <3>1
  <2>2. CASE n # 0
        BY <1>10, <1>12, <2>2
  <2> QED BY <2>1, <2>2
<1>17. ASSUME ranked' # <<>>, ~ ranked'[1].pass PROVE passing = {}
  <2>1. 1 \in 1 .. n
        BY <1>12, <1>16, <1>17
  <2>2. ranked'[1] \in P /\ Cardinality(Ahead(P, ranked'[1])) = 1 - 1
        BY <1>11, <2>1
  <2>3. Ahead(P, ranked'[1]) \subseteq P
        BY DEF Ahead
  <2>4. Ahead(P, ranked'[1]) = {}
        BY <1>5, <2>2, <2>3, FS_Subset, FS_EmptySet
  <2>5. ASSUME NEW r \in passing PROVE FALSE
    <3>1. r \in candidates
          BY DEF ChoiceInv, Passing, D!Rank
    <3>2. PICK a \in P : a.key = r
          BY <1>8, <3>1
    <3>3. a.pass = TRUE
          BY <1>7, <3>2
    <3>4. ranked'[1].pass = FALSE
          BY <1>7, <1>17, <2>2
    <3>5. D!Before(a, ranked'[1])
          BY <3>3, <3>4 DEF D!Before
    <3> QED BY <2>4, <3>5 DEF Ahead
  <2> QED BY <2>5
<1> QED BY <1>13, <1>14, <1>15, <1>16, <1>17 DEF RankedWell

LEMMA ChoiceKeeps ==
    ASSUME D!MembersAssumption, D!RestaurantsAssumption, ChoiceInv, D!Next
    PROVE  ChoiceInv'
<1>1. CASE D!Generate
  <2>1. Suitable' = Suitable
        BY <1>1 DEF D!Generate, Suitable, D!HardPass
  <2>2. candidates' \subseteq DOMAIN Restaurants /\ Suitable \subseteq candidates'
        BY <1>1, GeneratedWell DEF D!Generate
  <2> QED BY <1>1, <2>1, <2>2 DEF D!Generate, ChoiceInv
<1>2. CASE D!Evaluate
  <2>1. Suitable' = Suitable
        BY <1>2 DEF D!Evaluate, Suitable, D!HardPass
  <2>2. passing' = Passing'
        BY <1>2 DEF D!Evaluate, Passing, D!HardPass
  <2> QED BY <1>2, <2>1, <2>2 DEF D!Evaluate, ChoiceInv
<1>3. CASE D!Rank
  <2>1. Suitable' = Suitable /\ Passing' = Passing
        BY <1>3 DEF D!Rank, Suitable, Passing, D!HardPass
  <2>2. RankedWell'
        BY <1>3, RankedInOrder
  <2> QED BY <1>3, <2>1, <2>2 DEF D!Rank, ChoiceInv
<1> QED BY <1>1, <1>2, <1>3 DEF D!Next

LEMMA ChoiceSound ==
    ASSUME D!MembersAssumption, D!RestaurantsAssumption, ChoiceInv
    PROVE  D!TypeOK /\ D!SelectedSuitsAll /\ D!SuitableOffered
<1>1. D!TypeOK
  <2>1. passing \subseteq candidates
        BY DEF ChoiceInv, Passing
  <2>2. \A i \in DOMAIN ranked : ranked[i].key \in candidates /\ ranked[i].score \in Scores \cup {0}
        BY DEF ChoiceInv, RankedWell
  <2> QED BY <2>1, <2>2 DEF D!TypeOK, ChoiceInv
<1>2. D!SuitableOffered
      BY DEF D!SuitableOffered, ChoiceInv, Suitable
<1>3. D!SelectedSuitsAll
  <2> DEFINE Suits(r) == \A m \in Members :
            /\ Restaurants[r].low <= capsule[m].budget[2]
            /\ Restaurants[r].high >= capsule[m].budget[1]
            /\ capsule[m].diets \subseteq Restaurants[r].diets
  <2> SUFFICES ASSUME stage = "done"
               PROVE  /\ \A r \in D!Selected : Suits(r)
                      /\ D!Selected = {} => \A r \in candidates : ~ Suits(r)
      BY DEF D!SelectedSuitsAll
  <2>1. RankedWell /\ passing = Passing /\ candidates \subseteq DOMAIN Restaurants
        BY DEF ChoiceInv
  <2>2. ASSUME NEW r \in passing PROVE Suits(r)
    <3>1. r \in DOMAIN Restaurants /\ \A m \in Members : D!HardPass(r, capsule[m])
          BY <2>1 DEF Passing
    <3>2. "none" \in Restaurants[r].diets
          BY <3>1 DEF D!RestaurantsAssumption
    <3> QED BY <3>1, <3>2 DEF D!HardPass, D!Overlap, D!Serves
  <2>3. ASSUME NEW r \in candidates, Suits(r) PROVE r \in passing
        BY <2>1, <2>3 DEF Passing, D!HardPass, D!Overlap, D!Serves
  <2> HIDE DEF Suits
  <2>4. ASSUME NEW r \in D!Selected PROVE Suits(r)
    <3>1. ranked # <<>> /\ ranked[1].pass /\ r = ranked[1].key
          BY <2>4 DEF D!Selected
    <3>2. r \in passing
          BY <2>1, <3>1 DEF RankedWell
    <3> QED BY <2>2, <3>2
  <2>5. ASSUME D!Selected = {}, NEW r \in candidates PROVE ~ Suits(r)
    <3>1. passing = {}
          BY <2>1, <2>5 DEF RankedWell, D!Selected
    <3> QED BY <2>3, <3>1
  <2> QED BY <2>4, <2>5
<1> QED BY <1>1, <1>2, <1>3

-----------------------------------------------------------------------------
(* The dinner as a whole: each part keeps its invariant, and rests while   *)
(* another runs.                                                           *)
ProposalsInv == IInv /\ Typed /\ ChoiceInv /\ SearchInv

LEMMA ProposalsBegin ==
    ASSUME DinnerParameters, ProposalParameters, DinnerInit PROVE ProposalsInv
BY Initial, TypesBegin, ChoiceBegins, SearchBegins
   DEF DinnerParameters, ProposalParameters, DinnerInit, ProposalsInv

LEMMA ProposalsKept ==
    ASSUME DinnerParameters, ProposalParameters, ProposalsInv, [DinnerNext]_dinnerVars
    PROVE  ProposalsInv'
<1>1. [ChatNext]_chatVars
      BY DEF DinnerNext, dinnerVars, cvars, chatVars
<1>2. IInv' /\ Typed'
      BY <1>1, Inductive, TypesKept DEF DinnerParameters, ProposalsInv
<1>3. ChoiceInv'
  <2>1. CASE D!Next
        BY <2>1, ChoiceKeeps DEF ProposalParameters, ProposalsInv
  <2>2. CASE UNCHANGED dvars
        BY <2>2 DEF ProposalsInv, ChoiceInv, Suitable, Passing, RankedWell, D!HardPass, dvars
  <2> QED BY <2>1, <2>2 DEF DinnerNext, dinnerVars
<1>4. SearchInv'
  <2>1. CASE S!Next
        BY <2>1, SearchKeeps DEF ProposalParameters, ProposalsInv
  <2>2. CASE UNCHANGED svars
        BY <2>2 DEF ProposalsInv, SearchInv, OneToFour, Sourced, S!Urls, svars
  <2> QED BY <2>1, <2>2 DEF DinnerNext, dinnerVars
<1> QED BY <1>2, <1>3, <1>4 DEF ProposalsInv

(* Whatever relaxation the plugin applies, the restaurant it selects suits *)
(* everyone's budget and diet and one that suits all is never lost; every  *)
(* candidate of a chat rests on sources that were found, each counted      *)
(* once; and every column of the scenes has a value that the code stores.  *)
THEOREM ProposalsAreSound ==
    ASSUME DinnerParameters, ProposalParameters PROVE DinnerSpec => []ProposalsSound
<1>1. DinnerInit => ProposalsInv
      BY ProposalsBegin
<1>2. ProposalsInv /\ [DinnerNext]_dinnerVars => ProposalsInv'
      BY ProposalsKept
<1>3. ProposalsInv => ProposalsSound
      BY RowsTyped, ChoiceSound, SearchSound
      DEF DinnerParameters, ProposalParameters, ProposalsInv, ProposalsSound
<1> QED BY <1>1, <1>2, <1>3, PTL DEF DinnerSpec

-----------------------------------------------------------------------------
(* The demo data: rows and what they may refer to, the order of the        *)
(* statements of a reset, and how far from the demo users it reaches.      *)
(* A row written by the commits of demo scene n, or before them.           *)
OfBase(x, u) ==
    \/ x = E!Row("user", u, 0, {}) \/ x = E!Row("profile", u, 0, {E!UserKey(u)})
    \/ x = E!Row("organization", "demo", 0, {E!UserKey(Creator)})
    \/ x = E!Row("membership", u, 0, {E!DemoOrganization, E!UserKey(u)})
    \/ x = E!Row("conversation", "demo", 0, {E!UserKey(Creator)})
    \/ \E t \in {"participant", "message"} :
          x = E!Row(t, u, 0, {E!DemoConversation, E!UserKey(u)})
Best(n) == <<"candidate", "demo", n>>
OfScene(x, u, n) ==
    \/ \E t \in {"seat", "submission"} : x = E!Row(t, u, n, {E!SceneKey(n), E!UserKey(u)})
    \/ x = E!Row("candidate", "demo", n, {E!SceneKey(n)})
    \/ x = E!Row("vote", u, n, {E!SceneKey(n), Best(n), E!UserKey(u)})
    \/ x = E!Row("result", "demo", n, {E!SceneKey(n), Best(n)})
SceneRow(n) ==
    E!Row("scene", "demo", n, {E!UserKey(Creator), E!DemoOrganization, E!DemoConversation})

LEMMA BaseKinds ==
    ASSUME E!DemoAssumption, NEW x \in E!BaseRows PROVE \E u \in Demo : OfBase(x, u)
BY DEF E!BaseRows, E!UserRows, E!OrganizationRows, E!MembershipRows, E!ConversationRows,
       E!MemberRows, OfBase, E!DemoOrganization, E!DemoConversation, E!DemoAssumption

LEMMA CommitKinds ==
    ASSUME E!DemoAssumption, NEW n, NEW i \in 1..6, NEW x \in E!Commits(n)[i]
    PROVE /\ \/ \E u \in Demo : OfScene(x, u, n)
             \/ x = SceneRow(n)
          /\ x = SceneRow(n) => i = 1
BY DEF E!Commits, OfScene, SceneRow, E!MemberRows, E!SceneKey, Best, E!Row, E!DemoAssumption

LEMMA CommitsSix == ASSUME NEW n PROVE Len(E!Commits(n)) = 6 /\ DOMAIN E!Commits(n) = 1..6
BY DEF E!Commits

LEMMA SeedKinds ==
    ASSUME E!DemoAssumption, NEW x \in E!SeedRows
    PROVE \/ \E u \in Demo : OfBase(x, u)
          \/ \E n \in 1..MaxScenes, u \in Demo : OfScene(x, u, n)
          \/ \E n \in 1..MaxScenes : x = SceneRow(n)
<1>1. CASE x \in E!BaseRows
      BY <1>1, BaseKinds
<1>2. CASE x \notin E!BaseRows
  <2>1. PICK n \in 1..MaxScenes, i \in 1..6 : x \in E!Commits(n)[i]
        BY <1>2 DEF E!SeedRows
  <2> QED BY <2>1, CommitKinds
<1> QED BY <1>1, <1>2

LEMMA StatementsAre ==
    /\ Len(E!Statements) = 26 /\ DOMAIN E!Statements = 1..26
    /\ \A i \in 1..26 :
          E!Statements[i] =
            <<"submission", "vote", "result", "candidate", "seat", "scene", "extra",
              "submission", "vote", "result", "candidate", "seat", "scene",
              "message", "participant", "conversation", "membership", "organization",
              "run", "agent", "audit", "contact", "token", "session", "profile", "user">>[i]
BY DEF E!Statements, E!SceneGraph

(* The statements already done, in the same deletion of scenes or after it.*)
Done(i) == IF i <= 7 THEN {j \in 1..6 : j < i} ELSE {j \in 8..26 : j < i}
Tables == {E!Statements[i] : i \in 1..26}

LEMMA OnlyExtra == ASSUME NEW i \in 1..26 PROVE E!Statements[i] = "extra" <=> i = 7
<1>1. \A j \in {1, 8} : E!Statements[j] = "submission"
      BY StatementsAre
<1>2. \A j \in {2, 3, 4, 5, 6, 9, 10, 11, 12, 13} : E!Statements[j] # "extra"
      BY StatementsAre
<1>3. \A j \in 14..19 : E!Statements[j] # "extra"
      BY StatementsAre
<1>4. \A j \in 20..26 : E!Statements[j] # "extra"
      BY StatementsAre
<1>5. E!Statements[7] = "extra"
      BY StatementsAre
<1> QED BY <1>1, <1>2, <1>3, <1>4, <1>5

LEMMA ReferredTo ==
    ASSUME NEW t, NEW to \in E!ForeignKeys(t)
    PROVE \/ to = "candidate" /\ t \in {"vote", "result"}
          \/ to = "scene" /\ t \in {"submission", "vote", "result", "candidate", "seat"}
          \/ to = "conversation" /\ t \in {"scene", "message", "participant"}
          \/ to = "organization" /\ t \in {"scene", "conversation", "membership", "organization"}
          \/ to = "agent" /\ t = "run"
          \/ to = "session" /\ t = "token"
          \/ to = "user"
<1> DEFINE known == {"submission", "seat", "vote", "result", "candidate", "scene", "message",
                     "participant", "conversation", "membership", "organization", "run",
                     "token", "user"}
<1>1. CASE t \notin known
  <2>1. /\ t \notin {"submission", "seat"} /\ t \notin {"vote", "result"} /\ t # "candidate"
        /\ t # "scene" /\ t \notin E!TalkTables /\ t # "run" /\ t # "token" /\ t # "user"
        /\ t \notin {"conversation", "membership", "organization"}
        BY <1>1 DEF E!TalkTables
  <2>2. E!ForeignKeys(t) = {"user"}
        BY <2>1 DEF E!ForeignKeys
  <2> QED BY <2>2
<1>2. CASE t \in {"submission", "seat", "vote", "result", "candidate"}
      BY <1>2 DEF E!ForeignKeys, E!TalkTables
<1>3. CASE t \in {"scene", "message", "participant"}
      BY <1>3 DEF E!ForeignKeys, E!TalkTables
<1>4. CASE t \in {"conversation", "membership", "organization"}
      BY <1>4 DEF E!ForeignKeys, E!TalkTables
<1>5. CASE t \in {"run", "token", "user"}
      BY <1>5 DEF E!ForeignKeys, E!TalkTables
<1> QED BY <1>1, <1>2, <1>3, <1>4, <1>5

(* Who may refer to a table has been deleted from before, or is it.        *)
LEMMA ReferrersFirst ==
    ASSUME NEW i \in 1..26, NEW t \in Tables,
           E!Statements[i] # "extra", t # "extra", E!Statements[i] \in E!ForeignKeys(t)
    PROVE \E j \in Done(i) \cup {i} : E!Statements[j] = t
<1> DEFINE at == E!Statements
<1>1. /\ at[1] = "submission" /\ at[2] = "vote" /\ at[3] = "result" /\ at[4] = "candidate"
      /\ at[5] = "seat" /\ at[6] = "scene" /\ at[8] = "submission" /\ at[9] = "vote"
      /\ at[10] = "result" /\ at[11] = "candidate" /\ at[12] = "seat" /\ at[13] = "scene"
      /\ at[14] = "message" /\ at[15] = "participant" /\ at[16] = "conversation"
      /\ at[17] = "membership" /\ at[18] = "organization" /\ at[19] = "run" /\ at[20] = "agent"
      /\ at[21] = "audit" /\ at[22] = "contact" /\ at[23] = "token" /\ at[24] = "session"
      /\ at[25] = "profile" /\ at[26] = "user" /\ at[7] = "extra"
      BY StatementsAre
<1>2. PICK p \in 8..26 : t = at[p]
  <2>1. PICK p \in 1..26 : t = at[p]
        BY DEF Tables
  <2>2. CASE p \in 1..6
    <3>1. p + 7 \in 8..13 /\ at[p] = at[p + 7]
          BY <1>1, <2>2
    <3> QED BY <2>1, <3>1
  <2>3. p # 7
        BY <1>1, <2>1
  <2> QED BY <2>1, <2>2, <2>3
<1> HIDE DEF at
<1>3. CASE at[i] = "user"
  <2>1. i = 26
        BY <1>1, <1>3
  <2> QED BY <1>2, <2>1 DEF Done, at
<1>4. CASE at[i] = "candidate"
  <2>1. t \in {"vote", "result"}
        BY <1>4, ReferredTo DEF at
  <2>2. i \in {4, 11}
        BY <1>1, <1>4
  <2> QED BY <1>1, <2>1, <2>2 DEF Done, at
<1>5. CASE at[i] = "scene"
  <2>1. t \in {"submission", "vote", "result", "candidate", "seat"}
        BY <1>5, ReferredTo DEF at
  <2>2. i \in {6, 13}
        BY <1>1, <1>5
  <2> QED BY <1>1, <2>1, <2>2 DEF Done, at
<1>6. CASE at[i] = "conversation"
  <2>1. t \in {"scene", "message", "participant"}
        BY <1>6, ReferredTo DEF at
  <2>2. i = 16
        BY <1>1, <1>6
  <2> QED BY <1>1, <2>1, <2>2 DEF Done, at
<1>7. CASE at[i] = "organization"
  <2>1. t \in {"scene", "conversation", "membership", "organization"}
        BY <1>7, ReferredTo DEF at
  <2>2. i = 18
        BY <1>1, <1>7
  <2> QED BY <1>1, <2>1, <2>2 DEF Done, at
<1>8. CASE at[i] = "agent"
  <2>1. t = "run"
        BY <1>8, ReferredTo DEF at
  <2>2. i = 20
        BY <1>1, <1>8
  <2> QED BY <1>1, <2>1, <2>2 DEF Done, at
<1>9. CASE at[i] = "session"
  <2>1. t = "token"
        BY <1>9, ReferredTo DEF at
  <2>2. i = 24
        BY <1>1, <1>9
  <2> QED BY <1>1, <2>1, <2>2 DEF Done, at
<1> QED BY <1>3, <1>4, <1>5, <1>6, <1>7, <1>8, <1>9, ReferredTo DEF at

-----------------------------------------------------------------------------
Known == E!SeedRows \cup {E!Row("user", "eve", 0, {})} \cup UNION Activities

LEMMA KeyTable == ASSUME NEW x PROVE E!Key(x)[1] = x.table
BY DEF E!Key

LEMMA SeedReferences ==
    ASSUME E!DemoAssumption, NEW x \in E!SeedRows
    PROVE /\ x.table # "extra"
          /\ \A k \in x.refs : k[1] \in E!ForeignKeys(x.table)
          /\ \A n \in 1..MaxScenes : E!Key(x) = E!SceneKey(n) => E!UserKey(Creator) \in x.refs
<1>1. CASE \E u \in Demo : OfBase(x, u)
      BY <1>1 DEF OfBase, E!Row, E!Key, E!SceneKey, E!UserKey, E!DemoOrganization,
                  E!DemoConversation, E!ForeignKeys, E!TalkTables
<1>2. CASE \E n \in 1..MaxScenes, u \in Demo : OfScene(x, u, n)
      BY <1>2 DEF OfScene, E!Row, E!Key, E!SceneKey, E!UserKey, Best, E!ForeignKeys, E!TalkTables
<1>3. CASE \E n \in 1..MaxScenes : x = SceneRow(n)
      BY <1>3 DEF SceneRow, E!Row, E!Key, E!SceneKey, E!UserKey, E!DemoOrganization,
                  E!DemoConversation, E!ForeignKeys, E!TalkTables
<1> QED BY <1>1, <1>2, <1>3, SeedKinds

LEMMA SeedKeys == ASSUME NEW n \in 1..MaxScenes PROVE E!SceneKey(n) \in E!KeysOf(E!SeedRows)
<1>1. SceneRow(n) \in E!Commits(n)[1]
      BY DEF E!Commits, SceneRow
<1>2. SceneRow(n) \in E!SeedRows
      BY <1>1 DEF E!SeedRows
<1>3. E!Key(SceneRow(n)) = E!SceneKey(n)
      BY DEF E!Key, E!Row, SceneRow, E!SceneKey
<1> QED BY <1>2, <1>3 DEF E!KeysOf

(* What is known of every row there can be.                                *)
LEMMA References ==
    ASSUME E!DemoAssumption, E!SchemaAssumption, NEW x \in Known
    PROVE /\ x.table # "extra"
          /\ x.table \in Tables => \A k \in x.refs : k[1] \in E!ForeignKeys(x.table)
          /\ \A n \in 1..MaxScenes :
                E!Key(x) = E!SceneKey(n) => E!UserKey(Creator) \in x.refs
<1> DEFINE eve == E!Row("user", "eve", 0, {})
<1>1. CASE x = eve
      BY <1>1 DEF E!Row, E!Key, E!SceneKey
<1>2. CASE x \in E!SeedRows
      BY <1>2, SeedReferences
<1>3. CASE x \in UNION Activities
  <2>1. ASSUME NEW n \in 1..MaxScenes PROVE E!Key(x) # E!SceneKey(n)
        BY <1>3, SeedKeys DEF E!SchemaAssumption
  <2> QED BY <1>3, <2>1, StatementsAre DEF E!SchemaAssumption, Tables
<1> QED BY <1>1, <1>2, <1>3 DEF Known

-----------------------------------------------------------------------------
SeederRow == [at : {"rest", "base", "run"}, scene : 0..MaxScenes, knew : BOOLEAN]

(* There is at most one demo scene, complete, given up or being seeded.    *)
SeedingInv ==
    /\ db \subseteq Known
    /\ seeder \in [Seeders -> SeederRow]
    /\ \A s \in Seeders : seeder[s].at = "run" <=> seeder[s].scene # 0
    /\ progress \in [1..MaxScenes -> 0..6]
    /\ abandoned \subseteq 1..MaxScenes /\ activity \in 0..MaxActivities
    /\ \A n \in E!DemoScenes :
          /\ progress[n] = 6 \/ n \in abandoned \/ \E s \in Seeders : seeder[s].scene = n
          /\ \A m \in E!DemoScenes : m = n

(* What a reset that runs alone has deleted of a table stays away, and     *)
(* what it has collected or deleted is near.                               *)
Nearest(held) == E!Around(held, E!Roots)
Nearer(held) == E!Around(held, Nearest(held))
Near(held) == E!Around(held, Nearer(held))
Cleared ==
    /\ E!DemoOrganization \in E!KeysOf(db) => E!DemoOrganization \in reset.ids
    /\ \A j \in Done(reset.next) : E!Doomed(E!Statements[j]) = {}
ResetInv ==
    /\ reset \in [next : 0..27, ids : SUBSET Nearer(db), gone : SUBSET E!KeysOf(db),
                  alone : BOOLEAN]
    /\ reset.next <= 7 => reset.ids \subseteq Nearest(db)
    /\ reset.gone \subseteq Near(db)
    /\ reset.next > 0 /\ reset.alone => Cleared

LEMMA AroundGrows ==
    ASSUME NEW few, NEW held, few \subseteq held, NEW near, NEW more, near \subseteq more
    PROVE E!Around(few, near) \subseteq E!Around(held, more)
BY DEF E!Around, E!KeysOf

LEMMA NearGrows ==
    ASSUME NEW few, NEW held, few \subseteq held
    PROVE /\ Nearest(few) \subseteq Nearest(held)
          /\ Nearer(few) \subseteq Nearer(held)
          /\ Near(few) \subseteq Near(held)
          /\ E!KeysOf(few) \subseteq E!KeysOf(held)
<1>1. Nearest(few) \subseteq Nearest(held)
      BY AroundGrows DEF Nearest
<1>2. Nearer(few) \subseteq Nearer(held)
      BY <1>1, AroundGrows DEF Nearer
<1>3. Near(few) \subseteq Near(held)
      BY <1>2, AroundGrows DEF Near
<1>4. E!KeysOf(few) \subseteq E!KeysOf(held)
      BY DEF E!KeysOf
<1> QED BY <1>1, <1>2, <1>3, <1>4

LEMMA NearWider ==
    ASSUME NEW held
    PROVE /\ E!Roots \subseteq Nearest(held) /\ Nearest(held) \subseteq Nearer(held)
          /\ Nearer(held) \subseteq Near(held)
BY DEF Nearest, Nearer, Near, E!Around

LEMMA AroundHas ==
    ASSUME NEW held, NEW near, NEW x \in held, E!Key(x) \in near \/ x.refs \cap near # {}
    PROVE /\ E!Key(x) \in E!Around(held, near)
          /\ \A k \in x.refs : k[1] \in {"scene", "conversation"} => k \in E!Around(held, near)
BY DEF E!Around, E!KeysOf

(* What a reset collects is one row away from the demo users and           *)
(* organization; the scenes of the conversations are two away.             *)
LEMMA CollectedNear ==
    ASSUME E!DemoAssumption, E!SchemaAssumption, db \subseteq Known
    PROVE /\ E!CollectUsers(db) \subseteq Nearest(db)
          /\ E!CollectOrganizations(db) \subseteq Nearest(db)
          /\ E!CollectScenes(db, E!CollectUsers(db), E!CollectOrganizations(db))
                \subseteq Nearest(db)
          /\ E!CollectConversations(db, E!CollectUsers(db)) \subseteq Nearest(db)
<1>1. E!CollectUsers(db) \subseteq E!Roots /\ E!CollectOrganizations(db) \subseteq E!Roots
      BY DEF E!CollectUsers, E!CollectOrganizations, E!Roots
<1>2. ASSUME NEW x \in db, x.refs \cap E!Roots # {}
      PROVE /\ E!Key(x) \in Nearest(db)
            /\ \A k \in x.refs : k[1] \in {"scene", "conversation"} => k \in Nearest(db)
      BY <1>2, AroundHas DEF Nearest
<1>3. ASSUME NEW tables, NEW to \in {"scene", "conversation"}
      PROVE E!Led(db, tables, to, E!CollectUsers(db)) \subseteq Nearest(db)
      BY <1>1, <1>2, <1>3 DEF E!Led
<1>4. {E!SceneKey(n) : n \in 1..MaxScenes} \cap E!KeysOf(db) \subseteq Nearest(db)
  <2> SUFFICES ASSUME NEW n \in 1..MaxScenes, NEW x \in db, E!Key(x) = E!SceneKey(n)
               PROVE E!Key(x) \in Nearest(db)
        BY DEF E!KeysOf
  <2>1. E!UserKey(Creator) \in x.refs
        BY References
  <2> QED BY <1>2, <2>1 DEF E!Roots, E!DemoAssumption
<1> QED BY <1>1, <1>2, <1>3, <1>4, NearWider DEF E!CollectScenes, E!CollectConversations

LEMMA DoomedNear ==
    ASSUME NEW t, ResetInv PROVE E!KeysOf(E!Doomed(t)) \subseteq Near(db) \cap E!KeysOf(db)
<1> SUFFICES ASSUME NEW x \in E!Doomed(t) PROVE E!Key(x) \in Near(db)
      BY DEF E!KeysOf, E!Doomed, E!Left
<1>1. x \in db /\ reset.ids \subseteq Nearer(db)
      BY DEF E!Doomed, E!Left, ResetInv
<1>2. E!DemoOrganization \in Near(db)
      BY NearWider DEF E!Roots
<1>3. E!Key(x) \in Nearer(db) \/ x.refs \cap Nearer(db) # {} \/ E!Key(x) = E!DemoOrganization
      BY <1>1 DEF E!Doomed
<1> QED BY <1>1, <1>2, <1>3, AroundHas DEF Near

(* A deletion of a reset that runs alone is stopped only by a row that no  *)
(* statement would delete.                                                 *)
LEMMA StoppedByLeftover ==
    ASSUME E!DemoAssumption, E!SchemaAssumption, db \subseteq Known, ResetInv, reset.alone,
           E!FailReset
    PROVE E!Leftover
<1> DEFINE t == E!Statement
<1>1. reset.next \in 1..26 /\ t = E!Statements[reset.next] /\ t # "extra" /\ Cleared
      BY StatementsAre DEF E!FailReset, E!Statement, ResetInv
<1>2. PICK x \in E!Left \ E!Doomed(t) : x.refs \cap E!KeysOf(E!Doomed(t)) # {}
      BY DEF E!FailReset, E!Stuck
<1>3. PICK y \in E!Doomed(t) : E!Key(y) \in x.refs
      BY <1>2 DEF E!KeysOf
<1> HIDE DEF t
<1>4. x \in db /\ E!Key(x) \notin reset.gone /\ y \in db /\ y.table = t
      BY <1>2, <1>3 DEF E!Left, E!Doomed
<1>5. x \in Known /\ y \in Known
      BY <1>4
<1>6. ASSUME NEW i \in 1..26 PROVE x \notin E!Doomed(E!Statements[i])
  <2> SUFFICES ASSUME x \in E!Doomed(E!Statements[i]) PROVE FALSE
        OBVIOUS
  <2>1. x.table = E!Statements[i] /\ x.table \in Tables /\ x.table # "extra"
        BY <1>5, References DEF E!Doomed, Tables
  <2>2. t \in E!ForeignKeys(x.table)
        BY <1>3, <1>4, <1>5, <2>1, References, KeyTable
  <2>3. PICK j \in Done(reset.next) \cup {reset.next} : E!Statements[j] = x.table
        BY <1>1, <2>1, <2>2, ReferrersFirst
  <2>4. E!Doomed(E!Statements[j]) # {}
        BY <2>1, <2>3
  <2>5. j = reset.next
        BY <1>1, <2>3, <2>4 DEF Cleared
  <2> QED BY <1>1, <1>2, <2>1, <2>3, <2>5
<1> QED BY <1>2, <1>6, StatementsAre DEF E!Leftover, t

LEMMA SceneAdded ==
    ASSUME NEW held, db' = db \cup held, NEW new \in SUBSET (1..MaxScenes),
           \A x \in held, n \in 1..MaxScenes : E!Key(x) = E!SceneKey(n) => n \in new
    PROVE E!DemoScenes \subseteq E!DemoScenes' /\ E!DemoScenes' \subseteq E!DemoScenes \cup new
BY DEF E!DemoScenes, E!KeysOf

LEMMA BaseAdds ==
    ASSUME E!DemoAssumption, NEW x \in E!BaseRows, NEW n \in 1..MaxScenes
    PROVE E!Key(x) # E!SceneKey(n) /\ x \in Known
<1>1. E!Key(x) # E!SceneKey(n)
      BY BaseKinds DEF OfBase, E!Row, E!Key, E!SceneKey, E!DemoOrganization, E!DemoConversation
<1> QED BY <1>1 DEF Known, E!SeedRows

LEMMA CommitAdds ==
    ASSUME E!DemoAssumption, NEW n \in 1..MaxScenes, NEW i \in 1..6,
           NEW x \in E!Commits(n)[i],
           NEW m \in 1..MaxScenes
    PROVE /\ E!Key(x) = E!SceneKey(m) => m = n /\ i = 1
          /\ x \in Known
<1>1. x \in Known
      BY DEF Known, E!SeedRows
<1>2. CASE x = SceneRow(n)
      BY <1>1, <1>2, CommitKinds DEF SceneRow, E!Row, E!Key, E!SceneKey
<1>3. CASE \E u \in Demo : OfScene(x, u, n)
      BY <1>1, <1>3 DEF OfScene, E!Row, E!Key, E!SceneKey
<1> QED BY <1>2, <1>3, CommitKinds

LEMMA Resting ==
    ASSUME E!DemoAssumption
    PROVE  E!Rest \in SeederRow /\ E!Rest.at # "run" /\ E!Rest.scene = 0
BY DEF E!Rest, SeederRow, E!DemoAssumption

LEMMA SeedingBegins == ASSUME E!DemoAssumption, E!Init PROVE SeedingInv
<1>1. db = {E!Row("user", "eve", 0, {})}
      BY DEF E!Init
<1>2. E!DemoScenes = {}
      BY <1>1 DEF E!DemoScenes, E!KeysOf, E!Key, E!Row, E!SceneKey
<1>3. db \subseteq Known
      BY <1>1 DEF Known
<1>4. /\ seeder \in [Seeders -> SeederRow]
      /\ \A s \in Seeders : seeder[s].at = "run" <=> seeder[s].scene # 0
      BY Resting DEF E!Init
<1> QED BY <1>2, <1>3, <1>4 DEF E!Init, E!DemoAssumption, SeedingInv

(* A seeding step that adds no scene and ends at no scene it is still at.  *)
LEMMA SeedingGoesOn ==
    ASSUME SeedingInv, E!DemoScenes' \subseteq E!DemoScenes,
           db' \subseteq Known, progress' \in [1..MaxScenes -> 0..6],
           abandoned \subseteq abandoned', abandoned' \subseteq 1..MaxScenes,
           activity' \in 0..MaxActivities,
           \A n \in 1..MaxScenes : progress[n] = 6 => progress'[n] = 6,
           seeder' \in [Seeders -> SeederRow],
           \A s \in Seeders : seeder'[s].at = "run" <=> seeder'[s].scene # 0,
           \A s \in Seeders :
              \/ seeder'[s].scene = seeder[s].scene
              \/ seeder[s].scene \notin E!DemoScenes' \/ progress[seeder[s].scene] = 6
              \/ seeder[s].scene \in abandoned'
    PROVE SeedingInv'
<1>1. \A n \in E!DemoScenes : n \in 1..MaxScenes
      BY DEF E!DemoScenes
<1>2. ASSUME NEW n \in E!DemoScenes'
      PROVE progress'[n] = 6 \/ n \in abandoned' \/ \E s \in Seeders : seeder'[s].scene = n
  <2>1. progress[n] = 6 \/ n \in abandoned \/ \E s \in Seeders : seeder[s].scene = n
        BY DEF SeedingInv
  <2> QED BY <1>1, <1>2, <2>1
<1>3. \A m, n \in E!DemoScenes' : m = n
      BY DEF SeedingInv
<1> QED BY <1>2, <1>3 DEF SeedingInv

LEMMA RunBegins ==
    ASSUME MaxScenes \in Nat, NEW n \in 1..MaxScenes, NEW was \in SeederRow
    PROVE /\ [was EXCEPT !.at = "run", !.scene = n] \in SeederRow
          /\ [was EXCEPT !.at = "run", !.scene = n].at = "run"
          /\ [was EXCEPT !.at = "run", !.scene = n].scene = n /\ n # 0
<1>1. n \in 0..MaxScenes /\ n # 0
      OBVIOUS
<1>2. [was EXCEPT !.at = "run", !.scene = n] \in SeederRow
      BY <1>1 DEF SeederRow
<1>3. [was EXCEPT !.at = "run", !.scene = n].at = "run"
      BY DEF SeederRow
<1>4. [was EXCEPT !.at = "run", !.scene = n].scene = n
      BY DEF SeederRow
<1> QED BY <1>1, <1>2, <1>3, <1>4

(* One seeding is somewhere else.                                          *)
LEMMA SeederChanged ==
    ASSUME SeedingInv, NEW s \in Seeders, NEW now \in SeederRow,
           now.at = "run" <=> now.scene # 0, seeder' = [seeder EXCEPT ![s] = now]
    PROVE /\ seeder' \in [Seeders -> SeederRow]
          /\ \A r \in Seeders : seeder'[r].at = "run" <=> seeder'[r].scene # 0
          /\ \A r \in Seeders : r # s => seeder'[r].scene = seeder[r].scene
          /\ seeder'[s] = now
<1>1. /\ seeder \in [Seeders -> SeederRow]
      /\ \A r \in Seeders : seeder[r].at = "run" <=> seeder[r].scene # 0
      BY DEF SeedingInv
<1>2. /\ seeder' \in [Seeders -> SeederRow] /\ seeder'[s] = now
      /\ \A r \in Seeders : r # s => seeder'[r] = seeder[r]
      BY <1>1
<1> QED BY <1>1, <1>2

LEMMA BaseKept ==
    ASSUME E!DemoAssumption, SeedingInv, NEW s \in Seeders, E!SeedBase(s) PROVE SeedingInv'
<1>1. /\ UNCHANGED <<abandoned, activity>> /\ seeder[s].scene = 0
      /\ MaxScenes \in Nat /\ seeder[s] \in SeederRow
      BY DEF E!SeedBase, SeedingInv, E!DemoAssumption
<1>2. ASSUME seeder' = [seeder EXCEPT ![s] = E!Rest]
      PROVE /\ seeder' \in [Seeders -> SeederRow]
            /\ \A r \in Seeders : seeder'[r].at = "run" <=> seeder'[r].scene # 0
            /\ \A r \in Seeders : seeder'[r].scene = seeder[r].scene
      BY <1>1, <1>2, Resting, SeederChanged
<1>3. CASE UNCHANGED <<db, progress>> /\ seeder' = [seeder EXCEPT ![s] = E!Rest]
  <2>1. E!DemoScenes' = E!DemoScenes
        BY <1>3 DEF E!DemoScenes
  <2>2. /\ db' \subseteq Known /\ progress' = progress
        /\ progress' \in [1..MaxScenes -> 0..6] /\ abandoned' = abandoned
        /\ abandoned' \subseteq 1..MaxScenes /\ activity' \in 0..MaxActivities
        BY <1>1, <1>3 DEF SeedingInv
  <2> QED BY <1>2, <1>3, <2>1, <2>2, SeedingGoesOn
<1>4. CASE /\ E!Add(E!BaseRows) /\ UNCHANGED progress
           /\ seeder' = [seeder EXCEPT ![s] = E!Rest]
  <2>1. E!DemoScenes' \subseteq E!DemoScenes
        BY <1>4, BaseAdds, SceneAdded, {} \in SUBSET (1..MaxScenes) DEF E!Add
  <2>2. /\ db' \subseteq Known /\ progress' = progress
        /\ progress' \in [1..MaxScenes -> 0..6] /\ abandoned' = abandoned
        /\ abandoned' \subseteq 1..MaxScenes /\ activity' \in 0..MaxActivities
        BY <1>1, <1>4 DEF E!Add, SeedingInv, Known, E!SeedRows
  <2> QED BY <1>2, <1>4, <2>1, <2>2, SeedingGoesOn
<1>5. ASSUME NEW n \in 1..MaxScenes, E!NoScene,
             E!Add(E!BaseRows \cup E!Commits(n)[1]), progress' = [progress EXCEPT ![n] = 1],
             seeder' = [seeder EXCEPT ![s] = [@ EXCEPT !.at = "run", !.scene = n]]
      PROVE SeedingInv'
  <2>1. E!DemoScenes' \subseteq {n}
    <3>1. db' = db \cup (E!BaseRows \cup E!Commits(n)[1])
          BY <1>5 DEF E!Add
    <3>2. \A x \in E!BaseRows \cup E!Commits(n)[1], m \in 1..MaxScenes :
             E!Key(x) = E!SceneKey(m) => m \in {n}
          BY BaseAdds, CommitAdds
    <3>3. {n} \in SUBSET (1..MaxScenes)
          OBVIOUS
    <3>4. E!DemoScenes' \subseteq E!DemoScenes \cup {n}
          BY <3>1, <3>2, <3>3, SceneAdded
    <3> QED BY <1>5, <3>4 DEF E!NoScene
  <2>2. db' \subseteq Known
        BY <1>5, CommitAdds DEF E!Add, SeedingInv, Known, E!SeedRows
  <2>3. /\ seeder' \in [Seeders -> SeederRow]
        /\ \A r \in Seeders : seeder'[r].at = "run" <=> seeder'[r].scene # 0
        /\ seeder'[s].scene = n
    <3>1. PICK now : now = [seeder[s] EXCEPT !.at = "run", !.scene = n]
          OBVIOUS
    <3>2. now \in SeederRow /\ now.at = "run" /\ now.scene = n /\ n # 0
          BY <1>1, <3>1, RunBegins
    <3>3. seeder' = [seeder EXCEPT ![s] = now]
          BY <1>5, <3>1
    <3> QED BY <3>2, <3>3, SeederChanged
  <2>4. progress' \in [1..MaxScenes -> 0..6]
        BY <1>5 DEF SeedingInv
  <2> QED BY <1>1, <2>1, <2>2, <2>3, <2>4 DEF SeedingInv
<1> QED BY <1>3, <1>4, <1>5 DEF E!SeedBase

LEMMA SceneStepKept ==
    ASSUME E!DemoAssumption, SeedingInv, NEW s \in Seeders, E!SeedScene(s) \/ E!CrashSeed(s)
    PROVE SeedingInv'
<1> DEFINE n == seeder[s].scene
<1>1. n \in 1..MaxScenes /\ UNCHANGED activity
      BY DEF E!SeedScene, E!CrashSeed, SeedingInv, SeederRow, E!DemoAssumption
<1>2. ASSUME seeder' = [seeder EXCEPT ![s] = E!Rest]
      PROVE /\ seeder' \in [Seeders -> SeederRow]
            /\ \A r \in Seeders : seeder'[r].at = "run" <=> seeder'[r].scene # 0
            /\ \A r \in Seeders : r # s => seeder'[r].scene = seeder[r].scene
      BY <1>2, Resting, SeederChanged
<1>3. CASE /\ seeder' = [seeder EXCEPT ![s] = E!Rest] /\ UNCHANGED <<db, progress>>
           /\ \/ UNCHANGED abandoned /\ (n \notin E!DemoScenes \/ E!Complete(n))
              \/ abandoned' = abandoned \cup {n}
  <2>1. E!DemoScenes' = E!DemoScenes
        BY <1>3 DEF E!DemoScenes
  <2>2. /\ db' \subseteq Known /\ progress' = progress
        /\ progress' \in [1..MaxScenes -> 0..6] /\ abandoned \subseteq abandoned'
        /\ abandoned' \subseteq 1..MaxScenes /\ activity' \in 0..MaxActivities
        BY <1>1, <1>3 DEF SeedingInv
  <2>3. n \notin E!DemoScenes' \/ progress[n] = 6 \/ n \in abandoned'
        BY <1>3, <2>1, CommitsSix DEF E!Complete
  <2> QED BY <1>2, <1>3, <2>1, <2>2, <2>3, SeedingGoesOn
<1>4. CASE /\ ~ E!Complete(n) /\ E!Add(E!Commits(n)[progress[n] + 1])
           /\ progress' = [progress EXCEPT ![n] = @ + 1] /\ UNCHANGED <<seeder, abandoned>>
           /\ n \in E!DemoScenes
  <2>1. progress[n] + 1 \in 1..6 /\ progress[n] \in 0..5
    <3>1. progress[n] \in 0..6
          BY <1>1 DEF SeedingInv
    <3>2. progress[n] # 6
          BY <1>4, CommitsSix DEF E!Complete
    <3> HIDE DEF n
    <3> QED BY <3>1, <3>2
  <2>2. E!DemoScenes' \subseteq E!DemoScenes
    <3>1. {n} \in SUBSET (1..MaxScenes)
          BY <1>1
    <3>2. \A x \in E!Commits(n)[progress[n] + 1], m \in 1..MaxScenes :
             E!Key(x) = E!SceneKey(m) => m \in {n}
          BY <1>1, <2>1, CommitAdds
    <3>3. db' = db \cup E!Commits(n)[progress[n] + 1]
          BY <1>4 DEF E!Add
    <3> HIDE DEF n
    <3>4. E!DemoScenes' \subseteq E!DemoScenes \cup {n}
          BY <3>1, <3>2, <3>3, SceneAdded
    <3> QED BY <1>4, <3>4
  <2>3. db' \subseteq Known
    <3>1. E!Commits(n)[progress[n] + 1] \subseteq Known
          BY <1>1, <2>1, CommitAdds
    <3> QED BY <1>4, <3>1 DEF E!Add, SeedingInv
  <2>4. /\ progress' \in [1..MaxScenes -> 0..6]
        /\ \A m \in 1..MaxScenes : progress[m] = 6 => progress'[m] = 6
        BY <1>1, <1>4, <2>1 DEF SeedingInv
  <2> HIDE DEF n
  <2> QED BY <1>1, <1>4, <2>2, <2>3, <2>4, SeedingGoesOn DEF SeedingInv
<1> QED BY <1>3, <1>4 DEF E!SeedScene, E!CrashSeed

LEMMA AtBase ==
    ASSUME E!DemoAssumption, NEW known \in BOOLEAN
    PROVE  [at |-> "base", scene |-> 0, knew |-> known] \in SeederRow
BY DEF SeederRow, E!DemoAssumption

LEMMA SeedingKept ==
    ASSUME E!DemoAssumption, E!SchemaAssumption, SeedingInv, E!Next PROVE SeedingInv'
<1>1. ASSUME NEW held \in Activities, E!Act(held) PROVE SeedingInv'
  <2>1. db' = db \cup held /\ UNCHANGED <<seeder, progress, abandoned>>
        BY <1>1 DEF E!Act, E!Add
  <2>2. \A x \in held, n \in 1..MaxScenes : E!Key(x) # E!SceneKey(n)
        BY SeedKeys DEF E!SchemaAssumption
  <2>3. E!DemoScenes' \subseteq E!DemoScenes
        BY <2>1, <2>2, SceneAdded, {} \in SUBSET (1..MaxScenes)
  <2>4. db' \subseteq Known
        BY <2>1 DEF Known, SeedingInv
  <2>5. activity' \in 0..MaxActivities
    <3>1. activity \in 0..MaxActivities /\ MaxActivities \in Nat
          BY DEF SeedingInv, E!DemoAssumption
    <3>2. activity < MaxActivities /\ activity' = activity + 1
          BY <1>1 DEF E!Act
    <3> QED BY <3>1, <3>2
  <2> QED BY <2>1, <2>3, <2>4, <2>5, SeedingGoesOn DEF SeedingInv
<1>2. ASSUME NEW s \in Seeders, E!BeginSeed(s) PROVE SeedingInv'
  <2>1. E!DemoScenes' = E!DemoScenes
        BY <1>2 DEF E!BeginSeed, E!DemoScenes
  <2>2. seeder[s].scene = 0
        BY <1>2, Resting DEF E!BeginSeed
  <2>3. ASSUME NEW known \in BOOLEAN,
               seeder' = [seeder EXCEPT ![s] = [at |-> "base", scene |-> 0, knew |-> known]]
        PROVE /\ seeder' \in [Seeders -> SeederRow]
              /\ \A r \in Seeders : seeder'[r].at = "run" <=> seeder'[r].scene # 0
              /\ \A r \in Seeders : seeder'[r].scene = seeder[r].scene
    <3> DEFINE now == [at |-> "base", scene |-> 0, knew |-> known]
    <3>1. now \in SeederRow /\ now.at # "run" /\ now.scene = 0
          BY AtBase
    <3>2. seeder' = [seeder EXCEPT ![s] = now]
          BY <2>3
    <3> HIDE DEF now
    <3> QED BY <2>2, <3>1, <3>2, SeederChanged
  <2>4. /\ seeder' \in [Seeders -> SeederRow]
        /\ \A r \in Seeders : seeder'[r].at = "run" <=> seeder'[r].scene # 0
        /\ \A r \in Seeders : seeder'[r].scene = seeder[r].scene
    <3> DEFINE known == E!UserKey(Creator) \in E!KeysOf(db)
    <3>1. seeder' = [seeder EXCEPT ![s] = [at |-> "base", scene |-> 0, knew |-> known]]
          BY <1>2 DEF E!BeginSeed
    <3>2. known \in BOOLEAN
          OBVIOUS
    <3> HIDE DEF known
    <3> QED BY <2>3, <3>1, <3>2, Zenon
  <2> QED BY <1>2, <2>1, <2>4, SeedingGoesOn DEF SeedingInv, E!BeginSeed
<1>3. ASSUME NEW s \in Seeders, E!SeedBase(s) \/ E!SeedScene(s) \/ E!CrashSeed(s)
      PROVE SeedingInv'
      BY <1>3, BaseKept, SceneStepKept
<1>4. ASSUME UNCHANGED <<seeder, progress, abandoned, activity>>, db' \subseteq db
      PROVE SeedingInv'
  <2>1. E!DemoScenes' \subseteq E!DemoScenes
        BY <1>4 DEF E!DemoScenes, E!KeysOf
  <2> QED BY <1>4, <2>1, SeedingGoesOn DEF SeedingInv
<1>5. CASE E!BeginReset \/ E!DeleteNext \/ E!FailReset \/ E!CommitReset
      BY <1>4, <1>5 DEF E!BeginReset, E!DeleteNext, E!FailReset, E!CommitReset, E!Left
<1> QED BY <1>1, <1>2, <1>3, <1>5 DEF E!Next

-----------------------------------------------------------------------------
LEMMA ResetBegins == ASSUME E!Init PROVE ResetInv
BY DEF E!Init, E!NoReset, ResetInv

LEMMA ResetEnds == ASSUME reset' = E!NoReset PROVE ResetInv'
BY DEF E!NoReset, ResetInv

LEMMA ResetRests ==
    ASSUME ResetInv, NEW held, UNCHANGED <<db, reset>> \/ E!Add(held) PROVE ResetInv'
<1>1. CASE UNCHANGED <<db, reset>>
      BY <1>1 DEF ResetInv, Cleared, E!Doomed, E!Left
<1>2. CASE E!Add(held)
  <2>1. /\ reset'.next = reset.next /\ reset'.ids = reset.ids /\ reset'.gone = reset.gone
        /\ reset'.alone = (reset.next = 0)
        /\ reset' \in [next : 0..27, ids : SUBSET Nearer(db), gone : SUBSET E!KeysOf(db),
                       alone : BOOLEAN]
        BY <1>2 DEF E!Add, ResetInv
  <2>2. db \subseteq db'
        BY <1>2 DEF E!Add
  <2>3. /\ Nearest(db) \subseteq Nearest(db') /\ Nearer(db) \subseteq Nearer(db')
        /\ Near(db) \subseteq Near(db') /\ E!KeysOf(db) \subseteq E!KeysOf(db')
        BY <2>2, NearGrows
  <2>4. reset' \in [next : 0..27, ids : SUBSET Nearer(db'), gone : SUBSET E!KeysOf(db'),
                   alone : BOOLEAN]
        BY <2>1, <2>3
  <2> QED BY <2>1, <2>3, <2>4 DEF ResetInv
<1> QED BY <1>1, <1>2

LEMMA ResetCollects ==
    ASSUME E!DemoAssumption, E!SchemaAssumption, SeedingInv, E!BeginReset PROVE ResetInv'
<1>1. /\ UNCHANGED db /\ reset'.next = 1 /\ reset'.gone = {} /\ reset'.alone
      /\ reset'.ids = E!CollectUsers(db) \cup E!CollectOrganizations(db)
             \cup E!CollectScenes(db, E!CollectUsers(db), E!CollectOrganizations(db))
             \cup E!CollectConversations(db, E!CollectUsers(db))
      /\ reset' = [next |-> 1, gone |-> {}, alone |-> TRUE, ids |-> reset'.ids]
      BY DEF E!BeginReset
<1>2. reset'.ids \subseteq Nearest(db) /\ Nearest(db) \subseteq Nearer(db)
      BY <1>1, CollectedNear, NearWider DEF SeedingInv
<1>3. Cleared'
  <2>1. E!DemoOrganization \in E!KeysOf(db) => E!DemoOrganization \in reset'.ids
        BY <1>1 DEF E!CollectOrganizations
  <2>2. Done(reset'.next) = {}
        BY <1>1 DEF Done
  <2> QED BY <1>1, <2>1, <2>2 DEF Cleared
<1>4. reset' \in [next : 0..27, ids : SUBSET Nearer(db), gone : SUBSET E!KeysOf(db),
                 alone : BOOLEAN]
  <2>1. PICK ids \in SUBSET Nearer(db) :
           reset' = [next |-> 1, gone |-> {}, alone |-> TRUE, ids |-> ids]
        BY <1>1, <1>2
  <2> QED BY <2>1
<1> QED BY <1>1, <1>2, <1>3, <1>4 DEF ResetInv

ResetRow(near, all) == [next : 0..27, ids : SUBSET near, gone : SUBSET all, alone : BOOLEAN]

LEMMA ResetDeletes ==
    ASSUME ResetInv, E!DeleteNext PROVE ResetInv'
<1>1. reset.next \in 1..26 /\ UNCHANGED db /\ E!Statement = E!Statements[reset.next]
      BY StatementsAre DEF E!DeleteNext, E!Statement
<1>2. reset \in ResetRow(Nearer(db), E!KeysOf(db))
      BY DEF ResetInv, ResetRow
<1>3. CASE /\ E!Statement = "extra"
           /\ reset' = [reset EXCEPT !.next = @ + 1, !.ids = @ \cup E!ExtraScenes]
  <2>1. reset.next = 7
        BY <1>1, <1>3, OnlyExtra
  <2>2. E!ExtraScenes \subseteq Nearer(db)
    <3> SUFFICES ASSUME NEW y \in E!Left, NEW k \in y.refs \cap reset.ids
                 PROVE E!Key(y) \in Nearer(db)
          BY DEF E!ExtraScenes
    <3>1. y \in db /\ k \in Nearest(db)
          BY <2>1 DEF E!Left, ResetInv
    <3> QED BY <3>1, AroundHas DEF Nearer
  <2>3. /\ reset'.next = 8 /\ reset'.gone = reset.gone /\ reset'.alone = reset.alone
        /\ reset'.ids = reset.ids \cup E!ExtraScenes
        /\ reset' \in ResetRow(Nearer(db), E!KeysOf(db))
    <3>1. E!ExtraScenes \in SUBSET Nearer(db) /\ reset.next \in 1..26
          BY <2>1, <2>2
    <3>2. PICK near, all : near = Nearer(db) /\ all = E!KeysOf(db)
          OBVIOUS
    <3>3. reset \in ResetRow(near, all)
          BY <1>2, <3>2
    <3>4. PICK more \in SUBSET near : more = E!ExtraScenes
          BY <3>1, <3>2
    <3>5. PICK ids \in SUBSET near : ids = reset.ids \cup more
          BY <3>3 DEF ResetRow
    <3>6. PICK n \in 0..27 : n = 8 /\ reset' = [reset EXCEPT !.next = n, !.ids = ids]
          BY <1>3, <2>1, <3>4, <3>5
    <3>7. reset' \in ResetRow(near, all)
          BY <3>3, <3>6 DEF ResetRow
    <3>8. reset'.next = n /\ reset'.gone = reset.gone
          BY <3>3, <3>6 DEF ResetRow
    <3>9. reset'.alone = reset.alone /\ reset'.ids = ids
          BY <3>3, <3>6 DEF ResetRow
    <3> QED BY <3>2, <3>4, <3>5, <3>6, <3>7, <3>8, <3>9
  <2>4. Done(8) = {}
        BY DEF Done
  <2> QED BY <1>1, <2>1, <2>3, <2>4 DEF ResetInv, ResetRow, Cleared
<1>4. CASE /\ E!Statement # "extra"
           /\ reset' = [reset EXCEPT !.next = @ + 1,
                                     !.gone = @ \cup E!KeysOf(E!Doomed(E!Statement))]
  <2> DEFINE dead == E!KeysOf(E!Doomed(E!Statement))
  <2>1. dead \subseteq Near(db) \cap E!KeysOf(db)
        BY DoomedNear
  <2> HIDE DEF dead
  <2>2. reset.next # 7
        BY <1>1, <1>4, OnlyExtra
  <2>3. /\ reset'.next = reset.next + 1 /\ reset'.ids = reset.ids /\ reset'.alone = reset.alone
        /\ reset'.gone = reset.gone \cup dead
        /\ reset' \in ResetRow(Nearer(db), E!KeysOf(db))
    <3>1. dead \in SUBSET E!KeysOf(db) /\ reset.next \in 1..26
          BY <1>1, <2>1
    <3>2. reset' = [reset EXCEPT !.next = @ + 1, !.gone = @ \cup dead]
          BY <1>4 DEF dead
    <3>3. PICK near, all : near = Nearer(db) /\ all = E!KeysOf(db)
          OBVIOUS
    <3>4. reset \in ResetRow(near, all)
          BY <1>2, <3>3
    <3>5. reset.next + 1 \in 0..27 /\ reset.gone \cup dead \in SUBSET all
          BY <3>1, <3>3, <3>4 DEF ResetRow
    <3>6. reset' \in ResetRow(near, all)
          BY <3>2, <3>4, <3>5 DEF ResetRow
    <3>7. reset'.next = reset.next + 1 /\ reset'.ids = reset.ids
          BY <3>2, <3>4 DEF ResetRow
    <3>8. reset'.alone = reset.alone /\ reset'.gone = reset.gone \cup dead
          BY <3>2, <3>4 DEF ResetRow
    <3> QED BY <3>3, <3>6, <3>7, <3>8
  <2>4. ASSUME Cleared PROVE Cleared'
    <3>1. ASSUME NEW t PROVE E!Doomed(t)' \subseteq E!Doomed(t)
          BY <1>1, <2>3 DEF E!Doomed, E!Left
    <3>2. ASSUME NEW t, t = E!Statements[reset.next] PROVE E!Doomed(t)' = {}
      <4>1. dead = E!KeysOf(E!Doomed(t))
            BY <1>1, <3>2 DEF dead
      <4>2. ASSUME NEW x \in E!Doomed(t)' PROVE E!Key(x) \notin reset'.gone
            BY DEF E!Doomed, E!Left
      <4> QED BY <2>3, <3>1, <4>1, <4>2 DEF E!KeysOf
    <3>3. ASSUME NEW j \in Done(reset.next + 1) PROVE j \in Done(reset.next) \cup {reset.next}
          BY <1>1, <2>2, <3>3 DEF Done
    <3> QED BY <1>1, <2>3, <2>4, <3>1, <3>2, <3>3 DEF Cleared
  <2> QED BY <1>1, <2>1, <2>2, <2>3, <2>4 DEF ResetInv, ResetRow
<1> QED BY <1>3, <1>4 DEF E!DeleteNext

LEMMA ResetKept ==
    ASSUME E!DemoAssumption, E!SchemaAssumption, SeedingInv, ResetInv, E!Next PROVE ResetInv'
<1>1. ASSUME NEW held \in Activities, E!Act(held) PROVE ResetInv'
      BY <1>1, ResetRests DEF E!Act
<1>2. ASSUME NEW s \in Seeders, E!BeginSeed(s) \/ E!CrashSeed(s) PROVE ResetInv'
      BY <1>2, ResetRests DEF E!BeginSeed, E!CrashSeed
<1>3. ASSUME NEW s \in Seeders, E!SeedBase(s) PROVE ResetInv'
      BY <1>3, ResetRests DEF E!SeedBase
<1>4. ASSUME NEW s \in Seeders, E!SeedScene(s) PROVE ResetInv'
      BY <1>4, ResetRests DEF E!SeedScene
<1>5. CASE E!FailReset \/ E!CommitReset
      BY <1>5, ResetEnds DEF E!FailReset, E!CommitReset
<1> QED BY <1>1, <1>2, <1>3, <1>4, <1>5, ResetCollects, ResetDeletes DEF E!Next

DemoDataInv == SeedingInv /\ ResetInv

(* Only the commit of a reset takes rows away, those that it deleted.      *)
LEMMA OnlyNearDeleted ==
    ASSUME ResetInv, E!Next, NEW x \in db \ db' PROVE E!Key(x) \in Near(db)
<1>1. E!CommitReset
      BY DEF E!Next, E!Act, E!Add, E!BeginSeed, E!SeedBase, E!SeedScene, E!CrashSeed, E!BeginReset,
             E!DeleteNext, E!FailReset
<1>2. E!Key(x) \in reset.gone
      BY <1>1 DEF E!CommitReset, E!Left
<1> QED BY <1>2 DEF ResetInv

LEMMA OneSeeded == ASSUME SeedingInv PROVE E!OneDemoScene
<1>1. E!Cardinality(E!DemoScenes) <= 1
  <2>1. CASE E!DemoScenes = {}
        BY <2>1, FS_EmptySet DEF E!Cardinality, Cardinality
  <2>2. CASE E!DemoScenes # {}
    <3>1. PICK n : E!DemoScenes = {n}
      <4>1. PICK n \in E!DemoScenes : TRUE
            BY <2>2
      <4>2. \A m \in E!DemoScenes : m = n
            BY DEF SeedingInv
      <4> QED BY <4>1, <4>2
    <3>2. Cardinality({n}) = 1
          BY FS_Singleton
    <3>3. E!Cardinality({n}) = Cardinality({n})
          BY DEF E!Cardinality, Cardinality
    <3> QED BY <3>1, <3>2, <3>3
  <2> QED BY <2>1, <2>2
<1>2. \A n \in E!DemoScenes :
         E!Complete(n) \/ n \in abandoned \/ \E s \in Seeders : seeder[s].scene = n
      BY CommitsSix DEF SeedingInv, E!Complete
<1> QED BY <1>1, <1>2 DEF E!OneDemoScene

LEMMA DemoTyped == ASSUME DemoDataInv PROVE E!TypeOK
<1>1. /\ seeder \in [Seeders -> SeederRow]
      /\ abandoned \subseteq 1..MaxScenes /\ activity \in 0..MaxActivities
      BY DEF DemoDataInv, SeedingInv
<1>2. progress \in [1..MaxScenes -> 0..Len(E!Commits(1))]
      BY CommitsSix DEF DemoDataInv, SeedingInv
<1>3. reset.next \in 0..27 /\ reset.alone \in BOOLEAN /\ reset.gone \subseteq E!KeysOf(db)
      BY DEF DemoDataInv, ResetInv
<1>4. Len(E!Statements) + 1 = 27
      BY StatementsAre
<1> QED BY <1>1, <1>2, <1>3, <1>4 DEF E!TypeOK, SeederRow

(* The demo data: however often and by however many it is seeded there is  *)
(* one demo scene, complete unless a seeding is at it or crashed; a reset  *)
(* that runs alone is stopped only by a row that no statement deletes; and *)
(* what it deletes is at most three rows away from the demo users.         *)
THEOREM DemoDataIsSound == ASSUME DemoParameters PROVE DinnerSpec => DemoDataSound
<1>1. DinnerInit => DemoDataInv
      BY SeedingBegins, ResetBegins DEF DemoParameters, DinnerInit, DemoDataInv
<1>2. DemoDataInv /\ [DinnerNext]_dinnerVars => DemoDataInv'
  <2> SUFFICES ASSUME DemoDataInv, [DinnerNext]_dinnerVars PROVE DemoDataInv'
        OBVIOUS
  <2>1. CASE E!Next
        BY <2>1, SeedingKept, ResetKept DEF DemoParameters, DemoDataInv
  <2>2. CASE UNCHANGED evars
    <3>1. E!DemoScenes' = E!DemoScenes
          BY <2>2 DEF evars, E!DemoScenes
    <3>2. ResetInv'
          BY <2>2, ResetRests DEF evars, DemoDataInv
    <3>3. SeedingInv'
          BY <2>2, <3>1, SeedingGoesOn DEF evars, DemoDataInv, SeedingInv
    <3> QED BY <3>2, <3>3 DEF DemoDataInv
  <2> QED BY <2>1, <2>2 DEF DinnerNext, dinnerVars
<1>3. DemoDataInv => E!TypeOK /\ E!OneDemoScene
      BY DemoTyped, OneSeeded DEF DemoDataInv
<1>4. [DinnerNext]_dinnerVars => [E!Next]_(E!vars)
      BY DEF DinnerNext, dinnerVars, evars, E!vars
<1>5. DemoDataInv /\ [E!Next]_(E!vars) =>
         [E!FailReset => ~ reset.alone \/ E!Leftover]_(E!vars)
      BY StoppedByLeftover DEF DemoParameters, DemoDataInv, SeedingInv
<1>6. DemoDataInv /\ [E!Next]_(E!vars) =>
         [\A x \in db \ db' :
             E!Key(x) \in E!Around(db, E!Around(db, E!Around(db, E!Roots)))]_(E!vars)
      BY OnlyNearDeleted DEF DemoDataInv, Near, Nearer, Nearest
<1> QED BY <1>1, <1>2, <1>3, <1>4, <1>5, <1>6, PTL
         DEF DinnerSpec, DemoDataSound, E!ResetGoesThrough, E!OnlyRelatedDeleted
=============================================================================
