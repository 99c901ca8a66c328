----------------------------- MODULE ChatDinner -----------------------------
(***************************************************************************)
(* The dorm dinner inside a group chat (modules/scenes/chat_dorm_dinner.py *)
(* and its routes in api.py): members join, hand in preferences, the       *)
(* creator lets their agents negotiate, and members vote on the candidates. *)
(*                                                                         *)
(* Most routes are coroutines that never await while they serve: the event *)
(* loop runs one of them to its end.  Closing, ending and asking for the   *)
(* next negotiation are plain functions that FastAPI runs in threads, also *)
(* during a negotiation, which waits for the search and the model.         *)
(***************************************************************************)
EXTENDS Integers, FiniteSets

CONSTANTS Members,        \* active participants of the conversation
          Threads,        \* threads of the pool that serve this conversation
          Keys,           \* candidate keys the model may propose
          MaxScenes,      \* scenes the conversation may start
          MaxDebates      \* negotiations recorded per scene

BoundsAssumption == MaxScenes \in Nat \ {0} /\ MaxDebates \in Nat
ServersAssumption == "loop" \notin Threads /\ "none" \notin Keys /\ Members # {}

VARIABLES scene,          \* the rows of scene_instances
          role,           \* scene_participants.status per scene and member
          submitted,      \* members with a private submission, per scene
          candidate,      \* scene_candidates, and whose preferences they use
          vote,           \* scene_votes: the key a member approves
          job             \* the request of the event loop and of each thread

chatVars == <<scene, role, submitted, candidate, vote, job>>
rows == <<scene, role, submitted, candidate, vote>>

Loop == "loop"
Servers == {Loop} \cup Threads
Scenes == 1 .. MaxScenes
NoContext == [history |-> 0, requesters |-> {}, begun |-> FALSE]
NoVote == "none"

(* The public context is one column: what the negotiations remember, who   *)
(* asks for another one, and whether it has been written at all.           *)
Gathered == [history : 0 .. MaxDebates, requesters : SUBSET Members, begun : BOOLEAN]
Open == {"DRAFT", "COLLECTING", "VOTING"}
Status == Open \cup {"ABSENT", "VOTING_CLOSED", "COMPLETED"}
Row == [status : Status, creator : Members, context : Gathered]

Absent == [status |-> "ABSENT", creator |-> CHOOSE u \in Members : TRUE,
           context |-> NoContext]
NoCandidates == [keys |-> {}, from |-> {}]

(* A request that computes columns from the row holds the row it has read, *)
(* also after a commit (expire_on_commit is off).                          *)
Holders == {"recover", "negotiate", "next"}
Steps == {"idle", "initialise", "recover", "participate", "join", "again",
          "submit", "negotiate", "post", "error", "vote", "close", "end", "next"}
Choices == {"ACCEPTED", "DECLINED"} \cup Keys
Job == [at : Steps, user : Members, scene : Scenes, read : Row, choice : Choices]
AtRest == [at |-> "idle", user |-> Absent.creator, scene |-> 1, read |-> Absent,
         choice |-> "ACCEPTED"]

ChatInit ==
    /\ scene = [i \in Scenes |-> Absent]
    /\ role = [i \in Scenes |-> [u \in Members |-> "NONE"]]
    /\ submitted = [i \in Scenes |-> {}]
    /\ candidate = [i \in Scenes |-> NoCandidates]
    /\ vote = [i \in Scenes |-> [u \in Members |-> NoVote]]
    /\ job = [s \in Servers |-> AtRest]

(***************************************************************************)
(* Reading                                                                 *)
(***************************************************************************)

IsCurrent(i) == scene[i].status \in Open

(* The newest open scene of the conversation.                              *)
Newest(i) == IsCurrent(i) /\ \A j \in Scenes : IsCurrent(j) => j <= i

Accepted(i) == {u \in Members : role[i][u] = "ACCEPTED"}

(* Mutant: one member who is ready is enough. *)
ReadyAny(i) == Accepted(i) \cap submitted[i] # {}

Ready(i) == Accepted(i) # {} /\ Accepted(i) \subseteq submitted[i]

Recoverable(i, u) ==
    scene[i].creator = u /\ scene[i].status = "DRAFT" /\ ~ scene[i].context.begun

Busy(s, at) == job[s].at = at

Serve(s, at, u, i, choice) ==
    job' = [job EXCEPT ![s] = [at |-> at, user |-> u, scene |-> i,
                               read |-> IF at \in Holders THEN scene[i] ELSE Absent,
                               choice |-> choice]]

Begin(s, at, u, i, choice) ==
    Busy(s, "idle") /\ Newest(i) /\ Serve(s, at, u, i, choice) /\ UNCHANGED rows

Reply(s) == job' = [job EXCEPT ![s] = AtRest]

(* An update names only the columns whose value the request has changed.   *)
Write(i, read, new) ==
    scene' = [scene EXCEPT ![i] =
                [c \in DOMAIN new |-> IF new[c] = read[c] THEN @[c] ELSE new[c]]]

(***************************************************************************)
(* Starting a scene: one commit creates the row, another initialises it    *)
(***************************************************************************)

Invited(u) == [v \in Members |-> IF v = u THEN "ACCEPTED" ELSE "INVITED"]

(* Mutant: an open scene is not looked for. *)
StartNewAnyway(u) ==
    /\ Busy(Loop, "idle")
    /\ \E i \in Scenes :
          /\ scene[i].status = "ABSENT" /\ \A j \in 1 .. i - 1 : scene[j].status # "ABSENT"
          /\ LET draft == [Absent EXCEPT !.status = "DRAFT", !.creator = u]
             IN  /\ scene' = [scene EXCEPT ![i] = draft]
                 /\ job' = [job EXCEPT ![Loop] = [AtRest EXCEPT
                        !.at = "initialise", !.user = u, !.scene = i, !.read = draft]]
          /\ role' = [role EXCEPT ![i] = Invited(u)]
    /\ UNCHANGED <<submitted, candidate, vote>>

StartNew(u) ==
    /\ Busy(Loop, "idle")
    /\ \A i \in Scenes : ~ IsCurrent(i)
    /\ \E i \in Scenes :
          /\ scene[i].status = "ABSENT" /\ \A j \in 1 .. i - 1 : scene[j].status # "ABSENT"
          /\ LET draft == [Absent EXCEPT !.status = "DRAFT", !.creator = u]
             IN  /\ scene' = [scene EXCEPT ![i] = draft]
                 /\ job' = [job EXCEPT ![Loop] = [AtRest EXCEPT
                        !.at = "initialise", !.user = u, !.scene = i, !.read = draft]]
          /\ role' = [role EXCEPT ![i] = Invited(u)]
    /\ UNCHANGED <<submitted, candidate, vote>>

StartAgain(u) ==
    \E i \in Scenes : Recoverable(i, u) /\ Begin(Loop, "recover", u, i, "ACCEPTED")

Initialise ==
    LET now == job[Loop] IN
    /\ now.at \in {"initialise", "recover"}
    /\ Write(now.scene, now.read,
             [now.read EXCEPT !.status = "COLLECTING",
                              !.context = [NoContext EXCEPT !.begun = TRUE]])
    /\ Reply(Loop)
    /\ UNCHANGED <<role, submitted, candidate, vote>>

(* The message or the commit fails: a row of this request is deleted.      *)
InitialiseFails ==
    LET i == job[Loop].scene IN
    /\ Busy(Loop, "initialise")
    /\ scene' = [scene EXCEPT ![i] = Absent]
    /\ role' = [role EXCEPT ![i] = [u \in Members |-> "NONE"]]
    /\ Reply(Loop)
    /\ UNCHANGED <<submitted, candidate, vote>>

(***************************************************************************)
(* Participation, preferences and votes                                    *)
(***************************************************************************)

SetParticipation(u) ==
    \E i \in Scenes, answer \in {"ACCEPTED", "DECLINED"} :
        Begin(Loop, "participate", u, i, answer)

SaveParticipation ==
    LET now == job[Loop] IN
    /\ Busy(Loop, "participate") \/ Busy(Loop, "join")
    /\ role' = [role EXCEPT ![now.scene][now.user] = now.choice]
    /\ job' = [job EXCEPT ![Loop] = IF now.at = "join" THEN [now EXCEPT !.at = "again"]
                                                       ELSE AtRest]
    /\ UNCHANGED <<scene, submitted, candidate, vote>>

(* Who has not joined yet joins first, in a commit of its own.             *)
SubmitPreferences(u) ==
    \E i \in Scenes :
        IF role[i][u] = "ACCEPTED"
        THEN scene[i].status = "COLLECTING" /\ Begin(Loop, "submit", u, i, "ACCEPTED")
        ELSE Begin(Loop, "join", u, i, "ACCEPTED")

ReadSceneAgain ==
    LET u == job[Loop].user IN
    /\ Busy(Loop, "again")
    /\ \/ \E i \in Scenes : /\ Newest(i) /\ scene[i].status = "COLLECTING"
                            /\ Serve(Loop, "submit", u, i, "ACCEPTED")
       \/ /\ \A i \in Scenes : Newest(i) => scene[i].status # "COLLECTING"
          /\ Reply(Loop)
    /\ UNCHANGED rows

SaveSubmission ==
    LET now == job[Loop] IN
    /\ Busy(Loop, "submit")
    /\ submitted' = [submitted EXCEPT ![now.scene] = @ \cup {now.user}]
    /\ Reply(Loop)
    /\ UNCHANGED <<scene, role, candidate, vote>>

(* Neither the phase of the scene nor the member's answer matters.         *)
Vote(u) ==
    \E i \in Scenes : \E key \in candidate[i].keys : Begin(Loop, "vote", u, i, key)

SaveVote ==
    LET now == job[Loop] IN
    /\ Busy(Loop, "vote")
    /\ vote' = [vote EXCEPT ![now.scene][now.user] = now.choice]
    /\ Reply(Loop)
    /\ UNCHANGED <<scene, role, submitted, candidate>>

(***************************************************************************)
(* The negotiation: read, wait for the providers, replace the candidates   *)
(***************************************************************************)

RunDebate(u) ==
    \E i \in Scenes :
        /\ scene[i].creator = u /\ Ready(i)
        /\ scene[i].context.history < MaxDebates
        /\ Begin(Loop, "negotiate", u, i, "ACCEPTED")

Edited(context) == [context EXCEPT !.begun = TRUE]

(* The search or the model fails, or external models are switched off: the *)
(* context is written with the error, unless it held that error already.   *)
SearchFails ==
    LET now == job[Loop] IN
    /\ Busy(Loop, "negotiate")
    /\ \/ scene' = [scene EXCEPT ![now.scene].context = Edited(now.read.context)]
       \/ UNCHANGED scene
    /\ Reply(Loop)
    /\ UNCHANGED <<role, submitted, candidate, vote>>

(* Mutant: a vote does not hold on to its candidate. *)
VotedNever(i) == FALSE

(* The first message of the transcript commits the deletion of the old     *)
(* candidates, which the foreign key of a vote forbids.                    *)
Voted(i) == \E u \in Members : vote[i][u] # NoVote

PostTranscript ==
    LET i == job[Loop].scene IN
    /\ Busy(Loop, "negotiate")
    /\ ~ Voted(i)
    /\ candidate' = [candidate EXCEPT ![i] = NoCandidates]
    /\ job' = [job EXCEPT ![Loop].at = "post"]
    /\ UNCHANGED <<scene, role, submitted, vote>>

DeleteRefused ==
    /\ Busy(Loop, "negotiate")
    /\ Voted(job[Loop].scene)
    /\ job' = [job EXCEPT ![Loop].at = "error"]
    /\ UNCHANGED rows

(* A later message is refused for its content: what is committed remains.  *)
TranscriptFails ==
    Busy(Loop, "post") /\ Reply(Loop) /\ UNCHANGED rows

Remembering(context) == [Edited(context) EXCEPT !.history = @ + 1]

Conclude ==
    LET now == job[Loop] IN
    /\ Busy(Loop, "post")
    /\ \E keys \in (SUBSET Keys) \ {{}} :
          candidate' = [candidate EXCEPT ![now.scene] =
                            [keys |-> keys, from |-> submitted[now.scene]]]
    /\ Write(now.scene, now.read,
             [now.read EXCEPT !.status = "VOTING",
                              !.context = Remembering(now.read.context)])
    /\ Reply(Loop)
    /\ UNCHANGED <<role, submitted, vote>>

AnswerError == Busy(Loop, "error") /\ Reply(Loop) /\ UNCHANGED rows

(***************************************************************************)
(* What the threads serve                                                  *)
(***************************************************************************)

CloseVote(t, u) ==
    \E i \in Scenes : scene[i].creator = u /\ Begin(t, "close", u, i, "ACCEPTED")
EndScene(t, u) ==
    \E i \in Scenes : scene[i].creator = u /\ Begin(t, "end", u, i, "ACCEPTED")
RequestNextNegotiation(t, u) ==
    \E i \in Scenes : role[i][u] = "ACCEPTED" /\ Begin(t, "next", u, i, "ACCEPTED")

Finish(i, status) == scene' = [scene EXCEPT ![i].status = status]

Asking(context, u) == [Edited(context) EXCEPT !.requesters = @ \cup {u}]
Asked(read, u) == [read EXCEPT !.context = Asking(read.context, u)]

SaveInThread(t) ==
    LET now == job[t] IN
    /\ \/ now.at = "close" /\ Finish(now.scene, "VOTING_CLOSED")
       \/ now.at = "end" /\ Finish(now.scene, "COMPLETED")
       \/ now.at = "next" /\ Write(now.scene, now.read, Asked(now.read, now.user))
    /\ Reply(t)
    /\ UNCHANGED <<role, submitted, candidate, vote>>

(* The process stops: committed rows remain.                               *)
Crash ==
    /\ job' = [s \in Servers |-> AtRest]
    /\ job' # job
    /\ UNCHANGED rows

(***************************************************************************)
(* The specification                                                       *)
(***************************************************************************)

LoopStep ==
    \/ Initialise \/ InitialiseFails \/ SaveParticipation \/ ReadSceneAgain
    \/ SaveSubmission \/ SaveVote \/ SearchFails \/ PostTranscript
    \/ DeleteRefused \/ TranscriptFails \/ Conclude \/ AnswerError

NewRequest(u) ==
    \/ StartNew(u) \/ StartAgain(u) \/ SetParticipation(u) \/ SubmitPreferences(u)
    \/ RunDebate(u) \/ Vote(u)
    \/ \E t \in Threads : CloseVote(t, u) \/ EndScene(t, u) \/ RequestNextNegotiation(t, u)

ChatNext ==
    \/ \E u \in Members : NewRequest(u)
    \/ LoopStep
    \/ \E t \in Threads : SaveInThread(t)
    \/ Crash

ChatSpec == ChatInit /\ [][ChatNext]_chatVars

(***************************************************************************)
(* Properties                                                              *)
(***************************************************************************)

(* Every column has one of the values the code stores.                     *)
ChatTypeOK ==
    /\ scene \in [Scenes -> Row]
    /\ role \in [Scenes -> [Members -> {"NONE", "INVITED", "ACCEPTED", "DECLINED"}]]
    /\ submitted \in [Scenes -> SUBSET Members]
    /\ candidate \in [Scenes -> [keys : SUBSET Keys, from : SUBSET Members]]
    /\ vote \in [Scenes -> [Members -> Keys \cup {NoVote}]]
    /\ job \in [Servers -> Job]

(* The conversation never has two open scenes, although a late negotiation *)
(* can reopen a closed one and a failed start leaves a draft behind.       *)
OneCurrentScene ==
    \A i, j \in Scenes : IsCurrent(i) /\ IsCurrent(j) => i = j

(* Whatever a member has voted for is still on offer: a new negotiation    *)
(* never replaces candidates that have votes.                              *)
VoteForOffered ==
    \A i \in Scenes, u \in Members : vote[i][u] \in candidate[i].keys \cup {NoVote}

(* The candidates on offer were negotiated with every preference that has  *)
(* been handed in: none is accepted that would not be considered.          *)
EveryPreferenceCounted ==
    \A i \in Scenes : candidate[i].keys # {} => submitted[i] = candidate[i].from

(* Both together: what is on offer holds against votes and preferences,    *)
(* whatever negotiates meanwhile.                                          *)
OffersHold == VoteForOffered /\ EveryPreferenceCounted

(* When candidates are published, everyone who takes part has handed in    *)
(* preferences, however long the negotiation took.                         *)
NobodyOverlooked ==
    [][\A i \in Scenes : candidate'[i].keys \subseteq candidate[i].keys
                         \/ Accepted(i)' \subseteq candidate'[i].from]_chatVars

(* What the design promises: a result that arrives after the vote was      *)
(* closed or the scene was ended is not written back.                      *)
LateResultDropped ==
    [][\A i \in Scenes : scene[i].status \in {"VOTING_CLOSED", "COMPLETED"}
                            => scene'[i].status # "VOTING"]_chatVars
=============================================================================
