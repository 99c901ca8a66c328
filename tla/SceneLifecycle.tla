--------------------------- MODULE SceneLifecycle ---------------------------
(***************************************************************************)
(* One scene instance in the database, and the requests that change it     *)
(* (modules/scenes: service.py, coordinator.py, cleanup.py, api.py).       *)
(*                                                                         *)
(* Every API call and background job runs in a worker of its own with its  *)
(* own session, and nothing is locked: a worker first reads the rows it    *)
(* checks, keeps what it read in its session, and commits later.  The      *)
(* commit writes by primary key whatever the worker computed, without      *)
(* looking again, except where a unique constraint or the version compare  *)
(* of update_status refuses it.  So every operation is a read step and a   *)
(* commit step of a worker; an operation whose effect does not depend on   *)
(* anything another worker may change is a single step.                    *)
(* With one worker the requests are served one after another.              *)
(***************************************************************************)
EXTENDS SceneStates, Integers

CONSTANTS Users,        \* the users who may be asked to take part
          Creator,      \* the user who created the scene
          Candidates,   \* the candidates the plugin can come up with
          None,         \* no candidate
          Workers,      \* concurrent request handlers
          MaxVersion,   \* no request starts once the version has reached this
          MaxCrashes    \* how many requests may die half-way

ASSUME CreatorAssumption == Creator \in Users
ASSUME NoneAssumption == None \notin Candidates
ASSUME BoundAssumption == MaxVersion \in Nat /\ MaxCrashes \in Nat

VARIABLES status,       \* scene_instances.status (and current_phase)
          version,      \* scene_instances.version
          stamped,      \* the outcome columns set: completed_at, cancelled_at, failed_reason_code
          overdue,      \* expires_at has passed
          participant,  \* scene_participants.status of each user, or "NONE"
          joined,       \* the users whose scene_participants.joined_at is set
          submission,   \* the scene_private_submissions row of each user
          candidate,    \* scene_candidates.status of each candidate, or "absent"
          results,      \* the rows of scene_results
          vote,         \* scene_votes.candidate_id of each user, or None
          announced,    \* the outcomes published on the event bus
          worker,       \* what each worker is doing and has read
          crashes       \* requests that died so far

instanceVars == <<status, version, stamped, overdue>>
people == <<participant, joined>>
publicVars == <<candidate, results, vote>>
vars == <<status, version, stamped, overdue, participant, joined, submission,
          candidate, results, vote, announced, worker, crashes>>

ParticipantStatus == {"NONE", "INVITED", "ACCEPTED", "DECLINED", "LEFT"}

(* A submission row: "live" and "stale" (past expires_at) have deleted_at   *)
(* null; "softDeleted" has deleted_at set and still holds the payload;      *)
(* "purged" has deleted_at set and no payload.                              *)
SubmissionRow == {"none", "live", "stale", "softDeleted", "purged"}

CandidateStatus == {"absent", "ACTIVE", "ELIMINATED", "SELECTED"}

ResultRow == [selected : Candidates \cup {None},
              evaluated : SUBSET Users,      \* whose capsules were evaluated
              counted : SUBSET Users]        \* whose rows submitted_count counted

Stamps == {"COMPLETED", "CANCELLED", "FAILED"}

PC == {"idle", "transition", "startProcessing", "generate", "generating",
       "cleanup", "cleanupFailed", "openVoting", "candidatesReady",
       "accept", "submit", "vote", "expire", "expiring", "purge", "announce"}

WorkerState == [pc : PC, user : Users, target : SceneState, version : Nat,
                cand : Candidates \cup {None}, had : BOOLEAN,
                rows : SUBSET Users]

Idle == [pc |-> "idle", user |-> Creator, target |-> "DRAFT", version |-> 0,
         cand |-> None, had |-> FALSE, rows |-> {}]

At(w, pc) == worker[w].pc = pc
AllIdle == \A w \in Workers : At(w, "idle")
(* The expiry job has updated the row and not committed: it holds its lock. *)
Locked == \E w \in Workers : At(w, "expiring") /\ worker[w].had
Become(w, state) == worker' = [worker EXCEPT ![w] = state]

Existing == {c \in Candidates : candidate[c] # "absent"}
ListByInstance == {u \in Users : submission[u] \in {"live", "stale"}}
CountByInstance == {u \in Users : submission[u] \in {"live", "stale"}}
SubmissionOf(u) == submission[u] \in {"live", "stale"}

Init ==
    /\ status = "DRAFT"
    /\ version = 1
    /\ stamped = {}
    /\ overdue = FALSE
    /\ \E invited \in SUBSET (Users \ {Creator}) :
          participant = [u \in Users |-> IF u = Creator THEN "ACCEPTED"
                                         ELSE IF u \in invited THEN "INVITED"
                                         ELSE "NONE"]
    /\ joined = {Creator}
    /\ submission = [u \in Users |-> "none"]
    /\ candidate = [c \in Candidates |-> "absent"]
    /\ results = {}
    /\ vote = [u \in Users |-> None]
    /\ announced = {}
    /\ worker = [w \in Workers |-> Idle]
    /\ crashes = 0

(***************************************************************************)
(* State transitions: POST /transition and the first and last part of POST *)
(* /process, all through transition_state.  The creator may name any       *)
(* action.                                                                 *)
(***************************************************************************)
ReadTransition(w) ==
    /\ At(w, "idle") /\ version < MaxVersion
    /\ \E a \in SceneActions : \E t \in Targets(status, a) :
          Become(w, [Idle EXCEPT !.pc = "transition", !.target = t,
                                 !.version = version])
    /\ UNCHANGED <<instanceVars, people, submission, publicVars,
                   announced, crashes>>

ReadProcess(w) ==
    /\ At(w, "idle") /\ version < MaxVersion
    /\ \E t \in Targets(status, "start_processing") :
          Become(w, [Idle EXCEPT !.pc = "startProcessing", !.target = t,
                                 !.version = version])
    /\ UNCHANGED <<instanceVars, people, submission, publicVars,
                   announced, crashes>>

ReadCandidatesReady(w) ==
    /\ At(w, "openVoting")
    /\ IF Targets(status, "candidates_ready") = {}
       THEN Become(w, Idle)
       ELSE \E t \in Targets(status, "candidates_ready") :
               Become(w, [Idle EXCEPT !.pc = "candidatesReady", !.target = t,
                                      !.version = version])
    /\ UNCHANGED <<instanceVars, people, submission, publicVars,
                   announced, crashes>>

(* Mutant: the phase gets the name the state-machine document gives it. *)
SaveDocumentedName(w) ==
    /\ status' = IF worker[w].target = "GENERATING_CANDIDATES"
                 THEN "PROCESSING" ELSE worker[w].target
    /\ version' = worker[w].version + 1
    /\ stamped' = stamped \cup ({worker[w].target} \cap Stamps)

(* Mutant: completed_at is forgotten. *)
SaveWithoutCompletedAt(w) ==
    /\ status' = worker[w].target
    /\ version' = worker[w].version + 1
    /\ stamped' = stamped \cup ({worker[w].target} \cap {"CANCELLED", "FAILED"})

(* The UPDATE of the row by primary key: the version written is the one    *)
(* that was read plus one, whatever the row holds by now.                  *)
SaveTransition(w) ==
    /\ status' = worker[w].target
    /\ version' = worker[w].version + 1
    /\ stamped' = stamped \cup ({worker[w].target} \cap Stamps)

WriteTransition(w) ==
    /\ worker[w].pc \in {"transition", "startProcessing", "candidatesReady"}
    /\ ~ Locked
    /\ SaveTransition(w)
    /\ Become(w, IF At(w, "startProcessing") THEN [Idle EXCEPT !.pc = "generate"]
                 ELSE IF worker[w].target \in TerminalStates
                 THEN [Idle EXCEPT !.pc = "announce", !.target = worker[w].target]
                 ELSE Idle)
    /\ UNCHANGED <<overdue, people, submission, publicVars, announced, crashes>>

(* The event follows the commit; that of a mere change of phase is left out. *)
Announce(w) ==
    /\ At(w, "announce")
    /\ announced' = announced \cup ({worker[w].target} \cap TerminalStates)
    /\ Become(w, Idle)
    /\ UNCHANGED <<instanceVars, people, submission, publicVars, crashes>>

(***************************************************************************)
(* The middle of POST /process: run_generation_phase.                      *)
(***************************************************************************)
Generate(w) ==
    /\ At(w, "generate")
    /\ IF status # "GENERATING_CANDIDATES"
       THEN Become(w, Idle)
       ELSE Become(w, [Idle EXCEPT !.pc = "generating", !.version = version,
                                   !.rows = ListByInstance])
    /\ UNCHANGED <<instanceVars, people, submission, publicVars,
                   announced, crashes>>

(* The plugin proposes nothing when nobody submitted. *)
Slates(rows) == IF rows = {} THEN {{}} ELSE SUBSET Candidates

(* Mutant: scene_results lost its unique key. *)
ConflictsOnKeysOnly(slate) == slate \cap Existing # {}

(* Unique keys of scene_candidates and scene_results *)
Conflicts(slate) == results # {} \/ slate \cap Existing # {}

(* build_ranked_result selects the best candidate that passed the hard gate *)
Selections(passed) == IF passed = {} THEN {None} ELSE passed

(* Mutant: candidates of an earlier generation are eliminated. *)
ReplaceCandidates(slate, passed, selected) ==
    candidate' = [c \in Candidates |->
                    IF c = selected THEN "SELECTED"
                    ELSE IF c \in passed THEN "ACTIVE"
                    ELSE IF c \in slate \cup Existing THEN "ELIMINATED"
                    ELSE "absent"]

AddCandidates(slate, passed, selected) ==
    candidate' = [c \in Candidates |->
                    IF c = selected THEN "SELECTED"
                    ELSE IF c \in passed THEN "ACTIVE"
                    ELSE IF c \in slate THEN "ELIMINATED"
                    ELSE candidate[c]]

WriteGeneration(w) ==
    /\ At(w, "generating")
    /\ \E slate \in Slates(worker[w].rows) :
       \E passed \in SUBSET slate : \E sel \in Selections(passed) :
          /\ ~ Conflicts(slate)
          /\ AddCandidates(slate, passed, sel)
          /\ results' = results \cup {[selected |-> sel,
                                       evaluated |-> worker[w].rows,
                                       counted |-> CountByInstance]}
    /\ Become(w, [Idle EXCEPT !.pc = "cleanup"])
    /\ UNCHANGED <<instanceVars, people, submission, vote,
                   announced, crashes>>

(* A unique key is violated: the flush rolls the transaction back, the     *)
(* handler's own writes fail on the broken session, and the request ends.  *)
GenerationConflict(w) ==
    /\ At(w, "generating")
    /\ \E slate \in Slates(worker[w].rows) : Conflicts(slate)
    /\ Become(w, Idle)
    /\ UNCHANGED <<instanceVars, people, submission, publicVars,
                   announced, crashes>>

(* The plugin raises: FAILED is written without a version check, together  *)
(* with any candidates already flushed.  No event is published.            *)
FailGeneration(w) ==
    /\ At(w, "generating")
    /\ ~ Locked
    /\ \E slate \in Slates(worker[w].rows) : \E passed \in SUBSET slate :
          /\ slate \cap Existing = {}
          /\ AddCandidates(slate, passed, None)
    /\ status' = "FAILED"
    /\ version' = worker[w].version + 1
    /\ stamped' = stamped \cup {"FAILED"}
    /\ Become(w, [Idle EXCEPT !.pc = "cleanupFailed"])
    /\ UNCHANGED <<overdue, people, submission, results, vote,
                   announced, crashes>>

(* Mutant: expired rows are left to the background job. *)
CleanupUnexpired(w) ==
    /\ worker[w].pc \in {"cleanup", "cleanupFailed"}
    /\ submission' = [u \in Users |-> IF submission[u] = "live" THEN "purged"
                                      ELSE submission[u]]
    /\ Become(w, IF At(w, "cleanup") THEN [Idle EXCEPT !.pc = "openVoting"]
                                     ELSE Idle)
    /\ UNCHANGED <<instanceVars, people, publicVars, announced, crashes>>

(* Mutant: the request ends here and nobody opens the vote. *)
CleanupEndsRequest(w) ==
    /\ worker[w].pc \in {"cleanup", "cleanupFailed"}
    /\ submission' = [u \in Users |-> IF SubmissionOf(u) THEN "purged"
                                      ELSE submission[u]]
    /\ Become(w, Idle)
    /\ UNCHANGED <<instanceVars, people, publicVars, announced, crashes>>

(* cleanup_private_data, after a generation or its failure *)
Cleanup(w) ==
    /\ worker[w].pc \in {"cleanup", "cleanupFailed"}
    /\ submission' = [u \in Users |-> IF SubmissionOf(u) THEN "purged"
                                      ELSE submission[u]]
    /\ Become(w, IF At(w, "cleanup") THEN [Idle EXCEPT !.pc = "openVoting"]
                                     ELSE Idle)
    /\ UNCHANGED <<instanceVars, people, publicVars, announced, crashes>>

(***************************************************************************)
(* Participants                                                            *)
(***************************************************************************)
ReadInvitation(w, u) ==
    /\ At(w, "idle")
    /\ participant[u] = "INVITED"
    /\ Become(w, [Idle EXCEPT !.pc = "accept", !.user = u])
    /\ UNCHANGED <<instanceVars, people, submission, publicVars,
                   announced, crashes>>

WriteAccept(w) ==
    /\ At(w, "accept")
    /\ participant' = [participant EXCEPT ![worker[w].user] = "ACCEPTED"]
    /\ joined' = joined \cup {worker[w].user}
    /\ Become(w, Idle)
    /\ UNCHANGED <<instanceVars, submission, publicVars, announced, crashes>>

SetParticipant(u, s) ==
    /\ \E w \in Workers : At(w, "idle")
    /\ participant[u] # "NONE"
    /\ participant' = [participant EXCEPT ![u] = s]
    /\ UNCHANGED <<instanceVars, joined, submission, publicVars, announced, worker,
                   crashes>>

Decline(u) == SetParticipant(u, "DECLINED")
Leave(u) == u # Creator /\ SetParticipant(u, "LEFT")

(***************************************************************************)
(* Private submissions                                                     *)
(***************************************************************************)
(* Mutant: anybody may submit. *)
ReadForSubmitUninvited(w, u) ==
    /\ At(w, "idle")
    /\ status = "COLLECTING_PRIVATE_INPUT"
    /\ Become(w, [Idle EXCEPT !.pc = "submit", !.user = u,
                              !.had = SubmissionOf(u)])
    /\ UNCHANGED <<instanceVars, people, submission, publicVars,
                   announced, crashes>>

ReadForSubmit(w, u) ==
    /\ At(w, "idle")
    /\ status = "COLLECTING_PRIVATE_INPUT"
    /\ participant[u] = "ACCEPTED"
    /\ Become(w, [Idle EXCEPT !.pc = "submit", !.user = u,
                              !.had = SubmissionOf(u)])
    /\ UNCHANGED <<instanceVars, people, submission, publicVars,
                   announced, crashes>>

(* Mutant: a replacement clears deleted_at in the database as well. *)
StoredRowUndeleted(had, row) ==
    IF had \/ row = "none" THEN "live" ELSE row

(* A replacement does not write deleted_at, which was null when the row    *)
(* was read; a first submission is refused if the user has a row already,  *)
(* deleted or not.                                                         *)
StoredRow(had, row) ==
    IF had THEN IF row \in {"softDeleted", "purged"} THEN "softDeleted" ELSE "live"
    ELSE IF row = "none" THEN "live" ELSE row

WriteSubmit(w) ==
    /\ At(w, "submit")
    /\ submission' = [submission EXCEPT ![worker[w].user] =
                                          StoredRow(worker[w].had, @)]
    /\ Become(w, Idle)
    /\ UNCHANGED <<instanceVars, people, publicVars, announced, crashes>>

DeleteSubmission(u) ==
    /\ \E w \in Workers : At(w, "idle")
    /\ SubmissionOf(u)
    /\ submission' = [submission EXCEPT ![u] = "softDeleted"]
    /\ UNCHANGED <<instanceVars, people, publicVars, announced, worker,
                   crashes>>

(***************************************************************************)
(* Votes                                                                   *)
(***************************************************************************)
(* Mutant: the phase of the scene is not checked. *)
ReadForVoteAnyPhase(w, u, c) ==
    /\ At(w, "idle")
    /\ participant[u] = "ACCEPTED"
    /\ c \in Existing
    /\ Become(w, [Idle EXCEPT !.pc = "vote", !.user = u, !.cand = c,
                              !.had = (vote[u] # None)])
    /\ UNCHANGED <<instanceVars, people, submission, publicVars,
                   announced, crashes>>

(* Mutant: the candidate need not belong to the scene. *)
ReadForVoteAnyCandidate(w, u, c) ==
    /\ At(w, "idle")
    /\ status = "VOTING"
    /\ participant[u] = "ACCEPTED"
    /\ Become(w, [Idle EXCEPT !.pc = "vote", !.user = u, !.cand = c,
                              !.had = (vote[u] # None)])
    /\ UNCHANGED <<instanceVars, people, submission, publicVars,
                   announced, crashes>>

ReadForVote(w, u, c) ==
    /\ At(w, "idle")
    /\ status = "VOTING"
    /\ participant[u] = "ACCEPTED"
    /\ c \in Existing
    /\ Become(w, [Idle EXCEPT !.pc = "vote", !.user = u, !.cand = c,
                              !.had = (vote[u] # None)])
    /\ UNCHANGED <<instanceVars, people, submission, publicVars,
                   announced, crashes>>

(* One row per user: a second first vote is refused by the unique key. *)
WriteVote(w) ==
    /\ At(w, "vote")
    /\ LET u == worker[w].user
       IN  vote' = IF worker[w].had \/ vote[u] = None
                   THEN [vote EXCEPT ![u] = worker[w].cand]
                   ELSE vote
    /\ Become(w, Idle)
    /\ UNCHANGED <<instanceVars, people, submission, candidate, results,
                   announced, crashes>>

(***************************************************************************)
(* Background jobs: expire_stale_instances, cleanup_expired_submissions    *)
(***************************************************************************)
ReadExpired(w) ==
    /\ At(w, "idle")
    /\ overdue /\ status \notin TerminalStates
    /\ Become(w, [Idle EXCEPT !.pc = "expire", !.version = version])
    /\ UNCHANGED <<instanceVars, people, submission, publicVars,
                   announced, crashes>>

(* The only compare on the version.  The row is updated, not committed, and *)
(* the event goes out whatever the compare said.                            *)
ExpireAndPublish(w) ==
    /\ At(w, "expire")
    /\ ~ Locked
    /\ announced' = announced \cup {"EXPIRED"}
    /\ Become(w, [Idle EXCEPT !.pc = "expiring", !.version = worker[w].version,
                              !.had = (version = worker[w].version)])
    /\ UNCHANGED <<instanceVars, people, submission, publicVars, crashes>>

CommitExpired(w) ==
    /\ At(w, "expiring")
    /\ IF worker[w].had
       THEN status' = "EXPIRED" /\ version' = worker[w].version + 1
       ELSE UNCHANGED <<status, version>>
    /\ Become(w, Idle)
    /\ UNCHANGED <<stamped, overdue, people, submission, publicVars, announced, crashes>>

ReadStaleRows(w) ==
    /\ At(w, "idle")
    /\ \E u \in Users : submission[u] = "stale"
    /\ Become(w, [Idle EXCEPT !.pc = "purge",
                              !.rows = {u \in Users : submission[u] = "stale"}])
    /\ UNCHANGED <<instanceVars, people, submission, publicVars,
                   announced, crashes>>

PurgeStaleRows(w) ==
    /\ At(w, "purge")
    /\ submission' = [u \in Users |-> IF u \in worker[w].rows THEN "purged"
                                      ELSE submission[u]]
    /\ Become(w, Idle)
    /\ UNCHANGED <<instanceVars, people, publicVars, announced, crashes>>

(***************************************************************************)
(* Time passes; a request dies between two of its steps.                   *)
(***************************************************************************)
InstanceExpires ==
    /\ ~ overdue
    /\ overdue' = TRUE
    /\ UNCHANGED <<status, version, stamped, people, submission,
                   publicVars, announced, worker, crashes>>

SubmissionExpires(u) ==
    /\ submission[u] = "live"
    /\ submission' = [submission EXCEPT ![u] = "stale"]
    /\ UNCHANGED <<instanceVars, people, publicVars, announced, worker,
                   crashes>>

Crash(w) ==
    /\ ~ At(w, "idle") /\ crashes < MaxCrashes
    /\ Become(w, Idle)
    /\ crashes' = crashes + 1
    /\ UNCHANGED <<instanceVars, people, submission, publicVars,
                   announced>>

(* The steps a worker takes on its own once it has accepted a request *)
WorkerStep(w) ==
    \/ WriteTransition(w) \/ Announce(w) \/ ReadCandidatesReady(w)
    \/ Generate(w) \/ WriteGeneration(w) \/ GenerationConflict(w)
    \/ FailGeneration(w) \/ Cleanup(w)
    \/ WriteAccept(w) \/ WriteSubmit(w) \/ WriteVote(w)
    \/ ExpireAndPublish(w) \/ CommitExpired(w) \/ PurgeStaleRows(w)

Request(w) ==
    \/ ReadTransition(w) \/ ReadProcess(w)
    \/ \E u \in Users : ReadInvitation(w, u) \/ ReadForSubmit(w, u)
    \/ \E u \in Users, c \in Candidates : ReadForVote(w, u, c)
    \/ ReadExpired(w) \/ ReadStaleRows(w)

Next ==
    \/ \E w \in Workers : WorkerStep(w) \/ Request(w) \/ Crash(w)
    \/ \E u \in Users : Decline(u) \/ Leave(u) \/ DeleteSubmission(u)
                        \/ SubmissionExpires(u)
    \/ InstanceExpires

Spec == Init /\ [][Next]_vars

(* The server keeps executing the requests it has accepted. *)
FairSpec == Spec /\ \A w \in Workers : WF_vars(WorkerStep(w))

-----------------------------------------------------------------------------
(***************************************************************************)
(* Properties                                                              *)
(***************************************************************************)

(* Every column and every worker's snapshot holds a value of its type. *)
TypeOK ==
    /\ status \in SceneState
    /\ version \in Nat
    /\ stamped \in SUBSET Stamps
    /\ overdue \in BOOLEAN
    /\ participant \in [Users -> ParticipantStatus]
    /\ joined \in SUBSET Users
    /\ submission \in [Users -> SubmissionRow]
    /\ candidate \in [Candidates -> CandidateStatus]
    /\ results \in SUBSET ResultRow
    /\ vote \in [Users -> Candidates \cup {None}]
    /\ announced \in SUBSET TerminalStates
    /\ worker \in [Workers -> WorkerState]
    /\ crashes \in Nat

(* The protocol that the instance, its candidates, its result and its      *)
(* votes carry out when requests are served one after another.             *)
Protocol == INSTANCE SceneProtocol WITH
                phase <- status,
                slate <- Existing,
                verdict <- {r.selected : r \in results},
                ballot <- vote

ImplementsProtocol == Protocol!Spec

(* Once a scene has its result and no request is under way, no submission  *)
(* that the owner did not delete still holds its payload: whatever stage   *)
(* the scene reached since, run_generation_phase purged them all.          *)
PrivateDataGone ==
    (results # {} /\ AllIdle /\ crashes = 0) => ListByInstance = {}

(* Events tell of outcomes that came true; that of the expiry job, which   *)
(* goes out before the commit, may be ahead of it, and stays without it    *)
(* only after a crash.  And every outcome but a failed generation has its  *)
(* event, once its request is done, unless a crash came between.           *)
EventsTruthful ==
    /\ announced \ {"EXPIRED"} \subseteq {status}
    /\ "EXPIRED" \in announced => \/ status = "EXPIRED"
                                  \/ \E w \in Workers : At(w, "expiring")
                                  \/ crashes > 0
    /\ AllIdle /\ crashes = 0 /\ status \in TerminalStates \ {"FAILED"}
          => status \in announced

(* With requests in turn the outcome columns and the published events tell *)
(* the same story as the status: no outcome is stamped that did not come   *)
(* true, and none comes true without its stamp, whatever a crash cut off.  *)
(* participant_count and submitted_count of the result, read by two        *)
(* queries at two moments of run_generation_phase, count the same people.  *)
OutcomeConsistent ==
    /\ stamped = {status} \cap Stamps
    /\ EventsTruthful
    /\ \A r \in results : r.evaluated = r.counted

(* POST /process does not leave the scene in GENERATING_CANDIDATES: if its *)
(* request survives, voting opens or the scene has failed.                 *)
ProcessSettles ==
    \A w \in Workers :
        At(w, "generate") ~> (crashes > 0 \/ (/\ At(w, "idle")
                                             /\ status \in {"VOTING", "FAILED"}))

(* However many generations race, there is at most one result, and the     *)
(* candidate it selects is the one candidate marked SELECTED.              *)
OneSelection ==
    \A r \in results :
        /\ results = {r}
        /\ {c \in Candidates : candidate[c] = "SELECTED"} = {r.selected} \ {None}

(* The votes counted are votes of people who once accepted the invitation  *)
(* (or created the scene), for candidates that exist, even if status,      *)
(* candidates or participation changed between the check and the commit of *)
(* the vote.  Somebody who declined without having accepted has no         *)
(* joined_at.                                                              *)
VotesOnCandidates ==
    \A u \in Users : vote[u] # None => vote[u] \in Existing /\ u \in joined

(* The server holds private data only of people who once accepted (or      *)
(* created the scene), not of those who declined right away.               *)
ConsentBeforeData ==
    \A u \in Users : submission[u] # "none" => u \in joined

(* A published result and the standing of the candidates it ranked are     *)
(* never rewritten, by a second generation or a failing one.               *)
ResultWrittenOnce ==
    [][results # {} => /\ results' = results
                       /\ \A c \in Existing : candidate'[c] = candidate[c]]_vars

(* A submission that was deleted or purged never becomes visible to the    *)
(* generation again, not by a replacement that read the row before.        *)
NoResurrection ==
    [][\A u \in Users : submission[u] \in {"softDeleted", "purged"} =>
           submission'[u] \in {"softDeleted", "purged"}]_vars
=============================================================================
