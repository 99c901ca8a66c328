----------------------- MODULE SceneLifecycle_proofs -----------------------
(***************************************************************************)
(* What holds of a scene for any number of users, candidates and           *)
(* concurrent requests: the types, the consistency of the result, of the   *)
(* votes and of the private submissions, and two facts about every step;   *)
(* and then what holds when requests are served one after another.         *)
(***************************************************************************)
EXTENDS SceneLifecycle, TLAPS

USE CreatorAssumption, NoneAssumption

-----------------------------------------------------------------------------
(* Types *)

(* A legal transition leads to a state of the table. *)
LEMMA TargetsAreStates ==
    ASSUME NEW s, NEW a, NEW t \in Targets(s, a)
    PROVE  t \in SceneState
BY DEF Targets

(* What an idle worker remembers is well typed. *)
LEMMA IdleType == Idle \in WorkerState
BY DEF Idle, WorkerState, PC, SceneState, ActiveStates

(* Every step keeps every column and snapshot in its type. *)
LEMMA TypeStep == TypeOK /\ [Next]_vars => TypeOK'
<1> SUFFICES ASSUME TypeOK, [Next]_vars PROVE TypeOK'
    OBVIOUS
<1> USE IdleType DEF TypeOK, people, instanceVars, publicVars, Become, At
<1>1. ASSUME NEW w \in Workers, ReadTransition(w) PROVE TypeOK'
  <2>1. PICK a \in SceneActions : \E t \in Targets(status, a) :
           Become(w, [Idle EXCEPT !.pc = "transition", !.target = t,
                                  !.version = version])
        BY <1>1 DEF ReadTransition
  <2>2. PICK t \in Targets(status, a) :
           Become(w, [Idle EXCEPT !.pc = "transition", !.target = t,
                                  !.version = version])
        BY <2>1
  <2>3. t \in SceneState BY TargetsAreStates
  <2> QED BY <1>1, <2>2, <2>3 DEF ReadTransition, WorkerState, PC
<1>2. ASSUME NEW w \in Workers, ReadProcess(w) PROVE TypeOK'
  <2>1. PICK t \in Targets(status, "start_processing") :
           Become(w, [Idle EXCEPT !.pc = "startProcessing", !.target = t,
                                  !.version = version])
        BY <1>2 DEF ReadProcess
  <2>2. t \in SceneState BY TargetsAreStates
  <2> QED BY <1>2, <2>1, <2>2 DEF ReadProcess, WorkerState, PC
<1>3. ASSUME NEW w \in Workers, ReadCandidatesReady(w) PROVE TypeOK'
  <2>1. CASE Targets(status, "candidates_ready") = {}
        BY <1>3, <2>1 DEF ReadCandidatesReady
  <2>2. CASE Targets(status, "candidates_ready") # {}
    <3>1. PICK t \in Targets(status, "candidates_ready") :
             Become(w, [Idle EXCEPT !.pc = "candidatesReady", !.target = t,
                                    !.version = version])
          BY <1>3, <2>2 DEF ReadCandidatesReady
    <3>2. t \in SceneState BY TargetsAreStates
    <3> QED BY <1>3, <3>1, <3>2 DEF ReadCandidatesReady, WorkerState, PC
  <2> QED BY <2>1, <2>2
<1>4. ASSUME NEW w \in Workers, WriteTransition(w) PROVE TypeOK'
  <2>1. /\ worker[w].target \in SceneState
        /\ worker[w].version \in Nat
        BY DEF WorkerState
  <2>2. [Idle EXCEPT !.pc = "generate"] \in WorkerState
        BY DEF WorkerState, PC
  <2>3. [Idle EXCEPT !.pc = "announce", !.target = worker[w].target] \in WorkerState
        BY <2>1 DEF WorkerState, PC
  <2> QED BY <1>4, <2>1, <2>2, <2>3 DEF WriteTransition, SaveTransition
<1>5. ASSUME NEW w \in Workers, Generate(w) PROVE TypeOK'
  <2>1. ListByInstance \in SUBSET Users
        BY DEF ListByInstance
  <2>2. [Idle EXCEPT !.pc = "generating", !.version = version,
                     !.rows = ListByInstance] \in WorkerState
        BY <2>1 DEF WorkerState, PC
  <2> QED BY <1>5, <2>2 DEF Generate
<1>6. ASSUME NEW w \in Workers, WriteGeneration(w) PROVE TypeOK'
  <2>1. PICK slate \in Slates(worker[w].rows) :
           \E passed \in SUBSET slate : \E sel \in Selections(passed) :
           /\ AddCandidates(slate, passed, sel)
           /\ results' = results \cup {[selected |-> sel,
                                        evaluated |-> worker[w].rows,
                                        counted |-> CountByInstance]}
        BY <1>6 DEF WriteGeneration
  <2>a. PICK passed \in SUBSET slate : \E sel \in Selections(passed) :
           /\ AddCandidates(slate, passed, sel)
           /\ results' = results \cup {[selected |-> sel,
                                        evaluated |-> worker[w].rows,
                                        counted |-> CountByInstance]}
        BY <2>1
  <2>b. PICK sel \in Selections(passed) :
           /\ AddCandidates(slate, passed, sel)
           /\ results' = results \cup {[selected |-> sel,
                                        evaluated |-> worker[w].rows,
                                        counted |-> CountByInstance]}
        BY <2>a
  <2>2. sel \in Candidates \cup {None} /\ worker[w].rows \in SUBSET Users
        BY DEF Slates, Selections, WorkerState
  <2>3. results' \in SUBSET ResultRow
        BY <2>b, <2>2 DEF ResultRow, CountByInstance
  <2>4. candidate' \in [Candidates -> CandidateStatus]
        BY <2>b DEF AddCandidates, CandidateStatus
  <2>5. worker' \in [Workers -> WorkerState]
        BY <1>6 DEF WriteGeneration, WorkerState, PC
  <2> QED BY <1>6, <2>3, <2>4, <2>5 DEF WriteGeneration
<1>7. ASSUME NEW w \in Workers, GenerationConflict(w) PROVE TypeOK'
  BY <1>7 DEF GenerationConflict
<1>8. ASSUME NEW w \in Workers, FailGeneration(w) PROVE TypeOK'
  <2>1. candidate' \in [Candidates -> CandidateStatus]
        BY <1>8 DEF FailGeneration, AddCandidates, CandidateStatus
  <2>2. version' \in Nat
        BY <1>8 DEF FailGeneration, WorkerState
  <2>3. worker' \in [Workers -> WorkerState]
        BY <1>8 DEF FailGeneration, WorkerState, PC
  <2> QED BY <1>8, <2>1, <2>2, <2>3
          DEF FailGeneration, SceneState, TerminalStates, Stamps
<1>9. ASSUME NEW w \in Workers, Cleanup(w) PROVE TypeOK'
  <2>1. submission' \in [Users -> SubmissionRow]
        BY <1>9 DEF Cleanup, SubmissionRow
  <2>2. worker' \in [Workers -> WorkerState]
        BY <1>9 DEF Cleanup, WorkerState, PC
  <2> QED BY <1>9, <2>1, <2>2 DEF Cleanup
<1>10. ASSUME NEW w \in Workers, WriteAccept(w) PROVE TypeOK'
  BY <1>10 DEF WriteAccept, ParticipantStatus, WorkerState
<1>11. ASSUME NEW w \in Workers, WriteSubmit(w) PROVE TypeOK'
  BY <1>11 DEF WriteSubmit, StoredRow, SubmissionRow
<1>12. ASSUME NEW w \in Workers, WriteVote(w) PROVE TypeOK'
  BY <1>12 DEF WriteVote, WorkerState
<1>13. ASSUME NEW w \in Workers, ExpireAndPublish(w) \/ CommitExpired(w) \/ Announce(w)
       PROVE TypeOK'
  <2>1. CASE ExpireAndPublish(w)
    <3>1. worker[w].version \in Nat /\ (version = worker[w].version) \in BOOLEAN
          BY DEF WorkerState
    <3>2. [Idle EXCEPT !.pc = "expiring", !.version = worker[w].version,
                       !.had = (version = worker[w].version)] \in WorkerState
          BY <3>1 DEF WorkerState, PC
    <3> QED BY <2>1, <3>2 DEF ExpireAndPublish, TerminalStates
  <2>2. CASE CommitExpired(w)
        BY <2>2 DEF CommitExpired, SceneState, TerminalStates, WorkerState
  <2>3. CASE Announce(w)
    <3>1. announced' \subseteq TerminalStates
          BY <2>3 DEF Announce
    <3> QED BY <2>3, <3>1 DEF Announce
  <2> QED BY <1>13, <2>1, <2>2, <2>3
<1>14. ASSUME NEW w \in Workers, PurgeStaleRows(w) PROVE TypeOK'
  BY <1>14 DEF PurgeStaleRows, SubmissionRow
<1>15. ASSUME NEW w \in Workers, NEW u \in Users, ReadInvitation(w, u)
       PROVE TypeOK'
  BY <1>15 DEF ReadInvitation, WorkerState, PC
<1>16. ASSUME NEW w \in Workers, NEW u \in Users, ReadForSubmit(w, u)
       PROVE TypeOK'
  <2>1. SubmissionOf(u) \in BOOLEAN
        BY DEF SubmissionOf
  <2>2. [Idle EXCEPT !.pc = "submit", !.user = u, !.had = SubmissionOf(u)]
           \in WorkerState
        BY <2>1 DEF WorkerState, PC
  <2> QED BY <1>16, <2>2 DEF ReadForSubmit
<1>17. ASSUME NEW w \in Workers, NEW u \in Users, NEW c \in Candidates,
              ReadForVote(w, u, c)
       PROVE TypeOK'
  BY <1>17 DEF ReadForVote, WorkerState, PC
<1>18. ASSUME NEW w \in Workers, ReadExpired(w) PROVE TypeOK'
  BY <1>18 DEF ReadExpired, WorkerState, PC
<1>19. ASSUME NEW w \in Workers, ReadStaleRows(w) PROVE TypeOK'
  BY <1>19 DEF ReadStaleRows, WorkerState, PC
<1>20. ASSUME NEW w \in Workers, Crash(w) PROVE TypeOK'
  BY <1>20 DEF Crash
<1>21. ASSUME NEW u \in Users,
              Decline(u) \/ Leave(u) \/ DeleteSubmission(u) \/ SubmissionExpires(u)
       PROVE TypeOK'
  BY <1>21 DEF Decline, Leave, SetParticipant, DeleteSubmission,
               SubmissionExpires, ParticipantStatus, SubmissionRow
<1>22. CASE InstanceExpires
  BY <1>22 DEF InstanceExpires
<1>23. CASE UNCHANGED vars
  BY <1>23 DEF vars
<1> QED
  BY <1>1, <1>2, <1>3, <1>4, <1>5, <1>6, <1>7, <1>8, <1>9, <1>10, <1>11,
     <1>12, <1>13, <1>14, <1>15, <1>16, <1>17, <1>18, <1>19, <1>20, <1>21,
     <1>22, <1>23
  DEF Next, WorkerStep, Request

(* A fresh scene is well typed. *)
LEMMA InitType == Init => TypeOK
<1> SUFFICES ASSUME Init PROVE TypeOK
    OBVIOUS
<1>1. participant \in [Users -> ParticipantStatus]
      BY DEF Init, ParticipantStatus
<1>2. worker \in [Workers -> WorkerState]
      BY IdleType DEF Init
<1> QED BY <1>1, <1>2 DEF Init, TypeOK, SceneState, ActiveStates,
                          SubmissionRow, CandidateStatus

(* The rows and the sessions are always well typed. *)
THEOREM TypeCorrect == Spec => []TypeOK
BY InitType, TypeStep, PTL DEF Spec

-----------------------------------------------------------------------------
(* Facts about a single step                                               *)

(* The user has answered an invitation with a yes, at some time, or is the *)
(* creator.                                                                *)
Consented(u) == u \in joined

(* A candidate, once there, stays; a submission row, once there, stays.    *)
LEMMA RowsStay ==
    ASSUME TypeOK, [Next]_vars
    PROVE  /\ \A c \in Candidates : candidate[c] # "absent" => candidate'[c] # "absent"
           /\ \A u \in Users : submission[u] # "none" => submission'[u] # "none"
<1> USE DEF people, instanceVars, publicVars
<1>1. ASSUME NEW w \in Workers, WriteGeneration(w) PROVE
           \A c \in Candidates : candidate[c] # "absent" => candidate'[c] # "absent"
      BY <1>1 DEF WriteGeneration, AddCandidates
<1>2. ASSUME NEW w \in Workers, FailGeneration(w) PROVE
           \A c \in Candidates : candidate[c] # "absent" => candidate'[c] # "absent"
      BY <1>2 DEF FailGeneration, AddCandidates
<1>3. ASSUME NEW w \in Workers, Cleanup(w) \/ PurgeStaleRows(w) PROVE
           \A u \in Users : submission[u] # "none" => submission'[u] # "none"
      BY <1>3 DEF Cleanup, PurgeStaleRows
<1>4. ASSUME NEW w \in Workers, WriteSubmit(w) PROVE
           \A u \in Users : submission[u] # "none" => submission'[u] # "none"
      BY <1>4 DEF WriteSubmit, StoredRow, TypeOK
<1>5. ASSUME NEW v \in Users, DeleteSubmission(v) \/ SubmissionExpires(v) PROVE
           \A u \in Users : submission[u] # "none" => submission'[u] # "none"
      BY <1>5 DEF DeleteSubmission, SubmissionExpires, TypeOK
<1>6. ASSUME NEW w \in Workers,
             WriteGeneration(w) \/ FailGeneration(w)
      PROVE  submission' = submission
      BY <1>6 DEF WriteGeneration, FailGeneration
<1>7. ASSUME NEW w \in Workers, Cleanup(w) \/ PurgeStaleRows(w) \/ WriteSubmit(w)
      PROVE  candidate' = candidate
      BY <1>7 DEF Cleanup, PurgeStaleRows, WriteSubmit
<1>8. ASSUME NEW w \in Workers,
             \/ WriteTransition(w) \/ ReadCandidatesReady(w) \/ Generate(w)
             \/ GenerationConflict(w) \/ WriteAccept(w) \/ WriteVote(w)
             \/ ExpireAndPublish(w) \/ CommitExpired(w) \/ Announce(w) \/ Request(w) \/ Crash(w)
      PROVE  candidate' = candidate /\ submission' = submission
      BY <1>8 DEF WriteTransition, ReadCandidatesReady, Generate,
           GenerationConflict, WriteAccept, WriteVote, ExpireAndPublish, CommitExpired, Announce, Request,
           ReadTransition, ReadProcess, ReadInvitation, ReadForSubmit,
           ReadForVote, ReadExpired, ReadStaleRows, Crash
<1>9. ASSUME NEW v \in Users,
             Decline(v) \/ Leave(v) \/ DeleteSubmission(v) \/ SubmissionExpires(v)
      PROVE  /\ candidate' = candidate
             /\ Decline(v) \/ Leave(v) => submission' = submission
      BY <1>9 DEF Decline, Leave, SetParticipant, DeleteSubmission, SubmissionExpires
<1>10. InstanceExpires \/ UNCHANGED vars
          => candidate' = candidate /\ submission' = submission
      BY DEF InstanceExpires, vars
<1> QED BY <1>1, <1>2, <1>3, <1>4, <1>5, <1>6, <1>7, <1>8, <1>9, <1>10
        DEF Next, WorkerStep

(* Nothing clears joined_at.                                               *)
LEMMA ConsentStays ==
    ASSUME TypeOK, [Next]_vars, NEW u \in Users, Consented(u)
    PROVE  Consented(u)'
<1> USE DEF people, instanceVars, publicVars, Consented
<1>1. ASSUME NEW w \in Workers, WriteAccept(w) PROVE Consented(u)'
      BY <1>1 DEF WriteAccept
<1>2. ASSUME NEW v \in Users, Decline(v) \/ Leave(v) PROVE Consented(u)'
      BY <1>2 DEF Decline, Leave, SetParticipant
<1>3. ASSUME NEW w \in Workers,
             \/ WriteTransition(w) \/ ReadCandidatesReady(w) \/ Generate(w)
             \/ WriteGeneration(w) \/ GenerationConflict(w) \/ FailGeneration(w)
             \/ Cleanup(w) \/ WriteSubmit(w) \/ WriteVote(w) \/ ExpireAndPublish(w) \/ CommitExpired(w) \/ Announce(w)
             \/ PurgeStaleRows(w) \/ Request(w) \/ Crash(w)
      PROVE  joined' = joined
      BY <1>3 DEF WriteTransition, ReadCandidatesReady, Generate,
           WriteGeneration, GenerationConflict, FailGeneration, Cleanup,
           WriteSubmit, WriteVote, ExpireAndPublish, CommitExpired, Announce, PurgeStaleRows, Request,
           ReadTransition, ReadProcess, ReadInvitation, ReadForSubmit,
           ReadForVote, ReadExpired, ReadStaleRows, Crash
<1>4. ASSUME NEW v \in Users, DeleteSubmission(v) \/ SubmissionExpires(v)
      PROVE  joined' = joined
      BY <1>4 DEF DeleteSubmission, SubmissionExpires
<1>5. InstanceExpires \/ UNCHANGED vars => joined' = joined
      BY DEF InstanceExpires, vars
<1> QED BY <1>1, <1>2, <1>3, <1>4, <1>5 DEF Next, WorkerStep

(* A worker about to write a vote, a submission or a purge either was so   *)
(* before the step, with the same snapshot, or has just read it.           *)
LEMMA Snapshots ==
    ASSUME TypeOK, [Next]_vars, NEW v \in Workers,
           worker'[v].pc \in {"vote", "submit", "purge"}
    PROVE  \/ worker'[v] = worker[v]
           \/ \E u \in Users, c \in Candidates : ReadForVote(v, u, c)
           \/ \E u \in Users : ReadForSubmit(v, u)
           \/ ReadStaleRows(v)
<1> USE DEF TypeOK, Become
<1>1. ASSUME NEW w \in Workers, WorkerStep(w)
      PROVE  worker'[v] = worker[v]
  <2> USE DEF Idle
  <2>1. CASE WriteTransition(w) BY <2>1 DEF WriteTransition
  <2>2. CASE ReadCandidatesReady(w)
    <3>1. CASE Become(w, Idle) BY <3>1
    <3>2. CASE \E t \in Targets(status, "candidates_ready") :
                  Become(w, [Idle EXCEPT !.pc = "candidatesReady",
                                         !.target = t, !.version = version])
          BY <3>2
    <3> QED BY <2>2, <3>1, <3>2 DEF ReadCandidatesReady
  <2>3. CASE Generate(w)
    <3>1. CASE Become(w, Idle) BY <3>1
    <3>2. CASE Become(w, [Idle EXCEPT !.pc = "generating", !.version = version,
                                      !.rows = ListByInstance])
          BY <3>2
    <3> QED BY <2>3, <3>1, <3>2 DEF Generate
  <2>4. CASE WriteGeneration(w) BY <2>4 DEF WriteGeneration
  <2>5. CASE FailGeneration(w) BY <2>5 DEF FailGeneration
  <2>6. CASE Cleanup(w) BY <2>6 DEF Cleanup
  <2>7. CASE \/ GenerationConflict(w) \/ WriteAccept(w) \/ WriteSubmit(w)
             \/ WriteVote(w) \/ PurgeStaleRows(w)
        BY <2>7 DEF GenerationConflict, WriteAccept, WriteSubmit, WriteVote, PurgeStaleRows
  <2>8. CASE ExpireAndPublish(w) BY <2>8 DEF ExpireAndPublish
  <2>9. CASE CommitExpired(w) \/ Announce(w) BY <2>9 DEF CommitExpired, Announce
  <2> QED BY <1>1, <2>1, <2>2, <2>3, <2>4, <2>5, <2>6, <2>7, <2>8, <2>9 DEF WorkerStep
<1>2. ASSUME NEW w \in Workers,
             \/ ReadTransition(w) \/ ReadProcess(w) \/ ReadExpired(w)
             \/ \E u \in Users : ReadInvitation(w, u)
             \/ Crash(w)
      PROVE  worker'[v] = worker[v]
  <2> USE DEF Idle
  <2>1. CASE ReadTransition(w) BY <2>1 DEF ReadTransition
  <2>2. CASE ReadProcess(w) BY <2>2 DEF ReadProcess
  <2>3. CASE ReadExpired(w) BY <2>3 DEF ReadExpired
  <2>4. CASE \E u \in Users : ReadInvitation(w, u) BY <2>4 DEF ReadInvitation
  <2>5. CASE Crash(w) BY <2>5 DEF Crash
  <2> QED BY <1>2, <2>1, <2>2, <2>3, <2>4, <2>5
<1>3. ASSUME NEW w \in Workers, w # v,
             \/ \E u \in Users, c \in Candidates : ReadForVote(w, u, c)
             \/ \E u \in Users : ReadForSubmit(w, u)
             \/ ReadStaleRows(w)
      PROVE  worker'[v] = worker[v]
      BY <1>3 DEF ReadForVote, ReadForSubmit, ReadStaleRows
<1>4. ASSUME NEW u \in Users,
             Decline(u) \/ Leave(u) \/ DeleteSubmission(u) \/ SubmissionExpires(u)
      PROVE  worker' = worker
      BY <1>4 DEF Decline, Leave, SetParticipant, DeleteSubmission, SubmissionExpires
<1>5. InstanceExpires \/ UNCHANGED vars => worker' = worker
      BY DEF InstanceExpires, vars
<1> QED BY <1>1, <1>2, <1>3, <1>4, <1>5 DEF Next, Request

-----------------------------------------------------------------------------
(* The inductive invariant: the three safety invariants, and what the      *)
(* snapshots of the workers must satisfy for the next commit to keep them. *)

SelectionInv ==
    /\ OneSelection
    /\ results = {} => \A c \in Candidates : candidate[c] # "SELECTED"

VoteInv ==
    /\ VotesOnCandidates
    /\ \A w \in Workers : At(w, "vote") =>
          worker[w].cand \in Existing /\ Consented(worker[w].user)

ConsentInv ==
    /\ ConsentBeforeData
    /\ \A u \in Users : participant[u] = "ACCEPTED" => Consented(u)
    /\ \A w \in Workers : At(w, "submit") => Consented(worker[w].user)
    /\ \A w \in Workers : At(w, "purge") =>
          \A u \in worker[w].rows : submission[u] # "none"

IInv == TypeOK /\ SelectionInv /\ VoteInv /\ ConsentInv

(* Only a generation writes results or marks a candidate.                  *)
LEMMA ResultsFrame ==
    ASSUME [Next]_vars
    PROVE  \/ UNCHANGED <<results, candidate>>
           \/ \E w \in Workers : WriteGeneration(w) \/ FailGeneration(w)
<1> USE DEF people, instanceVars, publicVars
<1>1. ASSUME NEW w \in Workers,
             \/ WriteTransition(w) \/ ReadCandidatesReady(w) \/ Generate(w)
             \/ GenerationConflict(w) \/ Cleanup(w) \/ WriteAccept(w)
             \/ WriteSubmit(w) \/ WriteVote(w) \/ ExpireAndPublish(w) \/ CommitExpired(w) \/ Announce(w)
             \/ PurgeStaleRows(w) \/ Request(w) \/ Crash(w)
      PROVE  UNCHANGED <<results, candidate>>
      BY <1>1 DEF WriteTransition, ReadCandidatesReady, Generate,
           GenerationConflict, Cleanup, WriteAccept, WriteSubmit, WriteVote,
           ExpireAndPublish, CommitExpired, Announce, PurgeStaleRows, Request, ReadTransition, ReadProcess,
           ReadInvitation, ReadForSubmit, ReadForVote, ReadExpired,
           ReadStaleRows, Crash
<1>2. ASSUME NEW u \in Users,
             Decline(u) \/ Leave(u) \/ DeleteSubmission(u) \/ SubmissionExpires(u)
      PROVE  UNCHANGED <<results, candidate>>
      BY <1>2 DEF Decline, Leave, SetParticipant, DeleteSubmission, SubmissionExpires
<1>3. InstanceExpires \/ UNCHANGED vars => UNCHANGED <<results, candidate>>
      BY DEF InstanceExpires, vars
<1> QED BY <1>1, <1>2, <1>3 DEF Next, WorkerStep

(* A generation commits only onto an empty result table and fresh keys.    *)
LEMMA SelectionStep ==
    ASSUME IInv, [Next]_vars
    PROVE  SelectionInv'
<1> USE DEF IInv, SelectionInv, OneSelection, TypeOK
<1>1. CASE UNCHANGED <<results, candidate>>
      BY <1>1
<1>2. ASSUME NEW w \in Workers, WriteGeneration(w) PROVE SelectionInv'
  <2>1. PICK slate \in Slates(worker[w].rows) :
           \E passed \in SUBSET slate : \E sel \in Selections(passed) :
             /\ ~ Conflicts(slate)
             /\ AddCandidates(slate, passed, sel)
             /\ results' = results \cup {[selected |-> sel,
                                          evaluated |-> worker[w].rows,
                                          counted |-> CountByInstance]}
        BY <1>2 DEF WriteGeneration
  <2>2. PICK passed \in SUBSET slate : \E sel \in Selections(passed) :
             /\ ~ Conflicts(slate)
             /\ AddCandidates(slate, passed, sel)
             /\ results' = results \cup {[selected |-> sel,
                                          evaluated |-> worker[w].rows,
                                          counted |-> CountByInstance]}
        BY <2>1
  <2>3. PICK sel \in Selections(passed) :
             /\ ~ Conflicts(slate)
             /\ AddCandidates(slate, passed, sel)
             /\ results' = results \cup {[selected |-> sel,
                                          evaluated |-> worker[w].rows,
                                          counted |-> CountByInstance]}
        BY <2>2
  <2> DEFINE row == [selected |-> sel, evaluated |-> worker[w].rows,
                     counted |-> CountByInstance]
  <2>4. results = {} /\ results' = {row}
        BY <2>3 DEF Conflicts
  <2>5. sel \in Candidates \cup {None}
        BY DEF Slates, Selections
  <2>6. \A c \in Candidates : candidate'[c] = "SELECTED" <=> c = sel
        BY <2>3, <2>4 DEF AddCandidates
  <2>7. {c \in Candidates : candidate'[c] = "SELECTED"} = {sel} \ {None}
        BY <2>5, <2>6
  <2>8. row.selected = sel
        OBVIOUS
  <2> HIDE DEF row
  <2> QED BY <2>4, <2>7, <2>8
<1>3. ASSUME NEW w \in Workers, FailGeneration(w) PROVE SelectionInv'
  <2>1. PICK slate \in Slates(worker[w].rows) : \E passed \in SUBSET slate :
             /\ slate \cap Existing = {}
             /\ AddCandidates(slate, passed, None)
        BY <1>3 DEF FailGeneration
  <2>2. PICK passed \in SUBSET slate :
             /\ slate \cap Existing = {}
             /\ AddCandidates(slate, passed, None)
        BY <2>1
  <2>3. \A c \in Candidates : candidate'[c] = "SELECTED" <=> candidate[c] = "SELECTED"
        BY <2>2 DEF AddCandidates, Existing
  <2>4. results' = results
        BY <1>3 DEF FailGeneration
  <2> QED BY <2>3, <2>4
<1> QED BY <1>1, <1>2, <1>3, ResultsFrame

(* Only WriteVote writes the table of votes.                               *)
LEMMA VotesFrame ==
    ASSUME [Next]_vars
    PROVE  vote' = vote \/ \E w \in Workers : WriteVote(w)
<1> USE DEF people, instanceVars, publicVars
<1>1. ASSUME NEW w \in Workers,
             \/ WriteTransition(w) \/ ReadCandidatesReady(w) \/ Generate(w)
             \/ WriteGeneration(w) \/ GenerationConflict(w) \/ FailGeneration(w)
             \/ Cleanup(w) \/ WriteAccept(w) \/ WriteSubmit(w) \/ ExpireAndPublish(w) \/ CommitExpired(w) \/ Announce(w)
             \/ PurgeStaleRows(w) \/ Request(w) \/ Crash(w)
      PROVE  vote' = vote
      BY <1>1 DEF WriteTransition, ReadCandidatesReady, Generate,
           WriteGeneration, GenerationConflict, FailGeneration, Cleanup,
           WriteAccept, WriteSubmit, ExpireAndPublish, CommitExpired, Announce, PurgeStaleRows, Request,
           ReadTransition, ReadProcess, ReadInvitation, ReadForSubmit,
           ReadForVote, ReadExpired, ReadStaleRows, Crash
<1>2. ASSUME NEW u \in Users,
             Decline(u) \/ Leave(u) \/ DeleteSubmission(u) \/ SubmissionExpires(u)
      PROVE  vote' = vote
      BY <1>2 DEF Decline, Leave, SetParticipant, DeleteSubmission, SubmissionExpires
<1>3. InstanceExpires \/ UNCHANGED vars => vote' = vote
      BY DEF InstanceExpires, vars
<1> QED BY <1>1, <1>2, <1>3 DEF Next, WorkerStep

(* A vote keeps what its check established until it is committed and after. *)
LEMMA VoteStep ==
    ASSUME IInv, [Next]_vars
    PROVE  VoteInv'
<1>1. \A c \in Existing : c \in Existing'
      BY RowsStay DEF Existing, IInv
<1>2. \A u \in Users : Consented(u) => Consented(u)'
      BY ConsentStays DEF IInv
<1>3. ASSUME NEW w \in Workers, At(w, "vote")'
      PROVE  (worker[w].cand \in Existing /\ Consented(worker[w].user))'
  <2>1. CASE worker'[w] = worker[w]
    <3>1. worker[w].user \in Users
          BY DEF IInv, TypeOK, WorkerState
    <3> QED BY <1>1, <1>2, <1>3, <2>1, <3>1 DEF IInv, VoteInv, At, Consented
  <2>2. ASSUME NEW u \in Users, NEW c \in Candidates, ReadForVote(w, u, c)
        PROVE  (worker[w].cand \in Existing /\ Consented(worker[w].user))'
    <3>1. worker'[w].cand = c /\ worker'[w].user = u
          BY <2>2 DEF ReadForVote, Become, Idle, IInv, TypeOK
    <3>2. c \in Existing /\ Consented(u)
          BY <2>2 DEF ReadForVote, IInv, ConsentInv
    <3> QED BY <1>1, <1>2, <3>1, <3>2 DEF Consented
  <2>3. ~ (\E u \in Users : ReadForSubmit(w, u)) /\ ~ ReadStaleRows(w)
        BY <1>3 DEF ReadForSubmit, ReadStaleRows, Become, Idle, At, IInv, TypeOK
  <2> QED BY <1>3, <2>1, <2>2, <2>3, Snapshots DEF At, IInv
<1>4. VotesOnCandidates'
  <2> SUFFICES ASSUME NEW u \in Users, vote'[u] # None
               PROVE  vote'[u] \in Existing' /\ Consented(u)'
      BY DEF VotesOnCandidates, Consented
  <2>1. CASE vote'[u] = vote[u]
        BY <2>1, <1>1, <1>2 DEF IInv, VoteInv, VotesOnCandidates, Consented
  <2>2. CASE vote'[u] # vote[u]
    <3>1. PICK w \in Workers : WriteVote(w)
          BY <2>2, VotesFrame
    <3>2. u = worker[w].user /\ vote'[u] = worker[w].cand /\ At(w, "vote")
          BY <2>2, <3>1 DEF WriteVote, IInv, TypeOK
    <3> QED BY <3>2, <1>1, <1>2 DEF IInv, VoteInv
  <2> QED BY <2>1, <2>2
<1> QED BY <1>3, <1>4 DEF VoteInv

(* A submission row appears only by WriteSubmit or is already there.       *)
LEMMA NewRows ==
    ASSUME TypeOK, ConsentInv, [Next]_vars, NEW u \in Users,
           submission[u] = "none", submission'[u] # "none"
    PROVE  Consented(u)
<1> USE DEF people, instanceVars, publicVars
<1>1. ASSUME NEW w \in Workers, WriteSubmit(w) PROVE Consented(u)
      BY <1>1 DEF WriteSubmit, TypeOK, ConsentInv
<1>2. ASSUME NEW w \in Workers, PurgeStaleRows(w) PROVE FALSE
      BY <1>2 DEF PurgeStaleRows, ConsentInv
<1>3. ASSUME NEW w \in Workers, Cleanup(w) PROVE FALSE
      BY <1>3 DEF Cleanup, SubmissionOf
<1>4. ASSUME NEW w \in Workers,
             \/ WriteTransition(w) \/ ReadCandidatesReady(w) \/ Generate(w)
             \/ WriteGeneration(w) \/ GenerationConflict(w) \/ FailGeneration(w)
             \/ WriteAccept(w) \/ WriteVote(w) \/ ExpireAndPublish(w) \/ CommitExpired(w) \/ Announce(w)
             \/ Request(w) \/ Crash(w)
      PROVE  FALSE
      BY <1>4 DEF WriteTransition, ReadCandidatesReady, Generate,
           WriteGeneration, GenerationConflict, FailGeneration,
           WriteAccept, WriteVote, ExpireAndPublish, CommitExpired, Announce, Request,
           ReadTransition, ReadProcess, ReadInvitation, ReadForSubmit,
           ReadForVote, ReadExpired, ReadStaleRows, Crash
<1>5. ASSUME NEW v \in Users,
             Decline(v) \/ Leave(v) \/ DeleteSubmission(v) \/ SubmissionExpires(v)
      PROVE  FALSE
      BY <1>5 DEF Decline, Leave, SetParticipant, DeleteSubmission,
                  SubmissionExpires, SubmissionOf, TypeOK
<1>6. ~ (InstanceExpires \/ UNCHANGED vars)
      BY DEF InstanceExpires, vars
<1> QED BY <1>1, <1>2, <1>3, <1>4, <1>5, <1>6 DEF Next, WorkerStep

(* Only WriteAccept makes somebody a participant, and it sets joined_at.   *)
LEMMA AcceptedConsent ==
    ASSUME TypeOK, [Next]_vars,
           \A u \in Users : participant[u] = "ACCEPTED" => Consented(u)
    PROVE  \A u \in Users : participant'[u] = "ACCEPTED" => Consented(u)'
<1> USE DEF people, instanceVars, publicVars
<1>1. ASSUME NEW w \in Workers, WriteAccept(w)
      PROVE  \A u \in Users : participant'[u] = "ACCEPTED" => Consented(u)'
      BY <1>1 DEF WriteAccept, TypeOK, Consented
<1>2. ASSUME NEW v \in Users, Decline(v) \/ Leave(v)
      PROVE  \A u \in Users : participant'[u] = "ACCEPTED" => Consented(u)'
      BY <1>2 DEF Decline, Leave, SetParticipant, TypeOK, Consented
<1>3. ASSUME NEW w \in Workers,
             \/ WriteTransition(w) \/ ReadCandidatesReady(w) \/ Generate(w)
             \/ WriteGeneration(w) \/ GenerationConflict(w) \/ FailGeneration(w)
             \/ Cleanup(w) \/ WriteSubmit(w) \/ WriteVote(w)
             \/ ExpireAndPublish(w) \/ CommitExpired(w) \/ Announce(w)
             \/ PurgeStaleRows(w) \/ Request(w) \/ Crash(w)
      PROVE  UNCHANGED <<participant, joined>>
      BY <1>3 DEF WriteTransition, ReadCandidatesReady, Generate,
           WriteGeneration, GenerationConflict, FailGeneration, Cleanup,
           WriteSubmit, WriteVote, ExpireAndPublish, CommitExpired, Announce,
           PurgeStaleRows, Request, ReadTransition, ReadProcess, ReadInvitation,
           ReadForSubmit, ReadForVote, ReadExpired, ReadStaleRows, Crash
<1>4. ASSUME NEW v \in Users, DeleteSubmission(v) \/ SubmissionExpires(v)
      PROVE  UNCHANGED <<participant, joined>>
      BY <1>4 DEF DeleteSubmission, SubmissionExpires
<1>5. InstanceExpires \/ UNCHANGED vars => UNCHANGED <<participant, joined>>
      BY DEF InstanceExpires, vars
<1> QED BY <1>1, <1>2, <1>3, <1>4, <1>5 DEF Next, WorkerStep, Consented

(* Consent precedes data, through a check and a later commit.              *)
LEMMA ConsentStep ==
    ASSUME IInv, [Next]_vars
    PROVE  ConsentInv'
<1>1. \A u \in Users : submission[u] # "none" => submission'[u] # "none"
      BY RowsStay DEF IInv
<1>2. \A u \in Users : Consented(u) => Consented(u)'
      BY ConsentStays DEF IInv
<1>3. ASSUME NEW u \in Users, submission'[u] # "none" PROVE Consented(u)'
  <2>1. CASE submission[u] # "none"
        BY <2>1, <1>2 DEF IInv, ConsentInv, ConsentBeforeData, Consented
  <2>2. CASE submission[u] = "none"
        BY <2>2, <1>2, <1>3, NewRows DEF IInv
  <2> QED BY <2>1, <2>2
<1>4. ASSUME NEW w \in Workers, At(w, "submit")' PROVE Consented(worker[w].user)'
  <2>1. CASE worker'[w] = worker[w]
    <3>1. worker[w].user \in Users
          BY DEF IInv, TypeOK, WorkerState
    <3> QED BY <1>2, <1>4, <2>1, <3>1 DEF IInv, ConsentInv, At, Consented
  <2>2. ASSUME NEW u \in Users, ReadForSubmit(w, u)
        PROVE  Consented(worker[w].user)'
    <3>1. worker'[w].user = u
          BY <2>2 DEF ReadForSubmit, Become, Idle, IInv, TypeOK
    <3>2. Consented(u)
          BY <2>2 DEF ReadForSubmit, IInv, ConsentInv
    <3> QED BY <1>2, <3>1, <3>2 DEF Consented
  <2>3. ~ ReadStaleRows(w)
        /\ ~ (\E u \in Users, c \in Candidates : ReadForVote(w, u, c))
        BY <1>4 DEF ReadForVote, ReadStaleRows, Become, Idle, At, IInv, TypeOK
  <2> QED BY <1>4, <2>1, <2>2, <2>3, Snapshots DEF At, IInv
<1>5. ASSUME NEW w \in Workers, At(w, "purge")',
             NEW u \in worker'[w].rows
      PROVE  submission'[u] # "none"
  <2>1. CASE worker'[w] = worker[w]
    <3>1. u \in Users
          BY <2>1, <1>5 DEF IInv, TypeOK, WorkerState
    <3> QED BY <1>1, <1>5, <2>1, <3>1 DEF IInv, ConsentInv, At
  <2>2. CASE ReadStaleRows(w)
    <3>1. u \in Users /\ submission[u] = "stale"
          BY <2>2, <1>5 DEF ReadStaleRows, Become, Idle, IInv, TypeOK
    <3> QED BY <1>1, <3>1
  <2>3. /\ ~ (\E v \in Users : ReadForSubmit(w, v))
        /\ ~ (\E v \in Users, c \in Candidates : ReadForVote(w, v, c))
        BY <1>5 DEF ReadForVote, ReadForSubmit, Become, Idle, At, IInv, TypeOK
  <2> QED BY <1>5, <2>1, <2>2, <2>3, Snapshots DEF At, IInv
<1>6. \A u \in Users : participant'[u] = "ACCEPTED" => Consented(u)'
      BY AcceptedConsent DEF IInv, ConsentInv
<1> QED BY <1>3, <1>4, <1>5, <1>6 DEF ConsentInv, ConsentBeforeData, Consented

(* The invariant holds of the first state and is kept by every step.       *)
LEMMA Invariance == Spec => []IInv
<1>1. Init => TypeOK
  BY InitType
<1>2. Init => SelectionInv
  BY DEF Init, SelectionInv, OneSelection
<1>3. Init => VoteInv
  BY DEF Init, VoteInv, VotesOnCandidates, At, Idle
<1>4. Init => ConsentInv
  BY DEF Init, ConsentInv, ConsentBeforeData, Consented, At, Idle
<1>5. IInv /\ [Next]_vars => IInv'
  BY TypeStep, SelectionStep, VoteStep, ConsentStep DEF IInv
<1> QED BY <1>1, <1>2, <1>3, <1>4, <1>5, PTL DEF Spec, IInv

(* At most one result is ever stored, and the candidate it selects is the  *)
(* only one marked SELECTED, however many generations race.                *)
THEOREM ResultIsUnique == Spec => []OneSelection
BY Invariance, PTL DEF IInv, SelectionInv

(* Votes name existing candidates and come from people who once accepted.  *)
THEOREM VotesAreSound == Spec => []VotesOnCandidates
BY Invariance, PTL DEF IInv, VoteInv

(* No private data is stored for somebody who never accepted, one who      *)
(* declined right away included.                                           *)
THEOREM ConsentPrecedesData == Spec => []ConsentBeforeData
BY Invariance, PTL DEF IInv, ConsentInv

(* Once there is a result, no step changes it or the candidates it ranked. *)
THEOREM ResultIsFinal == Spec => ResultWrittenOnce
<1>1. [Next]_vars => (results # {} => /\ results' = results
                                      /\ \A c \in Existing : candidate'[c] = candidate[c])
  <2> SUFFICES ASSUME [Next]_vars, results # {}
               PROVE  /\ results' = results
                      /\ \A c \in Existing : candidate'[c] = candidate[c]
      OBVIOUS
  <2>1. ASSUME NEW w \in Workers PROVE ~ WriteGeneration(w)
        BY DEF WriteGeneration, Conflicts
  <2>2. ASSUME NEW w \in Workers, FailGeneration(w)
        PROVE  /\ results' = results
               /\ \A c \in Existing : candidate'[c] = candidate[c]
        BY <2>2 DEF FailGeneration, AddCandidates, Existing
  <2> QED BY <2>1, <2>2, ResultsFrame
<1> QED BY <1>1, PTL DEF Spec, ResultWrittenOnce

(* A deleted or purged submission never becomes visible again: a late      *)
(* replacement writes the payload, but leaves deleted_at as it is.         *)
THEOREM DeletedStaysDeleted == Spec => NoResurrection
<1> DEFINE Gone(u) == submission[u] \in {"softDeleted", "purged"}
<1>1. ASSUME TypeOK, [Next]_vars, NEW u \in Users, Gone(u) PROVE Gone(u)'
  <2> USE DEF people, instanceVars, publicVars
  <2>1. ASSUME NEW w \in Workers, WriteSubmit(w) PROVE Gone(u)'
        BY <1>1, <2>1 DEF WriteSubmit, StoredRow, TypeOK
  <2>2. ASSUME NEW w \in Workers, Cleanup(w) \/ PurgeStaleRows(w) PROVE Gone(u)'
        BY <1>1, <2>2 DEF Cleanup, PurgeStaleRows, SubmissionOf
  <2>3. ASSUME NEW v \in Users, DeleteSubmission(v) \/ SubmissionExpires(v)
        PROVE  Gone(u)'
        BY <1>1, <2>3 DEF DeleteSubmission, SubmissionExpires, SubmissionOf, TypeOK
  <2>4. ASSUME NEW w \in Workers,
               \/ WriteTransition(w) \/ ReadCandidatesReady(w) \/ Generate(w)
               \/ WriteGeneration(w) \/ GenerationConflict(w) \/ FailGeneration(w)
               \/ WriteAccept(w) \/ WriteVote(w) \/ ExpireAndPublish(w) \/ CommitExpired(w) \/ Announce(w)
               \/ Request(w) \/ Crash(w)
        PROVE  submission' = submission
        BY <2>4 DEF WriteTransition, ReadCandidatesReady, Generate,
             WriteGeneration, GenerationConflict, FailGeneration,
             WriteAccept, WriteVote, ExpireAndPublish, CommitExpired, Announce, Request,
             ReadTransition, ReadProcess, ReadInvitation, ReadForSubmit,
             ReadForVote, ReadExpired, ReadStaleRows, Crash
  <2>5. ASSUME NEW v \in Users, Decline(v) \/ Leave(v)
        PROVE  submission' = submission
        BY <2>5 DEF Decline, Leave, SetParticipant
  <2>6. InstanceExpires \/ UNCHANGED vars => submission' = submission
        BY DEF InstanceExpires, vars
  <2> QED BY <1>1, <2>1, <2>2, <2>3, <2>4, <2>5, <2>6 DEF Next, WorkerStep
<1>2. TypeOK /\ [Next]_vars =>
        \A u \in Users : submission[u] \in {"softDeleted", "purged"} =>
           submission'[u] \in {"softDeleted", "purged"}
      BY <1>1
<1> QED BY <1>2, TypeCorrect, PTL DEF Spec, NoResurrection

(***************************************************************************)
(* What holds of a scene whose requests are served one after another, with *)
(* any number of users and candidates and a request dying at any moment:   *)
(* it carries out the protocol, its private data goes, and its outcome,    *)
(* its events and its counts agree.                                        *)
(***************************************************************************)
InTurn == \A v, w \in Workers : v = w

(* Before the generation there is nothing to see. *)
Early == {"DRAFT", "INVITING", "COLLECTING_PRIVATE_INPUT"}
Fresh == results = {} /\ Existing = {}
EarlyInv == status \in Early => Fresh

(* What the request under way has read still holds. *)
RequestInv(w) ==
    /\ At(w, "transition") => \E a \in SceneActions : worker[w].target \in Targets(status, a)
    /\ At(w, "startProcessing") => worker[w].target \in Targets(status, "start_processing")
    /\ At(w, "candidatesReady") => worker[w].target \in Targets(status, "candidates_ready")
    /\ worker[w].pc \in {"generate", "generating"} => status = "GENERATING_CANDIDATES" /\ Fresh
    /\ At(w, "generating") => worker[w].rows = ListByInstance
    /\ At(w, "submit") => status = "COLLECTING_PRIVATE_INPUT"
    /\ At(w, "vote") => status = "VOTING" /\ worker[w].cand \in Existing
    /\ At(w, "expire") => status \notin TerminalStates /\ worker[w].version = version
    /\ At(w, "expiring") => /\ status \notin TerminalStates /\ worker[w].had
                            /\ "EXPIRED" \in announced
    /\ At(w, "announce") => worker[w].target = status

(* Private data that outlasts the publication is about to be purged. *)
PrivateInv ==
    crashes = 0 /\ results # {} =>
        ListByInstance = {} \/ \E w \in Workers : At(w, "cleanup")

(* What the rows and the events tell without a look at the requests ... *)
StoryInv ==
    /\ stamped = {status} \cap Stamps
    /\ announced \ {"EXPIRED"} \subseteq {status}
    /\ \A r \in results : r.evaluated = r.counted

(* ... and with one: who is about to commit the expiry that was announced, *)
(* or to announce the outcome that was committed.                          *)
EventInv ==
    /\ "EXPIRED" \in announced => \/ status = "EXPIRED"
                                  \/ \E w \in Workers : At(w, "expiring")
                                  \/ crashes > 0
    /\ crashes = 0 /\ status \in TerminalStates \ {"FAILED"} =>
          status \in announced \/ \E w \in Workers : At(w, "announce")

SerialInv == /\ TypeOK /\ EarlyInv /\ (\A w \in Workers : RequestInv(w))
             /\ PrivateInv /\ StoryInv /\ EventInv

-----------------------------------------------------------------------------
(* Where legal transitions lead *)

LEMMA LegalMoves ==
    ASSUME NEW s, NEW a, NEW t \in Targets(s, a)
    PROVE  /\ s \in ActiveStates /\ s \notin TerminalStates
           /\ t \in Early => s \in Early
           /\ \/ t \in {"CANCELLED", "EXPIRED"}
              \/ s = "GENERATING_CANDIDATES" /\ t = "FAILED"
              \/ \E f \in NormalFlow : s = f[1] /\ t = f[3]
           /\ a = "start_processing" => s = "COLLECTING_PRIVATE_INPUT"
                                        /\ t = "GENERATING_CANDIDATES"
           /\ a = "candidates_ready" => s = "GENERATING_CANDIDATES" /\ t = "VOTING"
<1>1. s \notin TerminalStates /\ <<s, a, t>> \in LegalTransitions
      BY DEF Targets
<1>2. CASE <<s, a, t>> \in NormalFlow
  <2>1. \E f \in NormalFlow : s = f[1] /\ t = f[3]
        BY <1>2
  <2> QED BY <1>1, <1>2, <2>1 DEF NormalFlow, ActiveStates, Early
<1>3. CASE <<s, a, t>> \in {<<"GENERATING_CANDIDATES", "processing_failed", "FAILED">>}
      BY <1>1, <1>3 DEF ActiveStates, Early
<1>4. CASE <<s, a, t>> \in {<<x, "cancel", "CANCELLED">> : x \in ActiveStates}
      BY <1>1, <1>4 DEF Early
<1>5. CASE <<s, a, t>> \in {<<x, "expire", "EXPIRED">> : x \in ActiveStates}
      BY <1>1, <1>5 DEF Early
<1> QED BY <1>1, <1>2, <1>3, <1>4, <1>5 DEF LegalTransitions

(* The transition a request is about to write is legal now. *)
Writing(w) == worker[w].pc \in {"transition", "startProcessing", "candidatesReady"}
LEMMA WritesLegally ==
    ASSUME NEW w \in Workers, RequestInv(w), Writing(w)
    PROVE  \E a \in SceneActions :
              /\ worker[w].target \in Targets(status, a)
              /\ At(w, "startProcessing") => a = "start_processing"
BY DEF RequestInv, Writing, At, SceneActions

(* A scene that has not ended has no outcome to tell of. *)
LEMMA NoOutcomeYet ==
    ASSUME TypeOK, StoryInv, status \notin TerminalStates
    PROVE  stamped = {} /\ announced \subseteq {"EXPIRED"}
BY DEF TypeOK, StoryInv, Stamps, TerminalStates

(* A request that writes neither the status nor an event, and is not about *)
(* to, leaves the agreement of the two as it is.                           *)
LEMMA EventsKept ==
    ASSUME SerialInv, InTurn, NEW w \in Workers,
           worker[w].pc \notin {"expiring", "announce"},
           UNCHANGED <<status, announced, crashes>>
    PROVE  EventInv'
BY DEF SerialInv, EventInv, InTurn, At

(* Without a row changed, what the rows alone decide is as before. *)
LEMMA RowsSame ==
    ASSUME SerialInv, UNCHANGED <<instanceVars, submission, publicVars, announced>>
    PROVE  /\ EarlyInv' /\ StoryInv'
           /\ ListByInstance' = ListByInstance /\ Existing' = Existing
           /\ Fresh' = Fresh
BY DEF SerialInv, instanceVars, publicVars, EarlyInv, Fresh, Existing, StoryInv,
       ListByInstance

-----------------------------------------------------------------------------
(* Requests that only read *)

LEMMA ReadStep ==
    ASSUME SerialInv, InTurn, NEW w \in Workers,
           UNCHANGED <<instanceVars, submission, publicVars, announced, crashes>>,
           worker[w].pc \notin {"cleanup", "expiring", "announce"}, RequestInv(w)', TypeOK'
    PROVE  SerialInv'
<1>1. EarlyInv' /\ StoryInv' /\ ListByInstance' = ListByInstance
      BY RowsSame
<1>2. \A v \in Workers : RequestInv(v)'
      BY DEF InTurn
<1>3. PrivateInv'
      BY <1>1 DEF SerialInv, PrivateInv, InTurn, At, instanceVars, publicVars
<1>4. EventInv'
      BY EventsKept DEF instanceVars
<1> QED BY <1>1, <1>2, <1>3, <1>4 DEF SerialInv

(* A worker without a request has read nothing. *)
LEMMA IdleHolds ==
    ASSUME NEW w \in Workers, worker'[w] = Idle
    PROVE  RequestInv(w)'
BY DEF RequestInv, Idle, At

(* What a request reads is true when it has read it. *)
LEMMA Reads ==
    ASSUME SerialInv, NEW w \in Workers,
           \/ Request(w) \/ ReadCandidatesReady(w) \/ Generate(w) \/ GenerationConflict(w)
    PROVE  /\ UNCHANGED <<instanceVars, submission, publicVars, announced, crashes>>
           /\ worker[w].pc \notin {"cleanup", "expiring", "announce"} /\ RequestInv(w)'
<1> USE DEF Become, At, people, instanceVars, publicVars
<1>1. worker \in [Workers -> WorkerState]
      BY DEF SerialInv, TypeOK
<1>2. CASE ReadTransition(w)
  <2>1. PICK a \in SceneActions : \E t \in Targets(status, a) :
           worker' = [worker EXCEPT ![w] = [Idle EXCEPT !.pc = "transition", !.target = t,
                                                        !.version = version]]
        BY <1>2 DEF ReadTransition
  <2> QED BY <1>1, <1>2, <2>1 DEF ReadTransition, RequestInv, Idle
<1>3. CASE ReadProcess(w)
      BY <1>1, <1>3 DEF ReadProcess, RequestInv, Idle
<1>4. CASE ReadCandidatesReady(w)
  <2>1. ASSUME worker'[w] = Idle PROVE RequestInv(w)'
        BY <2>1, IdleHolds
  <2>2. ASSUME NEW t \in Targets(status, "candidates_ready"),
               worker'[w] = [Idle EXCEPT !.pc = "candidatesReady", !.target = t,
                                         !.version = version]
        PROVE  RequestInv(w)'
        BY <1>4, <2>2 DEF ReadCandidatesReady, RequestInv, Idle
  <2>3. worker'[w] = Idle \/ \E t \in Targets(status, "candidates_ready") :
           worker'[w] = [Idle EXCEPT !.pc = "candidatesReady", !.target = t,
                                     !.version = version]
        BY <1>1, <1>4 DEF ReadCandidatesReady
  <2>4. RequestInv(w)'
        BY <2>1, <2>2, <2>3
  <2> QED BY <1>4, <2>4 DEF ReadCandidatesReady
<1>5. CASE Generate(w)
  <2>1. ASSUME worker'[w] = Idle PROVE RequestInv(w)'
        BY <2>1, IdleHolds
  <2>2. ASSUME worker'[w] = [Idle EXCEPT !.pc = "generating", !.version = version,
                                         !.rows = ListByInstance]
        PROVE  RequestInv(w)'
    <3>1. status = "GENERATING_CANDIDATES" /\ Fresh
      <4>1. At(w, "generate") /\ RequestInv(w)
            BY <1>5 DEF Generate, SerialInv
      <4> QED BY <4>1 DEF RequestInv
    <3>2. status' = status /\ Fresh' /\ ListByInstance' = ListByInstance
          BY <1>5, <3>1 DEF Generate, Fresh, Existing, ListByInstance
    <3> QED BY <2>2, <3>1, <3>2 DEF RequestInv, Idle
  <2>3. RequestInv(w)'
        BY <1>1, <1>5, <2>1, <2>2 DEF Generate
  <2> QED BY <1>5, <2>3 DEF Generate
<1>6. CASE GenerationConflict(w)
      BY <1>1, <1>6 DEF GenerationConflict, RequestInv, Idle
<1>7. ASSUME NEW u \in Users, ReadInvitation(w, u) \/ ReadForSubmit(w, u)
      PROVE  /\ UNCHANGED <<instanceVars, submission, publicVars, announced, crashes>>
             /\ worker[w].pc \notin {"cleanup", "expiring", "announce"} /\ RequestInv(w)'
      BY <1>1, <1>7 DEF ReadInvitation, ReadForSubmit, RequestInv, Idle
<1>8. ASSUME NEW u \in Users, NEW c \in Candidates, ReadForVote(w, u, c)
      PROVE  /\ UNCHANGED <<instanceVars, submission, publicVars, announced, crashes>>
             /\ worker[w].pc \notin {"cleanup", "expiring", "announce"} /\ RequestInv(w)'
      BY <1>1, <1>8 DEF ReadForVote, RequestInv, Idle, Existing
<1>9. CASE ReadExpired(w) \/ ReadStaleRows(w)
      BY <1>1, <1>9 DEF ReadExpired, ReadStaleRows, RequestInv, Idle
<1> QED BY <1>2, <1>3, <1>4, <1>5, <1>6, <1>7, <1>8, <1>9 DEF Request
-----------------------------------------------------------------------------
(* Requests that write *)

LEMMA TransitionStep ==
    ASSUME SerialInv, InTurn, NEW w \in Workers, WriteTransition(w), TypeOK'
    PROVE  SerialInv'
<1> USE DEF people, publicVars
<1>1. PICK a \in SceneActions :
        /\ worker[w].target \in Targets(status, a)
        /\ At(w, "startProcessing") => a = "start_processing"
      BY WritesLegally DEF SerialInv, WriteTransition, Writing
<1>2. /\ status \notin TerminalStates
      /\ worker[w].target \in Early => status \in Early
      /\ At(w, "startProcessing") => status \in Early
                                    /\ worker[w].target = "GENERATING_CANDIDATES"
      BY <1>1, LegalMoves DEF Early
<1>3. status' = worker[w].target /\ Fresh' = Fresh
      BY DEF WriteTransition, SaveTransition, Fresh, Existing
<1>4. EarlyInv'
      BY <1>2, <1>3 DEF SerialInv, EarlyInv
<1>5. StoryInv'
  <2>1. stamped = {} /\ announced \subseteq {"EXPIRED"}
        BY <1>2, NoOutcomeYet DEF SerialInv
  <2>2. stamped' = {status'} \cap Stamps /\ announced' \ {"EXPIRED"} \subseteq {status'}
        BY <2>1 DEF WriteTransition, SaveTransition
  <2> QED BY <2>2 DEF WriteTransition, SerialInv, StoryInv
<1>6. RequestInv(w)'
  <2>1. worker'[w] = IF At(w, "startProcessing") THEN [Idle EXCEPT !.pc = "generate"]
                     ELSE IF worker[w].target \in TerminalStates
                     THEN [Idle EXCEPT !.pc = "announce", !.target = worker[w].target]
                     ELSE Idle
        BY DEF WriteTransition, Become, SerialInv, TypeOK
  <2>2. CASE At(w, "startProcessing")
    <3>1. worker'[w].pc = "generate"
          BY <2>1, <2>2 DEF Idle
    <3>2. status' = "GENERATING_CANDIDATES" /\ Fresh'
          BY <2>2, <1>2, <1>3 DEF SerialInv, EarlyInv
    <3> QED BY <3>1, <3>2 DEF RequestInv, At
  <2>3. CASE worker'[w] = Idle
        BY <2>3, IdleHolds
  <2>4. CASE worker'[w] = [Idle EXCEPT !.pc = "announce", !.target = worker[w].target]
        BY <1>3, <2>4 DEF RequestInv, At, Idle
  <2> QED BY <2>1, <2>2, <2>3, <2>4
<1>7. PrivateInv'
      BY DEF WriteTransition, SerialInv, PrivateInv, InTurn, At, ListByInstance
<1>8. EventInv'
  <2>1. UNCHANGED <<announced, crashes>> /\ worker[w].pc # "expiring"
        BY DEF WriteTransition
  <2>2. "EXPIRED" \in announced => crashes > 0
        BY <1>2, <2>1 DEF SerialInv, EventInv, InTurn, At, TerminalStates
  <2>3. status' \in TerminalStates => worker'[w].pc = "announce"
    <3>1. status' \in TerminalStates => ~ At(w, "startProcessing")
          BY <1>2, <1>3 DEF TerminalStates
    <3> QED BY <1>3, <3>1 DEF WriteTransition, Become, Idle, SerialInv, TypeOK
  <2> QED BY <2>1, <2>2, <2>3 DEF EventInv, At
<1> QED BY <1>4, <1>5, <1>6, <1>7, <1>8 DEF SerialInv, InTurn

(* What is published counts the capsules that were evaluated. *)
LEMMA PublishStep ==
    ASSUME SerialInv, InTurn, NEW w \in Workers, WriteGeneration(w), TypeOK'
    PROVE  SerialInv'
<1> USE DEF people, instanceVars
<1>1. At(w, "generating") /\ RequestInv(w)
      BY DEF WriteGeneration, SerialInv
<1>2. /\ status = "GENERATING_CANDIDATES" /\ results = {}
      /\ worker[w].rows = CountByInstance
      BY <1>1 DEF RequestInv, At, Fresh, CountByInstance, ListByInstance
<1>3. worker'[w].pc = "cleanup"
      BY DEF WriteGeneration, Become, Idle, SerialInv, TypeOK
<1>4. EarlyInv'
      BY <1>2 DEF WriteGeneration, EarlyInv, Early
<1>5. StoryInv'
  <2>1. \A r \in results' : r.evaluated = r.counted
        BY <1>2 DEF WriteGeneration
  <2> QED BY <2>1 DEF WriteGeneration, SerialInv, StoryInv
<1>6. RequestInv(w)'
      BY <1>3 DEF RequestInv, At
<1>7. PrivateInv'
      BY <1>3 DEF PrivateInv, At
<1>8. EventInv'
      BY <1>1, EventsKept DEF WriteGeneration, At
<1> QED BY <1>4, <1>5, <1>6, <1>7, <1>8 DEF SerialInv, InTurn

LEMMA FailStep ==
    ASSUME SerialInv, InTurn, NEW w \in Workers, FailGeneration(w), TypeOK'
    PROVE  SerialInv'
<1>1. At(w, "generating") /\ RequestInv(w)
      BY DEF FailGeneration, SerialInv
<1>2. status = "GENERATING_CANDIDATES" /\ results = {}
      BY <1>1 DEF RequestInv, At, Fresh
<1>3. stamped = {} /\ announced \subseteq {"EXPIRED"}
      BY <1>2, NoOutcomeYet DEF SerialInv, TerminalStates
<1>4. /\ status' = "FAILED" /\ stamped' = {"FAILED"} /\ results' = {}
      /\ UNCHANGED <<announced, crashes>>
      BY <1>2, <1>3 DEF FailGeneration
<1>5. worker'[w].pc = "cleanupFailed"
      BY DEF FailGeneration, Become, Idle, SerialInv, TypeOK
<1>6. EarlyInv' /\ StoryInv' /\ PrivateInv'
      BY <1>3, <1>4 DEF EarlyInv, Early, StoryInv, Stamps, PrivateInv
<1>7. RequestInv(w)'
      BY <1>5 DEF RequestInv, At
<1>8. EventInv'
      BY <1>1, <1>2, <1>4 DEF SerialInv, EventInv, InTurn, At
<1> QED BY <1>6, <1>7, <1>8 DEF SerialInv, InTurn

(* After a purge no payload is left. *)
LEMMA CleanupStep ==
    ASSUME SerialInv, InTurn, NEW w \in Workers, Cleanup(w), TypeOK'
    PROVE  SerialInv'
<1> USE DEF people, instanceVars, publicVars
<1>1. ListByInstance' = {}
      BY DEF Cleanup, ListByInstance, SubmissionOf
<1>2. EarlyInv' /\ StoryInv'
      BY DEF Cleanup, SerialInv, EarlyInv, Early, Fresh, Existing, StoryInv
<1>3. worker'[w].pc \in {"openVoting", "idle"}
      BY DEF Cleanup, Become, Idle, SerialInv, TypeOK
<1>4. RequestInv(w)'
      BY <1>3 DEF RequestInv, At
<1>5. EventInv'
      BY EventsKept DEF Cleanup
<1> QED BY <1>1, <1>2, <1>4, <1>5 DEF SerialInv, InTurn, PrivateInv

(* The job announces what it is about to commit, ... *)
LEMMA ExpiryStep ==
    ASSUME SerialInv, InTurn, NEW w \in Workers, ExpireAndPublish(w), TypeOK'
    PROVE  SerialInv'
<1> USE DEF people, instanceVars, publicVars
<1>1. At(w, "expire") /\ RequestInv(w)
      BY DEF ExpireAndPublish, SerialInv
<1>2. status \notin TerminalStates /\ worker[w].version = version
      BY <1>1 DEF RequestInv
<1>3. /\ UNCHANGED <<status, stamped, candidate, results, submission, crashes>>
      /\ announced' = announced \cup {"EXPIRED"}
      BY DEF ExpireAndPublish
<1>4. worker'[w].pc = "expiring" /\ worker'[w].had
      BY <1>2 DEF ExpireAndPublish, Become, Idle, SerialInv, TypeOK
<1>5. EarlyInv' /\ StoryInv'
      BY <1>3 DEF SerialInv, EarlyInv, Fresh, Existing, StoryInv
<1>6. EventInv' /\ RequestInv(w)'
      BY <1>2, <1>3, <1>4 DEF EventInv, RequestInv, At
<1>7. PrivateInv'
      BY <1>1, <1>3 DEF SerialInv, PrivateInv, InTurn, At, ListByInstance
<1> QED BY <1>5, <1>6, <1>7 DEF SerialInv, InTurn

(* ... commits it, ... *)
LEMMA CommitStep ==
    ASSUME SerialInv, InTurn, NEW w \in Workers, CommitExpired(w), TypeOK'
    PROVE  SerialInv'
<1> USE DEF people, publicVars
<1>1. At(w, "expiring") /\ RequestInv(w)
      BY DEF CommitExpired, SerialInv
<1>2. status \notin TerminalStates /\ worker[w].had /\ "EXPIRED" \in announced
      BY <1>1 DEF RequestInv
<1>3. stamped = {} /\ announced = {"EXPIRED"}
      BY <1>2, NoOutcomeYet DEF SerialInv
<1>4. /\ status' = "EXPIRED" /\ announced' = {"EXPIRED"} /\ stamped' = {}
      /\ UNCHANGED <<results, submission, crashes>>
      BY <1>2, <1>3 DEF CommitExpired
<1>5. EarlyInv' /\ StoryInv' /\ EventInv'
      BY <1>4 DEF EarlyInv, Early, StoryInv, EventInv, Stamps, SerialInv
<1>6. RequestInv(w)'
      BY IdleHolds DEF CommitExpired, Become, SerialInv, TypeOK
<1>7. PrivateInv'
      BY <1>1, <1>4 DEF SerialInv, PrivateInv, InTurn, At, ListByInstance
<1> QED BY <1>5, <1>6, <1>7 DEF SerialInv, InTurn

(* ... and a transition is announced once it is committed. *)
LEMMA AnnounceStep ==
    ASSUME SerialInv, InTurn, NEW w \in Workers, Announce(w), TypeOK'
    PROVE  SerialInv'
<1> USE DEF people, instanceVars, publicVars
<1>1. At(w, "announce") /\ worker[w].target = status
      BY DEF Announce, SerialInv, RequestInv
<1>2. /\ UNCHANGED <<status, stamped, candidate, results, submission, crashes>>
      /\ announced' = announced \cup ({status} \cap TerminalStates)
      BY <1>1 DEF Announce
<1>3. EarlyInv' /\ StoryInv'
      BY <1>2 DEF SerialInv, EarlyInv, Fresh, Existing, StoryInv
<1>4. EventInv'
      BY <1>1, <1>2 DEF SerialInv, EventInv, InTurn, At
<1>5. RequestInv(w)'
      BY IdleHolds DEF Announce, Become, SerialInv, TypeOK
<1>6. PrivateInv'
      BY <1>1, <1>2 DEF SerialInv, PrivateInv, InTurn, At, ListByInstance
<1> QED BY <1>3, <1>4, <1>5, <1>6 DEF SerialInv, InTurn

(* What a request writes about submissions, votes and invitations. *)
LEMMA PersonStep ==
    ASSUME SerialInv, InTurn, NEW w \in Workers, TypeOK',
           WriteAccept(w) \/ WriteSubmit(w) \/ WriteVote(w) \/ PurgeStaleRows(w)
    PROVE  SerialInv'
<1> USE DEF people, instanceVars, publicVars
<1>1. RequestInv(w)'
      BY IdleHolds DEF WriteAccept, WriteSubmit, WriteVote, PurgeStaleRows, Become,
                       SerialInv, TypeOK
<1>2. EarlyInv' /\ StoryInv'
      BY DEF WriteAccept, WriteSubmit, WriteVote, PurgeStaleRows, SerialInv, EarlyInv,
             Early, Fresh, Existing, StoryInv
<1>3. ASSUME WriteSubmit(w) PROVE PrivateInv'
  <2>1. At(w, "submit") /\ RequestInv(w)
        BY <1>3 DEF WriteSubmit, SerialInv
  <2>2. status \in Early
        BY <2>1 DEF RequestInv, Early
  <2>3. results = {}
        BY <2>2 DEF SerialInv, EarlyInv, Fresh
  <2> QED BY <1>3, <2>3 DEF WriteSubmit, PrivateInv
<1>4. ASSUME WriteAccept(w) \/ WriteVote(w) \/ PurgeStaleRows(w) PROVE PrivateInv'
  <2>1. ~ At(w, "cleanup") /\ UNCHANGED <<results, crashes>>
        BY <1>4 DEF WriteAccept, WriteVote, PurgeStaleRows, At
  <2>2. ListByInstance' \subseteq ListByInstance
        BY <1>4 DEF WriteAccept, WriteVote, PurgeStaleRows, ListByInstance
  <2> QED BY <2>1, <2>2 DEF SerialInv, PrivateInv, InTurn
<1>5. EventInv'
  <2>1. /\ worker[w].pc \notin {"expiring", "announce"}
        /\ UNCHANGED <<status, announced, crashes>>
        BY DEF WriteAccept, WriteSubmit, WriteVote, PurgeStaleRows, At
  <2> QED BY <2>1, EventsKept
<1> QED BY <1>1, <1>2, <1>3, <1>4, <1>5 DEF SerialInv, InTurn

-----------------------------------------------------------------------------
(* Steps beside the request under way *)

LEMMA CrashStep ==
    ASSUME SerialInv, InTurn, NEW w \in Workers, Crash(w), TypeOK'
    PROVE  SerialInv'
<1>1. EarlyInv' /\ StoryInv'
      BY RowsSame DEF Crash
<1>2. crashes' # 0
      BY DEF Crash, SerialInv, TypeOK
<1>3. RequestInv(w)'
      BY IdleHolds DEF Crash, Become, SerialInv, TypeOK
<1>4. EventInv'
      BY <1>2 DEF Crash, EventInv, SerialInv, TypeOK
<1> QED BY <1>1, <1>2, <1>3, <1>4 DEF SerialInv, InTurn, PrivateInv

(* The people and the clock change no public row, and free no payload. *)
LEMMA OtherStep ==
    ASSUME SerialInv, InTurn, TypeOK',
           \/ InstanceExpires
           \/ \E u \in Users : \/ Decline(u) \/ Leave(u)
                               \/ DeleteSubmission(u) \/ SubmissionExpires(u)
    PROVE  SerialInv'
<1> USE DEF people, instanceVars, publicVars
<1>1. UNCHANGED <<status, version, stamped, publicVars, announced, worker, crashes>>
      BY DEF InstanceExpires, Decline, Leave, SetParticipant, DeleteSubmission,
             SubmissionExpires
<1>2. \/ ListByInstance' = ListByInstance
      \/ ListByInstance' \subseteq ListByInstance /\ \E w \in Workers : At(w, "idle")
  <2>1. ASSUME NEW u \in Users, DeleteSubmission(u)
        PROVE  /\ ListByInstance' \subseteq ListByInstance
               /\ \E w \in Workers : At(w, "idle")
        BY <2>1 DEF DeleteSubmission, ListByInstance, SerialInv, TypeOK
  <2>2. ASSUME NEW u \in Users, SubmissionExpires(u)
        PROVE  ListByInstance' = ListByInstance
        BY <2>2 DEF SubmissionExpires, ListByInstance, SerialInv, TypeOK
  <2>3. ASSUME \/ InstanceExpires
               \/ \E u \in Users : Decline(u) \/ Leave(u)
        PROVE  ListByInstance' = ListByInstance
        BY <2>3 DEF InstanceExpires, Decline, Leave, SetParticipant, ListByInstance
  <2> QED BY <2>1, <2>2, <2>3
<1>3. EarlyInv' /\ StoryInv'
      BY <1>1 DEF SerialInv, EarlyInv, Fresh, Existing, StoryInv
<1>4. ASSUME NEW w \in Workers PROVE RequestInv(w)'
  <2>1. RequestInv(w) /\ Fresh' = Fresh /\ Existing' = Existing
        BY <1>1 DEF SerialInv, Fresh, Existing
  <2>2. CASE ListByInstance' = ListByInstance
        BY <1>1, <2>1, <2>2 DEF RequestInv, At
  <2>3. CASE At(w, "idle")
        BY <1>1, <2>3 DEF RequestInv, At
  <2> QED BY <1>2, <2>2, <2>3 DEF InTurn
<1>5. PrivateInv'
      BY <1>1, <1>2 DEF SerialInv, PrivateInv, At
<1>6. EventInv'
      BY <1>1 DEF SerialInv, EventInv, At
<1> QED BY <1>3, <1>4, <1>5, <1>6 DEF SerialInv
-----------------------------------------------------------------------------
LEMMA SerialInitially == Init => SerialInv
<1> SUFFICES ASSUME Init PROVE SerialInv
    OBVIOUS
<1>1. TypeOK
      BY InitType
<1>2. Fresh /\ status = "DRAFT"
      BY DEF Init, Fresh, Existing
<1>3. StoryInv
      BY DEF Init, StoryInv, Stamps
<1>4. \A w \in Workers : RequestInv(w)
      BY DEF Init, RequestInv, Idle, At
<1>5. EventInv
      BY DEF Init, EventInv, TerminalStates
<1> QED BY <1>1, <1>2, <1>3, <1>4, <1>5 DEF SerialInv, EarlyInv, PrivateInv, Fresh

LEMMA SerialStep ==
    ASSUME SerialInv, InTurn, [Next]_vars
    PROVE  SerialInv'
<1>1. TypeOK'
      BY TypeStep DEF SerialInv
<1>2. CASE UNCHANGED vars
      BY <1>2, <1>1 DEF vars, SerialInv, EarlyInv, Fresh, Existing, RequestInv, At,
         ListByInstance, PrivateInv, StoryInv, EventInv
<1>3. ASSUME NEW w \in Workers, WorkerStep(w) \/ Request(w) \/ Crash(w)
      PROVE  SerialInv'
  <2>1. CASE \/ Request(w) \/ ReadCandidatesReady(w) \/ Generate(w)
             \/ GenerationConflict(w)
        BY <1>1, <2>1, Reads, ReadStep
  <2>2. CASE \/ WriteTransition(w) \/ Announce(w)
             \/ ExpireAndPublish(w) \/ CommitExpired(w)
        BY <1>1, <2>2, TransitionStep, AnnounceStep, ExpiryStep, CommitStep
  <2>3. CASE WriteGeneration(w) \/ FailGeneration(w) \/ Cleanup(w)
        BY <1>1, <2>3, PublishStep, FailStep, CleanupStep
  <2>4. CASE WriteAccept(w) \/ WriteSubmit(w) \/ WriteVote(w) \/ PurgeStaleRows(w)
        BY <1>1, <2>4, PersonStep
  <2>5. CASE Crash(w)
        BY <1>1, <2>5, CrashStep
  <2> QED BY <1>3, <2>1, <2>2, <2>3, <2>4, <2>5 DEF WorkerStep
<1>4. CASE \/ InstanceExpires
           \/ \E u \in Users : \/ Decline(u) \/ Leave(u)
                               \/ DeleteSubmission(u) \/ SubmissionExpires(u)
      BY <1>1, <1>4, OtherStep
<1> QED BY <1>2, <1>3, <1>4 DEF Next

LEMMA SerialInvariance ==
    ASSUME InTurn
    PROVE  Spec => []SerialInv
<1>1. SerialInv /\ [Next]_vars => SerialInv'
      BY SerialStep
<1> QED BY <1>1, SerialInitially, PTL DEF Spec

(* When nothing is under way after a publication, no payload is left that  *)
(* the owner did not delete, whatever stage the scene has reached.         *)
THEOREM PrivateDataGoes ==
    ASSUME InTurn
    PROVE  Spec => []PrivateDataGone
<1>1. SerialInv => PrivateDataGone
      BY DEF SerialInv, PrivateInv, PrivateDataGone, AllIdle, At
<1> QED BY <1>1, SerialInvariance, PTL

(* Outcome columns, events and counts tell the same story as the status,   *)
(* after any sequence of calls, transitions that a crash cut off included; *)
(* only the event of the expiry job may be ahead of a commit that a crash  *)
(* prevents.                                                               *)
THEOREM OutcomesAgree ==
    ASSUME InTurn
    PROVE  Spec => []OutcomeConsistent
<1>1. SerialInv => OutcomeConsistent
      BY DEF SerialInv, StoryInv, EventInv, OutcomeConsistent, EventsTruthful, AllIdle, At
<1> QED BY <1>1, SerialInvariance, PTL

-----------------------------------------------------------------------------
(* Every step of the scene is one of the protocol, or invisible to it. *)

LEMMA StartsAsProtocol == Init => Protocol!Init
BY DEF Init, Protocol!Init, Existing

LEMMA StepsAsProtocol ==
    ASSUME SerialInv, InTurn, [Next]_vars
    PROVE  [Protocol!Next]_(Protocol!pvars)
<1> DEFINE verdict == {r.selected : r \in results}
<1> USE DEF people, instanceVars, publicVars
<1>1. ASSUME UNCHANGED <<status, candidate, results, vote>>
      PROVE  UNCHANGED Protocol!pvars
      BY <1>1 DEF Protocol!pvars, Existing
<1>2. ASSUME NEW w \in Workers, WriteTransition(w)
      PROVE  Protocol!Next
  <2>1. PICK a \in SceneActions : worker[w].target \in Targets(status, a)
        BY <1>2, WritesLegally DEF SerialInv, WriteTransition, Writing
  <2>2. /\ status' = worker[w].target
        /\ UNCHANGED <<Existing, verdict, vote>>
        BY <1>2 DEF WriteTransition, SaveTransition, Existing
  <2>3. status \in ActiveStates
        BY <2>1, LegalMoves
  <2>4. CASE worker[w].target \in {"CANCELLED", "EXPIRED"}
        BY <2>2, <2>3, <2>4 DEF Protocol!Next, Protocol!Abort, Protocol!ActiveStates,
           ActiveStates
  <2>5. CASE status = "GENERATING_CANDIDATES" /\ worker[w].target = "FAILED"
        BY <2>2, <2>5 DEF Protocol!Next, Protocol!Fail
  <2>6. CASE \E f \in NormalFlow : status = f[1] /\ worker[w].target = f[3]
        BY <2>2, <2>6 DEF Protocol!Next, Protocol!Advance, Protocol!NormalFlow, NormalFlow
  <2> QED BY <2>1, <2>4, <2>5, <2>6, LegalMoves
<1>3. ASSUME NEW w \in Workers, CommitExpired(w)
      PROVE  Protocol!Next
  <2>1. status \notin TerminalStates /\ worker[w].had
        BY <1>3 DEF CommitExpired, SerialInv, RequestInv, At
  <2>2. status \in ActiveStates
        BY <2>1 DEF SerialInv, TypeOK, SceneState
  <2>3. status' = "EXPIRED" /\ UNCHANGED <<Existing, verdict, vote>>
        BY <1>3, <2>1 DEF CommitExpired, Existing
  <2> QED BY <2>2, <2>3 DEF Protocol!Next, Protocol!Abort, Protocol!ActiveStates,
          ActiveStates
<1>4. ASSUME NEW w \in Workers, WriteGeneration(w)
      PROVE  Protocol!Next
  <2>1. status = "GENERATING_CANDIDATES" /\ results = {} /\ Existing = {}
        BY <1>4 DEF WriteGeneration, SerialInv, RequestInv, At, Fresh
  <2>2. PICK sel \in Candidates \cup {None} :
           /\ sel # None => sel \in Existing'
           /\ results' = {[selected |-> sel, evaluated |-> worker[w].rows,
                           counted |-> CountByInstance]}
    <3>1. PICK slate \in Slates(worker[w].rows) :
             \E passed \in SUBSET slate : \E sel \in Selections(passed) :
                /\ AddCandidates(slate, passed, sel)
                /\ results' = results \cup {[selected |-> sel, evaluated |-> worker[w].rows,
                                             counted |-> CountByInstance]}
          BY <1>4 DEF WriteGeneration
    <3>2. PICK passed \in SUBSET slate, sel \in Candidates \cup {None} :
             /\ AddCandidates(slate, passed, sel)
             /\ results' = results \cup {[selected |-> sel, evaluated |-> worker[w].rows,
                                          counted |-> CountByInstance]}
          BY <3>1 DEF Slates, Selections
    <3>3. sel # None => sel \in Existing'
          BY <3>2 DEF AddCandidates, Existing
    <3> QED BY <2>1, <3>2, <3>3
  <2>3. verdict = {} /\ verdict' = {sel}
        BY <2>1, <2>2
  <2>4. Existing' \in SUBSET Candidates /\ sel \in Existing' \cup {None}
        BY <2>2 DEF Existing
  <2>5. status' = status /\ vote' = vote
        BY <1>4 DEF WriteGeneration
  <2> QED BY <2>1, <2>3, <2>4, <2>5 DEF Protocol!Next, Protocol!Publish
<1>5. ASSUME NEW w \in Workers, FailGeneration(w)
      PROVE  Protocol!Next
  <2>1. status = "GENERATING_CANDIDATES" /\ results = {} /\ Existing = {}
        BY <1>5 DEF FailGeneration, SerialInv, RequestInv, At, Fresh
  <2>2. /\ status' = "FAILED" /\ verdict = {} /\ UNCHANGED <<verdict, vote>>
        /\ Existing' \in SUBSET Candidates
        BY <1>5, <2>1 DEF FailGeneration, Existing
  <2> QED BY <2>1, <2>2 DEF Protocol!Next, Protocol!Fail
<1>6. ASSUME NEW w \in Workers, WriteVote(w)
      PROVE  [Protocol!Next]_(Protocol!pvars)
  <2>1. status = "VOTING" /\ worker[w].cand \in Existing
        BY <1>6 DEF WriteVote, SerialInv, RequestInv
  <2>2. UNCHANGED <<status, Existing, verdict>> /\ worker[w].user \in Users
        BY <1>6 DEF WriteVote, Existing, SerialInv, TypeOK, WorkerState
  <2>3. \/ vote' = [vote EXCEPT ![worker[w].user] = worker[w].cand]
        \/ vote' = vote
        BY <1>6 DEF WriteVote
  <2> QED BY <2>1, <2>2, <2>3 DEF Protocol!Next, Protocol!Cast, Protocol!pvars
<1>7. ASSUME NEW w \in Workers,
             \/ Request(w) \/ Crash(w) \/ ReadCandidatesReady(w) \/ Generate(w)
             \/ GenerationConflict(w) \/ Cleanup(w) \/ WriteAccept(w)
             \/ WriteSubmit(w) \/ PurgeStaleRows(w) \/ ExpireAndPublish(w) \/ Announce(w)
      PROVE  UNCHANGED <<status, candidate, results, vote>>
      BY <1>7 DEF Request, ReadTransition, ReadProcess, ReadInvitation, ReadForSubmit,
         ReadForVote, ReadExpired, ReadStaleRows, Crash, ReadCandidatesReady, Generate,
         GenerationConflict, Cleanup, WriteAccept, WriteSubmit, PurgeStaleRows,
         ExpireAndPublish, Announce
<1>8. ASSUME \/ InstanceExpires
             \/ \E u \in Users : \/ Decline(u) \/ Leave(u)
                                 \/ DeleteSubmission(u) \/ SubmissionExpires(u)
             \/ UNCHANGED vars
      PROVE  UNCHANGED <<status, candidate, results, vote>>
      BY <1>8 DEF InstanceExpires, Decline, Leave, SetParticipant, DeleteSubmission,
         SubmissionExpires, vars
<1> QED BY <1>1, <1>2, <1>3, <1>4, <1>5, <1>6, <1>7, <1>8 DEF Next, WorkerStep

(* Served one after another, the requests of a scene carry out the         *)
(* protocol that its people see, however many they are and whichever of    *)
(* them a crash cuts off.                                                  *)
THEOREM CarriesOutProtocol ==
    ASSUME InTurn
    PROVE  Spec => ImplementsProtocol
<1>1. SerialInv /\ [Next]_vars => [Protocol!Next]_(Protocol!pvars)
      BY StepsAsProtocol
<1> QED BY <1>1, StartsAsProtocol, SerialInvariance, PTL
        DEF Spec, ImplementsProtocol, Protocol!Spec
=============================================================================
