--------------------------- MODULE SceneProtocol ---------------------------
(***************************************************************************)
(* What a scene promises the people in it, whatever requests carry it out: *)
(*   - the phases follow one another in order, and an outcome is final;    *)
(*   - the slate of candidates and the verdict on it are published         *)
(*     together, once, and only while candidates are being generated;      *)
(*   - ballots are cast only while voting is open and only for candidates  *)
(*     of the slate.                                                       *)
(***************************************************************************)
EXTENDS SceneStates

CONSTANTS Users, Candidates, None

VARIABLES phase,     \* the phase everybody sees
          slate,     \* the candidates shown to the participants
          verdict,   \* {} before publication, then {the selected candidate or None}
          ballot     \* the candidate each user votes for, or None

pvars == <<phase, slate, verdict, ballot>>

Init == /\ phase = "DRAFT"
        /\ slate = {}
        /\ verdict = {}
        /\ ballot = [u \in Users |-> None]

Advance == /\ \E t \in NormalFlow : phase = t[1] /\ phase' = t[3]
           /\ UNCHANGED <<slate, verdict, ballot>>

Abort == /\ phase \in ActiveStates
         /\ phase' \in {"CANCELLED", "EXPIRED"}
         /\ UNCHANGED <<slate, verdict, ballot>>

(* A failed generation may leave candidates behind, but never a verdict. *)
Fail == /\ phase = "GENERATING_CANDIDATES"
        /\ phase' = "FAILED"
        /\ \/ slate' = slate
           \/ slate = {} /\ verdict = {} /\ slate' \in SUBSET Candidates
        /\ UNCHANGED <<verdict, ballot>>

Publish == /\ phase = "GENERATING_CANDIDATES"
           /\ slate = {} /\ verdict = {}
           /\ slate' \in SUBSET Candidates
           /\ \E c \in slate' \cup {None} : verdict' = {c}
           /\ UNCHANGED <<phase, ballot>>

Cast(u) == /\ phase = "VOTING"
           /\ \E c \in slate : ballot' = [ballot EXCEPT ![u] = c]
           /\ UNCHANGED <<phase, slate, verdict>>

Next == Advance \/ Abort \/ Fail \/ Publish \/ \E u \in Users : Cast(u)

Spec == Init /\ [][Next]_pvars
=============================================================================
