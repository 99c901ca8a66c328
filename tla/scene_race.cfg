SPECIFICATION Spec
CONSTANTS
    Users = {creator, guest}
    Creator = creator
    Candidates = {c1}
    None = none
    Workers = {w1, w2}
    MaxVersion = 4
    MaxCrashes = 0
SYMMETRY WorkerSymmetry
INVARIANTS OneSelection VotesOnCandidates ConsentBeforeData
PROPERTIES ResultWrittenOnce NoResurrection
CONSTRAINT BeforeDeadline
CHECK_DEADLOCK FALSE
