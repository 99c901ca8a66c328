SPECIFICATION FairSpec
CONSTANTS
    Users = {creator, guest}
    Creator = creator
    Candidates = {c1, c2}
    None = None
    Workers = {w1}
    MaxVersion = 7
    MaxCrashes = 1
INVARIANTS TypeOK PrivateDataGone OutcomeConsistent
PROPERTIES ImplementsProtocol ProcessSettles
CHECK_DEADLOCK FALSE
