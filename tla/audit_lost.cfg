SPECIFICATION PeopleSpec
CONSTANTS
    Users = {ana, ben}
    Pair = {ana, ben}
    Admins = {}
    Keys = {k1}
    Expiries = {"FUTURE"}
    Workers = {w1, w2}
    MaxMessages = 2
    Limit = 2
    Profiles = {p1, p2, p3}
    MaxTurns = 3
SYMMETRY Symmetry
PROPERTIES AuditComplete
CHECK_DEADLOCK FALSE
