SPECIFICATION AccountsSpec
CONSTANTS
    Users = {ana, ben}
    Admins = {ben}
    Conversations = {c1, c2}
    Roles = {"OWNER"}
    Workers = {w1, w2}
    MaxRows = 2
    Enrolled = {ana, ben, cho}
    Creator = ana
    SystemAdmins = {}
    SchoolAdmins = {cho}
    Policies = {"OPEN", "APPROVAL"}
    Capacities = {2, 3}
    Sessions = {s1, s2, s3}
    FewSessions = {s1, s2}
    First = s1
    MaxTokens = 3
SYMMETRY Symmetry
INVARIANTS LastOwner FamiliesInTurn VersionNeverAhead OneOfEachInTurn
PROPERTIES EntryKept DeletedForGood EndsForGood PrivateIsPersonal
CHECK_DEADLOCK FALSE
