SPECIFICATION Spec
CONSTANTS
    Users = {ana, ben}
    Creator = ana
    SystemAdmins = {}
    SchoolAdmins = {}
    Policies = {"OPEN"}
    Capacities = {2}
    Workers = {w1, w2}
INVARIANTS LastOwner
CHECK_DEADLOCK FALSE
