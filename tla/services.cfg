SPECIFICATION ServicesSpec
CONSTANTS
    Callers = {c1}
    MaxRetries = 1
    Processes = {"first", "second"}
    Connections = {x}
    Events = {e1, e2, e3}
    Threshold = 3
    Recovery = 2
    CacheSize = 2
    MaxFrames = 6
    Members = {ana, ben}
    Threads = {t1}
    Keys = {k1, k2}
    MaxScenes = 2
    MaxDebates = 2
    Restaurants <- FiveRestaurants
    Budgets <- ThreeBudgets
    Slots = {"lunch", "dinner"}
    Scores = {1, 2}
    MinCandidates = 3
    Pages <- FourPages
    Answers <- FiveAnswers
    Queries = 2
    PerQuery = 2
    MaxTotal = 2
    MaxAnswers = 3
    Demo = {"alice", "bob"}
    Creator = "alice"
    Activities <- DemoActivities
    Seeders = {"s1", "s2"}
    MaxActivities = 2
INVARIANTS SensitiveStaysLocal FailuresFallBack FramesInOrder
    OneCurrentScene OffersHold ProposalsSound
PROPERTIES NodeSound NothingHangs NobodyOverlooked DemoDataSound
CHECK_DEADLOCK FALSE
