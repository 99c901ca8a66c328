SPECIFICATION DemoSpec
CONSTANTS
    Members = {ana, ben}
    Threads = {t1}
    Keys = {k1, k2}
    MaxScenes = 2
    MaxDebates = 2
    Restaurants <- FiveRestaurants
    Budgets <- ThreeBudgets
    Slots = {"lunch", "dinner"}
    Scores = {1, 2}
    MinCandidates = 3
    Pages <- FourPages
    Answers <- FiveAnswers
    Queries = 2
    PerQuery = 2
    MaxTotal = 2
    MaxAnswers = 3
    Demo = {"alice", "bob"}
    Creator = "alice"
    Activities <- DemoActivities
    Seeders = {"s1", "s2"}
    MaxActivities = 2
PROPERTIES SameEndState
CHECK_DEADLOCK FALSE
