SPECIFICATION WebSpec
CONSTANTS
    Users = {ana, ben}
    Workers = {"w1", "w2"}
    DemoKeys = {"d1", "d2"}
    PluginKey = "p"
    MaxScenes = 2
    MaxCrashes = 1
    Pages = {p, q}
    Pushes = {e1, e2}
    MaxFailures = 3
    MaxMissed = 2
    CacheLimit = 2
    MaxCommands = 2
    MaxSent = 5
    MaxClicks = 2
    Requests = {r1, r2}
    PageSize = 2
    MaxMessages = 4
    People = {ana, boss}
    Admins = {boss}
    MaxOrgs = 3
    Clubs = {1, 3}
    ListPage = 1
    Limit = 1
    MaxDepth = 1
INVARIANTS PublishedIsOpened ChoicesSound OneScenePerKeyInTurn ClientInStep ListingsSound
PROPERTIES ReconnectSettles
CHECK_DEADLOCK FALSE
