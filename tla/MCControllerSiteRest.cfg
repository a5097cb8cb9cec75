SPECIFICATION FairSpec
CONSTANTS
    Specs <- SiteRestSpecs
    Watched = {"core"}
    Healths = {"ok", "pending"}
    Outages = {{}}
    MaxGen = 3
    MaxUid = 1
    MaxLag = 1
    MaxFaults = 0
PROPERTIES BecomesReady
CHECK_DEADLOCK FALSE
