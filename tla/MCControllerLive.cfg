SPECIFICATION FairSpec
CONSTANTS
    Specs <- SiteSpecs
    Watched = {"core"}
    Healths = {"ok", "pending"}
    Outages = {{"core"}, {"infra"}}
    MaxGen = 2
    MaxUid = 1
    MaxLag = 1
    MaxFaults = 1
PROPERTIES BecomesReady DeletionCompletes FailureIsReported
