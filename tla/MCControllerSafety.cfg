SPECIFICATION Spec
CONSTANTS
    Specs <- MixedSpecs
    Watched = {"core"}
    Healths = {"flaky"}
    Outages = {{"infra", "core", "rest", "spiffe"}}
    MaxGen = 2
    MaxUid = 2
    MaxLag = 2
    MaxFaults = 1
INVARIANTS TypeOK ReadyIsEarned PassOwnsObject
PROPERTIES ObservedNeverFallsBack
CHECK_DEADLOCK FALSE
