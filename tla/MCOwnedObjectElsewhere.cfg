SPECIFICATION FairSpec
CONSTANTS
    Kinds <- Elsewhere
    Specs = {s1}
    Off = off
    MaxUid = 1
    MaxLag = 2
    MaxFaults = 0
PROPERTIES StaysAsBuilt
CHECK_DEADLOCK FALSE
