SPECIFICATION FairSpec
CONSTANTS
    Kinds <- AtHome
    Specs = {s1, s2}
    Off = off
    MaxUid = 2
    MaxLag = 2
    MaxFaults = 2
INVARIANTS TypeOK
PROPERTIES CallIsAtomic StaysAsBuilt GoesWithOwner
CHECK_DEADLOCK FALSE
