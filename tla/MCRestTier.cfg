SPECIFICATION RestFairSpec
CONSTANTS
    Lives <- Hubs
    Provided <- Everything
    Present <- Unchecked
    MaxFaults = 1
INVARIANTS RestTypeOK RestCreatedInOrder
PROPERTIES RestKeepsContract RestInOrder RestSettles
