SPECIFICATION InfraFairSpec
CONSTANTS
    Lives <- Tiers
    Provided <- Everything
    Present <- Unchecked
    MaxFaults = 2
INVARIANTS InfraTypeOK InitBeforeCluster DatabasesOwned
PROPERTIES InfraKeepsContract InfraConverges
