SPECIFICATION CoreFairSpec
CONSTANTS
    Lives <- ManagedCertSite
    Provided <- WithUnseal
    Present <- Unsealed
    MaxFaults = 0
PROPERTIES CoreConverges
