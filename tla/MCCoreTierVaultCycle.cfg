SPECIFICATION CoreFairSpec
CONSTANTS
    Lives <- DefaultSite
    Provided <- UserSecrets
    Present <- Supplied
    MaxFaults = 0
PROPERTIES CoreConverges
