SPECIFICATION RestFairSpec
CONSTANTS
    Lives <- DefaultHub
    Provided <- Everything
    Present <- Supplied
    MaxFaults = 0
PROPERTIES RestConverges
