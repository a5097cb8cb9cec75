SPECIFICATION CoreFairSpec
CONSTANTS
    Lives <- Sites
    Provided <- WithUnseal
    Present <- Unchecked
    MaxFaults = 1
INVARIANTS CoreTypeOK CreatedInOrder
PROPERTIES CoreKeepsContract ServicesFollowAPI CoreConverges
