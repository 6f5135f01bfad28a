SPECIFICATION FairSpec
CONSTANTS
    Path = {p1, p2}
    MaxRequests = 2
    MaxFaults = 4
INVARIANTS
    ServiceOwned
    ReadyMeansAppliedUnlessCleared
PROPERTIES
    Recovers
CHECK_DEADLOCK FALSE
