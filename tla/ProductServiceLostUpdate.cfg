SPECIFICATION Spec
CONSTANTS
    Path = {p1, p2}
    MaxRequests = 2
    MaxFaults = 2
INVARIANTS
    ReadyMeansApplied
CHECK_DEADLOCK FALSE
