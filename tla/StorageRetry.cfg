SPECIFICATION Spec
CONSTANTS
    Dir = {d1, d2}
    Default = d1
    Seg = {s1, s2}
    MaxCrashes = 0
    MaxFaults = 1
    MaxTampers = 0
INVARIANTS
    RetryReusesCopies
CHECK_DEADLOCK FALSE
