SPECIFICATION Spec
CONSTANTS
    NumJobs = 1
    MaxBytes = 1
    MaxRetained = 1
    MaxJobs = 1
    MaxReaders = 1
    MaxCrashes = 1
    MaxFaults = 1
INVARIANTS
    RefusedNeverOffered
CHECK_DEADLOCK FALSE
