SPECIFICATION FairSpec
CONSTANTS
    NumJobs = 2
    MaxBytes = 2
    MaxRetained = 2
    MaxJobs = 2
    MaxReaders = 1
    MaxCrashes = 1
    MaxFaults = 1

    
    
PROPERTIES
    
    Settles
CHECK_DEADLOCK FALSE
