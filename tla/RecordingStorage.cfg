SPECIFICATION PartSpec
CONSTANTS
    NumDirs = 1
    NumSegs = 3
    DirOf <- OneCamera
    Stamps = {0, 1}
    MaxSize = 1
    MaxTime = 2
    MinClosed = 1
    MaxProgress = 0
    Capacity = 3
    Policies <- RetentionPolicies
    History = {1, 2}
    Asked = {}
    MaxRestarts = 0
    MaxGen = 2
    Cameras = 3
    CameraOf <- OneEach
    Readings = {0}
    LastTick = 1
    MinAge = 2
    Places = 2
    Volume = 4
    Rules <- OneRule
    Polled = {1, 2, 3}
    Starts = 1
    Scans = 2
INVARIANTS
    DeletedWasStable
PROPERTIES
    DeletionsJustified
    ProgressHonest
CHECK_DEADLOCK FALSE
