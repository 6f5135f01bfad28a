SPECIFICATION PartSpec
CONSTANTS
    Neural = {n1}
    Analytics = {x1}
    Camera = {a, b}
    Answer = {yes, no}
    Event = {e1}
    MaxEvents = 2
    MaxRows = 1
    Batch = 2
    MaxPending = 1
    MaxRetained = 1
    MaxAttempts = 2
    Window = 1
    PullLimit = 1
    Ops = {1, 2, 3}
    AuditRows = 3
    MaxBroken = 3
    Writes = {1, 2}
    Reads = {3}
    MaxCancels = 2
    Programs = {1, 2, 3}
    MaxCrashes = 2
    Nonces = {1, 2}
    Clocks = {0, 1}
    NumProfiles = 2
    Budget = 8
    Cams = {1, 2}
    MaxFile = 2
    MaxSize = 1
    MaxBytes = 2
    MaxGen = 1
    MaxProc = 2
    Devs = {1, 2}
    MaxCams = 2
    MaxDevs = 2
    Ports = {1, 2}
    Names = {1}
    AdminReqs = {1, 2}
    ProbeIds = {1}
    MaxSlots = 1
    Sessions = {1}
    MaxOps = 2
    AdminCancels = 1
    MaxFaults = 1
    AdminCrashes = 1
    MaxProbes = 2
SYMMETRY Symmetry
INVARIANTS
    JournalSound
    ReplayHonest
    
    
    AuditSound
    
    
    StartSound

    
CHECK_DEADLOCK FALSE
