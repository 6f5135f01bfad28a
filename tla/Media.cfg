SPECIFICATION PartSpec
CONSTANTS
    Dir = {d1, d2, d3}
    Default = d1
    Seg = {s1, s2}
    MaxCrashes = 1
    MaxFaults = 1
    MaxTampers = 1
    Stoppers = {1, 2}
    Readers = {1, 2}
    Selections = {1, 2}
    Closers = {1}
    ReadSlots = 1
    MaxThreads = 4
    MaxTasks = 2
    Consumers = {1, 2}
    Sources = {1, 2}
    MaxConsumers = 2
    MaxViewThreads = 5
    MaxCuts = 2
    Slots = {1, 2, 3}
    FrameGoal = 2
    MaxTotalFrames = 3
    MaxCancels = 2
    Exports = {1, 2}
    MaxExports = 1
    Plays = {1, 2}
    Users = {1, 2}
    ControlIds = {1}
    MaxPlays = 2
    Chunks = 1
    MaxVersion = 2
    Calls = {1, 2}
    MaxReplacements = 2
    MaxGenerations = 3
    MaxFrames = 1
    MaxCallsEach = 2
    Launches = {1, 2}
    LaunchSlots = 1
    MaxNative = 1
    MaxShown = 2
    MaxCalls = 1
    MaxStale = 1
    Views = {v1, v2}
    Extents = {0, 1, 3}
    MaxReplace = 1
    MaxPresent = 2
    MaxHandles = 7
    SegmentGoal = 2
    PacketGoal = 3
    MaxSegments = 2
    RecordingSlots = 1
    MaxInterrupts = 6
    MaxIoFaults = 2
    Modulus = 16
    TicksPerMs = 3
    Origin = 13
    Gaps = {0, 4}
    PacketCount = 2
    Numerators = {1, 2}
    Denominators = {1}
    WorkBound = 2
    MaxDecoded = 1
    MaxTime = 4
    MaxPauses = 1
SYMMETRY Symmetry
INVARIANTS
    HistoryFollows
    NoPartialCopyActive
    WindowsSound
    RecordingsWhole
    PlaybackFaithful
    ReadersHonest
    
    
    LaunchesAccounted
PROPERTIES
    ActivatesExactCopy
    NothingOverwritten
    SupervisionSound
CHECK_DEADLOCK FALSE
