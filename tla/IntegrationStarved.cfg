SPECIFICATION FairSpec
CONSTANTS
    Neural = {n1}
    Analytics = {}
    Camera = {a, b}
    Answer = {yes}
    Event = {}
    MaxEvents = 2
    MaxRows = 2
    Batch = 2
    MaxPending = 2
    MaxRetained = 1
    MaxAttempts = 1
    Window = 1
    PullLimit = 2
PROPERTIES
    DeliveredAtLeastOnce
CHECK_DEADLOCK FALSE
