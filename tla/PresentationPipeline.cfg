SPECIFICATION FairSpec
CONSTANTS
  Slots = {v1, v2}
  Live = {v1}
  AllowAllLive = FALSE
  MaxStreams = 2
  MaxFrames = 2
  None = none
INVARIANTS
    RunClean
PROPERTIES
    KeepsContract
    StopEndsTask
