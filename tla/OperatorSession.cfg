SPECIFICATION FairSpec
CONSTANTS
  Plans = {p1, p2}
  MaxX = 1
  MaxGen = 2
  MaxPending = 2
  MaxPerCycle = 2
  MaxCycles = 2
  MaxHistory = 1
  MaxOps = 3
  MaxRequests = 3
  MaxFaults = 2
INVARIANTS
    
    LayoutsAgree
PROPERTIES
    SessionEnds
CHECK_DEADLOCK FALSE
