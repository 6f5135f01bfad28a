SPECIFICATION PartSpec
CONSTANTS
    Login = {l1, l2}
    Role = {r1, r2}
    None = None
    MaxChanges = 2
    MaxStep = 1
    NumRecovery = 1
    Users = {1, 2}
    Profiles = {1}
    Requests = {1, 2}
    MaxCalls = 4
SYMMETRY Symmetry
INVARIANTS
    SessionsSound
    
PROPERTIES
    AdmittedCurrent
CHECK_DEADLOCK FALSE
