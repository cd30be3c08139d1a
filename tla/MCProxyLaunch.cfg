CONSTANTS
    h1 = h1
    h2 = h2
    p1 = p1
    p2 = p2
    Hooks = {h1, h2}
    NewBuild = {h2}
    Ports = {p1, p2}
    PortConfigs = {NoPort, p1, p2}
    NoPort = NoPort
    NoRec = NoRec
    NoHook = NoHook
    Free = Free
    Foreign = Foreign

SYMMETRY PortSymmetry
SPECIFICATION Spec
CHECK_DEADLOCK FALSE

INVARIANTS
    SinglePinnedProxy
PROPERTIES
    AdoptsOnlyOurProxy
    SuccessorRecordSurvives
