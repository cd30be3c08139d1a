CONSTANTS
    s1 = s1
    s2 = s2
    p1 = p1
    p2 = p2
    mine = mine
    teams = teams
    Sessions = {s1, s2}
    Ports = {p1, p2}
    NoPort = NoPort
    Gateway = Gateway
    Lines = {mine, teams}
    OurLine = OurLine
    NoLine = NoLine
    StartFiles <- SomeProjects
    Hatches = {TRUE, FALSE}
    OwnUrls = {p2}
    MaxOps = 3

SYMMETRY SessionSymmetry

SPECIFICATION Spec
CHECK_DEADLOCK FALSE

INVARIANTS
    GateIsClosed
    UsersSettingsKept
    DisableIsComplete
    NarrationIsCurrent
