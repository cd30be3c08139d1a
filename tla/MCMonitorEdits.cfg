CONSTANTS
    Clis = {c1, c2}
    Requests <- MCRequests
    Edits <- MCEdits
    Entities <- MCEntities
    Builtin <- MCBuiltin
    Upper <- MCUpper
    UserDocs <- MCUserDocs
    Phrases = {"u", "v"}
    Rules <- MCRules
    Ports = {p1, p2}
    MaxCommands = 2
    MaxEdits = 1
    MaxStarts = 2
SYMMETRY Symmetry
SPECIFICATION EditsSpec
INVARIANTS CommandsDoWhatTheySay LiveFollowsFiles TyposStayOut EditsStand
CHECK_DEADLOCK FALSE
