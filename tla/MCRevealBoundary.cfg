CONSTANTS
    t1 = t1
    t2 = t2
    k1 = k1
    k2 = k2
    pii = pii
    pass = pass
    psql = psql
    mcp = mcp
    db = db
    Turns = {t1, t2}
    Values = {pii, pass}
    AdminKeys <- TwoProcesses
    SecretOps <- PassIsBroker
    MaxCarried = 2
    Required = TRUE
    Policies <- TwoPolicies
    StartPolicy <- Detecting
    LiteralOf <- SharedLiteral
    Sad = {pii}
    Tools = {psql}
    BoundaryTools = {mcp}
    Hosts = {db}
    BrokerPolicies <- Rules
    NoValue = NoValue
    MaxOps = 1

SPECIFICATION Spec
SYMMETRY TurnSymmetry
CHECK_DEADLOCK FALSE

INVARIANTS
    UnmaskIsFaithful
    RequiredSecretsNeverEgress
    SecretsStayWhereAllowed
