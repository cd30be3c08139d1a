CONSTANTS
    r1 = r1
    r2 = r2
    la = la
    m1 = m1
    m2 = m2
    Requests = {r1, r2}
    Leaves = {la}
    HugeResults <- BigUnderChanged
    Configs <- AllConfigs
    StartConfig <- Plain
    Models = {m1, m2}
    NoModel = NoModel
    NoRequest = NoRequest
    SecretSpecs = "required"
    MaxOps = 2

SYMMETRY RequestSymmetry
SPECIFICATION Spec
CHECK_DEADLOCK FALSE

INVARIANTS
    MaskedUnderLiveInputs
    NeverDegraded
    EngineConsistent
