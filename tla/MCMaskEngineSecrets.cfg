CONSTANTS
    r1 = r1
    r2 = r2
    la = la
    m1 = m1
    m2 = m2
    Requests = {r1, r2}
    Leaves = {la}
    HugeResults = {}
    Configs <- TwoConfigs
    StartConfig <- Plain
    Models = {m1, m2}
    NoModel = NoModel
    NoRequest = NoRequest
    SecretSpecs = "optional"
    MaxOps = 0

SPECIFICATION FairSpec
CHECK_DEADLOCK FALSE

INVARIANT MaskedUnderLiveInputs
PROPERTY RequestsEnd
