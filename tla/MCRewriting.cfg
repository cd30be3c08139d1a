CONSTANTS
    Hits <- MCHits
    MlHits <- MCMlHits
    Policies <- MCPolicies
    Turns <- MCTurns
    ReplyPlaces <- MCReplyPlaces
    MaxTurns = 2
    MaxChanges = 1

SPECIFICATION Spec
CHECK_DEADLOCK FALSE

INVARIANTS
    SecretsAlwaysCut
    MaskedAsAsked
    EchoIsWalked
    FallbackCovers
