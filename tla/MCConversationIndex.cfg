CONSTANTS
    n1 = n1
    a1 = a1
    a2 = a2
    sys = sys
    hello = hello
    left = left
    right = right
    k1 = k1
    k2 = k2
    Named = {n1}
    Anonymous = {a1, a2}
    SentBy <- Sent
    Surfaces = {sys, hello, left, right}
    System = {sys}
    Prompts = {hello, right}
    Replies = {left}
    TokensOf <- Values
    LaneOf <- Ranks
    MaxRecords = 2
    MaxTracked = 3
    MaxTokens = 1
    MaxOvertaken = 1
    MaxRequests = 5

SPECIFICATION Spec
SYMMETRY AgentSymmetry
CHECK_DEADLOCK FALSE

INVARIANTS
    ConversationsHold
PROPERTIES
    DeltaNeverHides
    LedgerKeepsLive
