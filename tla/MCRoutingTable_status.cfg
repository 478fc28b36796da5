SPECIFICATION Spec
CONSTANTS
    Bits = 3
    Pow <- MCPow
    SelfId = 0
    K = 2
    MaxSize = 3
    Addrs = {a1, a2}
    InputIds = {1, 2, 3}
    MarkIds = {1}
    Inactivity = 1
    MaxClock = 3
    MaxLen = 4
INVARIANTS
    QuestionableMeansSilent
    LeafAsFreshAsItsNodes
PROPERTIES
    BadUntilAnswer
    ImplementsNodeTable
