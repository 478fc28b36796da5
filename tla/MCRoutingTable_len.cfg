SPECIFICATION Spec
CONSTANTS
    Bits = 3
    Pow <- MCPow
    SelfId = 0
    K = 2
    MaxSize = 2
    Addrs = {a1}
    InputIds = {1, 2, 3}
    MarkIds = {1}
    Inactivity = 1
    MaxClock = 0
    MaxLen = 4
INVARIANTS
    LenIsNodeCount
