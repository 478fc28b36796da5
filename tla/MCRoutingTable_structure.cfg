SPECIFICATION Spec
CONSTANTS
    Bits = 4
    Pow <- MCPow
    SelfId = 5
    K = 3
    MaxSize = 5
    Addrs = {a1}
    InputIds <- StructureIds
    MarkIds <- StructureMarks
    Inactivity = 1
    MaxClock = 0
    MaxLen = 7
INVARIANTS
    TypeOK
    FiledWhereLookedFor
    CapacityHolds
    SplitIsSound
    OneLeafPerDistance
PROPERTIES
    InsertReturns
