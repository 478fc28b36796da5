SPECIFICATION Spec
CONSTANTS
    Ids <- MCIds
    Contacts <- MCContacts
    Dist <- MCDist
    Starts = {"b"}
    Roots <- MCRoots
    MaxDepth = 2
    Limit = 2
    AskAgain = 1
    MaxNamed = 2
    MaxRounds = 1
    MaxClock = 2
    NoId = NoId
INVARIANTS
    UsefulWereAsked
    NotAskedTwice
PROPERTIES
    LookupEnds
CHECK_DEADLOCK FALSE
