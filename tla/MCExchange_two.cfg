SPECIFICATION Spec
CONSTANTS
    A = A
    B = B
    C = C
    Nodes = {A, B}
    Others = {C}
    ByteBase = 2
    Table <- MCTable
    ListLimit = 1
    NearEnough = {A, B}
    Announced = {A, B}
    Foreign <- MCForeign
    MaxTokens = 1
    MaxPeers = 1
    MaxGiven = 2
    MaxRequests <- MCMaxRequests
INVARIANTS
    SentParsesBack
    AnswersAnswerQueries
    AnswersFit
    FamiliesApart
    AnnounceLands
CHECK_DEADLOCK FALSE
