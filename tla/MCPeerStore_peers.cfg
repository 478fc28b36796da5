SPECIFICATION Spec
CONSTANTS
    NodeIds = {n1}
    Hosts = {h1, h2}
    Ports = {p1, p2}
    Tokens = {x}
    InfoHashes = {i1, i2}
    Near = {i1, i2}
    MaxTokens = 1
    MaxPeers = 2
    MaxPerHash = 1
    TokenTTL = 1
    PeerTTL = 2
    GcEvery = 1
    MaxClock = 3
    MaxDumps = 1
    Broken = Broken
SYMMETRY Symmetry
INVARIANTS
    CountExact
    NeverOverLimit
    HostsHadTokens
    StaleIsGone
    ListedOnce
PROPERTIES
    CrowdedOutByItsOwn
