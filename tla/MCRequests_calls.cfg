SPECIFICATION Spec
CONSTANTS
    Calls = {c1, c2}
    Announces = {n1}
    Ghosts = {g1}
    Addrs = {a1}
    TidSpace = 2
    Nobody = Nobody
INVARIANTS
    NoLostWakeup
    LeaksOnlyByCancel
    OnlyTwinsInterfere
    AnswersMatch
PROPERTIES
    KeepsPromise
    EveryCallReturns
CHECK_DEADLOCK FALSE
