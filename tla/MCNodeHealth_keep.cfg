SPECIFICATION Spec
CONSTANTS
    Claims <- MCClaims
    Mortal = {"a2"}
    MaxSize = 1
    Inactivity = 2
    PingEvery = 2
    MaxVisits = 2
INVARIANTS
    BadIsDeserved
    NoneInLimbo
    TendedInTime
PROPERTIES
    DeadIsNoticed
