SPECIFICATION Spec
CONSTANTS
    Calls = {c1}
    Announces = {n1}
    Ghosts = {}
    Addrs = {a1}
    TidSpace = 4
    Nobody = Nobody
PROPERTIES
    TrackedWhenQueued
CHECK_DEADLOCK FALSE
