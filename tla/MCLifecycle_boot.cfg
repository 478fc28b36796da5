SPECIFICATION Spec
CONSTANTS
    Hosts = {"h1", "h2", "h3"}
    Families = {"v4", "v6"}
    Reachable <- MCReachable
    MaxAttempts = 2
INVARIANTS
    GivesUpOnlyWithoutAnyone
PROPERTIES
    BootstrapSettles
CHECK_DEADLOCK FALSE
