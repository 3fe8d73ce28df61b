SPECIFICATION Spec
CONSTANTS
    MaxNames = 2
    Addresses = {"a4", "a6"}
    Inet6 = {"a6"}
    HaveInet6 = TRUE
    MaxPieces = 2
INVARIANTS
    HttpTimeoutUsed
CHECK_DEADLOCK FALSE
