SPECIFICATION Spec
CONSTANTS
    InitialDelay = 1000
    MaxDelay = 5000
    Modulus = 12000
    Ticks = {1000}
    MaxTime = 20000
    MaxEndpoints = 7
INVARIANTS
    TypeOK
    AllOrNothing
    NothingDangles
    BackoffExact
