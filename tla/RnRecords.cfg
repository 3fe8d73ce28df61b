SPECIFICATION Spec
CONSTANTS
    U32Max = 25
    SecondMs = 10
    Proper = {"p1", "p2"}
    Malformed = {"root"}
    MaxSources = 3
    MaxTime = 3
INVARIANTS
    RecordsOwned
    RecordsExact
