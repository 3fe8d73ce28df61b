SPECIFICATION FairSpec
CONSTANTS
    Lookups = {l1, l2}
    MaxDepth = 3
INVARIANTS
    TypeOK
    IdentifierIsLive
    OneCallback
    FreedOnceAndInTime
    NothingOutlivesClient
PROPERTIES
    LookupEnds
