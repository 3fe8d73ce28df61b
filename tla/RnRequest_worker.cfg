SPECIFICATION Spec
CONSTANTS
    Requests = {r1, r2}
    NoRequest = NoRequest
    Handles = {h1, h2}
    NoHandle = NoHandle
    Locations = {"guarded"}
    Conf <- MCConf
    Results <- MCResults
    Rounds = 2
    BatchMax = 2
    DeadlineAnswers = {TRUE, FALSE}
    MaxRedirects = 0
    MaxRebinds = 3
SYMMETRY MCSymmetry
INVARIANTS
    TypeOK
    Ownership
    InflightExact
    NoLostRebind
    SameSourcePort
    CountBalanced
    FrameAlive
    HoldsWhileSuspended
    VerdictProvenance
PROPERTIES
    ImplementsSourcePort
