SPECIFICATION Spec
CONSTANTS
    Zones = {"z1", "z2", "z3"}
    Groups = {"g1"}
    Trackers = {"t1"}
    Guards = {x1, x2}
    x1 = x1
    x2 = x2
    Labels = {"l1", "l2"}
    Dynamic = {"z2"}
    Malformed = {"z3", "l2"}
    Wide = {"z1"}
    KeyTtls = {0, 1}
    Horizons = {2}
    DefaultHorizon = 1
    Depth = 2
    Singles = {"bind"}
    MaxDirectives = 2
    MaxNames = 2
    MaxGuards = 1
SYMMETRY MCSymmetry
INVARIANTS
    TypeOK
    LookupsSucceed
    EnabledIsUsable
    NearestWins
    ExpandsAll
CHECK_DEADLOCK FALSE
