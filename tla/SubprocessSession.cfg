SPECIFICATION Spec
CONSTANTS
    Handles = {h1, h2}
    Correlations = {k1, k2}
    Callers = {c1, c2}
    MaxTime = 2
    MaxLifetime = 1
    Capacity = 2
SYMMETRY Symmetry
CHECK_DEADLOCK FALSE
INVARIANTS
    TypeOK
    HonestPeers
    WipedKeyUnused
    PublishedAsProduced
    ChildMapsAgree
    RefusedNotPublished
