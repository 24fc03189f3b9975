CONSTANTS
    Handles = {h1}
    NoHandle = NoHandle
    Correlations = {k1}
    NoCorrelation = NoCorrelation
    Callers = {c1}
    Deliverers = {d1}
    MaxGeneration = 1
    MaxTime = 3
    Milli = 2
    MaxLifetime = 2
    HandleTTL = 1
    MaxHandles = 1
    Capacity = 1
SPECIFICATION Spec
CHECK_DEADLOCK FALSE
PROPERTIES PendingResolved
