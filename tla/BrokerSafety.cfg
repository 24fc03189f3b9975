CONSTANTS
    Handles = {h1, h2, h3}
    NoHandle = NoHandle
    Correlations = {k1, k2}
    NoCorrelation = NoCorrelation
    Callers = {c1, c2}
    Deliverers = {d1}
    MaxGeneration = 2
    MaxTime = 3
    Milli = 2
    MaxLifetime = 2
    HandleTTL = 1
    MaxHandles = 2
    Capacity = 1
SPECIFICATION Spec
SYMMETRY Symmetry
CONSTRAINT Situations
CHECK_DEADLOCK FALSE
INVARIANTS TypeOK PendingHandleOpen HandlesBounded GenerationIsolated FailureReported FramesGranted RejectedStaysClosed
PROPERTIES StaleGenerationHarmless KeepsPromise ExpireOnlyExpired
