SPECIFICATION Spec
CONSTANTS
    Handles = {1, 2, 3}
    Correlations = {k1}
    Callers = {1, 2}
    MaxTime = 2
    MaxLifetime = 1
    Capacity = 1
CONSTRAINT Situations
CHECK_DEADLOCK FALSE
PROPERTIES
    KeepsPromise
    AssignReturns
    SessionDrained
