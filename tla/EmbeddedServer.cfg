CONSTANTS
    Servers = {s1}
    NoServer = NoServer
    AttachFails = TRUE
SPECIFICATION Spec
CHECK_DEADLOCK FALSE
INVARIANTS TypeOK DrainedBeforeShutdown NoCallIntoTornIsolate NoOrphanedRun
PROPERTIES IsolateReleased ShutdownHeard
