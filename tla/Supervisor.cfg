CONSTANTS
    MaxRetries = 3
    MaxRuns = 3
    MinBackoff = 1
    MaxBackoff = 3
SPECIFICATION Spec
CHECK_DEADLOCK FALSE
INVARIANTS TypeOK NothingLeftBetweenRuns NilOnlyAfterCleanExit
PROPERTIES CanceledReturns FailureHandled
