SPECIFICATION Spec
CONSTANTS
    Servers = {s1}
    MaxInt = 65535
    Cases <- AllCases
CHECK_DEADLOCK FALSE
INVARIANTS TypeOK ConfigPrecedence RunsAsConfigured SetupUndone
