SPECIFICATION Spec
CONSTANTS
    Servers = {s1, s2}
    MaxInt = 65535
    Cases <- OneEmbedded
CHECK_DEADLOCK FALSE
INVARIANTS OwnWorkingDirectory
