CONSTANTS
    Servers = {s1}
    NoServer = NoServer
    AttachFails = FALSE
SPECIFICATION Spec
CHECK_DEADLOCK FALSE
PROPERTIES StopCompletes
