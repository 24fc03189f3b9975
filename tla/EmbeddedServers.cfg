CONSTANTS
    Servers = {s1, s2}
    NoServer = NoServer
    AttachFails = FALSE
SPECIFICATION Spec
SYMMETRY Symmetry
CONSTRAINT OnlyContexts
CHECK_DEADLOCK FALSE
INVARIANTS VerifiedOwnGeneration
