SPECIFICATION Spec
CONSTANTS
    Procs = {p1, p2}
    Releases = {r1}
    Temps = {t1}
CHECK_DEADLOCK FALSE
INVARIANTS ExtractedWhole
