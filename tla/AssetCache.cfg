SPECIFICATION Spec
CONSTANTS
    Procs = {p1, p2, p3}
    Releases = {r1, r2}
    Temps = {t1, t2}
SYMMETRY Symmetry
CHECK_DEADLOCK FALSE
INVARIANTS TypeOK DownloadedVerified NoTempLeft SoloExtractionSound
