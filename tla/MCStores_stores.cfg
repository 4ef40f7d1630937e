CONSTANTS
    Threads = {t1, t2}
    Keys = {k1, k2}
    BundledKeys = {k1}
    MaxOps = 4
    MaxFailures = 2
SYMMETRY Symmetry
SPECIFICATION Spec
INVARIANTS AcknowledgedKept SavedIsMemory ManifestWhole
CHECK_DEADLOCK FALSE
