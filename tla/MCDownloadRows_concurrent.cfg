CONSTANTS
    Threads = {t1, t2}
    Workers = {w1}
    Cancellers = {}
    Events = {e1}
    MaxBuild = 1
    BuildSize <- OneChunk
    Dated = TRUE
    MaxRetries = 1
    Operations = {"check", "discard"}
    MaxFileOps = 1
    MaxRestarts = 0
    NoEvent = NoEvent
SYMMETRY Symmetry
SPECIFICATION Spec
INVARIANTS  CheckingHasItsCheck
PROPERTIES LifecycleKept
