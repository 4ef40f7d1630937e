CONSTANTS
    Threads = {t1}
    Workers = {w1, w2}
    Cancellers = {c1}
    Events = {e1, e2}
    MaxBuild = 1
    BuildSize <- OneChunk
    Dated = TRUE
    MaxRetries = 2
    Operations = {"scan", "check", "discard"}
    MaxFileOps = 1
    MaxRestarts = 1
    NoEvent = NoEvent
SYMMETRY Symmetry
SPECIFICATION Spec
INVARIANTS SingleWorker CancelIsForThisTransfer
PROPERTIES DiscardedReportStays LifecycleKept
