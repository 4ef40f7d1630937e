CONSTANTS
    Threads = {t1}
    Workers = {w1}
    Cancellers = {c1}
    Events = {e1, e2}
    MaxBuild = 1
    BuildSize <- OneChunk
    Dated = TRUE
    MaxRetries = 1
    Operations = {"discard"}
    MaxFileOps = 0
    MaxRestarts = 0
    NoEvent = NoEvent
SPECIFICATION Spec
PROPERTIES DiscardSparesTransfers
