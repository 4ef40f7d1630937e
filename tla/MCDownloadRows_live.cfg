CONSTANTS
    Threads = {t1}
    Workers = {w1}
    Cancellers = {c1}
    Events = {e1}
    MaxBuild = 2
    BuildSize <- OneChunk
    Dated = TRUE
    MaxRetries = 1
    Operations = {"check"}
    MaxFileOps = 0
    MaxRestarts = 0
    NoEvent = NoEvent
SPECIFICATION FairSpec
INVARIANTS OffersFollowFigures
PROPERTIES CheckEnds CancelSettles
