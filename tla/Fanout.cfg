CONSTANTS
    Threads = {t1, t2}
    Clients = {c1, c2}
    MaxVersion = 3
SPECIFICATION FairSpec
INVARIANTS NothingMissed
PROPERTIES EveryoneHears
CHECK_DEADLOCK FALSE
