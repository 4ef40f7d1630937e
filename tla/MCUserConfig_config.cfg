CONSTANTS
    Unit = 2
    Threads = {t1, t2}
    Dirs = {d1, d2}
    NoDir = NoDir
    DefaultDir = DefaultDir
    Cpus = {1, 2}
    Overrides = {0, 2}
    MaxRequests = 3
SYMMETRY Symmetry
SPECIFICATION Spec
INVARIANTS MountIsConfirmed UnlockedByLaunch LimitsAgree
