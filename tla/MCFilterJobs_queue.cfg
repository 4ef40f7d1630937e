CONSTANTS
    Jobs = {j1, j2, j3, j4}
    MaxParallel = 2
    Commands = 1
    Requests = {"cancel"}
    MaxFaults = 0
    MaxRestarts = 0
SYMMETRY Symmetry
SPECIFICATION Spec
INVARIANTS FailedCommandFailsJob NoIdleSlot NobodyWaitsInVain
PROPERTIES SlotsImplementQueue
CHECK_DEADLOCK FALSE
