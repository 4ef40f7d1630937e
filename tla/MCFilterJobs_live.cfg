CONSTANTS
    Jobs = {j1, j2}
    MaxParallel = 1
    Commands = 1
    Requests = {"cancel", "clear"}
    MaxFaults = 1
    MaxRestarts = 1
SPECIFICATION FairSpec
INVARIANTS InFlightIsAlive
PROPERTIES  JobsEnd
