CONSTANTS
    Files = {f1, f2, f3}
    Workers = {w1, w2}
    Size <- OneChunk
    Capacity = 2
    Buffer = 0
    Unsteady = {f1, f2}
    NoFile = NoFile
SPECIFICATION FairSpec
INVARIANTS EachInOnePlace
PROPERTIES CancelFreesWorker AcceptedEnds
