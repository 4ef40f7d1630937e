CONSTANTS
    Sources = {s1, s2}
    MaxSources = 2
    MaxBuild = 1
SYMMETRY Symmetry
SPECIFICATION Spec
INVARIANTS OutputsAreFinished DoneIsComplete PhasesTellTheWork LastDroppedIsTold ReportIsNotOlder
PROPERTIES JobRunsOut
CHECK_DEADLOCK FALSE
