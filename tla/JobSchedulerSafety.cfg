SPECIFICATION Spec
CONSTANTS
    Jobs = {1}
    Execs = {1, 2}
    Servers = {s1, s2}
    Procs = {"p1"}
    Creates <- OneCreate
    Updates <- CronUpdates
    MaxTime = 2
    MaxRequests = 3
    MaxCrashes = 1
SYMMETRY ServerSymmetry
INVARIANTS
    TypeOK
    NoDuplicateRun
    ClaimedRowsStable
    RunningHasDriver
PROPERTIES
    VerdictIsFinal
CHECK_DEADLOCK FALSE
