SPECIFICATION Spec
CONSTANTS
    Jobs = {1}
    Execs = {1, 2}
    Servers = {s1, s2}
    Procs = {"p1"}
    Creates <- OneCreate
    Updates <- AllUpdates
    MaxTime = 2
    MaxRequests = 2
    MaxCrashes = 0
INVARIANT
    NoDuplicateRun
CHECK_DEADLOCK FALSE
