SPECIFICATION FairSpec
CONSTANTS
    Jobs = {1, 2}
    Execs = {1, 2, 3}
    Servers = {s1}
    Procs = {"p1"}
    Creates <- OneCreate
    Updates <- NoUpdates
    MaxTime = 1
    MaxRequests = 3
    MaxCrashes = 0
PROPERTY
    ClaimIsExecuted
CHECK_DEADLOCK FALSE
