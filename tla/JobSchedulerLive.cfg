SPECIFICATION FairSpec
CONSTANTS
    Jobs = {1, 2}
    Execs = {1, 2}
    Servers = {s1, s2}
    Procs = {"p1"}
    Creates <- OneCreate
    Updates <- CronUpdates
    MaxTime = 2
    MaxRequests = 2
    MaxCrashes = 1
PROPERTIES
    ExecutionsEnd
    DueIsClaimed
    ImplementsRuns
CHECK_DEADLOCK FALSE
