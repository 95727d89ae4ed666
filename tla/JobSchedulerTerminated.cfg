SPECIFICATION Spec
CONSTANTS
    Jobs = {1}
    Execs = {1, 2}
    Servers = {s1, s2}
    Procs = {"p1"}
    Creates <- PublishOnly
    Updates <- NoUpdates
    MaxTime = 0
    MaxRequests = 3
    MaxCrashes = 0
PROPERTY
    TerminatedStays
CHECK_DEADLOCK FALSE
