SPECIFICATION Spec
CONSTANTS
    Scans = {k1}
    Servers = {s1, s2}
    Cancels = {r1}
    MaxCrashes = 0
PROPERTY
    CancelledStays
CHECK_DEADLOCK FALSE
