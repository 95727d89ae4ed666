SPECIFICATION FairSpec
CONSTANTS
    Scans = {k1}
    Servers = {s1, s2}
    Cancels = {r1, r2}
    MaxCrashes = 1
INVARIANTS
    TypeOK
    RegistryIsCurrent
    NoStrayProcess
    RunningHasRunner
PROPERTY
    ScansEnd
CHECK_DEADLOCK FALSE
