SPECIFICATION Spec
CONSTANTS
    a1 = a1
    a2 = a2
    CfgUsers <- Actors
    DeviceIds = {"d1", "d2"}
    Hosts = {"h1"}
    NoHost = "none"
    TypedHosts = {"h1"}
    Bodies <- MCBodies
    Policies = {"p1"}
    Reports = {1}
    Plans = {1}
    Groups = {"g"}
    Runs <- MCRuns
    Cap = 2
    MaxStamp = 4
    Width = 3
    Nets <- MCNets
    Aggregates = {1, 2}
    Prefixes = {1}
    IpamUsers <- Actors
    MaxMembers = 3
SYMMETRY Symmetry
INVARIANTS
    CfgTypeOK
    CfgReferences
    HostCap
    ReportRunsItsPolicies
    LinksOverwritten
    IpamTypeOK
    CheckedAggregatesDisjoint
    PrefixInside
    RangesTypeOK
    FreeIsReported
    RangesExact
    SimplestList
PROPERTIES
    OldestGoFirst
CHECK_DEADLOCK FALSE
