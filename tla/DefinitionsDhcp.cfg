SPECIFICATION Spec
CONSTANTS
    a1 = a1
    a2 = a2
    c1 = c1
    c2 = c2
    t1 = t1
    t2 = t2
    PdServers <- Actors
    Definitions = {"d"}
    Contents <- Texts
    PdJobs = {1, 2}
    MaxVersion = 3
    DhcpTargets <- Machines
    Nameless = {}
    DhcpScopes <- MCScopes
    Syncs <- Actors
    LinkPrefixes = {1}
    Tags = {"g1", "g2"}
    Ips = {"i"}
    NoIp = "none"
    Names = {"old", "new"}
    Files <- MCFiles
    Devices <- MCDevices
    AssetIds = {1, 2}
    MaxLookup = 2
SYMMETRY Symmetry
INVARIANTS
    PdTypeOK
    HistoryKept
    VersionNamesContent
    OneJobPerDefinition
    PublishedHasJob
    DhcpTypeOK
    OkIsStored
    NoLeftovers
    LeaseAtHome
    CmTypeOK
PROPERTIES
    KeepsALog
    NoFailureAllStored
CHECK_DEADLOCK FALSE
