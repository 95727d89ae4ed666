SPECIFICATION Spec
CONSTANTS
    a1 = a1
    a2 = a2
    CfgUsers = {a1}
    DeviceIds = {"d1"}
    Hosts = {"h1"}
    NoHost = "none"
    TypedHosts = {"h1"}
    Bodies <- HostOnly
    Policies = {"p1"}
    Reports = {1}
    Plans = {1}
    Groups = {"g"}
    Runs = {}
    Cap = 1
    MaxStamp = 1
    Width = 3
    Nets = {}
    Aggregates = {1}
    Prefixes = {1}
    IpamUsers = {a1}
    MaxMembers = 2
INVARIANTS
    AvailableUncovered
CHECK_DEADLOCK FALSE
