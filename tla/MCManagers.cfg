SPECIFICATION ManagersSpec
CONSTANTS
    None = None
    NoKey = NoKey
    Classes = {"std", "fast"}
    Confs = {"c1", "c2", "c3", "bad"}
    BadHostLinks = {"bad"}
    Pods = {"p1", "p2"}
    Vals = {"a", "b", "c"}
    Specs <- Logs2Only
    InitSpecs <- Logs1Only
    InitSts <- LegacyOnly
    InitSecrets <- AllInputs
    InitNeutron = "a"
    InputWrites = {}
    Ordinals = {0}
    ClusterDefault = "std"
    Namespace = "openstack"
    DatabaseAccount = "neutron"
    Deletes = FALSE
    MaxOrphans = 2
    MaxEdits = 1
    MaxFaults = 0
    MaxVersions = 1
PROPERTIES
    ImplementsLogClaims
    ManagersDeleteExamined
CHECK_DEADLOCK FALSE
