SPECIFICATION FairSpec
CONSTANTS
    None = None
    NoKey = NoKey
    Classes = {"std", "fast"}
    Confs = {"c1", "c2", "c3", "bad"}
    BadHostLinks = {"bad"}
    Pods = {"p1", "p2"}
    Vals = {"a", "b", "c"}
    Specs <- DeletionSpecs
    InitSpecs <- Logs1Only
    InitSts <- NoneOnly
    InitSecrets <- AllInputs
    InitNeutron = "a"
    InputWrites = {}
    Ordinals = {0}
    ClusterDefault = "std"
    Namespace = "openstack"
    DatabaseAccount = "neutron"
    Deletes = TRUE
    MaxOrphans = 2
    MaxEdits = 2
    MaxFaults = 0
PROPERTIES
    ImplementsLogClaims
    Convergence
    Cleanup
CHECK_DEADLOCK FALSE
