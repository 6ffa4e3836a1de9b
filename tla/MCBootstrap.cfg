SPECIFICATION FairSpec
CONSTANTS
    None = None
    NoKey = NoKey
    Classes = {"std", "fast"}
    Confs = {"c1", "c2", "c3", "bad"}
    BadHostLinks = {"bad"}
    Pods = {"p1", "p2"}
    Vals = {"a", "b", "c"}
    Specs <- BootstrapSpecs
    InitSpecs <- PlainOrNone
    InitSts <- NoneOnly
    InitSecrets <- NoInputs
    InitNeutron = None
    InputWrites <- BootstrapWrites
    Ordinals = {0}
    ClusterDefault = "std"
    Namespace = "openstack"
    DatabaseAccount = "neutron"
    Deletes = FALSE
    MaxOrphans = 2
    MaxEdits = 5
    MaxFaults = 1
PROPERTIES
    Convergence
CHECK_DEADLOCK FALSE
