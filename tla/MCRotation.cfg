SPECIFICATION WatchSpec
CONSTANTS
    None = None
    NoKey = NoKey
    Classes = {"std", "fast"}
    Confs = {"c1", "c2", "c3", "bad"}
    BadHostLinks = {"bad"}
    Pods = {"p1", "p2"}
    Vals = {"a", "b", "c"}
    Specs <- RotationSpecs
    InitSpecs <- PlainOnly
    InitSts <- NoneOnly
    InitSecrets <- AllInputs
    InitNeutron = "a"
    InputWrites <- RotationWrites
    Ordinals = {0}
    ClusterDefault = "std"
    Namespace = "openstack"
    DatabaseAccount = "neutron"
    Deletes = FALSE
    MaxOrphans = 2
    MaxEdits = 2
    MaxFaults = 1
INVARIANTS
    MountsExist
    FreshMatch
PROPERTIES
    ImplementsConfigRollout
    ReadyMeansApplied
    SecretsReachPods
