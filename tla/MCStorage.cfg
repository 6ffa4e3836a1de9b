SPECIFICATION FairSpec
CONSTANTS
    None = None
    NoKey = NoKey
    Classes = {"std", "fast"}
    Confs = {"c1", "c2", "c3", "bad"}
    BadHostLinks = {"bad"}
    Pods = {"p1", "p2"}
    Vals = {"a", "b", "c"}
    Specs <- StorageSpecs
    InitSpecs <- Logs1Only
    InitSts <- NoneOrLegacy
    InitSecrets <- AllInputs
    InitNeutron = "a"
    InputWrites = {}
    Ordinals = {0, 1}
    ClusterDefault = "std"
    Namespace = "openstack"
    DatabaseAccount = "neutron"
    Deletes = FALSE
    MaxOrphans = 2
    MaxEdits = 2
    MaxFaults = 1
INVARIANTS
    TypeOK
    StatusWritesBounded
PROPERTIES
    ClaimsOnlyGrow
    DeletesOnlyExamined
    StatusFollowsStatefulSet
    Convergence
