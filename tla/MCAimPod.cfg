CONSTANTS
    Specs <- NamedSpecs
    NoSpec = NoSpec
    Rollbacks = FALSE
    MaxEdits = 2
    MaxDeaths = 1
SPECIFICATION FairSpec
INVARIANTS
    MountsBacked
    StartsUsable
PROPERTIES
    PodSettles
CHECK_DEADLOCK FALSE
