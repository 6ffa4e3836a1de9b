SPECIFICATION FairSpec
CONSTANTS
    LivenessProbes <- AllProbes
    NoProbe = NoProbe
    Tick = 5
    InitTimes <- StartTimes
    MaxOutages = 2
    MaxTimeouts = 2
PROPERTIES
    KillsHaveCause
    SelfHealing
CHECK_DEADLOCK FALSE
