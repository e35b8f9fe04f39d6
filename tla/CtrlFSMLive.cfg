CONSTANTS
    HoldTime = 1
    GateGap = 1
    ConfirmTime = 1
    DetectorGap = 1
    StableTime = 1
    RecoveryTimeout = 2
    MaxFailures = 1
    SampleGap = 1
    Presses <- MCPressesLive
    MotionSteps = 0
SPECIFICATION FairSpec
PROPERTIES
    RecoveryEnds
    ChangeCompletes
    StateLossEndsInPassive
CHECK_DEADLOCK FALSE
