CONSTANTS
    HoldTime = 2
    GateGap = 1
    ConfirmTime = 2
    DetectorGap = 1
    StableTime = 2
    RecoveryTimeout = 2
    MaxFailures = 2
    SampleGap = 1
    Presses <- MCPresses
    MotionSteps = 1
SPECIFICATION Spec
VIEW MCView
INVARIANTS
    ThreadsBelongToMode
    PublishedIsCoherent
PROPERTIES
    TargetsAreOfThisSession
    ChangesAreEarned
    Implements
CHECK_DEADLOCK FALSE
