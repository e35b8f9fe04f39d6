CONSTANTS
    Half = 4
    Advance = 4
    ArmedTimeout = 2
    ActiveTimeout = 5
    Dpads <- MCDpads
SPECIFICATION FairSpec
INVARIANTS
    StepIsTheOneAsked
PROPERTIES
    StickAndStepWait
    StepsKeepTheGait
    StickTakesOver
