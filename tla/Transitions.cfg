CONSTANTS
    HoldTime = 100
    GateGap = 10
    ConfirmTime = 20
    DetectorGap = 10
    StableTime = 6
    RecoveryTimeout = 14
    MaxFailures = 3
    SampleGap = 2
    Keys = {"A", "B"}
    Identifiers <- MCIdentifiers
    Texts <- MCTexts
SPECIFICATION Spec
INVARIANTS
    RequestsAreExact
    ConfirmationsAreExact
    DecidesForCause
    ConditionsReadTheGrammar
PROPERTY
    FiresOnlyAfterRelease
CHECK_DEADLOCK FALSE
