SPECIFICATION TrainingSpec
CONSTANTS
    Paths <- MCPaths
    Resume <- MCResume
    OptIn <- MCOptIn
    Inspect <- MCInspect
    AgentSeed <- MCAgentSeed
    EnvSeed <- MCEnvSeed
    NanGuard <- MCNanGuard
    Guarded <- MCGuarded
    MotionFile <- MCMotionFile
    CommandMotion <- MCCommandMotion
    Resolved <- MCResolved
    Ranks <- MCRanks
    Legal <- MCLegal
    Tried <- MCTried
    Rules <- MCRules
    ReadOnlyRules <- MCReadOnlyRules
    ContractRules <- MCContractRules
    Values <- MCValues
    MaxEntries = 2
    MaxSettings = 3
    Keep = Keep
    NoCost = NoCost
    Envs = {e1, e2}
    Levels <- MCLevels
    Heights <- MCHeights
    Knees <- MCKnees
    Window <- MCWindow
    MaxAir = 4
    MaxCalls = 5
    MaxResamples = 1
    Frames = 5
    Bins = 2
INVARIANTS
    RulesDecide
    LayersAreReplayable
    LandingsAreCharged
    FailsWhereItFell
