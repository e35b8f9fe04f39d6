CONSTANTS
    Quicks = {"lt", "dpad_up"}
    Guides = {"lt", "right_y"}
    Axes = {0, 1}
    Buttons = {0}
    Lowest <- MCLowest
    Highest = 7
    QuickPositions = {0, 7}
    StartDelta = 2
    MinimumPeak = 4
    Recenter = 1
    CaptureTime = 1
    MaxEvents = 1
    Positions <- MCPositions
    Rests = {0}
    MinExcursion = 2
    FullRange = 4
    StableCount = 2
    StableTime = 1
    Nil = Nil
SPECIFICATION MappingSpec
VIEW MCView
INVARIANTS
    DraftsAreUsable
    OfferIsHeld
PROPERTY
    BindsTheGesture
CHECK_DEADLOCK FALSE
