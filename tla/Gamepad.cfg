CONSTANTS
    Controls = {"left_x", "lt", "dpad_up", "dpad_down", "dpad_left"}
    Axes = {0, 1}
    Buttons = {0}
    Lowest <- MCLowest
    Highest = 7
    AxisCount = 1
    ButtonCount = 1
    Devices = {"d1", "d2", "d3"}
    Ids = {"p1", "p2"}
    IdOf <- MCIdOf
    Requests = {"r1", "r2"}
    MaxWrites = 3
    MaxLosses = 1
    Pads = {"a", "b", "c"}
    Slots = {0, 1}
    Model <- MCModel
    Serial <- MCSerial
    Counts <- MCCounts
    Wanted <- MCWanted
    MaxPlugs = 3
    Limit = 2
    DeadZone = 2
    MaxQueue = 2
    None = None
SPECIFICATION GamepadSpec
INVARIANTS
    VerdictsAreRight
    StoreIsSafe
PROPERTIES
    SimulatorStarts
    LossIsNeutral
CHECK_DEADLOCK FALSE
