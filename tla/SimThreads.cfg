SPECIFICATION Spec
CONSTANTS
    MaxDrops = 2
    MaxReloads = 2
    MayEnd = TRUE
INVARIANT
    HandoverIsSafe
    ShownIsStepped
PROPERTY
    WindowIsServed
CHECK_DEADLOCK FALSE
