SPECIFICATION Spec
CONSTANTS
    Devices = {a, b}
    Tasks = {t1, t2}
    MaxUnplugs = 1
    MaxHides = 1
    MayArm = TRUE
    None = None
INVARIANT
    FollowsTheActive
    NeverIdle
PROPERTY
    Reconnects
