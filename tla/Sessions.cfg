SPECIFICATION Spec
CONSTANTS
    Ids = {s1, s2}
    Requests = {r1, r2}
    Pages = {}
    HistoryLimit = 2
    MaxLog = 2
    MaxDrops = 0
    None = None
SYMMETRY Symmetric
INVARIANTS
    NoOrphan
PROPERTIES
    QuietAfterClose
    OwnsAlone
