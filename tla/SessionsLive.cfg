SPECIFICATION FairSpec
CONSTANTS
    Ids = {s1}
    Requests = {r1}
    Pages = {p1}
    HistoryLimit = 2
    MaxLog = 3
    MaxDrops = 1
    None = None
PROPERTIES
    GapsAreForgotten
    RequestsReturn
    PageIsServed
