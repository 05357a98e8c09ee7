SPECIFICATION FairSpec
CONSTANTS
    Pids = {p1}
    Clients = {c1, c2}
    None = None
    Empty = Empty
    Torn = Torn
    MaxRequests = 2
    StopWaitsExpire = TRUE
    Tree <- MCTree
    Links <- MCLinks
    Parent <- MCParent
    Regular <- MCRegular
    ServedRoot = "root"
    Nowhere = Nowhere
    MaxSize = 3
    MaxDepth = 3
INVARIANT RangeExact
INVARIANT ServedExactly
PROPERTY OnlyHandlersUndoTheEnd
PROPERTY SelfTerminates
