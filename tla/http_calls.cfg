SPECIFICATION Spec
CONSTANTS
    Pids = {p1, p2}
    Clients = {c1}
    None = None
    Empty = Empty
    Torn = Torn
    MaxRequests = 1
    StopWaitsExpire = FALSE
SYMMETRY SafetySymmetry
INVARIANT ServingProved
INVARIANT StopLeavesNothing
