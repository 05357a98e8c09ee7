SPECIFICATION Spec
CONSTANTS
    Sessions = {s1}
    Endpoints = {e1}
    Pids = {p1, p2}
    Callers = {c1, c2}
    None = None
    Free = Free
    Foreign = Foreign
    StopWaitsExpire = TRUE
    CallersDie = TRUE
SYMMETRY SafetySymmetry
INVARIANT RecordHonest
INVARIANT AttachConfirmed
PROPERTY RecordNeverRegresses
