SPECIFICATION FairSpec
CONSTANTS
    Sessions = {s1, s2}
    Endpoints = {e1}
    Pids = {p1, p2}
    Callers = {c1}
    None = None
    Free = Free
    Foreign = Foreign
    StopWaitsExpire = FALSE
    CallersDie = FALSE
INVARIANT EjectBeforeInsert
INVARIANT DaemonTracked
PROPERTY StopTakesEffect
PROPERTY CallsReturn
