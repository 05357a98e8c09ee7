SPECIFICATION Spec
CONSTANTS
    t1 = t1
    t2 = t2
    s1 = s1
    None = None
    Blank = Blank
    Cookie = Cookie
    Done = Done
    Refusal = Refusal
    Tasks = {t1, t2}
    Servers = {s1}
    Wants <- SomeOptions
    MaxRetries = 1
    Lacking <- SomeLacking
SYMMETRY TaskSymmetry
INVARIANT SuccessIsInForce
PROPERTY UnsetLeftAlone
CHECK_DEADLOCK FALSE
