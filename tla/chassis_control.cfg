SPECIFICATION Spec
CONSTANTS
    t1 = t1
    t2 = t2
    Tasks = {t1, t2}
    Devices = {"network"}
    Wants <- DistinctOptions
    Nobody = Nobody
    None = None
    wait_timeout = 2
    MaxMeddling = 1
SYMMETRY TaskSymmetry
INVARIANT SuccessIsInForce
INVARIANT Convergent
CHECK_DEADLOCK FALSE
