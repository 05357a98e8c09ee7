SPECIFICATION ImageSpec
CONSTANTS
    Sessions = {s1, s2}
    Origins = {o1, o2}
    None = None
SYMMETRY IdSymmetry
 
INVARIANT UnsettledIsOnFile
INVARIANT SettledBeforeReset
 
PROPERTY ClaimedFirst
