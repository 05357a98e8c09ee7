SPECIFICATION FairSpec
CONSTANTS
    r1 = r1
    None = None
    Readers = {r1}
    Size = 7
    CD_BLOCK_SIZE = 3
    Lbas = {0, 1, 2, 3}
    Counts = {0, 1, 2}
    Allocs = {0, 12}
    WINDOW_SIZE = 2
    DEFAULT_MAX_WINDOWS = 2
PROPERTY IsMedium
PROPERTY EveryReadAnswered
INVARIANT LastUsedKept
