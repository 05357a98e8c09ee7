SPECIFICATION FairSpec
CONSTANTS
    HEADER_LEN = 2
    MAX_PACKET_PAYLOAD = 3
    OPCODE_OFFSET = 0
    Lengths = {0, 1, 3, 4}
    MaxFrames = 3
    MaxLines = 5
    MaxLimit = 2
INVARIANT TraceSummaryExact
INVARIANT ResponsesPaired
PROPERTY StopNoticed
PROPERTY DesyncEnds
PROPERTY RequestServed
CHECK_DEADLOCK FALSE
INVARIANT AccountsExact
