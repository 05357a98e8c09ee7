SPECIFICATION FairSpec
CONSTANTS
    Calls <- AllCalls
    Codes = {"00", "b2"}
    MaxRetries = 2
    ReadTime = 2
    Oversleep = 1
    MaxFaults = 2
INVARIANT ReportComplete
INVARIANT ExpiredNeverReported
INVARIANT SessionBudget
INVARIANT SampleFaithful
PROPERTY ReportEnds
CHECK_DEADLOCK FALSE
