SPECIFICATION FairSpec
CONSTANTS
    None = None
    a = a
    b = b
    k1 = k1
    k2 = k2
    Calls <- TwoCalls
    Requests <- SomeRequests
    Refs = {1}
    Settings <- SomeSettings
    Key = k1
    Keys <- TwoKeys
    Adapters <- BothAdapters
    Columns <- TwoColumns
    Samples <- SomeSamples
    MaxFaults = 1
INVARIANTS
    TypeOK
    HandlesReturned
    WriteOnce
    AnswersAreWhole
    TestedMeansPollable
PROPERTY CallsEnd
CHECK_DEADLOCK FALSE
