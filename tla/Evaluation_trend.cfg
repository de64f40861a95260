SPECIFICATION Spec
CONSTANTS
    None = None
    Garbled = Garbled
    SigmaUnit = 5
    defaultBaselineMinN = 6
    defaultBaselineSubgroups = 4
    defaultBaselineLastN = 8
    defaultTrendWindowSize = 3
    Year = 1000
    TicksPerSecond = 3
    MinPollSeconds = 1
    MaxPollSeconds = 5
    defaultStepperPollIntervalSeconds = 2
    defaultSubgroupSize = 2
    defaultWindowN = 4
    minSamplesRobustZ = 4
    MaxWindowSeconds = 9
    promptPollSeconds = 2
    promptBaselineSeconds = 4
    promptEvalSeconds = 1
    catalogLastN = 9
    Submissions <- TrendSubmissions
    Histories <- QuietHistories
    Arrivals <- SomeArrivals
    Gaps <- SomeGaps
    Delays <- SomeDelays
    MaxSampleRows = 8
    MaxArrivals = 2
    MaxPolls = 2
INVARIANT TrendIsNotMissed
CHECK_DEADLOCK FALSE
