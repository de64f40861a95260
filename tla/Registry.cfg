SPECIFICATION FairSpec
CONSTANTS
    r1 = r1  r2 = r2  s1 = s1  s2 = s2
    j1 = j1  j2 = j2  j3 = j3  w1 = w1  w2 = w2
    Rules <- TwoRules
    Specs <- TwoSpecs
    JobIds <- TwoJobs
    Workers <- OneWorker
    QueueCap = 1
    NoJob = NoJob
    Free = Free
    Idle = Idle
    Exited = Exited
INVARIANTS
    TypeOK
    NoDoubleClose
    NoOrphanTicker
    MapHoldsLiveJobs
PROPERTIES
    ImplementsJobMap
    RegisteredJobRuns
    GoroutinesReturn
CHECK_DEADLOCK FALSE
