SPECIFICATION FairSpec
CONSTANTS
    r1 = r1  r2 = r2  good = good  better = better  bad = bad  q1 = q1  q2 = q2
    Rules <- OneRule
    Specs <- AllSpecs
    ValidSpecs <- GoodBetter
    Requests <- OneRequest
    Ops <- AllOps
    Faults <- AllFaults
    MaxRequests = 2
    MaxFaults = 2
    Overlap = FALSE
    NoRow = NoRow
    NoSpec = NoSpec
INVARIANTS
    TypeOK
    ScheduledWasEnabledAndValid
    JobsMatchRules
    ActiveMeansScheduled
PROPERTY EnabledRuleGetsScheduled
CHECK_DEADLOCK FALSE
