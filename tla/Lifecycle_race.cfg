SPECIFICATION Spec
CONSTANTS
    r1 = r1  r2 = r2  good = good  better = better  bad = bad  q1 = q1  q2 = q2
    Rules <- OneRule
    Specs <- GoodOnly
    ValidSpecs <- GoodOnly
    Requests <- TwoRequests
    Ops <- NoDelete
    Faults <- NoFaults
    MaxRequests = 3
    MaxFaults = 0
    Overlap = TRUE
    NoRow = NoRow
    NoSpec = NoSpec
INVARIANT DisabledRuleStops
CHECK_DEADLOCK FALSE
