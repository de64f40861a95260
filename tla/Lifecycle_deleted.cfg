SPECIFICATION Spec
CONSTANTS
    r1 = r1  r2 = r2  good = good  better = better  bad = bad  q1 = q1  q2 = q2
    Rules <- OneRule
    Specs <- GoodOnly
    ValidSpecs <- GoodOnly
    Requests <- OneRequest
    Ops <- Stepper
    Faults <- NoFaults
    MaxRequests = 2
    MaxFaults = 0
    Overlap = FALSE
    NoRow = NoRow
    NoSpec = NoSpec
INVARIANT DeletedRuleStops
CHECK_DEADLOCK FALSE
