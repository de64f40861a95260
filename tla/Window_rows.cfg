SPECIFICATION FairSpec
CONSTANTS
  None = None
  r1 = r1  r2 = r2  p1 = p1  p2 = p2  w1 = w1  w2 = w2
  RowIds <- TwoRows
  Params <- OneParam
  RowKinds <- GoodRows
  Workers <- TwoWorkers
  Jobs <- TwoJobs
  TicksPerSecond = 2
  Interval = 1
  Cooldown = 0
  Limit = 1
  MaxDelay = 0
  MaxTime = 1
  Faults <- CrashFault
INVARIANT NoRowSkipped
PROPERTY RowsAreFetched
CHECK_DEADLOCK FALSE
