SPECIFICATION Spec
CONSTANTS
  r1 = r1
  r2 = r2
  p1 = p1
  p2 = p2
  w1 = w1
  w2 = w2
  None = None
  RowIds <- OneRow
  Params <- OneParam
  RowKinds <- BadRows
  Workers <- OneWorker
  Jobs <- OneJob
  TicksPerSecond = 2
  Interval = 1
  Cooldown = 0
  Limit = 2
  MaxDelay = 0
  MaxTime = 4
  Faults <- ReadFaults
INVARIANTS AllNewRowsEvaluated
CHECK_DEADLOCK FALSE
