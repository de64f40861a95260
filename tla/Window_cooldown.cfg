SPECIFICATION Spec
CONSTANTS
  None = None
  r1 = r1  r2 = r2  p1 = p1  p2 = p2  w1 = w1  w2 = w2
  RowIds <- OneRow
  Params <- OneParam
  RowKinds <- BadRows
  Workers <- TwoWorkers
  Jobs <- TwoJobs
  TicksPerSecond = 1
  Interval = 1
  Cooldown = 2
  Limit = 1
  MaxDelay = 0
  MaxTime = 2
  Faults <- RunFaults
SYMMETRY Symmetry
INVARIANTS TypeOK CooldownOvershootBounded
PROPERTY WindowAdvances
CHECK_DEADLOCK FALSE
