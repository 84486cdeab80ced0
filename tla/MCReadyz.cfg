SPECIFICATION Spec
CONSTANTS
  w1 = w1
  w2 = w2
  Workers <- MCWorkers
  TicksPerSecond = 2
  Intervals = {12}
  Flush = 1
  MaxClaim = 0
  MaxSend = 0
  MaxFailures = 0
  MaxBefore = 0
INVARIANTS
  ReadyOnceStarted
