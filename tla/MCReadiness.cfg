SPECIFICATION Spec
CONSTANTS
  w1 = w1
  w2 = w2
  Workers <- MCWorkers
  TicksPerSecond = 2
  Intervals = {2, 8}
  Flush = 1
  MaxClaim = 2
  MaxSend = 2
  MaxFailures = 1
  MaxBefore = 1
INVARIANTS
  TimingTypeOK
  RequestsPaced
  PickupBounded
  ReadyWhenPaced
PROPERTIES
  ReadyAgain
