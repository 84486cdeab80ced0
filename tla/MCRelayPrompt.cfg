SPECIFICATION Spec
CONSTANTS
  j1 = j1
  j2 = j2
  j3 = j3
  Jobs = {j2, j3}
  Workers = {w1, w2}
  Created <- MCCreated
  PayloadBytes <- MCPayloadBytes
  ClaimLimit = 2
  BatchMaxCount = 2
  BatchMaxBytes = 1000
  LeaseTimeout = 1
  MaxTxLag = 1
  RetryMaxAttempts = 2
  BackoffSchedule <- MCBackoff
  AcceptedStatus = 202
  RejectCodes = {422}
  Budget <- MCBudgetPrompt
SYMMETRY WorkerSymmetry
INVARIANTS
  TypeOK
  ClaimExclusive
  DuplicatesOnlyOnDoubt
  AttemptsBounded
