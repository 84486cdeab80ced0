SPECIFICATION DlqSpec
CONSTANTS
  j1 = j1
  j2 = j2
  Jobs = {j1, j2}
  Workers = {w1}
  Created <- MCCreated
  PayloadBytes <- MCPayloadBytes
  ClaimLimit = 2
  BatchMaxCount = 1
  BatchMaxBytes = 1000
  LeaseTimeout = 1
  MaxTxLag = 0
  RetryMaxAttempts = 1
  BackoffSchedule <- MCBackoff
  AcceptedStatus = 202
  RejectCodes = {422}
  Budget <- MCBudget
  LongLines = {}
  ExportLimits = {0, 1}
  MaxVariables = 6
  MaxFaults = 1
SYMMETRY RowSymmetry
INVARIANTS
  DlqTypeOK
PROPERTIES
  ReplayComplete
  ReplayResendsOnlyDoubts
