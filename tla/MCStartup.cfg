SPECIFICATION Spec
CONSTANTS
  Environments <- MCEnvironments
  Submissions <- MCSubmissions
  Parts <- MCParts
  Depth <- MCDepth
INVARIANTS
  ServesWithinLimits
  PanicsOnlyOnWrittenInterval
  OpenOnlyIfAsked
  HeadersAllowed
  ContentKept
  AllRecipientsOrNone
  SenderIsEnvelopes
\* A refused or panicked process stops.
CHECK_DEADLOCK FALSE
