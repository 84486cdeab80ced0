SPECIFICATION Spec
CONSTANTS
  c1 = c1
  c2 = c2
  ip1 = ip1
  Conns = {c1, c2}
  IPs = {ip1}
  RemoteIP <- MCRemoteIP
  MaxConnections = 2
  MaxConnectionsPerIP = 2
  RateLimitPerIP = 3
  RequireSTARTTLS = TRUE
  MaxTicks = 1
  Senders = {a, b, foreign}
  AllowedSenders = {a, b}
  Messages = {m1}
  AllowInsecureAuth = TRUE
  MaxRecipients = 2
  MaxSubmissions = 2
  MaxCrashes = 1
SYMMETRY SessionSymmetry
INVARIANTS
  SessionTypeOK
  RowsAuthorized
  NoCarryOver
  CopiesOnlyOnLostReply
PROPERTIES
  ImplementsSubmission
