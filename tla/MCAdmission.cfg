SPECIFICATION AdmissionSpec
CONSTANTS
  c1 = c1
  c2 = c2
  c3 = c3
  c4 = c4
  ip1 = ip1
  ip2 = ip2
  Conns = {c1, c2, c3, c4}
  IPs = {ip1, ip2}
  RemoteIP <- MCRemoteIP
  MaxConnections = 3
  MaxConnectionsPerIP = 2
  RateLimitPerIP = 3
  RequireSTARTTLS = TRUE
  MaxTicks = 1
SYMMETRY ConnSymmetry
INVARIANTS
  AdmissionTypeOK
  TokensExact
  PerIPExact
  SessionsWithinLimits
  RateBounded
