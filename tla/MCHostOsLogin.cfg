SPECIFICATION Spec
CONSTANTS
  c1 = c1  c2 = c2  p1 = p1  p2 = p2  a1 = a1  a2 = a2  net = net
  Conns = {c1, c2}
  Nobody = Nobody
  Peers = {p1, p2}
  Allowed = {p1}
  Asks <- OsAsks
  Buckets = {a1, a2, net}
  AddressOf <- MCAddressOf
  PrefixesOf <- MCPrefixesOf
  Limit <- OsLimit
  PerMinute = 1
  DecayWindow = 1
  MaxConsecutive = 2
  FreeFailures = 0
  BackoffBase = 1
  BackoffMax = 2
  IdleReset = 2
  MaxLogins <- OsMaxLogins
  MaxInvites = 0
  MaxClock = 3
PROPERTIES WhitelistBudget BackoffHolds
CHECK_DEADLOCK FALSE
