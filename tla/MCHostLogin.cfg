SPECIFICATION Spec
CONSTANTS
  c1 = c1  c2 = c2  p1 = p1  p2 = p2  a1 = a1  a2 = a2  net = net
  Conns = {c1, c2}
  Nobody = Nobody
  Peers = {p1, p2}
  Allowed = {p1}
  Asks <- MCAsks
  Buckets = {a1, a2, net}
  AddressOf <- MCAddressOf
  PrefixesOf <- MCPrefixesOf
  Limit <- MCLimit
  PerMinute = 1
  DecayWindow = 1
  MaxConsecutive = 2
  FreeFailures = 0
  BackoffBase = 1
  BackoffMax = 2
  IdleReset = 3
  MaxLogins <- MCMaxLogins
  MaxInvites = 1
  MaxClock = 1
INVARIANTS AuthorizedProved ClickServesWhatWasSeen FailuresBounded GuessesBounded
CHECK_DEADLOCK FALSE
