SPECIFICATION Spec
CONSTANTS
  Licenses = {l1}
  l1 = l1
  KeyIds = {k1, k2}
  k1 = k1
  k2 = k2
  NoKey = NoKey
  Nonces = {n1, n2, n3}
  n1 = n1
  n2 = n2
  n3 = n3
  Seats = {1}
  Terms = {1, 2}
  TOKEN_TTL = 2
  CHALLENGE_TTL = 2
  PerKey = 2
  LockWait = 1
  MaxTime = 3
  MaxEvents = 3
SYMMETRY Symmetry
INVARIANTS SeatLimit OneShot TokenWithinLicense JournalExplains
PROPERTIES RefusedGetsNothing EnrolmentProved
CHECK_DEADLOCK FALSE
