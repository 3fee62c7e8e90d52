SPECIFICATION Spec
CONSTANTS
  c1 = c1  c2 = c2 
  Conns = {c1, c2}
  Nobody = Nobody
  AckRequired = {c1}
  MaxSwitches = 1
INVARIANTS NothingLeft SubscribedAsAsked SharedEncoder
PROPERTY NewcomersServed
CHECK_DEADLOCK FALSE
