SPECIFICATION FairSpec
CONSTANTS
  port_forward_mux = TRUE
  MaxTunnels = 3
INVARIANTS NeverPinned
PROPERTIES LegacyLatched BrokenIsReplaced StoppedEndsTunnels
CHECK_DEADLOCK FALSE
