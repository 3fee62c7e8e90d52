SPECIFICATION FairSpec
CONSTANTS
  port_forward_mux = TRUE
  MaxTunnels = 2
PROPERTIES RemovedStops
CHECK_DEADLOCK FALSE
