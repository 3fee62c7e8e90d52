--------------------------- MODULE MCFlowControl ---------------------------
EXTENDS FlowControl
============================================================================
