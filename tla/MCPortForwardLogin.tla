------------------------- MODULE MCPortForwardLogin -------------------------
EXTENDS PortForwardLogin
=============================================================================
