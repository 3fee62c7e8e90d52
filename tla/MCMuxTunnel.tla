--------------------------- MODULE MCMuxTunnel ---------------------------
EXTENDS MuxTunnel
==========================================================================
