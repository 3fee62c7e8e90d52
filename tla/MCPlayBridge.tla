---------------------------- MODULE MCPlayBridge ----------------------------
EXTENDS PlayBridge
=============================================================================
