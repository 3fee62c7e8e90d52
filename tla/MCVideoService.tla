--------------------------- MODULE MCVideoService ---------------------------
EXTENDS VideoService

CONSTANTS c1, c2
=============================================================================
