---------------------------- MODULE MCGDBusCalls ----------------------------
EXTENDS GDBusCalls

CONSTANTS k1, k2

=============================================================================
