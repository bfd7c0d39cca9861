---------------------------- MODULE MCGDBusWorker ----------------------------
EXTENDS GDBusWorker

CONSTANTS m1, m2, f1, c1, c2

=============================================================================
