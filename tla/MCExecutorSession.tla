------------------------- MODULE MCExecutorSession -------------------------
EXTENDS ExecutorSession

CONSTANTS s1, s2, e1, e2, j1
=============================================================================
