------------------------------ MODULE MCHandler ------------------------------
EXTENDS Handler

CONSTANTS r1, r2, i1, i2
=============================================================================
