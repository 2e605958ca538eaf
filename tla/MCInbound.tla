------------------------------ MODULE MCInbound ------------------------------
EXTENDS Inbound

CONSTANTS p1, p2, q1, q2
=============================================================================
