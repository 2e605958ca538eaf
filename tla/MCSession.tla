------------------------------ MODULE MCSession ------------------------------
EXTENDS SessionInvariant, TLC

CONSTANTS r1, r2, a1, a2

Symmetry == Permutations(Requests) \cup Permutations(Apps)
=============================================================================
