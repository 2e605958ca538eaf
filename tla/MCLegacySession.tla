--------------------------- MODULE MCLegacySession ---------------------------
EXTENDS LegacySession, TLC

CONSTANTS r1, r2, a1

Symmetry == Permutations(Requests)
=============================================================================
