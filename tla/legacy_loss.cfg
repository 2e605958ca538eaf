SPECIFICATION v2_Spec
CONSTANTS
    r1 = r1
    r2 = r2
    a1 = a1
    Requests = {r1, r2}
    Apps = {a1}
    CloseCodes = {3000}
    ResponseLimit = 2
    HeartbeatsOn = FALSE
    MaxSends = 1
    MaxBroken = 1
    MaxLate = 2
    None = None
SYMMETRY Symmetry
INVARIANT NoSilentLoss
CHECK_DEADLOCK FALSE
