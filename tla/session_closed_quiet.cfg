SPECIFICATION Spec
CONSTANTS
    r1 = r1
    r2 = r2
    a1 = a1
    a2 = a2
    Requests = {r1, r2}
    Apps = {a1}
    CloseCodes = {}
    ResponseLimit = 2
    HeartbeatsOn = FALSE
    MaxSends = 1
    None = None
SYMMETRY Symmetry
PROPERTY ClosedIsQuiet
CHECK_DEADLOCK FALSE
