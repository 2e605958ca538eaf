SPECIFICATION Spec
CONSTANTS
    r1 = r1
    r2 = r2
    a1 = a1
    a2 = a2
    Requests = {r1, r2}
    Apps = {a1, a2}
    CloseCodes = {3000, 3001}
    ResponseLimit = 2
    HeartbeatsOn = TRUE
    MaxSends = 0
    None = None
SYMMETRY Symmetry
INVARIANTS CloseChOnce OneCloseFrame ExpiryPending HeartbeatPending
PROPERTY NoLiveDetach
CHECK_DEADLOCK FALSE
