SPECIFICATION Spec
CONSTANTS
    r1 = r1
    r2 = r2
    a1 = a1
    a2 = a2
    Requests = {r1, r2}
    Apps = {a1}
    CloseCodes = {3000}
    ResponseLimit = 2
    HeartbeatsOn = FALSE
    MaxSends = 2
    None = None
SYMMETRY Symmetry
INVARIANTS IInv NoSilentLoss InOrder OpenFrameOnce FlushedWhileAttached
PROPERTIES ReceiversKeepContract ImplementsOutbox
CHECK_DEADLOCK FALSE
