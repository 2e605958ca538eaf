SPECIFICATION FairSpec
CONSTANTS
    r1 = r1
    r2 = r2
    a1 = a1
    a2 = a2
    Requests = {r1, r2}
    Apps = {a1}
    CloseCodes = {3000}
    ResponseLimit = 1
    HeartbeatsOn = FALSE
    MaxSends = 1
    None = None
PROPERTIES ClosingCompletes AbandonedExpires EndedRequestsReturn InterruptionCloses
CHECK_DEADLOCK FALSE
