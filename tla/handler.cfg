SPECIFICATION FairSpec
CONSTANTS
    r1 = r1
    r2 = r2
    i1 = i1
    i2 = i2
    Requests = {r1, r2}
    IDs = {i1, i2}
    MaxSessions = 2
    None = None
INVARIANTS LiveIsFound
PROPERTIES ClosedIsRemoved LookupReturns
