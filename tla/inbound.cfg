SPECIFICATION FairSpec
CONSTANTS
    p1 = p1
    p2 = p2
    q1 = q1
    q2 = q2
    Senders = {p1, p2}
    Readers = {q1, q2}
    MaxBatch = 3
    None = None
INVARIANTS BatchPrefix AnswerIsTrue
PROPERTIES CloseReleases LookupsReturn
