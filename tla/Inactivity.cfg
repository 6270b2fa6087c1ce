SPECIFICATION FairSpec
CONSTANTS
    Workers = {w1, w2}
    Handlers = {h1, h2}
    Nobody = Nobody
    Warn = 1
    CloseAfter = 1
    LockLapses = FALSE
    Outcomes = {"sent", "no_text"}
    MaxTime = 4
    MaxRequests = 3
    MaxCrashes = 1
INVARIANTS
    TypeOK
    TicksDoNotOverlap
PROPERTIES
    ContactKeepsOpen
    OverdueIsClosed
