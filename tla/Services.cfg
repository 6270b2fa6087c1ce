SPECIFICATION ServicesSpec
CONSTANTS
    Workers = {w1}
    Nothing = Nothing
    AgentRooms = {1, 2}
    MaxOrders = 2
    MaxRemovalFaults = 1
    LastSummary = 2
    MaxSummaryFaults = 1
    Askers = {a1, a2}
    LastRow = 3
    MaxTranscriptionFaults = 2
    Posts = {p1, p2, p3}
    Ratings = {1, 2, 3, 4, 5}
    Texts = {t1, Silent}
    NonRespondent = Silent
    Null = Null
    Missing = Missing
    Conns = {c1, c2, c3}
    Checking = {c1, c2}
    PingTimeout = TRUE
    MaxCrashes = 1
INVARIANTS ServicesTypeOK RequestedHolds GoneIsOffline
PROPERTIES SummariesHold TranscriptionHolds AnswersCome
CHECK_DEADLOCK FALSE
