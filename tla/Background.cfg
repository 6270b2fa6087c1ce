SPECIFICATION BackgroundSpec
CONSTANTS
    Workers = {w1, w2}
    Nothing = Nothing
    Reports = {1, 2}
    Exports = {2}
    ChunksOf <- GivenChunksOf
    MaxRetryCount = 3
    MaxReportFaults = 3
    MaxOutlived = 2
    ArchivedRooms = {1}
    LastMessage = 3
    MaxArchiveFaults = 3
    MaxRedeliveries = 1
    SendRooms = {r1, r2}
    MaxBulkKills = 1
    MaxResends = 1
    MaxMetricFaults = 1
    MaxExpiries = 1
    MaxVersion = 2
    MaxFlows = 2
    MaxEnables = 2
    MaxFlowFaults = 1
INVARIANTS BackgroundTypeOK ArchivedWhole OutcomesHold
PROPERTIES TakeoversHold JobsEnd
CHECK_DEADLOCK FALSE
