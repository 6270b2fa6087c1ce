SPECIFICATION FairSpec
CONSTANTS
    Workers = {w1, w2}
    Slots = {s1, s2, s3}
    NoSlot = NoSlot
    MaxRequests = 4
    MaxCrashes = 1
INVARIANTS TypeOK OnePass NoLostWakeup
PROPERTIES ServiceSpec RoutingGoesOn
CHECK_DEADLOCK FALSE
