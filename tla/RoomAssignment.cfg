SPECIFICATION Spec
CONSTANTS
    q1 = q1
    q2 = q2
    kQueue = kQueue
    kSector = kSector
    Rooms = {r1, r2}
    Agents = {a1, a2}
    NoAgent = NoAgent
    NoRoom = NoRoom
    Queues = {q1, q2}
    Keys = {kQueue, kSector}
    Covers <- GivenCovers
    Handlers = {h1}
    Limit <- GivenLimit
    Recheck = TRUE
    General = TRUE
    MaxRequests = 1
SYMMETRY Alike
CONSTRAINT OneAwayAtMost
INVARIANTS TypeOK OvershootBounded
PROPERTIES ClosedHolds RoutedOnce
