SPECIFICATION Spec
CONSTANTS
    q1 = q1
    q2 = q2
    kQueue = kQueue
    kSector = kSector
    Rooms = {r1}
    Agents = {a1, a2}
    NoAgent = NoAgent
    NoRoom = NoRoom
    Queues = {q1}
    Keys = {kQueue, kSector}
    Covers <- GivenCovers
    Handlers = {h1}
    Limit <- GivenLimit
    Recheck = TRUE
    General = TRUE
    MaxRequests = 1
SYMMETRY Alike
PROPERTIES NeverRoutedAgain
