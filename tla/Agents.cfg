SPECIFICATION AgentsSpec
CONSTANTS
    Breaks = {b1, b2}
    NoBreak = NoBreak
    Rooms = {r1, r2}
    NoRoom = NoRoom
    Handlers = {h1, h2}
    Handovers = {1, 2, 3}
    Replies = {m1}
    AtOnce = 2
    MaxStays = 2
    MaxWaitFaults = 1
    TheFeature = n3
    TheUpdate = n4
    EventMessages = {h1, h2, n3, n4}
    EventKind <- GivenEventKind
    Consumers = 2
    TemplateSectors = {s1, s2}
    FeatureSectors = {s2}
    MaxSetupFaults = 1
    MaxClock = 4
    DayLength = 2
    MaxChanges = 2
    LogWorkers = {h1, h2}
    NoTask = NoTask
    ViewRooms = {r3}
    ViewQueues = {k1, k2}
    SectorHas <- GivenSectorHas
    Users = {adm, agt, mgr}
    Admins = {adm}
    NoUser = NoUser
    QueueHistory = TRUE
    AdminsCloseQueued = TRUE
    MaxUpsets = 2
    Prompts = {h1, h2}
    LastSurvey = 2
    EnoughRooms = 1
    ShowingsADay = 1
    MaxEnded = 2
    GroupRequests = {h1, h2}
    GroupMembers = {m1}
    Sectors = {s1, s2}
    SectorQueues = {k1, k2}
    SectorOf <- GivenSectorOf
    LateQueues = {k2}
    MaxGroupRequests = 3
    Attempts = {a1, a2, a3}
    RequestIds = {i1}
    RequestOf <- GivenRequestOf
    NoKey = NoKey
    Pending = Pending
    MaxMessageFaults = 2
    StatusWorkers = {w1}
    WhatsAppIds = {h1, h2}
    Text = m1
    MessageOf <- GivenMessageOf
    BulkSize = 2
    MaxStatusTries = 2
    MaxStatusFaults = 1
SYMMETRY Alike
INVARIANTS AgentsTypeOK AgentsHold OnlineTimeHolds ViewsHold
PROPERTIES BreakHolds
