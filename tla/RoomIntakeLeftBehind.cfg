SPECIFICATION RoomsSpec
CONSTANTS
    Contacts = {c1, c2}
    Queues = {q1}
    Rooms = {r1, r2}
    Agents = {a1}
    Threads = {t1, t2}
    NoRow = NoRow
    NoAgent = NoAgent
    NoThread = NoThread
    RoomsLimit = 1
    QueueLimit <- GivenQueueLimit
    PriorityRouting = TRUE
    Recheck = TRUE
    CalcMetrics = TRUE
    DashRooms = {dr1, dr2}
    DashQueues = {dq1, dq2}
    DashSectors = {ds1, ds2}
    TagSector = ds1
    QueueIn <- GivenQueueIn
    SectorWith <- GivenSectorWith
    FirstRoomIs = dr1
    FirstQueueIs = dq1
    DashAgents = {t1, t2}
    NoOne = NoOne
    DashTags = {dt1, dt2}
    MaxRemovals = 1
    PageRows = {1, 2, 3, 4}
    PageSize = 2
    MaxMoves = 2
    MaxResumes = 1
    FlowRooms = {fr1}
    WhatsAppRooms = {fr1}
    Flows = {f1}
    NoFlow = NoFlow
    FlowRequests = {t1, t2}
    NotARoom = NotARoom
    NoStart = NoStart
    MaxStarts = 2
    RoomTags = {rt1, rt2}
    RoomSectors = {rs1, rs2}
    FirstTagIs = rt1
    FirstSectorIs = rs1
    SectorOf <- GivenSectorOf
    TagsRequiredIn = {rs1}
    NoteUsers = {u1}
    Unassigned = Unassigned
    Notes = {n1}
    MediaLimit = 2
    DetailRequests = {t1, t2}
SYMMETRY Alike
INVARIANTS NoRoomLeftBehind
