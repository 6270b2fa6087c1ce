SPECIFICATION RequestsSpec
CONSTANTS
    BulkRequests = {b1, b2}
    Everything = b1
    BulkRooms = {r1, r2}
    HeldRoom = r1
    Named <- GivenNamed
    BulkAgents = {a1}
    Unassigned = Unassigned
    BulkQueues = {k1, k2}
    NoQueue = NoQueue
    BatchSize = 1
    MaxBulkFaults = 1
    Contacts = {c1}
    LastDay = 2
    LastTime = 3
    MaxHolidaySaves = 2
    PinRequests = {v1, v2}
    PinRooms = {k3, k4}
    PinAgents = {a1}
    NoAgent = NoAgent
    NoRoom = NoRoom
    PinLimit = 1
    TalkRequests = {v1, v2}
    Members = {m1, m2}
    Managers = {m1}
    Nobody = Nobody
    TalkLimit = 1
    MaxTalkFaults = 1
    TopicRequests = {v1, v2}
    Topics = {k3, k4}
    FlowRooms = {r1}
    NoTopic = NoTopic
    MaxTopicTasks = 3
    MaxTopicFaults = 1
    Editors = {v1, v2}
    SectorTags = {t1}
    ConfigKeys = {k1}
    Dates = {d1}
    Limits = {1, 2}
    MaxEdits = 3
    UserRequests = {v1, v2}
    FirstNames = {n1}
    Languages = {en}
    NotSet = NotSet
    NoUser = NoUser
    NotCached = NotCached
    MaxUserIds = 2
    ConfigRequests = {v1, v2}
    OrgProjects = {k3, k4}
    Options = {o1}
    NoOption = NoOption
    NoProject = NoProject
    NoConfig = NoConfig
    FlowsRetries = 2
    MaxChanges = 2
SYMMETRY Alike
INVARIANTS RequestsTypeOK RequestsHold PinsHold TalkHolds SettingsHold
CHECK_DEADLOCK FALSE
