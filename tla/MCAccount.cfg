SPECIFICATION AccountSpec
CONSTANTS
    i1 = i1
    i2 = i2
    d3 = d3
    o1 = o1
    o2 = o2
    Zones <- ZonesDayApart
    Day = 4
    Limit = 2
    MaxClock = 9
    Job = j1
    Jobs = {j1}
    Leaseless = {}
    Ticks = {i1, i2}
    NoTick = NoTick
    Processes = 1
    Batch = 1
    MaxAttempts = 3
    Lease = 1
    Backoff <- MCBackoff
    MaxBackoff = 2
    MaxTickAge = 4
    MaxContinuations = 0
    Objects = 3
    PageSize = 2
    SharedStorage = TRUE
    LineIds = {1, 2, 3}
    CardMemories = {m1, m2}
    Generators = {i1, i2}
    ReportHandlers = {i1, i2}
    LineMax = 2
    MaxReportAttempts = 2
    MaxVersion = 5
    Spirits = {1, 2, 3}
    FriendIds = {1, 2, 3}
    EdgeIds = {11, 12}
    FriendHandlers = {i1, i2}
    Owners = {o1, o2}
    Devices = {i1, i2, d3}
    OwnerOf <- MCOwnerOf
    CreateIds = {1, 2}
    PatchIds = {11, 12}
    InviteCodes = {1, 2}
    MaxAllocate = 2
    MaxReaders = 1
    MaxProfile <- MCMaxProfile
    NoticeDevices = {d3}
    NoticeEvents = {i1, i2}
    NoticeZones = {0, 1}
    NoticeDay = 3
    QuietHours <- MCQuietHours
    DailyCap = 1
    MaxHour = 2
    NoticeLag = 0
SYMMETRY AccountSymmetry
INVARIANTS UsageInv DeleteInv ReportInv FriendsInv ProfileInv NoticesInv
PROPERTIES BackWithinZones ReportSteps SeenIsPatched
CHECK_DEADLOCK FALSE
