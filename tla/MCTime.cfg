SPECIFICATION TimeFairSpec
CONSTANTS
    Calls = {c1, c2}
    NotOpen = NotOpen
    Window = 3
    OpenTime = 2
    MinSamples = 2
    HalfOpenMax = 1
    RetryCount = 1
    MaxCall = 1
    MaxSamples = 3
    Uploads = {u1, u2}
    NoUpload = NoUpload
    Moderations = {m1}
    Cleaners = {k1}
    TTL = 2
    Recalls = {r1, r2}
    StudyAfter = 1
    LostAfter = 3
    MaxLag = 1
    MaxJobs = 2
    MaxVisits = 1
INVARIANTS CircuitInv SpiritInv
PROPERTIES ClosedByProbe NeverLostEarly AdmitsAgainIfRecorded MarkedIfCleaned EventuallyLost
CHECK_DEADLOCK FALSE
