SPECIFICATION VisitPageFairSpec
CONSTANTS
    Jobs = {v1, v2}
    Leaseless = {}
    Ticks = {t1, t2}
    NoTick = NoTick
    NoJob = NoJob
    Processes = 2
    Batch = 2
    MaxAttempts = 2
    Lease = 1
    Backoff <- MCBackoff
    MaxBackoff = 1
    MaxTickAge = 3
    MaxContinuations = 0
    PerPlan = 2
    Ids = {1, 2, 3}
    ReadIds = {1, 2}
    PageLimit = 1
    MaxTime = 2
    m1 = m1
    NoSource = NoSource
    Sources = {s1, s2}
    Requests = {q1, q2, q3}
    Expirers = {e1}
    Messages = {m1}
    MessageOf <- MCMessageOf
    Dates <- MCDates
    Limit = 1
    TTL = 2
    MaxCall = 1
INVARIANTS VisitTypeOK OneOutcome PagesInv SpeechTypeOK WithinLimit LedgerExact AnsweredIffCharged
PROPERTIES LifecycleSpec HomeAfterLast VisitsEnd GivenBackIfExpired
