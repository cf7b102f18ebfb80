SPECIFICATION DeleteFairSpec
CONSTANTS
    Job = j1
    Jobs = {j1}
    Leaseless = {}
    Ticks = {t1, t2}
    NoTick = NoTick
    Processes = 1
    Batch = 1
    MaxAttempts = 2
    Lease = 1
    Backoff <- MCBackoff
    MaxBackoff = 2
    MaxTickAge = 4
    MaxContinuations = 0
    Objects = 1
    PageSize = 1
    SharedStorage = FALSE
PROPERTY DeletionEnds
