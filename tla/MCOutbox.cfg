SPECIFICATION FairSpec
CONSTANTS
    Jobs = {j1, j2, j3}
    Leaseless = {j3}
    Ticks = {t1, t2}
    NoTick = NoTick
    Processes = 2
    Batch = 2
    MaxAttempts = 2
    Lease = 1
    Backoff <- MCBackoff
    MaxBackoff = 1
    MaxTickAge = 3
    MaxContinuations = 1
INVARIANTS TypeOK AttemptLeft LateIfRobbed LeaseCheckIdle
PROPERTIES LifecycleSpec EventuallySettled
