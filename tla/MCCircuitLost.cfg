SPECIFICATION CircuitFairSpec
CONSTANTS
    Calls = {c1, c2}
    NotOpen = NotOpen
    Window = 3
    OpenTime = 2
    MinSamples = 2
    HalfOpenMax = 1
    RetryCount = 1
    MaxCall = 1
    MaxSamples = 4
PROPERTY AdmitsAgain
