SPECIFICATION SpeechFairSpec
CONSTANTS
    m1 = m1
    NoSource = NoSource
    Sources = {s1, s2}
    Requests = {q1, q2}
    Expirers = {}
    Messages = {m1}
    MessageOf <- MCMessageOf
    Dates <- MCDates
    Limit = 1
    TTL = 2
    MaxCall = 1
PROPERTY InProgressEnds
