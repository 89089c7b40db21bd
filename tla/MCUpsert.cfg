CONSTANTS
    m1 = m1
    m2 = m2
    m3 = m3
    k1 = k1
    k2 = k2
    w1 = w1
    w2 = w2
    Messages <- MCMessages
    Keys = {k1, k2}
    KeyOf <- MCKeyOf
    Malformed = {m3}
    Workers = {w1, w2}
    MaxAttempts = 3
    MaxFaults = 2
    MaxCrashes = 1
SPECIFICATION FairSpec
INVARIANTS TypeOK RejectedOnlyByFaults NothingLost
PROPERTIES ImplementsStore EverySettled
CHECK_DEADLOCK FALSE
