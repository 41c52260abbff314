SPECIFICATION MessagingSpec
CONSTANTS
    NumEvents = 2
    Message <- MCMessage
    Nothing = Nothing
    m1 = m1
    Dispatchers = {d1, d2}
    Senders = {s1, s2}
    BatchSize = 2
    MaxAttempts = 2
    MaxTries = 2
    MaxFaults = 1
INVARIANTS
    SettledForAReason
    SecondSendNeedsFault
PROPERTIES
    IdleCancelIsFinal
    EveryEventSettles
CHECK_DEADLOCK FALSE
