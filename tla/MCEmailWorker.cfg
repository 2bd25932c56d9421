SPECIFICATION FairSpec
CONSTANTS
    a1 = a1
    Records = {m1, m2}
    Addresses = {a1}
    To <- SameRecipient
    Malformed = {m2}
    Workers = {w1, w2}
    Hooks = {h1, h2}
    Events = {e1}
    Reports = {"delivered"}
    MaxRetries = 1
    MaxPushes <- Twice
    Faults = TRUE
INVARIANTS
    TypeOK
    RetriesBounded
    AcceptedOncePerPush
    LateSendsBounded
    EventRecordedOnce
PROPERTIES
    EveryJobSettles
    OutboxContract
CHECK_DEADLOCK FALSE
