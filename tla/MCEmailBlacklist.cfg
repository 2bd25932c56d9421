SPECIFICATION Spec
CONSTANTS
    a1 = a1
    Records = {m1}
    Addresses = {a1}
    To <- SameRecipient
    Malformed = {}
    Workers = {w1}
    Hooks = {}
    Events = {}
    Reports = {}
    MaxRetries = 1
    MaxPushes <- Twice
    Faults = FALSE
INVARIANT HardBounceBlacklisted
CHECK_DEADLOCK FALSE
