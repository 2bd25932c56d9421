SPECIFICATION StartSpec
CONSTANTS
    Requests = {r0, r1, r2, r3}
    None = None
    MaxTime = 2
    TTL = 3
    Window = 1
    MaxAttempts = 1
    Prompt = FALSE
    First = r0
SYMMETRY Symmetry
INVARIANT ResendVoidsOlder
CHECK_DEADLOCK FALSE
