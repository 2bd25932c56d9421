SPECIFICATION StartSpec
CONSTANTS
    Requests = {r0, r1, r2, r3}
    None = None
    MaxTime = 2
    TTL = 2
    Window = 1
    MaxAttempts = 1
    Prompt = TRUE
    First = r0
SYMMETRY Symmetry
INVARIANTS
    TypeOK
    AcceptedOnce
    GuessesBounded
    ResendVoidsOlder
    OneLiveVerification
PROPERTIES
    AccountContract
    OutboxContract
    RightCodeAccepted
CHECK_DEADLOCK FALSE
