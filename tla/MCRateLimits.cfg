SPECIFICATION FairSpec
CONSTANTS
    Clients = {c1, c2}
    IpLimit = 2
    FailLimit = 2
    MaxCount = 4
INVARIANTS
    TypeOK
    FailuresBounded
    AdmittedBounded
PROPERTY LimitsLift
CHECK_DEADLOCK FALSE
