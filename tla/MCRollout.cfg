SPECIFICATION MCSpec
CONSTANTS
    Instances = {i1, i2}
    Host = i1
    First = t1
    N = 2
    Tags = {t1, t2}
    None = None
    MaxDeploys = 2
    MaxFaults = 1
CHECK_DEADLOCK FALSE
INVARIANTS
    TypeOK
    ServingHasPolicy
    CopiesBounded
    StateTruthful
    SchemaFirst
PROPERTIES
    TableStaysComplete
    AdminServes
