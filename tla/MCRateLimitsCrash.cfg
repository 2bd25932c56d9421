SPECIFICATION FairSpec
CONSTANTS
    Clients = {c1}
    IpLimit = 2
    FailLimit = 2
    MaxCount = 4
PROPERTY FixedWindow
CHECK_DEADLOCK FALSE
