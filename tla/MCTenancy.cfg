SPECIFICATION Spec
CONSTANTS
    Users = {u1, u2}
    Tenants = {t1, t2}
    Names = {n1}
    Requests = {r1, r2, r3}
    None = None
SYMMETRY Symmetry
INVARIANTS
    TypeOK
    NameOncePerFounder
PROPERTIES
    ChangesAuthorised
    RemovalSticks
CHECK_DEADLOCK FALSE
