SPECIFICATION Spec
CONSTANTS
    Users = {u1, u2}
    Reports = {"sent", "bounced"}
    MaxRows = 2
    MaxWrites = 2
SYMMETRY Symmetry
CHECK_DEADLOCK FALSE
INVARIANTS
    TypeOK
    ActivationsAddUp
    StuckUsersReported
    ExportCounted
