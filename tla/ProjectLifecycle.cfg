CONSTANTS
    Ids = {i1, i2, i3}
    Names = {n1, n2}
    Handlers = {h1, h2}
    None = None
    Scopes <- Everything

SPECIFICATION Spec
SYMMETRY Symmetric
CHECK_DEADLOCK FALSE

INVARIANTS
    TypeOK
    OneByOneStaysLoadable
    DeletedStaysDeleted
    ConfirmedIsDurable
    DeletedMeansDestroyed
    RunningKeepsDisk
    RecordsMatchVMs
