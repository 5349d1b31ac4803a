CONSTANTS
    Clients = {c1, c2}
    Apps = {a1, a2}
    Values = {v1, v2}
    Keys = {k1, k2}
    None = None
    MaxInt = 32767
    Scopes <- Everything

SPECIFICATION Spec
SYMMETRY Symmetric
VIEW View
CHECK_DEADLOCK FALSE

INVARIANTS
    TypeOK
    ConfirmedKept
    SecretsReadable
    DeliversEnv
    ResolvedAtStart

PROPERTIES
    ResizedOff
