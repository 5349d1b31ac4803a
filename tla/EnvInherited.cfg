CONSTANTS
    Clients = {c1}
    Apps = {a1}
    Values = {v1, v2}
    Keys = {k1}
    None = None
    MaxInt = 32767
    Scopes <- Inheriting

SPECIFICATION Spec
CHECK_DEADLOCK FALSE

INVARIANTS
    Inherited
