CONSTANTS
    Apps = {a1, a2}
    Pids = {p1, p2}
    Versions = {v1, v2}

SPECIFICATION Spec
SYMMETRY Symmetric

INVARIANTS
    TypeOK
    NameFreeAtCreate
    DeployedIsRequested
    CommandsReachTheirMode
