CONSTANTS
    Clients = {c1, c2}
    Kinds = {"update", "upload"}
    Chunks = 2
    Waiting = 2
    Lines = 1
    None = None
    Faults = {"timeout", "disk", "crash", "rewrite"}

SPECIFICATION Spec
VIEW Relevant
SYMMETRY Symmetric
CHECK_DEADLOCK FALSE

INVARIANTS
    TypeOK
    BinarySurvives
    ReportedIsInstalled

PROPERTIES
    ReplacedAtOnce
