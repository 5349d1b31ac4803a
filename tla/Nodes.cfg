CONSTANTS
    Ids = {n1, n2}
    Hosts = {h1}
    Projects = {p1}
    Clients = {c1, c2}
    None = None
    Mishaps = 1

SPECIFICATION Spec

INVARIANTS
    TypeOK
    RegistrySound
    

PROPERTIES
    WantedRuns
