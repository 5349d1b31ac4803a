CONSTANTS
    Projects = {p1, p2}
    AppNames = {"a"}
    Hostnames = {"a", "x"}
    Domains = {d1, d2}
    Addrs = {ip1, ip2}
    Ports = {q1}
    Objs = {o1, o2}
    Handlers = {h1, h2}
    None = None
    Scopes <- Everything

SPECIFICATION Spec
VIEW Reachable
SYMMETRY Symmetric

INVARIANTS
    TypeOK
    RoutesHaveOwners
    DeployedIsRouted
