CONSTANTS
    Projects = {p1}
    AppNames = {"a"}
    Hostnames = {"a", "x"}
    Domains = {d1}
    Addrs = {ip1}
    Ports = {q1}
    Objs = {o1}
    Handlers = {h1}
    None = None
    Scopes <- Stopping

SPECIFICATION Spec

INVARIANTS
    StoppedIsUnrouted
