CONSTANTS
    Apps = {a1}
    Entries = {e1, e2}
    Pids = {p1, p2}
    Policies = {"always"}
    None = None
    MaxRestarts = 1

SPECIFICATION FairSpec
VIEW Reachable

PROPERTIES
    CommandsAnswered
    LostProcessIsHandled
    ShutdownCompletes
