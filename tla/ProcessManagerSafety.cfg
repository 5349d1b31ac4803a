CONSTANTS
    Apps = {a1, a2}
    Entries = {e1, e2}
    Pids = {p1, p2, p3}
    Policies = {"never", "on-failure", "always"}
    None = None
    MaxRestarts = 1

SPECIFICATION Spec
SYMMETRY Symmetric
VIEW Reachable

INVARIANTS
    TypeOK
    LiveIsTracked
    OneProcessPerApp
    AnsweredStopIsEffective
    NothingLeftBehind
    DoneClosedOnce
    DownMeansDead
    RestartBudget

PROPERTY
    KeepsSupervision
