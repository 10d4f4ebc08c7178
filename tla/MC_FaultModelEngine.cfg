SPECIFICATION Spec
CONSTANTS
    Sat = {1, 2, 3}
    Server = {1, 2}
    Duration = 7
    CheckInterval = 2
    Outage = {1, 2, 3}
INVARIANTS
    NeverRejected ViewsAgree RecoveriesScheduled
    ReplayAgrees
CHECK_DEADLOCK FALSE
