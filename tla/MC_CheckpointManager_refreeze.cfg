SPECIFICATION Spec
CONSTANTS
    Task = {1, 2}
    Sat = {1, 2, 3, 4}
    PrimaryNode <- MC_Primary
    LocalNode <- MC_Local
    RemoteNode <- MC_Remote
    WorkOf <- MC_Work
    InputBytes <- MC_Input
    Header = 1
    Capacity = 9
    CostL = 1
    CostR = 1
    Eager = TRUE
    StopTime = 14
    Cadence <- MC_Cadence
    LastStart <- MC_LastStart
    MaxDelay = 1
    Breakable <- MC_Breakable
    MaxUpsets = 2
INVARIANTS
    SnapshotBacked
CHECK_DEADLOCK FALSE
