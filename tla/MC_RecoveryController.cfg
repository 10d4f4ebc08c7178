SPECIFICATION Spec
CONSTANTS
    Task = {1, 2}
    NsPerSecond = 1
    Sat = {1, 2, 3, 4, 5}
    Server = {1, 2, 3, 4}
    SourceNode <- MC_Source
    HostNode <- MC_Host
    ResultNode <- MC_Result
    LocalNode <- MC_Local
    RemoteNode <- MC_Remote
    WorkOf <- MC_Work
    LocalWork = 1
    Budget <- MC_Budget
    Capacity <- MC_Capacity
    RemoteCost = 1
    StopTime = 7
    Cuts <- MC_Cuts
    LastInput = 0
    MaxFaults = 2
INVARIANTS
    NeverAborts AttemptsAgree NothingOutlives JoinExact
    DependenciesAlive SlotBounded
PROPERTIES
    OutageSpares
CHECK_DEADLOCK FALSE
