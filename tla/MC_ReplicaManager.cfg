SPECIFICATION Spec
CONSTANTS
    Task = {1, 2}
    NsPerSecond = 1
    Sat = {1, 2, 3, 4}
    Server = {1, 2, 3}
    SourceNode <- MC_Source
    HostNode <- MC_Host
    ResultNode <- MC_Result
    WorkOf <- MC_Work
    Budget <- MC_Budget
    StopTime = 6
    LastInput = 1
    MaxFaults = 2
INVARIANTS
    NeverAborts LosersHoldNothing TakeoverGranted
PROPERTIES
    FailsWithLast
CHECK_DEADLOCK FALSE
