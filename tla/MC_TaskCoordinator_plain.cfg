SPECIFICATION Spec
CONSTANTS
    Task = {1, 2, 3}
    NsPerSecond = 2
    Sat = {1, 2, 3}
    Server = {1, 2}
    SourceNode <- MC_Source
    HostNode <- MC_Host
    ResultNode <- MC_Result
    Arrival <- MC_Arrival
    WorkOf <- MC_Work
    Budget <- MC_Feasible
    Rate <- MC_Rate
    Handlers = FALSE
    StopTime = 7
    MaxFaults = 2
INVARIANTS
    CompletionValid
CHECK_DEADLOCK FALSE
