SPECIFICATION FairSpec
CONSTANTS
    Task = {1, 2, 3}
    NsPerSecond = 2
    Sat = {1, 2, 3}
    Server = {1, 2}
    SourceNode <- MC_Source
    HostNode <- MC_Host
    ResultNode <- MC_Result
    Arrival <- MC_Arrival
    WorkOf <- MC_Work
    Budget <- MC_Budget
    Rate <- MC_Rate
    Handlers = TRUE
    StopTime = 6
    MaxFaults = 2
INVARIANTS
    ServicesAgree NoneOnDeadSatellite NothingLeftBehind
PROPERTIES
    DueCompletionCounts AllSettled Implements
CHECK_DEADLOCK FALSE
