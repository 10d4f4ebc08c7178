SPECIFICATION FairSpec
CONSTANTS
    Task = {1, 2, 3, 4}
    NsPerSecond = 2
    HomeTask <- MC_Home
    RecoveryTask <- MC_Recovery
    ReplicaTask <- MC_Replica
    WorkOf <- MC_WorkOf
    CatchupOf <- MC_CatchupOf
    Rate = 3
    Inclusive = TRUE
    StopTime = 3
INVARIANTS
    NoLostDispatch CompletionNeverAborts NoOvertaking
    BusyIsRunTime FinishedExact CatchupReported
PROPERTIES
    FreeSlotTaken
CHECK_DEADLOCK FALSE
