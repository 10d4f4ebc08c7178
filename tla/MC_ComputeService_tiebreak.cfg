SPECIFICATION Spec
CONSTANTS
    Task = {1, 2, 3}
    NsPerSecond = 2
    HomeTask <- MC_OrdinaryHome
    RecoveryTask <- MC_NoGuest
    ReplicaTask <- MC_NoGuest
    WorkOf <- MC_OrdinaryWork
    CatchupOf <- MC_NoCatchup
    Rate = 3
    Inclusive = FALSE
    StopTime = 4
INVARIANTS
    SameInstantById
CHECK_DEADLOCK FALSE
