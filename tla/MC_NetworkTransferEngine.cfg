SPECIFICATION Spec
CONSTANTS
    Sat = {1, 2, 3, 4}
    Topology <- MC_Topology
    Bandwidth <- MC_Bandwidth
    Transfer = {1, 2, 3}
    Source <- MC_Source
    Destination <- MC_Destination
    PacketCount <- MC_Packets
    Rank <- MC_Rank
    Runtime = {2, 3}
    Optional = {3}
    Routings = {"SIZE_AWARE", "CAPACITY_AWARE"}
    MaxLoss = 1
    MaxUpdates = 2
INVARIANTS
    NeverAborts LedgerExact SendersHoldPaths QueueExact NoneWaitsInVain
CHECK_DEADLOCK FALSE
