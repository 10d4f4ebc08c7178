SPECIFICATION FairSpec
CONSTANTS
    Sat = {1, 2, 3, 4}
    Topology <- MC_Connected
    Bandwidth <- MC_Uniform
    Transfer = {1, 2, 3}
    Source <- MC_Source
    Destination <- MC_Destination
    PacketCount <- MC_Packets
    Rank <- MC_Rank
    Runtime = {2}
    Optional = {}
    Routings = {"CAPACITY_AWARE"}
    MaxLoss = 0
    MaxUpdates = 1
PROPERTIES
    StartedEnds
CHECK_DEADLOCK FALSE
