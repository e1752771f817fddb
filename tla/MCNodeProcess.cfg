SPECIFICATION FairSpec
CONSTANTS
    p1 = p1
    p2 = p2
    NoPacket = NoPacket
    NoPeer = NoPeer
    Packet <- Packets
    Peer <- Peers
    Depth <- Depths
    DedupSize = 1
    Response <- Responses
    MaxItems = 2
    ChannelSize = 1
    Loads <- LoadSets
    Active = TRUE
    MaxChunks = 1
    MaxReads = 1
INVARIANTS OwnThreadsQuiet SenderOnce StreamComplete 
PROPERTIES  LowNotStarved
CHECK_DEADLOCK FALSE
