CONSTANTS
    Msg <- Messages
    MsgOf <- From
    MsgLen <- Lengths
    MsgPriority <- Priority
    MaxPings = 1
    NOISE_MAX_PAYLOAD_LEN = 2
    MAC_LENGTH = 1
    READ_SIZE = 4
    WRITE_SIZE = 5
    SOCKET_SIZE = 7
    Coalesce = FALSE
SPECIFICATION Spec
CHECK_DEADLOCK FALSE
INVARIANTS
    Conserved
    
    NothingStuck
