CONSTANTS
    Msg <- Messages
    MsgOf <- From
    MsgLen <- Lengths
    MsgPriority <- Priority
    MaxPings = 0
    NOISE_MAX_PAYLOAD_LEN = 2
    MAC_LENGTH = 1
    READ_SIZE = 12
    WRITE_SIZE = 5
    SOCKET_SIZE = 12
    Coalesce = TRUE
SPECIFICATION Spec
CHECK_DEADLOCK FALSE
INVARIANTS
    CarryoverProcessed
