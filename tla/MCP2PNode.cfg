CONSTANTS
    host = host
    Ip <- Hosts
    ListenPort <- Listen
    OutPort <- Out
    PeerLists <- Lists
    Tells <- Ports
    SelfAddr <- Self
    ConfigNodes <- Given
    BootstrapNodes <- Bootstrappers
    HardConnectionLimit = 2
    MaxAllowedNodes = 1
    DesiredNodes = 1
    DisallowMultiplePeersOnIp = FALSE
    MaxChanges = 1
    MaxToken = 2
    MaxRequests = 1
SPECIFICATION FairSpec
INVARIANTS
    AtMostOneTo
    
    SelfIdKnown
PROPERTIES
    Settled
