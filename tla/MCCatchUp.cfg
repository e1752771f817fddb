SPECIFICATION FairSpec
CONSTANTS
    Peer = {p, q}
    NoPeer = NoPeer
    MaxChanges = 1
    MaxInbox = 1
    MaxQueue = 1
INVARIANTS
    CatchUpPeerExact
    PendingQueued
PROPERTIES
    CatchUpEnds
    PendingServed
