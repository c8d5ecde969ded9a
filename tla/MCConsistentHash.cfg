SPECIFICATION RingSpec
CONSTANTS
    a = a
    b = b
    c = c
    Peer <- MCPeer
    Size = 6
    Replicas = 1
    Weight <- MCWeight
    NewWeights = {2}
    NoPeer = NoPeer
INVARIANTS RingInv LookupsFindMembers
PROPERTY MinimalDisruption
CHECK_DEADLOCK FALSE
