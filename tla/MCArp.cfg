CONSTANTS
    h1 = h1
    h2 = h2
    r = r
    Node <- Hosts
    Lan <- TwoLans
    Interface <- Joined
    Proxy <- Router
    Route <- Routes
    Broadcast = Broadcast
    Multicast = Multicast
    retryCount = 2
    Flow <- Flows
    MaxPackets <- Packets
SPECIFICATION FairSpec
INVARIANT TypeOK
INVARIANT TimerIffPending
INVARIANT PacketsAccounted
INVARIANT InOrder
INVARIANT SentWhereHeard
PROPERTY Resolves
CHECK_DEADLOCK FALSE
