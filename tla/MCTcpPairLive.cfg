CONSTANTS
    cli = cli
    srv = srv
    SeqSpace = 64
    MSS = 1
    RcvWnd = 8
    MaxRexmit = 3
    InitSsthresh = 8
    Flavour = "Reno"
    Peer <- MCPeer
    Iss <- LowIss
    Scenarios <- LiveScenarios
    MaxInFlight = 1
    MaxSynRexmit = 1
SPECIFICATION FairSpec
PROPERTY BothClosed
PROPERTY AllDelivered
CHECK_DEADLOCK FALSE
