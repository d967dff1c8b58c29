CONSTANTS
    cli = cli
    srv = srv
    SeqSpace = 64
    MSS = 1
    RcvWnd = 8
    MaxRexmit = 1
    InitSsthresh = 8
    Flavour = "Reno"
    Peer <- MCPeer
    Iss <- LowIss
    Scenarios <- OneLoss
    MaxInFlight = 1
    MaxSynRexmit = 1
SPECIFICATION Spec
INVARIANT EndsTornDown
CHECK_DEADLOCK FALSE
