CONSTANTS
    cli = cli
    srv = srv
    SeqSpace = 64
    MSS = 1
    RcvWnd = 2
    MaxRexmit = 1
    InitSsthresh = 8
    Flavour = "Reno"
    Peer <- MCPeer
    Iss <- WrapIss
    Scenarios <- FaultScenarios
    MaxInFlight = 1
    MaxSynRexmit = 1
SPECIFICATION Spec
INVARIANT SegmentsFromQueue
CHECK_DEADLOCK FALSE
