CONSTANTS
    cli = cli
    srv = srv
    SeqSpace = 64
    MSS = 1
    RcvWnd = 2
    MaxRexmit = 1
    InitSsthresh = 8
    Flavour = "Reno"
    Peer <- MCPeer
    Iss <- WrapIss
    Scenarios <- FaultOrTimerScenarios
    MaxInFlight = 2
    MaxSynRexmit = 1
SPECIFICATION Spec
INVARIANT DeliveredExactly
INVARIANT AckedArrived
INVARIANT FlowControlled
INVARIANT UnackedRepeatable
INVARIANT TimersFit
INVARIANT NoRuntimeError
PROPERTY SilentAfterFinal
CHECK_DEADLOCK FALSE
