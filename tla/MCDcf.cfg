CONSTANTS
    a = a
    b = b
    c = c
    Station <- Three
    Broadcast = Broadcast
    None = None
    SIFS = 1
    ST = 2
    Airtime <- Control
    SlowAck = 4
    rtsThreshold = 5
    transmissionLimit = 3
    cwMinData = 1
    cwMinBroadcast = 1
    CW_MAX = 4
    maxQueueSize = 2
    Scenarios <- MCScenarios
SPECIFICATION FairSpec
INVARIANT NoRuntimeError
INVARIANT TimersFit
INVARIANT FramesAccounted
PROPERTY SensesCarrier
PROPERTY Settles
CHECK_DEADLOCK FALSE
