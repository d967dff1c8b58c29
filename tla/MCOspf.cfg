CONSTANTS
    Key <- Three
    KeyOrder <- OneToThree
    HeadersPerDD = 1
    Scenario <- Faulty
SPECIFICATION Spec
INVARIANT NoRuntimeError
INVARIANT ExchangeComplete
INVARIANT TimersArmed
INVARIANT DatabasesAgree
PROPERTY AdjacencyKept
