CONSTANTS
    Key <- Three
    KeyOrder <- OneToThree
    HeadersPerDD = 1
    Scenario <- Repaired
SPECIFICATION FairSpec
PROPERTY AdjacencyForms
