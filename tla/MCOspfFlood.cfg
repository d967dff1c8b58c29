CONSTANTS
    Key <- Three
    KeyOrder <- OneToThree
    HeadersPerDD = 1
    Scenario <- Updated
SPECIFICATION Spec
INVARIANT DatabasesAgree
