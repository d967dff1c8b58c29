CONSTANTS
    SeqSpace = 32
    StreamLen = 10
    RcvWnd = 8
    FirstSeqs = {2, 28}
SPECIFICATION Spec
INVARIANT RegionsCanonical
PROPERTY ImplementsReassembly
CHECK_DEADLOCK FALSE
