SPECIFICATION Spec
CONSTANTS
    c1 = c1  c2 = c2  c3 = c3  host = host  peer = peer
    Conn <- MCConn
    LocalAddr <- MCLocalAddr
    RemoteAddr <- MCRemoteAddr
    LocalPort <- MCLocalPort
    RemotePort <- MCRemotePort
    EphStart = 1024
    EphEnd = 1026
    MaxConnId = 3
    Unspecified = Unspecified
    NULL = NULL
SYMMETRY ConnSymmetry
INVARIANTS TypeOK TablesConsistent PortsAccounted
PROPERTIES EphemeralFresh ForkedListenerStays
