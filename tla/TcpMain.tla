------------------------------ MODULE TcpMain ------------------------------
(***************************************************************************)
(* The connection tables of the TCP module (transport/tcp/TCP.cc): which   *)
(* connection object owns which socket pair (tcpConnMap) and which         *)
(* application handle (tcpAppConnMap), and which ephemeral ports are taken *)
(* (usedEphemeralPorts, lastEphemeralPort).                                *)
(*                                                                         *)
(* Every action is one call of TCP::handleMessage: an application command, *)
(* an arriving segment or a timer.  The connection the call is dispatched  *)
(* to is kept at the resolution the tables depend on: its FSM state, with  *)
(* all the synchronised states as one, and its active and fork flags.      *)
(***************************************************************************)
EXTENDS Integers, FiniteSets

CONSTANTS
    Conn,           \* connection objects (addresses `new TCPConnection` returns)
    LocalAddr,      \* IP addresses of this host
    RemoteAddr,     \* IP addresses of other hosts
    LocalPort,      \* local ports applications may ask for
    RemotePort,     \* ports of other hosts
    EphStart,       \* EPHEMERAL_PORTRANGE_START
    EphEnd,         \* EPHEMERAL_PORTRANGE_END
    MaxConnId,      \* bound on the unique numbers handed out as connIds
    Unspecified,    \* the unspecified IP address
    NULL

ASSUME ConstAssumption ==
    /\ Conn # {} /\ IsFiniteSet(Conn) /\ NULL \notin Conn
    /\ Unspecified \notin LocalAddr \cup RemoteAddr
    /\ EphStart \in Nat /\ EphEnd \in Nat /\ EphStart < EphEnd
    /\ LocalPort \subseteq Nat /\ RemotePort \subseteq Nat
    /\ MaxConnId \in Nat \ {0}

NoPort == -1

EphemeralPort == EphStart .. (EphEnd - 1)
Port          == LocalPort \cup EphemeralPort
ConnId        == 1 .. MaxConnId

SockPair == [localAddr  : LocalAddr \cup {Unspecified},
             localPort  : Port,
             remoteAddr : RemoteAddr \cup {Unspecified},
             remotePort : RemotePort \cup {NoPort}]

ASSUME NullAssumption == NULL \notin SockPair

SockKey(la, lp, ra, rp) ==
    [localAddr |-> la, localPort |-> lp, remoteAddr |-> ra, remotePort |-> rp]

(* LISTEN .. SYN_RCVD are the states of TCPConnection.h; SYNCED stands for *)
(* ESTABLISHED and all the closing states.                                 *)
ConnState == {"LISTEN", "SYN_SENT", "SYN_RCVD", "SYNCED"}

VARIABLES
    tcpConnMap,         \* socket pair -> connection object, or NULL
    tcpAppConnMap,      \* connId -> connection object, or NULL
    lastEphemeralPort,
    usedEphemeralPorts, \* multiset: port -> number of occurrences
    sock,               \* connection object -> its socket pair, NULL when not allocated
    connId,             \* connection object -> its connId
    fsm,                \* connection object -> FSM state
    active,             \* connection object -> state->active
    fork,               \* connection object -> state->fork
    nextConnId,         \* the next ev.getUniqueNumber()
    err                 \* the error() or ASSERT that stopped the simulation

vars == <<tcpConnMap, tcpAppConnMap, lastEphemeralPort, usedEphemeralPorts,
          sock, connId, fsm, active, fork, nextConnId, err>>

tables == <<tcpConnMap, tcpAppConnMap, lastEphemeralPort, usedEphemeralPorts,
            sock, connId, nextConnId>>

Live == {c \in Conn : sock[c] # NULL}

-----------------------------------------------------------------------------
Init ==
    /\ tcpConnMap = [k \in SockPair |-> NULL]
    /\ tcpAppConnMap = [i \in ConnId |-> NULL]
    /\ lastEphemeralPort = EphStart
    /\ usedEphemeralPorts = [p \in EphemeralPort |-> 0]
    /\ sock = [c \in Conn |-> NULL]
    /\ connId = [c \in Conn |-> 1]
    /\ fsm = [c \in Conn |-> "SYNCED"]
    /\ active = [c \in Conn |-> FALSE]
    /\ fork = [c \in Conn |-> FALSE]
    /\ nextConnId = 1
    /\ err = "none"

(* error() and ASSERT end the simulation with the state as it is. *)
Fail(what) ==
    /\ err' = what
    /\ UNCHANGED <<tables, fsm, active, fork>>

(* findConnForSegment: the four lookups, most specific key first. *)
FullKey(src, sport, dst, dport) == SockKey(dst, dport, src, sport)

LookupKeys(src, sport, dst, dport) ==
    <<SockKey(dst, dport, src, sport),
      SockKey(Unspecified, dport, src, sport),
      SockKey(dst, dport, Unspecified, NoPort),
      SockKey(Unspecified, dport, Unspecified, NoPort)>>

Hits(src, sport, dst, dport) ==
    {i \in 1 .. 4 : tcpConnMap[LookupKeys(src, sport, dst, dport)[i]] # NULL}

findConnForSegment(src, sport, dst, dport) ==
    LET hits == Hits(src, sport, dst, dport)
        first == CHOOSE i \in hits : \A j \in hits : i <= j
    IN  IF hits = {} THEN NULL
        ELSE tcpConnMap[LookupKeys(src, sport, dst, dport)[first]]

(* getEphemeralPort: the first unused port after the last one handed out,  *)
(* cyclically, the last one itself being tried last.                       *)
FreePorts == {p \in EphemeralPort : usedEphemeralPorts[p] = 0}

Distance(p) == (p - lastEphemeralPort - 1) % (EphEnd - EphStart)

(* Mutant: the next port of the range, used or not. *)
MutGetEphemeralPort ==
    IF lastEphemeralPort + 1 = EphEnd THEN EphStart ELSE lastEphemeralPort + 1

getEphemeralPort ==
    CHOOSE p \in FreePorts : \A q \in FreePorts : Distance(p) <= Distance(q)

MarkPort(p) ==
    IF p \in EphemeralPort
    THEN [usedEphemeralPorts EXCEPT ![p] = @ + 1]
    ELSE usedEphemeralPorts

(* Mutant: usedEphemeralPorts.erase(port), which erases all occurrences. *)
MutUnmarkPort(p) ==
    IF p \in EphemeralPort
    THEN [usedEphemeralPorts EXCEPT ![p] = 0]
    ELSE usedEphemeralPorts

(* removeConnection erases one occurrence of the port, if there is any. *)
UnmarkPort(p) ==
    IF p \in EphemeralPort /\ usedEphemeralPorts[p] > 0
    THEN [usedEphemeralPorts EXCEPT ![p] = @ - 1]
    ELSE usedEphemeralPorts

-----------------------------------------------------------------------------
(* Application commands. *)

(* handleMessage creates the connection for a new connId, process_OPEN_*   *)
(* registers it with addSockPair, which refuses a socket pair in use.      *)
AddSockPair(key, isActive, isFork) ==
    IF tcpConnMap[key] # NULL
    THEN Fail("addressInUse")
    ELSE \E c \in Conn \ Live :
            /\ tcpConnMap' = [tcpConnMap EXCEPT ![key] = c]
            /\ tcpAppConnMap' = [tcpAppConnMap EXCEPT ![nextConnId] = c]
            /\ usedEphemeralPorts' = MarkPort(key.localPort)
            /\ sock' = [sock EXCEPT ![c] = key]
            /\ connId' = [connId EXCEPT ![c] = nextConnId]
            /\ fsm' = [fsm EXCEPT ![c] = IF isActive THEN "SYN_SENT" ELSE "LISTEN"]
            /\ active' = [active EXCEPT ![c] = isActive]
            /\ fork' = [fork EXCEPT ![c] = isFork]
            /\ nextConnId' = nextConnId + 1
            /\ err' = err

OpenPassive(la, lp, isFork) ==
    /\ err = "none" /\ nextConnId \in ConnId
    /\ AddSockPair(SockKey(la, lp, Unspecified, NoPort), FALSE, isFork)
    /\ UNCHANGED lastEphemeralPort

(* localPort = -1 asks for an ephemeral port. *)
OpenActive(la, lp, ra, rp) ==
    /\ err = "none" /\ nextConnId \in ConnId
    /\ IF lp # NoPort
       THEN /\ AddSockPair(SockKey(la, lp, ra, rp), TRUE, FALSE)
            /\ UNCHANGED lastEphemeralPort
       ELSE IF FreePorts = {}
       THEN Fail("portsExhausted")
       ELSE /\ lastEphemeralPort' = getEphemeralPort
            /\ AddSockPair(SockKey(la, getEphemeralPort, ra, rp), TRUE, FALSE)

(* removeConnection, after performStateTransition reached CLOSED; the       *)
(* fields of a deleted object are back at their initial values.            *)
RemoveConnection(c) ==
    /\ tcpAppConnMap' = [tcpAppConnMap EXCEPT ![connId[c]] = NULL]
    /\ tcpConnMap' = [tcpConnMap EXCEPT ![sock[c]] = NULL]
    /\ usedEphemeralPorts' = UnmarkPort(sock[c].localPort)
    /\ sock' = [sock EXCEPT ![c] = NULL]
    /\ connId' = [connId EXCEPT ![c] = 1]
    /\ fsm' = [fsm EXCEPT ![c] = "SYNCED"]
    /\ active' = [active EXCEPT ![c] = FALSE]
    /\ fork' = [fork EXCEPT ![c] = FALSE]
    /\ UNCHANGED <<lastEphemeralPort, nextConnId, err>>

(* The table-neutral FSM transitions. *)
Goto(c, s) ==
    /\ fsm' = [fsm EXCEPT ![c] = s]
    /\ UNCHANGED <<tables, active, fork, err>>

Close(i) ==
    LET c == tcpAppConnMap[i] IN
    /\ err = "none" /\ c # NULL
    /\ IF fsm[c] \in {"LISTEN", "SYN_SENT"}
       THEN RemoveConnection(c)
       ELSE Goto(c, "SYNCED")

Abort(i) ==
    /\ err = "none" /\ tcpAppConnMap[i] # NULL
    /\ RemoveConnection(tcpAppConnMap[i])

-----------------------------------------------------------------------------
(* Arriving segments. *)

(* Mutant: updateSockPair without the erase of the old key. *)
MutUpdatedConnMap(c, key) == [tcpConnMap EXCEPT ![key] = c]

(* updateSockPair: move c to the segment's fully specified socket pair; an *)
(* entry another connection has there is overwritten.                      *)
UpdatedConnMap(c, key) == [[tcpConnMap EXCEPT ![sock[c]] = NULL] EXCEPT ![key] = c]

UpdateSockPair(c, key) ==
    /\ tcpConnMap' = UpdatedConnMap(c, key)
    /\ sock' = [sock EXCEPT ![c] = key]
    /\ UNCHANGED <<tcpAppConnMap, lastEphemeralPort, usedEphemeralPorts, connId,
                   active, fork, nextConnId, err>>

(* addForkedConnection: c takes the segment's socket pair and a new connId; *)
(* its clone n goes on LISTENing on c's local socket under c's old connId.  *)
AddForkedConnection(c, key) ==
    LET listenKey == SockKey(sock[c].localAddr, sock[c].localPort, Unspecified, NoPort)
    IN  IF UpdatedConnMap(c, key)[listenKey] # NULL
        THEN Fail("forkAddressInUse")
        ELSE \E n \in Conn \ Live :
                /\ tcpConnMap' = [UpdatedConnMap(c, key) EXCEPT ![listenKey] = n]
                /\ tcpAppConnMap' = [tcpAppConnMap EXCEPT ![connId[c]] = n,
                                                          ![nextConnId] = c]
                /\ usedEphemeralPorts' = MarkPort(listenKey.localPort)
                /\ sock' = [sock EXCEPT ![c] = key, ![n] = listenKey]
                /\ connId' = [connId EXCEPT ![c] = nextConnId, ![n] = connId[c]]
                /\ fsm' = [fsm EXCEPT ![c] = "SYN_RCVD", ![n] = "LISTEN"]
                /\ active' = [active EXCEPT ![n] = FALSE]
                /\ fork' = [fork EXCEPT ![n] = TRUE]
                /\ nextConnId' = nextConnId + 1
                /\ UNCHANGED <<lastEphemeralPort, err>>

(* Mutant: processSegmentInListen that ignores the fork flag. *)
MutSynInListen(src, sport, dst, dport) ==
    LET c == findConnForSegment(src, sport, dst, dport)
    IN  /\ err = "none" /\ c # NULL
        /\ fsm[c] = "LISTEN"
        /\ UpdateSockPair(c, FullKey(src, sport, dst, dport))
        /\ fsm' = [fsm EXCEPT ![c] = "SYN_RCVD"]

(* processSegmentInListen on a SYN. *)
SynInListen(src, sport, dst, dport) ==
    LET c == findConnForSegment(src, sport, dst, dport)
        key == FullKey(src, sport, dst, dport)
    IN  /\ err = "none" /\ c # NULL
        /\ fsm[c] = "LISTEN"
        /\ IF fork[c]
           THEN nextConnId \in ConnId /\ AddForkedConnection(c, key)
           ELSE UpdateSockPair(c, key) /\ fsm' = [fsm EXCEPT ![c] = "SYN_RCVD"]

(* processSegmentInSynSent on a SYN (s = SYN_RCVD) or a SYN+ACK (SYNCED). *)
SynInSynSent(src, sport, dst, dport, s) ==
    LET c == findConnForSegment(src, sport, dst, dport)
    IN  /\ err = "none" /\ c # NULL
        /\ fsm[c] = "SYN_SENT"
        /\ UpdateSockPair(c, FullKey(src, sport, dst, dport))
        /\ fsm' = [fsm EXCEPT ![c] = s]

(* SYN_RCVD reaches a synchronised state on an acceptable ACK. *)
AckInSynRcvd(src, sport, dst, dport) ==
    LET c == findConnForSegment(src, sport, dst, dport)
    IN  /\ err = "none" /\ c # NULL
        /\ fsm[c] = "SYN_RCVD"
        /\ Goto(c, "SYNCED")

(* Mutant: a closed connection is not removed. *)
MutFallBack(c) ==
    Goto(c, IF fsm[c] = "SYN_RCVD" /\ ~active[c] THEN "LISTEN" ELSE "CLOSED")

(* SYN_RCVD that was entered from LISTEN goes back to LISTEN, keeping the  *)
(* socket pair; any other connection is closed.                            *)
FallBack(c) ==
    IF fsm[c] = "SYN_RCVD" /\ ~active[c]
    THEN Goto(c, "LISTEN")
    ELSE RemoveConnection(c)

(* An acceptable RST. *)
RstArrives(src, sport, dst, dport) ==
    LET c == findConnForSegment(src, sport, dst, dport)
    IN  /\ err = "none" /\ c # NULL
        /\ fsm[c] # "LISTEN"
        /\ FallBack(c)

(* A segment that ends the connection: a SYN in the window of any but      *)
(* LISTEN and SYN_SENT, the ACK of the FIN in LAST_ACK.                    *)
ClosingSegment(src, sport, dst, dport) ==
    LET c == findConnForSegment(src, sport, dst, dport)
    IN  /\ err = "none" /\ c # NULL
        /\ fsm[c] \in {"SYN_RCVD", "SYNCED"}
        /\ RemoveConnection(c)

-----------------------------------------------------------------------------
(* Timers. *)

ConnEstabTimeout(c) ==
    /\ err = "none" /\ c \in Live
    /\ fsm[c] \in {"SYN_SENT", "SYN_RCVD"}
    /\ FallBack(c)

(* SYN-REXMIT or REXMIT giving up, 2MSL, FIN-WAIT-2. *)
ClosingTimeout(c) ==
    /\ err = "none" /\ c \in Live
    /\ fsm[c] # "LISTEN"
    /\ RemoveConnection(c)

-----------------------------------------------------------------------------
(* The simulation has stopped with an error, or all connIds of the bounded *)
(* instance have been used and every connection is gone.                   *)
Done ==
    /\ err # "none" \/ (Live = {} /\ nextConnId \notin ConnId)
    /\ UNCHANGED vars

AppCommand ==
    \/ \E la \in LocalAddr \cup {Unspecified}, lp \in LocalPort, f \in BOOLEAN :
            OpenPassive(la, lp, f)
    \/ \E la \in LocalAddr \cup {Unspecified}, lp \in LocalPort \cup {NoPort},
          ra \in RemoteAddr, rp \in RemotePort : OpenActive(la, lp, ra, rp)
    \/ \E i \in ConnId : Close(i)
    \/ \E i \in ConnId : Abort(i)

SegmentArrives ==
    \E src \in RemoteAddr, sport \in RemotePort, dst \in LocalAddr, dport \in Port :
        \/ SynInListen(src, sport, dst, dport)
        \/ \E s \in {"SYN_RCVD", "SYNCED"} : SynInSynSent(src, sport, dst, dport, s)
        \/ AckInSynRcvd(src, sport, dst, dport)
        \/ RstArrives(src, sport, dst, dport)
        \/ ClosingSegment(src, sport, dst, dport)

Timer == \E c \in Conn : ConnEstabTimeout(c) \/ ClosingTimeout(c)

Next == AppCommand \/ SegmentArrives \/ Timer \/ Done

Spec == Init /\ [][Next]_vars

-----------------------------------------------------------------------------
TypeOK ==
    /\ tcpConnMap \in [SockPair -> Conn \cup {NULL}]
    /\ tcpAppConnMap \in [ConnId -> Conn \cup {NULL}]
    /\ lastEphemeralPort \in EphemeralPort
    /\ usedEphemeralPorts \in [EphemeralPort -> Nat]
    /\ sock \in [Conn -> SockPair \cup {NULL}]
    /\ connId \in [Conn -> ConnId]
    /\ fsm \in [Conn -> ConnState]
    /\ active \in [Conn -> BOOLEAN]
    /\ fork \in [Conn -> BOOLEAN]
    /\ nextConnId \in 1 .. (MaxConnId + 1)
    /\ err \in {"none", "addressInUse", "portsExhausted", "forkAddressInUse"}

(* Every connection is where findConnForSegment and findConnForApp look for *)
(* it, and the tables hold nothing else: no entry of a deleted connection,  *)
(* no connection whose entry another one's updateSockPair has overwritten.  *)
ConnRegistered ==
    \A c \in Conn : sock[c] # NULL =>
        tcpConnMap[sock[c]] = c /\ tcpAppConnMap[connId[c]] = c

NoDanglingEntry ==
    /\ \A k \in SockPair : tcpConnMap[k] # NULL => sock[tcpConnMap[k]] = k
    /\ \A i \in ConnId : tcpAppConnMap[i] # NULL =>
            sock[tcpAppConnMap[i]] # NULL /\ connId[tcpAppConnMap[i]] = i

TablesConsistent == ConnRegistered /\ NoDanglingEntry

(* The connIds in use were all handed out: the next unique number is fresh. *)
IdsIssued == \A c \in Conn : sock[c] # NULL => connId[c] < nextConnId

(* The inductive invariant behind TablesConsistent. *)
TablesInv == TypeOK /\ TablesConsistent /\ IdsIssued

(* The multiset counts, for every ephemeral port, the connections that use  *)
(* it, so a port is handed out again exactly when its last user is gone     *)
(* (the comment in removeConnection warns against erasing them all).        *)
PortsAccounted ==
    \A p \in EphemeralPort :
        usedEphemeralPorts[p] = Cardinality({c \in Live : sock[c].localPort = p})

(* An active open without a local port gets one that no connection uses,    *)
(* be it the port handed out last, and is refused only when every port of   *)
(* the range has a user: getEphemeralPort's search, which wraps around.     *)
EphemeralFresh ==
    [][(\E la \in LocalAddr \cup {Unspecified}, ra \in RemoteAddr, rp \in RemotePort :
            OpenActive(la, NoPort, ra, rp)) =>
         /\ err' = "none" => \A c \in Live : sock[c].localPort # lastEphemeralPort'
         /\ err' # "none" => \A p \in EphemeralPort : \E c \in Live : sock[c].localPort = p]_vars

(* An application that listens with fork=true keeps its listening           *)
(* connection: the connId it got always names a LISTENing connection until  *)
(* the application itself closes or aborts it.                              *)
ForkedListenerStays ==
    [][\A i \in ConnId :
         LET c == tcpAppConnMap[i]
             d == tcpAppConnMap'[i]
         IN  (c # NULL /\ fsm[c] = "LISTEN" /\ fork[c] /\ ~AppCommand) =>
                 (d # NULL /\ fsm'[d] = "LISTEN" /\ fork'[d])]_vars
=============================================================================
