------------------------------ MODULE TcpPair ------------------------------
(***************************************************************************)
(* Two TCP connections, the applications that use them through TCPSocket   *)
(* (transport/contract/TCPSocket.cc) and an IP network between them that   *)
(* may lose, duplicate and reorder a bounded number of segments.           *)
(*                                                                         *)
(* An action is one event of the simulation: a command of an application,  *)
(* the arrival of a segment or a timer.  An application sees an indication *)
(* before it issues its next command.                                      *)
(***************************************************************************)
EXTENDS TcpConnection, FiniteSets

CONSTANTS
    Peer,           \* the two ends
    Iss,            \* Peer -> the initial sequence number the clock gives
    Scenarios,      \* what the applications and the network may do
    MaxInFlight,    \* bound on the segments in flight when a timer fires early
    MaxSynRexmit    \* bound on SYN retransmissions: CONN_ESTAB (75 s) fires
                    \* before the fifth of them, at 3+6+12+24+48 s

(* A scenario says who opens and how, the lengths of the messages each     *)
(* application sends, which applications call close(), which of them may   *)
(* do so before the connection is established, which may call abort(), the *)
(* kinds and the number of network faults, and the timers that may fire    *)
(* while segments are in flight.                                           *)
Scenario ==
    [opens : [Peer -> {"active", "passive", "never"}], script : [Peer -> Seq(Nat \ {0})],
     closers : SUBSET Peer, earlyClosers : SUBSET Peer, aborters : SUBSET Peer,
     netFaults : SUBSET {"lose", "duplicate", "reorder"}, maxFaults : Nat,
     earlyTimers : SUBSET TimerName]

ASSUME PairAssumption ==
    /\ Cardinality(Peer) = 2
    /\ Iss \in [Peer -> SeqNo]
    /\ \A s \in Scenarios : s \in Scenario /\ s.earlyClosers \subseteq s.closers
    /\ MaxInFlight \in Nat
    /\ MaxSynRexmit \in 0 .. 4

VARIABLES
    scenario,       \* the scenario of this behaviour
    conn,           \* Peer -> the connection
    net,            \* Peer -> segments on their way to the peer
    sockstate,      \* Peer -> TCPSocket::sockstate
    todo,           \* Peer -> messages the application has still to send
    sent,           \* Peer -> bytes handed to TCP
    got,            \* Peer -> bytes handed to the application
    told,           \* Peer -> the indications the application has had, but DATA
    faults          \* network faults so far

vars == <<scenario, conn, net, sockstate, todo, sent, got, told, faults>>

Other(p) == CHOOSE q \in Peer : q # p

Opens        == scenario.opens
Closers      == scenario.closers
EarlyClosers == scenario.earlyClosers
Aborters     == scenario.aborters
NetFaults    == scenario.netFaults
MaxFaults    == scenario.maxFaults
EarlyTimers  == scenario.earlyTimers

Init ==
    /\ scenario \in Scenarios
    /\ conn = [p \in Peer |-> NewConnection]
    /\ net = [p \in Peer |-> <<>>]
    /\ sockstate = [p \in Peer |-> "BOUND"]
    /\ todo = scenario.script
    /\ sent = [p \in Peer |-> 0]
    /\ got = [p \in Peer |-> 0]
    /\ told = [p \in Peer |-> <<>>]
    /\ faults = 0

Running == \A p \in Peer : conn[p].err = "none"

-----------------------------------------------------------------------------
(* What an event does once its handler r has run. *)

(* TCPSocket::processMessage, for the messages a handler sent up. *)
SockStateAfter(old, ind) ==
    LET step[i \in 0 .. Len(ind)] ==
        IF i = 0 THEN old
        ELSE CASE ind[i].kind = "DATA"        -> step[i - 1]
               [] ind[i].kind = "ESTABLISHED" -> "CONNECTED"
               [] ind[i].kind = "PEER_CLOSED" ->
                    IF step[i - 1] = "CONNECTED" THEN "PEER_CLOSED" ELSE "CLOSED"
               [] ind[i].kind = "CLOSED"      -> "CLOSED"
               [] OTHER                       -> "SOCKERROR"
    IN  step[Len(ind)]

BytesIn(ind) ==
    LET sum[i \in 0 .. Len(ind)] == IF i = 0 THEN 0 ELSE sum[i - 1] + ind[i].len
    IN  sum[Len(ind)]

(* The indications among them. *)
Indicated(ind) ==
    LET isIndication(m) == m.kind # "DATA"
        control == SelectSeq(ind, isIndication)
    IN  [i \in 1 .. Len(control) |-> control[i].kind]

(* TCP::handleMessage removes a connection that has entered CLOSED. *)
Settled(r) ==
    IF r.fsm = "CLOSED" THEN ClosedConnection
    ELSE [r EXCEPT !.out = <<>>, !.ind = <<>>, !.ev = "IGNORE"]

(* The handler has run on p, in socket state ss, with `flight' left in the *)
(* network: state transition, segments and indications out.                *)
Commit(p, handled, flight, ss) ==
    LET r == performStateTransition(handled) IN
    IF handled.err # "none"
    THEN /\ conn' = [conn EXCEPT ![p].err = handled.err]
         /\ UNCHANGED <<net, sockstate, got, told>>
    ELSE /\ conn' = [conn EXCEPT ![p] = Settled(r)]
         /\ net' = [flight EXCEPT ![Other(p)] = @ \o r.out]
         /\ sockstate' = [sockstate EXCEPT ![p] = SockStateAfter(ss, r.ind)]
         /\ got' = [got EXCEPT ![p] = @ + BytesIn(r.ind)]
         /\ told' = [told EXCEPT ![p] = @ \o Indicated(r.ind)]

-----------------------------------------------------------------------------
(* Application commands, with the guards of TCPSocket. *)

MayConnect(p) == Running /\ Opens[p] = "active" /\ sockstate[p] = "BOUND"

Connect(p) ==
    /\ MayConnect(p)
    /\ Commit(p, process_OPEN_ACTIVE(conn[p], Iss[p]), net, "CONNECTING")
    /\ UNCHANGED <<scenario, todo, sent, faults>>

MayListen(p) == Running /\ Opens[p] = "passive" /\ sockstate[p] = "BOUND"

Listen(p) ==
    /\ MayListen(p)
    /\ Commit(p, process_OPEN_PASSIVE(conn[p]), net, "LISTENING")
    /\ UNCHANGED <<scenario, todo, sent, faults>>

MaySend(p) ==
    /\ Running
    /\ todo[p] # <<>>
    /\ sockstate[p] \in {"CONNECTED", "CONNECTING", "PEER_CLOSED"}

Send(p) ==
    /\ MaySend(p)
    /\ Commit(p, process_SEND(conn[p], Head(todo[p]), Iss[p]), net, sockstate[p])
    /\ todo' = [todo EXCEPT ![p] = Tail(@)]
    /\ sent' = [sent EXCEPT ![p] = @ + Head(todo[p])]
    /\ UNCHANGED <<scenario, faults>>

(* An application closes when it has sent what it had to send. *)
MayClose(p) ==
    /\ Running
    /\ p \in Closers /\ todo[p] = <<>>
    /\ sockstate[p] \in {"CONNECTED", "PEER_CLOSED"} \cup
                       (IF p \in EarlyClosers THEN {"CONNECTING", "LISTENING"} ELSE {})

Close(p) ==
    /\ MayClose(p)
    /\ Commit(p, process_CLOSE(conn[p]), net,
              IF sockstate[p] = "CONNECTED" THEN "LOCALLY_CLOSED" ELSE "CLOSED")
    /\ UNCHANGED <<scenario, todo, sent, faults>>

(* abort() sends no command for a socket that is not in use. *)
Abort(p) ==
    /\ Running
    /\ p \in Aborters
    /\ IF sockstate[p] \in {"BOUND", "CLOSED", "SOCKERROR"}
       THEN /\ sockstate' = [sockstate EXCEPT ![p] = "CLOSED"]
            /\ UNCHANGED <<conn, net, got, told>>
       ELSE Commit(p, process_ABORT(conn[p]), net, "CLOSED")
    /\ UNCHANGED <<scenario, todo, sent, faults>>

-----------------------------------------------------------------------------
(* Segments. *)

WithoutAt(seqn, i) == SubSeq(seqn, 1, i - 1) \o SubSeq(seqn, i + 1, Len(seqn))

(* findConnForSegment finds the connection unless it is not open or gone. *)
ArrivesAt(p, i) ==
    LET seg    == net[p][i]
        flight == [net EXCEPT ![p] = WithoutAt(@, i)]
    IN  IF conn[p].fsm \in {"INIT", "CLOSED"}
        THEN /\ net' = [flight EXCEPT ![Other(p)] = @ \o segmentArrivalWhileClosed(seg)]
             /\ UNCHANGED <<conn, sockstate, got, told>>
        ELSE Commit(p, process_RCV_SEGMENT(conn[p], seg, Iss[p]), flight, sockstate[p])

SegmentArrives(p) ==
    /\ Running
    /\ net[p] # <<>>
    /\ ArrivesAt(p, 1)
    /\ UNCHANGED <<scenario, todo, sent, faults>>

SegmentOvertakes(p) ==
    /\ Running
    /\ "reorder" \in NetFaults /\ faults < MaxFaults
    /\ \E i \in 2 .. Len(net[p]) : ArrivesAt(p, i)
    /\ faults' = faults + 1
    /\ UNCHANGED <<scenario, todo, sent>>

SegmentLost(p) ==
    /\ Running
    /\ "lose" \in NetFaults /\ faults < MaxFaults
    /\ net[p] # <<>>
    /\ net' = [net EXCEPT ![p] = Tail(@)]
    /\ faults' = faults + 1
    /\ UNCHANGED <<scenario, conn, sockstate, todo, sent, got, told>>

SegmentDuplicated(p) ==
    /\ Running
    /\ "duplicate" \in NetFaults /\ faults < MaxFaults
    /\ net[p] # <<>>
    /\ net' = [net EXCEPT ![p] = Append(@, Head(@))]
    /\ faults' = faults + 1
    /\ UNCHANGED <<scenario, conn, sockstate, todo, sent, got, told>>

-----------------------------------------------------------------------------
(* Timers.  Those not in EarlyTimers are far longer than a segment's       *)
(* lifetime in the network.                                                *)

Quiet == \A p \in Peer : net[p] = <<>>

Expires(p, t) ==
    /\ Running
    /\ t \in conn[p].timers
    /\ Quiet \/ (t \in EarlyTimers /\ \A q \in Peer : Len(net[q]) <= MaxInFlight)

Fired(p, t) == cancelEvent(conn[p], t)

Timeout2MSL(p) ==
    /\ Expires(p, "2MSL")
    /\ Commit(p, process_TIMEOUT_2MSL(Fired(p, "2MSL")), net, sockstate[p])
    /\ UNCHANGED <<scenario, todo, sent, faults>>

TimeoutConnEstab(p) ==
    /\ Expires(p, "CONN_ESTAB")
    /\ Commit(p, process_TIMEOUT_CONN_ESTAB(Fired(p, "CONN_ESTAB")), net, sockstate[p])
    /\ UNCHANGED <<scenario, todo, sent, faults>>

TimeoutSynRexmit(p) ==
    /\ Expires(p, "SYN_REXMIT")
    /\ conn[p].syn_rexmit_count < MaxSynRexmit
    /\ Commit(p, process_TIMEOUT_SYN_REXMIT(Fired(p, "SYN_REXMIT")), net, sockstate[p])
    /\ UNCHANGED <<scenario, todo, sent, faults>>

TimeoutRexmit(p) ==
    /\ Expires(p, "REXMIT")
    /\ Commit(p, processRexmitTimer(Fired(p, "REXMIT")), net, sockstate[p])
    /\ UNCHANGED <<scenario, todo, sent, faults>>

-----------------------------------------------------------------------------
TimerFires(p) == Timeout2MSL(p) \/ TimeoutConnEstab(p) \/ TimeoutSynRexmit(p) \/ TimeoutRexmit(p)

NetworkFault(p) == SegmentOvertakes(p) \/ SegmentLost(p) \/ SegmentDuplicated(p)

Next == \E p \in Peer :
    \/ Connect(p) \/ Listen(p) \/ Send(p) \/ Close(p) \/ Abort(p)
    \/ SegmentArrives(p) \/ NetworkFault(p)
    \/ TimerFires(p)

Spec == Init /\ [][Next]_vars

AppReady(p)     == MayConnect(p) \/ MayListen(p) \/ MaySend(p) \/ MayClose(p)
AppCommand(p)   == Connect(p) \/ Listen(p) \/ Send(p) \/ Close(p)
SegmentReady(p) == Running /\ net[p] # <<>>
TimerReady(p)   == \E t \in TimerName :
                      Expires(p, t) /\ (t = "SYN_REXMIT" => conn[p].syn_rexmit_count < MaxSynRexmit)

(* Weak fairness of the three kinds of events at each end: the simulation  *)
(* kernel executes every scheduled event that is not cancelled.  This is   *)
(* WF_vars of each, with its ENABLED written as the guard it amounts to    *)
(* (computing ENABLED of whole handlers is out of TLC's reach).            *)
Fair ==
    \A p \in Peer :
        /\ []<>~AppReady(p)     \/ []<><<AppCommand(p)>>_vars
        /\ []<>~SegmentReady(p) \/ []<><<SegmentArrives(p)>>_vars
        /\ []<>~TimerReady(p)   \/ []<><<TimerFires(p)>>_vars

FairSpec == Spec /\ Fair

-----------------------------------------------------------------------------
(* Properties. *)

Synchronized(p) ==
    conn[p].fsm \in {"ESTABLISHED", "CLOSE_WAIT", "LAST_ACK", "FIN_WAIT_1", "FIN_WAIT_2",
                     "CLOSING", "TIME_WAIT"}

Told(p, what) == \E i \in DOMAIN told[p] : told[p][i] = what

Segment == [flags : SUBSET {"SYN", "ACK", "FIN", "RST"}, seq : SeqNo, ackNo : SeqNo, len : Nat]

(* Every variable has its type; a sequence number is a 32-bit (here: below *)
(* SeqSpace) value wherever the code keeps or sends one.                   *)
TypeOK ==
    /\ \A p \in Peer :
        /\ conn[p].fsm \in FsmState /\ conn[p].timers \subseteq TimerName
        /\ {conn[p].iss, conn[p].snd_una, conn[p].snd_nxt, conn[p].snd_max, conn[p].rcv_nxt,
            conn[p].snd_fin_seq, conn[p].rcv_fin_seq, conn[p].sendQueue.begin,
            conn[p].sendQueue.end, conn[p].receiveQueue.rcv_nxt} \subseteq SeqNo
        /\ {conn[p].snd_wnd, conn[p].snd_cwnd, conn[p].ssthresh} \subseteq Nat
        /\ conn[p].syn_rexmit_count \in 0 .. MaxSynRexmit
        /\ conn[p].rexmit_count \in 0 .. MaxRexmit
        /\ \A i \in DOMAIN net[p] : net[p][i] \in Segment
        /\ sockstate[p] \in {"BOUND", "CONNECTING", "LISTENING", "CONNECTED", "PEER_CLOSED",
                             "LOCALLY_CLOSED", "CLOSED", "SOCKERROR"}
        /\ {sent[p], got[p]} \subseteq Nat
    /\ faults \in 0 .. MaxFaults

(* The receiver's rcv_nxt counts the SYN, the bytes handed to the          *)
(* application and the FIN announced to it: text and FIN steps deliver each *)
(* byte once and in order whatever the network does.                       *)
RcvNxtCounts ==
    \A p \in Peer : Synchronized(p) =>
        Minus(conn[p].rcv_nxt, Plus(Iss[Other(p)], 1))
            = got[p] + (IF Told(p, "PEER_CLOSED") THEN 1 ELSE 0)

(* No byte is made up, and PEER_CLOSED is indicated only after all the     *)
(* bytes the peer's application sent (FIN above a gap, filled gaps).       *)
PeerClosedComplete ==
    \A p \in Peer : /\ got[p] <= sent[Other(p)]
                    /\ Told(p, "PEER_CLOSED") => got[p] = sent[Other(p)]

(* Exact delivery: the bytes the peer sent, each once and in order, and all *)
(* of them before PEER_CLOSED.                                             *)
DeliveredExactly == RcvNxtCounts /\ PeerClosedComplete

(* What a sender takes as acknowledged, and discards from its send queue,  *)
(* its peer has really received.                                           *)
AckedArrived ==
    \A p \in Peer : Synchronized(p) /\ Synchronized(Other(p)) =>
        seqLE(conn[p].snd_una, conn[Other(p)].rcv_nxt)

(* While sent data is unacknowledged the REXMIT timer runs: no path through *)
(* ACK processing, fast retransmit or the timer itself leaves it off.      *)
RexmitArmed ==
    \A p \in Peer :
        Synchronized(p) /\ conn[p].snd_una # conn[p].snd_max
            /\ seqLess(conn[p].snd_una, conn[p].sendQueue.end)
        => "REXMIT" \in conn[p].timers

(* The send queue holds every unacknowledged byte, and snd_una <= snd_nxt  *)
(* <= snd_max holds although retransmission sets snd_nxt back.             *)
UnackedRetained ==
    \A p \in Peer : Synchronized(p) =>
        /\ seqLE(conn[p].sendQueue.begin, conn[p].snd_una)
        /\ Minus(conn[p].sendQueue.end, Plus(Iss[p], 1)) = sent[p]
        /\ seqLE(conn[p].snd_una, conn[p].snd_nxt) /\ seqLE(conn[p].snd_nxt, conn[p].snd_max)
        /\ seqLE(conn[p].snd_max, Plus(conn[p].sendQueue.end, IF conn[p].send_fin THEN 1 ELSE 0))

(* What may have to be sent again is kept, and a timer will send it.       *)
UnackedRepeatable == UnackedRetained /\ RexmitArmed

(* A sender never sends beyond the window its peer offers from its own     *)
(* rcv_nxt; only the FIN, which process_CLOSE sends at once, may exceed it. *)
FlowControlled ==
    \A p \in Peer : Synchronized(p) /\ Synchronized(Other(p)) =>
        seqLE(conn[p].snd_max, Plus(conn[Other(p)].rcv_nxt,
                                    RcvWnd + IF conn[p].send_fin THEN 1 ELSE 0))

(* The two states from which the code can run into an error.  CLOSING with *)
(* its 2MSL timer running: the segment that acknowledged our FIN carried a *)
(* FIN too, whose event is not a transition of CLOSING.  The last one      *)
(* before a fast retransmission of less than a segment up to the FIN, whose *)
(* sequence number retransmitOneSegment takes for one more byte.           *)
StuckInClosing(p) == conn[p].fsm = "CLOSING" /\ "2MSL" \in conn[p].timers

FinTakenForByte(p) ==
    /\ conn[p].dupacks = 2 /\ conn[p].send_fin
    /\ conn[p].snd_max = Plus(conn[p].snd_fin_seq, 1)
    /\ Minus(conn[p].snd_max, conn[p].snd_una) <= MSS

(* The connection setup timers run exactly in the setup states and the     *)
(* 2MSL timer exactly in TIME_WAIT, so that none is scheduled twice or     *)
(* fires in a state whose handler calls opp_error(), unless a connection   *)
(* is stuck in CLOSING.                                                    *)
TimersFit ==
    Running => \A p \in Peer :
        /\ "2MSL" \in conn[p].timers <=> (conn[p].fsm = "TIME_WAIT" \/ StuckInClosing(p))
        /\ "CONN_ESTAB" \in conn[p].timers <=> conn[p].fsm \in {"SYN_SENT", "SYN_RCVD"}
        /\ "SYN_REXMIT" \in conn[p].timers <=> conn[p].fsm \in {"SYN_SENT", "SYN_RCVD"}

(* No sequence of events runs into an opp_error() or a failing ASSERT but  *)
(* from these two states, or takes a variable out of its type.             *)
NoRuntimeError ==
    TypeOK /\ \A p \in Peer : conn[p].err # "none" => StuckInClosing(p) \/ FinTakenForByte(p)

(* createSegmentWithBytes asserts that the bytes of a segment, sent or sent *)
(* again, are bytes of the send queue: "ASSERT(seqLE(begin,fromSeq) &&      *)
(* seqLE(fromSeq+numBytes,end));".                                         *)
SegmentsFromQueue == \A p \in Peer : conn[p].err # "createSegmentWithBytes"

Final(p) == \E what \in {"CLOSED", "CONNECTION_RESET", "CONNECTION_REFUSED", "TIMED_OUT"} :
                Told(p, what)

(* Once TCP has told an application that its connection is closed, reset,  *)
(* refused or timed out, it neither delivers nor indicates anything more   *)
(* for it, late segments and timers notwithstanding.                       *)
SilentAfterFinal ==
    [][\A p \in Peer : Final(p) => UNCHANGED <<got[p], told[p]>>]_vars

(* An established connection whose two applications close it is torn down  *)
(* at both ends.                                                           *)
BothClosed ==
    (Closers = Peer /\ \A p \in Peer : Told(p, "ESTABLISHED")) ~> (\A p \in Peer : conn[p].fsm = "CLOSED")

(* The simulation ends when no event is left. *)
NoEventLeft == Quiet /\ \A p \in Peer : conn[p].timers = {} /\ ~AppReady(p)

(* With no segment in flight, no timer scheduled and no command to come, an *)
(* established connection that both applications close has been torn down   *)
(* at both ends (process_CLOSE, sendFin): TCP.ned lists "connection setup    *)
(* and teardown as in RFC793".                                              *)
EndsTornDown ==
    Running /\ NoEventLeft /\ (\A p \in Peer : Told(p, "ESTABLISHED"))
        => \A p \in Peer : conn[p].fsm = "CLOSED"

(* Unless they close, all the data the two ends of an established          *)
(* connection send arrives, by retransmission of what the network lost.    *)
AllDelivered ==
    (Closers = {} /\ \A p \in Peer : Told(p, "ESTABLISHED") /\ todo[p] = <<>>)
        ~> (\A p \in Peer : got[p] = sent[Other(p)])
=============================================================================
