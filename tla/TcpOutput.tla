----------------------------- MODULE TcpOutput -----------------------------
(***************************************************************************)
(* The sending half of a TCP connection: its state variables as a record,  *)
(* the segments it builds (TCPConnectionUtil.cc), the virtual-data send    *)
(* queue and the congestion control flavours built on TCPBaseAlg.  Each    *)
(* method is a function from the record to the next one.                   *)
(*                                                                         *)
(* Four fields are the effects of a handler in progress and are empty      *)
(* between events: out, the segments sent; ind, the messages sent to the   *)
(* application; ev, the FSM event; err, the error() or ASSERT hit.         *)
(*                                                                         *)
(* snd_wl1 and snd_wl2 are left out: every segment that carries a window   *)
(* carries the same RcvWnd, so they matter only until the first update, up *)
(* to which they keep their initial 0.  The RTT estimate is left out, as   *)
(* are the PERSIST, DELAYEDACK, KEEPALIVE and FIN_WAIT_2 timers, which the *)
(* code never schedules.                                                   *)
(***************************************************************************)
EXTENDS TcpRcvQueue

CONSTANTS
    Flavour,        \* tcpAlgorithmClass: "Tahoe", "Reno" or "NoCC"
    MSS,            \* snd_mss
    RcvWnd,         \* rcv_wnd, the advertised window
    MaxRexmit,      \* MAX_REXMIT_COUNT (12 in the code)
    InitSsthresh    \* the initial ssthresh (65535 in the code)

ASSUME ConnAssumption ==
    /\ Flavour \in {"Tahoe", "Reno", "NoCC"}
    /\ MSS \in Nat \ {0}
    /\ RcvWnd \in Nat /\ MSS <= RcvWnd /\ RcvWnd < SeqSpace \div 2
    /\ MaxRexmit \in Nat
    /\ InitSsthresh \in Nat

MAX_SYN_REXMIT_COUNT == 12

Smaller(a, b) == IF a <= b THEN a ELSE b
Larger(a, b)  == IF a >= b THEN a ELSE b

FsmState == {"INIT", "CLOSED", "LISTEN", "SYN_SENT", "SYN_RCVD", "ESTABLISHED",
             "CLOSE_WAIT", "LAST_ACK", "FIN_WAIT_1", "FIN_WAIT_2", "CLOSING",
             "TIME_WAIT"}

TimerName == {"2MSL", "CONN_ESTAB", "SYN_REXMIT", "REXMIT"}

(* The state variables as the constructors and initConnection leave them. *)
NewConnection == [
    fsm |-> "INIT", active |-> FALSE, iss |-> 0,
    snd_una |-> 0, snd_nxt |-> 0, snd_max |-> 0, snd_wnd |-> 0, rcv_nxt |-> 0,
    dupacks |-> 0, syn_rexmit_count |-> 0, rexmit_count |-> 0,
    send_fin |-> FALSE, snd_fin_seq |-> 0, fin_ack_rcvd |-> FALSE,
    fin_rcvd |-> FALSE, rcv_fin_seq |-> 0,
    snd_cwnd |-> IF Flavour = "NoCC" THEN 2147483647 ELSE 0,
    ssthresh |-> InitSsthresh,
    sendQueue |-> [begin |-> 0, end |-> 0],
    receiveQueue |-> Queue(0, <<>>),
    timers |-> {},
    out |-> <<>>, ind |-> <<>>, ev |-> "IGNORE", err |-> "none"]

(* removeConnection deletes a closed connection. *)
ClosedConnection == [NewConnection EXCEPT !.fsm = "CLOSED"]

-----------------------------------------------------------------------------
(* Effects. *)

(* An error() or a failed ASSERT ends the simulation at the first one. *)
Fail(s, what) == IF s.err = "none" THEN [s EXCEPT !.err = what] ELSE s

Assert_(s, cond, what) == IF cond THEN s ELSE Fail(s, what)

Event(s, ev) == [s EXCEPT !.ev = ev]

sendToIP(s, flags, seq, ackNo, len) ==
    [s EXCEPT !.out = Append(@, [flags |-> flags, seq |-> seq, ackNo |-> ackNo, len |-> len])]

sendIndicationToApp(s, code) ==
    [s EXCEPT !.ind = Append(@, [kind |-> code, len |-> 0])]

(* scheduleAt() is an error for a message that is already scheduled. *)
scheduleTimeout(s, t) ==
    [Assert_(s, t \notin s.timers, "timer already scheduled") EXCEPT !.timers = @ \cup {t}]

cancelEvent(s, t) == [s EXCEPT !.timers = @ \ {t}]

-----------------------------------------------------------------------------
(* Sending control segments (TCPConnectionUtil.cc). *)

selectInitialSeqNum(s, iss) ==
    [s EXCEPT !.iss = iss, !.snd_una = iss, !.snd_nxt = iss, !.snd_max = iss,
              !.sendQueue = [begin |-> Plus(iss, 1), end |-> Plus(iss, 1)]]

SynSent(s) == [s EXCEPT !.snd_nxt = Plus(s.iss, 1), !.snd_max = Plus(s.iss, 1)]

sendSyn(s)    == SynSent(sendToIP(s, {"SYN"}, s.iss, 0, 0))
sendSynAck(s) == SynSent(sendToIP(s, {"SYN", "ACK"}, s.iss, s.rcv_nxt, 0))

sendRst(s, seq) == sendToIP(s, {"RST"}, seq, 0, 0)

(* Mutation: a FIN above a gap is acknowledged. *)
MutSendAck(s) ==
    sendToIP(s, {"ACK"}, s.snd_nxt, IF s.fin_rcvd THEN Plus(s.rcv_fin_seq, 1) ELSE s.rcv_nxt, 0)

sendAck(s)      == sendToIP(s, {"ACK"}, s.snd_nxt, s.rcv_nxt, 0)
sendFin(s)      == sendToIP(s, {"FIN", "ACK"}, s.snd_nxt, s.rcv_nxt, 0)

startSynRexmitTimer(s) ==
    scheduleTimeout(cancelEvent([s EXCEPT !.syn_rexmit_count = 0], "SYN_REXMIT"),
                    "SYN_REXMIT")

-----------------------------------------------------------------------------
(* The send queue and data segments. *)

enqueueAppData(s, len) == [s EXCEPT !.sendQueue.end = Plus(@, len)]

getBytesAvailable(s, from) ==
    IF seqLess(from, s.sendQueue.end) THEN Minus(s.sendQueue.end, from) ELSE 0

discardUpTo(s, seq) ==
    [Assert_(s, seqLE(s.sendQueue.begin, seq) /\ seqLE(seq, s.sendQueue.end), "discardUpTo")
        EXCEPT !.sendQueue.begin = seq]

(* sendSegment: `bytes' bytes from snd_nxt, with the FIN on the last ones. *)
sendSegment(s, bytes) ==
    LET nxt == Plus(s.snd_nxt, bytes)
        fin == s.send_fin /\ nxt = s.snd_fin_seq
        chk == Assert_(s, seqLE(s.sendQueue.begin, s.snd_nxt) /\ seqLE(nxt, s.sendQueue.end),
                       "createSegmentWithBytes")
    IN  [sendToIP(chk, {"ACK"} \cup (IF fin THEN {"FIN"} ELSE {}), s.snd_nxt, s.rcv_nxt, bytes)
            EXCEPT !.snd_nxt = IF fin THEN Plus(nxt, 1) ELSE nxt]

startRexmitTimer(s) == scheduleTimeout([s EXCEPT !.rexmit_count = 0], "REXMIT")

(* Mutation: sending data starts no timer. *)
MutDataSent(s) == s

dataSent(s) == IF "REXMIT" \in s.timers THEN s ELSE startRexmitTimer(s)

(* `bytes' bytes in whole segments, or in one small one if that is all. *)
SendSegments(s, bytes) ==
    LET whole[k \in 0 .. bytes \div MSS] ==
            IF k = 0 THEN s ELSE sendSegment(whole[k - 1], MSS)
    IN  IF bytes <= MSS THEN sendSegment(s, bytes) ELSE whole[bytes \div MSS]

(* Mutation: the bytes in flight are not subtracted from the window. *)
MutConnSendData(s, fullSegmentsOnly, congestionWindow) ==
    LET t     == [s EXCEPT !.snd_nxt = s.snd_max]
        bytes == Smaller(Smaller(t.snd_wnd, congestionWindow), getBytesAvailable(t, t.snd_nxt))
        r     == SendSegments(t, bytes)
    IN  IF bytes <= 0 \/ (fullSegmentsOnly /\ bytes < MSS) THEN t
        ELSE dataSent([r EXCEPT !.snd_max = r.snd_nxt])

(* TCPConnection::sendData, from snd_max.  It returns false exactly when   *)
(* nothing goes out.                                                       *)
connSendData(s, fullSegmentsOnly, congestionWindow) ==
    LET t     == [s EXCEPT !.snd_nxt = s.snd_max]
        win   == Smaller(t.snd_wnd, congestionWindow) - Minus(t.snd_nxt, t.snd_una)
        bytes == Smaller(win, getBytesAvailable(t, t.snd_nxt))
        r     == SendSegments(t, bytes)
    IN  IF bytes <= 0 \/ (fullSegmentsOnly /\ bytes < MSS) THEN t
        ELSE dataSent([r EXCEPT !.snd_max = r.snd_nxt])

(* TCPBaseAlg::sendData: Nagle's algorithm. *)
sendData(s) == connSendData(s, s.snd_una # s.snd_max, s.snd_cwnd)

retransmitOneSegment(s) ==
    LET t     == [s EXCEPT !.snd_nxt = s.snd_una]
        bytes == Smaller(MSS, Minus(s.snd_max, s.snd_una))
    IN  sendSegment(Assert_(t, bytes # 0, "retransmitOneSegment"), bytes)

(* Mutation: the FIN's sequence number is retransmitted as a byte. *)
MutRetransmitData(s) ==
    LET t == [s EXCEPT !.snd_nxt = s.snd_una]
    IN  sendSegment(t, Smaller(MSS, Minus(s.snd_max, s.snd_una)))

(* retransmitData: everything from snd_una, stopping at the FIN. *)
retransmitData(s) ==
    LET total == Minus(s.snd_max, s.snd_una)
        start == Assert_([s EXCEPT !.snd_nxt = s.snd_una], total # 0, "retransmitData")
        again(a) ==
            LET bytes == Smaller(Smaller(a.left, MSS), getBytesAvailable(a.s, a.s.snd_nxt))
                t     == sendSegment(a.s, bytes)
            IN  [s |-> t,
                 left |-> IF t.send_fin /\ t.snd_nxt = Plus(t.snd_fin_seq, 1) THEN 0
                          ELSE a.left - bytes]
        loop[k \in 0 .. total] ==
            IF k = 0 THEN [s |-> start, left |-> total]
            ELSE IF loop[k - 1].left = 0 THEN loop[k - 1] ELSE again(loop[k - 1])
    IN  loop[total].s

-----------------------------------------------------------------------------
(* Congestion control: TCPBaseAlg and its subclasses. *)

established(s, active) ==
    LET t == [s EXCEPT !.snd_cwnd = MSS]
        r == sendData(t)
    IN  IF ~active THEN t ELSE IF r.out = t.out THEN sendAck(r) ELSE r

recalculateSlowStartThreshold(s) ==
    [s EXCEPT !.ssthresh = Larger(Smaller(s.snd_cwnd, s.snd_wnd) \div 2, 2 * MSS)]

(* The window after an ACK: Fast Recovery (Reno), Slow Start or Congestion *)
(* Avoidance.                                                              *)
CwndAfterAck(s) ==
    CASE Flavour = "NoCC"                     -> s.snd_cwnd
      [] Flavour = "Reno" /\ s.dupacks >= 3   -> s.ssthresh
      [] OTHER -> IF s.snd_cwnd < s.ssthresh THEN s.snd_cwnd + MSS
                  ELSE s.snd_cwnd + Larger(1, (MSS * MSS) \div s.snd_cwnd)

receivedDataAck(s) ==
    LET t == IF s.snd_una = s.snd_max THEN cancelEvent(s, "REXMIT")
             ELSE startRexmitTimer(cancelEvent(s, "REXMIT"))
    IN  sendData([t EXCEPT !.snd_cwnd = CwndAfterAck(t)])

receivedDuplicateAck(s) ==
    LET t == recalculateSlowStartThreshold(retransmitOneSegment(s))
    IN  CASE Flavour # "NoCC" /\ s.dupacks = 3 ->
                startRexmitTimer(cancelEvent(
                    [t EXCEPT !.snd_cwnd = IF Flavour = "Reno" THEN t.ssthresh + 3 * MSS
                                                               ELSE MSS], "REXMIT"))
          [] Flavour = "Reno" /\ s.dupacks > 3 ->
                sendData([s EXCEPT !.snd_cwnd = @ + MSS])
          [] OTHER -> s

(* Mutation: the timer is not restarted. *)
MutProcessRexmitTimer(s) ==
    IF s.rexmit_count + 1 > MaxRexmit
    THEN Event(sendIndicationToApp(s, "TIMED_OUT"), "ABORT")
    ELSE retransmitOneSegment([s EXCEPT !.rexmit_count = @ + 1])

(* processRexmitTimer; the timer itself has just fired. *)
processRexmitTimer(s) ==
    LET t == scheduleTimeout([s EXCEPT !.rexmit_count = @ + 1], "REXMIT")
        slow == [recalculateSlowStartThreshold(t) EXCEPT !.snd_cwnd = MSS]
    IN  IF s.rexmit_count + 1 > MaxRexmit
        THEN Event(sendIndicationToApp(s, "TIMED_OUT"), "ABORT")
        ELSE CASE Flavour = "NoCC"  -> retransmitOneSegment(t)
               [] Flavour = "Tahoe" -> retransmitOneSegment(slow)
               [] Flavour = "Reno"  -> retransmitData(slow)
=============================================================================
