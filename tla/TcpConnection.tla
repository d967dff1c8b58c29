--------------------------- MODULE TcpConnection ---------------------------
(***************************************************************************)
(* The event handlers of class TCPConnection: application commands         *)
(* (TCPConnectionEventProc.cc), arriving segments and timers               *)
(* (TCPConnectionRcvSegment.cc) and the state machine that follows each of *)
(* them (TCPConnectionBase.cc).                                            *)
(***************************************************************************)
EXTENDS TcpOutput

(* performStateTransition: state and event to next state. *)
Transitions(active) ==
    LET refused == IF active THEN "CLOSED" ELSE "LISTEN" IN [
    INIT        |-> [OPEN_PASSIVE |-> "LISTEN", OPEN_ACTIVE |-> "SYN_SENT"],
    LISTEN      |-> [OPEN_ACTIVE |-> "SYN_SENT", SEND |-> "SYN_SENT", CLOSE |-> "CLOSED",
                     ABORT |-> "CLOSED", RCV_SYN |-> "SYN_RCVD"],
    SYN_RCVD    |-> [CLOSE |-> "FIN_WAIT_1", ABORT |-> "CLOSED",
                     TIMEOUT_CONN_ESTAB |-> refused, RCV_RST |-> refused,
                     RCV_ACK |-> "ESTABLISHED", RCV_FIN |-> "CLOSE_WAIT",
                     RCV_UNEXP_SYN |-> "CLOSED"],
    SYN_SENT    |-> [CLOSE |-> "CLOSED", ABORT |-> "CLOSED", TIMEOUT_CONN_ESTAB |-> "CLOSED",
                     RCV_RST |-> "CLOSED", RCV_SYN_ACK |-> "ESTABLISHED",
                     RCV_SYN |-> "SYN_RCVD"],
    ESTABLISHED |-> [CLOSE |-> "FIN_WAIT_1", ABORT |-> "CLOSED", RCV_FIN |-> "CLOSE_WAIT",
                     RCV_RST |-> "CLOSED", RCV_UNEXP_SYN |-> "CLOSED"],
    CLOSE_WAIT  |-> [CLOSE |-> "LAST_ACK", ABORT |-> "CLOSED", RCV_RST |-> "CLOSED",
                     RCV_UNEXP_SYN |-> "CLOSED"],
    LAST_ACK    |-> [ABORT |-> "CLOSED", RCV_ACK |-> "CLOSED", RCV_RST |-> "CLOSED",
                     RCV_UNEXP_SYN |-> "CLOSED"],
    FIN_WAIT_1  |-> [ABORT |-> "CLOSED", RCV_FIN |-> "CLOSING", RCV_ACK |-> "FIN_WAIT_2",
                     RCV_FIN_ACK |-> "TIME_WAIT", RCV_RST |-> "CLOSED",
                     RCV_UNEXP_SYN |-> "CLOSED"],
    FIN_WAIT_2  |-> [ABORT |-> "CLOSED", RCV_FIN |-> "TIME_WAIT", RCV_RST |-> "CLOSED",
                     TIMEOUT_FIN_WAIT_2 |-> "CLOSED", RCV_UNEXP_SYN |-> "CLOSED"],
    CLOSING     |-> [ABORT |-> "CLOSED", RCV_ACK |-> "TIME_WAIT", RCV_RST |-> "CLOSED",
                     RCV_UNEXP_SYN |-> "CLOSED"],
    TIME_WAIT   |-> [ABORT |-> "CLOSED", TIMEOUT_2MSL |-> "CLOSED", RCV_RST |-> "CLOSED",
                     RCV_UNEXP_SYN |-> "CLOSED"]]

(* Mutation: the setup timers are cancelled in ESTABLISHED only. *)
MutStateEntered(s) ==
    [s EXCEPT !.timers =
        CASE s.fsm = "CLOSED"      -> {}
          [] s.fsm = "ESTABLISHED" -> @ \ {"CONN_ESTAB", "SYN_REXMIT"}
          [] OTHER                 -> @]

(* stateEntered: the timers a state cancels when it is entered. *)
stateEntered(s) ==
    [s EXCEPT !.timers =
        CASE s.fsm = "CLOSED"                     -> {}
          [] s.fsm \in {"SYN_RCVD", "SYN_SENT"}   -> @
          [] OTHER                                -> @ \ {"CONN_ESTAB", "SYN_REXMIT"}]

performStateTransition(s) ==
    LET next == Transitions(s.active)[s.fsm] IN
    IF s.ev \in DOMAIN next
    THEN stateEntered([s EXCEPT !.fsm = next[s.ev], !.ev = "IGNORE"])
    ELSE Event(s, "IGNORE")

-----------------------------------------------------------------------------
(* Application commands. *)

(* The SYN and the two timers of an active open. *)
ActiveOpen(s, iss) ==
    LET t == sendSyn(selectInitialSeqNum([s EXCEPT !.active = TRUE], iss))
    IN  scheduleTimeout(startSynRexmitTimer(t), "CONN_ESTAB")

process_OPEN_ACTIVE(s, iss) == Event(ActiveOpen(s, iss), "OPEN_ACTIVE")

process_OPEN_PASSIVE(s) == Event([s EXCEPT !.active = FALSE], "OPEN_PASSIVE")

(* A SEND in LISTEN turns the passive open into an active one.  No         *)
(* application gets there through TCPSocket::send(), which refuses it until *)
(* the connection is established.                                          *)
process_SEND(s, len, iss) ==
    LET t == enqueueAppData(s, len) IN
    CASE s.fsm = "LISTEN" -> Event(enqueueAppData(ActiveOpen(s, iss), len), "SEND")
      [] s.fsm \in {"SYN_RCVD", "SYN_SENT"}          -> Event(t, "SEND")
      [] s.fsm \in {"ESTABLISHED", "CLOSE_WAIT"}     -> Event(sendData(t), "SEND")
      [] OTHER                                       -> Fail(s, "SEND: connection closing")

(* The FIN goes out at once if all data has been sent, else with the last  *)
(* of the data; the CLOSE event is then simulated later.                   *)
process_CLOSE(s) ==
    LET t    == sendFin([s EXCEPT !.snd_nxt = s.snd_max])
        sent == [t EXCEPT !.snd_nxt = Plus(@, 1), !.snd_max = Plus(s.snd_max, 1)]
        mark(r) == [r EXCEPT !.send_fin = TRUE, !.snd_fin_seq = s.sendQueue.end]
    IN  CASE s.fsm \in {"LISTEN", "SYN_SENT"} -> Event(s, "CLOSE")
          [] s.fsm \in {"SYN_RCVD", "ESTABLISHED", "CLOSE_WAIT"} ->
                IF s.snd_max = s.sendQueue.end THEN mark(Event(sent, "CLOSE"))
                                               ELSE mark(Event(s, "IGNORE"))
          [] OTHER -> Fail(s, "Duplicate CLOSE")

process_ABORT(s) ==
    Event(IF s.fsm \in {"SYN_RCVD", "ESTABLISHED", "FIN_WAIT_1", "FIN_WAIT_2", "CLOSE_WAIT"}
          THEN sendRst(s, s.snd_nxt) ELSE s, "ABORT")

-----------------------------------------------------------------------------
(* Arriving segments. *)

Has(seg, flag) == flag \in seg.flags

(* The reply to a segment that belongs to no connection. *)
segmentArrivalWhileClosed(seg) ==
    IF Has(seg, "RST") THEN <<>>
    ELSE IF Has(seg, "ACK")
    THEN <<[flags |-> {"RST"}, seq |-> seg.ackNo, ackNo |-> 0, len |-> 0]>>
    ELSE <<[flags |-> {"RST", "ACK"}, seq |-> 0, ackNo |-> Plus(seg.seq, seg.len), len |-> 0]>>

RcvSyn(s, seg) ==
    [s EXCEPT !.rcv_nxt = Plus(seg.seq, 1), !.receiveQueue.rcv_nxt = Plus(seg.seq, 1)]

(* processSegmentInListen.  No segment of this TCP carries text on a SYN. *)
processSegmentInListen(s, seg, iss) ==
    LET t == sendSynAck([selectInitialSeqNum(RcvSyn(s, seg), iss) EXCEPT !.snd_wnd = RcvWnd])
        u == startSynRexmitTimer(t)
    IN  IF Has(seg, "RST") THEN s
        ELSE IF Has(seg, "ACK") THEN sendRst(s, seg.ackNo)
        ELSE IF ~Has(seg, "SYN") THEN s
        ELSE Event(IF "CONN_ESTAB" \in u.timers THEN u ELSE scheduleTimeout(u, "CONN_ESTAB"),
                   "RCV_SYN")

(* processSegmentInSynSent, for a SYN that acks ours, and for one that does *)
(* not (simultaneous open).                                                 *)
SynAckInSynSent(s, seg) ==
    LET t == discardUpTo([RcvSyn(s, seg) EXCEPT !.snd_una = seg.ackNo], seg.ackNo)
        u == established([t EXCEPT !.snd_wnd = RcvWnd], TRUE)
    IN  Event(sendIndicationToApp(u, "ESTABLISHED"), "RCV_SYN_ACK")

SynInSynSent(s, seg) ==
    LET t == sendSynAck([RcvSyn(s, seg) EXCEPT !.snd_nxt = s.iss, !.snd_max = s.iss])
    IN  Event(startSynRexmitTimer(t), "RCV_SYN")

processSegmentInSynSent(s, seg) ==
    LET badAck == seqLE(seg.ackNo, s.iss) \/ seqGreater(seg.ackNo, s.snd_nxt) IN
    IF Has(seg, "ACK") /\ badAck THEN sendRst(s, seg.ackNo)
    ELSE IF Has(seg, "RST") /\ Has(seg, "ACK")
    THEN Event(sendIndicationToApp(s, "CONNECTION_RESET"), "RCV_RST")
    ELSE IF Has(seg, "RST") \/ ~Has(seg, "SYN") THEN s
    ELSE IF Has(seg, "ACK") THEN SynAckInSynSent(s, seg) ELSE SynInSynSent(s, seg)

isSegmentAcceptable(s, seg) ==
    /\ seqGE(seg.seq, s.rcv_nxt)
    /\ seqLE(Plus(seg.seq, seg.len), Plus(s.rcv_nxt, RcvWnd))

(* Mutation: CLOSED is indicated in TIME_WAIT too. *)
MutRcvRst(s) ==
    Event(IF s.fsm \in {"CLOSING", "LAST_ACK", "TIME_WAIT"}
          THEN sendIndicationToApp(s, "CLOSED")
          ELSE sendIndicationToApp(s, "CONNECTION_RESET"), "RCV_RST")

(* Second step: an acceptable RST. *)
RcvRst(s) ==
    LET flushed == discardUpTo(s, s.sendQueue.end) IN
    Event(CASE s.fsm = "SYN_RCVD" ->
                    IF s.active THEN sendIndicationToApp(flushed, "CONNECTION_REFUSED")
                                ELSE flushed
            [] s.fsm \in {"ESTABLISHED", "FIN_WAIT_1", "FIN_WAIT_2", "CLOSE_WAIT"} ->
                    sendIndicationToApp(s, "CONNECTION_RESET")
            [] s.fsm \in {"CLOSING", "LAST_ACK"} -> sendIndicationToApp(s, "CLOSED")
            [] s.fsm = "TIME_WAIT" -> s,
          "RCV_RST")

(* processAckInEstabEtc. *)
AcksUnsent(s, seg) ==
    ~seqGE(s.snd_una, seg.ackNo) /\ ~seqLE(seg.ackNo, s.snd_max)

(* An ACK at or below snd_una.  dupacks is only compared with 3: it is not *)
(* counted beyond 4.                                                       *)
OldAck(s, seg) ==
    IF s.snd_una = seg.ackNo /\ seg.len = 0 /\ s.snd_una # s.snd_max
    THEN receivedDuplicateAck([s EXCEPT !.dupacks = Smaller(@ + 1, 4)])
    ELSE [s EXCEPT !.dupacks = 0]

(* The window update, with snd_wl1 = snd_wl2 = 0 before the first one. *)
UpdatedWnd(s, seg) ==
    IF seqLess(0, seg.seq) \/ (seg.seq = 0 /\ seqLE(0, seg.ackNo)) THEN RcvWnd ELSE s.snd_wnd

NewAck(s, seg) ==
    LET finAcked == s.send_fin /\ seg.ackNo = Plus(s.snd_fin_seq, 1)
        t == [s EXCEPT !.snd_una = seg.ackNo,
                       !.snd_nxt = IF seqLess(@, seg.ackNo) THEN seg.ackNo ELSE @,
                       !.fin_ack_rcvd = @ \/ finAcked]
        u == discardUpTo(t, IF finAcked THEN Minus(seg.ackNo, 1) ELSE seg.ackNo)
    IN  [receivedDataAck([u EXCEPT !.snd_wnd = UpdatedWnd(u, seg)]) EXCEPT !.dupacks = 0]

processAckInEstabEtc(s, seg) ==
    CASE seqGE(s.snd_una, seg.ackNo) -> OldAck(s, seg)
      [] AcksUnsent(s, seg)          -> [sendAck(s) EXCEPT !.dupacks = 0]
      [] OTHER                       -> NewAck(s, seg)

(* Fifth step: the ACK field, in the states that go on to the later steps. *)
AckInSynRcvd(s) ==
    Event(sendIndicationToApp(established(s, FALSE), "ESTABLISHED"), "RCV_ACK")

AckStep(s, seg) ==
    LET t == processAckInEstabEtc(IF s.fsm = "SYN_RCVD" THEN AckInSynRcvd(s) ELSE s, seg) IN
    CASE s.fsm = "FIN_WAIT_1" /\ t.fin_ack_rcvd -> Event(t, "RCV_ACK")
      [] s.fsm = "CLOSING" /\ t.fin_ack_rcvd ->
            Event(sendIndicationToApp(scheduleTimeout(t, "2MSL"), "CLOSED"), "RCV_ACK")
      [] s.fsm = "LAST_ACK" -> s
      [] s.fsm = "TIME_WAIT" -> scheduleTimeout(cancelEvent(sendAck(s), "2MSL"), "2MSL")
      [] OTHER -> t

(* Seventh step: the segment text. *)
InOrderText(s, ins) ==
    LET ext    == Extract(ins, ins.rcv_nxt)
        filled == s.fin_rcvd /\ ins.rcv_nxt = s.rcv_fin_seq
        t      == [Assert_(s, ext.ok, "extractTo") EXCEPT
                      !.receiveQueue = [ins EXCEPT !.regions = ext.rest],
                      !.rcv_nxt = IF filled THEN Plus(s.rcv_fin_seq, 1) ELSE ins.rcv_nxt,
                      !.ind = Append(@, [kind |-> "DATA", len |-> ext.octets])]
    IN  IF filled THEN sendIndicationToApp(t, "PEER_CLOSED") ELSE t

TextStep(s, seg) ==
    LET ins == insertBytesFromSegment(s.receiveQueue, seg.seq, seg.len) IN
    IF s.fsm \notin {"SYN_RCVD", "ESTABLISHED", "FIN_WAIT_1", "FIN_WAIT_2"} \/ seg.len = 0
    THEN s
    ELSE IF ins.rcv_nxt = s.rcv_nxt
    THEN sendAck([s EXCEPT !.receiveQueue = ins])
    ELSE InOrderText(s, ins)

(* Eighth step: the FIN bit. *)
EnterTimeWait(s) == sendIndicationToApp(scheduleTimeout(s, "2MSL"), "CLOSED")

(* Mutation: rcv_nxt does not advance over the FIN. *)
MutFinStep(s, seg) ==
    IF Has(seg, "FIN") /\ s.rcv_nxt = Plus(seg.seq, seg.len)
    THEN Event(sendAck(sendIndicationToApp(s, "PEER_CLOSED")), "RCV_FIN") ELSE s

FinStep(s, seg) ==
    LET fin_seq == Plus(seg.seq, seg.len)
        t == IF s.rcv_nxt = fin_seq
             THEN sendIndicationToApp([s EXCEPT !.rcv_nxt = Plus(@, 1)], "PEER_CLOSED")
             ELSE [s EXCEPT !.fin_rcvd = TRUE, !.rcv_fin_seq = fin_seq]
    IN  CASE ~Has(seg, "FIN") -> s
          [] Has(seg, "FIN") /\ s.fsm = "FIN_WAIT_1" /\ t.fin_ack_rcvd ->
                Event(EnterTimeWait(t), "RCV_FIN_ACK")
          [] Has(seg, "FIN") /\ s.fsm = "FIN_WAIT_2" -> Event(EnterTimeWait(t), "RCV_FIN")
          [] Has(seg, "FIN") /\ s.fsm = "TIME_WAIT" ->
                Event(scheduleTimeout(cancelEvent(t, "2MSL"), "2MSL"), "RCV_FIN")
          [] OTHER -> Event(t, "RCV_FIN")

(* Mutation: a CLOSE deferred in CLOSE_WAIT is forgotten. *)
MutDeferredClose(s, old_snd_nxt) ==
    IF s.fsm \in {"ESTABLISHED", "SYN_RCVD"} /\ s.send_fin /\ s.snd_nxt = Plus(s.snd_fin_seq, 1)
    THEN Event(s, "CLOSE") ELSE s

(* A CLOSE deferred by process_CLOSE is simulated once its FIN is sent. *)
DeferredClose(s, old_snd_nxt) ==
    LET finSent == s.send_fin /\ s.snd_nxt = Plus(s.snd_fin_seq, 1) IN
    IF \/ s.fsm \in {"ESTABLISHED", "SYN_RCVD"} /\ finSent
       \/ s.fsm = "CLOSE_WAIT" /\ finSent /\ s.snd_nxt # old_snd_nxt
    THEN Event(s, "CLOSE") ELSE s

TextAndFin(s, seg, old_snd_nxt) ==
    LET t == FinStep(TextStep(s, seg), seg)
    IN  DeferredClose(IF t.rcv_nxt # s.rcv_nxt THEN sendAck(t) ELSE t, old_snd_nxt)

processSegment1stThru8th(s, seg) ==
    LET badAck   == ~(seqLE(s.snd_una, seg.ackNo) /\ seqLE(seg.ackNo, s.snd_nxt))
        finAcked == s.send_fin /\ seg.ackNo = Plus(s.snd_fin_seq, 1)
    IN  IF ~isSegmentAcceptable(s, seg)
        THEN IF Has(seg, "RST") THEN s ELSE sendAck(s)
        ELSE IF Has(seg, "RST") THEN RcvRst(s)
        ELSE IF Has(seg, "SYN")
        THEN Event(sendIndicationToApp(s, "CONNECTION_RESET"), "RCV_UNEXP_SYN")
        ELSE IF ~Has(seg, "ACK") THEN s
        ELSE IF s.fsm = "SYN_RCVD" /\ badAck THEN sendRst(s, seg.ackNo)
        ELSE IF s.fsm = "LAST_ACK" /\ finAcked
        THEN Event(sendIndicationToApp(s, "CLOSED"), "RCV_ACK")
        ELSE IF s.fsm \notin {"LAST_ACK", "TIME_WAIT"} /\ AcksUnsent(s, seg)
        THEN processAckInEstabEtc(s, seg)
        ELSE TextAndFin(AckStep(s, seg), seg, s.snd_nxt)

process_RCV_SEGMENT(s, seg, iss) ==
    CASE s.fsm = "LISTEN"   -> processSegmentInListen(s, seg, iss)
      [] s.fsm = "SYN_SENT" -> processSegmentInSynSent(s, seg)
      [] OTHER              -> processSegment1stThru8th(s, seg)

-----------------------------------------------------------------------------
(* Timers; the timer itself has just fired. *)

process_TIMEOUT_2MSL(s) ==
    Event(Assert_(s, s.fsm = "TIME_WAIT", "2MSL in wrong state"), "TIMEOUT_2MSL")

process_TIMEOUT_CONN_ESTAB(s) ==
    LET t == Assert_(s, s.fsm \in {"SYN_RCVD", "SYN_SENT"}, "CONN_ESTAB in wrong state")
    IN  Event(IF s.active THEN sendIndicationToApp(t, "TIMED_OUT") ELSE t, "TIMEOUT_CONN_ESTAB")

process_TIMEOUT_SYN_REXMIT(s) ==
    LET t == [s EXCEPT !.syn_rexmit_count = @ + 1] IN
    CASE t.syn_rexmit_count > MAX_SYN_REXMIT_COUNT -> Event(t, "ABORT")
      [] t.syn_rexmit_count <= MAX_SYN_REXMIT_COUNT /\ s.fsm = "SYN_SENT" ->
            scheduleTimeout(sendSyn(t), "SYN_REXMIT")
      [] t.syn_rexmit_count <= MAX_SYN_REXMIT_COUNT /\ s.fsm = "SYN_RCVD" ->
            scheduleTimeout(sendSynAck(t), "SYN_REXMIT")
      [] OTHER -> Fail(t, "SYN_REXMIT in wrong state")
=============================================================================
