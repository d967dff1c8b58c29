---------------------------- MODULE Ieee80211Mac ----------------------------
(***************************************************************************)
(* The distributed coordination function of an IEEE 802.11 station         *)
(* (linklayer/ieee80211/mac/Ieee80211Mac.cc): its timers and its state     *)
(* machine, as operators from the record of a station to that record.      *)
(*                                                                         *)
(* Time is counted in units of which SIFS and ST are multiples.  What a    *)
(* handler gives to the higher layer, and the fate of a frame it disposes  *)
(* of, are the fields `up' and `done', which are None between events.      *)
(***************************************************************************)
EXTENDS Integers, Sequences

CONSTANTS
    Station,
    Broadcast,          \* the broadcast address
    None,               \* no frame, no address
    SIFS, ST,           \* the inter-frame space and the slot time
    Airtime,            \* duration of an RTS, a CTS and an ACK at basicBitrate
    SlowAck,            \* what getEIFS takes for the duration of an ACK
    rtsThreshold,       \* frames with this airtime are announced by an RTS
    transmissionLimit, cwMinData, cwMinBroadcast, CW_MAX, maxQueueSize

(* The header alone of a frame (PHY_HEADER_LENGTH at BITRATE_HEADER) lasts *)
(* longer than SIFS.                                                       *)
Duration == {d \in Nat : d > SIFS}

ASSUME MacAssumption ==
    /\ {SIFS, ST, SlowAck, transmissionLimit} \subseteq Nat \ {0}
    /\ Airtime \in [{"RTS", "CTS", "ACK"} -> Duration]
    /\ {cwMinData, cwMinBroadcast, CW_MAX, rtsThreshold, maxQueueSize} \subseteq Nat
    /\ Broadcast \notin Station /\ None \notin Station \cup {Broadcast}

DIFS == SIFS + 2 * ST
EIFS == SIFS + DIFS + SlowAck

TimerName == {"SIFS", "DIFS", "Backoff", "Timeout", "Reserve", "MediumStateChange"}
FsmState == {"IDLE", "DEFER", "WAITDIFS", "BACKOFF", "WAITACK", "WAITBROADCAST", "WAITCTS",
             "WAITSIFS"}

(* A data frame of the higher layer has a number, greater for a later one. *)
DataFrame == [type : {"DATA"}, from : Station, to : Station \cup {Broadcast}, id : Nat,
              airtime : Duration, duration : Nat]
(* An RTS reserves the medium for a CTS and what follows it. *)
RtsFrame == [type : {"RTS"}, from : Station, to : Station, airtime : Duration,
             duration : {d \in Nat : d >= SIFS + Airtime["CTS"]}]
Answer == [type : {"CTS", "ACK"}, from : {None}, to : Station, airtime : Duration, duration : Nat]
ControlFrame == RtsFrame \cup Answer
Frame == DataFrame \cup ControlFrame

Received == [frame : Frame, bad : BOOLEAN]
Result == {"acked", "sent", "gaveUp", "dropped"}

ASSUME NoneAssumption == None \notin Frame \cup Received \cup (Nat \X Result)

(* timer: the time left until each timer, -1 if it is not scheduled;       *)
(* answering: the frame kept with endSIFS; failed: lastReceiveFailed;      *)
(* receiving: snrInfo of the radio, with the sender of the frame received; *)
(* down, arrived: the frame on its way from the MAC to the radio, and from *)
(* the radio to the MAC.                                                   *)
StationType ==
    [address : Station, fsm : FsmState, queue : Seq(DataFrame), backoff : BOOLEAN,
     backoffPeriod : Int, retryCounter : Nat, failed : BOOLEAN, timer : [TimerName -> Int],
     answering : Frame \cup {None}, radio : {"IDLE", "RECV", "TRANSMIT"},
     receiving : Station \cup {None}, garbled : BOOLEAN, down : Frame \cup {None},
     arrived : Received \cup {None}, up : DataFrame \cup {None},
     done : (Nat \X Result) \cup {None}, err : BOOLEAN]

NewStation(n) ==
    [address |-> n, fsm |-> "IDLE", queue |-> <<>>, backoff |-> FALSE, backoffPeriod |-> -1,
     retryCounter |-> 0, failed |-> FALSE, timer |-> [t \in TimerName |-> -1],
     answering |-> None, radio |-> "IDLE", receiving |-> None, garbled |-> FALSE,
     down |-> None, arrived |-> None, up |-> None, done |-> None, err |-> FALSE]

-----------------------------------------------------------------------------
Scheduled(s, t) == s.timer[t] # -1

(* scheduleAt() of a scheduled message is a runtime error. *)
Schedule(s, t, time) == [s EXCEPT !.timer[t] = time, !.err = @ \/ Scheduled(s, t)]
Cancel(s, t) == [s EXCEPT !.timer[t] = -1]
Require(s, condition) == [s EXCEPT !.err = @ \/ ~condition]

(* Mutation: a reservation does not make the medium busy. *)
MutisMediumFree(s) == s.radio = "IDLE"

isMediumFree(s) == s.radio = "IDLE" /\ ~Scheduled(s, "Reserve")
isForUs(s, f) == f.to = s.address

Current(s) == Head(s.queue)

(* Mutation: the number of attempts goes on from frame to frame. *)
MutresetStateVariables(s) == [s EXCEPT !.backoffPeriod = 0, !.backoff = (s.queue # <<>>)]

resetStateVariables(s) ==
    [s EXCEPT !.backoffPeriod = 0, !.retryCounter = 0, !.backoff = (s.queue # <<>>)]

(* The contention windows of computeBackoffPeriod; c below is the slot     *)
(* number drawn from one of them.                                          *)
Doubled(r) == IF (cwMinData + 1) * 2 ^ r - 1 > CW_MAX THEN CW_MAX ELSE (cwMinData + 1) * 2 ^ r - 1
ContentionWindow(f, r) == IF f.to = Broadcast THEN cwMinBroadcast ELSE Doubled(r)

generateBackoffPeriod(s, c) ==
    Require([s EXCEPT !.backoffPeriod = c * ST],
           Current(s).to = Broadcast \/ s.retryCounter < transmissionLimit)

(* Whole slots that have passed are taken off. *)
decreaseBackoffPeriod(s) ==
    LET elapsed == s.backoffPeriod - s.timer["Backoff"]
        left == s.backoffPeriod - (elapsed \div ST) * ST
    IN  Require(Cancel([s EXCEPT !.backoffPeriod = left], "Backoff"), left >= 0)

-----------------------------------------------------------------------------
(* Frames. *)
Rts(f) ==
    [type |-> "RTS", from |-> f.from, to |-> f.to, airtime |-> Airtime["RTS"],
     duration |-> 3 * SIFS + Airtime["CTS"] + f.airtime + Airtime["ACK"]]

Cts(rts) ==
    [type |-> "CTS", from |-> None, to |-> rts.from, airtime |-> Airtime["CTS"],
     duration |-> rts.duration - SIFS - Airtime["CTS"]]

Ack(f) == [type |-> "ACK", from |-> None, to |-> f.from, airtime |-> Airtime["ACK"], duration |-> 0]

Data(f) ==
    [f EXCEPT !.duration = IF f.to = Broadcast THEN 0 ELSE SIFS + Airtime["ACK"]]

sendDown(s, f) == Require([s EXCEPT !.down = f], s.down = None)

(* Mutation: the timer of the shorter reservation is not cancelled. *)
MutscheduleReservePeriod(s, f) ==
    IF isForUs(s, f) \/ f.duration = 0 \/ s.timer["Reserve"] > f.duration THEN s
    ELSE Schedule(s, "Reserve", f.duration)

(* The duration field of a frame for somebody else, even a garbled one, is *)
(* kept as a reservation unless a longer one runs.  When the medium was    *)
(* free, the state machine learns of it by a message.                      *)
scheduleReservePeriod(s, f) ==
    IF isForUs(s, f) \/ f.duration = 0 \/ s.timer["Reserve"] > f.duration THEN s
    ELSE IF Scheduled(s, "Reserve") THEN Schedule(Cancel(s, "Reserve"), "Reserve", f.duration)
    ELSE IF s.radio = "IDLE"
    THEN Schedule(Schedule(s, "MediumStateChange", 0), "Reserve", f.duration)
    ELSE Schedule(s, "Reserve", f.duration)

-----------------------------------------------------------------------------
(* The state machine: what is done on entering a state, and the            *)
(* transitions that follow without an event.                               *)

EnterWaitDifs(s) ==
    IF isMediumFree(s)
    THEN Schedule([s EXCEPT !.fsm = "WAITDIFS"], "DIFS", IF s.failed THEN EIFS ELSE DIFS)
    ELSE Require([s EXCEPT !.fsm = "DEFER", !.backoff = TRUE], ~Scheduled(s, "DIFS"))

(* (In the code the condition of Immediate-Wait-DIFS is not parenthesised  *)
(* by its macro, so that a free medium also lets an event leave DEFER this *)
(* way; TimersFit says that DEFER is never met with a free medium.)        *)
EnterDefer(s) ==
    IF isMediumFree(s) \/ ~s.backoff THEN EnterWaitDifs(s) ELSE [s EXCEPT !.fsm = "DEFER"]

EnterIdle(s) ==
    IF s.queue = <<>> THEN [s EXCEPT !.fsm = "IDLE"]
    ELSE EnterDefer([s EXCEPT !.backoffPeriod = -1])

EnterBackoff(s) == Schedule([s EXCEPT !.fsm = "BACKOFF"], "Backoff", s.backoffPeriod)

EnterWaitSifs(s, f) == Schedule([s EXCEPT !.fsm = "WAITSIFS", !.answering = f], "SIFS", SIFS)

EnterWaitAck(s) ==
    Schedule([s EXCEPT !.fsm = "WAITACK"], "Timeout", Current(s).airtime + SIFS + Airtime["ACK"])

EnterWaitCts(s) ==
    Schedule([s EXCEPT !.fsm = "WAITCTS"], "Timeout", Airtime["RTS"] + SIFS + Airtime["CTS"])

EnterWaitBroadcast(s) ==
    Schedule([s EXCEPT !.fsm = "WAITBROADCAST"], "Timeout", Current(s).airtime)

EnterReceive(s, f, bad) ==
    IF bad THEN EnterIdle(resetStateVariables(s))
    ELSE IF f.type = "DATA" /\ f.to = Broadcast THEN EnterIdle(resetStateVariables([s EXCEPT !.up = f]))
    ELSE IF f.type = "DATA" /\ isForUs(s, f) THEN EnterWaitSifs([s EXCEPT !.up = f], f)
    ELSE IF f.type = "RTS" /\ isForUs(s, f) THEN EnterWaitSifs(s, f)
    ELSE EnterIdle(resetStateVariables(s))

(* The current frame, after DIFS or the backoff: announced, broadcast or   *)
(* sent.                                                                   *)
Transmit(s) ==
    LET f == Current(s) IN
    IF f.to = Broadcast THEN EnterWaitBroadcast(sendDown(s, Data(f)))
    ELSE IF f.airtime >= rtsThreshold THEN EnterWaitCts(sendDown(s, Rts(f)))
    ELSE EnterWaitAck(sendDown(s, Data(f)))

popTransmissionQueue(s, result) ==
    [s EXCEPT !.queue = Tail(@), !.done = <<Current(s).id, result>>]

Finish(s, result) == EnterIdle(resetStateVariables(popTransmissionQueue(s, result)))

(* Mutation: attempts are not counted. *)
MutretryCurrentTransmission(s, c) == generateBackoffPeriod([s EXCEPT !.backoff = TRUE], c)

retryCurrentTransmission(s, c) ==
    generateBackoffPeriod([s EXCEPT !.retryCounter = @ + 1, !.backoff = TRUE], c)

-----------------------------------------------------------------------------
(* The events.  Each is one call of handleWithFSM, with c the slot number  *)
(* drawn if it needs one.                                                  *)

(* The radio state, the reservation or a scheduled message says that the   *)
(* medium has become busy or free.                                         *)
mediumStateChange(s) ==
    CASE s.fsm = "DEFER" /\ isMediumFree(s) -> EnterWaitDifs(s)
      [] s.fsm = "WAITDIFS" /\ ~isMediumFree(s) ->
            EnterDefer([Cancel(s, "DIFS") EXCEPT !.backoff = TRUE])
      [] s.fsm = "BACKOFF" /\ ~isMediumFree(s) -> EnterDefer(decreaseBackoffPeriod(s))
      [] OTHER -> s

receiveChangeNotification(s, state) == mediumStateChange([s EXCEPT !.radio = state])

(* Mutation: the end of a reservation goes unnoticed. *)
MutendReserve(s) == s

endReserve(s) == IF s.radio = "IDLE" THEN mediumStateChange(s) ELSE s

handleUpperMsg(s, f) ==
    IF maxQueueSize # 0 /\ Len(s.queue) = maxQueueSize THEN [s EXCEPT !.done = <<f.id, "dropped">>]
    ELSE IF s.fsm # "IDLE" THEN [s EXCEPT !.queue = Append(@, f)]
    ELSE EnterDefer([Require(s, s.backoffPeriod \in {-1, 0})
                        EXCEPT !.queue = Append(@, f), !.backoffPeriod = -1])

isAnswer(s, f, type) == f.type = type /\ isForUs(s, f)

(* handleLowerMsg after the reservation; bad: collision or bit errors.     *)
ReceiveFrame(s, f, bad) ==
    CASE s.fsm \in {"IDLE", "DEFER"} -> EnterReceive(s, f, bad)
      [] s.fsm = "WAITDIFS" -> EnterReceive(Cancel(s, "DIFS"), f, bad)
      [] s.fsm = "WAITACK" /\ isAnswer(s, f, "ACK") -> Finish(Cancel(s, "Timeout"), "acked")
      [] s.fsm = "WAITCTS" /\ isAnswer(s, f, "CTS") -> EnterWaitSifs(Cancel(s, "Timeout"), f)
      [] OTHER -> s

handleLowerMsg(s, f, bad) ==
    ReceiveFrame(scheduleReservePeriod([s EXCEPT !.failed = bad], f), f, bad)

endDIFS(s, c) ==
    IF ~s.backoff THEN Transmit(s)
    ELSE IF s.backoffPeriod = -1 THEN EnterBackoff(generateBackoffPeriod(s, c))
    ELSE EnterBackoff(s)

endTimeout(s, c) ==
    IF s.fsm = "WAITBROADCAST" THEN Finish(s, "sent")
    ELSE IF s.retryCounter = transmissionLimit - 1 THEN Finish(s, "gaveUp")
    ELSE EnterDefer(retryCurrentTransmission(s, c))

endSIFS(s) ==
    LET f == s.answering
        t == [s EXCEPT !.answering = None]
    IN  CASE f.type = "RTS" -> EnterIdle(resetStateVariables(sendDown(t, Cts(f))))
          [] f.type = "CTS" -> EnterWaitAck(sendDown(t, Data(Current(s))))
          [] f.type = "DATA" -> EnterIdle(resetStateVariables(sendDown(t, Ack(f))))

(* A timer other than endReserve and mediumStateChange is only handled in  *)
(* the states that wait for it.                                            *)
handleSelfMsg(s, t, c) ==
    CASE t = "Reserve" -> endReserve(s)
      [] t = "MediumStateChange" -> mediumStateChange(s)
      [] t = "DIFS" /\ s.fsm = "WAITDIFS" -> endDIFS(s, c)
      [] t = "Backoff" /\ s.fsm = "BACKOFF" -> Transmit(s)
      [] t = "Timeout" /\ s.fsm \in {"WAITACK", "WAITCTS", "WAITBROADCAST"} -> endTimeout(s, c)
      [] t = "SIFS" /\ s.fsm = "WAITSIFS" -> endSIFS(s)
      [] OTHER -> s

(* The slot numbers that may be drawn when timer t fires. *)
Draws(s, t) ==
    CASE t = "DIFS" /\ s.fsm = "WAITDIFS" /\ s.backoff /\ s.backoffPeriod = -1 ->
            0 .. ContentionWindow(Current(s), s.retryCounter)
      [] t = "Timeout" /\ s.fsm \in {"WAITACK", "WAITCTS"}
            /\ s.retryCounter < transmissionLimit - 1 ->
            0 .. ContentionWindow(Current(s), s.retryCounter + 1)
      [] OTHER -> {0}
=============================================================================
