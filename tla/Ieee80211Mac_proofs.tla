------------------------ MODULE Ieee80211Mac_proofs ------------------------
(***************************************************************************)
(* Lemmas about the MAC of an 802.11 station, for all durations, windows   *)
(* and limits: what each event makes of a station whose timers fit its     *)
(* state, and that they fit again.                                         *)
(***************************************************************************)
EXTENDS Ieee80211Mac, SequenceTheorems, TLAPS

Awaiting == {"WAITACK", "WAITCTS", "WAITBROADCAST"}
Idling == {"IDLE", "DEFER", "WAITDIFS"}

(* Fields within their bounds, in the middle of a handler too. *)
Bounded(s) ==
    /\ s \in StationType /\ s.err = FALSE
    /\ s.backoffPeriod >= -1
    /\ s.retryCounter < transmissionLimit
    /\ \A t \in TimerName : s.timer[t] >= -1
    /\ s.timer["MediumStateChange"] <= 0
    /\ s.timer["MediumStateChange"] = 0 => s.timer["Reserve"] > 0

(* What the radio is doing when a frame is between it and the MAC. *)
Coupled(s) ==
    /\ s.arrived # None => s.down = None /\ s.receiving = None /\ s.radio # "TRANSMIT"
    /\ s.down # None => s.radio # "TRANSMIT"
    /\ s.receiving # None => s.radio = "RECV"

(* A CTS is about to be answered by the frame it allows. *)
Cleared(s) == s.fsm = "WAITSIFS" /\ s.answering # None /\ s.answering.type = "CTS"

(* The timers are those of the state. *)
OwnTimers(s) ==
    /\ Scheduled(s, "SIFS") <=> s.fsm = "WAITSIFS"
    /\ Scheduled(s, "DIFS") <=> s.fsm = "WAITDIFS"
    /\ Scheduled(s, "Backoff") <=> s.fsm = "BACKOFF"
    /\ Scheduled(s, "Timeout") <=> s.fsm \in Awaiting

(* The state is one the medium allows. *)
Senses(s) ==
    /\ s.fsm = "DEFER" => ~isMediumFree(s)
    /\ s.fsm \in {"WAITDIFS", "BACKOFF"} => isMediumFree(s)

(* The state is one the queue allows. *)
Placed(s) ==
    /\ s.fsm = "IDLE" => s.queue = <<>> /\ s.backoffPeriod \in {-1, 0}
    /\ s.queue = <<>> => s.retryCounter = 0
    /\ s.fsm \notin {"IDLE", "WAITSIFS"} => s.queue # <<>>
    /\ s.fsm = "BACKOFF" => s.timer["Backoff"] <= s.backoffPeriod
    /\ s.fsm \in {"WAITACK", "WAITCTS"} \/ Cleared(s) => s.queue # <<>> /\ Current(s).to # Broadcast
    /\ s.fsm = "WAITBROADCAST" => Current(s).to = Broadcast

(* A frame passes between MAC and radio only when nothing else is done.    *)
Passing(s) ==
    /\ s.fsm = "WAITSIFS" =>
          /\ s.answering # None /\ s.answering.type # "ACK"
          /\ s.timer["SIFS"] <= SIFS /\ s.radio # "TRANSMIT" /\ s.down = None /\ s.arrived = None
    /\ s.down # None \/ s.arrived # None => s.fsm # "BACKOFF" /\ s.timer["DIFS"] # 0

(* The inductive invariant of a station. *)
Good(s) == Bounded(s) /\ Coupled(s) /\ OwnTimers(s) /\ Senses(s) /\ Placed(s) /\ Passing(s)

(* In the middle of a handler: no timer of a state runs. *)
Ready(s) ==
    /\ Bounded(s) /\ Coupled(s)
    /\ \A t \in {"SIFS", "DIFS", "Backoff", "Timeout"} : s.timer[t] = -1

-----------------------------------------------------------------------------
(* What the operations on fields leave alone. *)

SameRadio(s, t) ==
    /\ t.address = s.address /\ t.radio = s.radio /\ t.receiving = s.receiving
    /\ t.garbled = s.garbled

SameFrames(s, t) ==
    /\ t.queue = s.queue /\ t.answering = s.answering /\ t.down = s.down
    /\ t.arrived = s.arrived /\ t.up = s.up /\ t.done = s.done

SameCount(s, t) ==
    t.fsm = s.fsm /\ t.backoff = s.backoff /\ t.backoffPeriod = s.backoffPeriod
    /\ t.retryCounter = s.retryCounter

(* One timer differs. *)
Timed(s, t, x, time) ==
    /\ t \in StationType
    /\ SameRadio(s, t) /\ SameFrames(s, t) /\ SameCount(s, t)
    /\ t.timer[x] = time /\ \A y \in TimerName \ {x} : t.timer[y] = s.timer[y]

(* The state differs, or whether there will be a backoff. *)
Entered(s, t, x) ==
    /\ t \in StationType
    /\ SameRadio(s, t) /\ SameFrames(s, t)
    /\ t.fsm = x /\ t.backoffPeriod = s.backoffPeriod /\ t.retryCounter = s.retryCounter
    /\ t.timer = s.timer /\ t.err = s.err

LEMMA ScheduleIs ==
  ASSUME NEW s \in StationType, NEW x \in TimerName, NEW time \in Int,
         NEW t, t = Schedule(s, x, time)
  PROVE  /\ Timed(s, t, x, time)
         /\ s.err = FALSE /\ s.timer[x] = -1 => t.err = FALSE
PROOF
  <1>1. t.err \in BOOLEAN /\ t.timer \in [TimerName -> Int]
    BY DEF Schedule, Scheduled, StationType
  <1>2. t \in StationType
    BY <1>1 DEF Schedule, StationType
  <1>3. t.timer = [s.timer EXCEPT ![x] = time] /\ s.timer \in [TimerName -> Int]
    BY DEF Schedule, StationType
  <1>4. s.err = FALSE /\ s.timer[x] = -1 => t.err = FALSE
    BY DEF Schedule, Scheduled, StationType
  <1>5. SameRadio(s, t) /\ SameFrames(s, t) /\ SameCount(s, t)
    BY DEF Schedule, StationType, SameRadio, SameFrames, SameCount
  <1> QED BY <1>2, <1>3, <1>4, <1>5 DEF Timed

LEMMA CancelIs ==
  ASSUME NEW s \in StationType, NEW x \in TimerName, NEW t, t = Cancel(s, x)
  PROVE  /\ Timed(s, t, x, -1)
         /\ t.err = s.err
PROOF
  <1>1. [s.timer EXCEPT ![x] = -1] \in [TimerName -> Int]
    BY DEF StationType
  <1>2. t \in StationType
    BY <1>1 DEF Cancel, StationType
  <1>3. t.timer = [s.timer EXCEPT ![x] = -1] /\ s.timer \in [TimerName -> Int]
    BY DEF Cancel, StationType
  <1>4. SameRadio(s, t) /\ SameFrames(s, t) /\ SameCount(s, t) /\ t.err = s.err
    BY DEF Cancel, StationType, SameRadio, SameFrames, SameCount
  <1> QED BY <1>2, <1>3, <1>4 DEF Timed

LEMMA RequireIs ==
  ASSUME NEW s \in StationType, s.err = FALSE, NEW t, t = [s EXCEPT !.err = FALSE]
  PROVE  t = s
PROOF
  <1>1. t \in StationType BY DEF StationType
  <1> QED BY <1>1 DEF StationType

LEMMA FsmIs ==
  ASSUME NEW s \in StationType, NEW x \in FsmState, NEW t, t = [s EXCEPT !.fsm = x]
  PROVE  Entered(s, t, x)
PROOF
  <1>1. t \in StationType
    BY DEF StationType
  <1>2. SameRadio(s, t) /\ SameFrames(s, t)
    BY DEF StationType, SameRadio, SameFrames
  <1>3. /\ t.fsm = x /\ t.backoffPeriod = s.backoffPeriod /\ t.retryCounter = s.retryCounter
        /\ t.timer = s.timer /\ t.err = s.err
    BY DEF StationType
  <1> QED BY <1>1, <1>2, <1>3 DEF Entered
LEMMA BackoffIs ==
  ASSUME NEW s \in StationType, NEW x \in FsmState,
         NEW t, t = [s EXCEPT !.fsm = x, !.backoff = TRUE]
  PROVE  Entered(s, t, x)
PROOF
  <1>1. t \in StationType
    BY DEF StationType
  <1>2. SameRadio(s, t) /\ SameFrames(s, t)
    BY DEF StationType, SameRadio, SameFrames
  <1>3. /\ t.fsm = x /\ t.backoffPeriod = s.backoffPeriod /\ t.retryCounter = s.retryCounter
        /\ t.timer = s.timer /\ t.err = s.err
    BY DEF StationType
  <1> QED BY <1>1, <1>2, <1>3 DEF Entered

-----------------------------------------------------------------------------
(* Entering the states in which a station contends for the medium, or has  *)
(* nothing to send. *)

LEMMA Positive ==
  /\ {SIFS, ST, DIFS, EIFS, transmissionLimit} \subseteq Nat \ {0}
  /\ \A x \in {"RTS", "CTS", "ACK"} : Airtime[x] \in Nat /\ Airtime[x] > SIFS
  BY MacAssumption DEF DIFS, EIFS, Duration

SameClock(s, t) ==
    \A x \in {"Reserve", "MediumStateChange"} : t.timer[x] = s.timer[x]

(* t contends as s asks it to, and did nothing else. *)
Idles(s, t) ==
    /\ SameRadio(s, t) /\ SameFrames(s, t) /\ SameClock(s, t)
    /\ t.fsm \in Idling /\ t.timer["DIFS"] # 0

Contends3(s, t) ==
    \/ t.fsm = "WAITDIFS" /\ isMediumFree(s) /\ s.queue # <<>> /\ t.timer["DIFS"] > 0
    \/ t.fsm = "DEFER" /\ ~isMediumFree(s) /\ s.queue # <<>> /\ t.timer["DIFS"] = -1
    \/ /\ t.fsm = "IDLE" /\ s.queue = <<>> /\ t.timer["DIFS"] = -1
       /\ t.backoffPeriod \in {-1, 0} /\ t.retryCounter = 0

Settled(s, t) ==
    /\ t \in StationType /\ t.err = FALSE
    /\ SameRadio(s, t) /\ SameFrames(s, t)
    /\ t.retryCounter = s.retryCounter /\ t.backoffPeriod >= -1
    /\ \A y \in TimerName \ {"DIFS"} : t.timer[y] = s.timer[y]
    /\ Contends3(s, t)

LEMMA SettledGood ==
  ASSUME NEW s, Ready(s), NEW t, Settled(s, t)
  PROVE  Good(t) /\ Idles(s, t) /\ t.retryCounter = s.retryCounter
PROOF
  <1>1. SameRadio(s, t) /\ SameFrames(s, t) /\ SameClock(s, t)
    BY DEF Settled, SameClock, TimerName
  <1>2. t.timer["DIFS"] \in Int /\ t.timer["DIFS"] >= -1 /\ t.timer["DIFS"] # 0
    <2>1. t.timer["DIFS"] \in Int BY DEF Settled, StationType, TimerName
    <2> QED BY <2>1 DEF Settled, Contends3
  <1>3. Bounded(t)
    BY <1>1, <1>2 DEF Settled, Ready, Bounded, SameFrames, SameClock, TimerName
  <1>4. Coupled(t)
    BY <1>1 DEF Ready, Coupled, SameRadio, SameFrames
  <1>5. t.fsm \in Idling
    BY DEF Settled, Contends3, Idling
  <1>6. t.timer["SIFS"] = -1 /\ t.timer["Backoff"] = -1 /\ t.timer["Timeout"] = -1
    BY DEF Settled, Ready, TimerName
  <1>7. OwnTimers(t)
    BY <1>5, <1>6 DEF OwnTimers, Settled, Contends3, Scheduled, Awaiting
  <1>8. isMediumFree(t) <=> isMediumFree(s)
    BY <1>1 DEF isMediumFree, Scheduled, SameRadio, SameClock
  <1>9. t.queue = s.queue
    BY <1>1 DEF SameFrames
  <1>10. Senses(t) /\ Placed(t)
    BY <1>5, <1>8, <1>9 DEF Senses, Placed, Settled, Contends3, Cleared, Idling
  <1>11. Passing(t)
    BY <1>2, <1>5 DEF Passing, Idling
  <1>12. Idles(s, t)
    BY <1>1, <1>2, <1>5 DEF Idles, Settled
  <1> QED BY <1>3, <1>4, <1>7, <1>10, <1>11, <1>12 DEF Good, Settled

LEMMA EnterWaitDifsSettles ==
  ASSUME NEW s, Ready(s), s.queue # <<>>, NEW t, t = EnterWaitDifs(s)
  PROVE  Settled(s, t)
PROOF
  <1>1. s \in StationType /\ s.err = FALSE /\ s.timer["DIFS"] = -1 /\ s.backoffPeriod >= -1
    BY DEF Ready, Bounded
  <1>2. CASE isMediumFree(s)
    <2>1. PICK u : u = [s EXCEPT !.fsm = "WAITDIFS"] OBVIOUS
    <2>2. PICK time \in Nat \ {0} : time = IF s.failed THEN EIFS ELSE DIFS
      BY Positive
    <2>3. t = Schedule(u, "DIFS", time)
      BY <1>2, <2>1, <2>2 DEF EnterWaitDifs
    <2>4. Entered(s, u, "WAITDIFS")
      <3>1. "WAITDIFS" \in FsmState BY DEF FsmState
      <3> QED BY <1>1, <2>1, <3>1, FsmIs
    <2>5. "DIFS" \in TimerName /\ time \in Int BY <2>2 DEF TimerName
    <2>6. u \in StationType /\ u.timer["DIFS"] = -1 /\ u.err = FALSE
      BY <1>1, <2>4 DEF Entered
    <2>7. Timed(u, t, "DIFS", time) /\ t.err = FALSE
      BY <2>3, <2>5, <2>6, ScheduleIs
    <2>8. SameRadio(s, t) /\ SameFrames(s, t)
      BY <2>4, <2>7 DEF SameRadio, SameFrames, Timed, Entered
    <2>9. Contends3(s, t)
      BY <1>2, <2>2, <2>4, <2>7 DEF Contends3, Timed, Entered, SameCount
    <2> QED BY <1>1, <2>4, <2>7, <2>8, <2>9 DEF Settled, Timed, Entered, SameCount
  <1>3. CASE ~isMediumFree(s)
    <2>1. PICK u : u = [s EXCEPT !.fsm = "DEFER", !.backoff = TRUE] OBVIOUS
    <2>2. ~Scheduled(s, "DIFS")
      BY <1>1 DEF Scheduled
    <2>3. Entered(s, u, "DEFER")
      <3>1. "DEFER" \in FsmState BY DEF FsmState
      <3> QED BY <1>1, <2>1, <3>1, BackoffIs, Zenon
    <2>4. u \in StationType /\ u.err = FALSE BY <1>1, <2>3 DEF Entered
    <2>5. t = u
      <3>1. t = Require(u, ~Scheduled(s, "DIFS"))
        BY <1>3, <2>1 DEF EnterWaitDifs
      <3>2. t = [u EXCEPT !.err = FALSE]
        BY <2>2, <2>4, <3>1 DEF Require
      <3> QED BY <2>4, <3>2, RequireIs
    <2>6. Contends3(s, t)
      BY <1>1, <1>3, <2>3, <2>5 DEF Contends3, Entered
    <2> QED BY <1>1, <2>3, <2>5, <2>6 DEF Settled, Entered
  <1> QED BY <1>2, <1>3

LEMMA EnterDeferSettles ==
  ASSUME NEW s, Ready(s), s.queue # <<>>, NEW t, t = EnterDefer(s)
  PROVE  Settled(s, t)
PROOF
  <1>1. s \in StationType /\ s.err = FALSE /\ s.timer["DIFS"] = -1 /\ s.backoffPeriod >= -1
    BY DEF Ready, Bounded
  <1>2. CASE isMediumFree(s) \/ ~s.backoff
    BY <1>2, EnterWaitDifsSettles DEF EnterDefer
  <1>3. CASE ~(isMediumFree(s) \/ ~s.backoff)
    <2>1. t = [s EXCEPT !.fsm = "DEFER"]
      BY <1>3 DEF EnterDefer
    <2>2. "DEFER" \in FsmState BY DEF FsmState
    <2>3. Entered(s, t, "DEFER")
      BY <1>1, <2>1, <2>2, FsmIs
    <2>4. Contends3(s, t)
      BY <1>1, <1>3, <2>3 DEF Contends3, Entered
    <2> QED BY <1>1, <2>3, <2>4 DEF Settled, Entered
  <1> QED BY <1>2, <1>3

LEMMA EnterIdleSettles ==
  ASSUME NEW s, Ready(s), s.retryCounter = 0, s.backoffPeriod \in {-1, 0}, NEW t, t = EnterIdle(s)
  PROVE  Settled(s, t)
PROOF
  <1>1. s \in StationType /\ s.err = FALSE /\ s.timer["DIFS"] = -1 /\ s.backoffPeriod >= -1
    BY DEF Ready, Bounded
  <1>2. CASE s.queue = <<>>
    <2>1. t = [s EXCEPT !.fsm = "IDLE"]
      BY <1>2 DEF EnterIdle
    <2>2. "IDLE" \in FsmState BY DEF FsmState
    <2>3. Entered(s, t, "IDLE")
      BY <1>1, <2>1, <2>2, FsmIs
    <2>4. Contends3(s, t)
      BY <1>1, <1>2, <2>3 DEF Contends3, Entered
    <2> QED BY <1>1, <2>3, <2>4 DEF Settled, Entered
  <1>3. CASE s.queue # <<>>
    <2>1. PICK u : u = [s EXCEPT !.backoffPeriod = -1] OBVIOUS
    <2>2. t = EnterDefer(u)
      BY <1>3, <2>1 DEF EnterIdle
    <2>3. u \in StationType
      <3>1. -1 \in Int OBVIOUS
      <3> QED BY <1>1, <2>1, <3>1 DEF StationType
    <2>4. SameRadio(s, u) /\ SameFrames(s, u)
      BY <1>1, <2>1 DEF StationType, SameRadio, SameFrames
    <2>5. u.timer = s.timer /\ u.err = s.err /\ u.retryCounter = s.retryCounter /\ u.backoffPeriod = -1
      BY <1>1, <2>1 DEF StationType
    <2>6. Ready(u)
      BY <2>3, <2>4, <2>5 DEF Ready, Bounded, Coupled, SameRadio, SameFrames
    <2>7. u.queue # <<>>
      BY <1>3, <2>4 DEF SameFrames
    <2>8. Settled(u, t)
      BY <2>2, <2>6, <2>7, EnterDeferSettles
    <2>9. isMediumFree(u) <=> isMediumFree(s)
      BY <2>4, <2>5 DEF isMediumFree, Scheduled, SameRadio
    <2>10. Contends3(s, t)
      BY <1>3, <2>7, <2>8, <2>9 DEF Contends3, Settled
    <2>11. SameRadio(s, t) /\ SameFrames(s, t)
      BY <2>4, <2>8 DEF Settled, SameRadio, SameFrames
    <2> QED BY <2>5, <2>8, <2>10, <2>11 DEF Settled
  <1> QED BY <1>2, <1>3

(* The end of dealing with a frame. *)
StartsOver(s, t) == Good(t) /\ Idles(s, t) /\ t.retryCounter = 0

LEMMA ResetStartsOver ==
  ASSUME NEW s, Ready(s), NEW t, t = EnterIdle(resetStateVariables(s))
  PROVE  StartsOver(s, t)
PROOF
  <1>1. s \in StationType /\ s.err = FALSE
    BY DEF Ready, Bounded
  <1>2. PICK u : u = resetStateVariables(s) OBVIOUS
  <1>3. u \in StationType
    <2>1. u.backoff \in BOOLEAN /\ u.backoffPeriod \in Int /\ u.retryCounter \in Nat
      BY <1>1, <1>2 DEF resetStateVariables, StationType
    <2> QED BY <1>1, <1>2, <2>1 DEF resetStateVariables, StationType
  <1>4. SameRadio(s, u) /\ SameFrames(s, u)
    BY <1>1, <1>2 DEF resetStateVariables, StationType, SameRadio, SameFrames
  <1>5. u.timer = s.timer /\ u.err = s.err /\ u.retryCounter = 0 /\ u.backoffPeriod = 0
    BY <1>1, <1>2 DEF resetStateVariables, StationType
  <1>6. Ready(u)
    BY <1>3, <1>4, <1>5, Positive DEF Ready, Bounded, Coupled, SameRadio, SameFrames
  <1>7. Settled(u, t)
    BY <1>2, <1>5, <1>6, EnterIdleSettles
  <1>8. Good(t) /\ Idles(u, t) /\ t.retryCounter = 0
    BY <1>5, <1>6, <1>7, SettledGood
  <1>9. Idles(s, t)
    BY <1>4, <1>5, <1>8 DEF Idles, SameRadio, SameFrames, SameClock
  <1> QED BY <1>8, <1>9 DEF StartsOver

-----------------------------------------------------------------------------
(* Sending. *)

LEMMA FramesType ==
  ASSUME NEW f \in DataFrame
  PROVE  /\ Data(f) \in DataFrame /\ Data(f).id = f.id /\ Data(f).to = f.to /\ Data(f).from = f.from
         /\ Data(f).airtime = f.airtime
         /\ f.to # Broadcast => Rts(f) \in RtsFrame
         /\ Ack(f) \in Answer
PROOF
  <1>1. /\ f.airtime \in Nat /\ f.airtime > SIFS /\ f.from \in Station /\ f.to \in Station \cup {Broadcast}
        /\ f.id \in Nat
    BY DEF DataFrame, Duration
  <1>2. Data(f) \in DataFrame
    <2>1. (IF f.to = Broadcast THEN 0 ELSE SIFS + Airtime["ACK"]) \in Nat
      BY Positive
    <2> QED BY <2>1 DEF Data, DataFrame
  <1>3. Data(f).id = f.id /\ Data(f).to = f.to /\ Data(f).from = f.from /\ Data(f).airtime = f.airtime
    BY DEF Data, DataFrame
  <1>4. f.to # Broadcast => Rts(f) \in RtsFrame
    BY <1>1, Positive DEF Rts, RtsFrame, Duration
  <1>5. Ack(f) \in Answer
    BY <1>1, Positive DEF Ack, Answer, Duration
  <1> QED BY <1>2, <1>3, <1>4, <1>5

LEMMA CtsType ==
  ASSUME NEW f \in RtsFrame
  PROVE  Cts(f) \in Answer
  BY Positive DEF Cts, Answer, RtsFrame, Duration

(* f is given to the radio. *)
Given(s, t, f) ==
    /\ t \in StationType /\ t.err = FALSE /\ t.down = f
    /\ SameRadio(s, t) /\ SameCount(s, t) /\ t.timer = s.timer
    /\ t.queue = s.queue /\ t.answering = s.answering /\ t.arrived = s.arrived
    /\ t.up = s.up /\ t.done = s.done

LEMMA SendDownIs ==
  ASSUME NEW s \in StationType, s.err = FALSE, s.down = None, NEW f \in Frame,
         NEW t, t = sendDown(s, f)
  PROVE  Given(s, t, f)
PROOF
  <1>1. PICK u : u = [s EXCEPT !.down = f] OBVIOUS
  <1>2. u \in StationType
    BY <1>1 DEF StationType
  <1>3. /\ SameRadio(s, u) /\ SameCount(s, u) /\ u.timer = s.timer /\ u.err = FALSE
        /\ u.queue = s.queue /\ u.answering = s.answering /\ u.arrived = s.arrived
        /\ u.up = s.up /\ u.done = s.done /\ u.down = f
    BY <1>1 DEF StationType, SameRadio, SameCount
  <1>4. t = u
    <2>1. t = [u EXCEPT !.err = FALSE]
      BY <1>1, <1>3 DEF sendDown, Require
    <2> QED BY <1>2, <1>3, <2>1, RequireIs
  <1> QED BY <1>2, <1>3, <1>4 DEF Given

(* f is given to the radio, and an answer or the end of the broadcast      *)
(* awaited. *)
Sent(s, t, f, x, time) ==
    /\ SameRadio(s, t) /\ t.retryCounter = s.retryCounter
    /\ t.queue = s.queue /\ t.answering = s.answering /\ t.arrived = s.arrived
    /\ t.up = s.up /\ t.done = s.done
    /\ t.down = f /\ t.fsm = x /\ t.timer["Timeout"] = time

LEMMA AwaitGood ==
  ASSUME NEW s, Ready(s), s.queue # <<>>, s.down = None, s.arrived = None, s.radio # "TRANSMIT",
         NEW f \in Frame, NEW x \in Awaiting, NEW time \in Nat \ {0},
         x = "WAITBROADCAST" <=> Current(s).to = Broadcast,
         NEW t, t = Schedule([sendDown(s, f) EXCEPT !.fsm = x], "Timeout", time)
  PROVE  Good(t) /\ Sent(s, t, f, x, time)
PROOF
  <1>1. s \in StationType /\ s.err = FALSE /\ s.timer["Timeout"] = -1
    BY DEF Ready, Bounded
  <1>2. PICK u : u = sendDown(s, f) OBVIOUS
  <1>3. Given(s, u, f)
    BY <1>1, <1>2, SendDownIs
  <1>4. PICK v : v = [u EXCEPT !.fsm = x] OBVIOUS
  <1>5. Entered(u, v, x)
    <2>1. x \in FsmState BY DEF FsmState, Awaiting
    <2>2. u \in StationType BY <1>3 DEF Given
    <2> QED BY <1>4, <2>1, <2>2, FsmIs
  <1>6. Timed(v, t, "Timeout", time) /\ t.err = FALSE
    <2>1. t = Schedule(v, "Timeout", time) BY <1>2, <1>4
    <2>2. "Timeout" \in TimerName /\ time \in Int BY DEF TimerName
    <2>3. v \in StationType /\ v.err = FALSE /\ v.timer["Timeout"] = -1
      BY <1>1, <1>3, <1>5 DEF Entered, Given
    <2> QED BY <2>1, <2>2, <2>3, ScheduleIs
  <1>7. SameRadio(s, t)
    BY <1>3, <1>5, <1>6 DEF Given, Entered, Timed, SameRadio
  <1>8. /\ t.queue = s.queue /\ t.answering = s.answering /\ t.arrived = s.arrived
        /\ t.up = s.up /\ t.done = s.done /\ t.down = f
    BY <1>3, <1>5, <1>6 DEF Given, Entered, Timed, SameFrames
  <1>9. t \in StationType /\ t.fsm = x /\ t.retryCounter = s.retryCounter /\ t.backoffPeriod = s.backoffPeriod
    BY <1>3, <1>5, <1>6 DEF Given, Entered, Timed, SameCount
  <1>10. t.timer["Timeout"] = time /\ \A y \in TimerName \ {"Timeout"} : t.timer[y] = s.timer[y]
    BY <1>3, <1>5, <1>6 DEF Given, Entered, Timed
  <1>11. Bounded(t)
    BY <1>6, <1>9, <1>10 DEF Ready, Bounded, TimerName
  <1>12. Coupled(t)
    BY <1>7, <1>8 DEF Ready, Coupled, SameRadio
  <1>13. OwnTimers(t)
    BY <1>9, <1>10 DEF Ready, OwnTimers, TimerName, Scheduled, Awaiting
  <1>14. Senses(t) /\ Placed(t)
    BY <1>8, <1>9 DEF Senses, Placed, Cleared, Awaiting, Current
  <1>15. Passing(t)
    BY <1>9, <1>10 DEF Ready, Passing, Awaiting, TimerName
  <1>16. Sent(s, t, f, x, time)
    BY <1>7, <1>8, <1>9, <1>10 DEF Sent
  <1> QED BY <1>11, <1>12, <1>13, <1>14, <1>15, <1>16 DEF Good

LEMMA CurrentType ==
  ASSUME NEW s \in StationType, s.queue # <<>>
  PROVE  Current(s) \in DataFrame
PROOF
  <1>1. s.queue \in Seq(DataFrame) BY DEF StationType
  <1> QED BY <1>1 DEF Current

Clear(s) == s.down = None /\ s.arrived = None /\ s.radio # "TRANSMIT" /\ s.queue # <<>>

SentAck(s, t) ==
    LET f == Current(s) IN Sent(s, t, Data(f), "WAITACK", f.airtime + SIFS + Airtime["ACK"])
SentBroadcast(s, t) ==
    LET f == Current(s) IN Sent(s, t, Data(f), "WAITBROADCAST", f.airtime)
SentRts(s, t) ==
    LET f == Current(s) IN Sent(s, t, Rts(f), "WAITCTS", Airtime["RTS"] + SIFS + Airtime["CTS"])

LEMMA SentGood ==
  ASSUME NEW s, Ready(s), Clear(s), NEW t
  PROVE  /\ Current(s).to # Broadcast /\ t = EnterWaitAck(sendDown(s, Data(Current(s))))
               => Good(t) /\ SentAck(s, t)
         /\ Current(s).to # Broadcast /\ t = EnterWaitCts(sendDown(s, Rts(Current(s))))
               => Good(t) /\ SentRts(s, t)
         /\ Current(s).to = Broadcast /\ t = EnterWaitBroadcast(sendDown(s, Data(Current(s))))
               => Good(t) /\ SentBroadcast(s, t)
PROOF
  <1>1. s \in StationType /\ s.err = FALSE
    BY DEF Ready, Bounded
  <1>2. PICK f \in DataFrame : f = Current(s)
    BY <1>1, CurrentType DEF Clear
  <1>3. /\ Data(f) \in Frame /\ (f.to # Broadcast => Rts(f) \in Frame)
        /\ f.airtime \in Nat \ {0}
    <2>1. f.airtime \in Nat \ {0} BY Positive DEF DataFrame, Duration
    <2> QED BY <2>1, FramesType DEF Frame, ControlFrame
  <1>4. ASSUME NEW g \in Frame
        PROVE  Current(sendDown(s, g)) = f
    <2>1. PICK u : u = sendDown(s, g) OBVIOUS
    <2>2. Given(s, u, g)
      BY <1>1, <2>1, SendDownIs DEF Clear
    <2> QED BY <1>2, <2>1, <2>2 DEF Given, Current
  <1>5. s.queue # <<>> /\ s.down = None /\ s.arrived = None /\ s.radio # "TRANSMIT"
    BY DEF Clear
  <1>6. ASSUME f.to # Broadcast, t = EnterWaitAck(sendDown(s, Data(f)))
        PROVE  Good(t) /\ SentAck(s, t)
    <2>1. PICK time \in Nat \ {0} : time = f.airtime + SIFS + Airtime["ACK"]
      BY <1>3, Positive
    <2>2. PICK x \in Awaiting : x = "WAITACK" BY DEF Awaiting
    <2>3. t = Schedule([sendDown(s, Data(f)) EXCEPT !.fsm = x], "Timeout", time)
      BY <1>3, <1>4, <1>6, <2>1, <2>2 DEF EnterWaitAck
    <2>4. x = "WAITBROADCAST" <=> Current(s).to = Broadcast
      BY <1>2, <1>6, <2>2
    <2>5. Good(t) /\ Sent(s, t, Data(f), x, time)
      BY <1>3, <1>5, <2>3, <2>4, AwaitGood, Zenon
    <2> QED BY <1>2, <2>1, <2>2, <2>5 DEF SentAck
  <1>7. ASSUME f.to # Broadcast, t = EnterWaitCts(sendDown(s, Rts(f)))
        PROVE  Good(t) /\ SentRts(s, t)
    <2>1. PICK time \in Nat \ {0} : time = Airtime["RTS"] + SIFS + Airtime["CTS"]
      BY Positive
    <2>2. PICK x \in Awaiting : x = "WAITCTS" BY DEF Awaiting
    <2>3. t = Schedule([sendDown(s, Rts(f)) EXCEPT !.fsm = x], "Timeout", time)
      BY <1>7, <2>1, <2>2 DEF EnterWaitCts
    <2>4. x = "WAITBROADCAST" <=> Current(s).to = Broadcast
      BY <1>2, <1>7, <2>2
    <2>5. Good(t) /\ Sent(s, t, Rts(f), x, time)
      BY <1>3, <1>5, <1>7, <2>3, <2>4, AwaitGood, Zenon
    <2> QED BY <1>2, <2>1, <2>2, <2>5 DEF SentRts
  <1>8. ASSUME f.to = Broadcast, t = EnterWaitBroadcast(sendDown(s, Data(f)))
        PROVE  Good(t) /\ SentBroadcast(s, t)
    <2>1. PICK time \in Nat \ {0} : time = f.airtime
      BY <1>3
    <2>2. PICK x \in Awaiting : x = "WAITBROADCAST" BY DEF Awaiting
    <2>3. t = Schedule([sendDown(s, Data(f)) EXCEPT !.fsm = x], "Timeout", time)
      BY <1>3, <1>4, <1>8, <2>1, <2>2 DEF EnterWaitBroadcast
    <2>4. x = "WAITBROADCAST" <=> Current(s).to = Broadcast
      BY <1>2, <1>8, <2>2
    <2>5. Good(t) /\ Sent(s, t, Data(f), x, time)
      BY <1>3, <1>5, <2>3, <2>4, AwaitGood, Zenon
    <2> QED BY <1>2, <2>1, <2>2, <2>5 DEF SentBroadcast
  <1> QED BY <1>2, <1>6, <1>7, <1>8

(* What Transmit does with the current frame. *)
Transmits(s, t) ==
    \/ Current(s).to = Broadcast /\ SentBroadcast(s, t)
    \/ Current(s).to # Broadcast /\ (SentAck(s, t) \/ SentRts(s, t))

LEMMA TransmitGood ==
  ASSUME NEW s, Ready(s), Clear(s), NEW t, t = Transmit(s)
  PROVE  Good(t) /\ Transmits(s, t)
  BY SentGood DEF Transmit, Transmits

-----------------------------------------------------------------------------
(* The backoff. *)

LEMMA SlotsTime ==
  ASSUME NEW c \in Nat
  PROVE  c * ST \in Nat
  BY Positive

LEMMA SlotsPassed ==
  ASSUME NEW e \in Nat
  PROVE  (e \div ST) * ST \in Nat /\ (e \div ST) * ST <= e
PROOF
  <1>1. ST \in Nat \ {0} BY Positive
  <1>2. e \div ST \in Nat /\ e = (e \div ST) * ST + (e % ST) /\ e % ST \in Nat BY <1>1
  <1> QED BY <1>1, <1>2

(* The backoff period differs. *)
Backed(s, t, period) ==
    /\ t \in StationType /\ t.err = FALSE /\ t.backoffPeriod = period
    /\ SameRadio(s, t) /\ SameFrames(s, t)
    /\ t.fsm = s.fsm /\ t.backoff = s.backoff /\ t.retryCounter = s.retryCounter

LEMMA PeriodIs ==
  ASSUME NEW s \in StationType, s.err = FALSE, NEW period \in Int,
         NEW t, t = [s EXCEPT !.backoffPeriod = period]
  PROVE  Backed(s, t, period) /\ t.timer = s.timer
PROOF
  <1>1. t \in StationType
    BY DEF StationType
  <1>2. SameRadio(s, t) /\ SameFrames(s, t)
    BY DEF StationType, SameRadio, SameFrames
  <1>3. /\ t.err = FALSE /\ t.backoffPeriod = period
        /\ t.fsm = s.fsm /\ t.backoff = s.backoff /\ t.retryCounter = s.retryCounter
        /\ t.timer = s.timer
    BY DEF StationType
  <1> QED BY <1>1, <1>2, <1>3 DEF Backed

LEMMA GenerateIs ==
  ASSUME NEW s \in StationType, s.err = FALSE, s.retryCounter < transmissionLimit,
         NEW c \in Nat, NEW t, t = generateBackoffPeriod(s, c)
  PROVE  Backed(s, t, c * ST) /\ t.timer = s.timer /\ c * ST \in Nat
PROOF
  <1>1. c * ST \in Nat
    BY SlotsTime
  <1>2. PICK u : u = [s EXCEPT !.backoffPeriod = c * ST] OBVIOUS
  <1>3. Backed(s, u, c * ST) /\ u.timer = s.timer
    <2>1. c * ST \in Int BY <1>1
    <2> QED BY <1>2, <2>1, PeriodIs
  <1>4. t = u
    <2>1. u.err = FALSE /\ u \in StationType BY <1>3 DEF Backed
    <2>2. t = [u EXCEPT !.err = FALSE]
      BY <1>2, <2>1 DEF generateBackoffPeriod, Require
    <2> QED BY <2>1, <2>2, RequireIs
  <1> QED BY <1>1, <1>3, <1>4

LEMMA DecreaseReady ==
  ASSUME NEW s, Bounded(s), Coupled(s), OwnTimers(s), s.fsm = "BACKOFF",
         s.timer["Backoff"] <= s.backoffPeriod, NEW t, t = decreaseBackoffPeriod(s)
  PROVE  /\ Ready(t) /\ SameRadio(s, t) /\ SameFrames(s, t) /\ SameClock(s, t)
         /\ t.retryCounter = s.retryCounter
PROOF
  <1>1. s \in StationType /\ s.err = FALSE
    BY DEF Bounded
  <1>2. s.timer["Backoff"] \in Nat /\ s.backoffPeriod \in Nat
    <2>1. s.timer["Backoff"] \in Int /\ s.backoffPeriod \in Int BY <1>1 DEF StationType, TimerName
    <2>2. s.timer["Backoff"] >= -1 BY DEF Bounded, TimerName
    <2>3. s.timer["Backoff"] # -1 BY DEF OwnTimers, Scheduled
    <2> QED BY <2>1, <2>2, <2>3
  <1>3. PICK e \in Nat : e = s.backoffPeriod - s.timer["Backoff"]
    BY <1>2
  <1>4. PICK left : left = s.backoffPeriod - (e \div ST) * ST OBVIOUS
  <1>5. left \in Nat
    <2>1. PICK k \in Nat : k = (e \div ST) * ST BY SlotsPassed
    <2>2. k <= e BY <2>1, SlotsPassed
    <2> QED BY <1>2, <1>3, <1>4, <2>1, <2>2
  <1>6. PICK u : u = [s EXCEPT !.backoffPeriod = left] OBVIOUS
  <1>7. Backed(s, u, left) /\ u.timer = s.timer
    <2>1. left \in Int BY <1>5
    <2> QED BY <1>1, <1>6, <2>1, PeriodIs
  <1>8. PICK v : v = Cancel(u, "Backoff") OBVIOUS
  <1>9. Timed(u, v, "Backoff", -1) /\ v.err = FALSE
    <2>1. "Backoff" \in TimerName BY DEF TimerName
    <2> QED BY <1>7, <1>8, <2>1, CancelIs DEF Backed
  <1>10. t = v
    <2>1. t = Require(v, left >= 0)
      BY <1>3, <1>4, <1>6, <1>8 DEF decreaseBackoffPeriod
    <2>2. left >= 0 BY <1>5
    <2>3. t = [v EXCEPT !.err = FALSE]
      BY <1>9, <2>1, <2>2 DEF Require
    <2>4. v \in StationType BY <1>9 DEF Timed
    <2> QED BY <1>9, <2>4, <2>3, RequireIs
  <1>11. SameRadio(s, t) /\ SameFrames(s, t) /\ SameClock(s, t)
    BY <1>7, <1>9, <1>10 DEF Timed, Backed, SameRadio, SameFrames, SameClock, TimerName
  <1>12. /\ t \in StationType /\ t.err = FALSE /\ t.backoffPeriod = left /\ t.retryCounter = s.retryCounter
         /\ t.timer["Backoff"] = -1 /\ \A y \in TimerName \ {"Backoff"} : t.timer[y] = s.timer[y]
    BY <1>7, <1>9, <1>10 DEF Timed, Backed, SameCount
  <1>13. Bounded(t)
    BY <1>5, <1>12 DEF Bounded, TimerName
  <1>14. Coupled(t)
    BY <1>11 DEF Coupled, SameRadio, SameFrames
  <1>15. \A y \in {"SIFS", "DIFS", "Backoff", "Timeout"} : t.timer[y] = -1
    BY <1>12 DEF OwnTimers, Scheduled, TimerName, Awaiting
  <1> QED BY <1>11, <1>12, <1>13, <1>14, <1>15 DEF Ready

LEMMA EnterBackoffGood ==
  ASSUME NEW s, Ready(s), s.backoffPeriod >= 0, isMediumFree(s), s.queue # <<>>,
         s.down = None, s.arrived = None, NEW t, t = EnterBackoff(s)
  PROVE  /\ Good(t) /\ SameRadio(s, t) /\ SameFrames(s, t) /\ SameClock(s, t)
         /\ t.retryCounter = s.retryCounter /\ t.fsm = "BACKOFF"
PROOF
  <1>1. s \in StationType /\ s.err = FALSE /\ s.timer["Backoff"] = -1
    BY DEF Ready, Bounded
  <1>2. PICK u : u = [s EXCEPT !.fsm = "BACKOFF"] OBVIOUS
  <1>3. Entered(s, u, "BACKOFF")
    <2>1. "BACKOFF" \in FsmState BY DEF FsmState
    <2> QED BY <1>1, <1>2, <2>1, FsmIs
  <1>4. s.backoffPeriod \in Int BY <1>1 DEF StationType
  <1>5. Timed(u, t, "Backoff", s.backoffPeriod) /\ t.err = FALSE
    <2>1. t = Schedule(u, "Backoff", s.backoffPeriod) BY <1>2 DEF EnterBackoff
    <2>2. "Backoff" \in TimerName BY DEF TimerName
    <2>3. u \in StationType /\ u.err = FALSE /\ u.timer["Backoff"] = -1 BY <1>1, <1>3 DEF Entered
    <2> QED BY <1>4, <2>1, <2>2, <2>3, ScheduleIs
  <1>6. SameRadio(s, t) /\ SameFrames(s, t) /\ SameClock(s, t)
    BY <1>3, <1>5 DEF Timed, Entered, SameRadio, SameFrames, SameClock, TimerName
  <1>7. /\ t \in StationType /\ t.fsm = "BACKOFF" /\ t.backoffPeriod = s.backoffPeriod
        /\ t.retryCounter = s.retryCounter
        /\ t.timer["Backoff"] = s.backoffPeriod /\ \A y \in TimerName \ {"Backoff"} : t.timer[y] = s.timer[y]
    BY <1>3, <1>5 DEF Timed, Entered, SameCount
  <1>8. Bounded(t)
    BY <1>4, <1>5, <1>7 DEF Ready, Bounded, TimerName
  <1>9. Coupled(t)
    BY <1>6 DEF Ready, Coupled, SameRadio, SameFrames
  <1>10. OwnTimers(t)
    BY <1>4, <1>7 DEF Ready, OwnTimers, Scheduled, TimerName, Awaiting
  <1>11. isMediumFree(t)
    BY <1>6 DEF isMediumFree, Scheduled, SameRadio, SameClock
  <1>12. Senses(t) /\ Placed(t)
    BY <1>4, <1>6, <1>7, <1>11 DEF Senses, Placed, SameFrames, Cleared
  <1>13. Passing(t)
    BY <1>6, <1>7 DEF Passing, SameFrames
  <1> QED BY <1>6, <1>7, <1>8, <1>9, <1>10, <1>12, <1>13 DEF Good

-----------------------------------------------------------------------------
(* Answering. *)

(* The frame f will be answered. *)
Answers(s, t, f) ==
    /\ SameRadio(s, t) /\ t.retryCounter = s.retryCounter
    /\ t.queue = s.queue /\ t.down = s.down /\ t.arrived = s.arrived
    /\ t.up = s.up /\ t.done = s.done
    /\ t.fsm = "WAITSIFS" /\ t.answering = f /\ t.timer["SIFS"] = SIFS

LEMMA EnterWaitSifsGood ==
  ASSUME NEW s, Ready(s), s.down = None, s.arrived = None, s.radio # "TRANSMIT",
         s.queue = <<>> => s.retryCounter = 0,
         NEW f \in Frame, f.type # "ACK",
         f.type = "CTS" => s.queue # <<>> /\ Current(s).to # Broadcast,
         NEW t, t = EnterWaitSifs(s, f)
  PROVE  Good(t) /\ Answers(s, t, f)
PROOF
  <1>1. s \in StationType /\ s.err = FALSE /\ s.timer["SIFS"] = -1
    BY DEF Ready, Bounded
  <1>2. PICK u : u = [s EXCEPT !.fsm = "WAITSIFS", !.answering = f] OBVIOUS
  <1>3. u \in StationType
    <2>1. "WAITSIFS" \in FsmState BY DEF FsmState
    <2> QED BY <1>1, <1>2, <2>1 DEF StationType
  <1>4. /\ SameRadio(s, u) /\ u.retryCounter = s.retryCounter /\ u.backoffPeriod = s.backoffPeriod
        /\ u.queue = s.queue /\ u.down = s.down /\ u.arrived = s.arrived
        /\ u.up = s.up /\ u.done = s.done /\ u.timer = s.timer /\ u.err = FALSE
        /\ u.fsm = "WAITSIFS" /\ u.answering = f
    BY <1>1, <1>2 DEF StationType, SameRadio
  <1>5. Timed(u, t, "SIFS", SIFS) /\ t.err = FALSE
    <2>1. t = Schedule(u, "SIFS", SIFS) BY <1>2 DEF EnterWaitSifs
    <2>2. "SIFS" \in TimerName /\ SIFS \in Int BY Positive DEF TimerName
    <2> QED BY <1>1, <1>3, <1>4, <2>1, <2>2, ScheduleIs
  <1>6. SameRadio(s, t)
    BY <1>4, <1>5 DEF Timed, SameRadio
  <1>7. /\ t.retryCounter = s.retryCounter /\ t.backoffPeriod = s.backoffPeriod
        /\ t.queue = s.queue /\ t.down = s.down /\ t.arrived = s.arrived
        /\ t.up = s.up /\ t.done = s.done /\ t.fsm = "WAITSIFS" /\ t.answering = f
    BY <1>4, <1>5 DEF Timed, SameFrames, SameCount
  <1>8. t \in StationType /\ t.timer["SIFS"] = SIFS /\ \A y \in TimerName \ {"SIFS"} : t.timer[y] = s.timer[y]
    BY <1>4, <1>5 DEF Timed
  <1>9. Bounded(t)
    BY <1>5, <1>7, <1>8, Positive DEF Ready, Bounded, TimerName
  <1>10. Coupled(t)
    BY <1>6, <1>7 DEF Ready, Coupled, SameRadio
  <1>11. OwnTimers(t)
    BY <1>7, <1>8, Positive DEF Ready, OwnTimers, Scheduled, TimerName, Awaiting
  <1>12. Senses(t) /\ Placed(t)
    BY <1>7 DEF Senses, Placed, Cleared, Current
  <1>13. Passing(t)
    BY <1>6, <1>7, <1>8, Positive, NoneAssumption DEF Passing, SameRadio
  <1> QED BY <1>6, <1>7, <1>8, <1>9, <1>10, <1>11, <1>12, <1>13 DEF Good, Answers

-----------------------------------------------------------------------------
(* The events. *)

LEMMA CancelReady ==
  ASSUME NEW s, Bounded(s), Coupled(s), OwnTimers(s),
         NEW x \in {"SIFS", "DIFS", "Backoff", "Timeout"}, s.timer[x] # -1, NEW t, t = Cancel(s, x)
  PROVE  Ready(t) /\ SameRadio(s, t) /\ SameFrames(s, t) /\ SameCount(s, t) /\ SameClock(s, t)
PROOF
  <1>1. s \in StationType /\ s.err = FALSE /\ x \in TimerName
    BY DEF Bounded, TimerName
  <1>2. Timed(s, t, x, -1) /\ t.err = FALSE
    BY <1>1, CancelIs
  <1>3. SameRadio(s, t) /\ SameFrames(s, t) /\ SameCount(s, t) /\ SameClock(s, t)
    BY <1>2 DEF Timed, SameClock, TimerName
  <1>4. Bounded(t)
    BY <1>1, <1>2, <1>3 DEF Timed, Bounded, SameCount, TimerName
  <1>5. Coupled(t)
    BY <1>3 DEF Coupled, SameRadio, SameFrames
  <1>6. \A y \in {"SIFS", "DIFS", "Backoff", "Timeout"} : t.timer[y] = -1
    BY <1>2 DEF OwnTimers, Timed, TimerName, Scheduled, Awaiting
  <1> QED BY <1>3, <1>4, <1>5, <1>6 DEF Ready

LEMMA OwnReady ==
  ASSUME NEW s, Bounded(s), Coupled(s), OwnTimers(s), s.fsm \in {"IDLE", "DEFER"}
  PROVE  Ready(s)
  BY DEF Ready, OwnTimers, Scheduled, Awaiting

Unmoved(s, t) ==
    t.fsm = s.fsm /\ \A y \in {"SIFS", "DIFS", "Backoff", "Timeout"} : t.timer[y] = s.timer[y]

(* A change of the medium, which the state machine takes note of. *)
Notices(s, t) ==
    /\ SameRadio(s, t) /\ SameFrames(s, t) /\ t.retryCounter = s.retryCounter
    /\ \/ Unmoved(s, t)
       \/ s.fsm \in {"DEFER", "WAITDIFS", "BACKOFF"} /\ t.fsm \in Idling /\ t.timer["DIFS"] # 0

LEMMA MediumGood ==
  ASSUME NEW s, Bounded(s), Coupled(s), OwnTimers(s), Placed(s), Passing(s),
         NEW t, t = mediumStateChange(s)
  PROVE  Good(t) /\ Notices(s, t)
PROOF
  <1>1. s \in StationType /\ s.err = FALSE
    BY DEF Bounded
  <1>2. CASE s.fsm = "DEFER" /\ isMediumFree(s)
    <2>1. t = EnterWaitDifs(s) BY <1>2 DEF mediumStateChange
    <2>2. Ready(s) BY <1>2, OwnReady
    <2>3. s.queue # <<>> BY <1>2 DEF Placed
    <2>4. Settled(s, t) BY <2>1, <2>2, <2>3, EnterWaitDifsSettles
    <2>5. Good(t) /\ Idles(s, t) /\ t.retryCounter = s.retryCounter BY <2>2, <2>4, SettledGood
    <2> QED BY <1>2, <2>5 DEF Notices, Idles
  <1>3. CASE s.fsm = "WAITDIFS" /\ ~isMediumFree(s)
    <2>1. PICK u : u = Cancel(s, "DIFS") OBVIOUS
    <2>2. PICK v : v = [u EXCEPT !.backoff = TRUE] OBVIOUS
    <2>3. t = EnterDefer(v) BY <1>3, <2>1, <2>2 DEF mediumStateChange
    <2>4. Ready(u) /\ SameRadio(s, u) /\ SameFrames(s, u) /\ SameCount(s, u) /\ SameClock(s, u)
      <3>1. s.timer["DIFS"] # -1 BY <1>3 DEF OwnTimers, Scheduled
      <3> QED BY <2>1, <3>1, CancelReady
    <2>5. u \in StationType BY <2>4 DEF Ready, Bounded
    <2>6. v \in StationType BY <2>2, <2>5 DEF StationType
    <2>7. SameRadio(u, v) /\ SameFrames(u, v)
      BY <2>2, <2>5 DEF StationType, SameRadio, SameFrames
    <2>8. /\ v.timer = u.timer /\ v.err = u.err /\ v.retryCounter = u.retryCounter
          /\ v.backoffPeriod = u.backoffPeriod
      BY <2>2, <2>5 DEF StationType
    <2>9. Ready(v)
      BY <2>4, <2>6, <2>7, <2>8 DEF Ready, Bounded, Coupled, SameRadio, SameFrames
    <2>10. v.queue # <<>> BY <1>3, <2>4, <2>7 DEF Placed, SameFrames
    <2>11. Settled(v, t) BY <2>3, <2>9, <2>10, EnterDeferSettles
    <2>12. Good(t) /\ Idles(v, t) /\ t.retryCounter = v.retryCounter BY <2>9, <2>11, SettledGood
    <2> QED BY <1>3, <2>4, <2>7, <2>8, <2>12
        DEF Notices, Idles, SameRadio, SameFrames, SameCount, SameClock
  <1>4. CASE s.fsm = "BACKOFF" /\ ~isMediumFree(s)
    <2>1. PICK u : u = decreaseBackoffPeriod(s) OBVIOUS
    <2>2. t = EnterDefer(u) BY <1>4, <2>1 DEF mediumStateChange
    <2>3. s.queue # <<>> /\ s.timer["Backoff"] <= s.backoffPeriod BY <1>4 DEF Placed
    <2>4. /\ Ready(u) /\ SameRadio(s, u) /\ SameFrames(s, u) /\ SameClock(s, u)
          /\ u.retryCounter = s.retryCounter
      BY <1>4, <2>1, <2>3, DecreaseReady
    <2>5. u.queue # <<>> BY <2>3, <2>4 DEF SameFrames
    <2>6. Settled(u, t) BY <2>2, <2>4, <2>5, EnterDeferSettles
    <2>7. Good(t) /\ Idles(u, t) /\ t.retryCounter = u.retryCounter BY <2>4, <2>6, SettledGood
    <2> QED BY <1>4, <2>4, <2>7 DEF Notices, Idles, SameRadio, SameFrames, SameClock
  <1>5. CASE /\ ~(s.fsm = "DEFER" /\ isMediumFree(s))
             /\ ~(s.fsm = "WAITDIFS" /\ ~isMediumFree(s))
             /\ ~(s.fsm = "BACKOFF" /\ ~isMediumFree(s))
    <2>1. t = s BY <1>5 DEF mediumStateChange
    <2>2. Senses(s) BY <1>5 DEF Senses
    <2> QED BY <2>1, <2>2 DEF Good, Notices, SameRadio, SameFrames, Unmoved
  <1> QED BY <1>2, <1>3, <1>4, <1>5

LEMMA RadioGood ==
  ASSUME NEW s, Bounded(s), OwnTimers(s), Placed(s),
         NEW state \in {"IDLE", "RECV", "TRANSMIT"}, NEW r, r = [s EXCEPT !.radio = state],
         Coupled(r), Passing(r), NEW t, t = receiveChangeNotification(s, state)
  PROVE  Good(t) /\ Notices(r, t)
PROOF
  <1>1. s \in StationType BY DEF Bounded
  <1>2. r \in StationType BY <1>1 DEF StationType
  <1>3. /\ r.err = s.err /\ r.backoffPeriod = s.backoffPeriod /\ r.retryCounter = s.retryCounter
        /\ r.timer = s.timer /\ r.fsm = s.fsm /\ r.queue = s.queue /\ r.answering = s.answering
    BY <1>1 DEF StationType
  <1>4. Bounded(r) BY <1>2, <1>3 DEF Bounded
  <1>5. OwnTimers(r) BY <1>3 DEF OwnTimers, Scheduled
  <1>6. Placed(r) BY <1>3 DEF Placed, Cleared, Current
  <1>7. t = mediumStateChange(r) BY DEF receiveChangeNotification
  <1> QED BY <1>4, <1>5, <1>6, <1>7, MediumGood

(* The end of a reservation, and the message that one begins. *)
LEMMA ClockGood ==
  ASSUME NEW x, Good(x), NEW e \in {"Reserve", "MediumStateChange"}, x.timer[e] = 0,
         NEW s, s = Cancel(x, e), NEW t,
         t = IF e = "Reserve" THEN endReserve(s) ELSE mediumStateChange(s)
  PROVE  Good(t) /\ Notices(x, t)
PROOF
  <1>1. x \in StationType /\ x.err = FALSE /\ e \in TimerName
    BY DEF Good, Bounded, TimerName
  <1>2. Timed(x, s, e, -1) /\ s.err = FALSE
    BY <1>1, CancelIs
  <1>3. SameRadio(x, s) /\ SameFrames(x, s) /\ SameCount(x, s)
    BY <1>2 DEF Timed
  <1>4. \A y \in {"SIFS", "DIFS", "Backoff", "Timeout"} : s.timer[y] = x.timer[y]
    BY <1>2 DEF Timed, TimerName
  <1>5. Bounded(s)
    <2>1. x.timer["MediumStateChange"] \in {-1, 0}
      <3>1. x.timer["MediumStateChange"] \in Int BY <1>1 DEF StationType, TimerName
      <3> QED BY <3>1 DEF Good, Bounded, TimerName
    <2>2. s.timer["MediumStateChange"] = 0 => s.timer["Reserve"] > 0
      BY <1>2 DEF Good, Bounded, Timed, TimerName
    <2>3. \A y \in TimerName : s.timer[y] >= -1
      BY <1>2 DEF Good, Bounded, Timed
    <2>4. s.timer["MediumStateChange"] <= 0
      BY <1>2 DEF Good, Bounded, Timed, TimerName
    <2> QED BY <1>2, <1>3, <2>2, <2>3, <2>4 DEF Good, Bounded, Timed, SameCount, SameFrames
  <1>6. Coupled(s) BY <1>3 DEF Good, Coupled, SameRadio, SameFrames
  <1>7. OwnTimers(s) BY <1>3, <1>4 DEF Good, OwnTimers, Scheduled, SameCount
  <1>8. Placed(s) BY <1>3, <1>4 DEF Good, Placed, Cleared, Current, SameCount, SameFrames
  <1>9. Passing(s) BY <1>3, <1>4 DEF Good, Passing, SameCount, SameFrames, SameRadio
  <1>10. Unmoved(x, s) BY <1>3, <1>4 DEF Unmoved, SameCount
  <1>11. CASE t = mediumStateChange(s)
    <2>1. Good(t) /\ Notices(s, t) BY <1>5, <1>6, <1>7, <1>8, <1>9, <1>11, MediumGood
    <2>2. SameRadio(x, t) /\ SameFrames(x, t) /\ t.retryCounter = x.retryCounter
      BY <1>3, <2>1 DEF Notices, SameRadio, SameFrames, SameCount
    <2> QED BY <1>10, <2>1, <2>2 DEF Notices, Unmoved
  <1>12. CASE t # mediumStateChange(s)
    <2>1. e = "Reserve" /\ s.radio # "IDLE" /\ t = s BY <1>12 DEF endReserve
    <2>2. ~isMediumFree(x) BY <2>1 DEF isMediumFree, Scheduled
    <2>3. Senses(s) BY <1>3, <2>1, <2>2 DEF Good, Senses, isMediumFree, SameCount
    <2> QED BY <1>3, <1>5, <1>6, <1>7, <1>8, <1>9, <1>10, <2>1, <2>3 DEF Good, Notices, SameCount
  <1> QED BY <1>11, <1>12

(* The current frame is disposed of. *)
Finished(s, t, result) ==
    /\ SameRadio(s, t) /\ t.answering = s.answering /\ t.down = s.down /\ t.arrived = s.arrived
    /\ t.up = s.up
    /\ t.queue = Tail(s.queue) /\ t.done = <<Current(s).id, result>> /\ t.retryCounter = 0
    /\ t.fsm \in Idling /\ t.timer["DIFS"] # 0

LEMMA FinishGood ==
  ASSUME NEW s, Ready(s), s.queue # <<>>, NEW result \in Result, NEW t, t = Finish(s, result)
  PROVE  Good(t) /\ Finished(s, t, result)
PROOF
  <1>1. s \in StationType BY DEF Ready, Bounded
  <1>2. PICK u : u = popTransmissionQueue(s, result) OBVIOUS
  <1>3. Tail(s.queue) \in Seq(DataFrame)
    <2>1. s.queue \in Seq(DataFrame) BY <1>1 DEF StationType
    <2> QED BY <2>1
  <1>4. <<Current(s).id, result>> \in Nat \X Result
    <2>1. Current(s).id \in Nat BY <1>1, CurrentType DEF DataFrame
    <2> QED BY <2>1
  <1>5. u \in StationType
    BY <1>1, <1>2, <1>3, <1>4 DEF popTransmissionQueue, StationType
  <1>6. /\ SameRadio(s, u) /\ u.answering = s.answering /\ u.down = s.down /\ u.arrived = s.arrived
        /\ u.up = s.up /\ u.queue = Tail(s.queue) /\ u.done = <<Current(s).id, result>>
        /\ u.timer = s.timer /\ u.err = s.err /\ u.retryCounter = s.retryCounter
        /\ u.backoffPeriod = s.backoffPeriod
    BY <1>1, <1>2 DEF popTransmissionQueue, StationType, SameRadio
  <1>7. Ready(u)
    BY <1>5, <1>6 DEF Ready, Bounded, Coupled, SameRadio
  <1>8. StartsOver(u, t)
    BY <1>2, <1>7, ResetStartsOver DEF Finish
  <1> QED BY <1>6, <1>8 DEF StartsOver, Idles, SameRadio, SameFrames, Finished

(* The current frame will be sent again. *)
Retries(s, t) ==
    /\ SameRadio(s, t) /\ SameFrames(s, t) /\ t.retryCounter = s.retryCounter + 1
    /\ t.fsm \in Idling /\ t.timer["DIFS"] # 0

LEMMA RetryGood ==
  ASSUME NEW s, Ready(s), s.queue # <<>>, s.retryCounter < transmissionLimit - 1, NEW c \in Nat,
         NEW t, t = EnterDefer(retryCurrentTransmission(s, c))
  PROVE  Good(t) /\ Retries(s, t)
PROOF
  <1>1. s \in StationType /\ s.err = FALSE BY DEF Ready, Bounded
  <1>2. PICK u : u = [s EXCEPT !.retryCounter = @ + 1, !.backoff = TRUE] OBVIOUS
  <1>3. s.retryCounter + 1 \in Nat /\ s.retryCounter + 1 < transmissionLimit
    <2>1. s.retryCounter \in Nat BY <1>1 DEF StationType
    <2> QED BY <2>1, Positive
  <1>4. u \in StationType
    BY <1>1, <1>2, <1>3 DEF StationType
  <1>5. SameRadio(s, u) /\ SameFrames(s, u)
    BY <1>1, <1>2 DEF StationType, SameRadio, SameFrames
  <1>6. u.timer = s.timer /\ u.err = s.err /\ u.retryCounter = s.retryCounter + 1
    BY <1>1, <1>2 DEF StationType
  <1>7. PICK v : v = generateBackoffPeriod(u, c) OBVIOUS
  <1>8. Backed(u, v, c * ST) /\ v.timer = u.timer /\ c * ST \in Nat
    BY <1>1, <1>3, <1>4, <1>6, <1>7, GenerateIs
  <1>9. SameRadio(s, v) /\ SameFrames(s, v) /\ v.retryCounter = s.retryCounter + 1
    BY <1>5, <1>6, <1>8 DEF Backed, SameRadio, SameFrames
  <1>10. Bounded(v)
    <2>1. PICK k \in Nat : k = c * ST BY <1>8
    <2>2. v.backoffPeriod >= -1 BY <1>8, <2>1 DEF Backed
    <2>3. v \in StationType /\ v.err = FALSE BY <1>8 DEF Backed
    <2> QED BY <1>3, <1>6, <1>8, <1>9, <2>2, <2>3 DEF Ready, Bounded
  <1>11. Ready(v)
    <2>1. Coupled(v) BY <1>9 DEF Ready, Coupled, SameRadio, SameFrames
    <2> QED BY <1>6, <1>8, <1>10, <2>1 DEF Ready
  <1>12. v.queue # <<>> BY <1>9 DEF SameFrames
  <1>13. Settled(v, t)
    BY <1>2, <1>7, <1>11, <1>12, EnterDeferSettles DEF retryCurrentTransmission
  <1>14. Good(t) /\ Idles(v, t) /\ t.retryCounter = v.retryCounter
    BY <1>11, <1>13, SettledGood
  <1> QED BY <1>9, <1>14 DEF Retries, Idles, SameRadio, SameFrames

(* endDIFS: the frame is sent, or the backoff begins. *)
BacksOff(s, t) ==
    SameRadio(s, t) /\ SameFrames(s, t) /\ t.retryCounter = s.retryCounter /\ t.fsm = "BACKOFF"

LEMMA ClearWhenDue ==
  ASSUME NEW x, Good(x), x.fsm = "BACKOFF" \/ (x.fsm = "WAITDIFS" /\ x.timer["DIFS"] = 0)
  PROVE  Clear(x) /\ isMediumFree(x)
  BY DEF Good, Clear, Passing, Senses, Placed, isMediumFree

LEMMA EndDIFSGood ==
  ASSUME NEW x, Good(x), x.fsm = "WAITDIFS", x.timer["DIFS"] = 0, NEW c \in Nat,
         NEW s, s = Cancel(x, "DIFS"), NEW t, t = endDIFS(s, c)
  PROVE  Good(t) /\ (Transmits(s, t) \/ BacksOff(s, t))
PROOF
  <1>1. Clear(x) /\ isMediumFree(x) BY ClearWhenDue
  <1>2. Ready(s) /\ SameRadio(x, s) /\ SameFrames(x, s) /\ SameCount(x, s) /\ SameClock(x, s)
    <2>1. Bounded(x) /\ Coupled(x) /\ OwnTimers(x) BY DEF Good
    <2>2. x.timer["DIFS"] # -1 OBVIOUS
    <2> QED BY <2>1, <2>2, CancelReady
  <1>3. Clear(s) BY <1>1, <1>2 DEF Clear, SameRadio, SameFrames
  <1>4. isMediumFree(s) BY <1>1, <1>2 DEF isMediumFree, Scheduled, SameRadio, SameClock
  <1>5. CASE ~s.backoff
    <2>1. t = Transmit(s) BY <1>5 DEF endDIFS
    <2> QED BY <1>2, <1>3, <2>1, TransmitGood
  <1>6. CASE s.backoff /\ s.backoffPeriod = -1
    <2>1. PICK u : u = generateBackoffPeriod(s, c) OBVIOUS
    <2>2. s \in StationType /\ s.err = FALSE /\ s.retryCounter < transmissionLimit
      BY <1>2 DEF Ready, Bounded
    <2>3. Backed(s, u, c * ST) /\ u.timer = s.timer /\ c * ST \in Nat
      BY <2>1, <2>2, GenerateIs
    <2>4. PICK k \in Nat : k = c * ST BY <2>3
    <2>5. u \in StationType /\ u.err = FALSE /\ u.backoffPeriod = k BY <2>3, <2>4 DEF Backed
    <2>6. SameRadio(s, u) /\ SameFrames(s, u) /\ u.retryCounter = s.retryCounter BY <2>3 DEF Backed
    <2>7. u.backoffPeriod >= 0 /\ u.backoffPeriod >= -1 BY <2>4, <2>5
    <2>8. Bounded(u) BY <1>2, <2>3, <2>5, <2>6, <2>7 DEF Ready, Bounded
    <2>9. Coupled(u) BY <1>2, <2>6 DEF Ready, Coupled, SameRadio, SameFrames
    <2>10. Ready(u) BY <1>2, <2>3, <2>8, <2>9 DEF Ready
    <2>11. isMediumFree(u) BY <1>4, <2>3, <2>6 DEF isMediumFree, Scheduled, SameRadio
    <2>12. u.queue # <<>> /\ u.down = None /\ u.arrived = None BY <1>3, <2>6 DEF Clear, SameFrames
    <2>13. t = EnterBackoff(u) BY <1>6, <2>1 DEF endDIFS
    <2>14. Good(t) /\ SameRadio(u, t) /\ SameFrames(u, t) /\ SameClock(u, t)
           /\ t.retryCounter = u.retryCounter /\ t.fsm = "BACKOFF"
      BY <2>7, <2>10, <2>11, <2>12, <2>13, EnterBackoffGood
    <2> QED BY <2>6, <2>14 DEF BacksOff, SameRadio, SameFrames
  <1>7. CASE s.backoff /\ s.backoffPeriod # -1
    <2>1. s.backoffPeriod >= 0
      <3>1. s.backoffPeriod \in Int /\ s.backoffPeriod >= -1 BY <1>2 DEF Ready, Bounded, StationType
      <3> QED BY <1>7, <3>1
    <2>2. t = EnterBackoff(s) BY <1>7 DEF endDIFS
    <2>3. s.queue # <<>> /\ s.down = None /\ s.arrived = None BY <1>3 DEF Clear
    <2>4. Good(t) /\ SameRadio(s, t) /\ SameFrames(s, t) /\ SameClock(s, t)
           /\ t.retryCounter = s.retryCounter /\ t.fsm = "BACKOFF"
      BY <1>2, <1>4, <2>1, <2>2, <2>3, EnterBackoffGood
    <2> QED BY <2>4 DEF BacksOff
  <1> QED BY <1>5, <1>6, <1>7

(* endSIFS: a frame is answered, or the current frame sent that a CTS      *)
(* allows. *)
Answered(s, t) ==
    /\ SameRadio(s, t) /\ t.queue = s.queue /\ t.arrived = s.arrived /\ t.up = s.up /\ t.done = s.done
    /\ t.answering = None

Replies(s, t, g) ==
    /\ Answered(s, t) /\ t.down = g /\ t.retryCounter = 0
    /\ t.fsm \in Idling /\ t.timer["DIFS"] # 0

Proceeds(s, t) ==
    /\ Answered(s, t) /\ t.down = Data(Current(s)) /\ t.retryCounter = s.retryCounter
    /\ t.fsm = "WAITACK"
    /\ t.timer["Timeout"] = Current(s).airtime + SIFS + Airtime["ACK"]

EndsSIFS(s, t) ==
    \/ s.answering.type = "RTS" /\ Replies(s, t, Cts(s.answering))
    \/ s.answering.type = "DATA" /\ Replies(s, t, Ack(s.answering))
    \/ s.answering.type = "CTS" /\ Proceeds(s, t)

LEMMA RepliesGood ==
  ASSUME NEW s, Ready(s), s.down = None, s.arrived = None, s.radio # "TRANSMIT", NEW g \in Frame,
         NEW t, t = EnterIdle(resetStateVariables(sendDown(s, g)))
  PROVE  /\ Good(t) /\ t.down = g /\ t.retryCounter = 0 /\ t.fsm \in Idling /\ t.timer["DIFS"] # 0
         /\ SameRadio(s, t) /\ t.queue = s.queue /\ t.arrived = s.arrived /\ t.up = s.up
         /\ t.done = s.done /\ t.answering = s.answering
PROOF
  <1>1. s \in StationType /\ s.err = FALSE BY DEF Ready, Bounded
  <1>2. PICK u : u = sendDown(s, g) OBVIOUS
  <1>3. Given(s, u, g) BY <1>1, <1>2, SendDownIs
  <1>4. Bounded(u) BY <1>3 DEF Ready, Bounded, Given, SameCount
  <1>5. Coupled(u) BY <1>3 DEF Ready, Coupled, Given, SameRadio
  <1>6. Ready(u) BY <1>3, <1>4, <1>5 DEF Ready, Given
  <1>7. StartsOver(u, t) BY <1>2, <1>6, ResetStartsOver
  <1> QED BY <1>3, <1>7 DEF StartsOver, Idles, SameRadio, SameFrames, Given

LEMMA EndSIFSGood ==
  ASSUME NEW x, Good(x), x.fsm = "WAITSIFS", x.timer["SIFS"] = 0,
         NEW s, s = Cancel(x, "SIFS"), NEW t, t = endSIFS(s)
  PROVE  Good(t) /\ EndsSIFS(s, t)
PROOF
  <1>1. Ready(s) /\ SameRadio(x, s) /\ SameFrames(x, s) /\ SameCount(x, s)
    <2>1. Bounded(x) /\ Coupled(x) /\ OwnTimers(x) BY DEF Good
    <2>2. x.timer["SIFS"] # -1 OBVIOUS
    <2> QED BY <2>1, <2>2, CancelReady
  <1>2. s \in StationType BY <1>1 DEF Ready, Bounded
  <1>3. s.down = None /\ s.arrived = None /\ s.radio # "TRANSMIT"
    BY <1>1 DEF Good, Passing, SameRadio, SameFrames
  <1>4. PICK f \in Frame : f = s.answering /\ f.type # "ACK"
    BY <1>1, <1>2 DEF Good, Passing, SameFrames, StationType
  <1>5. f.type = "CTS" => s.queue # <<>> /\ Current(s).to # Broadcast
    BY <1>1, <1>4 DEF Good, Placed, Cleared, Current, SameFrames, Passing
  <1>6. PICK u : u = [s EXCEPT !.answering = None] OBVIOUS
  <1>7. u \in StationType BY <1>2, <1>6 DEF StationType
  <1>8. /\ SameRadio(s, u) /\ u.queue = s.queue /\ u.arrived = s.arrived /\ u.up = s.up
        /\ u.done = s.done /\ u.answering = None /\ u.down = s.down
        /\ u.timer = s.timer /\ u.err = s.err /\ u.retryCounter = s.retryCounter
        /\ u.backoffPeriod = s.backoffPeriod
    BY <1>2, <1>6 DEF StationType, SameRadio
  <1>9. Bounded(u) BY <1>1, <1>7, <1>8 DEF Ready, Bounded
  <1>10. Coupled(u) BY <1>1, <1>8 DEF Ready, Coupled, SameRadio
  <1>11. Ready(u) BY <1>1, <1>8, <1>9, <1>10 DEF Ready
  <1>12. u.down = None /\ u.arrived = None /\ u.radio # "TRANSMIT"
    BY <1>3, <1>8 DEF SameRadio
  <1>13. CASE f.type = "RTS"
    <2>1. t = EnterIdle(resetStateVariables(sendDown(u, Cts(f))))
      BY <1>4, <1>6, <1>13 DEF endSIFS
    <2>2. Cts(f) \in Frame
      <3>1. f \in RtsFrame BY <1>13 DEF Frame, ControlFrame, DataFrame, Answer
      <3> QED BY <3>1, CtsType DEF Frame, ControlFrame
    <2>3. Good(t) /\ Replies(u, t, Cts(f))
      BY <1>8, <1>11, <1>12, <2>1, <2>2, RepliesGood DEF Replies, Answered
    <2>4. Replies(s, t, Cts(f)) BY <1>8, <2>3 DEF Replies, Answered, SameRadio
    <2> QED BY <1>4, <1>13, <2>3, <2>4 DEF EndsSIFS
  <1>14. CASE f.type = "DATA"
    <2>1. t = EnterIdle(resetStateVariables(sendDown(u, Ack(f))))
      BY <1>4, <1>6, <1>14 DEF endSIFS
    <2>2. Ack(f) \in Frame
      <3>1. f \in DataFrame BY <1>14 DEF Frame, ControlFrame, RtsFrame, Answer
      <3> QED BY <3>1, FramesType DEF Frame, ControlFrame
    <2>3. Good(t) /\ Replies(u, t, Ack(f))
      BY <1>8, <1>11, <1>12, <2>1, <2>2, RepliesGood DEF Replies, Answered
    <2>4. Replies(s, t, Ack(f)) BY <1>8, <2>3 DEF Replies, Answered, SameRadio
    <2> QED BY <1>4, <1>14, <2>3, <2>4 DEF EndsSIFS
  <1>15. CASE f.type = "CTS"
    <2>1. Current(u) = Current(s) BY <1>8 DEF Current
    <2>2. t = EnterWaitAck(sendDown(u, Data(Current(u))))
      BY <1>4, <1>6, <1>15, <2>1 DEF endSIFS
    <2>3. Clear(u) BY <1>5, <1>8, <1>12, <1>15 DEF Clear
    <2>4. Current(u).to # Broadcast BY <1>5, <1>15, <2>1
    <2>5. Good(t) /\ SentAck(u, t) BY <1>11, <2>2, <2>3, <2>4, SentGood
    <2>6. Proceeds(s, t) BY <1>8, <2>1, <2>5 DEF Proceeds, Answered, SentAck, Sent, SameRadio
    <2> QED BY <1>4, <1>15, <2>5, <2>6 DEF EndsSIFS
  <1> QED
    <2>1. f.type \in {"RTS", "CTS", "DATA"}
      BY <1>4 DEF Frame, ControlFrame, DataFrame, RtsFrame, Answer
    <2> QED BY <1>13, <1>14, <1>15, <2>1

(* What an event that is a timer does. *)
EndsTimeout(s, t) ==
    \/ s.fsm = "WAITBROADCAST" /\ Finished(s, t, "sent")
    \/ /\ s.fsm \in {"WAITACK", "WAITCTS"}
       /\ \/ s.retryCounter = transmissionLimit - 1 /\ Finished(s, t, "gaveUp")
          \/ s.retryCounter < transmissionLimit - 1 /\ Retries(s, t)

TimerEnds(s, e, t) ==
    \/ e \in {"Reserve", "MediumStateChange"} /\ Notices(s, t)
    \/ e = "DIFS" /\ s.fsm = "WAITDIFS" /\ (Transmits(s, t) \/ BacksOff(s, t))
    \/ e = "Backoff" /\ s.fsm = "BACKOFF" /\ Transmits(s, t)
    \/ e = "Timeout" /\ EndsTimeout(s, t)
    \/ e = "SIFS" /\ s.fsm = "WAITSIFS" /\ EndsSIFS(s, t)

LEMMA AsCancelled ==
  ASSUME NEW x, NEW s, SameRadio(x, s), SameFrames(x, s), SameCount(x, s), NEW t
  PROVE  /\ Transmits(s, t) => Transmits(x, t)
         /\ BacksOff(s, t) => BacksOff(x, t)
         /\ EndsTimeout(s, t) => EndsTimeout(x, t)
         /\ EndsSIFS(s, t) => EndsSIFS(x, t)
PROOF
  <1>1. Current(s) = Current(x) BY DEF Current, SameFrames
  <1>2. Transmits(s, t) => Transmits(x, t)
    BY <1>1 DEF Transmits, SentAck, SentRts, SentBroadcast, Sent, SameRadio, SameFrames, SameCount
  <1>3. BacksOff(s, t) => BacksOff(x, t)
    BY DEF BacksOff, SameRadio, SameFrames, SameCount
  <1>4. EndsTimeout(s, t) => EndsTimeout(x, t)
    BY <1>1 DEF EndsTimeout, Finished, Retries, SameRadio, SameFrames, SameCount
  <1>5. EndsSIFS(s, t) => EndsSIFS(x, t)
    BY <1>1 DEF EndsSIFS, Replies, Proceeds, Answered, SameRadio, SameFrames, SameCount
  <1> QED BY <1>2, <1>3, <1>4, <1>5

LEMMA EndTimeoutGood ==
  ASSUME NEW x, Good(x), x.timer["Timeout"] = 0, NEW c \in Nat,
         NEW s, s = Cancel(x, "Timeout"), NEW t, t = endTimeout(s, c)
  PROVE  Good(t) /\ EndsTimeout(s, t)
PROOF
  <1>1. Ready(s) /\ SameRadio(x, s) /\ SameFrames(x, s) /\ SameCount(x, s)
    <2>1. Bounded(x) /\ Coupled(x) /\ OwnTimers(x) BY DEF Good
    <2>2. x.timer["Timeout"] # -1 OBVIOUS
    <2> QED BY <2>1, <2>2, CancelReady
  <1>2. s.fsm \in Awaiting BY <1>1 DEF Good, OwnTimers, Scheduled, SameCount
  <1>3. s.queue # <<>> BY <1>1, <1>2 DEF Good, Placed, SameFrames, SameCount, Awaiting
  <1>4. s.retryCounter \in Nat /\ s.retryCounter < transmissionLimit
    BY <1>1 DEF Ready, Bounded, StationType
  <1>5. CASE s.fsm = "WAITBROADCAST"
    <2>1. t = Finish(s, "sent") BY <1>5 DEF endTimeout
    <2>2. "sent" \in Result BY DEF Result
    <2>3. Good(t) /\ Finished(s, t, "sent") BY <1>1, <1>3, <2>1, <2>2, FinishGood
    <2> QED BY <1>5, <2>3 DEF EndsTimeout
  <1>6. CASE s.fsm # "WAITBROADCAST" /\ s.retryCounter = transmissionLimit - 1
    <2>1. t = Finish(s, "gaveUp") BY <1>6 DEF endTimeout
    <2>2. "gaveUp" \in Result BY DEF Result
    <2>3. Good(t) /\ Finished(s, t, "gaveUp") BY <1>1, <1>3, <2>1, <2>2, FinishGood
    <2> QED BY <1>2, <1>6, <2>3 DEF EndsTimeout, Awaiting
  <1>7. CASE s.fsm # "WAITBROADCAST" /\ s.retryCounter # transmissionLimit - 1
    <2>1. t = EnterDefer(retryCurrentTransmission(s, c)) BY <1>7 DEF endTimeout
    <2>2. s.retryCounter < transmissionLimit - 1 BY <1>4, <1>7, Positive
    <2>3. Good(t) /\ Retries(s, t) BY <1>1, <1>3, <2>1, <2>2, RetryGood
    <2> QED BY <1>2, <1>7, <2>2, <2>3 DEF EndsTimeout, Awaiting
  <1> QED BY <1>5, <1>6, <1>7

LEMMA SelfGood ==
  ASSUME NEW x, Good(x), NEW e \in TimerName, x.timer[e] = 0, NEW c \in Nat,
         NEW t, t = handleSelfMsg(Cancel(x, e), e, c)
  PROVE  Good(t) /\ TimerEnds(x, e, t)
PROOF
  <1>1. PICK s : s = Cancel(x, e) OBVIOUS
  <1>2. SameRadio(x, s) /\ SameFrames(x, s) /\ SameCount(x, s)
    BY <1>1, CancelIs DEF Good, Bounded, Timed
  <1>3. CASE e \in {"Reserve", "MediumStateChange"}
    <2>1. t = IF e = "Reserve" THEN endReserve(s) ELSE mediumStateChange(s)
      BY <1>1, <1>3 DEF handleSelfMsg
    <2>2. Good(t) /\ Notices(x, t) BY <1>1, <1>3, <2>1, ClockGood
    <2> QED BY <1>3, <2>2 DEF TimerEnds
  <1>4. CASE e = "DIFS"
    <2>1. x.fsm = "WAITDIFS" BY <1>4 DEF Good, OwnTimers, Scheduled
    <2>2. t = endDIFS(s, c) BY <1>1, <1>2, <1>4, <2>1 DEF handleSelfMsg, SameCount
    <2>3. Good(t) /\ (Transmits(s, t) \/ BacksOff(s, t)) BY <1>1, <1>4, <2>1, <2>2, EndDIFSGood
    <2> QED BY <1>2, <1>4, <2>1, <2>3, AsCancelled DEF TimerEnds
  <1>5. CASE e = "Backoff"
    <2>1. x.fsm = "BACKOFF" BY <1>5 DEF Good, OwnTimers, Scheduled
    <2>2. t = Transmit(s) BY <1>1, <1>2, <1>5, <2>1 DEF handleSelfMsg, SameCount
    <2>3. Ready(s)
      <3>1. Bounded(x) /\ Coupled(x) /\ OwnTimers(x) BY DEF Good
      <3>2. x.timer["Backoff"] # -1 BY <1>5
      <3> QED BY <1>1, <1>5, <3>1, <3>2, CancelReady
    <2>4. Clear(s) BY <1>2, <2>1, ClearWhenDue DEF Clear, SameRadio, SameFrames
    <2>5. Good(t) /\ Transmits(s, t) BY <2>2, <2>3, <2>4, TransmitGood
    <2> QED BY <1>2, <1>5, <2>1, <2>5, AsCancelled DEF TimerEnds
  <1>6. CASE e = "Timeout"
    <2>1. x.fsm \in Awaiting BY <1>6 DEF Good, OwnTimers, Scheduled
    <2>2. t = endTimeout(s, c) BY <1>1, <1>2, <1>6, <2>1 DEF handleSelfMsg, SameCount, Awaiting
    <2>3. Good(t) /\ EndsTimeout(s, t) BY <1>1, <1>6, <2>2, EndTimeoutGood
    <2> QED BY <1>2, <1>6, <2>3, AsCancelled DEF TimerEnds
  <1>7. CASE e = "SIFS"
    <2>1. x.fsm = "WAITSIFS" BY <1>7 DEF Good, OwnTimers, Scheduled
    <2>2. t = endSIFS(s) BY <1>1, <1>2, <1>7, <2>1 DEF handleSelfMsg, SameCount
    <2>3. Good(t) /\ EndsSIFS(s, t) BY <1>1, <1>7, <2>1, <2>2, EndSIFSGood
    <2> QED BY <1>2, <1>7, <2>1, <2>3, AsCancelled DEF TimerEnds
  <1> QED BY <1>3, <1>4, <1>5, <1>6, <1>7 DEF TimerName

-----------------------------------------------------------------------------
(* handleUpperMsg. *)

Queues(s, f, t) ==
    /\ SameRadio(s, t) /\ t.down = s.down /\ t.arrived = s.arrived /\ t.answering = s.answering
    /\ t.up = s.up /\ t.retryCounter = s.retryCounter
    /\ \/ Unmoved(s, t) /\ t.queue = s.queue /\ t.done = <<f.id, "dropped">>
       \/ /\ t.queue = Append(s.queue, f) /\ t.done = s.done
          /\ Unmoved(s, t) \/ (s.fsm = "IDLE" /\ t.fsm \in Idling /\ t.timer["DIFS"] # 0)

LEMMA AppendIs ==
  ASSUME NEW q \in Seq(DataFrame), NEW f \in DataFrame
  PROVE  /\ Append(q, f) \in Seq(DataFrame) /\ Append(q, f) # <<>>
         /\ q # <<>> => Head(Append(q, f)) = Head(q)
  BY AppendProperties, HeadTailAppend

LEMMA UpperGood ==
  ASSUME NEW x, Good(x), NEW f \in DataFrame, NEW t, t = handleUpperMsg(x, f)
  PROVE  Good(t) /\ Queues(x, f, t)
PROOF
  <1>1. x \in StationType /\ x.err = FALSE BY DEF Good, Bounded
  <1>2. PICK q : q = Append(x.queue, f) OBVIOUS
  <1>3. q \in Seq(DataFrame) /\ q # <<>> /\ (x.queue # <<>> => Head(q) = Head(x.queue))
    <2>1. x.queue \in Seq(DataFrame) BY <1>1 DEF StationType
    <2> QED BY <1>2, <2>1, AppendIs
  <1>4. CASE maxQueueSize # 0 /\ Len(x.queue) = maxQueueSize
    <2>1. t = [x EXCEPT !.done = <<f.id, "dropped">>] BY <1>4 DEF handleUpperMsg
    <2>2. <<f.id, "dropped">> \in Nat \X Result BY DEF DataFrame, Result
    <2>3. t \in StationType BY <1>1, <2>1, <2>2 DEF StationType
    <2>4. /\ SameRadio(x, t) /\ t.queue = x.queue /\ t.down = x.down /\ t.arrived = x.arrived
          /\ t.answering = x.answering /\ t.up = x.up /\ t.done = <<f.id, "dropped">>
          /\ SameCount(x, t) /\ t.timer = x.timer /\ t.err = x.err
      BY <1>1, <2>1 DEF StationType, SameRadio, SameCount
    <2>5. Bounded(t) BY <2>3, <2>4 DEF Good, Bounded, SameCount
    <2>6. Coupled(t) BY <2>4 DEF Good, Coupled, SameRadio
    <2>7. OwnTimers(t) BY <2>4 DEF Good, OwnTimers, Scheduled, SameCount
    <2>8. Senses(t) BY <2>4 DEF Good, Senses, isMediumFree, Scheduled, SameRadio, SameCount
    <2>9. Placed(t) BY <2>4 DEF Good, Placed, Cleared, Current, SameCount
    <2>10. Passing(t) BY <2>4 DEF Good, Passing, SameRadio, SameCount
    <2>11. Queues(x, f, t) BY <2>4 DEF Queues, Unmoved, SameCount
    <2> QED BY <2>5, <2>6, <2>7, <2>8, <2>9, <2>10, <2>11 DEF Good
  <1>5. CASE ~(maxQueueSize # 0 /\ Len(x.queue) = maxQueueSize) /\ x.fsm # "IDLE"
    <2>1. t = [x EXCEPT !.queue = q] BY <1>2, <1>5 DEF handleUpperMsg
    <2>2. t \in StationType BY <1>1, <1>3, <2>1 DEF StationType
    <2>3. /\ SameRadio(x, t) /\ t.queue = q /\ t.down = x.down /\ t.arrived = x.arrived
          /\ t.answering = x.answering /\ t.up = x.up /\ t.done = x.done
          /\ SameCount(x, t) /\ t.timer = x.timer /\ t.err = x.err
      BY <1>1, <2>1 DEF StationType, SameRadio, SameCount
    <2>4. Bounded(t) BY <2>2, <2>3 DEF Good, Bounded, SameCount
    <2>5. Coupled(t) BY <2>3 DEF Good, Coupled, SameRadio
    <2>6. OwnTimers(t) BY <2>3 DEF Good, OwnTimers, Scheduled, SameCount
    <2>7. Senses(t) BY <2>3 DEF Good, Senses, isMediumFree, Scheduled, SameRadio, SameCount
    <2>8. Placed(t) BY <1>3, <1>5, <2>3 DEF Good, Placed, Cleared, Current, SameCount
    <2>9. Passing(t) BY <2>3 DEF Good, Passing, SameRadio, SameCount
    <2>10. Queues(x, f, t) BY <1>2, <2>3 DEF Queues, Unmoved, SameCount
    <2> QED BY <2>4, <2>5, <2>6, <2>7, <2>8, <2>9, <2>10 DEF Good
  <1>6. CASE ~(maxQueueSize # 0 /\ Len(x.queue) = maxQueueSize) /\ x.fsm = "IDLE"
    <2>1. PICK r : r = Require(x, x.backoffPeriod \in {-1, 0}) OBVIOUS
    <2>2. r = x
      <3>1. x.backoffPeriod \in {-1, 0} BY <1>6 DEF Good, Placed
      <3>2. r = [x EXCEPT !.err = FALSE] BY <1>1, <2>1, <3>1 DEF Require
      <3> QED BY <1>1, <3>2, RequireIs
    <2>3. PICK u : u = [x EXCEPT !.queue = q, !.backoffPeriod = -1] OBVIOUS
    <2>4. t = EnterDefer(u) BY <1>2, <1>6, <2>1, <2>2, <2>3 DEF handleUpperMsg
    <2>5. u \in StationType
      <3>1. -1 \in Int OBVIOUS
      <3> QED BY <1>1, <1>3, <2>3, <3>1 DEF StationType
    <2>6. /\ SameRadio(x, u) /\ u.queue = q /\ u.down = x.down /\ u.arrived = x.arrived
          /\ u.answering = x.answering /\ u.up = x.up /\ u.done = x.done
          /\ u.timer = x.timer /\ u.err = x.err /\ u.retryCounter = x.retryCounter
          /\ u.backoffPeriod = -1
      BY <1>1, <2>3 DEF StationType, SameRadio
    <2>7. Bounded(u) BY <2>5, <2>6 DEF Good, Bounded
    <2>8. Coupled(u) BY <2>6 DEF Good, Coupled, SameRadio
    <2>9. Ready(u) BY <1>6, <2>6, <2>7, <2>8 DEF Good, Ready, OwnTimers, Scheduled, Awaiting
    <2>10. Settled(u, t) BY <1>3, <2>4, <2>6, <2>9, EnterDeferSettles
    <2>11. Good(t) /\ Idles(u, t) /\ t.retryCounter = u.retryCounter BY <2>9, <2>10, SettledGood
    <2>12. Queues(x, f, t) BY <1>2, <1>6, <2>6, <2>11 DEF Queues, Idles, SameRadio, SameFrames
    <2> QED BY <2>11, <2>12
  <1> QED BY <1>4, <1>5, <1>6

-----------------------------------------------------------------------------
(* handleLowerMsg. *)

(* All but the sense of the medium. *)
Nearly(s) == Bounded(s) /\ Coupled(s) /\ OwnTimers(s) /\ Placed(s) /\ Passing(s)

LEMMA NearlyTimed ==
  ASSUME NEW s, Nearly(s), NEW t, t \in StationType, t.err = FALSE,
         SameRadio(s, t), SameFrames(s, t), SameCount(s, t),
         \A y \in TimerName \ {"Reserve", "MediumStateChange"} : t.timer[y] = s.timer[y],
         \A y \in TimerName : t.timer[y] >= -1,
         t.timer["MediumStateChange"] <= 0,
         t.timer["MediumStateChange"] = 0 => t.timer["Reserve"] > 0
  PROVE  Nearly(t)
PROOF
  <1>1. Bounded(t) BY DEF Nearly, Bounded, SameCount
  <1>2. Coupled(t) BY DEF Nearly, Coupled, SameRadio, SameFrames
  <1>3. OwnTimers(t) BY DEF Nearly, OwnTimers, Scheduled, SameCount, TimerName
  <1>4. Placed(t) BY DEF Nearly, Placed, Cleared, Current, SameCount, SameFrames, TimerName
  <1>5. Passing(t) BY DEF Nearly, Passing, SameRadio, SameCount, SameFrames, TimerName
  <1> QED BY <1>1, <1>2, <1>3, <1>4, <1>5 DEF Nearly

LEMMA ReserveGood ==
  ASSUME NEW s, Nearly(s), NEW f, f.duration \in Nat, NEW t, t = scheduleReservePeriod(s, f)
  PROVE  Nearly(t) /\ SameRadio(s, t) /\ SameFrames(s, t) /\ SameCount(s, t) /\ Unmoved(s, t)
PROOF
  <1>1. s \in StationType /\ s.err = FALSE BY DEF Nearly, Bounded
  <1>2. "Reserve" \in TimerName /\ "MediumStateChange" \in TimerName BY DEF TimerName
  <1>3. PICK d \in Nat : d = f.duration OBVIOUS
  <1>4. CASE isForUs(s, f) \/ f.duration = 0 \/ s.timer["Reserve"] > f.duration
    BY <1>4 DEF scheduleReservePeriod, SameRadio, SameFrames, SameCount, Unmoved
  <1> SUFFICES ASSUME ~(isForUs(s, f) \/ f.duration = 0 \/ s.timer["Reserve"] > f.duration)
               PROVE  Nearly(t) /\ SameRadio(s, t) /\ SameFrames(s, t) /\ SameCount(s, t) /\ Unmoved(s, t)
    BY <1>4
  <1>5. d \in Int /\ d > 0 /\ d >= -1 BY <1>3
  <1>6. /\ s.timer["MediumStateChange"] \in {-1, 0}
        /\ s.timer["Reserve"] = -1 => s.timer["MediumStateChange"] = -1
    <2>1. s.timer["MediumStateChange"] \in Int BY <1>1, <1>2 DEF StationType
    <2> QED BY <1>2, <2>1 DEF Nearly, Bounded
  <1>7. CASE Scheduled(s, "Reserve")
    <2>1. PICK u : u = Cancel(s, "Reserve") OBVIOUS
    <2>2. Timed(s, u, "Reserve", -1) /\ u.err = FALSE BY <1>1, <1>2, <2>1, CancelIs
    <2>3. u \in StationType /\ u.timer["Reserve"] = -1 BY <2>2 DEF Timed
    <2>4. t = Schedule(u, "Reserve", d) BY <1>3, <1>7, <2>1 DEF scheduleReservePeriod
    <2>5. Timed(u, t, "Reserve", d) /\ t.err = FALSE
      BY <1>2, <1>5, <2>2, <2>3, <2>4, ScheduleIs
    <2>6. SameRadio(s, t) /\ SameFrames(s, t) /\ SameCount(s, t)
      BY <2>2, <2>5 DEF Timed, SameRadio, SameFrames, SameCount
    <2>7. t \in StationType /\ t.timer["Reserve"] = d
          /\ \A y \in TimerName \ {"Reserve"} : t.timer[y] = s.timer[y]
      BY <2>2, <2>5 DEF Timed
    <2>8. \A y \in TimerName : t.timer[y] >= -1
      BY <1>5, <2>7 DEF Nearly, Bounded
    <2>9. t.timer["MediumStateChange"] <= 0 /\ t.timer["Reserve"] > 0
      BY <1>2, <1>5, <2>7 DEF Nearly, Bounded, TimerName
    <2>10. \A y \in TimerName \ {"Reserve", "MediumStateChange"} : t.timer[y] = s.timer[y]
      BY <2>7
    <2>11. Unmoved(s, t) BY <2>6, <2>7 DEF Unmoved, SameCount, TimerName
    <2> QED BY <2>5, <2>6, <2>7, <2>8, <2>9, <2>10, <2>11, NearlyTimed
  <1>8. CASE ~Scheduled(s, "Reserve") /\ s.radio = "IDLE"
    <2>1. PICK u : u = Schedule(s, "MediumStateChange", 0) OBVIOUS
    <2>2. Timed(s, u, "MediumStateChange", 0) /\ u.err = FALSE
      <3>1. s.timer["MediumStateChange"] = -1 BY <1>6, <1>8 DEF Scheduled
      <3>2. 0 \in Int OBVIOUS
      <3> QED BY <1>1, <1>2, <2>1, <3>1, <3>2, ScheduleIs
    <2>3. u \in StationType /\ u.timer["Reserve"] = -1
      BY <1>8, <2>2 DEF Timed, TimerName, Scheduled
    <2>4. t = Schedule(u, "Reserve", d) BY <1>3, <1>8, <2>1 DEF scheduleReservePeriod
    <2>5. Timed(u, t, "Reserve", d) /\ t.err = FALSE
      BY <1>2, <1>5, <2>2, <2>3, <2>4, ScheduleIs
    <2>6. SameRadio(s, t) /\ SameFrames(s, t) /\ SameCount(s, t)
      BY <2>2, <2>5 DEF Timed, SameRadio, SameFrames, SameCount
    <2>7. t \in StationType /\ t.timer["Reserve"] = d /\ t.timer["MediumStateChange"] = 0
          /\ \A y \in TimerName \ {"Reserve", "MediumStateChange"} : t.timer[y] = s.timer[y]
      BY <2>2, <2>5 DEF Timed, TimerName
    <2>8. \A y \in TimerName : t.timer[y] >= -1
      BY <1>5, <2>7 DEF Nearly, Bounded
    <2>9. t.timer["MediumStateChange"] <= 0 /\ t.timer["Reserve"] > 0
      BY <1>5, <2>7
    <2>10. Unmoved(s, t) BY <2>6, <2>7 DEF Unmoved, SameCount, TimerName
    <2> QED BY <2>5, <2>6, <2>7, <2>8, <2>9, <2>10, NearlyTimed
  <1>9. CASE ~Scheduled(s, "Reserve") /\ s.radio # "IDLE"
    <2>1. s.timer["Reserve"] = -1 BY <1>9 DEF Scheduled
    <2>2. t = Schedule(s, "Reserve", d) BY <1>3, <1>9 DEF scheduleReservePeriod
    <2>3. Timed(s, t, "Reserve", d) /\ t.err = FALSE
      BY <1>1, <1>2, <1>5, <2>1, <2>2, ScheduleIs
    <2>4. SameRadio(s, t) /\ SameFrames(s, t) /\ SameCount(s, t)
      BY <2>3 DEF Timed
    <2>5. t \in StationType /\ t.timer["Reserve"] = d
          /\ \A y \in TimerName \ {"Reserve"} : t.timer[y] = s.timer[y]
      BY <2>3 DEF Timed
    <2>6. \A y \in TimerName : t.timer[y] >= -1
      BY <1>5, <2>5 DEF Nearly, Bounded
    <2>7. t.timer["MediumStateChange"] <= 0 /\ t.timer["Reserve"] > 0
      BY <1>2, <1>5, <2>5 DEF Nearly, Bounded, TimerName
    <2>8. \A y \in TimerName \ {"Reserve", "MediumStateChange"} : t.timer[y] = s.timer[y]
      BY <2>5
    <2>9. Unmoved(s, t) BY <2>4, <2>5 DEF Unmoved, SameCount, TimerName
    <2> QED BY <2>3, <2>4, <2>5, <2>6, <2>7, <2>8, <2>9, NearlyTimed
  <1> QED BY <1>7, <1>8, <1>9

(* What a station that contends does with a frame it receives. *)
Passed(s, t) ==
    /\ SameRadio(s, t) /\ t.queue = s.queue /\ t.down = s.down /\ t.arrived = None /\ t.done = s.done

Discards(s, t) ==
    /\ Passed(s, t) /\ t.up = s.up /\ t.answering = s.answering /\ t.retryCounter = 0
    /\ t.fsm \in Idling /\ t.timer["DIFS"] # 0
PassesUp(s, f, t) ==
    /\ f.type = "DATA" /\ f.to = Broadcast
    /\ Passed(s, t) /\ t.up = f /\ t.answering = s.answering /\ t.retryCounter = 0
    /\ t.fsm \in Idling /\ t.timer["DIFS"] # 0
Answer3(s, f, t) ==
    /\ Passed(s, t) /\ t.answering = f /\ t.retryCounter = s.retryCounter
    /\ t.fsm = "WAITSIFS" /\ t.timer["SIFS"] = SIFS
WillAck(s, f, t) == f.type = "DATA" /\ f.to = s.address /\ Answer3(s, f, t) /\ t.up = f
WillCts(s, f, t) == f.type = "RTS" /\ f.to = s.address /\ Answer3(s, f, t) /\ t.up = s.up

Takes(s, f, t) == Discards(s, t) \/ PassesUp(s, f, t) \/ WillAck(s, f, t) \/ WillCts(s, f, t)

LEMMA UpIs ==
  ASSUME NEW s, Ready(s), NEW f \in DataFrame, NEW t, t = [s EXCEPT !.up = f]
  PROVE  /\ Ready(t) /\ SameRadio(s, t) /\ t.queue = s.queue /\ t.down = s.down
         /\ t.arrived = s.arrived /\ t.done = s.done /\ t.up = f /\ t.answering = s.answering
         /\ t.retryCounter = s.retryCounter
PROOF
  <1>1. s \in StationType BY DEF Ready, Bounded
  <1>2. t \in StationType BY <1>1 DEF StationType
  <1>3. /\ SameRadio(s, t) /\ t.queue = s.queue /\ t.down = s.down
        /\ t.arrived = s.arrived /\ t.done = s.done /\ t.up = f /\ t.answering = s.answering
        /\ t.retryCounter = s.retryCounter /\ t.timer = s.timer /\ t.err = s.err
        /\ t.backoffPeriod = s.backoffPeriod
    BY <1>1 DEF StationType, SameRadio
  <1>4. Bounded(t) BY <1>2, <1>3 DEF Ready, Bounded
  <1>5. Coupled(t) BY <1>3 DEF Ready, Coupled, SameRadio
  <1> QED BY <1>3, <1>4, <1>5 DEF Ready

LEMMA EnterReceiveGood ==
  ASSUME NEW s, Ready(s), s.down = None, s.arrived = None, s.radio # "TRANSMIT",
         s.queue = <<>> => s.retryCounter = 0,
         NEW f \in Frame, NEW bad, NEW t, t = EnterReceive(s, f, bad)
  PROVE  Good(t) /\ Takes(s, f, t)
PROOF
  <1>1. ASSUME t = EnterIdle(resetStateVariables(s))
        PROVE  Good(t) /\ Takes(s, f, t)
    <2>1. StartsOver(s, t) BY <1>1, ResetStartsOver
    <2> QED BY <2>1 DEF StartsOver, Idles, SameFrames, Takes, Discards, Passed
  <1>2. CASE bad
    BY <1>1, <1>2 DEF EnterReceive
  <1>3. CASE ~bad /\ f.type = "DATA" /\ f.to = Broadcast
    <2>1. PICK u : u = [s EXCEPT !.up = f] OBVIOUS
    <2>2. f \in DataFrame BY <1>3 DEF Frame, ControlFrame, RtsFrame, Answer
    <2>3. /\ Ready(u) /\ SameRadio(s, u) /\ u.queue = s.queue /\ u.down = s.down
          /\ u.arrived = s.arrived /\ u.done = s.done /\ u.up = f /\ u.answering = s.answering
      BY <2>1, <2>2, UpIs
    <2>4. t = EnterIdle(resetStateVariables(u)) BY <1>3, <2>1 DEF EnterReceive
    <2>5. StartsOver(u, t) BY <2>3, <2>4, ResetStartsOver
    <2>6. PassesUp(s, f, t)
      BY <1>3, <2>3, <2>5 DEF StartsOver, Idles, SameRadio, SameFrames, PassesUp, Passed
    <2> QED BY <2>5, <2>6 DEF StartsOver, Takes
  <1>4. CASE ~bad /\ f.type = "DATA" /\ f.to # Broadcast /\ isForUs(s, f)
    <2>1. PICK u : u = [s EXCEPT !.up = f] OBVIOUS
    <2>2. f \in DataFrame BY <1>4 DEF Frame, ControlFrame, RtsFrame, Answer
    <2>3. /\ Ready(u) /\ SameRadio(s, u) /\ u.queue = s.queue /\ u.down = s.down
          /\ u.arrived = s.arrived /\ u.done = s.done /\ u.up = f /\ u.answering = s.answering
          /\ u.retryCounter = s.retryCounter
      BY <2>1, <2>2, UpIs
    <2>4. t = EnterWaitSifs(u, f) BY <1>4, <2>1 DEF EnterReceive
    <2>5. u.radio # "TRANSMIT" BY <2>3 DEF SameRadio
    <2>6. f.type # "ACK" /\ f.type # "CTS" BY <1>4
    <2>7. Good(t) /\ Answers(u, t, f) BY <2>3, <2>4, <2>5, <2>6, EnterWaitSifsGood
    <2>8. WillAck(s, f, t)
      BY <1>4, <2>3, <2>7 DEF Answers, SameRadio, WillAck, Answer3, Passed, isForUs
    <2> QED BY <2>7, <2>8 DEF Takes
  <1>5. CASE ~bad /\ f.type = "RTS" /\ isForUs(s, f)
    <2>1. t = EnterWaitSifs(s, f) BY <1>5 DEF EnterReceive
    <2>2. f.type # "ACK" /\ f.type # "CTS" BY <1>5
    <2>3. Good(t) /\ Answers(s, t, f) BY <2>1, <2>2, EnterWaitSifsGood
    <2>4. WillCts(s, f, t)
      BY <1>5, <2>3 DEF Answers, WillCts, Answer3, Passed, isForUs
    <2> QED BY <2>3, <2>4 DEF Takes
  <1>6. CASE /\ ~bad /\ ~(f.type = "DATA" /\ f.to = Broadcast)
             /\ ~(f.type = "DATA" /\ isForUs(s, f)) /\ ~(f.type = "RTS" /\ isForUs(s, f))
    BY <1>1, <1>6 DEF EnterReceive
  <1> QED BY <1>2, <1>3, <1>4, <1>5, <1>6

(* What becomes of a received frame. *)
Ignores(s, t) ==
    /\ Passed(s, t) /\ t.up = s.up /\ t.answering = s.answering /\ t.retryCounter = s.retryCounter
    /\ Unmoved(s, t) /\ s.fsm \in Awaiting
IsAcked(s, f, t) ==
    /\ s.fsm = "WAITACK" /\ isAnswer(s, f, "ACK")
    /\ SameRadio(s, t) /\ t.answering = s.answering /\ t.down = s.down /\ t.arrived = None
    /\ t.up = s.up
    /\ t.queue = Tail(s.queue) /\ t.done = <<Current(s).id, "acked">> /\ t.retryCounter = 0
    /\ t.fsm \in Idling /\ t.timer["DIFS"] # 0
IsCleared(s, f, t) ==
    s.fsm = "WAITCTS" /\ isAnswer(s, f, "CTS") /\ Answer3(s, f, t) /\ t.up = s.up

Receives(s, f, t) ==
    \/ s.fsm \in Idling /\ Takes(s, f, t)
    \/ IsAcked(s, f, t) \/ IsCleared(s, f, t) \/ Ignores(s, t)

LEMMA ReceiveGood ==
  ASSUME NEW s, Nearly(s), s.down = None, s.arrived = None, s.radio # "TRANSMIT",
         s.fsm \in Idling \cup Awaiting,
         NEW f \in Frame, NEW bad, NEW t, t = ReceiveFrame(s, f, bad)
  PROVE  Good(t) /\ Receives(s, f, t)
PROOF
  <1>1. Bounded(s) /\ Coupled(s) /\ OwnTimers(s) /\ Placed(s) BY DEF Nearly
  <1>2. s.queue = <<>> => s.retryCounter = 0 BY <1>1 DEF Placed
  <1>3. CASE s.fsm \in {"IDLE", "DEFER"}
    <2>1. t = EnterReceive(s, f, bad) BY <1>3 DEF ReceiveFrame
    <2>2. Ready(s) BY <1>1, <1>3, OwnReady
    <2>3. Good(t) /\ Takes(s, f, t) BY <1>2, <2>1, <2>2, EnterReceiveGood
    <2> QED BY <1>3, <2>3 DEF Receives, Idling
  <1>4. CASE s.fsm = "WAITDIFS"
    <2>1. PICK u : u = Cancel(s, "DIFS") OBVIOUS
    <2>2. Ready(u) /\ SameRadio(s, u) /\ SameFrames(s, u) /\ SameCount(s, u)
      <3>1. s.timer["DIFS"] # -1 BY <1>1, <1>4 DEF OwnTimers, Scheduled
      <3> QED BY <1>1, <2>1, <3>1, CancelReady
    <2>3. t = EnterReceive(u, f, bad) BY <1>4, <2>1 DEF ReceiveFrame
    <2>4. /\ u.down = None /\ u.arrived = None /\ u.radio # "TRANSMIT"
          /\ u.queue = <<>> => u.retryCounter = 0
      BY <1>2, <2>2 DEF SameRadio, SameFrames, SameCount
    <2>5. Good(t) /\ Takes(u, f, t) BY <2>2, <2>3, <2>4, EnterReceiveGood
    <2>6. Takes(s, f, t)
      BY <2>2, <2>5 DEF Takes, Discards, PassesUp, WillAck, WillCts, Answer3, Passed,
         SameRadio, SameFrames, SameCount
    <2> QED BY <1>4, <2>5, <2>6 DEF Receives, Idling
  <1>5. CASE s.fsm \in {"WAITACK", "WAITCTS", "WAITBROADCAST"}
             /\ ~(s.fsm = "WAITACK" /\ isAnswer(s, f, "ACK"))
             /\ ~(s.fsm = "WAITCTS" /\ isAnswer(s, f, "CTS"))
    <2>1. t = s BY <1>5 DEF ReceiveFrame
    <2>2. Senses(s) BY <1>5 DEF Senses
    <2>3. Ignores(s, s) BY <1>5 DEF Ignores, Passed, SameRadio, Unmoved, Awaiting
    <2> QED BY <1>1, <2>1, <2>2, <2>3 DEF Nearly, Good, Receives
  <1>6. ASSUME s.fsm \in Awaiting
        PROVE  /\ Ready(Cancel(s, "Timeout")) /\ s.queue # <<>>
               /\ SameRadio(s, Cancel(s, "Timeout")) /\ SameFrames(s, Cancel(s, "Timeout"))
               /\ SameCount(s, Cancel(s, "Timeout"))
    <2>1. s.timer["Timeout"] # -1 BY <1>1, <1>6 DEF OwnTimers, Scheduled
    <2>2. s.queue # <<>> BY <1>1, <1>6 DEF Placed, Awaiting
    <2> QED BY <1>1, <2>1, <2>2, CancelReady
  <1>7. CASE s.fsm = "WAITACK" /\ isAnswer(s, f, "ACK")
    <2>1. PICK u : u = Cancel(s, "Timeout") OBVIOUS
    <2>2. Ready(u) /\ SameRadio(s, u) /\ SameFrames(s, u) /\ SameCount(s, u) /\ s.queue # <<>>
      BY <1>6, <1>7, <2>1 DEF Awaiting
    <2>3. t = Finish(u, "acked") BY <1>7, <2>1 DEF ReceiveFrame
    <2>4. "acked" \in Result BY DEF Result
    <2>5. u.queue # <<>> BY <2>2 DEF SameFrames
    <2>6. Good(t) /\ Finished(u, t, "acked") BY <2>2, <2>3, <2>4, <2>5, FinishGood
    <2>7. IsAcked(s, f, t)
      BY <1>7, <2>2, <2>6 DEF IsAcked, Finished, Current, SameRadio, SameFrames
    <2> QED BY <2>6, <2>7 DEF Receives
  <1>8. CASE s.fsm = "WAITCTS" /\ isAnswer(s, f, "CTS")
    <2>1. PICK u : u = Cancel(s, "Timeout") OBVIOUS
    <2>2. Ready(u) /\ SameRadio(s, u) /\ SameFrames(s, u) /\ SameCount(s, u) /\ s.queue # <<>>
      BY <1>6, <1>8, <2>1 DEF Awaiting
    <2>3. t = EnterWaitSifs(u, f) BY <1>8, <2>1 DEF ReceiveFrame
    <2>4. f.type # "ACK" BY <1>8 DEF isAnswer
    <2>5. u.queue # <<>> /\ Current(u).to # Broadcast
      BY <1>1, <1>8, <2>2 DEF Placed, Current, SameFrames
    <2>6. u.down = None /\ u.arrived = None /\ u.radio # "TRANSMIT"
      BY <2>2 DEF SameRadio, SameFrames
    <2>7. Good(t) /\ Answers(u, t, f) BY <2>2, <2>3, <2>4, <2>5, <2>6, EnterWaitSifsGood
    <2>8. IsCleared(s, f, t)
      BY <1>8, <2>2, <2>7 DEF IsCleared, Answers, Answer3, Passed, SameRadio, SameFrames, SameCount
    <2> QED BY <2>7, <2>8 DEF Receives
  <1> QED BY <1>3, <1>4, <1>5, <1>7, <1>8 DEF Idling, Awaiting

LEMMA LowerGood ==
  ASSUME NEW x, Good(x), x.arrived # None, NEW f \in Frame, NEW bad \in BOOLEAN,
         NEW t, t = handleLowerMsg([x EXCEPT !.arrived = None], f, bad)
  PROVE  Good(t) /\ Receives(x, f, t)
PROOF
  <1>1. x \in StationType /\ x.err = FALSE BY DEF Good, Bounded
  <1>2. PICK s : s = [[x EXCEPT !.arrived = None] EXCEPT !.failed = bad] OBVIOUS
  <1>3. s \in StationType
    <2>1. PICK y : y = [x EXCEPT !.arrived = None] OBVIOUS
    <2>2. y \in StationType BY <1>1, <2>1 DEF StationType
    <2>3. s = [y EXCEPT !.failed = bad] BY <1>2, <2>1
    <2> QED BY <2>2, <2>3 DEF StationType
  <1>4. /\ SameRadio(x, s) /\ s.queue = x.queue /\ s.down = x.down /\ s.arrived = None
        /\ s.answering = x.answering /\ s.up = x.up /\ s.done = x.done /\ s.timer = x.timer
        /\ s.err = x.err
    BY <1>1, <1>2 DEF StationType, SameRadio
  <1>5. s.fsm = x.fsm /\ s.backoffPeriod = x.backoffPeriod /\ s.retryCounter = x.retryCounter
    BY <1>1, <1>2 DEF StationType
  <1>6. x.down = None /\ x.receiving = None /\ x.radio # "TRANSMIT" BY DEF Good, Coupled
  <1>7. x.fsm \in Idling \cup Awaiting
    <2>1. x.fsm \in FsmState BY <1>1 DEF StationType
    <2> QED BY <2>1 DEF Good, Passing, FsmState, Idling, Awaiting
  <1>8. Nearly(s)
    <2>1. Bounded(s) BY <1>3, <1>4, <1>5 DEF Good, Bounded
    <2>2. Coupled(s) BY <1>4, <1>6 DEF Coupled, SameRadio
    <2>3. OwnTimers(s) BY <1>4, <1>5 DEF Good, OwnTimers, Scheduled
    <2>4. Placed(s) BY <1>4, <1>5 DEF Good, Placed, Cleared, Current
    <2>5. Passing(s) BY <1>4, <1>5, <1>6, <1>7 DEF Passing, Idling, Awaiting
    <2> QED BY <2>1, <2>2, <2>3, <2>4, <2>5 DEF Nearly
  <1>9. f.duration \in Nat
    BY Positive DEF Frame, ControlFrame, DataFrame, RtsFrame, Answer
  <1>10. PICK u : u = scheduleReservePeriod(s, f) OBVIOUS
  <1>11. Nearly(u) /\ SameRadio(s, u) /\ SameFrames(s, u) /\ SameCount(s, u) /\ Unmoved(s, u)
    BY <1>8, <1>9, <1>10, ReserveGood
  <1>12. t = ReceiveFrame(u, f, bad) BY <1>2, <1>10 DEF handleLowerMsg
  <1>13. u.down = None /\ u.arrived = None /\ u.radio # "TRANSMIT" /\ u.fsm \in Idling \cup Awaiting
    BY <1>4, <1>5, <1>6, <1>7, <1>11 DEF SameRadio, SameFrames, SameCount
  <1>14. Good(t) /\ Receives(u, f, t) BY <1>11, <1>12, <1>13, ReceiveGood
  <1>15. /\ SameRadio(x, u) /\ u.queue = x.queue /\ u.down = x.down
         /\ u.answering = x.answering /\ u.up = x.up /\ u.done = x.done
         /\ u.fsm = x.fsm /\ u.retryCounter = x.retryCounter
         /\ \A y \in {"SIFS", "DIFS", "Backoff", "Timeout"} : u.timer[y] = x.timer[y]
    BY <1>4, <1>5, <1>11 DEF SameRadio, SameFrames, SameCount, Unmoved
  <1>16. /\ Takes(u, f, t) => Takes(x, f, t)
         /\ IsCleared(u, f, t) => IsCleared(x, f, t)
         /\ Ignores(u, t) => Ignores(x, t)
    BY <1>15 DEF Takes, Discards, PassesUp, WillAck, WillCts, Answer3, Passed, IsCleared, Ignores,
       Unmoved, isAnswer, isForUs, SameRadio
  <1>17. IsAcked(u, f, t) => IsAcked(x, f, t)
    BY <1>15 DEF IsAcked, Current, isAnswer, isForUs, SameRadio
  <1> QED BY <1>14, <1>15, <1>16, <1>17 DEF Receives
=============================================================================
