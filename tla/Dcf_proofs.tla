----------------------------- MODULE Dcf_proofs -----------------------------
(***************************************************************************)
(* Proofs about Dcf, for all sets of stations, durations, limits and       *)
(* scenarios: carrier sense, the timers of every station, and that the     *)
(* fate of a frame is what its sender believes it is.                      *)
(***************************************************************************)
EXTENDS Dcf, Ieee80211Mac_proofs, FiniteSetTheorems, WellFoundedInduction

(* The frames of a scenario, with any duration field. *)
Of(frames) ==
    {f \in DataFrame : f.id \in DOMAIN frames /\ f.from = frames[f.id].from
                       /\ f.to = frames[f.id].to}

(* The frames a station holds are those of the set D or control frames. *)
Holds(s, D) ==
    /\ s.queue \in Seq({f \in D : f.from = s.address})
    /\ s.answering \in D \cup ControlFrame \cup {None}
    /\ s.down \in D \cup ControlFrame \cup {None}
    /\ s.arrived # None => s.arrived.frame \in D \cup ControlFrame
    /\ s.up \in D \cup {None}

Rested(s) == s.up = None /\ s.done = None

(* The parts of the inductive invariant. *)
ScenarioOk ==
    /\ scenario \in [hears : SUBSET (Station \X Station), frames : Seq(DataFrame), errors : Nat]
    /\ \A p \in scenario.hears : p[1] # p[2]
    /\ \A i \in FrameId : scenario.frames[i].id = i

StationsOk ==
    \A n \in Station :
        LET s == station[n] IN
        Good(s) /\ Rested(s) /\ s.address = n /\ Holds(s, Of(scenario.frames))

OnAirOk ==
    \A n \in Station :
        /\ station[n].radio = "TRANSMIT" <=> air[n] # None
        /\ air[n] # None => /\ air[n].frame \in Of(scenario.frames) \cup ControlFrame
                            /\ air[n].new => air[n].left > SIFS

(* What station n receives goes on long enough for n to answer another     *)
(* frame first. *)
ReceivesOk(n) ==
    LET s == station[n] IN
    s.receiving # None =>
        /\ air[s.receiving] # None /\ air[s.receiving].new = FALSE /\ Hears(s.receiving, n)
        /\ s.fsm = "WAITSIFS" => air[s.receiving].left > s.timer["SIFS"]
        /\ s.down # None => air[s.receiving].left > 0

(* An idle radio hears nothing. *)
SilenceOk(n) ==
    station[n].radio = "IDLE" => \A m \in Station : Hears(m, n) /\ air[m] # None => air[m].new = TRUE

HearingOk ==
    \A n \in Station :
        /\ ReceivesOk(n) /\ SilenceOk(n)
        /\ station[n].arrived # None => Ending = {}

(* The inductive invariant of carrier sense. *)
SenseInv == TypeOK /\ ScenarioOk /\ StationsOk /\ OnAirOk /\ HearingOk

-----------------------------------------------------------------------------
(* What an event of the MAC does to the radio. *)

MacMove(x, t) ==
    /\ SameRadio(x, t)
    /\ t.arrived # None => t.arrived = x.arrived
    /\ t.down # x.down =>
          /\ x.down = None
          /\ x.receiving = None \/ (x.fsm = "WAITSIFS" /\ x.timer["SIFS"] = 0)
          /\ x.fsm # "WAITSIFS" => isMediumFree(x)
    /\ t.fsm = "WAITSIFS" =>
          x.receiving = None \/ (x.fsm = "WAITSIFS" /\ t.timer["SIFS"] = x.timer["SIFS"])

LEMMA UpperMoves ==
  ASSUME NEW x, NEW f, NEW t, Queues(x, f, t)
  PROVE  MacMove(x, t)
  BY DEF Queues, MacMove, Unmoved, Idling

LEMMA LowerMoves ==
  ASSUME NEW x, Good(x), x.arrived # None, NEW f, NEW t, Receives(x, f, t)
  PROVE  MacMove(x, t)
PROOF
  <1>1. x.receiving = None BY DEF Good, Coupled
  <1>2. SameRadio(x, t) /\ t.down = x.down /\ t.arrived = None
    BY DEF Receives, Takes, Discards, PassesUp, WillAck, WillCts, Answer3, Passed, IsAcked,
       IsCleared, Ignores
  <1> QED BY <1>1, <1>2 DEF MacMove

LEMMA TimerMoves ==
  ASSUME NEW x, Good(x), NEW e, x.timer[e] = 0, NEW t, TimerEnds(x, e, t)
  PROVE  MacMove(x, t)
PROOF
  <1>1. CASE Notices(x, t)
    BY <1>1 DEF Notices, Unmoved, Idling, SameFrames, MacMove
  <1>2. ASSUME x.fsm = "BACKOFF" \/ (x.fsm = "WAITDIFS" /\ x.timer["DIFS"] = 0), Transmits(x, t)
        PROVE  MacMove(x, t)
    <2>1. Clear(x) /\ isMediumFree(x) BY <1>2, ClearWhenDue
    <2>2. x.receiving = None BY <2>1 DEF Good, Coupled, isMediumFree
    <2> QED BY <1>2, <2>1, <2>2
        DEF Transmits, SentAck, SentRts, SentBroadcast, Sent, Clear, MacMove
  <1>3. CASE e = "DIFS" /\ x.fsm = "WAITDIFS" /\ BacksOff(x, t)
    BY <1>3 DEF BacksOff, SameFrames, MacMove
  <1>4. CASE EndsTimeout(x, t)
    BY <1>4 DEF EndsTimeout, Finished, Retries, SameFrames, Idling, MacMove
  <1>5. CASE e = "SIFS" /\ x.fsm = "WAITSIFS" /\ EndsSIFS(x, t)
    <2>1. x.down = None /\ x.timer["SIFS"] = 0 BY <1>5 DEF Good, Passing
    <2> QED BY <1>5, <2>1 DEF EndsSIFS, Replies, Proceeds, Answered, Idling, MacMove
  <1> QED BY <1>1, <1>2, <1>3, <1>4, <1>5 DEF TimerEnds

-----------------------------------------------------------------------------
(* The frames an event of the MAC handles are those of the scenario. *)

Frames == {D \in SUBSET DataFrame : \A f \in D : Data(f) \in D}

LEMMA OfFrames ==
  ASSUME NEW frames
  PROVE  Of(frames) \in Frames
PROOF
  <1>1. Of(frames) \subseteq DataFrame BY DEF Of
  <1>2. ASSUME NEW f \in Of(frames) PROVE Data(f) \in Of(frames)
    <2>1. f \in DataFrame BY DEF Of
    <2> QED BY <2>1, FramesType DEF Of
  <1> QED BY <1>1, <1>2 DEF Frames

LEMMA HeadOf ==
  ASSUME NEW Q, NEW q \in Seq(Q), q # <<>>
  PROVE  Head(q) \in Q /\ Tail(q) \in Seq(Q)
  OBVIOUS

LEMMA AppendOf ==
  ASSUME NEW Q, NEW q \in Seq(Q), NEW f \in Q
  PROVE  Append(q, f) \in Seq(Q)
  OBVIOUS

LEMMA CurrentOf ==
  ASSUME NEW x, NEW D \in Frames, Holds(x, D), x.queue # <<>>
  PROVE  /\ Current(x) \in D /\ Current(x).from = x.address /\ Data(Current(x)) \in D
         /\ Tail(x.queue) \in Seq({f \in D : f.from = x.address})
PROOF
  <1>1. PICK Q : Q = {f \in D : f.from = x.address} OBVIOUS
  <1>2. x.queue \in Seq(Q) BY <1>1 DEF Holds
  <1>3. Current(x) \in Q /\ Tail(x.queue) \in Seq(Q) BY <1>2, HeadOf DEF Current
  <1> QED BY <1>1, <1>3 DEF Frames

LEMMA UpperHolds ==
  ASSUME NEW x, NEW D \in Frames, Holds(x, D), NEW f \in D, f.from = x.address,
         NEW t, Queues(x, f, t)
  PROVE  Holds(t, D)
PROOF
  <1>1. PICK Q : Q = {g \in D : g.from = x.address} OBVIOUS
  <1>2. x.queue \in Seq(Q) BY <1>1 DEF Holds
  <1>3. Append(x.queue, f) \in Seq(Q) BY <1>1, <1>2, AppendOf
  <1>4. t.queue \in Seq({g \in D : g.from = t.address})
    BY <1>1, <1>2, <1>3 DEF Queues, SameRadio
  <1>5. t.answering = x.answering /\ t.down = x.down /\ t.arrived = x.arrived /\ t.up = x.up
    BY DEF Queues
  <1> QED BY <1>4, <1>5 DEF Holds

LEMMA LowerHolds ==
  ASSUME NEW x, Good(x), NEW D \in Frames, Holds(x, D), x.arrived # None,
         NEW f, f = x.arrived.frame, NEW t, Receives(x, f, t)
  PROVE  Holds(t, D)
PROOF
  <1>1. f \in D \cup ControlFrame BY DEF Holds
  <1>2. t.arrived = None /\ t.down = x.down /\ t.address = x.address
    BY DEF Receives, Takes, Discards, PassesUp, WillAck, WillCts, Answer3, Passed, IsAcked,
       IsCleared, Ignores, SameRadio
  <1>3. t.answering \in {x.answering, f}
    BY DEF Receives, Takes, Discards, PassesUp, WillAck, WillCts, Answer3, IsAcked, IsCleared, Ignores
  <1>4. t.up = x.up \/ (t.up = f /\ f.type = "DATA")
    BY DEF Receives, Takes, Discards, PassesUp, WillAck, WillCts, IsAcked, IsCleared, Ignores
  <1>5. f.type = "DATA" => f \in D BY <1>1 DEF ControlFrame, RtsFrame, Answer
  <1>6. t.queue = x.queue \/ (t.queue = Tail(x.queue) /\ x.queue # <<>>)
    BY DEF Receives, Takes, Discards, PassesUp, WillAck, WillCts, Answer3, Passed, IsAcked,
       IsCleared, Ignores, Good, Placed
  <1>7. t.queue \in Seq({g \in D : g.from = x.address})
    BY <1>6, CurrentOf DEF Holds
  <1> QED BY <1>1, <1>2, <1>3, <1>4, <1>5, <1>7 DEF Holds

LEMMA TimerHolds ==
  ASSUME NEW x, Good(x), NEW D \in Frames, Holds(x, D), NEW e, x.timer[e] = 0,
         NEW t, TimerEnds(x, e, t)
  PROVE  Holds(t, D)
PROOF
  <1>1. PICK Q : Q = {g \in D : g.from = x.address} OBVIOUS
  <1>2. ASSUME SameRadio(x, t), t.queue = x.queue, t.arrived = x.arrived, t.up = x.up,
               t.answering \in {x.answering, None}, t.down = x.down \/ t.down \in D \cup ControlFrame
        PROVE  Holds(t, D)
    BY <1>2 DEF Holds, SameRadio
  <1>3. CASE SameRadio(x, t) /\ SameFrames(x, t)
    BY <1>2, <1>3 DEF SameFrames
  <1>4. ASSUME x.queue # <<>>, Transmits(x, t) PROVE Holds(t, D)
    <2>1. Current(x) \in D /\ Data(Current(x)) \in D BY <1>4, CurrentOf
    <2>2. Current(x).to # Broadcast => Rts(Current(x)) \in ControlFrame
      BY <2>1, FramesType DEF Frames, ControlFrame
    <2> QED BY <1>2, <1>4, <2>1, <2>2 DEF Transmits, SentAck, SentRts, SentBroadcast, Sent
  <1>5. CASE EndsSIFS(x, t) /\ x.fsm = "WAITSIFS"
    <2>1. x.answering \in D \cup ControlFrame BY <1>5 DEF Holds, Good, Passing
    <2>2. x.answering.type = "RTS" => Cts(x.answering) \in ControlFrame
      <3>1. x.answering.type = "RTS" => x.answering \in RtsFrame
        BY <2>1 DEF Frames, DataFrame, ControlFrame, Answer
      <3> QED BY <3>1, CtsType DEF ControlFrame
    <2>3. x.answering.type = "DATA" => Ack(x.answering) \in ControlFrame
      <3>1. x.answering.type = "DATA" => x.answering \in DataFrame
        BY <2>1 DEF Frames, RtsFrame, ControlFrame, Answer
      <3> QED BY <3>1, FramesType DEF ControlFrame
    <2>4. x.answering.type = "CTS" => Data(Current(x)) \in D
      <3>1. x.answering.type = "CTS" => x.queue # <<>>
        BY <1>5 DEF Good, Placed, Cleared, Passing
      <3> QED BY <3>1, CurrentOf
    <2> QED BY <1>2, <1>5, <2>2, <2>3, <2>4 DEF EndsSIFS, Replies, Proceeds, Answered
  <1>6. CASE EndsTimeout(x, t)
    <2>1. x.queue # <<>> BY <1>6 DEF EndsTimeout, Good, Placed
    <2>2. CASE t.queue = Tail(x.queue) /\ SameRadio(x, t) /\ t.answering = x.answering
               /\ t.down = x.down /\ t.arrived = x.arrived /\ t.up = x.up
      BY <2>1, <2>2, CurrentOf DEF Holds, SameRadio
    <2>3. CASE SameRadio(x, t) /\ SameFrames(x, t) BY <1>3, <2>3
    <2> QED BY <1>6, <2>2, <2>3 DEF EndsTimeout, Finished, Retries
  <1>7. x.fsm \in {"WAITDIFS", "BACKOFF"} => x.queue # <<>> BY DEF Good, Placed
  <1> QED BY <1>3, <1>4, <1>5, <1>6, <1>7 DEF TimerEnds, Notices, BacksOff

-----------------------------------------------------------------------------
(* Carrier sense: the events of the MAC. *)

Between(t) == [t EXCEPT !.up = None, !.done = None]

LEMMA BetweenIs ==
  ASSUME NEW t, Good(t), NEW u, u = Between(t)
  PROVE  /\ Good(u) /\ Rested(u) /\ SameRadio(t, u) /\ SameCount(t, u) /\ u.timer = t.timer
         /\ u.queue = t.queue /\ u.answering = t.answering /\ u.down = t.down /\ u.arrived = t.arrived
PROOF
  <1>1. t \in StationType BY DEF Good, Bounded
  <1>2. u \in StationType BY <1>1 DEF Between, StationType
  <1>3. /\ SameRadio(t, u) /\ SameCount(t, u) /\ u.timer = t.timer /\ u.err = t.err
        /\ u.queue = t.queue /\ u.answering = t.answering /\ u.down = t.down /\ u.arrived = t.arrived
        /\ u.up = None /\ u.done = None
    BY <1>1 DEF Between, StationType, SameRadio, SameCount
  <1>4. Bounded(u) BY <1>2, <1>3 DEF Good, Bounded, SameCount
  <1>5. Coupled(u) BY <1>3 DEF Good, Coupled, SameRadio
  <1>6. OwnTimers(u) BY <1>3 DEF Good, OwnTimers, Scheduled, SameCount
  <1>7. Senses(u) BY <1>3 DEF Good, Senses, isMediumFree, Scheduled, SameRadio, SameCount
  <1>8. Placed(u) BY <1>3 DEF Good, Placed, Cleared, Current, SameCount
  <1>9. Passing(u) BY <1>3 DEF Good, Passing, SameRadio, SameCount
  <1> QED BY <1>3, <1>4, <1>5, <1>6, <1>7, <1>8, <1>9 DEF Good, Rested

LEMMA MacStepType ==
  ASSUME TypeOK, NEW n \in Station, NEW t, Good(t), Holds(t, Of(scenario.frames)), MacStep(n, t),
         StationsOk, air' = air, scenario' = scenario, waiting' \subseteq waiting
  PROVE  TypeOK'
PROOF
  <1>1. PICK I : I = FrameId OBVIOUS
  <1>2. FrameId' = I BY <1>1 DEF FrameId
  <1>3. station' \in [Station -> StationType]
    <2>1. Between(t) \in StationType BY BetweenIs DEF Good, Bounded
    <2>2. station' = [station EXCEPT ![n] = Between(t)] BY DEF MacStep, Between
    <2> QED BY <2>1, <2>2 DEF TypeOK
  <1>4. got' \in [Station -> Seq(I)]
    <2>1. CASE t.up = None BY <1>1, <2>1 DEF MacStep, TypeOK
    <2>2. CASE t.up # None
      <3>1. t.up.id \in I BY <1>1, <2>2 DEF Holds, Of, FrameId
      <3>2. got[n] \in Seq(I) BY <1>1 DEF TypeOK
      <3>3. Append(got[n], t.up.id) \in Seq(I) BY <3>1, <3>2
      <3>4. got' = [got EXCEPT ![n] = Append(got[n], t.up.id)] BY <2>2 DEF MacStep
      <3> QED BY <1>1, <3>3, <3>4 DEF TypeOK
    <2> QED BY <2>1, <2>2
  <1>5. attempts' \in [I -> 0 .. transmissionLimit]
    <2>1. \A k \in 0 .. transmissionLimit : Capped(k) \in 0 .. transmissionLimit
      BY Positive DEF Capped
    <2> QED BY <1>1, <2>1 DEF MacStep, TypeOK
  <1>6. outcome' \in [I -> Result \cup {"none"}]
    <2>1. CASE t.done = None BY <1>1, <2>1 DEF MacStep, TypeOK
    <2>2. CASE t.done # None
      <3>1. t.done[2] \in Result
        <4>1. t.done \in Nat \X Result BY <2>2 DEF Good, Bounded, StationType
        <4> QED BY <4>1
      <3>2. outcome' = [outcome EXCEPT ![t.done[1]] = t.done[2]] BY <2>2 DEF MacStep
      <3> QED BY <1>1, <3>1, <3>2 DEF TypeOK
    <2> QED BY <2>1, <2>2
  <1>7. waiting' \subseteq I BY <1>1 DEF TypeOK
  <1>8. air' \in [Station -> OnAir \cup {None}] BY DEF TypeOK
  <1> QED BY <1>2, <1>3, <1>4, <1>5, <1>6, <1>7, <1>8 DEF TypeOK

(* What the decision to contend promises. *)
Sensed(n) == Noise(n) = {} /\ ~Scheduled(station[n], "Reserve")

LEMMA MacStepSense ==
  ASSUME SenseInv, NEW n \in Station, NEW t, Good(t), Holds(t, Of(scenario.frames)), MacStep(n, t),
         MacMove(station[n], t), air' = air, scenario' = scenario, waiting' \subseteq waiting
  PROVE  SenseInv' /\ \A m \in Station : Contends(station[m], station'[m]) => Sensed(m)
PROOF
  <1>1. PICK u : u = Between(t) OBVIOUS
  <1>2. /\ Good(u) /\ Rested(u) /\ SameRadio(t, u) /\ SameCount(t, u) /\ u.timer = t.timer
        /\ u.queue = t.queue /\ u.answering = t.answering /\ u.down = t.down /\ u.arrived = t.arrived
    BY <1>1, BetweenIs
  <1>3. PICK x : x = station[n] OBVIOUS
  <1>4. station' = [station EXCEPT ![n] = u] BY <1>1 DEF MacStep, Between
  <1>5. station'[n] = u /\ \A m \in Station \ {n} : station'[m] = station[m]
    BY <1>4 DEF SenseInv, TypeOK
  <1>6. TypeOK' BY MacStepType DEF SenseInv
  <1>7. ScenarioOk' BY DEF SenseInv, ScenarioOk, FrameId
  <1>8. StationsOk'
    <2>1. u.address = n BY <1>2, <1>3 DEF MacMove, SameRadio, SenseInv, StationsOk
    <2>2. Holds(u, Of(scenario.frames)) BY <1>2 DEF Holds, SameRadio, Rested
    <2> QED BY <1>2, <1>5, <2>1, <2>2 DEF SenseInv, StationsOk
  <1>9. u.radio = x.radio /\ u.receiving = x.receiving
    BY <1>2, <1>3 DEF MacMove, SameRadio
  <1>10. OnAirOk' BY <1>3, <1>5, <1>9 DEF SenseInv, OnAirOk
  <1>11. HearingOk'
    <2>1. Ending' = Ending BY DEF Ending
    <2>2. \A m \in Station : SilenceOk(m)'
      BY <1>3, <1>5, <1>9 DEF SenseInv, HearingOk, SilenceOk, Hears
    <2>3. u.arrived # None => Ending = {}
      BY <1>2, <1>3 DEF MacMove, SenseInv, HearingOk
    <2>4. ReceivesOk(n)'
      <3>1. CASE x.receiving = None BY <1>5, <1>9, <3>1 DEF ReceivesOk
      <3>2. CASE x.receiving # None
        <4>1. /\ air[x.receiving] # None /\ air[x.receiving].new = FALSE /\ Hears(x.receiving, n)
              /\ x.fsm = "WAITSIFS" => air[x.receiving].left > x.timer["SIFS"]
              /\ x.down # None => air[x.receiving].left > 0
          BY <1>3, <3>2 DEF SenseInv, HearingOk, ReceivesOk
        <4>2. u.fsm = "WAITSIFS" => air[x.receiving].left > u.timer["SIFS"]
          BY <1>2, <1>3, <3>2, <4>1 DEF MacMove, SameCount
        <4>3. u.down # None => air[x.receiving].left > 0
          BY <1>2, <1>3, <3>2, <4>1 DEF MacMove
        <4> QED BY <1>5, <1>9, <4>1, <4>2, <4>3 DEF ReceivesOk, Hears
      <3> QED BY <3>1, <3>2
    <2>5. \A m \in Station \ {n} : ReceivesOk(m)'
      BY <1>5 DEF SenseInv, HearingOk, ReceivesOk, Hears
    <2> QED BY <1>5, <2>1, <2>2, <2>3, <2>4, <2>5 DEF SenseInv, HearingOk
  <1>12. ASSUME NEW m \in Station, Contends(station[m], station'[m])
         PROVE  Sensed(m)
    <2>1. m = n /\ x.down = None /\ u.down # None /\ x.fsm # "WAITSIFS"
      BY <1>3, <1>5, <1>12 DEF Contends
    <2>2. isMediumFree(x) BY <1>2, <1>3, <2>1 DEF MacMove
    <2>3. Noise(n) = {}
      BY <1>3, <2>2 DEF SenseInv, HearingOk, SilenceOk, isMediumFree, Noise, New
    <2> QED BY <1>3, <2>1, <2>2, <2>3 DEF Sensed, isMediumFree
  <1> QED BY <1>6, <1>7, <1>8, <1>10, <1>11, <1>12 DEF SenseInv

(* The events of the MAC, each with the state t that its handler leaves.   *)
Handled(n, t) ==
    /\ Good(t) /\ Holds(t, Of(scenario.frames)) /\ MacStep(n, t) /\ MacMove(station[n], t)
    /\ air' = air /\ scenario' = scenario

UpperEvent(n, i, t) ==
    /\ i \in waiting /\ scenario.frames[i] \in Of(scenario.frames)
    /\ scenario.frames[i].from = n /\ \A j \in waiting : i <= j \/ scenario.frames[j].from # n
    /\ waiting' = waiting \ {i}
    /\ Handled(n, t) /\ Queues(station[n], scenario.frames[i], t)

LowerEvent(n, t) ==
    /\ station[n].arrived # None /\ waiting' = waiting
    /\ Handled(n, t) /\ Receives(station[n], station[n].arrived.frame, t)

TimerEvent(n, e, t) ==
    /\ station[n].timer[e] = 0 /\ waiting' = waiting
    /\ (e = "Timeout" /\ station[n].fsm # "WAITBROADCAST") => Ending = {} /\ station[n].arrived = None
    /\ Handled(n, t) /\ TimerEnds(station[n], e, t)

LEMMA UpperMsgIs ==
  ASSUME SenseInv, NEW n \in Station, UpperMsg(n)
  PROVE  \E i \in waiting : \E t : UpperEvent(n, i, t)
PROOF
  <1>1. PICK x : x = station[n] OBVIOUS
  <1>2. PICK i \in waiting :
            /\ scenario.frames[i].from = n /\ \A j \in waiting : i <= j \/ scenario.frames[j].from # n
            /\ waiting' = waiting \ {i}
            /\ MacStep(n, handleUpperMsg(x, scenario.frames[i]))
            /\ air' = air /\ scenario' = scenario
    BY <1>1 DEF UpperMsg
  <1>3. PICK f : f = scenario.frames[i] OBVIOUS
  <1>4. PICK t : t = handleUpperMsg(x, f) OBVIOUS
  <1>5. PICK D : D = Of(scenario.frames) OBVIOUS
  <1>6. D \in Frames BY <1>5, OfFrames
  <1>7. f \in DataFrame /\ f \in D
    <2>1. i \in DOMAIN scenario.frames /\ scenario.frames \in Seq(DataFrame) /\ f.id = i
      BY <1>3 DEF SenseInv, TypeOK, ScenarioOk, FrameId
    <2>2. f \in DataFrame BY <1>3, <2>1
    <2> QED BY <1>3, <1>5, <2>1, <2>2 DEF Of
  <1>8. Good(x) /\ x.address = n /\ Holds(x, D) BY <1>1, <1>5 DEF SenseInv, StationsOk
  <1>9. Good(t) /\ Queues(x, f, t) BY <1>4, <1>7, <1>8, UpperGood
  <1>10. MacMove(x, t) BY <1>9, UpperMoves
  <1>11. f.from = x.address BY <1>2, <1>3, <1>8
  <1>12. Holds(t, D) BY <1>6, <1>7, <1>8, <1>9, <1>11, UpperHolds
  <1>13. MacStep(n, t) BY <1>2, <1>3, <1>4
  <1>14. UpperEvent(n, i, t)
    BY <1>1, <1>2, <1>3, <1>5, <1>7, <1>9, <1>10, <1>12, <1>13 DEF UpperEvent, Handled
  <1> QED BY <1>14

LEMMA LowerMsgIs ==
  ASSUME SenseInv, NEW n \in Station, LowerMsg(n)
  PROVE  \E t : LowerEvent(n, t)
PROOF
  <1>1. PICK x : x = station[n] OBVIOUS
  <1>2. PICK f : f = x.arrived.frame OBVIOUS
  <1>3. PICK bad : bad = x.arrived.bad OBVIOUS
  <1>4. PICK t : t = handleLowerMsg([x EXCEPT !.arrived = None], f, bad) OBVIOUS
  <1>5. x.arrived # None /\ MacStep(n, t) /\ air' = air /\ waiting' = waiting /\ scenario' = scenario
    BY <1>1, <1>2, <1>3, <1>4 DEF LowerMsg
  <1>6. PICK D : D = Of(scenario.frames) OBVIOUS
  <1>7. D \in Frames BY <1>6, OfFrames
  <1>8. Good(x) /\ Holds(x, D) BY <1>1, <1>6 DEF SenseInv, StationsOk
  <1>9. f \in Frame /\ bad \in BOOLEAN
    <2>1. x.arrived \in Received BY <1>5, <1>8 DEF Good, Bounded, StationType
    <2> QED BY <1>2, <1>3, <2>1 DEF Received
  <1>10. Good(t) /\ Receives(x, f, t) BY <1>4, <1>5, <1>8, <1>9, LowerGood
  <1>11. MacMove(x, t) BY <1>5, <1>8, <1>10, LowerMoves
  <1>12. Holds(t, D) BY <1>2, <1>5, <1>7, <1>8, <1>10, LowerHolds
  <1>13. LowerEvent(n, t)
    BY <1>1, <1>2, <1>5, <1>6, <1>10, <1>11, <1>12 DEF LowerEvent, Handled
  <1> QED BY <1>13

LEMMA DrawsType ==
  ASSUME NEW s, NEW e, NEW c \in Draws(s, e)
  PROVE  c \in Nat
PROOF
  <1>1. CASE c \in 0 .. ContentionWindow(Current(s), s.retryCounter) BY <1>1
  <1>2. CASE c \in 0 .. ContentionWindow(Current(s), s.retryCounter + 1) BY <1>2
  <1>3. CASE c = 0 BY <1>3
  <1> QED BY <1>1, <1>2, <1>3 DEF Draws

LEMMA TimerIs ==
  ASSUME SenseInv, NEW n \in Station, NEW e \in TimerName, Timer(n, e)
  PROVE  \E t : TimerEvent(n, e, t)
PROOF
  <1>1. PICK x : x = station[n] OBVIOUS
  <1>2. PICK c \in Draws(x, e) : MacStep(n, handleSelfMsg(Cancel(x, e), e, c))
    BY <1>1 DEF Timer
  <1>3. PICK t : t = handleSelfMsg(Cancel(x, e), e, c) OBVIOUS
  <1>4. /\ x.timer[e] = 0 /\ MacStep(n, t) /\ air' = air /\ waiting' = waiting /\ scenario' = scenario
        /\ (e = "Timeout" /\ x.fsm # "WAITBROADCAST") => Ending = {} /\ x.arrived = None
    BY <1>1, <1>2, <1>3 DEF Timer, Due
  <1>5. PICK D : D = Of(scenario.frames) OBVIOUS
  <1>6. D \in Frames BY <1>5, OfFrames
  <1>7. Good(x) /\ Holds(x, D) BY <1>1, <1>5 DEF SenseInv, StationsOk
  <1>8. c \in Nat BY DrawsType
  <1>9. Good(t) /\ TimerEnds(x, e, t) BY <1>3, <1>4, <1>7, <1>8, SelfGood
  <1>10. MacMove(x, t) BY <1>4, <1>7, <1>9, TimerMoves
  <1>11. Holds(t, D) BY <1>4, <1>6, <1>7, <1>9, TimerHolds
  <1>12. TimerEvent(n, e, t)
    BY <1>1, <1>4, <1>5, <1>9, <1>10, <1>11 DEF TimerEvent, Handled
  <1> QED BY <1>12

-----------------------------------------------------------------------------
(* What the radio does to its MAC. *)

(* Only the radio, and what is between it and the MAC, differ. *)
Retuned(s, q) ==
    /\ q \in StationType /\ q.err = s.err /\ q.timer = s.timer /\ SameCount(s, q)
    /\ q.address = s.address /\ q.queue = s.queue /\ q.answering = s.answering
    /\ q.up = s.up /\ q.done = s.done

(* The same, when the MAC has taken note of it. *)
Tunes(s, t) ==
    /\ t.address = s.address /\ t.queue = s.queue /\ t.answering = s.answering
    /\ t.up = s.up /\ t.done = s.done /\ t.retryCounter = s.retryCounter
    /\ \/ Unmoved(s, t)
       \/ s.fsm \in {"DEFER", "WAITDIFS", "BACKOFF"} /\ t.fsm \in Idling /\ t.timer["DIFS"] # 0

LEMMA RetunedIs ==
  ASSUME NEW s, Good(s), NEW q, Retuned(s, q)
  PROVE  Bounded(q) /\ OwnTimers(q) /\ Placed(q)
PROOF
  <1>1. Bounded(q) BY DEF Good, Bounded, Retuned, SameCount
  <1>2. OwnTimers(q) BY DEF Good, OwnTimers, Retuned, SameCount, Scheduled
  <1>3. Placed(q) BY DEF Good, Placed, Retuned, SameCount, Cleared, Current
  <1> QED BY <1>1, <1>2, <1>3

LEMMA NotifiedGood ==
  ASSUME NEW s, Good(s), NEW q, Retuned(s, q), NEW state \in {"IDLE", "RECV", "TRANSMIT"},
         NEW r, r = [q EXCEPT !.radio = state], Coupled(r), Passing(r),
         NEW t, t = receiveChangeNotification(q, state)
  PROVE  /\ Good(t) /\ Tunes(s, t) /\ t.radio = state /\ t.receiving = q.receiving
         /\ t.down = q.down /\ t.arrived = q.arrived
PROOF
  <1>1. Bounded(q) /\ OwnTimers(q) /\ Placed(q) BY RetunedIs
  <1>2. Good(t) /\ Notices(r, t) BY <1>1, RadioGood
  <1>3. /\ r.timer = q.timer /\ SameCount(q, r) /\ r.address = q.address /\ r.queue = q.queue
        /\ r.answering = q.answering /\ r.up = q.up /\ r.done = q.done
        /\ r.radio = state /\ r.receiving = q.receiving /\ r.down = q.down /\ r.arrived = q.arrived
    BY DEF Retuned, StationType, SameCount
  <1>4. Tunes(s, t)
    BY <1>2, <1>3 DEF Retuned, Tunes, Notices, SameCount, SameRadio, SameFrames, Unmoved
  <1> QED BY <1>2, <1>3, <1>4 DEF Notices, SameRadio, SameFrames

LEMMA UnnotifiedGood ==
  ASSUME NEW s, Good(s), NEW q, Retuned(s, q), q.radio = s.radio, Coupled(q), Passing(q)
  PROVE  Good(q) /\ Tunes(s, q)
PROOF
  <1>1. Bounded(q) /\ OwnTimers(q) /\ Placed(q) BY RetunedIs
  <1>2. Senses(q) BY DEF Good, Senses, isMediumFree, Scheduled, Retuned, SameCount
  <1>3. Tunes(s, q) BY DEF Tunes, Retuned, SameCount, Unmoved
  <1> QED BY <1>1, <1>2, <1>3 DEF Good

LEMMA TunedHolds ==
  ASSUME NEW s, NEW D, Holds(s, D), Rested(s), NEW t, Tunes(s, t),
         t.down \in {s.down, None}, t.arrived # None => t.arrived.frame \in D \cup ControlFrame
  PROVE  Holds(t, D) /\ Rested(t)
  BY DEF Holds, Rested, Tunes

Sending(s) ==
    receiveChangeNotification([Require(s, s.radio # "TRANSMIT") EXCEPT
        !.receiving = None, !.garbled = FALSE, !.down = None], "TRANSMIT")

LEMMA RadioSendsGood ==
  ASSUME NEW s, Good(s), s.down # None,
         NEW t, t = Sending(s)
  PROVE  /\ Good(t) /\ Tunes(s, t) /\ t.radio = "TRANSMIT" /\ t.receiving = None
         /\ t.down = None /\ t.arrived = None /\ s.arrived = None /\ s.fsm # "WAITSIFS"
         /\ s.radio # "TRANSMIT"
PROOF
  <1>1. s \in StationType /\ s.err = FALSE BY DEF Good, Bounded
  <1>2. s.arrived = None /\ s.fsm # "WAITSIFS" /\ s.radio # "TRANSMIT"
    BY DEF Good, Coupled, Passing
  <1>3. Require(s, s.radio # "TRANSMIT") = s
    <2>1. Require(s, s.radio # "TRANSMIT") = [s EXCEPT !.err = FALSE]
      BY <1>1, <1>2 DEF Require
    <2> QED BY <1>1, <2>1, RequireIs
  <1>4. PICK q : q = [s EXCEPT !.receiving = None, !.garbled = FALSE, !.down = None] OBVIOUS
  <1>5. t = receiveChangeNotification(q, "TRANSMIT") BY <1>3, <1>4 DEF Sending
  <1>6. q \in StationType BY <1>1, <1>4 DEF StationType
  <1>7. /\ Retuned(s, q) /\ q.receiving = None /\ q.down = None /\ q.arrived = s.arrived
    BY <1>1, <1>4, <1>6 DEF StationType, Retuned, SameCount
  <1>8. PICK r : r = [q EXCEPT !.radio = "TRANSMIT"] OBVIOUS
  <1>9. /\ r.radio = "TRANSMIT" /\ r.receiving = None /\ r.down = None /\ r.arrived = None
        /\ r.fsm = s.fsm
    BY <1>2, <1>6, <1>7, <1>8 DEF StationType, Retuned, SameCount
  <1>10. Coupled(r) /\ Passing(r) BY <1>2, <1>9 DEF Coupled, Passing
  <1> QED BY <1>2, <1>5, <1>7, <1>8, <1>10, NotifiedGood

LEMMA AirtimeOf ==
  ASSUME NEW f \in Frame
  PROVE  f.airtime \in Duration
PROOF
  <1>1. CASE f \in DataFrame BY <1>1 DEF DataFrame
  <1>2. CASE f \in RtsFrame BY <1>2 DEF RtsFrame
  <1>3. CASE f \in Answer BY <1>3 DEF Answer
  <1> QED BY <1>1, <1>2, <1>3 DEF Frame, ControlFrame

LEMMA RadioSendsSense ==
  ASSUME SenseInv, NEW n \in Station, RadioSends(n)
  PROVE  SenseInv' /\ station'[n].down = None /\ \A m \in Station \ {n} : station'[m] = station[m]
PROOF
  <1>1. PICK x : x = station[n] OBVIOUS
  <1>2. PICK t : t = Sending(x) OBVIOUS
  <1>3. PICK b : b = [frame |-> x.down, left |-> x.down.airtime, new |-> TRUE] OBVIOUS
  <1>4. /\ x.down # None /\ station' = [station EXCEPT ![n] = t] /\ air' = [air EXCEPT ![n] = b]
        /\ waiting' = waiting /\ scenario' = scenario /\ got' = got /\ attempts' = attempts
        /\ outcome' = outcome
    BY <1>1, <1>2, <1>3 DEF RadioSends, Sending
  <1>5. PICK D : D = Of(scenario.frames) OBVIOUS
  <1>6. Good(x) /\ Rested(x) /\ x.address = n /\ Holds(x, D)
    BY <1>1, <1>5 DEF SenseInv, StationsOk
  <1>7. /\ Good(t) /\ Tunes(x, t) /\ t.radio = "TRANSMIT" /\ t.receiving = None
        /\ t.down = None /\ t.arrived = None /\ x.arrived = None /\ x.fsm # "WAITSIFS"
        /\ x.radio # "TRANSMIT"
    BY <1>2, <1>4, <1>6, RadioSendsGood
  <1>8. x.down \in D \cup ControlFrame /\ x.down \in Frame /\ x.down.airtime \in Nat /\ x.down.airtime > SIFS
    <2>1. x.down \in D \cup ControlFrame BY <1>4, <1>6 DEF Holds
    <2>2. x.down \in Frame BY <1>4, <1>6 DEF Good, Bounded, StationType
    <2>3. x.down.airtime \in Duration BY <2>2, AirtimeOf
    <2> QED BY <2>1, <2>2, <2>3 DEF Duration
  <1>9. b \in OnAir /\ b # None /\ b.frame = x.down /\ b.left > SIFS /\ b.left > 0 /\ b.new = TRUE
    <2>1. b \in OnAir BY <1>3, <1>8 DEF OnAir
    <2>2. b # None BY <2>1, ScenarioAssumption
    <2>3. SIFS \in Nat BY Positive
    <2> QED BY <1>3, <1>8, <2>2, <2>1, <2>3
  <1>10. air[n] = None BY <1>1, <1>7 DEF SenseInv, OnAirOk
  <1>11. /\ station'[n] = t /\ \A m \in Station \ {n} : station'[m] = station[m]
         /\ air'[n] = b /\ \A m \in Station \ {n} : air'[m] = air[m]
    BY <1>4 DEF SenseInv, TypeOK
  <1>12. TypeOK'
    <2>1. t \in StationType BY <1>7 DEF Good, Bounded
    <2>2. station' \in [Station -> StationType] BY <1>4, <2>1 DEF SenseInv, TypeOK
    <2>3. air' \in [Station -> OnAir \cup {None}] BY <1>4, <1>9 DEF SenseInv, TypeOK
    <2> QED BY <1>4, <2>2, <2>3 DEF SenseInv, TypeOK, FrameId
  <1>13. ScenarioOk' BY <1>4 DEF SenseInv, ScenarioOk, FrameId
  <1>14. StationsOk'
    <2>1. Holds(t, D) /\ Rested(t) BY <1>6, <1>7, TunedHolds
    <2>2. t.address = n BY <1>6, <1>7 DEF Tunes
    <2> QED BY <1>4, <1>5, <1>7, <1>11, <2>1, <2>2 DEF SenseInv, StationsOk
  <1>15. OnAirOk'
    BY <1>4, <1>5, <1>7, <1>8, <1>9, <1>11 DEF SenseInv, OnAirOk
  <1>16. HearingOk'
    <2>1. Ending' = Ending BY <1>9, <1>10, <1>11 DEF Ending
    <2>2. ASSUME NEW m \in Station PROVE ReceivesOk(m)'
      <3>1. CASE m = n BY <1>7, <1>11, <3>1 DEF ReceivesOk
      <3>2. CASE m # n
        BY <1>4, <1>10, <1>11, <3>2 DEF SenseInv, TypeOK, StationType, HearingOk, ReceivesOk, Hears
      <3> QED BY <3>1, <3>2
    <2>3. ASSUME NEW m \in Station PROVE SilenceOk(m)'
      BY <1>4, <1>7, <1>9, <1>11 DEF SenseInv, HearingOk, SilenceOk, Hears
    <2>4. ASSUME NEW m \in Station, station'[m].arrived # None PROVE Ending' = {}
      BY <1>7, <1>11, <2>1, <2>4 DEF SenseInv, HearingOk
    <2> QED BY <2>2, <2>3, <2>4 DEF HearingOk
  <1> QED BY <1>7, <1>11, <1>12, <1>13, <1>14, <1>15, <1>16 DEF SenseInv

(* A frame reaches a station whose MAC has nothing to do with its radio.   *)
LEMMA ArrivedGood ==
  ASSUME NEW s, Good(s), s.down = None, s.arrived = None, NEW n, NEW first \in Station,
         NEW t, t = Arrived(s, n, first)
  PROVE  /\ Good(t) /\ Tunes(s, t) /\ t.down = None /\ t.arrived = None
         /\ t.radio = "TRANSMIT" <=> s.radio = "TRANSMIT"
         /\ t.radio = "IDLE" => s.radio = "IDLE" /\ HeardBy(n) = {}
         /\ t.receiving = s.receiving \/ (t.receiving = first /\ HeardBy(n) # {})
PROOF
  <1>1. s \in StationType BY DEF Good, Bounded
  <1>2. CASE HeardBy(n) = {} \/ s.radio = "TRANSMIT"
    <2>1. t = s BY <1>2 DEF Arrived
    <2> QED BY <1>2, <2>1 DEF Tunes, Unmoved
  <1>3. CASE HeardBy(n) # {} /\ s.radio # "TRANSMIT" /\ s.receiving # None
    <2>1. t = [s EXCEPT !.garbled = TRUE] BY <1>3 DEF Arrived
    <2>2. t \in StationType BY <1>1, <2>1 DEF StationType
    <2>3. /\ Retuned(s, t) /\ t.radio = s.radio /\ t.receiving = s.receiving
          /\ t.down = None /\ t.arrived = None
      BY <1>1, <2>1, <2>2 DEF StationType, Retuned, SameCount
    <2>4. Coupled(t) /\ Passing(t)
      BY <2>3 DEF Good, Coupled, Passing, Retuned, SameCount
    <2>5. Good(t) /\ Tunes(s, t) BY <2>3, <2>4, UnnotifiedGood
    <2> QED BY <1>3, <2>3, <2>5 DEF Good, Coupled
  <1>4. CASE HeardBy(n) # {} /\ s.radio # "TRANSMIT" /\ s.receiving = None
    <2>1. Collides(n, first) \in BOOLEAN BY DEF Collides
    <2>2. PICK q : q = [s EXCEPT !.receiving = first, !.garbled = Collides(n, first)] OBVIOUS
    <2>3. q \in StationType BY <1>1, <2>1, <2>2 DEF StationType
    <2>4. /\ Retuned(s, q) /\ q.radio = s.radio /\ q.receiving = first
          /\ q.down = None /\ q.arrived = None
      BY <1>1, <2>2, <2>3 DEF StationType, Retuned, SameCount
    <2>5. CASE s.radio = "IDLE"
      <3>1. t = receiveChangeNotification(q, "RECV") BY <1>4, <2>2, <2>5 DEF Arrived
      <3>2. PICK r : r = [q EXCEPT !.radio = "RECV"] OBVIOUS
      <3>3. /\ r.radio = "RECV" /\ r.receiving = first /\ r.down = None /\ r.arrived = None
            /\ r.fsm = s.fsm /\ r.answering = s.answering /\ r.timer = s.timer
        BY <2>3, <2>4, <3>2 DEF StationType, Retuned, SameCount
      <3>4. Coupled(r) /\ Passing(r) BY <3>3 DEF Good, Coupled, Passing
      <3>5. Good(t) /\ Tunes(s, t) /\ t.radio = "RECV" /\ t.receiving = first
            /\ t.down = None /\ t.arrived = None
        BY <2>4, <3>1, <3>2, <3>4, NotifiedGood
      <3> QED BY <1>4, <3>5
    <2>6. CASE s.radio # "IDLE"
      <3>1. t = q BY <1>4, <2>2, <2>6 DEF Arrived
      <3>2. s.radio = "RECV" BY <1>1, <1>4, <2>6 DEF StationType
      <3>3. Coupled(q) /\ Passing(q)
        BY <2>4, <3>2 DEF Good, Coupled, Passing, Retuned, SameCount
      <3>4. Good(q) /\ Tunes(s, q) BY <2>4, <3>3, UnnotifiedGood
      <3> QED BY <1>4, <2>4, <3>1, <3>2, <3>4
    <2> QED BY <2>5, <2>6
  <1> QED BY <1>2, <1>3, <1>4

LEMMA FramesArriveSense ==
  ASSUME SenseInv, FramesArrive
  PROVE  /\ SenseInv'
         /\ \A n \in Station : /\ station'[n].down = None /\ station[n].down = None
                               /\ station'[n].arrived = None /\ station[n].arrived = None
                               /\ Tunes(station[n], station'[n])
PROOF
  <1>1. PICK first \in [Station -> Station] :
            /\ \A n \in Station : first[n] \in HeardBy(n) \/ (HeardBy(n) = {} /\ first[n] = n)
            /\ station' = [n \in Station |-> Arrived(station[n], n, first[n])]
    BY DEF FramesArrive
  <1>2. /\ Ending = {} /\ Due = {} /\ Pending = {}
        /\ air' = [n \in Station |-> IF n \in New THEN [air[n] EXCEPT !.new = FALSE] ELSE air[n]]
        /\ waiting' = waiting /\ scenario' = scenario /\ got' = got /\ attempts' = attempts
        /\ outcome' = outcome
    BY DEF FramesArrive, Quiet
  <1>3. PICK D : D = Of(scenario.frames) OBVIOUS
  <1>4. ASSUME NEW n \in Station
        PROVE  /\ Good(station[n]) /\ Rested(station[n]) /\ station[n].address = n
               /\ Holds(station[n], D) /\ station[n].down = None /\ station[n].arrived = None
    BY <1>2, <1>3 DEF SenseInv, StationsOk, Pending
  <1>5. ASSUME NEW n \in Station
        PROVE  /\ air[n] = None <=> air'[n] = None
               /\ air[n] # None => /\ air[n] \in OnAir /\ air'[n] \in OnAir
                                   /\ air'[n].frame = air[n].frame /\ air'[n].left = air[n].left
                                   /\ air'[n].new = FALSE
    <2>1. CASE n \in New
      <3>1. air[n] \in OnAir /\ air[n] # None BY <2>1 DEF SenseInv, TypeOK, New
      <3>2. PICK a : a = air[n] OBVIOUS
      <3>3. air'[n] = [a EXCEPT !.new = FALSE] BY <1>2, <2>1, <3>2
      <3>4. air'[n] \in OnAir /\ air'[n].frame = a.frame /\ air'[n].left = a.left /\ air'[n].new = FALSE
        BY <3>1, <3>2, <3>3 DEF OnAir
      <3> QED BY <3>1, <3>2, <3>4, ScenarioAssumption
    <2>2. CASE n \notin New
      <3>1. air'[n] = air[n] BY <1>2, <2>2
      <3>2. air[n] # None => air[n] \in OnAir BY DEF SenseInv, TypeOK
      <3>3. air[n] # None => air[n].new = FALSE BY <2>2, <3>2 DEF New, OnAir
      <3> QED BY <3>1, <3>2, <3>3
    <2> QED BY <2>1, <2>2
  <1>6. ASSUME NEW n \in Station
        PROVE  LET t == station'[n] IN
               /\ Good(t) /\ Tunes(station[n], t) /\ t.down = None /\ t.arrived = None
               /\ t.radio = "TRANSMIT" <=> station[n].radio = "TRANSMIT"
               /\ t.radio = "IDLE" => station[n].radio = "IDLE" /\ HeardBy(n) = {}
               /\ t.receiving = station[n].receiving \/ (t.receiving = first[n] /\ HeardBy(n) # {})
    <2>1. first[n] \in Station BY <1>1
    <2>2. PICK t : t = Arrived(station[n], n, first[n]) OBVIOUS
    <2>3. station'[n] = t BY <1>1, <2>2
    <2> QED BY <1>4, <2>1, <2>2, <2>3, ArrivedGood
  <1>7. TypeOK'
    <2>1. station' \in [Station -> StationType]
      <3>1. \A n \in Station : station'[n] \in StationType BY <1>6 DEF Good, Bounded
      <3> QED BY <1>1, <3>1
    <2>2. air' \in [Station -> OnAir \cup {None}]
      <3>1. \A n \in Station : air'[n] \in OnAir \cup {None} BY <1>5
      <3>2. DOMAIN air' = Station /\ air' = [n \in Station |-> air'[n]] BY <1>2
      <3> QED BY <3>1, <3>2
    <2> QED BY <1>2, <2>1, <2>2 DEF SenseInv, TypeOK, FrameId
  <1>8. ScenarioOk' BY <1>2 DEF SenseInv, ScenarioOk, FrameId
  <1>9. StationsOk'
    <2>1. ASSUME NEW n \in Station
          PROVE  LET t == station'[n] IN Good(t) /\ Rested(t) /\ t.address = n /\ Holds(t, D)
      <3>1. Holds(station'[n], D) /\ Rested(station'[n]) BY <1>4, <1>6, TunedHolds
      <3>2. station'[n].address = n BY <1>4, <1>6 DEF Tunes
      <3> QED BY <1>6, <3>1, <3>2
    <2> QED BY <1>2, <1>3, <2>1 DEF StationsOk
  <1>10. OnAirOk' BY <1>2, <1>5, <1>6 DEF SenseInv, OnAirOk
  <1>11. HearingOk'
    <2>1. ASSUME NEW n \in Station PROVE ReceivesOk(n)'
      <3>1. PICK t : t = station'[n] OBVIOUS
      <3>2. SUFFICES ASSUME t.receiving # None
                     PROVE  /\ air'[t.receiving] # None /\ air'[t.receiving].new = FALSE
                            /\ Hears(t.receiving, n)
                            /\ t.fsm = "WAITSIFS" => air'[t.receiving].left > t.timer["SIFS"]
        BY <1>2, <1>6, <3>1 DEF ReceivesOk, Hears
      <3>3. t.fsm = "WAITSIFS" => t.timer["SIFS"] = station[n].timer["SIFS"] /\ station[n].fsm = "WAITSIFS"
        BY <1>6, <3>1 DEF Tunes, Unmoved, Idling
      <3>4. t.receiving \in Station BY <1>6, <3>1, <3>2 DEF Good, Bounded, StationType
      <3>5. CASE t.receiving = station[n].receiving
        BY <1>5, <3>2, <3>3, <3>4, <3>5 DEF SenseInv, HearingOk, ReceivesOk
      <3>6. CASE t.receiving = first[n] /\ HeardBy(n) # {}
        <4>1. first[n] \in New /\ Hears(first[n], n) BY <1>1, <3>6 DEF HeardBy
        <4>2. air[first[n]] # None /\ air[first[n]].left > SIFS
          BY <3>4, <3>6, <4>1 DEF New, SenseInv, OnAirOk
        <4>3. t.fsm = "WAITSIFS" => t.timer["SIFS"] <= SIFS
          BY <1>4, <3>3 DEF Good, Passing
        <4>4. t.timer["SIFS"] \in Int /\ SIFS \in Int /\ air[first[n]].left \in Int
          <5>1. t \in StationType /\ "SIFS" \in TimerName
            BY <1>6, <3>1 DEF Good, Bounded, TimerName
          <5>2. air[first[n]] \in OnAir BY <1>5, <3>4, <3>6, <4>2
          <5> QED BY <5>1, <5>2, Positive DEF StationType, OnAir
        <4>5. PICK k \in Station : k = t.receiving BY <3>4
        <4>6. air'[k] # None /\ air'[k].new = FALSE /\ air'[k].left = air[k].left
          BY <1>5, <3>6, <4>2, <4>5
        <4>7. t.fsm = "WAITSIFS" => air[k].left > t.timer["SIFS"]
          BY <3>6, <4>2, <4>3, <4>4, <4>5
        <4> QED BY <3>6, <4>1, <4>5, <4>6, <4>7
      <3> QED BY <1>6, <3>1, <3>5, <3>6
    <2>2. ASSUME NEW n \in Station PROVE SilenceOk(n)'
      <3>1. SUFFICES ASSUME station'[n].radio = "IDLE", NEW m \in Station, Hears(m, n), air'[m] # None
                     PROVE  FALSE
        BY <1>2 DEF SilenceOk, Hears
      <3>2. station[n].radio = "IDLE" /\ HeardBy(n) = {} BY <1>6, <3>1
      <3>3. air[m] # None BY <1>5, <3>1
      <3>4. air[m].new = TRUE BY <3>1, <3>2, <3>3 DEF SenseInv, HearingOk, SilenceOk
      <3> QED BY <3>1, <3>2, <3>3, <3>4 DEF HeardBy, New
    <2> QED BY <1>6, <2>1, <2>2 DEF HearingOk
  <1> QED BY <1>4, <1>6, <1>7, <1>8, <1>9, <1>10, <1>11 DEF SenseInv

(* Frames end at a station; a frame it received is on its way to the MAC.  *)
LEMMA AfterIs ==
  ASSUME NEW s, s.radio \in {"IDLE", "RECV", "TRANSMIT"}, NEW n, NEW after, after = RadioAfter(s, n)
  PROVE  /\ after \in {"IDLE", "RECV", "TRANSMIT"}
         /\ after = "TRANSMIT" <=> s.radio = "TRANSMIT" /\ n \notin Ending
         /\ after = "IDLE" => s.radio = "IDLE" \/ Noise(n) = {}
         /\ s.radio = "RECV" /\ Noise(n) # {} => after = "RECV"
  BY DEF RadioAfter

Handed(s, a) == [s EXCEPT !.receiving = None, !.garbled = FALSE, !.arrived = a]

LEMMA HandedIs ==
  ASSUME NEW s \in StationType, NEW a \in Received, NEW q, q = Handed(s, a)
  PROVE  /\ q \in StationType /\ Retuned(s, q) /\ q.radio = s.radio /\ q.receiving = None
         /\ q.down = s.down /\ q.arrived = a
PROOF
  <1>1. q \in StationType
    <2>1. PICK p : p = [s EXCEPT !.receiving = None, !.garbled = FALSE] OBVIOUS
    <2>2. p \in StationType BY <2>1, FALSE \in BOOLEAN DEF StationType
    <2>3. q = [p EXCEPT !.arrived = a] BY <2>1 DEF Handed
    <2> QED BY <2>2, <2>3 DEF StationType
  <1> QED BY <1>1 DEF StationType, Retuned, SameCount, Handed

LEMMA SilencedGood ==
  ASSUME NEW s, Good(s), s.arrived = None, NEW n, NEW spoilt,
         s.receiving \in Ending =>
            air[s.receiving].frame \in Frame /\ s.down = None /\ s.fsm # "WAITSIFS",
         s.receiving # None /\ s.receiving \notin Ending => Noise(n) # {},
         NEW t, t = Silenced(s, n, spoilt), None \notin Ending
  PROVE  /\ Good(t) /\ Tunes(s, t) /\ t.down = s.down /\ t.radio = RadioAfter(s, n)
         /\ s.receiving \in Ending =>
               t.receiving = None /\ t.arrived # None /\ t.arrived.frame = air[s.receiving].frame
         /\ s.receiving \notin Ending => t.receiving = s.receiving /\ t.arrived = None
PROOF
  <1>1. s \in StationType BY DEF Good, Bounded
  <1>2. PICK after : after = RadioAfter(s, n) OBVIOUS
  <1>3. /\ after \in {"IDLE", "RECV", "TRANSMIT"}
        /\ after = "TRANSMIT" => s.radio = "TRANSMIT"
        /\ s.radio = "RECV" /\ Noise(n) # {} => after = "RECV"
    <2>1. s.radio \in {"IDLE", "RECV", "TRANSMIT"} BY <1>1 DEF StationType
    <2> QED BY <1>2, <2>1, AfterIs
  <1>4. CASE s.receiving \in Ending
    <2>1. s.receiving # None /\ s.radio = "RECV" /\ s.fsm \notin {"WAITDIFS", "BACKOFF"}
      BY <1>4 DEF Good, Coupled, Senses, isMediumFree
    <2>2. s.timer["DIFS"] # 0 BY <2>1 DEF Good, OwnTimers, Scheduled
    <2>3. air[s.receiving].frame \in Frame BY <1>4
    <2>4. PICK a : a = [frame |-> air[s.receiving].frame, bad |-> s.garbled \/ n \in spoilt] OBVIOUS
    <2>5. a \in Received /\ a # None /\ a.frame = air[s.receiving].frame
      <3>1. a \in Received /\ a.frame = air[s.receiving].frame
        <4>1. s.garbled \in BOOLEAN BY <1>1 DEF StationType
        <4>2. CASE s.garbled = TRUE \/ n \in spoilt
          <5>1. a = [frame |-> air[s.receiving].frame, bad |-> TRUE] BY <2>4, <4>2
          <5> QED BY <2>3, <5>1 DEF Received
        <4>3. CASE s.garbled = FALSE /\ n \notin spoilt
          <5>1. a = [frame |-> air[s.receiving].frame, bad |-> FALSE] BY <2>4, <4>3
          <5> QED BY <2>3, <5>1 DEF Received
        <4> QED BY <4>1, <4>2, <4>3
      <3>2. a # None BY <3>1, NoneAssumption
      <3> QED BY <3>1, <3>2
    <2>6. PICK q : q = Handed(s, a) OBVIOUS
    <2>7. /\ q \in StationType /\ Retuned(s, q) /\ q.radio = s.radio /\ q.receiving = None
          /\ q.down = s.down /\ q.arrived = a
      <3>1. s \in StationType /\ a \in Received BY <1>1, <2>5
      <3> QED BY <2>6, <3>1, HandedIs
    <2>8. Retuned(s, q) /\ q.radio = s.radio /\ q.receiving = None /\ q.down = None /\ q.arrived = a
      BY <1>4, <2>7
    <2>9. t = IF after = s.radio THEN q ELSE receiveChangeNotification(q, after)
      BY <1>2, <1>4, <2>4, <2>6 DEF Silenced, Handed
    <2>10. PICK r : r = [q EXCEPT !.radio = after] OBVIOUS
    <2>11. /\ r.radio = after /\ r.receiving = None /\ r.down = None /\ r.arrived = a
           /\ r.fsm = s.fsm /\ r.timer = s.timer
      BY <1>3, <2>7, <2>8, <2>10 DEF StationType, Retuned, SameCount
    <2>12. Coupled(r) /\ Passing(r) BY <1>3, <1>4, <2>1, <2>2, <2>11 DEF Coupled, Passing
    <2>13. CASE after # s.radio
      <3>1. t = receiveChangeNotification(q, after) BY <2>9, <2>13
      <3>2. /\ Good(t) /\ Tunes(s, t) /\ t.radio = after /\ t.receiving = q.receiving
            /\ t.down = q.down /\ t.arrived = q.arrived
        BY <1>3, <2>8, <2>10, <2>12, <3>1, NotifiedGood
      <3> QED BY <1>2, <1>4, <2>5, <2>8, <3>2
    <2>14. CASE after = s.radio
      <3>1. Coupled(q) /\ Passing(q)
        BY <1>4, <2>1, <2>2, <2>8 DEF Coupled, Passing, Retuned, SameCount
      <3>2. Good(q) /\ Tunes(s, q) BY <2>8, <3>1, UnnotifiedGood
      <3> QED BY <1>2, <1>4, <2>5, <2>8, <2>9, <2>14, <3>2
    <2> QED BY <2>13, <2>14
  <1>5. CASE s.receiving \notin Ending
    <2>1. t = IF after = s.radio THEN s ELSE receiveChangeNotification(s, after)
      BY <1>2, <1>5 DEF Silenced
    <2>2. CASE after = s.radio
      BY <1>2, <1>5, <2>1, <2>2 DEF Tunes, Unmoved
    <2>3. CASE after # s.radio
      <3>1. Retuned(s, s) BY <1>1 DEF Retuned, SameCount
      <3>2. PICK r : r = [s EXCEPT !.radio = after] OBVIOUS
      <3>3. /\ r.radio = after /\ r.receiving = s.receiving /\ r.down = s.down /\ r.arrived = None
            /\ r.fsm = s.fsm /\ r.timer = s.timer /\ r.answering = s.answering
        BY <1>1, <1>3, <3>2 DEF StationType
      <3>4. Coupled(r) /\ Passing(r)
        BY <1>3, <1>5, <3>3 DEF Good, Coupled, Passing
      <3>5. t = receiveChangeNotification(s, after) BY <2>1, <2>3
      <3>6. /\ Good(t) /\ Tunes(s, t) /\ t.radio = after /\ t.receiving = s.receiving
            /\ t.down = s.down /\ t.arrived = s.arrived
        BY <1>3, <3>1, <3>2, <3>4, <3>5, NotifiedGood
      <3> QED BY <1>2, <1>5, <3>6
    <2> QED BY <2>2, <2>3
  <1> QED BY <1>4, <1>5

LEMMA ErrorsLeft ==
  ASSUME SenseInv, NEW spoilt \in SUBSET Station, Cardinality(spoilt) <= scenario.errors,
         scenario' = [scenario EXCEPT !.errors = @ - Cardinality(spoilt)]
  PROVE  ScenarioOk' /\ scenario'.frames = scenario.frames /\ scenario'.hears = scenario.hears
PROOF
  <1>1. Cardinality(spoilt) \in Nat
    BY ScenarioAssumption, FS_Subset, FS_CardinalityType
  <1>2. PICK k \in Nat : k = scenario.errors - Cardinality(spoilt)
    BY <1>1 DEF SenseInv, ScenarioOk
  <1>3. scenario' = [scenario EXCEPT !.errors = k] BY <1>2
  <1>4. /\ scenario' \in [hears : SUBSET (Station \X Station), frames : Seq(DataFrame), errors : Nat]
        /\ scenario'.frames = scenario.frames /\ scenario'.hears = scenario.hears
    BY <1>3 DEF SenseInv, ScenarioOk
  <1> QED BY <1>4 DEF SenseInv, ScenarioOk, FrameId

LEMMA FramesEndSense ==
  ASSUME SenseInv, FramesEnd
  PROVE  /\ SenseInv' /\ Ending' = {}
         /\ \A n \in Station :
               /\ station'[n].down = station[n].down /\ Tunes(station[n], station'[n])
               /\ station[n].arrived = None
               /\ station'[n].arrived # None =>
                     /\ station[n].receiving \in Ending
                     /\ station'[n].arrived.frame = air[station[n].receiving].frame
PROOF
  <1>1. PICK spoilt \in SUBSET Station :
            /\ Cardinality(spoilt) <= scenario.errors
            /\ scenario' = [scenario EXCEPT !.errors = @ - Cardinality(spoilt)]
            /\ station' = [n \in Station |-> Silenced(station[n], n, spoilt)]
    BY DEF FramesEnd
  <1>2. /\ Ending # {} /\ air' = [n \in Station |-> IF n \in Ending THEN None ELSE air[n]]
        /\ waiting' = waiting /\ got' = got /\ attempts' = attempts /\ outcome' = outcome
    BY DEF FramesEnd
  <1>3. ScenarioOk' /\ scenario'.frames = scenario.frames /\ scenario'.hears = scenario.hears
    BY <1>1, ErrorsLeft
  <1>4. PICK D : D = Of(scenario.frames) OBVIOUS
  <1>5. None \notin Ending /\ Ending \subseteq Station BY MacAssumption DEF Ending
  <1>6. ASSUME NEW n \in Station
        PROVE  /\ Good(station[n]) /\ Rested(station[n]) /\ station[n].address = n
               /\ Holds(station[n], D) /\ station[n].arrived = None
               /\ air'[n] = IF n \in Ending THEN None ELSE air[n]
               /\ air[n] # None => air[n] \in OnAir
    BY <1>2, <1>4 DEF SenseInv, StationsOk, HearingOk, TypeOK
  <1>7. ASSUME NEW n \in Station
        PROVE  LET s == station[n]  t == station'[n] IN
               /\ s.receiving \in Ending => air[s.receiving].frame \in Frame
               /\ s.receiving # None /\ s.receiving \notin Ending => Noise(n) # {}
               /\ Good(t) /\ Tunes(s, t) /\ t.down = s.down /\ t.radio = RadioAfter(s, n)
               /\ s.receiving \in Ending =>
                     t.receiving = None /\ t.arrived # None /\ t.arrived.frame = air[s.receiving].frame
               /\ s.receiving \notin Ending => t.receiving = s.receiving /\ t.arrived = None
    <2>1. PICK s : s = station[n] OBVIOUS
    <2>2. PICK t : t = Silenced(s, n, spoilt) OBVIOUS
    <2>3. Good(s) /\ s.arrived = None BY <1>6, <2>1
    <2>4. s \in StationType BY <2>3 DEF Good, Bounded
    <2>5. s.receiving # None =>
             /\ s.receiving \in Station /\ air[s.receiving] # None /\ air[s.receiving].new = FALSE
             /\ Hears(s.receiving, n)
             /\ s.fsm = "WAITSIFS" => air[s.receiving].left > s.timer["SIFS"]
             /\ s.down # None => air[s.receiving].left > 0
      BY <2>1, <2>4 DEF SenseInv, HearingOk, ReceivesOk, StationType
    <2>6. s.receiving \in Ending =>
             air[s.receiving].frame \in Frame /\ s.down = None /\ s.fsm # "WAITSIFS"
      <3>1. SUFFICES ASSUME s.receiving \in Ending
                     PROVE air[s.receiving].frame \in Frame /\ s.down = None /\ s.fsm # "WAITSIFS"
        OBVIOUS
      <3>2. PICK k \in Station : k = s.receiving BY <1>5, <3>1
      <3>3. air[k] \in OnAir /\ air[k].left = 0 BY <1>6, <3>1, <3>2 DEF Ending
      <3>4. s.timer["SIFS"] \in Int /\ (s.fsm = "WAITSIFS" => s.timer["SIFS"] >= 0)
        <4>1. s.timer["SIFS"] \in Int /\ s.timer["SIFS"] >= -1
          BY <2>3 DEF Good, Bounded, StationType, TimerName
        <4>2. s.fsm = "WAITSIFS" => s.timer["SIFS"] # -1 BY <2>3 DEF Good, OwnTimers, Scheduled
        <4> QED BY <4>1, <4>2
      <3>5. k # None BY <3>2, MacAssumption
      <3> QED BY <2>5, <3>2, <3>3, <3>4, <3>5 DEF OnAir
    <2>7. s.receiving # None /\ s.receiving \notin Ending => Noise(n) # {}
      <3>1. s.receiving # None => s.receiving \notin New BY <2>5 DEF New
      <3> QED BY <2>5, <3>1 DEF Noise
    <2>8. /\ Good(t) /\ Tunes(s, t) /\ t.down = s.down /\ t.radio = RadioAfter(s, n)
          /\ s.receiving \in Ending =>
                t.receiving = None /\ t.arrived # None /\ t.arrived.frame = air[s.receiving].frame
          /\ s.receiving \notin Ending => t.receiving = s.receiving /\ t.arrived = None
      BY <1>5, <2>2, <2>3, <2>6, <2>7, SilencedGood
    <2>9. station'[n] = t BY <1>1, <2>1, <2>2
    <2> QED BY <2>1, <2>6, <2>7, <2>8, <2>9
  <1>8. Ending' = {} BY <1>6 DEF Ending
  <1>9. TypeOK'
    <2>1. station' \in [Station -> StationType]
      <3>1. \A n \in Station : station'[n] \in StationType BY <1>7 DEF Good, Bounded
      <3> QED BY <1>1, <3>1
    <2>2. air' \in [Station -> OnAir \cup {None}]
      BY <1>2, <1>6
    <2> QED BY <1>2, <1>3, <2>1, <2>2 DEF SenseInv, TypeOK, FrameId
  <1>10. StationsOk'
    <2>1. ASSUME NEW n \in Station
          PROVE  LET t == station'[n] IN Good(t) /\ Rested(t) /\ t.address = n /\ Holds(t, D)
      <3>1. station[n].receiving \in Ending => air[station[n].receiving].frame \in D \cup ControlFrame
        BY <1>4, <1>5 DEF Ending, SenseInv, OnAirOk
      <3>2. Holds(station'[n], D) /\ Rested(station'[n])
        BY <1>6, <1>7, <3>1, TunedHolds
      <3>3. station'[n].address = n BY <1>6, <1>7 DEF Tunes
      <3> QED BY <1>7, <3>2, <3>3
    <2> QED BY <1>3, <1>4, <2>1 DEF StationsOk
  <1>11. ASSUME NEW n \in Station
         PROVE  /\ station'[n].radio = "TRANSMIT" <=> station[n].radio = "TRANSMIT" /\ n \notin Ending
                /\ station'[n].radio = "IDLE" => station[n].radio = "IDLE" \/ Noise(n) = {}
    <2>1. station[n].radio \in {"IDLE", "RECV", "TRANSMIT"}
      BY <1>6 DEF Good, Bounded, StationType
    <2> QED BY <1>7, <2>1, AfterIs
  <1>12. OnAirOk'
    BY <1>3, <1>6, <1>11 DEF SenseInv, OnAirOk
  <1>13. HearingOk'
    <2>1. ASSUME NEW n \in Station PROVE ReceivesOk(n)'
      <3>1. PICK t : t = station'[n] OBVIOUS
      <3>2. SUFFICES ASSUME t.receiving # None
                     PROVE  /\ air'[t.receiving] # None /\ air'[t.receiving].new = FALSE
                            /\ Hears(t.receiving, n)
                            /\ t.fsm = "WAITSIFS" => air'[t.receiving].left > t.timer["SIFS"]
                            /\ t.down # None => air'[t.receiving].left > 0
        BY <1>3, <3>1 DEF ReceivesOk, Hears
      <3>3. t.fsm = "WAITSIFS" => t.timer["SIFS"] = station[n].timer["SIFS"] /\ station[n].fsm = "WAITSIFS"
        BY <1>7, <3>1 DEF Tunes, Unmoved, Idling
      <3>4. t.receiving \in Station BY <1>7, <3>1, <3>2 DEF Good, Bounded, StationType
      <3>5. t.receiving = station[n].receiving /\ t.receiving \notin Ending /\ t.down = station[n].down
        BY <1>7, <3>1, <3>2
      <3>6. PICK k \in Station : k = t.receiving BY <3>4
      <3>7. air'[k] = air[k] BY <1>6, <3>5, <3>6
      <3> QED BY <3>2, <3>3, <3>5, <3>6, <3>7 DEF SenseInv, HearingOk, ReceivesOk
    <2>2. ASSUME NEW n \in Station PROVE SilenceOk(n)'
      <3>1. SUFFICES ASSUME station'[n].radio = "IDLE", NEW m \in Station, Hears(m, n), air'[m] # None
                     PROVE  air'[m].new = TRUE
        BY <1>3 DEF SilenceOk, Hears
      <3>2. m \notin Ending /\ air'[m] = air[m] /\ air[m] # None BY <1>6, <3>1
      <3>3. CASE station[n].radio = "IDLE"
        BY <3>1, <3>2, <3>3 DEF SenseInv, HearingOk, SilenceOk
      <3>4. CASE Noise(n) = {}
        <4>1. m \in New BY <3>1, <3>2, <3>4 DEF Noise
        <4>2. air[m] \in OnAir /\ air[m].new BY <1>6, <3>2, <4>1 DEF New
        <4> QED BY <3>2, <4>2 DEF OnAir
      <3> QED BY <1>11, <3>1, <3>3, <3>4
    <2> QED BY <1>8, <2>1, <2>2 DEF HearingOk
  <1> QED BY <1>3, <1>6, <1>7, <1>8, <1>9, <1>10, <1>12, <1>13 DEF SenseInv

LEMMA LeastExists ==
  ASSUME NEW S \in SUBSET Nat, S # {}
  PROVE  \E m \in S : \A k \in S : m <= k
PROOF
  <1> DEFINE R == {p \in Nat \X Nat : p[1] < p[2]}
  <1>1. IsWellFoundedOn(R, Nat)
    BY NatLessThanWellFounded, Zenon DEF OpToRel
  <1>2. PICK m \in S : \A k \in S : ~(<<k, m>> \in R)
    <2>1. S \subseteq Nat OBVIOUS
    <2> HIDE DEF R
    <2> QED BY <1>1, <2>1, WFMin
  <1>3. ASSUME NEW k \in S PROVE m <= k
    <2> HIDE DEF R
    <2>1. S \subseteq Nat OBVIOUS
    <2>2. m \in Nat /\ k \in Nat BY <2>1
    <2>3. ~(<<k, m>> \in R) BY <1>2
    <2>4. k < m => <<k, m>> \in R BY <2>2 DEF R
    <2>5. ~(k < m) BY <2>3, <2>4
    <2> QED BY <2>2, <2>5
  <1> QED BY <1>3

LEMMA RemainingIs ==
  ASSUME SenseInv, Remaining # {}, NEW d \in 1 .. CHOOSE m \in Remaining : \A k \in Remaining : m <= k
  PROVE  /\ d \in Nat /\ d >= 1
         /\ \A n \in Station : air[n] # None => d <= air[n].left
         /\ \A n \in Station, e \in TimerName : Scheduled(station[n], e) => d <= station[n].timer[e]
PROOF
  <1>1. \A n \in Station : air[n] # None => air[n].left \in Remaining BY DEF Remaining
  <1>2. \A n \in Station, e \in TimerName : Scheduled(station[n], e) => station[n].timer[e] \in Remaining
    <2>1. SUFFICES ASSUME NEW n \in Station, NEW e \in TimerName, Scheduled(station[n], e)
                   PROVE station[n].timer[e] \in Remaining
      OBVIOUS
    <2>2. PICK p \in Station \X TimerName : p = <<n, e>> OBVIOUS
    <2>3. p[1] = n /\ p[2] = e BY <2>2
    <2>4. p \in {q \in Station \X TimerName : Scheduled(station[q[1]], q[2])}
      BY <2>1, <2>3, Zenon
    <2>5. station[n].timer[e] = station[p[1]].timer[p[2]] BY <2>2
    <2> QED BY <2>4, <2>5 DEF Remaining
  <1>3. Remaining \in SUBSET Nat
    <2>1. \A n \in Station : air[n] # None => air[n].left \in Nat
      BY DEF SenseInv, TypeOK, OnAir
    <2>2. \A n \in Station, e \in TimerName : Scheduled(station[n], e) => station[n].timer[e] \in Nat
      <3>1. SUFFICES ASSUME NEW n \in Station, NEW e \in TimerName, Scheduled(station[n], e)
                     PROVE station[n].timer[e] \in Nat
        OBVIOUS
      <3>2. station[n].timer[e] \in Int /\ station[n].timer[e] >= -1 /\ station[n].timer[e] # -1
        BY <3>1 DEF SenseInv, StationsOk, Good, Bounded, StationType, Scheduled
      <3> QED BY <3>2
    <2> QED BY <2>1, <2>2 DEF Remaining
  <1>4. PICK S : S = Remaining OBVIOUS
  <1>5. PICK m \in S : m = (CHOOSE k \in S : \A j \in S : k <= j) /\ \A k \in S : m <= k
    BY <1>3, <1>4, LeastExists
  <1>6. m \in Nat /\ d \in 1 .. m BY <1>3, <1>4, <1>5
  <1>7. ASSUME NEW k \in Remaining PROVE d <= k
    <2>1. k \in Nat /\ m <= k BY <1>3, <1>4, <1>5
    <2> QED BY <1>6, <2>1
  <1> QED BY <1>1, <1>2, <1>6, <1>7

(* Time passes at a station. *)
LEMMA TickedGood ==
  ASSUME NEW s, Good(s), s.down = None, s.arrived = None, \A e \in TimerName : s.timer[e] # 0,
         NEW d \in Nat, d >= 1, \A e \in TimerName : s.timer[e] # -1 => d <= s.timer[e],
         NEW t, t = [s EXCEPT !.timer = [e \in TimerName |-> IF @[e] = -1 THEN -1 ELSE @[e] - d]]
  PROVE  /\ Good(t) /\ SameRadio(s, t) /\ SameFrames(s, t) /\ SameCount(s, t)
         /\ \A e \in TimerName : t.timer[e] = IF s.timer[e] = -1 THEN -1 ELSE s.timer[e] - d
PROOF
  <1>1. s \in StationType /\ s.err = FALSE BY DEF Good, Bounded
  <1>2. \A e \in TimerName : s.timer[e] \in Int /\ s.timer[e] >= -1
    BY <1>1 DEF Good, Bounded, StationType
  <1>3. PICK time : time = [e \in TimerName |-> IF s.timer[e] = -1 THEN -1 ELSE s.timer[e] - d] OBVIOUS
  <1>4. /\ time \in [TimerName -> Int]
        /\ \A e \in TimerName : /\ time[e] = IF s.timer[e] = -1 THEN -1 ELSE s.timer[e] - d
                                /\ time[e] >= -1 /\ (time[e] = -1 <=> s.timer[e] = -1)
    BY <1>2, <1>3
  <1>5. t = [s EXCEPT !.timer = time] BY <1>3
  <1>6. /\ t \in StationType /\ t.timer = time /\ t.err = FALSE
        /\ SameRadio(s, t) /\ SameFrames(s, t) /\ SameCount(s, t)
    <2>1. t \in StationType BY <1>1, <1>4, <1>5 DEF StationType
    <2>2. t.timer = time /\ t.err = FALSE /\ SameRadio(s, t) /\ SameFrames(s, t) /\ SameCount(s, t)
      BY <1>1, <1>5, <2>1 DEF StationType, SameRadio, SameFrames, SameCount
    <2> QED BY <2>1, <2>2
  <1>7. \A e \in TimerName : Scheduled(t, e) <=> Scheduled(s, e)
    BY <1>4, <1>6 DEF Scheduled
  <1>8. {"SIFS", "DIFS", "Backoff", "Timeout", "Reserve", "MediumStateChange"} \subseteq TimerName
    BY DEF TimerName
  <1>9. Bounded(t)
    <2>1. s.timer["MediumStateChange"] = -1 BY <1>2, <1>8 DEF Good, Bounded
    <2> QED BY <1>4, <1>6, <1>8, <2>1 DEF Good, Bounded, SameCount
  <1>10. Coupled(t) BY <1>6 DEF Good, Coupled, SameRadio, SameFrames
  <1>11. OwnTimers(t) BY <1>6, <1>7, <1>8 DEF Good, OwnTimers, SameCount
  <1>12. Senses(t) BY <1>6, <1>7, <1>8 DEF Good, Senses, isMediumFree, SameCount, SameRadio
  <1>13. Placed(t)
    <2>1. t.fsm = "BACKOFF" => t.timer["Backoff"] <= t.backoffPeriod
      <3>1. s.backoffPeriod \in Int BY <1>1 DEF StationType
      <3>2. s.fsm = "BACKOFF" => s.timer["Backoff"] <= s.backoffPeriod /\ s.timer["Backoff"] # -1
        BY DEF Good, Placed, OwnTimers, Scheduled
      <3> QED BY <1>2, <1>4, <1>6, <1>8, <3>1, <3>2 DEF SameCount
    <2> QED BY <1>6, <2>1 DEF Good, Placed, SameCount, SameFrames, Cleared, Current
  <1>14. Passing(t)
    <2>1. s.fsm = "WAITSIFS" => t.timer["SIFS"] <= SIFS
      <3>1. s.fsm = "WAITSIFS" => s.timer["SIFS"] <= SIFS /\ s.timer["SIFS"] # -1
        BY DEF Good, Passing, OwnTimers, Scheduled
      <3>2. SIFS \in Int BY Positive
      <3> QED BY <1>2, <1>4, <1>6, <1>8, <3>1, <3>2
    <2> QED BY <1>6, <2>1 DEF Good, Passing, SameCount, SameFrames, SameRadio
  <1> QED BY <1>4, <1>6, <1>9, <1>10, <1>11, <1>12, <1>13, <1>14 DEF Good

LEMMA SameHolds ==
  ASSUME NEW s, NEW D, Holds(s, D), Rested(s), NEW t, SameRadio(s, t), SameFrames(s, t)
  PROVE  Holds(t, D) /\ Rested(t)
  BY DEF Holds, Rested, SameFrames, SameRadio

LEMMA TickSense ==
  ASSUME SenseInv, Tick
  PROVE  /\ SenseInv'
         /\ \E d \in Nat \ {0} :
               /\ \A n \in Station :
                     LET s == station[n]  t == station'[n] IN
                     /\ SameRadio(s, t) /\ SameFrames(s, t) /\ SameCount(s, t)
                     /\ s.down = None /\ s.arrived = None
                     /\ \A e \in TimerName : /\ s.timer[e] # 0
                                             /\ t.timer[e] = IF s.timer[e] = -1 THEN -1 ELSE s.timer[e] - d
               /\ \A n \in Station :
                     /\ air[n] = None <=> air'[n] = None
                     /\ air[n] # None => /\ air'[n].left = air[n].left - d
                                         /\ air'[n].frame = air[n].frame
PROOF
  <1>1. PICK d \in 1 .. CHOOSE m \in Remaining : \A k \in Remaining : m <= k :
            /\ station' = [n \in Station |-> [station[n] EXCEPT !.timer =
                   [t \in TimerName |-> IF @[t] = -1 THEN -1 ELSE @[t] - d]]]
            /\ air' = [n \in Station |-> IF air[n] = None THEN None ELSE [air[n] EXCEPT !.left = @ - d]]
    BY DEF Tick
  <1>2. /\ Quiet /\ New = {} /\ Remaining # {}
        /\ waiting' = waiting /\ scenario' = scenario /\ got' = got /\ attempts' = attempts
        /\ outcome' = outcome
    BY DEF Tick
  <1>3. /\ d \in Nat /\ d >= 1
        /\ \A n \in Station : air[n] # None => d <= air[n].left
        /\ \A n \in Station, e \in TimerName : Scheduled(station[n], e) => d <= station[n].timer[e]
    BY <1>2, RemainingIs
  <1>4. PICK D : D = Of(scenario.frames) OBVIOUS
  <1>5. ASSUME NEW n \in Station
        PROVE  /\ Good(station[n]) /\ Rested(station[n]) /\ station[n].address = n
               /\ Holds(station[n], D) /\ station[n].down = None /\ station[n].arrived = None
               /\ \A e \in TimerName : station[n].timer[e] # 0
    <2>1. \A e \in TimerName : station[n].timer[e] # 0
      <3>1. ASSUME NEW e \in TimerName, station[n].timer[e] = 0 PROVE FALSE
        <4>1. PICK p \in Station \X TimerName : p = <<n, e>> OBVIOUS
        <4>2. p[1] = n /\ p[2] = e BY <4>1
        <4>3. p \in Due BY <3>1, <4>2 DEF Due
        <4> QED BY <1>2, <4>3 DEF Quiet
      <3> QED BY <3>1
    <2>2. station[n].down = None /\ station[n].arrived = None BY <1>2 DEF Quiet, Pending
    <2> QED BY <1>4, <2>1, <2>2 DEF SenseInv, StationsOk
  <1>6. ASSUME NEW n \in Station
        PROVE  LET s == station[n]  t == station'[n] IN
               /\ Good(t) /\ SameRadio(s, t) /\ SameFrames(s, t) /\ SameCount(s, t)
               /\ \A e \in TimerName : t.timer[e] = IF s.timer[e] = -1 THEN -1 ELSE s.timer[e] - d
    <2>1. PICK s : s = station[n] OBVIOUS
    <2>2. PICK t : t = [s EXCEPT !.timer = [e \in TimerName |-> IF @[e] = -1 THEN -1 ELSE @[e] - d]]
      OBVIOUS
    <2>3. station'[n] = t BY <1>1, <2>1, <2>2
    <2>4. Good(s) /\ s.down = None /\ s.arrived = None /\ \A e \in TimerName : s.timer[e] # 0
      BY <1>5, <2>1
    <2>5. \A e \in TimerName : s.timer[e] # -1 => d <= s.timer[e]
      BY <1>3, <2>1 DEF Scheduled
    <2>6. /\ Good(t) /\ SameRadio(s, t) /\ SameFrames(s, t) /\ SameCount(s, t)
          /\ \A e \in TimerName : t.timer[e] = IF s.timer[e] = -1 THEN -1 ELSE s.timer[e] - d
      BY <1>3, <2>2, <2>4, <2>5, TickedGood
    <2> QED BY <2>1, <2>3, <2>6
  <1>7. ASSUME NEW n \in Station
        PROVE  /\ air[n] = None <=> air'[n] = None
               /\ air[n] # None => /\ air[n] \in OnAir /\ air'[n] \in OnAir
                                   /\ air'[n].left = air[n].left - d
                                   /\ air'[n].frame = air[n].frame /\ air'[n].new = FALSE /\ air[n].new = FALSE
    <2>1. CASE air[n] = None BY <1>1, <2>1
    <2>2. CASE air[n] # None
      <3>1. air[n] \in OnAir BY <2>2 DEF SenseInv, TypeOK
      <3>2. PICK a : a = air[n] OBVIOUS
      <3>3. a.left \in Nat /\ d <= a.left BY <1>3, <2>2, <3>1, <3>2 DEF OnAir
      <3>4. PICK k \in Nat : k = a.left - d BY <1>3, <3>3
      <3>5. air'[n] = [a EXCEPT !.left = k] BY <1>1, <2>2, <3>2, <3>4
      <3>6. air'[n] \in OnAir /\ air'[n].left = k /\ air'[n].frame = a.frame /\ air'[n].new = a.new
        BY <3>1, <3>2, <3>5 DEF OnAir
      <3>7. a.new = FALSE BY <1>2, <2>2, <3>1, <3>2 DEF New, OnAir
      <3> QED BY <2>2, <3>1, <3>2, <3>4, <3>6, <3>7, ScenarioAssumption
    <2> QED BY <2>1, <2>2
  <1>8. TypeOK'
    <2>1. station' \in [Station -> StationType]
      <3>1. \A n \in Station : station'[n] \in StationType BY <1>6 DEF Good, Bounded
      <3> QED BY <1>1, <3>1
    <2>2. air' \in [Station -> OnAir \cup {None}]
      <3>1. \A n \in Station : air'[n] \in OnAir \cup {None} BY <1>7
      <3>2. DOMAIN air' = Station /\ air' = [n \in Station |-> air'[n]] BY <1>1
      <3> QED BY <3>1, <3>2
    <2> QED BY <1>2, <2>1, <2>2 DEF SenseInv, TypeOK, FrameId
  <1>9. ScenarioOk' BY <1>2 DEF SenseInv, ScenarioOk, FrameId
  <1>10. StationsOk'
    <2>1. ASSUME NEW n \in Station
          PROVE  LET t == station'[n] IN Good(t) /\ Rested(t) /\ t.address = n /\ Holds(t, D)
      <3>1. Holds(station'[n], D) /\ Rested(station'[n])
        BY <1>5, <1>6, SameHolds
      <3>2. station'[n].address = n BY <1>5, <1>6 DEF SameRadio
      <3> QED BY <1>6, <3>1, <3>2
    <2> QED BY <1>2, <1>4, <2>1 DEF StationsOk
  <1>11. OnAirOk'
    <2>1. ASSUME NEW n \in Station
          PROVE  /\ station'[n].radio = "TRANSMIT" <=> air'[n] # None
                 /\ air'[n] # None => /\ air'[n].frame \in D \cup ControlFrame
                                      /\ air'[n].new => air'[n].left > SIFS
      <3>1. station'[n].radio = station[n].radio BY <1>6 DEF SameRadio
      <3> QED BY <1>4, <1>7, <3>1 DEF SenseInv, OnAirOk
    <2> QED BY <1>2, <1>4, <2>1 DEF OnAirOk
  <1>12. HearingOk'
    <2>1. ASSUME NEW n \in Station PROVE ReceivesOk(n)'
      <3>1. PICK t : t = station'[n] OBVIOUS
      <3>2. PICK s : s = station[n] OBVIOUS
      <3>3. /\ t.receiving = s.receiving /\ t.fsm = s.fsm /\ t.down = None
            /\ t.timer["SIFS"] = IF s.timer["SIFS"] = -1 THEN -1 ELSE s.timer["SIFS"] - d
        BY <1>5, <1>6, <3>1, <3>2 DEF SameRadio, SameFrames, SameCount, TimerName
      <3>4. SUFFICES ASSUME t.receiving # None
                     PROVE  /\ air'[t.receiving] # None /\ air'[t.receiving].new = FALSE
                            /\ Hears(t.receiving, n)
                            /\ t.fsm = "WAITSIFS" => air'[t.receiving].left > t.timer["SIFS"]
        BY <1>2, <3>1, <3>3 DEF ReceivesOk, Hears
      <3>5. s.timer["SIFS"] \in Int /\ (s.fsm = "WAITSIFS" => s.timer["SIFS"] # -1)
        <4>1. Good(s) BY <1>5, <3>2
        <4> QED BY <4>1 DEF Good, Bounded, OwnTimers, Scheduled, StationType, TimerName
      <3>6. t.receiving \in Station BY <1>6, <3>1, <3>4 DEF Good, Bounded, StationType
      <3>7. PICK k \in Station : k = t.receiving BY <3>6
      <3>8. /\ air[k] # None /\ Hears(k, n)
            /\ s.fsm = "WAITSIFS" => air[k].left > s.timer["SIFS"]
        BY <3>2, <3>3, <3>4, <3>7 DEF SenseInv, HearingOk, ReceivesOk
      <3>9. air[k].left \in Nat BY <1>7, <3>8 DEF OnAir
      <3>10. air'[k] # None /\ air'[k].new = FALSE /\ air'[k].left = air[k].left - d BY <1>7, <3>8
      <3>11. t.fsm = "WAITSIFS" => air'[k].left > t.timer["SIFS"]
        BY <1>3, <3>3, <3>5, <3>8, <3>9, <3>10
      <3> QED BY <3>7, <3>8, <3>10, <3>11
    <2>2. ASSUME NEW n \in Station PROVE SilenceOk(n)'
      <3>1. SUFFICES ASSUME station'[n].radio = "IDLE", NEW m \in Station, Hears(m, n), air'[m] # None
                     PROVE  FALSE
        BY <1>2 DEF SilenceOk, Hears
      <3>2. station[n].radio = "IDLE" /\ air[m] # None /\ air[m].new = FALSE
        BY <1>6, <1>7, <3>1 DEF SameRadio
      <3> QED BY <3>1, <3>2 DEF SenseInv, HearingOk, SilenceOk
    <2>3. \A n \in Station : station'[n].arrived = None BY <1>5, <1>6 DEF SameFrames
    <2> QED BY <2>1, <2>2, <2>3 DEF HearingOk
  <1>13. SenseInv' BY <1>8, <1>9, <1>10, <1>11, <1>12 DEF SenseInv
  <1>14. d \in Nat \ {0} BY <1>3
  <1> QED BY <1>5, <1>6, <1>7, <1>13, <1>14

-----------------------------------------------------------------------------
(* Initially. *)

LEMMA EmptyIn ==
  ASSUME NEW Q
  PROVE  <<>> \in Seq(Q)
  OBVIOUS

LEMMA NewGood ==
  ASSUME NEW n \in Station, NEW s, s = NewStation(n), NEW D
  PROVE  Good(s) /\ Rested(s) /\ s.address = n /\ Holds(s, D) /\ s.radio = "IDLE"
         /\ s.receiving = None /\ s.down = None /\ s.arrived = None
PROOF
  <1>1. s \in StationType
    <2>1. [t \in TimerName |-> -1] \in [TimerName -> Int] OBVIOUS
    <2>2. "IDLE" \in FsmState /\ <<>> \in Seq(DataFrame) /\ -1 \in Int BY DEF FsmState
    <2> QED BY <2>1, <2>2 DEF NewStation, StationType
  <1>2. /\ s.address = n /\ s.fsm = "IDLE" /\ s.queue = <<>> /\ s.backoffPeriod = -1
        /\ s.retryCounter = 0 /\ s.timer = [t \in TimerName |-> -1] /\ s.answering = None
        /\ s.radio = "IDLE" /\ s.receiving = None /\ s.down = None /\ s.arrived = None
        /\ s.up = None /\ s.done = None /\ s.err = FALSE
    BY DEF NewStation
  <1>3. \A t \in TimerName : s.timer[t] = -1 BY <1>2
  <1>4. {"SIFS", "DIFS", "Backoff", "Timeout", "Reserve", "MediumStateChange"} \subseteq TimerName
    BY DEF TimerName
  <1>5. Bounded(s) BY <1>1, <1>2, <1>3, <1>4, Positive DEF Bounded
  <1>6. Coupled(s) /\ Senses(s) /\ Placed(s) BY <1>2 DEF Coupled, Senses, Placed, Cleared
  <1>7. OwnTimers(s) /\ Passing(s) BY <1>2, <1>3, <1>4 DEF OwnTimers, Passing, Scheduled, Awaiting
  <1>8. Holds(s, D) BY <1>2, EmptyIn DEF Holds
  <1> QED BY <1>2, <1>5, <1>6, <1>7, <1>8 DEF Good, Rested

LEMMA InitSense ==
  ASSUME Init
  PROVE  SenseInv
PROOF
  <1>1. PICK I : I = FrameId OBVIOUS
  <1>2. /\ scenario \in Scenarios
        /\ station = [n \in Station |-> NewStation(n)]
        /\ air = [n \in Station |-> None]
        /\ waiting = I /\ got = [n \in Station |-> <<>>]
        /\ attempts = [i \in I |-> 0] /\ outcome = [i \in I |-> "none"]
    BY <1>1 DEF Init
  <1>3. ScenarioOk BY <1>2, ScenarioAssumption DEF ScenarioOk, FrameId
  <1>4. \A n \in Station :
           LET s == station[n] IN
           /\ s.radio = "IDLE" /\ s.receiving = None /\ s.down = None /\ s.arrived = None
           /\ Good(s) /\ Rested(s) /\ s.address = n /\ Holds(s, Of(scenario.frames))
    <2>1. TAKE n \in Station
    <2>2. station[n] = NewStation(n) BY <1>2
    <2> QED BY <2>2, NewGood
  <1>5. TypeOK
    <2>1. station \in [Station -> StationType]
      <3>1. \A n \in Station : station[n] \in StationType BY <1>4 DEF Good, Bounded
      <3> QED BY <1>2, <3>1
    <2>2. got \in [Station -> Seq(I)] BY <1>2, EmptyIn
    <2>3. attempts \in [I -> 0 .. transmissionLimit] BY <1>2, Positive
    <2>4. waiting \subseteq I BY <1>2
    <2>5. air \in [Station -> OnAir \cup {None}] BY <1>2
    <2>6. outcome \in [I -> Result \cup {"none"}] BY <1>2
    <2> QED BY <1>1, <2>1, <2>2, <2>3, <2>4, <2>5, <2>6 DEF TypeOK
  <1>6. StationsOk
    BY <1>4 DEF StationsOk
  <1>7. OnAirOk BY <1>2, <1>4 DEF OnAirOk
  <1>8. HearingOk BY <1>2, <1>4 DEF HearingOk, ReceivesOk, SilenceOk
  <1> QED BY <1>3, <1>5, <1>6, <1>7, <1>8 DEF SenseInv

(* Each step keeps the invariant, and a station that begins to contend has *)
(* sensed the medium. *)
AllSense == \A m \in Station : Contends(station[m], station'[m]) => Sensed(m)

LEMMA NextSense ==
  ASSUME SenseInv, [Next]_vars
  PROVE  SenseInv' /\ AllSense
PROOF
  <1>1. ASSUME NEW n \in Station, UpperMsg(n) PROVE SenseInv' /\ AllSense
    <2>1. PICK i \in waiting : \E t : UpperEvent(n, i, t) BY <1>1, UpperMsgIs
    <2>2. PICK t : UpperEvent(n, i, t) BY <2>1
    <2>3. waiting' \subseteq waiting BY <2>2 DEF UpperEvent
    <2> QED BY <2>2, <2>3, MacStepSense DEF UpperEvent, Handled, AllSense
  <1>2. ASSUME NEW n \in Station, LowerMsg(n) PROVE SenseInv' /\ AllSense
    <2>1. PICK t : LowerEvent(n, t) BY <1>2, LowerMsgIs
    <2>2. waiting' \subseteq waiting BY <2>1 DEF LowerEvent
    <2> QED BY <2>1, <2>2, MacStepSense DEF LowerEvent, Handled, AllSense
  <1>3. ASSUME NEW n \in Station, NEW e \in TimerName, Timer(n, e) PROVE SenseInv' /\ AllSense
    <2>1. PICK t : TimerEvent(n, e, t) BY <1>3, TimerIs
    <2>2. waiting' \subseteq waiting BY <2>1 DEF TimerEvent
    <2> QED BY <2>1, <2>2, MacStepSense DEF TimerEvent, Handled, AllSense
  <1>4. ASSUME NEW n \in Station, RadioSends(n) PROVE SenseInv' /\ AllSense
    <2>1. /\ SenseInv' /\ station'[n].down = None
          /\ \A m \in Station \ {n} : station'[m] = station[m]
      BY <1>4, RadioSendsSense
    <2> QED BY <2>1 DEF AllSense, Contends
  <1>5. CASE FramesArrive BY <1>5, FramesArriveSense DEF AllSense, Contends
  <1>6. CASE FramesEnd BY <1>6, FramesEndSense DEF AllSense, Contends
  <1>7. CASE Tick
    <2>1. SenseInv' /\ \A n \in Station : SameFrames(station[n], station'[n])
      BY <1>7, TickSense
    <2> QED BY <2>1 DEF AllSense, Contends, SameFrames
  <1>8. CASE UNCHANGED vars
    BY <1>8 DEF vars, SenseInv, TypeOK, ScenarioOk, StationsOk, OnAirOk, HearingOk, ReceivesOk,
       SilenceOk, Ending, Hears, FrameId, AllSense, Contends
  <1> QED BY <1>1, <1>2, <1>3, <1>4, <1>5, <1>6, <1>7, <1>8 DEF Next

LEMMA SenseInvariant == Spec => []SenseInv
PROOF
  <1>1. Init => SenseInv BY InitSense
  <1>2. SenseInv /\ [Next]_vars => SenseInv' BY NextSense
  <1> QED BY <1>1, <1>2, PTL DEF Spec

(* No event of a MAC or of a radio ends in a runtime error: no timer is    *)
(* scheduled twice (scheduleAt), no frame is given to a radio that sends,  *)
(* no ASSERT of handleWithFSM fails, and every variable keeps its type,    *)
(* for all stations, scenarios, durations and limits. *)
THEOREM RunsWithoutError == Spec => []NoRuntimeError
PROOF
  <1>1. SenseInv => NoRuntimeError
    BY DEF SenseInv, NoRuntimeError, StationsOk, Good, Bounded
  <1> QED BY <1>1, SenseInvariant, PTL

(* The timers of a station are those its state waits for, and it is stuck  *)
(* neither in DEFER with a free medium nor in IDLE with frames to send:    *)
(* handleWithFSM misses no change of the medium. *)
THEOREM TimersAlwaysFit == Spec => []TimersFit
PROOF
  <1>1. SenseInv => TimersFit
    BY DEF SenseInv, TimersFit, StationsOk, Good, OwnTimers, Senses, Placed, Awaiting
  <1> QED BY <1>1, SenseInvariant, PTL

(* A station that decides to send an RTS, or data no CTS allowed, hears    *)
(* nothing that had reached it and knows of no reservation (isMediumFree   *)
(* in handleWithFSM, and what receiveChangeNotification made of it). *)
THEOREM CarrierSensed == Spec => SensesCarrier
PROOF
  <1>1. SenseInv /\ [Next]_vars =>
            [\A n \in Station :
                Contends(station[n], station'[n]) => Noise(n) = {} /\ ~Scheduled(station[n], "Reserve")]_vars
    BY NextSense DEF AllSense, Sensed
  <1> QED BY <1>1, SenseInvariant, PTL DEF Spec, SensesCarrier

-----------------------------------------------------------------------------
(* The attempts at the current frame are those counted against its limit.  *)

(* The current attempt has been counted, but not yet as a failure. *)
Counted(s) == s.fsm \in {"WAITACK", "WAITCTS"} \/ Cleared(s)

CountOk(s, a) ==
    s.queue # <<>> => a[Current(s).id] >= s.retryCounter + (IF Counted(s) THEN 1 ELSE 0)

CountInv == SenseInv /\ (\A n \in Station : CountOk(station[n], attempts)) /\ GivenUpAtLimit

LEMMA CurrentId ==
  ASSUME SenseInv, NEW n \in Station, station[n].queue # <<>>
  PROVE  Current(station[n]).id \in FrameId /\ Current(station[n]) \in Of(scenario.frames)
PROOF
  <1>1. PICK D : D = Of(scenario.frames) OBVIOUS
  <1>2. D \in Frames /\ Holds(station[n], D)
    BY <1>1, OfFrames DEF SenseInv, StationsOk
  <1>3. Current(station[n]) \in D BY <1>2, CurrentOf
  <1> QED BY <1>1, <1>3 DEF Of, FrameId

LEMMA AttemptsGrow ==
  ASSUME TypeOK, NEW n \in Station, NEW t, MacStep(n, t)
  PROVE  /\ \A i \in FrameId : /\ attempts[i] \in Nat /\ attempts'[i] \in Nat
                               /\ attempts[i] <= attempts'[i] /\ attempts'[i] <= transmissionLimit
         /\ Contends(station[n], t) /\ Current(station[n]).id \in FrameId =>
               attempts'[Current(station[n]).id] = Capped(attempts[Current(station[n]).id])
PROOF
  <1>1. PICK I : I = FrameId OBVIOUS
  <1>2. attempts \in [I -> 0 .. transmissionLimit] /\ transmissionLimit \in Nat
    BY <1>1, Positive DEF TypeOK
  <1>3. \A k \in 0 .. transmissionLimit : Capped(k) \in 0 .. transmissionLimit /\ k <= Capped(k)
    BY <1>2 DEF Capped
  <1>4. CASE Contends(station[n], t)
    <2>1. PICK c : c = Current(station[n]).id OBVIOUS
    <2>2. attempts' = [attempts EXCEPT ![c] = Capped(attempts[c])]
      BY <1>4, <2>1 DEF MacStep
    <2>3. \A i \in I : attempts'[i] = IF i = c THEN Capped(attempts[c]) ELSE attempts[i]
      BY <1>2, <2>2
    <2>4. \A i \in I : attempts[i] \in 0 .. transmissionLimit BY <1>2
    <2> QED BY <1>1, <1>2, <1>3, <2>1, <2>3, <2>4
  <1>5. CASE ~Contends(station[n], t)
    BY <1>1, <1>2, <1>5 DEF MacStep
  <1> QED BY <1>4, <1>5

(* A count that stays, one that starts again, and one that goes up. *)
LEMMA CountStays ==
  ASSUME NEW s, NEW t, NEW a, NEW b, CountOk(s, a), NEW c, c = Current(s).id,
         s.queue # <<>> => a[c] \in Nat /\ b[c] \in Nat /\ a[c] <= b[c],
         t.queue # <<>> => s.queue # <<>> /\ Current(t) = Current(s),
         t.retryCounter = s.retryCounter, s.retryCounter \in Nat,
         Counted(t) => Counted(s)
  PROVE  CountOk(t, b)
  BY DEF CountOk

LEMMA CountRestarts ==
  ASSUME NEW t, NEW b, t.queue # <<>> => b[Current(t).id] \in Nat, t.retryCounter = 0, ~Counted(t)
  PROVE  CountOk(t, b)
  BY DEF CountOk

LEMMA CountFails ==
  ASSUME NEW s, NEW t, NEW a, NEW b, CountOk(s, a), NEW c, c = Current(s).id,
         s.queue # <<>>, a[c] \in Nat, b[c] \in Nat, a[c] <= b[c],
         t.queue = s.queue, Counted(s), s.retryCounter \in Nat,
         t.retryCounter = s.retryCounter + 1, ~Counted(t)
  PROVE  CountOk(t, b)
PROOF
  <1>1. Current(t) = Current(s) BY DEF Current
  <1> QED BY <1>1 DEF CountOk

LEMMA CountBegins ==
  ASSUME NEW s, NEW t, NEW a, NEW b, CountOk(s, a), NEW c, c = Current(s).id,
         s.queue # <<>>, a[c] \in Nat, b[c] = Capped(a[c]), t.queue = s.queue, s.retryCounter \in Nat,
         s.retryCounter < transmissionLimit, t.retryCounter = s.retryCounter
  PROVE  CountOk(t, b)
PROOF
  <1>1. Current(t) = Current(s) BY DEF Current
  <1>2. a[c] >= s.retryCounter BY DEF CountOk
  <1>3. b[c] >= s.retryCounter + 1 /\ b[c] \in Nat BY <1>2, Positive DEF Capped
  <1> QED BY <1>1, <1>3 DEF CountOk

LEMMA CountEvent ==
  ASSUME SenseInv, NEW n \in Station, CountOk(station[n], attempts), NEW t, Handled(n, t),
         \/ \E f \in DataFrame : Queues(station[n], f, t)
         \/ Receives(station[n], station[n].arrived.frame, t)
         \/ \E e : station[n].timer[e] = 0 /\ TimerEnds(station[n], e, t)
  PROVE  CountOk(t, attempts')
PROOF
  <1>1. PICK x : x = station[n] OBVIOUS
  <1>2. PICK a : a = attempts OBVIOUS
  <1>3. PICK b : b = attempts' OBVIOUS
  <1>4. PICK c : c = Current(x).id OBVIOUS
  <1>5. PICK D : D = Of(scenario.frames) OBVIOUS
  <1>6. D \in Frames BY <1>5, OfFrames
  <1>7. Good(x) /\ Good(t) /\ Holds(t, D) /\ CountOk(x, a) /\ MacStep(n, t)
    BY <1>1, <1>2, <1>5 DEF SenseInv, StationsOk, Handled
  <1>8. x.retryCounter \in Nat /\ x.retryCounter < transmissionLimit
    BY <1>7 DEF Good, Bounded, StationType
  <1>9. \A i \in FrameId : a[i] \in Nat /\ b[i] \in Nat /\ a[i] <= b[i]
    BY <1>2, <1>3, <1>7, AttemptsGrow DEF SenseInv
  <1>10. /\ x.queue # <<>> => a[c] \in Nat /\ b[c] \in Nat /\ a[c] <= b[c]
         /\ x.queue # <<>> /\ Contends(x, t) => b[c] = Capped(a[c])
    <2>1. x.queue # <<>> => c \in FrameId BY <1>1, <1>4, CurrentId
    <2>2. Contends(x, t) /\ c \in FrameId => b[c] = Capped(a[c])
      BY <1>1, <1>2, <1>3, <1>4, <1>7, AttemptsGrow DEF SenseInv
    <2> QED BY <1>9, <2>1, <2>2
  <1>11. t.queue # <<>> => b[Current(t).id] \in Nat
    <2>1. t.queue # <<>> => Current(t) \in D BY <1>6, <1>7, CurrentOf
    <2> QED BY <1>5, <1>9, <2>1 DEF Of, FrameId
  <1>12. ASSUME t.queue = x.queue, t.retryCounter = x.retryCounter, Counted(t) => Counted(x)
         PROVE  CountOk(t, b)
    <2>1. t.queue # <<>> => x.queue # <<>> /\ Current(t) = Current(x) BY <1>12 DEF Current
    <2> QED BY <1>4, <1>7, <1>8, <1>10, <1>12, <2>1, CountStays
  <1>13. ASSUME t.fsm \in Idling PROVE ~Counted(t)
    BY <1>13 DEF Counted, Cleared, Idling
  <1>14. ASSUME t.retryCounter = 0, t.fsm \in Idling PROVE CountOk(t, b)
    BY <1>11, <1>13, <1>14, CountRestarts
  <1>15. ASSUME Unmoved(x, t), t.answering = x.answering PROVE Counted(t) => Counted(x)
    BY <1>15 DEF Unmoved, Counted, Cleared
  <1>16. ASSUME NEW f \in DataFrame, Queues(x, f, t) PROVE CountOk(t, b)
    <2>1. CASE t.queue = x.queue /\ Unmoved(x, t)
      BY <1>12, <1>15, <1>16, <2>1 DEF Queues
    <2>2. ASSUME t.queue = Append(x.queue, f) PROVE CountOk(t, b)
      <3>1. x.queue # <<>> => Current(t) = Current(x)
        <4>1. x.queue \in Seq(DataFrame) BY <1>7 DEF Good, Bounded, StationType
        <4> QED BY <2>2, <4>1, AppendIs DEF Current
      <3>2. t.retryCounter = x.retryCounter /\ t.answering = x.answering BY <1>16 DEF Queues
      <3>3. Counted(t) => Counted(x)
        BY <1>13, <1>15, <1>16, <2>2, <3>2 DEF Queues
      <3>4. CASE x.queue # <<>>
        BY <1>4, <1>7, <1>8, <1>10, <3>1, <3>2, <3>3, <3>4, CountStays
      <3>5. CASE x.queue = <<>>
        <4>1. x.retryCounter = 0 /\ ~Counted(x) BY <1>7, <3>5 DEF Good, Placed, Counted
        <4> QED BY <1>11, <3>2, <3>3, <4>1, CountRestarts
      <3> QED BY <3>4, <3>5
    <2> QED BY <1>16, <2>1, <2>2 DEF Queues
  <1>17. ASSUME NEW f, Receives(x, f, t) PROVE CountOk(t, b)
    <2>1. CASE Takes(x, f, t) /\ x.fsm \in Idling
      <3>1. CASE Discards(x, t) \/ PassesUp(x, f, t)
        BY <1>14, <3>1 DEF Discards, PassesUp
      <3>2. CASE WillAck(x, f, t) \/ WillCts(x, f, t)
        <4>1. t.queue = x.queue /\ t.retryCounter = x.retryCounter /\ t.fsm = "WAITSIFS"
              /\ t.answering = f /\ f.type \in {"DATA", "RTS"}
          BY <3>2 DEF WillAck, WillCts, Answer3, Passed
        <4>2. ~Counted(t) BY <4>1 DEF Counted, Cleared
        <4> QED BY <1>12, <4>1, <4>2
      <3> QED BY <2>1, <3>1, <3>2 DEF Takes
    <2>2. CASE IsAcked(x, f, t) BY <1>14, <2>2 DEF IsAcked
    <2>3. CASE IsCleared(x, f, t)
      BY <1>12, <2>3 DEF IsCleared, Answer3, Passed, Counted
    <2>4. CASE Ignores(x, t)
      BY <1>12, <1>15, <2>4 DEF Ignores, Passed
    <2> QED BY <1>17, <2>1, <2>2, <2>3, <2>4 DEF Receives
  <1>18. ASSUME NEW e, x.timer[e] = 0, TimerEnds(x, e, t) PROVE CountOk(t, b)
    <2>1. CASE Notices(x, t)
      BY <1>12, <1>13, <1>15, <2>1 DEF Notices, SameFrames
    <2>2. ASSUME Transmits(x, t), x.fsm = "BACKOFF" \/ (x.fsm = "WAITDIFS" /\ x.timer["DIFS"] = 0)
          PROVE CountOk(t, b)
      <3>1. Clear(x) BY <1>7, <2>2, ClearWhenDue
      <3>2. x.queue # <<>> /\ x.down = None BY <3>1 DEF Clear
      <3>3. Current(x) \in DataFrame
        <4>1. x.queue \in Seq(DataFrame) BY <1>7 DEF Good, Bounded, StationType
        <4> QED BY <3>2, <4>1, HeadOf DEF Current
      <3>4. /\ t.queue = x.queue /\ t.retryCounter = x.retryCounter
            /\ t.down = Data(Current(x)) \/ (Current(x).to # Broadcast /\ t.down = Rts(Current(x)))
        BY <2>2 DEF Transmits, SentAck, SentRts, SentBroadcast, Sent
      <3>5. t.down # None /\ t.down.type \in {"RTS", "DATA"}
        <4>1. Data(Current(x)) \in DataFrame /\ (Current(x).to # Broadcast => Rts(Current(x)) \in RtsFrame)
          BY <3>3, FramesType
        <4>2. t.down \in DataFrame \cup RtsFrame BY <3>4, <4>1
        <4>3. t.down \in Frame /\ t.down.type \in {"RTS", "DATA"}
          BY <4>2 DEF Frame, ControlFrame, DataFrame, RtsFrame
        <4> QED BY <4>3, NoneAssumption
      <3>6. Contends(x, t) BY <2>2, <3>2, <3>5 DEF Contends
      <3> QED BY <1>4, <1>7, <1>8, <1>10, <3>2, <3>4, <3>6, CountBegins
    <2>3. CASE BacksOff(x, t)
      <3>1. ~Counted(t) BY <2>3 DEF BacksOff, Counted, Cleared
      <3> QED BY <1>12, <2>3, <3>1 DEF BacksOff, SameFrames
    <2>4. CASE EndsTimeout(x, t)
      <3>1. CASE \E r : Finished(x, t, r) BY <1>14, <3>1 DEF Finished
      <3>2. CASE x.fsm \in {"WAITACK", "WAITCTS"} /\ Retries(x, t)
        <4>1. x.queue # <<>> /\ Counted(x) BY <1>7, <3>2 DEF Good, Placed, Counted
        <4>2. t.queue = x.queue /\ t.retryCounter = x.retryCounter + 1 /\ ~Counted(t)
          BY <1>13, <3>2 DEF Retries, SameFrames
        <4> QED BY <1>4, <1>7, <1>8, <1>10, <4>1, <4>2, CountFails
      <3> QED BY <2>4, <3>1, <3>2 DEF EndsTimeout
    <2>5. CASE EndsSIFS(x, t) /\ x.fsm = "WAITSIFS"
      <3>1. CASE Proceeds(x, t) /\ x.answering.type = "CTS"
        <4>1. Counted(x)
          <5>1. x.answering # None BY <1>7, <2>5 DEF Good, Passing
          <5> QED BY <2>5, <3>1, <5>1 DEF Counted, Cleared
        <4> QED BY <1>12, <3>1, <4>1 DEF Proceeds, Answered
      <3>2. CASE \E g : Replies(x, t, g) BY <1>14, <3>2 DEF Replies
      <3> QED BY <2>5, <3>1, <3>2 DEF EndsSIFS
    <2> QED BY <1>18, <2>1, <2>2, <2>3, <2>4, <2>5 DEF TimerEnds
  <1> QED BY <1>1, <1>3, <1>16, <1>17, <1>18

LEMMA PairIs ==
  ASSUME NEW a, NEW b, NEW p, p = <<a, b>>
  PROVE  p[1] = a /\ p[2] = b
  OBVIOUS

(* The attempts made when a frame is given up. *)
LEMMA GivenUpEvent ==
  ASSUME CountInv, NEW n \in Station, NEW t, Handled(n, t),
         \/ \E f \in DataFrame : Queues(station[n], f, t)
         \/ Receives(station[n], station[n].arrived.frame, t)
         \/ \E e : station[n].timer[e] = 0 /\ TimerEnds(station[n], e, t)
  PROVE  GivenUpAtLimit'
PROOF
  <1>1. PICK x : x = station[n] OBVIOUS
  <1>2. PICK I : I = FrameId OBVIOUS
  <1>3. TypeOK /\ MacStep(n, t) /\ Good(x) /\ Rested(x) /\ CountOk(x, attempts) /\ scenario' = scenario
    BY <1>1 DEF CountInv, SenseInv, StationsOk, Handled
  <1>4. FrameId' = I BY <1>2, <1>3 DEF FrameId
  <1>5. \A i \in I : /\ attempts[i] \in Nat /\ attempts'[i] \in Nat
                     /\ attempts[i] <= attempts'[i] /\ attempts'[i] <= transmissionLimit
    BY <1>2, <1>3, AttemptsGrow
  <1>6. transmissionLimit \in Nat BY Positive
  <1>7. ASSUME t.done # None, t.done[2] = "gaveUp", t.done[1] \in I
        PROVE  attempts[t.done[1]] >= transmissionLimit
    <2>1. x.done = None BY <1>3 DEF Rested
    <2>2. ASSUME NEW f \in DataFrame, Queues(x, f, t) PROVE FALSE
      <3>1. t.done = x.done \/ t.done = <<f.id, "dropped">> BY <2>2 DEF Queues
      <3>2. t.done = <<f.id, "dropped">> BY <1>7, <2>1, <3>1
      <3>3. t.done[2] = "dropped" BY <3>2, PairIs
      <3> QED BY <1>7, <3>3
    <2>3. ASSUME NEW f, Receives(x, f, t) PROVE FALSE
      <3>1. t.done = x.done \/ t.done = <<Current(x).id, "acked">>
        BY <2>3 DEF Receives, Takes, Discards, PassesUp, WillAck, WillCts, Answer3, Passed, IsAcked,
             IsCleared, Ignores
      <3>2. t.done = <<Current(x).id, "acked">> BY <1>7, <2>1, <3>1
      <3>3. t.done[2] = "acked" BY <3>2, PairIs
      <3> QED BY <1>7, <3>3
    <2>4. ASSUME NEW e, x.timer[e] = 0, TimerEnds(x, e, t)
          PROVE  attempts[t.done[1]] >= transmissionLimit
      <3>1. t.done = x.done \/ EndsTimeout(x, t)
        BY <2>4 DEF TimerEnds, Notices, Transmits, SentAck, SentRts, SentBroadcast, Sent, BacksOff,
           SameFrames, EndsSIFS, Replies, Proceeds, Answered
      <3>2. /\ x.fsm \in {"WAITACK", "WAITCTS"} /\ x.retryCounter = transmissionLimit - 1
            /\ t.done = <<Current(x).id, "gaveUp">>
        <4>1. EndsTimeout(x, t) BY <1>7, <2>1, <3>1
        <4>2. ~(t.done = <<Current(x).id, "sent">>)
          <5>1. t.done = <<Current(x).id, "sent">> => t.done[2] = "sent" BY PairIs
          <5> QED BY <1>7, <5>1
        <4>3. ~Retries(x, t) BY <1>7, <2>1 DEF Retries, SameFrames
        <4> QED BY <4>1, <4>2, <4>3 DEF EndsTimeout, Finished
      <3>3. x.queue # <<>> /\ Counted(x) BY <1>3, <3>2 DEF Good, Placed, Counted
      <3>4. attempts[Current(x).id] >= transmissionLimit - 1 + 1
        BY <1>3, <3>2, <3>3 DEF CountOk
      <3>5. t.done[1] = Current(x).id BY <3>2, PairIs
      <3>6. attempts[Current(x).id] \in Nat BY <1>5, <1>7, <3>5
      <3> QED BY <1>6, <3>4, <3>5, <3>6
    <2>5. CASE \E e : x.timer[e] = 0 /\ TimerEnds(x, e, t)
      BY <2>4, <2>5
    <2> QED BY <1>1, <2>2, <2>3, <2>5
  <1>8. ASSUME NEW i \in I, outcome'[i] = "gaveUp" PROVE attempts'[i] = transmissionLimit
    <2>1. CASE outcome[i] = "gaveUp"
      <3>1. attempts[i] = transmissionLimit BY <1>2, <2>1 DEF CountInv, GivenUpAtLimit
      <3> QED BY <1>5, <1>6, <3>1
    <2>2. CASE outcome[i] # "gaveUp"
      <3>1. t.done # None /\ outcome' = [outcome EXCEPT ![t.done[1]] = t.done[2]]
        <4>1. outcome' # outcome BY <1>8, <2>2
        <4> QED BY <1>3, <4>1 DEF MacStep
      <3>2. PICK j, r : j = t.done[1] /\ r = t.done[2] OBVIOUS
      <3>3. outcome \in [I -> Result \cup {"none"}] BY <1>2, <1>3 DEF TypeOK
      <3>4. outcome' = [outcome EXCEPT ![j] = r] BY <3>1, <3>2
      <3>5. i = j /\ r = "gaveUp" BY <1>8, <2>2, <3>3, <3>4
      <3>6. attempts[i] >= transmissionLimit BY <1>7, <3>1, <3>2, <3>5
      <3> QED BY <1>5, <1>6, <3>6
    <2> QED BY <2>1, <2>2
  <1> QED BY <1>4, <1>8 DEF GivenUpAtLimit

LEMMA CountMac ==
  ASSUME CountInv, NEW n \in Station, NEW t, Handled(n, t), SenseInv',
         \/ \E f \in DataFrame : Queues(station[n], f, t)
         \/ Receives(station[n], station[n].arrived.frame, t)
         \/ \E e : station[n].timer[e] = 0 /\ TimerEnds(station[n], e, t)
  PROVE  CountInv'
PROOF
  <1>1. CountOk(t, attempts') BY CountEvent DEF CountInv
  <1>2. GivenUpAtLimit' BY GivenUpEvent
  <1>3. PICK u : u = Between(t) OBVIOUS
  <1>4. u.queue = t.queue /\ u.answering = t.answering /\ SameCount(t, u)
    BY <1>3, BetweenIs DEF Handled
  <1>5. station'[n] = u /\ \A m \in Station \ {n} : station'[m] = station[m]
    BY <1>3 DEF CountInv, SenseInv, TypeOK, Handled, MacStep, Between
  <1>6. CountOk(u, attempts')
    BY <1>1, <1>4 DEF CountOk, Current, SameCount, Counted, Cleared
  <1>7. ASSUME NEW m \in Station \ {n} PROVE CountOk(station[m], attempts')
    <2>1. CASE station[m].queue # <<>>
      <3>1. PICK c \in FrameId : c = Current(station[m]).id BY <2>1, CurrentId DEF CountInv
      <3>2. attempts[c] \in Nat /\ attempts'[c] \in Nat /\ attempts[c] <= attempts'[c]
        BY AttemptsGrow DEF CountInv, SenseInv, Handled
      <3>3. station[m].retryCounter \in Nat
        BY DEF CountInv, SenseInv, StationsOk, Good, Bounded, StationType
      <3>4. attempts[c] >= station[m].retryCounter + (IF Counted(station[m]) THEN 1 ELSE 0)
        BY <2>1, <3>1 DEF CountInv, CountOk
      <3>5. attempts'[c] >= station[m].retryCounter + (IF Counted(station[m]) THEN 1 ELSE 0)
        BY <3>2, <3>3, <3>4
      <3> QED BY <3>1, <3>5 DEF CountOk
    <2>2. CASE station[m].queue = <<>> BY <2>2 DEF CountOk
    <2> QED BY <2>1, <2>2
  <1>8. \A m \in Station : CountOk(station'[m], attempts') BY <1>5, <1>6, <1>7
  <1> QED BY <1>2, <1>8 DEF CountInv

(* The steps of the radio and of time leave the frames of a station alone. *)
LEMMA TunesCount ==
  ASSUME NEW s, NEW t, NEW a, CountOk(s, a), Tunes(s, t)
  PROVE  CountOk(t, a)
PROOF
  <1>1. Current(t) = Current(s) /\ t.queue = s.queue /\ t.retryCounter = s.retryCounter
    BY DEF Tunes, Current
  <1>2. Unmoved(s, t) => (Counted(t) <=> Counted(s)) BY DEF Tunes, Unmoved, Counted, Cleared
  <1>3. ~Unmoved(s, t) => ~Counted(t) /\ ~Counted(s)
    BY DEF Tunes, Unmoved, Counted, Cleared, Idling
  <1> QED BY <1>1, <1>2, <1>3 DEF CountOk

LEMMA SameTunes ==
  ASSUME NEW s, NEW t, NEW a, CountOk(s, a), SameRadio(s, t), SameFrames(s, t), SameCount(s, t)
  PROVE  CountOk(t, a)
  BY DEF CountOk, SameFrames, SameCount, Current, Counted, Cleared

LEMMA GivenUpSame ==
  ASSUME GivenUpAtLimit, scenario'.frames = scenario.frames, attempts' = attempts, outcome' = outcome
  PROVE  GivenUpAtLimit'
  BY DEF GivenUpAtLimit, FrameId

LEMMA NextCount ==
  ASSUME CountInv, [Next]_vars
  PROVE  CountInv'
PROOF
  <1>1. SenseInv /\ SenseInv' BY NextSense DEF CountInv
  <1>2. \A n \in Station : CountOk(station[n], attempts) BY DEF CountInv
  <1>3. ASSUME NEW n \in Station, UpperMsg(n) PROVE CountInv'
    <2>1. PICK i \in waiting : \E t : UpperEvent(n, i, t) BY <1>1, <1>3, UpperMsgIs
    <2>2. PICK t : UpperEvent(n, i, t) BY <2>1
    <2>3. scenario.frames[i] \in DataFrame BY <2>2 DEF UpperEvent, Of
    <2>4. \E f \in DataFrame : Queues(station[n], f, t) BY <2>2, <2>3 DEF UpperEvent
    <2>5. Handled(n, t) BY <2>2 DEF UpperEvent
    <2> QED BY <1>1, <2>4, <2>5, CountMac
  <1>4. ASSUME NEW n \in Station, LowerMsg(n) PROVE CountInv'
    <2>1. PICK t : LowerEvent(n, t) BY <1>1, <1>4, LowerMsgIs
    <2> QED BY <1>1, <2>1, CountMac DEF LowerEvent
  <1>5. ASSUME NEW n \in Station, NEW e \in TimerName, Timer(n, e) PROVE CountInv'
    <2>1. PICK t : TimerEvent(n, e, t) BY <1>1, <1>5, TimerIs
    <2>2. \E k : station[n].timer[k] = 0 /\ TimerEnds(station[n], k, t) BY <2>1 DEF TimerEvent
    <2>3. Handled(n, t) BY <2>1 DEF TimerEvent
    <2> QED BY <1>1, <2>2, <2>3, CountMac
  <1>6. ASSUME NEW n \in Station, RadioSends(n) PROVE CountInv'
    <2>1. PICK x : x = station[n] OBVIOUS
    <2>2. PICK t : t = Sending(x) OBVIOUS
    <2>3. x.down # None /\ station' = [station EXCEPT ![n] = t] /\ scenario' = scenario
          /\ attempts' = attempts /\ outcome' = outcome
      BY <1>6, <2>1, <2>2 DEF RadioSends, Sending
    <2>4. Good(x) BY <1>1, <2>1 DEF SenseInv, StationsOk
    <2>5. Tunes(x, t) BY <2>2, <2>3, <2>4, RadioSendsGood
    <2>6. CountOk(t, attempts) BY <1>2, <2>1, <2>5, TunesCount
    <2>7. \A m \in Station : CountOk(station'[m], attempts)
      BY <1>1, <1>2, <2>3, <2>6 DEF SenseInv, TypeOK
    <2> QED BY <1>1, <2>3, <2>7, GivenUpSame DEF CountInv
  <1>7. CASE FramesArrive
    <2>1. \A n \in Station : Tunes(station[n], station'[n]) BY <1>1, <1>7, FramesArriveSense
    <2>2. \A n \in Station : CountOk(station'[n], attempts) BY <1>2, <2>1, TunesCount
    <2>3. scenario' = scenario /\ attempts' = attempts /\ outcome' = outcome BY <1>7 DEF FramesArrive
    <2> QED BY <1>1, <2>2, <2>3, GivenUpSame DEF CountInv
  <1>8. CASE FramesEnd
    <2>1. \A n \in Station : Tunes(station[n], station'[n]) BY <1>1, <1>8, FramesEndSense
    <2>2. \A n \in Station : CountOk(station'[n], attempts) BY <1>2, <2>1, TunesCount
    <2>3. attempts' = attempts /\ outcome' = outcome BY <1>8 DEF FramesEnd
    <2>4. scenario'.frames = scenario.frames BY <1>1, <1>8, ErrorsLeft DEF FramesEnd
    <2> QED BY <1>1, <2>2, <2>3, <2>4, GivenUpSame DEF CountInv
  <1>9. CASE Tick
    <2>1. \A n \in Station : /\ SameRadio(station[n], station'[n]) /\ SameFrames(station[n], station'[n])
                             /\ SameCount(station[n], station'[n])
      BY <1>1, <1>9, TickSense
    <2>2. \A n \in Station : CountOk(station'[n], attempts) BY <1>2, <2>1, SameTunes
    <2>3. scenario' = scenario /\ attempts' = attempts /\ outcome' = outcome BY <1>9 DEF Tick
    <2> QED BY <1>1, <2>2, <2>3, GivenUpSame DEF CountInv
  <1>10. CASE UNCHANGED vars
    BY <1>1, <1>2, <1>10, GivenUpSame DEF vars, CountInv
  <1> QED BY <1>3, <1>4, <1>5, <1>6, <1>7, <1>8, <1>9, <1>10 DEF Next

LEMMA InitCount ==
  ASSUME Init
  PROVE  CountInv
PROOF
  <1>1. SenseInv BY InitSense
  <1>2. \A n \in Station : CountOk(station[n], attempts)
    <2>1. ASSUME NEW n \in Station PROVE station[n].queue = <<>>
      <3>1. station[n] = NewStation(n) BY DEF Init
      <3> QED BY <3>1 DEF NewStation
    <2> QED BY <2>1 DEF CountOk
  <1>3. GivenUpAtLimit BY DEF Init, GivenUpAtLimit
  <1> QED BY <1>1, <1>2, <1>3 DEF CountInv

LEMMA CountInvariant == Spec => []CountInv
PROOF
  <1>1. Init => CountInv BY InitCount
  <1>2. CountInv /\ [Next]_vars => CountInv' BY NextCount
  <1> QED BY <1>1, <1>2, PTL DEF Spec

(* A frame is given up only after transmissionLimit attempts: no event     *)
(* counts a failure (retryCurrentTransmission) that was not a transmission *)
(* of that frame or of an RTS for it, and no count is carried from one     *)
(* frame to the next. *)
LEMMA GivenUpLast == Spec => []GivenUpAtLimit
PROOF BY CountInvariant, PTL DEF CountInv

-----------------------------------------------------------------------------
(* An ACK names no frame: that it is taken for the right one rests on the  *)
(* time-out, which says how far the exchange has come.                     *)

Got(m) == {got[m][k] : k \in DOMAIN got[m]}

(* The station waits for the ACK of frame i, for another `time'. *)
Awaits(s, i, time) == s.fsm = "WAITACK" /\ Current(s).id = i /\ s.timer["Timeout"] = time

(* It has a right to one: the frame has arrived. *)
Confirmed(n, m, time) ==
    LET s == station[n] IN
    s.fsm = "WAITACK" /\ Current(s).to = m /\ Current(s).id \in Got(m) /\ s.timer["Timeout"] = time

(* It will not send before something has changed. *)
Rests(s) ==
    s.down = None /\ s.arrived = None /\ s.fsm \notin {"BACKOFF", "WAITSIFS"} /\ s.timer["DIFS"] # 0

(* The frame f of station n will be followed by an ACK, unless it is       *)
(* broadcast. *)
Followed(n, f, time) ==
    f.from = n /\ (f.to # Broadcast => Awaits(station[n], f.id, time + SIFS + Airtime["ACK"]))

(* An ACK that station m sends is the one which the station it names waits *)
(* for. *)
IsAck(f) == f \in Answer /\ f.type = "ACK"

DataGiven(n) ==
    LET f == station[n].down IN f \in DataFrame => Followed(n, f, f.airtime)

DataOnAir(n) ==
    air[n] # None /\ air[n].frame \in DataFrame => Followed(n, air[n].frame, air[n].left)

DataArrived(m) ==
    LET f == station[m].arrived.frame IN
    station[m].arrived # None /\ f \in DataFrame =>
        /\ Rests(station[f.from])
        /\ f.to = m => Awaits(station[f.from], f.id, SIFS + Airtime["ACK"])

DataAnswered(m) ==
    LET f == station[m].answering IN
    f \in DataFrame =>
        /\ station[m].fsm = "WAITSIFS"
        /\ Confirmed(f.from, m, station[m].timer["SIFS"] + Airtime["ACK"])

AckGiven(m) ==
    LET f == station[m].down IN
    IsAck(f) => f.airtime = Airtime["ACK"] /\ Confirmed(f.to, m, f.airtime)

AckOnAir(m) ==
    air[m] # None /\ IsAck(air[m].frame) => Confirmed(air[m].frame.to, m, air[m].left)

AckArrived(n) ==
    LET f == station[n].arrived.frame IN
    station[n].arrived # None /\ IsAck(f) /\ f.to = n => Confirmed(n, Current(station[n]).to, 0)

Exchanges ==
    \A n \in Station :
        /\ DataGiven(n) /\ DataOnAir(n) /\ DataArrived(n) /\ DataAnswered(n)
        /\ AckGiven(n) /\ AckOnAir(n) /\ AckArrived(n)

(* Frames on their way, and those of them that station n has sent. *)
Moving ==
    {station[k].down : k \in Station} \cup {air[k].frame : k \in {m \in Station : air[m] # None}}
    \cup {station[k].arrived.frame : k \in {m \in Station : station[m].arrived # None}}

Ids(q) == {q[k].id : k \in DOMAIN q}

InPlay(n) == {f.id : f \in {g \in Moving : g \in DataFrame /\ g.from = n}}
Queued(n) == Ids(station[n].queue)
Unsent(n) == {i \in waiting : scenario.frames[i].from = n}
Heard(n) == {i \in FrameId : scenario.frames[i].from = n /\ \E m \in Station : i \in Got(m)}

NotAfter(S, U) == \A x \in S, y \in U : x <= y
Before(S, U) == \A x \in S, y \in U : x < y

Sorted(q) == \A i, j \in DOMAIN q : i < j => q[i].id < q[j].id

(* Frames heard, in play, queued and still to be sent: one at a time, and  *)
(* none before an earlier one is disposed of. *)
InTurn(H, P, Q, U) ==
    /\ NotAfter(H, P) /\ NotAfter(H, Q) /\ NotAfter(P, Q)
    /\ Before(H, U) /\ Before(P, U) /\ Before(Q, U)
    /\ \A i, j \in P : i = j

OrderedAt(n) == Sorted(station[n].queue) /\ InTurn(Heard(n), InPlay(n), Queued(n), Unsent(n))

AckedGot ==
    \A i \in FrameId : outcome[i] = "acked" =>
        scenario.frames[i].to \in Station /\ i \in Got(scenario.frames[i].to)

FateInv == SenseInv /\ Exchanges /\ (\A n \in Station : OrderedAt(n)) /\ AckedGot /\ InOrder

-----------------------------------------------------------------------------
(* What an event of the MAC does to the exchange. *)

Kept(x, t) ==
    x.fsm = "WAITACK" =>
        t.fsm = "WAITACK" /\ Current(t) = Current(x) /\ t.timer["Timeout"] = x.timer["Timeout"]

(* The current frame is disposed of. *)
Leaves(x, t) ==
    /\ x.fsm = "WAITACK" /\ t.arrived = None
    /\ \/ x.timer["Timeout"] = 0 /\ x.arrived = None
       \/ x.arrived # None /\ IsAck(x.arrived.frame) /\ x.arrived.frame.to = x.address

SendsAck(x, t) ==
    /\ x.answering \in DataFrame /\ x.fsm = "WAITSIFS" /\ x.timer["SIFS"] = 0
    /\ t.down = Ack(x.answering)

SendsData(x, t) ==
    /\ x.queue # <<>> /\ x.down = None /\ x.radio # "TRANSMIT" /\ ~Rests(x)
    /\ t.queue = x.queue /\ t.down = Data(Current(x))
    /\ Current(x).to # Broadcast =>
          t.fsm = "WAITACK" /\ t.timer["Timeout"] = Current(x).airtime + SIFS + Airtime["ACK"]

TakesData(x, t) ==
    /\ x.arrived # None /\ t.answering = x.arrived.frame /\ t.up = x.arrived.frame
    /\ x.arrived.frame.to = x.address /\ t.fsm = "WAITSIFS" /\ t.timer["SIFS"] = SIFS

StillAnswers(x, t) ==
    /\ t.answering = x.answering
    /\ x.fsm = "WAITSIFS" => t.fsm = "WAITSIFS" /\ t.timer["SIFS"] = x.timer["SIFS"]

Exchanged(x, t) ==
    /\ Rests(x) => Rests(t)
    /\ Kept(x, t) \/ Leaves(x, t)
    /\ t.arrived \in {x.arrived, None}
    /\ \/ t.down = x.down \/ (t.down \notin DataFrame /\ ~IsAck(t.down))
       \/ SendsAck(x, t) \/ SendsData(x, t)
    /\ t.answering \in DataFrame => StillAnswers(x, t) \/ TakesData(x, t)

LEMMA FrameKinds ==
  /\ \A f \in DataFrame : f.type = "DATA"
  /\ \A f \in ControlFrame : f \notin DataFrame /\ f.type # "DATA"
  /\ \A f \in Frame : (f \in DataFrame <=> f.type = "DATA") /\ (IsAck(f) <=> f.type = "ACK")
  /\ None \notin DataFrame /\ ~IsAck(None)
PROOF
  <1>1. \A f \in DataFrame : f.type = "DATA" BY DEF DataFrame
  <1>2. \A f \in RtsFrame : f.type = "RTS" BY DEF RtsFrame
  <1>3. \A f \in Answer : f.type \in {"CTS", "ACK"} BY DEF Answer
  <1>4. None \notin DataFrame /\ None \notin Answer BY NoneAssumption DEF Frame, ControlFrame
  <1> QED BY <1>1, <1>2, <1>3, <1>4 DEF Frame, ControlFrame, IsAck

LEMMA StationFrames ==
  ASSUME NEW x, Good(x)
  PROVE  /\ x.queue \in Seq(DataFrame) /\ x.answering \in Frame \cup {None}
         /\ x.down \in Frame \cup {None}
         /\ x.arrived # None => x.arrived.frame \in Frame
         /\ x.queue # <<>> => Current(x) \in DataFrame
PROOF
  <1>1. x \in StationType BY DEF Good, Bounded
  <1>2. /\ x.queue \in Seq(DataFrame) /\ x.answering \in Frame \cup {None}
        /\ x.down \in Frame \cup {None} /\ x.arrived \in Received \cup {None}
    BY <1>1 DEF StationType
  <1> QED BY <1>1, <1>2, CurrentType DEF Received

LEMMA UpperExchanged ==
  ASSUME NEW x, Good(x), NEW f \in DataFrame, NEW t, Queues(x, f, t)
  PROVE  Exchanged(x, t) /\ Kept(x, t)
PROOF
  <1>1. t.down = x.down /\ t.arrived = x.arrived /\ t.answering = x.answering BY DEF Queues
  <1>2. Rests(x) => Rests(t) BY DEF Queues, Rests, Unmoved, Idling
  <1>3. Kept(x, t)
    <2>1. x.fsm = "WAITACK" => x.queue # <<>> BY DEF Good, Placed
    <2>2. t.queue = x.queue \/ t.queue = Append(x.queue, f) BY DEF Queues
    <2>3. x.fsm = "WAITACK" => Head(t.queue) = Head(x.queue)
      BY <2>1, <2>2, StationFrames, AppendIs
    <2> QED BY <2>3 DEF Queues, Kept, Unmoved, Current
  <1>4. StillAnswers(x, t) BY DEF Queues, StillAnswers, Unmoved
  <1> QED BY <1>1, <1>2, <1>3, <1>4 DEF Exchanged

LEMMA LowerExchanged ==
  ASSUME NEW x, Good(x), x.arrived # None, NEW f, f = x.arrived.frame, NEW t, Receives(x, f, t)
  PROVE  Exchanged(x, t)
PROOF
  <1>1. t.down = x.down /\ t.arrived = None
    BY DEF Receives, Takes, Discards, PassesUp, WillAck, WillCts, Answer3, Passed, IsAcked,
       IsCleared, Ignores
  <1>2. ~Rests(x) BY DEF Rests
  <1>3. f \in Frame BY StationFrames
  <1>4. Kept(x, t) \/ Leaves(x, t)
    <2>1. CASE x.fsm # "WAITACK" BY <2>1 DEF Kept
    <2>2. CASE IsAcked(x, f, t)
      BY <1>3, <2>2, FrameKinds DEF IsAcked, isAnswer, isForUs, Leaves
    <2>3. CASE Ignores(x, t) BY <2>3 DEF Ignores, Passed, Unmoved, Kept, Current
    <2>4. CASE x.fsm = "WAITACK" /\ (IsCleared(x, f, t) \/ x.fsm \in Idling)
      BY <2>4 DEF IsCleared, Idling
    <2> QED BY <2>1, <2>2, <2>3, <2>4 DEF Receives
  <1>5. t.answering \in DataFrame => StillAnswers(x, t) \/ TakesData(x, t)
    <2>1. CASE WillAck(x, f, t) BY <2>1 DEF WillAck, Answer3, TakesData
    <2>2. CASE WillCts(x, f, t) \/ IsCleared(x, f, t)
      BY <1>3, <2>2, FrameKinds DEF WillCts, IsCleared, isAnswer, Answer3
    <2>3. CASE t.answering = x.answering /\ x.fsm # "WAITSIFS" BY <2>3 DEF StillAnswers
    <2> QED BY <2>1, <2>2, <2>3
        DEF Receives, Takes, Discards, PassesUp, IsAcked, Ignores, Idling, Awaiting
  <1> QED BY <1>1, <1>2, <1>4, <1>5 DEF Exchanged

LEMMA TransmitsExchanged ==
  ASSUME NEW x, Good(x), x.fsm = "BACKOFF" \/ (x.fsm = "WAITDIFS" /\ x.timer["DIFS"] = 0),
         NEW t, Transmits(x, t)
  PROVE  Exchanged(x, t)
PROOF
  <1>1. Clear(x) BY ClearWhenDue
  <1>2. ~Rests(x) BY DEF Rests
  <1>3. Kept(x, t) BY DEF Kept
  <1>4. t.answering = x.answering /\ t.arrived = x.arrived /\ t.queue = x.queue
    BY DEF Transmits, SentAck, SentRts, SentBroadcast, Sent
  <1>5. StillAnswers(x, t) BY <1>4 DEF StillAnswers
  <1>6. Current(x) \in DataFrame BY <1>1, StationFrames DEF Clear
  <1>7. CASE SentAck(x, t)
    <2>1. SendsData(x, t) BY <1>1, <1>2, <1>7 DEF SentAck, Sent, Clear, SendsData
    <2> QED BY <1>2, <1>3, <1>4, <1>5, <2>1 DEF Exchanged
  <1>8. CASE SentBroadcast(x, t) /\ Current(x).to = Broadcast
    <2>1. SendsData(x, t) BY <1>1, <1>2, <1>8 DEF SentBroadcast, Sent, Clear, SendsData
    <2> QED BY <1>2, <1>3, <1>4, <1>5, <2>1 DEF Exchanged
  <1>9. CASE SentRts(x, t) /\ Current(x).to # Broadcast
    <2>1. t.down = Rts(Current(x)) BY <1>9 DEF SentRts, Sent
    <2>2. t.down \in ControlFrame /\ t.down.type = "RTS"
      BY <1>6, <1>9, <2>1, FramesType DEF ControlFrame, RtsFrame
    <2>3. t.down \notin DataFrame /\ ~IsAck(t.down) BY <2>2, FrameKinds DEF IsAck
    <2> QED BY <1>2, <1>3, <1>4, <1>5, <2>3 DEF Exchanged
  <1> QED BY <1>7, <1>8, <1>9 DEF Transmits

LEMMA EndsSIFSExchanged ==
  ASSUME NEW x, Good(x), x.fsm = "WAITSIFS", x.timer["SIFS"] = 0, NEW t, EndsSIFS(x, t)
  PROVE  Exchanged(x, t)
PROOF
  <1>1. ~Rests(x) /\ Kept(x, t) BY DEF Rests, Kept
  <1>2. t.answering \notin DataFrame /\ t.arrived = x.arrived /\ t.queue = x.queue
    BY FrameKinds DEF EndsSIFS, Replies, Proceeds, Answered
  <1>3. x.answering \in Frame BY StationFrames DEF Good, Passing
  <1>4. CASE x.answering.type = "RTS" /\ Replies(x, t, Cts(x.answering))
    <2>1. t.down = Cts(x.answering) BY <1>4 DEF Replies
    <2>2. t.down.type = "CTS" BY <2>1 DEF Cts
    <2>3. t.down \notin DataFrame /\ ~IsAck(t.down) BY <2>2, FrameKinds DEF IsAck
    <2> QED BY <1>1, <1>2, <2>3 DEF Exchanged
  <1>5. CASE x.answering.type = "DATA" /\ Replies(x, t, Ack(x.answering))
    <2>1. SendsAck(x, t) BY <1>3, <1>5, FrameKinds DEF Replies, SendsAck
    <2> QED BY <1>1, <1>2, <2>1 DEF Exchanged
  <1>6. CASE x.answering.type = "CTS" /\ Proceeds(x, t)
    <2>1. x.queue # <<>> /\ x.down = None /\ x.radio # "TRANSMIT"
      BY <1>6 DEF Good, Placed, Passing, Cleared
    <2>2. SendsData(x, t) BY <1>1, <1>2, <1>6, <2>1 DEF Proceeds, SendsData
    <2> QED BY <1>1, <1>2, <2>2 DEF Exchanged
  <1> QED BY <1>4, <1>5, <1>6 DEF EndsSIFS

LEMMA TimerKept ==
  ASSUME NEW x, NEW e, NEW t, TimerEnds(x, e, t)
  PROVE  Kept(x, t) \/ (e = "Timeout" /\ x.fsm # "WAITBROADCAST")
PROOF
  <1>1. CASE Notices(x, t) BY <1>1 DEF Notices, Unmoved, Kept, SameFrames, Current
  <1>2. CASE x.fsm # "WAITACK" BY <1>2 DEF Kept
  <1> QED BY <1>1, <1>2 DEF TimerEnds, EndsTimeout

LEMMA TimerExchanged ==
  ASSUME NEW x, Good(x), NEW e, x.timer[e] = 0, NEW t, TimerEnds(x, e, t),
         (e = "Timeout" /\ x.fsm # "WAITBROADCAST") => x.arrived = None
  PROVE  Exchanged(x, t)
PROOF
  <1>1. ASSUME SameFrames(x, t), Kept(x, t) \/ Leaves(x, t), StillAnswers(x, t), Rests(x) => Rests(t)
        PROVE  Exchanged(x, t)
    BY <1>1 DEF Exchanged, SameFrames
  <1>2. CASE Notices(x, t)
    <2>1. SameFrames(x, t) BY <1>2 DEF Notices
    <2>2. Kept(x, t) BY <1>2 DEF Notices, Unmoved, Kept, SameFrames, Current
    <2>3. StillAnswers(x, t) BY <1>2 DEF Notices, Unmoved, StillAnswers, SameFrames
    <2>4. Rests(x) => Rests(t) BY <1>2 DEF Notices, Unmoved, Rests, SameFrames, Idling
    <2> QED BY <1>1, <2>1, <2>2, <2>3, <2>4
  <1>3. CASE e = "DIFS" /\ x.fsm = "WAITDIFS" /\ BacksOff(x, t)
    <2>1. SameFrames(x, t) /\ ~Rests(x) BY <1>3 DEF BacksOff, Rests
    <2>2. Kept(x, t) /\ StillAnswers(x, t) BY <1>3 DEF BacksOff, SameFrames, Kept, StillAnswers
    <2> QED BY <1>1, <2>1, <2>2
  <1>4. CASE e \in {"DIFS", "Backoff"} /\ Transmits(x, t)
             /\ (x.fsm = "BACKOFF" \/ (x.fsm = "WAITDIFS" /\ x.timer["DIFS"] = 0))
    BY <1>4, TransmitsExchanged
  <1>5. CASE e = "SIFS" /\ x.fsm = "WAITSIFS" /\ EndsSIFS(x, t)
    BY <1>5, EndsSIFSExchanged
  <1>6. CASE e = "Timeout" /\ EndsTimeout(x, t)
    <2>1. t.answering = x.answering /\ t.down = x.down /\ t.arrived = x.arrived
          /\ t.fsm \in Idling /\ t.timer["DIFS"] # 0 /\ x.fsm \in Awaiting
      BY <1>6 DEF EndsTimeout, Finished, Retries, SameFrames, Awaiting
    <2>2. Rests(x) => Rests(t) BY <2>1 DEF Rests, Idling
    <2>3. StillAnswers(x, t) BY <2>1 DEF StillAnswers, Awaiting
    <2>4. Kept(x, t) \/ Leaves(x, t) BY <1>6, <2>1 DEF Kept, Leaves
    <2> QED BY <2>1, <2>2, <2>3, <2>4 DEF Exchanged
  <1> QED BY <1>2, <1>3, <1>4, <1>5, <1>6 DEF TimerEnds

-----------------------------------------------------------------------------
(* The exchange, when a MAC takes a step. *)

LEMMA GotAppend ==
  ASSUME NEW S, NEW q \in Seq(S), NEW i \in S, NEW r, r = Append(q, i)
  PROVE  {r[k] : k \in DOMAIN r} = {q[k] : k \in DOMAIN q} \cup {i}
PROOF
  <1>1. r \in Seq(S) /\ Len(r) = Len(q) + 1 /\ r[Len(q) + 1] = i
        /\ \A k \in 1 .. Len(q) : r[k] = q[k]
    OBVIOUS
  <1>2. DOMAIN r = 1 .. Len(q) + 1 /\ DOMAIN q = 1 .. Len(q) /\ Len(q) \in Nat BY <1>1
  <1>3. \A k \in DOMAIN q : k \in DOMAIN r /\ r[k] = q[k] BY <1>1, <1>2
  <1>4. \A k \in DOMAIN r : k \in DOMAIN q \/ r[k] = i BY <1>1, <1>2
  <1>5. Len(q) + 1 \in DOMAIN r BY <1>2
  <1> QED BY <1>1, <1>3, <1>4, <1>5

(* What a station has sent up. *)
LEMMA GotIs ==
  ASSUME TypeOK, NEW n \in Station, NEW t, MacStep(n, t), t.up # None => t.up.id \in FrameId
  PROVE  /\ \A m \in Station \ {n} : got'[m] = got[m] /\ Got(m)' = Got(m)
         /\ t.up = None => got'[n] = got[n] /\ Got(n)' = Got(n)
         /\ t.up # None => got'[n] = Append(got[n], t.up.id) /\ Got(n)' = Got(n) \cup {t.up.id}
PROOF
  <1>1. got \in [Station -> Seq(FrameId)] BY DEF TypeOK
  <1>2. CASE t.up = None
    <2>1. got' = got BY <1>2 DEF MacStep
    <2> QED BY <1>2, <2>1 DEF Got
  <1>3. CASE t.up # None
    <2>1. got' = [got EXCEPT ![n] = Append(got[n], t.up.id)] BY <1>3 DEF MacStep
    <2>2. got'[n] = Append(got[n], t.up.id) /\ \A m \in Station \ {n} : got'[m] = got[m]
      BY <1>1, <2>1
    <2>3. got[n] \in Seq(FrameId) BY <1>1
    <2>4. Got(n)' = Got(n) \cup {t.up.id} BY <1>3, <2>2, <2>3, GotAppend DEF Got
    <2>5. \A m \in Station \ {n} : Got(m)' = Got(m) BY <2>2 DEF Got
    <2> QED BY <1>3, <2>2, <2>4, <2>5
  <1> QED BY <1>2, <1>3

LEMMA UpId ==
  ASSUME NEW n \in Station, NEW t, Handled(n, t)
  PROVE  t.up # None => t.up.id \in FrameId
  BY DEF Handled, Holds, Of, FrameId

(* A scheduled timer has not run out. *)
LEMMA TimerNat ==
  ASSUME NEW s, Good(s), NEW e \in TimerName, Scheduled(s, e)
  PROVE  s.timer[e] \in Nat
PROOF
  <1>1. s.timer[e] \in Int /\ s.timer[e] >= -1 BY DEF Good, Bounded, StationType
  <1> QED BY <1>1 DEF Scheduled

LEMMA MacExchanges ==
  ASSUME SenseInv, Exchanges, NEW n \in Station, NEW t, Handled(n, t), Exchanged(station[n], t),
         Kept(station[n], t) \/ Ending = {}
  PROVE  Exchanges'
PROOF
  <1>1. PICK x : x = station[n] OBVIOUS
  <1>2. PICK u : u = Between(t) OBVIOUS
  <1>3. /\ u.fsm = t.fsm /\ u.timer = t.timer /\ u.queue = t.queue /\ u.answering = t.answering
        /\ u.down = t.down /\ u.arrived = t.arrived /\ Current(u) = Current(t)
    BY <1>2, BetweenIs DEF Handled, SameCount, Current
  <1>4. station' = [station EXCEPT ![n] = u] BY <1>2 DEF Handled, MacStep, Between
  <1>5. station'[n] = u /\ \A k \in Station \ {n} : station'[k] = station[k]
    BY <1>4 DEF SenseInv, TypeOK
  <1>6. Good(x) /\ x.address = n BY <1>1 DEF SenseInv, StationsOk
  <1>7. air' = air /\ Ending' = Ending BY DEF Handled, Ending
  <1>8. /\ \A m \in Station : Got(m) \subseteq Got(m)'
        /\ t.up # None => t.up.id \in Got(n)'
    BY GotIs, UpId DEF Handled, SenseInv
  <1>9. Exchanged(x, t) BY <1>1
  <1>10. Kept(x, t) \/ (x.timer["Timeout"] = 0 /\ Ending = {} /\ t.arrived = None)
    <2>1. x.arrived # None /\ IsAck(x.arrived.frame) /\ x.arrived.frame.to = n
              => x.timer["Timeout"] = 0
      BY <1>1 DEF Exchanges, AckArrived, Confirmed
    <2> QED BY <1>1, <1>6, <1>9, <2>1 DEF Exchanged, Leaves
  <1>11. ASSUME NEW k \in Station, NEW i, NEW time, Awaits(station[k], i, time), time > 0
         PROVE  Awaits(station'[k], i, time)
    <2>1. CASE k # n BY <1>5, <1>11, <2>1
    <2>2. CASE k = n
      BY <1>1, <1>3, <1>5, <1>10, <1>11, <2>2 DEF Kept, Awaits
    <2> QED BY <2>1, <2>2
  <1>12. ASSUME NEW k \in Station, NEW m \in Station, NEW time, Confirmed(k, m, time),
                time > 0 \/ Ending # {} \/ k # n \/ t.arrived # None
         PROVE  Confirmed(k, m, time)'
    <2>1. CASE k # n BY <1>5, <1>8, <1>12, <2>1 DEF Confirmed
    <2>2. CASE k = n
      BY <1>1, <1>3, <1>5, <1>8, <1>10, <1>12, <2>2 DEF Kept, Confirmed
    <2> QED BY <2>1, <2>2
  <1>13. \A k \in Station : Rests(station[k]) => Rests(station'[k])
    BY <1>1, <1>3, <1>5, <1>9 DEF Exchanged, Rests
  <1>14. \A a \in Nat : a + SIFS + Airtime["ACK"] > 0 /\ a + Airtime["ACK"] > 0
         /\ SIFS + Airtime["ACK"] > 0
    BY Positive
  <1>15. ASSUME NEW k \in Station, NEW f \in DataFrame, NEW time \in Nat, Followed(k, f, time)
         PROVE  Followed(k, f, time)'
    <2>1. f.to # Broadcast => Awaits(station'[k], f.id, time + SIFS + Airtime["ACK"])
      BY <1>11, <1>14, <1>15 DEF Followed
    <2> QED BY <1>15, <2>1 DEF Followed
  <1>16. ASSUME NEW k \in Station PROVE DataGiven(k)'
    <2>1. PICK f : f = station'[k].down OBVIOUS
    <2>2. CASE f = station[k].down /\ f \in DataFrame
      <3>1. f.airtime \in Nat BY <2>2 DEF DataFrame, Duration
      <3> QED BY <1>1, <1>15, <2>1, <2>2, <3>1 DEF Exchanges, DataGiven
    <2>3. CASE k = n /\ SendsAck(x, t)
      <3>1. f \in Answer BY <1>3, <1>5, <2>1, <2>3, FramesType DEF SendsAck
      <3> QED BY <2>1, <3>1, FrameKinds DEF DataGiven, ControlFrame
    <2>4. CASE k = n /\ SendsData(x, t)
      <3>1. PICK g : g = Current(x) OBVIOUS
      <3>2. g \in DataFrame /\ g.from = n
        <4>1. Holds(x, Of(scenario.frames)) BY <1>1 DEF SenseInv, StationsOk
        <4> QED BY <1>6, <2>4, <3>1, <4>1, CurrentOf, OfFrames, StationFrames DEF SendsData
      <3>3. f = Data(g) /\ f.id = g.id /\ f.to = g.to /\ f.from = n /\ f.airtime = g.airtime
        BY <1>3, <1>5, <2>1, <2>4, <3>1, <3>2, FramesType DEF SendsData
      <3>4. Current(u) = g BY <1>3, <2>4, <3>1 DEF SendsData, Current
      <3>5. f.to # Broadcast => Awaits(u, f.id, f.airtime + SIFS + Airtime["ACK"])
        BY <1>3, <2>4, <3>1, <3>3, <3>4 DEF SendsData, Awaits
      <3> QED BY <1>5, <2>1, <2>4, <3>3, <3>5 DEF DataGiven, Followed
    <2> QED BY <1>1, <1>3, <1>5, <1>9, <2>1, <2>2, <2>3, <2>4 DEF Exchanged, DataGiven
  <1>17. ASSUME NEW k \in Station PROVE DataOnAir(k)'
    <2>1. air[k] # None => air[k].left \in Nat BY DEF SenseInv, TypeOK, OnAir
    <2> QED BY <1>7, <1>15, <2>1 DEF Exchanges, DataOnAir
  <1>18. ASSUME NEW k \in Station PROVE DataArrived(k)'
    <2>1. PICK f : f = station'[k].arrived.frame OBVIOUS
    <2>2. CASE station'[k].arrived # None /\ f \in DataFrame
      <3>1. station'[k].arrived = station[k].arrived
        BY <1>1, <1>3, <1>5, <1>9, <2>2 DEF Exchanged
      <3>2. f.from \in Station BY <2>2 DEF DataFrame
      <3>3. Rests(station[f.from]) /\ (f.to = k => Awaits(station[f.from], f.id, SIFS + Airtime["ACK"]))
        BY <2>1, <2>2, <3>1 DEF Exchanges, DataArrived
      <3>4. f.to = k => Awaits(station'[f.from], f.id, SIFS + Airtime["ACK"])
        BY <1>11, <1>14, <3>2, <3>3
      <3> QED BY <1>13, <2>1, <3>2, <3>3, <3>4 DEF DataArrived
    <2> QED BY <2>1, <2>2 DEF DataArrived
  <1>19. ASSUME NEW k \in Station PROVE DataAnswered(k)'
    <2>1. PICK f : f = station'[k].answering OBVIOUS
    <2>2. CASE f \in DataFrame /\ f = station[k].answering
               /\ (station[k].fsm = "WAITSIFS" => station'[k].fsm = "WAITSIFS"
                      /\ station'[k].timer["SIFS"] = station[k].timer["SIFS"])
      <3>1. /\ station[k].fsm = "WAITSIFS"
            /\ Confirmed(f.from, k, station[k].timer["SIFS"] + Airtime["ACK"])
        BY <2>2 DEF Exchanges, DataAnswered
      <3>2. station[k].timer["SIFS"] \in Nat
        <4>1. Good(station[k]) BY DEF SenseInv, StationsOk
        <4> QED BY <3>1, <4>1, TimerNat DEF Good, OwnTimers, TimerName
      <3>3. f.from \in Station BY <2>2 DEF DataFrame
      <3>4. Confirmed(f.from, k, station[k].timer["SIFS"] + Airtime["ACK"])'
        BY <1>12, <1>14, <2>2, <3>1, <3>2, <3>3
      <3> QED BY <2>1, <2>2, <3>1, <3>4 DEF DataAnswered
    <2>3. CASE k = n /\ f \in DataFrame /\ TakesData(x, t)
      <3>1. f = x.arrived.frame /\ f.to = n /\ t.up = f /\ x.arrived # None
        BY <1>3, <1>5, <1>6, <2>1, <2>3 DEF TakesData
      <3>2. u.fsm = "WAITSIFS" /\ u.timer["SIFS"] = SIFS BY <1>3, <2>3 DEF TakesData
      <3>3. PICK m : m = f.from OBVIOUS
      <3>4. m \in Station BY <2>3, <3>3 DEF DataFrame
      <3>5. Awaits(station[m], f.id, SIFS + Airtime["ACK"])
        BY <1>1, <2>3, <3>1, <3>3 DEF Exchanges, DataArrived
      <3>6. Awaits(station'[m], f.id, SIFS + Airtime["ACK"]) BY <1>11, <1>14, <3>4, <3>5
      <3>7. m # n BY <1>5, <3>2, <3>6 DEF Awaits
      <3>8. Current(station[m]).to = n
        <4>1. station[m].queue # <<>> BY <3>4, <3>5 DEF Awaits, SenseInv, StationsOk, Good, Placed
        <4>2. Current(station[m]) \in Of(scenario.frames) BY <3>4, <4>1, CurrentId
        <4>3. f \in Of(scenario.frames)
          <5>1. f \in Of(scenario.frames) \cup ControlFrame
            BY <1>1, <3>1 DEF SenseInv, StationsOk, Holds
          <5> QED BY <2>3, <5>1, FrameKinds
        <4> QED BY <3>1, <3>5, <4>2, <4>3 DEF Awaits, Of
      <3>9. t.up # None BY <2>3, <3>1, FrameKinds
      <3>10. f.id \in Got(n)' BY <1>8, <3>1, <3>9
      <3>11. Confirmed(m, n, SIFS + Airtime["ACK"])'
        BY <1>5, <3>4, <3>6, <3>7, <3>8, <3>10 DEF Awaits, Confirmed
      <3> QED BY <1>5, <2>1, <2>3, <3>2, <3>3, <3>11 DEF DataAnswered
    <2> QED BY <1>1, <1>3, <1>5, <1>9, <2>1, <2>2, <2>3 DEF Exchanged, StillAnswers, DataAnswered
  <1>20. ASSUME NEW k \in Station PROVE AckGiven(k)'
    <2>1. PICK f : f = station'[k].down OBVIOUS
    <2>2. CASE f = station[k].down /\ IsAck(f)
      <3>1. f.airtime = Airtime["ACK"] /\ Confirmed(f.to, k, f.airtime)
        BY <2>2 DEF Exchanges, AckGiven
      <3>2. f.to \in Station /\ f.airtime > 0 BY <2>2, <3>1, Positive DEF IsAck, Answer
      <3>3. Confirmed(f.to, k, f.airtime)' BY <1>12, <3>1, <3>2
      <3> QED BY <2>1, <3>1, <3>3 DEF AckGiven
    <2>3. CASE k = n /\ SendsAck(x, t)
      <3>1. PICK g : g = x.answering OBVIOUS
      <3>2. g \in DataFrame /\ f = Ack(g) BY <1>3, <1>5, <2>1, <2>3, <3>1 DEF SendsAck
      <3>3. f.to = g.from /\ f.airtime = Airtime["ACK"] /\ g.from \in Station
        BY <3>2 DEF Ack, DataFrame
      <3>4. Confirmed(g.from, n, x.timer["SIFS"] + Airtime["ACK"])
        BY <1>1, <3>1, <3>2 DEF Exchanges, DataAnswered
      <3>5. x.timer["SIFS"] + Airtime["ACK"] = Airtime["ACK"] BY <2>3, Positive DEF SendsAck
      <3>6. Confirmed(g.from, n, Airtime["ACK"]) BY <3>4, <3>5
      <3>7. Airtime["ACK"] > 0 BY Positive
      <3>8. Confirmed(g.from, n, Airtime["ACK"])' BY <1>12, <3>3, <3>6, <3>7
      <3> QED BY <2>1, <2>3, <3>3, <3>8 DEF AckGiven
    <2>4. CASE k = n /\ SendsData(x, t)
      <3>1. Current(x) \in DataFrame BY <1>6, <2>4, StationFrames DEF SendsData
      <3>2. f \in DataFrame BY <1>3, <1>5, <2>1, <2>4, <3>1, FramesType DEF SendsData
      <3> QED BY <2>1, <3>2, FrameKinds DEF AckGiven, IsAck, ControlFrame
    <2> QED BY <1>1, <1>3, <1>5, <1>9, <2>1, <2>2, <2>3, <2>4 DEF Exchanged, AckGiven
  <1>21. ASSUME NEW k \in Station PROVE AckOnAir(k)'
    <2>1. PICK b : b = air[k] OBVIOUS
    <2>2. CASE b # None /\ IsAck(b.frame)
      <3>1. PICK m : m = b.frame.to OBVIOUS
      <3>2. PICK time : time = b.left OBVIOUS
      <3>3. Confirmed(m, k, time) BY <2>1, <2>2, <3>1, <3>2 DEF Exchanges, AckOnAir
      <3>4. m \in Station BY <2>2, <3>1 DEF IsAck, Answer
      <3>5. time > 0 \/ Ending # {}
        BY <2>1, <2>2, <3>2 DEF SenseInv, TypeOK, OnAir, Ending
      <3>6. Confirmed(m, k, time)' BY <1>12, <3>3, <3>4, <3>5
      <3> QED BY <1>7, <2>1, <3>1, <3>2, <3>6 DEF AckOnAir
    <2> QED BY <1>7, <2>1, <2>2 DEF AckOnAir
  <1>22. ASSUME NEW k \in Station PROVE AckArrived(k)'
    <2>1. PICK f : f = station'[k].arrived.frame OBVIOUS
    <2>2. CASE station'[k].arrived # None /\ IsAck(f) /\ f.to = k
      <3>1. station'[k].arrived = station[k].arrived
        BY <1>1, <1>3, <1>5, <1>9, <2>2 DEF Exchanged
      <3>2. PICK m : m = Current(station[k]).to OBVIOUS
      <3>3. Confirmed(k, m, 0) BY <2>1, <2>2, <3>1, <3>2 DEF Exchanges, AckArrived
      <3>4. m \in Station
        <4>1. Good(station[k]) BY DEF SenseInv, StationsOk
        <4>2. station[k].queue # <<>> /\ m # Broadcast BY <3>2, <3>3, <4>1 DEF Confirmed, Good, Placed
        <4> QED BY <3>2, <4>1, <4>2, StationFrames DEF DataFrame
      <3>5. k # n \/ t.arrived # None BY <1>3, <1>5, <2>2
      <3>6. Confirmed(k, m, 0)' BY <1>12, <3>3, <3>4, <3>5
      <3>7. Current(station'[k]).to = m BY <3>2, <3>6 DEF Confirmed
      <3> QED BY <2>1, <3>6, <3>7 DEF AckArrived
    <2> QED BY <2>1, <2>2 DEF AckArrived
  <1> QED BY <1>16, <1>17, <1>18, <1>19, <1>20, <1>21, <1>22 DEF Exchanges

-----------------------------------------------------------------------------
(* The exchange, when a radio takes a step or time passes. *)

LEMMA TunesKept ==
  ASSUME NEW s, NEW t, Tunes(s, t)
  PROVE  /\ Kept(s, t) /\ StillAnswers(s, t)
         /\ Rests(s) /\ t.down = None /\ t.arrived = None => Rests(t)
PROOF
  <1>1. Kept(s, t) BY DEF Tunes, Unmoved, Kept, Current
  <1>2. StillAnswers(s, t) BY DEF Tunes, Unmoved, StillAnswers
  <1>3. Rests(s) /\ t.down = None /\ t.arrived = None => Rests(t)
    BY DEF Tunes, Unmoved, Rests, Idling
  <1> QED BY <1>1, <1>2, <1>3

LEMMA AllKept ==
  ASSUME Exchanges, got' = got, \A k \in Station : Tunes(station[k], station'[k])
  PROVE  /\ \A k \in Station : \A i, time : Awaits(station[k], i, time) => Awaits(station'[k], i, time)
         /\ \A k \in Station : \A m, time : Confirmed(k, m, time) => Confirmed(k, m, time)'
         /\ \A k \in Station : \A f, time : Followed(k, f, time) => Followed(k, f, time)'
         /\ \A k \in Station : DataAnswered(k)'
PROOF
  <1>1. \A k \in Station : Kept(station[k], station'[k]) /\ StillAnswers(station[k], station'[k])
    BY TunesKept
  <1>2. \A k \in Station : \A i, time : Awaits(station[k], i, time) => Awaits(station'[k], i, time)
    BY <1>1 DEF Kept, Awaits
  <1>3. ASSUME NEW k \in Station, NEW m, NEW time, Confirmed(k, m, time)
        PROVE  Confirmed(k, m, time)'
    <2>1. Got(m)' = Got(m) BY DEF Got
    <2> QED BY <1>1, <1>3, <2>1 DEF Kept, Confirmed
  <1>4. \A k \in Station : \A f, time : Followed(k, f, time) => Followed(k, f, time)'
    BY <1>2 DEF Followed
  <1>5. ASSUME NEW k \in Station PROVE DataAnswered(k)'
    <2>1. PICK f : f = station[k].answering OBVIOUS
    <2>2. station'[k].answering = f BY <1>1, <2>1 DEF StillAnswers
    <2>3. CASE f \in DataFrame
      <3>1. /\ station[k].fsm = "WAITSIFS"
            /\ Confirmed(f.from, k, station[k].timer["SIFS"] + Airtime["ACK"])
        BY <2>1, <2>3 DEF Exchanges, DataAnswered
      <3>2. station'[k].fsm = "WAITSIFS" /\ station'[k].timer["SIFS"] = station[k].timer["SIFS"]
        BY <1>1, <3>1 DEF StillAnswers
      <3>3. f.from \in Station BY <2>3 DEF DataFrame
      <3>4. PICK m, time : m = f.from /\ time = station[k].timer["SIFS"] + Airtime["ACK"] OBVIOUS
      <3>5. Confirmed(m, k, time)' BY <1>3, <3>1, <3>3, <3>4
      <3> QED BY <2>2, <3>2, <3>4, <3>5 DEF DataAnswered
    <2> QED BY <2>2, <2>3 DEF DataAnswered
  <1> QED BY <1>2, <1>3, <1>4, <1>5

LEMMA RadioSendsIs ==
  ASSUME SenseInv, NEW n \in Station, RadioSends(n)
  PROVE  /\ station[n].down # None /\ station[n].arrived = None /\ Tunes(station[n], station'[n])
         /\ station'[n].down = None /\ station'[n].arrived = None
         /\ \A m \in Station \ {n} : station'[m] = station[m] /\ air'[m] = air[m]
         /\ air'[n] = [frame |-> station[n].down, left |-> station[n].down.airtime, new |-> TRUE]
         /\ waiting' = waiting /\ scenario' = scenario /\ got' = got /\ outcome' = outcome
PROOF
  <1>1. PICK x : x = station[n] OBVIOUS
  <1>2. PICK t : t = Sending(x) OBVIOUS
  <1>3. PICK b : b = [frame |-> x.down, left |-> x.down.airtime, new |-> TRUE] OBVIOUS
  <1>4. /\ x.down # None /\ station' = [station EXCEPT ![n] = t] /\ air' = [air EXCEPT ![n] = b]
        /\ waiting' = waiting /\ scenario' = scenario /\ got' = got /\ outcome' = outcome
    BY <1>1, <1>2, <1>3 DEF RadioSends, Sending
  <1>5. Good(x) BY <1>1 DEF SenseInv, StationsOk
  <1>6. Tunes(x, t) /\ t.down = None /\ t.arrived = None /\ x.arrived = None
    BY <1>2, <1>4, <1>5, RadioSendsGood
  <1>7. /\ station'[n] = t /\ \A m \in Station \ {n} : station'[m] = station[m]
        /\ air'[n] = b /\ \A m \in Station \ {n} : air'[m] = air[m]
    BY <1>4 DEF SenseInv, TypeOK
  <1> QED BY <1>1, <1>3, <1>4, <1>6, <1>7

LEMMA UnchangedTunes ==
  ASSUME NEW s
  PROVE  Tunes(s, s)
  BY DEF Tunes, Unmoved

LEMMA RadioSendsExchanges ==
  ASSUME SenseInv, Exchanges, NEW n \in Station, RadioSends(n)
  PROVE  Exchanges'
PROOF
  <1>1. PICK f : f = station[n].down OBVIOUS
  <1>2. /\ f # None /\ station[n].arrived = None
        /\ station'[n].down = None /\ station'[n].arrived = None
        /\ \A m \in Station \ {n} : station'[m] = station[m] /\ air'[m] = air[m]
        /\ air'[n].frame = f /\ air'[n].left = f.airtime /\ got' = got
    <2>1. air'[n] = [frame |-> f, left |-> f.airtime, new |-> TRUE] BY <1>1, RadioSendsIs
    <2>2. air'[n].frame = f /\ air'[n].left = f.airtime BY <2>1
    <2> QED BY <1>1, <2>2, RadioSendsIs
  <1>3. \A k \in Station : Tunes(station[k], station'[k])
    BY <1>2, RadioSendsIs, UnchangedTunes
  <1>4. /\ \A k \in Station : \A i, time : Awaits(station[k], i, time) => Awaits(station'[k], i, time)
        /\ \A k \in Station : \A m, time : Confirmed(k, m, time) => Confirmed(k, m, time)'
        /\ \A k \in Station : \A g, time : Followed(k, g, time) => Followed(k, g, time)'
        /\ \A k \in Station : DataAnswered(k)'
    BY <1>2, <1>3, AllKept
  <1>5. ASSUME NEW k \in Station PROVE DataGiven(k)'
    <2>1. CASE k = n BY <1>2, <2>1, FrameKinds DEF DataGiven
    <2>2. CASE k # n BY <1>2, <1>4, <2>2 DEF DataGiven, Exchanges
    <2> QED BY <2>1, <2>2
  <1>6. ASSUME NEW k \in Station PROVE DataOnAir(k)'
    <2>1. CASE k = n
      <3>1. f \in DataFrame => Followed(n, f, f.airtime) BY <1>1 DEF Exchanges, DataGiven
      <3>2. f \in DataFrame => Followed(n, f, f.airtime)' BY <1>4, <3>1
      <3> QED BY <1>2, <2>1, <3>2 DEF DataOnAir, Followed
    <2>2. CASE k # n
      <3>1. PICK b : b = air[k] OBVIOUS
      <3>2. b # None /\ b.frame \in DataFrame => Followed(k, b.frame, b.left)
        BY <3>1 DEF Exchanges, DataOnAir
      <3>3. b # None /\ b.frame \in DataFrame => Followed(k, b.frame, b.left)'
        BY <1>4, <3>2
      <3> QED BY <1>2, <2>2, <3>1, <3>3 DEF DataOnAir
    <2> QED BY <2>1, <2>2
  <1>7. ASSUME NEW k \in Station PROVE DataArrived(k)'
    <2>1. PICK g : g = station'[k].arrived.frame OBVIOUS
    <2>2. CASE station'[k].arrived # None /\ g \in DataFrame
      <3>1. station'[k].arrived = station[k].arrived BY <1>2, <2>2
      <3>2. g.from \in Station BY <2>2 DEF DataFrame
      <3>3. Rests(station[g.from]) /\ (g.to = k => Awaits(station[g.from], g.id, SIFS + Airtime["ACK"]))
        BY <2>1, <2>2, <3>1 DEF Exchanges, DataArrived
      <3>4. g.from # n BY <1>1, <1>2, <3>3 DEF Rests
      <3> QED BY <1>2, <2>1, <3>2, <3>3, <3>4 DEF DataArrived
    <2> QED BY <2>1, <2>2 DEF DataArrived
  <1>8. ASSUME NEW k \in Station PROVE AckGiven(k)'
    <2>1. PICK g : g = station[k].down OBVIOUS
    <2>2. CASE k = n BY <1>2, <2>2, FrameKinds DEF AckGiven
    <2>3. CASE k # n /\ IsAck(g)
      <3>1. g.airtime = Airtime["ACK"] /\ Confirmed(g.to, k, g.airtime)
        BY <2>1, <2>3 DEF Exchanges, AckGiven
      <3>2. g.to \in Station BY <2>3 DEF IsAck, Answer
      <3>3. Confirmed(g.to, k, g.airtime)' BY <1>4, <3>1, <3>2
      <3> QED BY <1>2, <2>1, <2>3, <3>1, <3>3 DEF AckGiven
    <2> QED BY <1>2, <2>1, <2>2, <2>3 DEF AckGiven
  <1>9. ASSUME NEW k \in Station PROVE AckOnAir(k)'
    <2>1. CASE k = n /\ IsAck(f)
      <3>1. Confirmed(f.to, n, f.airtime) BY <1>1, <2>1 DEF Exchanges, AckGiven
      <3>2. f.to \in Station BY <2>1 DEF IsAck, Answer
      <3>3. Confirmed(f.to, n, f.airtime)' BY <1>4, <3>1, <3>2
      <3> QED BY <1>2, <2>1, <3>3 DEF AckOnAir
    <2>2. CASE k # n
      <3>1. PICK b : b = air[k] OBVIOUS
      <3>2. b # None /\ IsAck(b.frame) => b.frame.to \in Station /\ Confirmed(b.frame.to, k, b.left)
        BY <3>1 DEF Exchanges, AckOnAir, IsAck, Answer
      <3>3. b # None /\ IsAck(b.frame) => Confirmed(b.frame.to, k, b.left)' BY <1>4, <3>2
      <3> QED BY <1>2, <2>2, <3>1, <3>3 DEF AckOnAir
    <2> QED BY <1>2, <2>1, <2>2 DEF AckOnAir
  <1>10. ASSUME NEW k \in Station PROVE AckArrived(k)'
    <2>1. CASE station'[k].arrived # None
      <3>1. k # n BY <1>2, <2>1
      <3>2. station'[k] = station[k] BY <1>2, <3>1
      <3>3. \A m, time : Confirmed(k, m, time) => Confirmed(k, m, time)' BY <1>4
      <3> QED BY <3>2, <3>3 DEF Exchanges, AckArrived
    <2> QED BY <2>1 DEF AckArrived
  <1> QED BY <1>4, <1>5, <1>6, <1>7, <1>8, <1>9, <1>10 DEF Exchanges

LEMMA FramesArriveAir ==
  ASSUME SenseInv, FramesArrive
  PROVE  \A n \in Station : air'[n] # None =>
            air[n] # None /\ air'[n].frame = air[n].frame /\ air'[n].left = air[n].left
PROOF
  <1>1. air' = [n \in Station |-> IF n \in New THEN [air[n] EXCEPT !.new = FALSE] ELSE air[n]]
    BY DEF FramesArrive
  <1>2. \A n \in New : air[n] \in OnAir /\ air[n] # None BY DEF New, SenseInv, TypeOK
  <1>3. ASSUME NEW b \in OnAir, NEW c, c = [b EXCEPT !.new = FALSE]
        PROVE  c.frame = b.frame /\ c.left = b.left
    BY <1>3 DEF OnAir
  <1>4. \A n \in New : air'[n] = [air[n] EXCEPT !.new = FALSE] BY <1>1 DEF New
  <1>5. \A n \in Station \ New : air'[n] = air[n] BY <1>1
  <1> QED BY <1>2, <1>3, <1>4, <1>5

LEMMA FramesArriveExchanges ==
  ASSUME SenseInv, Exchanges, FramesArrive
  PROVE  Exchanges'
PROOF
  <1>1. \A n \in Station : /\ station'[n].down = None /\ station'[n].arrived = None
                           /\ Tunes(station[n], station'[n])
    BY FramesArriveSense
  <1>2. got' = got BY DEF FramesArrive
  <1>3. \A n \in Station : air'[n] # None =>
            air[n] # None /\ air'[n].frame = air[n].frame /\ air'[n].left = air[n].left
    BY FramesArriveAir
  <1>4. /\ \A k \in Station : \A m, time : Confirmed(k, m, time) => Confirmed(k, m, time)'
        /\ \A k \in Station : \A g, time : Followed(k, g, time) => Followed(k, g, time)'
        /\ \A k \in Station : DataAnswered(k)'
    BY <1>1, <1>2, AllKept
  <1>5. \A k \in Station : DataGiven(k)' /\ DataArrived(k)' /\ AckGiven(k)' /\ AckArrived(k)'
    BY <1>1, FrameKinds DEF DataGiven, DataArrived, AckGiven, AckArrived
  <1>6. ASSUME NEW k \in Station PROVE DataOnAir(k)' /\ AckOnAir(k)'
    <2>1. PICK b : b = air[k] OBVIOUS
    <2>2. b # None /\ b.frame \in DataFrame => Followed(k, b.frame, b.left)'
      BY <1>4, <2>1 DEF Exchanges, DataOnAir
    <2>3. b # None /\ IsAck(b.frame) => b.frame.to \in Station /\ Confirmed(b.frame.to, k, b.left)
      BY <2>1 DEF Exchanges, AckOnAir, IsAck, Answer
    <2>4. b # None /\ IsAck(b.frame) => Confirmed(b.frame.to, k, b.left)' BY <1>4, <2>3
    <2> QED BY <1>3, <2>1, <2>2, <2>4 DEF DataOnAir, AckOnAir
  <1> QED BY <1>4, <1>5, <1>6 DEF Exchanges

(* A station that sends rests until its MAC is told of the end. *)
LEMMA SendingRests ==
  ASSUME NEW s, Good(s), s.radio = "TRANSMIT", NEW t, Tunes(s, t), t.down = s.down, t.arrived = None
  PROVE  Rests(t)
PROOF
  <1>1. s.down = None /\ s.fsm \notin {"BACKOFF", "WAITSIFS", "WAITDIFS"}
    BY DEF Good, Coupled, Passing, Senses, isMediumFree
  <1>2. s.timer["DIFS"] = -1 BY <1>1 DEF Good, OwnTimers, Scheduled
  <1> QED BY <1>1, <1>2 DEF Tunes, Unmoved, Rests, Idling

LEMMA FramesEndExchanges ==
  ASSUME SenseInv, Exchanges, FramesEnd
  PROVE  Exchanges'
PROOF
  <1>1. \A n \in Station :
            /\ station'[n].down = station[n].down /\ Tunes(station[n], station'[n])
            /\ station'[n].arrived # None =>
                  /\ station[n].receiving \in Ending
                  /\ station'[n].arrived.frame = air[station[n].receiving].frame
    BY FramesEndSense
  <1>2. got' = got BY DEF FramesEnd
  <1>3. \A n \in Station : air'[n] # None => air'[n] = air[n]
    BY DEF FramesEnd
  <1>4. /\ \A k \in Station : \A i, time : Awaits(station[k], i, time) => Awaits(station'[k], i, time)
        /\ \A k \in Station : \A m, time : Confirmed(k, m, time) => Confirmed(k, m, time)'
        /\ \A k \in Station : \A g, time : Followed(k, g, time) => Followed(k, g, time)'
        /\ \A k \in Station : DataAnswered(k)'
    BY <1>1, <1>2, AllKept
  <1>5. ASSUME NEW k \in Station PROVE DataGiven(k)' /\ AckGiven(k)'
    <2>1. PICK f : f = station[k].down OBVIOUS
    <2>2. f \in DataFrame => Followed(k, f, f.airtime)'
      BY <1>4, <2>1 DEF Exchanges, DataGiven
    <2>3. IsAck(f) => f.airtime = Airtime["ACK"] /\ f.to \in Station /\ Confirmed(f.to, k, f.airtime)
      BY <2>1 DEF Exchanges, AckGiven, IsAck, Answer
    <2>4. IsAck(f) => Confirmed(f.to, k, f.airtime)' BY <1>4, <2>3
    <2> QED BY <1>1, <2>1, <2>2, <2>3, <2>4 DEF DataGiven, AckGiven
  <1>6. ASSUME NEW k \in Station PROVE DataOnAir(k)' /\ AckOnAir(k)'
    <2>1. PICK b : b = air[k] OBVIOUS
    <2>2. b # None /\ b.frame \in DataFrame => Followed(k, b.frame, b.left)'
      BY <1>4, <2>1 DEF Exchanges, DataOnAir
    <2>3. b # None /\ IsAck(b.frame) => b.frame.to \in Station /\ Confirmed(b.frame.to, k, b.left)
      BY <2>1 DEF Exchanges, AckOnAir, IsAck, Answer
    <2>4. b # None /\ IsAck(b.frame) => Confirmed(b.frame.to, k, b.left)' BY <1>4, <2>3
    <2> QED BY <1>3, <2>1, <2>2, <2>4 DEF DataOnAir, AckOnAir
  <1>7. ASSUME NEW m \in Station, station'[m].arrived # None,
               NEW f, f = station'[m].arrived.frame, NEW k, k = station[m].receiving
        PROVE  k \in Station /\ air[k] # None /\ air[k].left = 0 /\ air[k].frame = f
    BY <1>1, <1>7 DEF Ending
  <1>8. ASSUME NEW m \in Station PROVE DataArrived(m)'
    <2>1. PICK f : f = station'[m].arrived.frame OBVIOUS
    <2>2. CASE station'[m].arrived # None /\ f \in DataFrame
      <3>1. PICK k : k = station[m].receiving OBVIOUS
      <3>2. k \in Station /\ air[k] # None /\ air[k].left = 0 /\ air[k].frame = f
        BY <1>7, <2>1, <2>2, <3>1
      <3>3. Followed(k, f, 0) BY <2>2, <3>2 DEF Exchanges, DataOnAir
      <3>4. f.from = k /\ (f.to # Broadcast => Awaits(station[k], f.id, SIFS + Airtime["ACK"]))
        <4>1. 0 + SIFS + Airtime["ACK"] = SIFS + Airtime["ACK"] BY Positive
        <4> QED BY <3>3, <4>1 DEF Followed
      <3>5. f.to = m => Awaits(station'[k], f.id, SIFS + Airtime["ACK"])
        BY <1>4, <3>2, <3>4, MacAssumption
      <3>6. Rests(station'[k])
        <4>1. Good(station[k]) /\ station[k].radio = "TRANSMIT"
          BY <3>2 DEF SenseInv, StationsOk, OnAirOk
        <4>2. station[k].receiving = None BY <4>1 DEF Good, Coupled
        <4>3. None \notin Ending BY MacAssumption DEF Ending
        <4>4. station'[k].arrived = None BY <1>1, <3>2, <4>2, <4>3
        <4> QED BY <1>1, <3>2, <4>1, <4>4, SendingRests
      <3> QED BY <2>1, <3>4, <3>5, <3>6 DEF DataArrived
    <2> QED BY <2>1, <2>2 DEF DataArrived
  <1>9. ASSUME NEW n \in Station PROVE AckArrived(n)'
    <2>1. PICK f : f = station'[n].arrived.frame OBVIOUS
    <2>2. CASE station'[n].arrived # None /\ IsAck(f) /\ f.to = n
      <3>1. PICK k : k = station[n].receiving OBVIOUS
      <3>2. k \in Station /\ air[k] # None /\ air[k].left = 0 /\ air[k].frame = f
        BY <1>7, <2>1, <2>2, <3>1
      <3>3. Confirmed(n, k, 0) BY <2>2, <3>2 DEF Exchanges, AckOnAir
      <3>4. Confirmed(n, k, 0)' BY <1>4, <3>3
      <3>5. Current(station'[n]).to = k BY <3>4 DEF Confirmed
      <3> QED BY <2>1, <3>4, <3>5 DEF AckArrived
    <2> QED BY <2>1, <2>2 DEF AckArrived
  <1> QED BY <1>4, <1>5, <1>6, <1>8, <1>9 DEF Exchanges

LEMMA TickExchanges ==
  ASSUME SenseInv, Exchanges, Tick
  PROVE  Exchanges'
PROOF
  <1>1. PICK d \in Nat \ {0} :
            /\ \A n \in Station :
                  LET s == station[n]  t == station'[n] IN
                  /\ SameRadio(s, t) /\ SameFrames(s, t) /\ SameCount(s, t)
                  /\ s.down = None /\ s.arrived = None
                  /\ \A e \in TimerName : /\ s.timer[e] # 0
                                          /\ t.timer[e] = IF s.timer[e] = -1 THEN -1 ELSE s.timer[e] - d
            /\ \A n \in Station :
                  /\ air[n] = None <=> air'[n] = None
                  /\ air[n] # None => /\ air'[n].left = air[n].left - d
                                      /\ air'[n].frame = air[n].frame
    BY TickSense
  <1>2. got' = got BY DEF Tick
  <1>3. \A n \in Station : station'[n].down = None /\ station'[n].arrived = None
    BY <1>1 DEF SameFrames
  <1>4. \A k \in Station : DataGiven(k)' /\ DataArrived(k)' /\ AckGiven(k)' /\ AckArrived(k)'
    BY <1>3, FrameKinds DEF DataGiven, DataArrived, AckGiven, AckArrived
  <1>5. \A k \in Station : /\ station'[k].fsm = station[k].fsm
                           /\ Current(station'[k]) = Current(station[k])
                           /\ station'[k].answering = station[k].answering
    BY <1>1 DEF SameCount, SameFrames, Current
  <1>6. \A k \in Station, e \in TimerName :
            station[k].timer[e] # -1 => station'[k].timer[e] = station[k].timer[e] - d
    BY <1>1
  <1>7. ASSUME NEW k \in Station, NEW i, NEW time \in Nat, Awaits(station[k], i, time)
        PROVE  Awaits(station'[k], i, time - d)
    BY <1>5, <1>6, <1>7 DEF Awaits, TimerName
  <1>8. ASSUME NEW k \in Station, NEW m, NEW time \in Nat, Confirmed(k, m, time)
        PROVE  Confirmed(k, m, time - d)'
    <2>1. Got(m)' = Got(m) BY <1>2 DEF Got
    <2>2. station[k].timer["Timeout"] # -1 BY <1>8 DEF Confirmed
    <2> QED BY <1>5, <1>6, <1>8, <2>1, <2>2 DEF Confirmed, TimerName
  <1>9. \A k \in Station : air[k] # None => air[k].left \in Nat BY DEF SenseInv, TypeOK, OnAir
  <1>10. SIFS \in Nat /\ Airtime["ACK"] \in Nat BY Positive
  <1>11. ASSUME NEW k \in Station PROVE DataOnAir(k)'
    <2>1. PICK b, c : b = air[k] /\ c = air'[k] OBVIOUS
    <2>2. CASE b # None /\ b.frame \in DataFrame
      <3>1. PICK f : f = b.frame OBVIOUS
      <3>2. c.frame = f /\ c.left = b.left - d /\ b.left \in Nat BY <1>1, <1>9, <2>1, <2>2, <3>1
      <3>3. f.from = k /\ (f.to # Broadcast => Awaits(station[k], f.id, b.left + SIFS + Airtime["ACK"]))
        BY <2>1, <2>2, <3>1 DEF Exchanges, DataOnAir, Followed
      <3>4. PICK before, after :
                before = b.left + SIFS + Airtime["ACK"] /\ after = c.left + SIFS + Airtime["ACK"]
        OBVIOUS
      <3>5. before \in Nat /\ after = before - d BY <1>10, <3>2, <3>4
      <3>6. f.to # Broadcast => Awaits(station'[k], f.id, after) BY <1>7, <3>3, <3>4, <3>5
      <3> QED BY <2>1, <3>2, <3>3, <3>4, <3>6 DEF DataOnAir, Followed
    <2> QED BY <1>1, <2>1, <2>2 DEF DataOnAir
  <1>12. ASSUME NEW k \in Station PROVE AckOnAir(k)'
    <2>1. PICK b, c : b = air[k] /\ c = air'[k] OBVIOUS
    <2>2. CASE b # None /\ IsAck(b.frame)
      <3>1. PICK m : m = b.frame.to OBVIOUS
      <3>2. m \in Station BY <2>2, <3>1 DEF IsAck, Answer
      <3>3. c.frame = b.frame /\ c.left = b.left - d /\ b.left \in Nat BY <1>1, <1>9, <2>1, <2>2
      <3>4. Confirmed(m, k, b.left) BY <2>1, <2>2, <3>1 DEF Exchanges, AckOnAir
      <3>5. PICK time : time = c.left OBVIOUS
      <3>6. Confirmed(m, k, time)' BY <1>8, <3>2, <3>3, <3>4, <3>5
      <3> QED BY <2>1, <3>1, <3>3, <3>5, <3>6 DEF AckOnAir
    <2> QED BY <1>1, <2>1, <2>2 DEF AckOnAir
  <1>13. ASSUME NEW k \in Station PROVE DataAnswered(k)'
    <2>1. PICK f : f = station[k].answering OBVIOUS
    <2>2. CASE f \in DataFrame
      <3>1. PICK w : w = station[k].timer["SIFS"] OBVIOUS
      <3>2. station[k].fsm = "WAITSIFS" /\ Confirmed(f.from, k, w + Airtime["ACK"])
        BY <2>1, <2>2, <3>1 DEF Exchanges, DataAnswered
      <3>3. w \in Nat
        <4>1. Good(station[k]) BY DEF SenseInv, StationsOk
        <4> QED BY <3>1, <3>2, <4>1, TimerNat DEF Good, OwnTimers, TimerName
      <3>4. f.from \in Station BY <2>2 DEF DataFrame
      <3>5. PICK m, before, after :
                m = f.from /\ before = w + Airtime["ACK"] /\ after = w - d + Airtime["ACK"]
        OBVIOUS
      <3>6. before \in Nat /\ after = before - d BY <1>10, <3>3, <3>5
      <3>7. Confirmed(m, k, before) BY <3>2, <3>5
      <3>8. m \in Station BY <3>4, <3>5
      <3>9. Confirmed(m, k, after)' BY <1>8, <3>6, <3>7, <3>8
      <3>10. station'[k].timer["SIFS"] = w - d BY <1>6, <3>1, <3>3 DEF TimerName
      <3> QED BY <1>5, <2>1, <3>2, <3>5, <3>9, <3>10 DEF DataAnswered
    <2> QED BY <1>5, <2>1, <2>2 DEF DataAnswered
  <1> QED BY <1>4, <1>11, <1>12, <1>13 DEF Exchanges

-----------------------------------------------------------------------------
(* The order of the frames of a station. *)

LEMMA InTurnShrinks ==
  ASSUME NEW H, NEW P, NEW Q, NEW U, InTurn(H, P, Q, U),
         NEW H1 \in SUBSET H, NEW P1 \in SUBSET P, NEW Q1 \in SUBSET Q, NEW U1 \in SUBSET U
  PROVE  InTurn(H1, P1, Q1, U1)
PROOF
  <1>1. NotAfter(H1, P1) /\ NotAfter(H1, Q1) /\ NotAfter(P1, Q1) BY DEF InTurn, NotAfter
  <1>2. Before(H1, U1) /\ Before(P1, U1) /\ Before(Q1, U1) BY DEF InTurn, Before
  <1>3. \A i, j \in P1 : i = j BY DEF InTurn
  <1> QED BY <1>1, <1>2, <1>3 DEF InTurn

(* A frame that is in play is heard, ... *)
LEMMA InTurnHeard ==
  ASSUME NEW H, NEW P \in SUBSET Nat, NEW Q, NEW U, InTurn(H, P, Q, U), NEW i \in P
  PROVE  InTurn(H \cup {i}, P, Q, U)
PROOF
  <1>1. NotAfter(H \cup {i}, P) /\ NotAfter(H \cup {i}, Q) /\ NotAfter(P, Q)
    BY DEF InTurn, NotAfter
  <1>2. Before(H \cup {i}, U) /\ Before(P, U) /\ Before(Q, U) BY DEF InTurn, Before
  <1> QED BY <1>1, <1>2 DEF InTurn

(* ... the first that is still to be sent is queued, ... *)
LEMMA InTurnQueued ==
  ASSUME NEW H \in SUBSET Nat, NEW P \in SUBSET Nat, NEW Q \in SUBSET Nat, NEW U \in SUBSET Nat,
         InTurn(H, P, Q, U), NEW i \in U, \A j \in U : i <= j
  PROVE  InTurn(H, P, Q \cup {i}, U \ {i})
PROOF
  <1>1. NotAfter(H, P) /\ NotAfter(H, Q \cup {i}) /\ NotAfter(P, Q \cup {i})
    BY DEF InTurn, NotAfter, Before
  <1>2. Before(H, U \ {i}) /\ Before(P, U \ {i}) BY DEF InTurn, Before
  <1>3. Before(Q \cup {i}, U \ {i}) BY DEF InTurn, Before
  <1>4. \A j, k \in P : j = k BY DEF InTurn
  <1> QED BY <1>1, <1>2, <1>3, <1>4 DEF InTurn

(* ... and the first of the queue is sent when no other one is in play.    *)
LEMMA InTurnSent ==
  ASSUME NEW H, NEW Q, NEW U, InTurn(H, {}, Q, U), NEW i \in Q, \A j \in Q : i <= j
  PROVE  InTurn(H, {i}, Q, U)
PROOF
  <1>1. NotAfter(H, {i}) /\ NotAfter(H, Q) /\ NotAfter({i}, Q) BY DEF InTurn, NotAfter
  <1>2. Before(H, U) /\ Before({i}, U) /\ Before(Q, U) BY DEF InTurn, Before
  <1> QED BY <1>1, <1>2 DEF InTurn

LEMMA HeadLeast ==
  ASSUME NEW q \in Seq(DataFrame), q # <<>>, Sorted(q)
  PROVE  Head(q).id \in Ids(q) /\ \A j \in Ids(q) : Head(q).id <= j
PROOF
  <1>1. DOMAIN q = 1 .. Len(q) /\ Len(q) \in Nat /\ Len(q) > 0 /\ Head(q) = q[1]
    /\ \A k \in DOMAIN q : q[k] \in DataFrame
    OBVIOUS
  <1>2. \A k \in DOMAIN q : q[k].id \in Nat BY <1>1 DEF DataFrame
  <1>3. 1 \in DOMAIN q BY <1>1
  <1>4. \A k \in DOMAIN q : q[1].id <= q[k].id BY <1>1, <1>2, <1>3 DEF Sorted
  <1> QED BY <1>1, <1>3, <1>4 DEF Ids

LEMMA TailSorted ==
  ASSUME NEW q \in Seq(DataFrame), q # <<>>, Sorted(q), NEW r, r = Tail(q)
  PROVE  Sorted(r) /\ Ids(r) \subseteq Ids(q)
PROOF
  <1>1. /\ DOMAIN q = 1 .. Len(q) /\ Len(q) \in Nat /\ Len(q) > 0
        /\ r \in Seq(DataFrame) /\ Len(r) = Len(q) - 1
        /\ \A k \in 1 .. Len(q) - 1 : r[k] = q[k + 1]
    OBVIOUS
  <1>2. DOMAIN r = 1 .. Len(q) - 1 BY <1>1
  <1>3. \A k \in DOMAIN r : k + 1 \in DOMAIN q /\ r[k] = q[k + 1] /\ k \in Nat BY <1>1, <1>2
  <1>4. Sorted(r) BY <1>3 DEF Sorted
  <1> QED BY <1>3, <1>4 DEF Ids

LEMMA AppendSorted ==
  ASSUME NEW q \in Seq(DataFrame), Sorted(q), NEW f \in DataFrame, Before(Ids(q), {f.id}),
         NEW r, r = Append(q, f)
  PROVE  Sorted(r) /\ Ids(r) = Ids(q) \cup {f.id}
PROOF
  <1>1. /\ DOMAIN q = 1 .. Len(q) /\ Len(q) \in Nat
        /\ r \in Seq(DataFrame) /\ Len(r) = Len(q) + 1 /\ r[Len(q) + 1] = f
        /\ \A k \in 1 .. Len(q) : r[k] = q[k]
    OBVIOUS
  <1>2. DOMAIN r = 1 .. Len(q) + 1 BY <1>1
  <1>3. \A k \in DOMAIN q : k \in DOMAIN r /\ r[k] = q[k] BY <1>1, <1>2
  <1>4. \A k \in DOMAIN r : k \in DOMAIN q \/ (k = Len(q) + 1 /\ r[k] = f) BY <1>1, <1>2
  <1>5. Len(q) + 1 \in DOMAIN r BY <1>2, <1>1
  <1>6. Sorted(r)
    <2>1. SUFFICES ASSUME NEW i \in DOMAIN r, NEW j \in DOMAIN r, i < j PROVE r[i].id < r[j].id
      BY DEF Sorted
    <2>2. i \in DOMAIN q BY <1>1, <1>2, <2>1
    <2>3. CASE j \in DOMAIN q BY <1>3, <2>1, <2>2, <2>3 DEF Sorted
    <2>4. CASE r[j] = f
      <3>1. q[i].id \in Ids(q) BY <2>2 DEF Ids
      <3> QED BY <1>3, <2>2, <2>4, <3>1 DEF Before
    <2> QED BY <1>4, <2>3, <2>4
  <1>7. Ids(r) = Ids(q) \cup {f.id} BY <1>1, <1>3, <1>4, <1>5 DEF Ids
  <1> QED BY <1>6, <1>7

(* What an event of the MAC gives to the higher layer, takes from the      *)
(* queue, and says of the current frame. *)
Delivered(x, t) ==
    t.up = None \/ (x.arrived # None /\ t.up = x.arrived.frame /\ t.up \in DataFrame)

Dequeued(x, t) == t.queue = x.queue \/ (x.queue # <<>> /\ t.queue = Tail(x.queue))

Ended(x, t) ==
    t.done # None /\ t.done[2] = "acked" =>
        /\ t.done[1] = Current(x).id /\ x.fsm = "WAITACK"
        /\ x.arrived # None /\ IsAck(x.arrived.frame) /\ x.arrived.frame.to = x.address

LEMMA UpperEnds ==
  ASSUME NEW x, Rested(x), NEW f, NEW t, Queues(x, f, t)
  PROVE  t.up = None /\ Ended(x, t) /\ (t.queue = x.queue \/ t.queue = Append(x.queue, f))
PROOF
  <1>1. t.up = None /\ (t.queue = x.queue \/ t.queue = Append(x.queue, f))
    BY DEF Rested, Queues
  <1>2. t.done = None \/ t.done = <<f.id, "dropped">> BY DEF Rested, Queues
  <1>3. t.done # None => t.done[2] = "dropped" BY <1>2, PairIs
  <1> QED BY <1>1, <1>3 DEF Ended

LEMMA LowerEnds ==
  ASSUME NEW x, Good(x), Rested(x), x.arrived # None, NEW f, f = x.arrived.frame,
         NEW t, Receives(x, f, t)
  PROVE  Delivered(x, t) /\ Dequeued(x, t) /\ Ended(x, t)
PROOF
  <1>1. f \in Frame BY StationFrames
  <1>2. CASE Takes(x, f, t)
    <2>1. t.queue = x.queue /\ t.done = None
      BY <1>2 DEF Takes, Discards, PassesUp, WillAck, WillCts, Answer3, Passed, Rested
    <2>2. t.up = None \/ (t.up = f /\ f.type = "DATA")
      BY <1>2 DEF Takes, Discards, PassesUp, WillAck, WillCts, Rested
    <2> QED BY <1>1, <2>1, <2>2, FrameKinds DEF Delivered, Dequeued, Ended
  <1>3. CASE IsAcked(x, f, t)
    <2>1. t.up = None /\ t.queue = Tail(x.queue) /\ x.fsm = "WAITACK" /\ f.type = "ACK"
          /\ f.to = x.address /\ t.done = <<Current(x).id, "acked">>
      BY <1>3 DEF IsAcked, isAnswer, isForUs, Rested
    <2>2. x.queue # <<>> BY <2>1 DEF Good, Placed
    <2>3. t.done[1] = Current(x).id BY <2>1, PairIs
    <2> QED BY <1>1, <2>1, <2>2, <2>3, FrameKinds DEF Delivered, Dequeued, Ended
  <1>4. CASE IsCleared(x, f, t) \/ Ignores(x, t)
    <2>1. t.up = None /\ t.queue = x.queue /\ t.done = None
      BY <1>4 DEF IsCleared, Answer3, Ignores, Passed, Rested
    <2> QED BY <2>1 DEF Delivered, Dequeued, Ended
  <1> QED BY <1>2, <1>3, <1>4 DEF Receives

LEMMA TimerEndsFrame ==
  ASSUME NEW x, Good(x), Rested(x), NEW e, NEW t, TimerEnds(x, e, t)
  PROVE  Delivered(x, t) /\ Dequeued(x, t) /\ Ended(x, t)
PROOF
  <1>1. t.up = None
    BY DEF TimerEnds, Notices, SameFrames, Transmits, SentAck, SentRts, SentBroadcast, Sent,
       BacksOff, EndsTimeout, Finished, Retries, EndsSIFS, Replies, Proceeds, Answered, Rested
  <1>2. ASSUME EndsTimeout(x, t) PROVE Dequeued(x, t) /\ Ended(x, t)
    <2>1. CASE Retries(x, t) BY <2>1 DEF Retries, SameFrames, Dequeued, Ended, Rested
    <2>2. CASE Finished(x, t, "sent") \/ Finished(x, t, "gaveUp")
      <3>1. x.queue # <<>> BY <1>2 DEF EndsTimeout, Good, Placed
      <3>2. t.queue = Tail(x.queue)
            /\ (t.done = <<Current(x).id, "sent">> \/ t.done = <<Current(x).id, "gaveUp">>)
        BY <2>2 DEF Finished
      <3>3. t.done[2] = "sent" \/ t.done[2] = "gaveUp" BY <3>2, PairIs
      <3> QED BY <3>1, <3>2, <3>3 DEF Dequeued, Ended
    <2> QED BY <1>2, <2>1, <2>2 DEF EndsTimeout
  <1>3. ASSUME ~EndsTimeout(x, t) PROVE t.queue = x.queue /\ t.done = None
    BY <1>3 DEF TimerEnds, Notices, SameFrames, Transmits, SentAck, SentRts, SentBroadcast, Sent,
       BacksOff, EndsSIFS, Replies, Proceeds, Answered, Rested
  <1>4. ~EndsTimeout(x, t) => Dequeued(x, t) /\ Ended(x, t) BY <1>3 DEF Dequeued, Ended
  <1> QED BY <1>1, <1>2, <1>4 DEF Delivered

LEMMA OrderTypes ==
  ASSUME SenseInv, NEW n \in Station
  PROVE  /\ station[n].queue \in Seq(DataFrame) /\ Queued(n) \in SUBSET Nat
         /\ InPlay(n) \in SUBSET Nat /\ Heard(n) \in SUBSET Nat /\ Unsent(n) \in SUBSET Nat
         /\ FrameId \in SUBSET Nat
PROOF
  <1>1. Good(station[n]) BY DEF SenseInv, StationsOk
  <1>2. PICK q : q = station[n].queue OBVIOUS
  <1>3. q \in Seq(DataFrame) BY <1>1, <1>2, StationFrames
  <1>4. \A k \in DOMAIN q : q[k] \in DataFrame BY <1>3
  <1>5. Queued(n) \in SUBSET Nat BY <1>2, <1>4 DEF Queued, Ids, DataFrame
  <1>6. InPlay(n) \in SUBSET Nat BY DEF InPlay, DataFrame
  <1>7. FrameId \in SUBSET Nat
    <2>1. scenario.frames \in Seq(DataFrame) BY DEF SenseInv, ScenarioOk
    <2> QED BY <2>1 DEF FrameId
  <1>8. waiting \subseteq FrameId BY DEF SenseInv, TypeOK
  <1> QED BY <1>2, <1>3, <1>5, <1>6, <1>7, <1>8 DEF Heard, Unsent

LEMMA PlayedOut ==
  ASSUME SenseInv, Exchanges, NEW n \in Station, NEW t, SendsData(station[n], t)
  PROVE  InPlay(n) = {}
PROOF
  <1>1. SUFFICES ASSUME NEW f \in Moving, f \in DataFrame, f.from = n PROVE FALSE
    BY DEF InPlay
  <1>2. station[n].down = None /\ station[n].radio # "TRANSMIT" /\ ~Rests(station[n])
    BY DEF SendsData
  <1>3. ASSUME NEW k \in Station, f = station[k].down PROVE FALSE
    <2>1. k = n BY <1>1, <1>3 DEF Exchanges, DataGiven, Followed
    <2> QED BY <1>1, <1>2, <1>3, <2>1, FrameKinds
  <1>4. ASSUME NEW k \in Station, air[k] # None, f = air[k].frame PROVE FALSE
    <2>1. k = n BY <1>1, <1>4 DEF Exchanges, DataOnAir, Followed
    <2> QED BY <1>2, <1>4, <2>1 DEF SenseInv, OnAirOk
  <1>5. ASSUME NEW k \in Station, station[k].arrived # None, f = station[k].arrived.frame PROVE FALSE
    BY <1>1, <1>2, <1>5 DEF Exchanges, DataArrived
  <1> QED BY <1>1, <1>3, <1>4, <1>5 DEF Moving

LEMMA MacMoving ==
  ASSUME SenseInv, NEW n \in Station, NEW t, Handled(n, t), Exchanged(station[n], t)
  PROVE  Moving' \subseteq Moving \cup {t.down}
PROOF
  <1>1. station' = [station EXCEPT ![n] = Between(t)] BY DEF Handled, MacStep, Between
  <1>2. station'[n] = Between(t) /\ \A k \in Station \ {n} : station'[k] = station[k]
    BY <1>1 DEF SenseInv, TypeOK
  <1>3. station'[n].down = t.down /\ station'[n].arrived = t.arrived
    BY <1>2, BetweenIs DEF Handled
  <1>4. station'[n].arrived # None => station'[n].arrived = station[n].arrived
    BY <1>3 DEF Exchanged
  <1>5. \A k \in Station : station'[k].down \in Moving \cup {t.down}
    BY <1>2, <1>3 DEF Moving
  <1>6. \A k \in Station : air'[k] # None => air'[k].frame \in Moving
    BY DEF Handled, Moving
  <1>7. \A k \in Station : station'[k].arrived # None => station'[k].arrived.frame \in Moving
    BY <1>2, <1>4 DEF Moving
  <1> QED BY <1>5, <1>6, <1>7 DEF Moving

LEMMA MacPlay ==
  ASSUME SenseInv, NEW n \in Station, NEW t, Handled(n, t), Exchanged(station[n], t),
         NEW k \in Station
  PROVE  \/ InPlay(k)' \subseteq InPlay(k)
         \/ /\ k = n /\ SendsData(station[n], t)
            /\ InPlay(k)' \subseteq InPlay(k) \cup {Current(station[n]).id}
PROOF
  <1>1. Moving' \subseteq Moving \cup {t.down} BY MacMoving
  <1>2. PICK x : x = station[n] OBVIOUS
  <1>3. CASE t.down \notin DataFrame BY <1>1, <1>3 DEF InPlay
  <1>4. CASE t.down = x.down
    <2>1. t.down \in Moving BY <1>2, <1>4 DEF Moving
    <2> QED BY <1>1, <2>1 DEF InPlay
  <1>5. CASE SendsAck(x, t)
    <2>1. t.down \in Answer BY <1>5, FramesType DEF SendsAck
    <2> QED BY <1>3, <2>1, FrameKinds DEF ControlFrame
  <1>6. CASE SendsData(x, t)
    <2>1. Good(x) /\ x.address = n /\ Holds(x, Of(scenario.frames))
      BY <1>2 DEF SenseInv, StationsOk
    <2>2. PICK g : g = Current(x) OBVIOUS
    <2>3. g \in DataFrame /\ g.from = n
      BY <1>6, <2>1, <2>2, CurrentOf, OfFrames, StationFrames DEF SendsData
    <2>4. t.down.id = g.id /\ t.down.from = n
      BY <1>6, <2>2, <2>3, FramesType DEF SendsData
    <2>5. CASE k = n
      <3>1. InPlay(k)' \subseteq InPlay(k) \cup {g.id} BY <1>1, <2>4 DEF InPlay
      <3> QED BY <1>2, <1>6, <2>2, <2>5, <3>1
    <2>6. CASE k # n
      <3>1. InPlay(k)' \subseteq InPlay(k) BY <1>1, <2>4, <2>6 DEF InPlay
      <3> QED BY <3>1
    <2> QED BY <2>5, <2>6
  <1> QED BY <1>2, <1>3, <1>4, <1>5, <1>6 DEF Exchanged

LEMMA ArrivedIs ==
  ASSUME SenseInv, NEW n \in Station, station[n].arrived # None,
         NEW f, f = station[n].arrived.frame, f \in DataFrame
  PROVE  f.id \in FrameId /\ scenario.frames[f.id].from = f.from /\ f.id \in InPlay(f.from)
PROOF
  <1>1. f \in Of(scenario.frames) \cup ControlFrame BY DEF SenseInv, StationsOk, Holds
  <1>2. f \in Of(scenario.frames) BY <1>1, FrameKinds
  <1>3. f \in Moving BY DEF Moving
  <1>4. f.id \in InPlay(f.from) BY <1>3 DEF InPlay
  <1> QED BY <1>2, <1>4 DEF Of, FrameId

LEMMA MacHeard ==
  ASSUME SenseInv, NEW n \in Station, NEW t, Handled(n, t), Delivered(station[n], t),
         NEW k \in Station
  PROVE  Heard(k)' \subseteq Heard(k) \/ \E i \in InPlay(k) : Heard(k)' \subseteq Heard(k) \cup {i}
PROOF
  <1>1. FrameId' = FrameId /\ scenario' = scenario BY DEF Handled, FrameId
  <1>2. TypeOK /\ MacStep(n, t) BY DEF SenseInv, Handled
  <1>3. t.up # None => t.up.id \in FrameId BY UpId
  <1>4. \A m \in Station \ {n} : Got(m)' = Got(m) BY <1>2, <1>3, GotIs
  <1>5. CASE t.up = None
    <2>1. Got(n)' = Got(n) BY <1>2, <1>5, GotIs
    <2> QED BY <1>1, <1>4, <2>1 DEF Heard
  <1>6. CASE t.up # None
    <2>1. PICK f : f = station[n].arrived.frame OBVIOUS
    <2>2. station[n].arrived # None /\ t.up = f /\ f \in DataFrame BY <1>6, <2>1 DEF Delivered
    <2>3. f.id \in FrameId /\ scenario.frames[f.id].from = f.from /\ f.id \in InPlay(f.from)
      BY <2>1, <2>2, ArrivedIs
    <2>4. Got(n)' = Got(n) \cup {f.id} BY <1>2, <1>3, <1>6, <2>2, GotIs
    <2>5. CASE k = f.from
      <3>1. Heard(k)' \subseteq Heard(k) \cup {f.id} BY <1>1, <1>4, <2>4 DEF Heard
      <3> QED BY <2>3, <2>5, <3>1
    <2>6. CASE k # f.from
      <3>1. Heard(k)' \subseteq Heard(k) BY <1>1, <1>4, <2>3, <2>4, <2>6 DEF Heard
      <3> QED BY <3>1
    <2> QED BY <2>5, <2>6
  <1> QED BY <1>5, <1>6

(* The queue of station n and the frames still to be sent, after an event  *)
(* that is no request of the higher layer, and after one that is.          *)
LEMMA Dequeues ==
  ASSUME SenseInv, NEW n \in Station, NEW t, Handled(n, t), Dequeued(station[n], t),
         waiting' = waiting, NEW k \in Station, Sorted(station[k].queue)
  PROVE  /\ Sorted(station'[k].queue) /\ Queued(k)' \subseteq Queued(k) /\ Unsent(k)' \subseteq Unsent(k)
         /\ t.queue = station[n].queue => Queued(k)' = Queued(k)
PROOF
  <1>1. station' = [station EXCEPT ![n] = Between(t)] BY DEF Handled, MacStep, Between
  <1>2. station'[n] = Between(t) /\ \A m \in Station \ {n} : station'[m] = station[m]
    BY <1>1 DEF SenseInv, TypeOK
  <1>3. station'[n].queue = t.queue BY <1>2, BetweenIs DEF Handled
  <1>4. Unsent(k)' \subseteq Unsent(k) BY DEF Unsent, Handled
  <1>5. CASE station'[k].queue = station[k].queue
    <2>1. Queued(k)' = Queued(k) BY <1>5 DEF Queued, Ids
    <2> QED BY <1>4, <1>5, <2>1
  <1>6. CASE k = n /\ station[n].queue # <<>> /\ t.queue = Tail(station[n].queue)
    <2>1. PICK q : q = station[n].queue OBVIOUS
    <2>2. q \in Seq(DataFrame) BY <2>1, OrderTypes
    <2>3. PICK r : r = Tail(q) OBVIOUS
    <2>4. Sorted(r) /\ Ids(r) \subseteq Ids(q) BY <1>6, <2>1, <2>2, <2>3, TailSorted
    <2>5. station'[n].queue = r BY <1>3, <1>6, <2>1, <2>3
    <2>6. Queued(k)' = Ids(r) /\ Queued(k) = Ids(q) BY <1>6, <2>1, <2>5 DEF Queued, Ids
    <2>7. t.queue = station[n].queue => Queued(k)' = Queued(k) BY <1>3, <1>6, <2>1, <2>5, <2>6
    <2> QED BY <1>4, <1>6, <2>4, <2>5, <2>6, <2>7
  <1> QED BY <1>2, <1>3, <1>5, <1>6 DEF Dequeued

LEMMA Enqueues ==
  ASSUME SenseInv, NEW n \in Station, NEW t, Handled(n, t),
         NEW i \in waiting, scenario.frames[i].from = n,
         \A j \in waiting : i <= j \/ scenario.frames[j].from # n, waiting' = waiting \ {i},
         \/ t.queue = station[n].queue
         \/ t.queue = Append(station[n].queue, scenario.frames[i]),
         NEW k \in Station, OrderedAt(k)
  PROVE  Sorted(station'[k].queue) /\ InTurn(Heard(k), InPlay(k), Queued(k)', Unsent(k)')
PROOF
  <1>1. station' = [station EXCEPT ![n] = Between(t)] BY DEF Handled, MacStep, Between
  <1>2. station'[n] = Between(t) /\ \A m \in Station \ {n} : station'[m] = station[m]
    BY <1>1 DEF SenseInv, TypeOK
  <1>3. station'[n].queue = t.queue BY <1>2, BetweenIs DEF Handled
  <1>4. PICK q : q = station[k].queue OBVIOUS
  <1>5. PICK H, P, Q, U : H = Heard(k) /\ P = InPlay(k) /\ Q = Queued(k) /\ U = Unsent(k) OBVIOUS
  <1>6. /\ H \in SUBSET Nat /\ P \in SUBSET Nat /\ Q \in SUBSET Nat /\ U \in SUBSET Nat
        /\ q \in Seq(DataFrame)
    BY <1>4, <1>5, OrderTypes
  <1>7. Sorted(q) /\ InTurn(H, P, Q, U) /\ Q = Ids(q) BY <1>4, <1>5 DEF OrderedAt, Queued
  <1>8. Unsent(k)' \subseteq U BY <1>5 DEF Unsent, Handled
  <1>9. CASE station'[k].queue = q
    <2>1. Queued(k)' = Q BY <1>7, <1>9 DEF Queued, Ids
    <2> QED BY <1>5, <1>7, <1>8, <1>9, <2>1, InTurnShrinks
  <1>10. CASE k = n /\ t.queue = Append(q, scenario.frames[i])
    <2>1. PICK f : f = scenario.frames[i] OBVIOUS
    <2>2. f \in DataFrame /\ f.id = i
      <3>1. i \in FrameId /\ scenario.frames \in Seq(DataFrame) BY DEF SenseInv, ScenarioOk, TypeOK
      <3> QED BY <2>1, <3>1 DEF SenseInv, ScenarioOk, FrameId
    <2>3. i \in U /\ \A j \in U : i <= j BY <1>5, <1>10 DEF Unsent
    <2>4. Before(Ids(q), {f.id}) BY <1>7, <2>2, <2>3 DEF InTurn, Before
    <2>5. PICK r : r = Append(q, f) OBVIOUS
    <2>6. Sorted(r) /\ Ids(r) = Q \cup {i} BY <1>6, <1>7, <2>2, <2>4, <2>5, AppendSorted
    <2>7. station'[k].queue = r BY <1>3, <1>10, <2>1, <2>5
    <2>8. Queued(k)' = Q \cup {i} BY <2>6, <2>7 DEF Queued, Ids
    <2>9. Unsent(k)' = U \ {i} BY <1>5 DEF Unsent, Handled
    <2>10. InTurn(H, P, Q \cup {i}, U \ {i}) BY <1>6, <1>7, <2>3, InTurnQueued
    <2> QED BY <1>5, <2>6, <2>7, <2>8, <2>9, <2>10
  <1> QED BY <1>2, <1>3, <1>4, <1>9, <1>10

LEMMA UpperOrdered ==
  ASSUME SenseInv, NEW n \in Station, NEW i, NEW t, UpperEvent(n, i, t),
         NEW k \in Station, OrderedAt(k)
  PROVE  OrderedAt(k)'
PROOF
  <1>1. PICK x : x = station[n] OBVIOUS
  <1>2. PICK f : f = scenario.frames[i] OBVIOUS
  <1>3. Good(x) /\ Rested(x) BY <1>1 DEF SenseInv, StationsOk
  <1>4. f \in DataFrame /\ Queues(x, f, t) /\ Handled(n, t) BY <1>1, <1>2 DEF UpperEvent, Of
  <1>5. t.up = None /\ (t.queue = x.queue \/ t.queue = Append(x.queue, f))
    BY <1>3, <1>4, UpperEnds
  <1>6. Sorted(station'[k].queue) /\ InTurn(Heard(k), InPlay(k), Queued(k)', Unsent(k)')
    BY <1>1, <1>2, <1>4, <1>5, Enqueues DEF UpperEvent
  <1>7. Exchanged(x, t) /\ t.down = x.down BY <1>3, <1>4, UpperExchanged DEF Queues
  <1>8. Heard(k)' \subseteq Heard(k)
    <2>1. FrameId' = FrameId /\ scenario' = scenario BY <1>4 DEF Handled, FrameId
    <2>2. TypeOK /\ MacStep(n, t) BY <1>4 DEF SenseInv, Handled
    <2>3. \A m \in Station : Got(m)' = Got(m) BY <1>5, <2>2, GotIs
    <2> QED BY <2>1, <2>3 DEF Heard
  <1>9. InPlay(k)' \subseteq InPlay(k)
    <2>1. Moving' \subseteq Moving \cup {t.down} BY <1>1, <1>4, <1>7, MacMoving
    <2>2. t.down \in Moving BY <1>1, <1>7 DEF Moving
    <2> QED BY <2>1, <2>2 DEF InPlay
  <1>10. InTurn(Heard(k)', InPlay(k)', Queued(k)', Unsent(k)')
    BY <1>6, <1>8, <1>9, InTurnShrinks
  <1> QED BY <1>6, <1>10 DEF OrderedAt

LEMMA MacOrdered ==
  ASSUME SenseInv, Exchanges, NEW n \in Station, NEW t, Handled(n, t), Exchanged(station[n], t),
         Delivered(station[n], t), Dequeued(station[n], t), waiting' = waiting,
         NEW k \in Station, OrderedAt(k)
  PROVE  OrderedAt(k)'
PROOF
  <1>1. PICK H, P, Q, U : H = Heard(k) /\ P = InPlay(k) /\ Q = Queued(k) /\ U = Unsent(k) OBVIOUS
  <1>2. /\ H \in SUBSET Nat /\ P \in SUBSET Nat /\ Q \in SUBSET Nat /\ U \in SUBSET Nat
        /\ station[k].queue \in Seq(DataFrame)
    BY <1>1, OrderTypes
  <1>3. Sorted(station[k].queue) /\ InTurn(H, P, Q, U) BY <1>1 DEF OrderedAt
  <1>4. /\ Sorted(station'[k].queue) /\ Queued(k)' \subseteq Q /\ Unsent(k)' \subseteq U
        /\ t.queue = station[n].queue => Queued(k)' = Q
    BY <1>1, <1>3, Dequeues
  <1>5. InTurn(Heard(k)', P, Q, U)
    <2>1. CASE Heard(k)' \subseteq H BY <1>3, <2>1, InTurnShrinks
    <2>2. ASSUME NEW i \in P, Heard(k)' \subseteq H \cup {i} PROVE InTurn(Heard(k)', P, Q, U)
      <3>1. InTurn(H \cup {i}, P, Q, U) BY <1>2, <1>3, InTurnHeard
      <3> QED BY <2>2, <3>1, InTurnShrinks
    <2> QED BY <1>1, <2>1, <2>2, MacHeard
  <1>6. InTurn(Heard(k)', P, Queued(k)', Unsent(k)') BY <1>4, <1>5, InTurnShrinks
  <1>7. InTurn(Heard(k)', InPlay(k)', Queued(k)', Unsent(k)')
    <2>1. CASE InPlay(k)' \subseteq P BY <1>6, <2>1, InTurnShrinks
    <2>2. CASE k = n /\ SendsData(station[n], t)
               /\ InPlay(k)' \subseteq P \cup {Current(station[n]).id}
      <3>1. PICK i : i = Current(station[n]).id OBVIOUS
      <3>2. P = {} BY <1>1, <2>2, PlayedOut
      <3>3. Queued(k)' = Q BY <1>4, <2>2 DEF SendsData
      <3>4. i \in Q /\ \A j \in Q : i <= j
        BY <1>1, <1>2, <1>3, <2>2, <3>1, HeadLeast DEF SendsData, Queued, Current
      <3>5. PICK H1, Q1, U1 : H1 = Heard(k)' /\ Q1 = Queued(k)' /\ U1 = Unsent(k)' OBVIOUS
      <3>6. InTurn(H1, {}, Q1, U1) /\ i \in Q1 /\ \A j \in Q1 : i <= j
        BY <1>6, <3>2, <3>3, <3>4, <3>5
      <3>7. InTurn(H1, {i}, Q1, U1) BY <3>6, InTurnSent
      <3> QED BY <2>2, <3>1, <3>2, <3>5, <3>7, InTurnShrinks
    <2> QED BY <1>1, <2>1, <2>2, MacPlay
  <1> QED BY <1>4, <1>7 DEF OrderedAt

(* A step of a radio or of time leaves the queues alone and brings no      *)
(* frame into play. *)
LEMMA OrderedSame ==
  ASSUME SenseInv, scenario'.frames = scenario.frames, waiting' = waiting, got' = got,
         \A k \in Station : station'[k].queue = station[k].queue,
         \A f \in Moving' : f \in DataFrame => f \in Moving,
         NEW k \in Station, OrderedAt(k)
  PROVE  OrderedAt(k)'
PROOF
  <1>1. Queued(k)' = Queued(k) BY DEF Queued, Ids
  <1>2. InPlay(k)' \subseteq InPlay(k) BY DEF InPlay
  <1>3. Unsent(k)' = Unsent(k) BY DEF Unsent
  <1>4. Heard(k)' = Heard(k)
    <2>1. \A m \in Station : Got(m)' = Got(m) BY DEF Got
    <2> QED BY <2>1 DEF Heard, FrameId
  <1>5. InTurn(Heard(k)', InPlay(k)', Queued(k)', Unsent(k)')
    BY <1>1, <1>2, <1>3, <1>4, InTurnShrinks DEF OrderedAt
  <1> QED BY <1>5 DEF OrderedAt

LEMMA RadioSendsMoving ==
  ASSUME SenseInv, NEW n \in Station, RadioSends(n)
  PROVE  /\ \A f \in Moving' : f \in DataFrame => f \in Moving
         /\ \A k \in Station : station'[k].queue = station[k].queue
PROOF
  <1>1. /\ Tunes(station[n], station'[n]) /\ station'[n].down = None /\ station'[n].arrived = None
        /\ \A m \in Station \ {n} : station'[m] = station[m] /\ air'[m] = air[m]
    BY RadioSendsIs
  <1>2. air'[n].frame = station[n].down
    <2>1. air'[n] = [frame |-> station[n].down, left |-> station[n].down.airtime, new |-> TRUE]
      BY RadioSendsIs
    <2> QED BY <2>1
  <1>3. \A k \in Station : station'[k].down \in DataFrame => station'[k].down \in Moving
    BY <1>1, FrameKinds DEF Moving
  <1>4. \A k \in Station : air'[k] # None => air'[k].frame \in Moving BY <1>1, <1>2 DEF Moving
  <1>5. \A k \in Station : station'[k].arrived # None => station'[k].arrived.frame \in Moving
    BY <1>1 DEF Moving
  <1>6. \A k \in Station : station'[k].queue = station[k].queue BY <1>1 DEF Tunes
  <1> QED BY <1>3, <1>4, <1>5, <1>6 DEF Moving

LEMMA FramesArriveMoving ==
  ASSUME SenseInv, FramesArrive
  PROVE  /\ \A f \in Moving' : f \in DataFrame => f \in Moving
         /\ \A k \in Station : station'[k].queue = station[k].queue
PROOF
  <1>1. \A n \in Station : /\ station'[n].down = None /\ station'[n].arrived = None
                           /\ Tunes(station[n], station'[n])
    BY FramesArriveSense
  <1>2. \A n \in Station : air'[n] # None => air[n] # None /\ air'[n].frame = air[n].frame
    BY FramesArriveAir
  <1>3. \A n \in Station : air'[n] # None => air'[n].frame \in Moving BY <1>2 DEF Moving
  <1>4. \A k \in Station : station'[k].queue = station[k].queue BY <1>1 DEF Tunes
  <1> QED BY <1>1, <1>3, <1>4, FrameKinds DEF Moving

LEMMA FramesEndMoving ==
  ASSUME SenseInv, FramesEnd
  PROVE  /\ \A f \in Moving' : f \in DataFrame => f \in Moving
         /\ \A k \in Station : station'[k].queue = station[k].queue
PROOF
  <1>1. \A n \in Station :
            /\ station'[n].down = station[n].down /\ Tunes(station[n], station'[n])
            /\ station'[n].arrived # None =>
                  /\ station[n].receiving \in Ending
                  /\ station'[n].arrived.frame = air[station[n].receiving].frame
    BY FramesEndSense
  <1>2. \A n \in Station : station'[n].down \in Moving BY <1>1 DEF Moving
  <1>3. \A n \in Station : air'[n] # None => air'[n] = air[n] BY DEF FramesEnd
  <1>4. \A n \in Station : air'[n] # None => air'[n].frame \in Moving BY <1>3 DEF Moving
  <1>5. \A n \in Station : station'[n].arrived # None => station'[n].arrived.frame \in Moving
    BY <1>1 DEF Ending, Moving
  <1>6. \A k \in Station : station'[k].queue = station[k].queue BY <1>1 DEF Tunes
  <1> QED BY <1>2, <1>4, <1>5, <1>6 DEF Moving

LEMMA TickMoving ==
  ASSUME SenseInv, Tick
  PROVE  /\ \A f \in Moving' : f \in DataFrame => f \in Moving
         /\ \A k \in Station : station'[k].queue = station[k].queue
PROOF
  <1>1. \A n \in Station : /\ SameFrames(station[n], station'[n])
                           /\ station[n].down = None /\ station[n].arrived = None
                           /\ air'[n] # None => air[n] # None /\ air'[n].frame = air[n].frame
    BY TickSense
  <1>2. \A n \in Station : station'[n].down = None /\ station'[n].arrived = None
                           /\ station'[n].queue = station[n].queue
    BY <1>1 DEF SameFrames
  <1>3. \A n \in Station : air'[n] # None => air'[n].frame \in Moving BY <1>1 DEF Moving
  <1> QED BY <1>2, <1>3, FrameKinds DEF Moving

-----------------------------------------------------------------------------
(* What has been sent up, and what is taken for acknowledged. *)

LEMMA ContainsIs ==
  ASSUME NEW S, NEW q \in Seq(S), NEW i
  PROVE  Contains(q, i) <=> i \in {q[k] : k \in DOMAIN q}
  BY DEF Contains

(* A frame is sent up after all that its sender sent before. *)
LEMMA DeliversInOrder ==
  ASSUME SenseInv, InOrder, \A k \in Station : OrderedAt(k), NEW n \in Station,
         NEW t, Handled(n, t), Delivered(station[n], t)
  PROVE  InOrder'
PROOF
  <1>1. FrameId' = FrameId /\ scenario' = scenario BY DEF Handled, FrameId
  <1>2. TypeOK /\ MacStep(n, t) BY DEF SenseInv, Handled
  <1>3. t.up # None => t.up.id \in FrameId BY UpId
  <1>4. \A m \in Station \ {n} : got'[m] = got[m] BY <1>2, <1>3, GotIs
  <1>5. CASE t.up = None
    <2>1. got'[n] = got[n] BY <1>2, <1>5, GotIs
    <2> QED BY <1>1, <1>4, <2>1 DEF InOrder
  <1>6. CASE t.up # None
    <2>1. PICK f : f = station[n].arrived.frame OBVIOUS
    <2>2. station[n].arrived # None /\ t.up = f /\ f \in DataFrame BY <1>6, <2>1 DEF Delivered
    <2>3. f.id \in FrameId /\ scenario.frames[f.id].from = f.from /\ f.id \in InPlay(f.from)
      BY <2>1, <2>2, ArrivedIs
    <2>4. PICK q, r : q = got[n] /\ r = Append(q, f.id) OBVIOUS
    <2>5. q \in Seq(FrameId) BY <1>2, <2>4 DEF TypeOK
    <2>6. got'[n] = r BY <1>2, <1>3, <1>6, <2>2, <2>4, GotIs
    <2>7. ASSUME NEW k \in DOMAIN q, scenario.frames[q[k]].from = f.from
          PROVE  q[k] <= f.id
      <3>1. q[k] \in Heard(f.from)
        <4>1. q[k] \in FrameId BY <2>5
        <4> QED BY <2>4, <2>7, <4>1 DEF Heard, Got
      <3>2. NotAfter(Heard(f.from), InPlay(f.from)) BY <2>2 DEF OrderedAt, InTurn, DataFrame
      <3> QED BY <2>3, <3>1, <3>2 DEF NotAfter
    <2>8. /\ DOMAIN q = 1 .. Len(q) /\ Len(q) \in Nat /\ DOMAIN r = 1 .. Len(q) + 1
          /\ r[Len(q) + 1] = f.id /\ \A k \in 1 .. Len(q) : r[k] = q[k]
      BY <2>3, <2>4, <2>5
    <2>9. ASSUME NEW i \in DOMAIN r, NEW j \in DOMAIN r, i < j,
                 scenario.frames[r[i]].from = scenario.frames[r[j]].from
          PROVE  r[i] <= r[j]
      <3>1. i \in DOMAIN q BY <2>8, <2>9
      <3>2. CASE j \in DOMAIN q BY <2>4, <2>8, <2>9, <3>1, <3>2 DEF InOrder
      <3>3. CASE j = Len(q) + 1 BY <2>3, <2>7, <2>8, <2>9, <3>1, <3>3
      <3> QED BY <2>8, <3>2, <3>3
    <2> QED BY <1>1, <1>4, <2>6, <2>9 DEF InOrder
  <1> QED BY <1>5, <1>6

LEMMA AcksArrived ==
  ASSUME SenseInv, Exchanges, AckedGot, NEW n \in Station, NEW t, Handled(n, t), Ended(station[n], t)
  PROVE  AckedGot'
PROOF
  <1>1. FrameId' = FrameId /\ scenario' = scenario BY DEF Handled, FrameId
  <1>2. TypeOK /\ MacStep(n, t) BY DEF SenseInv, Handled
  <1>3. t.up # None => t.up.id \in FrameId BY UpId
  <1>4. \A m \in Station : Got(m) \subseteq Got(m)' BY <1>2, <1>3, GotIs
  <1>5. SUFFICES ASSUME NEW i \in FrameId, outcome'[i] = "acked"
                 PROVE  scenario.frames[i].to \in Station /\ i \in Got(scenario.frames[i].to)
    BY <1>1, <1>4 DEF AckedGot
  <1>6. CASE outcome[i] = "acked" BY <1>6 DEF AckedGot
  <1>7. CASE outcome[i] # "acked"
    <2>1. t.done # None /\ t.done[1] = i /\ t.done[2] = "acked"
      BY <1>2, <1>5, <1>7 DEF MacStep, TypeOK
    <2>2. PICK x : x = station[n] OBVIOUS
    <2>3. /\ i = Current(x).id /\ x.fsm = "WAITACK" /\ x.arrived # None
          /\ IsAck(x.arrived.frame) /\ x.arrived.frame.to = x.address
      BY <2>1, <2>2 DEF Ended
    <2>4. Good(x) /\ x.address = n BY <2>2 DEF SenseInv, StationsOk
    <2>5. PICK m : m = Current(x).to OBVIOUS
    <2>6. Confirmed(n, m, 0) BY <2>2, <2>3, <2>4, <2>5 DEF Exchanges, AckArrived
    <2>7. i \in Got(m) BY <2>2, <2>3, <2>6 DEF Confirmed
    <2>8. x.queue # <<>> /\ m # Broadcast BY <2>3, <2>4, <2>5 DEF Good, Placed
    <2>9. m \in Station BY <2>4, <2>5, <2>8, StationFrames DEF DataFrame
    <2>10. scenario.frames[i].to = m
      BY <2>2, <2>3, <2>5, <2>8, CurrentId DEF Of
    <2> QED BY <2>7, <2>9, <2>10
  <1> QED BY <1>6, <1>7

-----------------------------------------------------------------------------
(* The fate of a frame. *)

LEMMA MacFate ==
  ASSUME FateInv, SenseInv', NEW n \in Station, NEW t, Handled(n, t), Exchanged(station[n], t),
         Kept(station[n], t) \/ Ending = {},
         Delivered(station[n], t), Ended(station[n], t), \A k \in Station : OrderedAt(k)'
  PROVE  FateInv'
PROOF
  <1>1. Exchanges' BY MacExchanges DEF FateInv
  <1>2. AckedGot' BY AcksArrived DEF FateInv
  <1>3. InOrder' BY DeliversInOrder DEF FateInv
  <1> QED BY <1>1, <1>2, <1>3 DEF FateInv

LEMMA SameFate ==
  ASSUME FateInv, SenseInv', Exchanges', scenario'.frames = scenario.frames,
         waiting' = waiting, got' = got, outcome' = outcome,
         \A k \in Station : station'[k].queue = station[k].queue,
         \A f \in Moving' : f \in DataFrame => f \in Moving
  PROVE  FateInv'
PROOF
  <1>1. \A k \in Station : OrderedAt(k)' BY OrderedSame DEF FateInv
  <1>2. FrameId' = FrameId /\ \A m : Got(m)' = Got(m) BY DEF FrameId, Got
  <1>3. AckedGot' BY <1>2 DEF FateInv, AckedGot
  <1>4. InOrder' BY DEF FateInv, InOrder
  <1> QED BY <1>1, <1>3, <1>4 DEF FateInv

LEMMA NextFate ==
  ASSUME FateInv, [Next]_vars
  PROVE  FateInv'
PROOF
  <1>1. SenseInv /\ Exchanges /\ \A k \in Station : OrderedAt(k) BY DEF FateInv
  <1>2. SenseInv' BY <1>1, NextSense
  <1>3. \A n \in Station : Good(station[n]) /\ Rested(station[n])
    BY <1>1 DEF SenseInv, StationsOk
  <1>4. ASSUME NEW n \in Station, UpperMsg(n) PROVE FateInv'
    <2>1. PICK i \in waiting : \E t : UpperEvent(n, i, t) BY <1>1, <1>4, UpperMsgIs
    <2>2. PICK t : UpperEvent(n, i, t) BY <2>1
    <2>3. PICK f : f = scenario.frames[i] OBVIOUS
    <2>4. f \in DataFrame /\ Queues(station[n], f, t) /\ Handled(n, t)
      BY <2>2, <2>3 DEF UpperEvent, Of
    <2>5. Exchanged(station[n], t) /\ Kept(station[n], t) BY <1>3, <2>4, UpperExchanged
    <2>6. t.up = None /\ Ended(station[n], t) BY <1>3, <2>4, UpperEnds
    <2>7. \A k \in Station : OrderedAt(k)' BY <1>1, <2>2, UpperOrdered
    <2> QED BY <1>2, <2>4, <2>5, <2>6, <2>7, MacFate DEF Delivered
  <1>5. ASSUME NEW n \in Station, LowerMsg(n) PROVE FateInv'
    <2>1. PICK t : LowerEvent(n, t) BY <1>1, <1>5, LowerMsgIs
    <2>2. PICK f : f = station[n].arrived.frame OBVIOUS
    <2>3. station[n].arrived # None /\ Receives(station[n], f, t) /\ Handled(n, t) /\ waiting' = waiting
      BY <2>1, <2>2 DEF LowerEvent
    <2>4. Exchanged(station[n], t) BY <1>3, <2>2, <2>3, LowerExchanged
    <2>5. Delivered(station[n], t) /\ Dequeued(station[n], t) /\ Ended(station[n], t)
      BY <1>3, <2>2, <2>3, LowerEnds
    <2>6. Ending = {} BY <1>1, <2>3 DEF SenseInv, HearingOk
    <2>7. \A k \in Station : OrderedAt(k)' BY <1>1, <2>3, <2>4, <2>5, MacOrdered
    <2> QED BY <1>2, <2>3, <2>4, <2>5, <2>6, <2>7, MacFate
  <1>6. ASSUME NEW n \in Station, NEW e \in TimerName, Timer(n, e) PROVE FateInv'
    <2>1. PICK t : TimerEvent(n, e, t) BY <1>1, <1>6, TimerIs
    <2>2. /\ station[n].timer[e] = 0 /\ waiting' = waiting
          /\ (e = "Timeout" /\ station[n].fsm # "WAITBROADCAST")
                 => Ending = {} /\ station[n].arrived = None
          /\ Handled(n, t) /\ TimerEnds(station[n], e, t)
      BY <2>1 DEF TimerEvent
    <2>3. Exchanged(station[n], t) BY <1>3, <2>2, TimerExchanged
    <2>4. Delivered(station[n], t) /\ Dequeued(station[n], t) /\ Ended(station[n], t)
      BY <1>3, <2>2, TimerEndsFrame
    <2>5. Kept(station[n], t) \/ Ending = {} BY <2>2, TimerKept
    <2>6. \A k \in Station : OrderedAt(k)' BY <1>1, <2>2, <2>3, <2>4, MacOrdered
    <2> QED BY <1>2, <2>2, <2>3, <2>4, <2>5, <2>6, MacFate
  <1>7. ASSUME NEW n \in Station, RadioSends(n) PROVE FateInv'
    <2>1. scenario' = scenario /\ waiting' = waiting /\ got' = got /\ outcome' = outcome
      BY <1>1, <1>7, RadioSendsIs
    <2>2. Exchanges' BY <1>1, <1>7, RadioSendsExchanges
    <2>3. /\ \A f \in Moving' : f \in DataFrame => f \in Moving
          /\ \A k \in Station : station'[k].queue = station[k].queue
      BY <1>1, <1>7, RadioSendsMoving
    <2> QED BY <1>2, <2>1, <2>2, <2>3, SameFate
  <1>8. CASE FramesArrive
    <2>1. scenario' = scenario /\ waiting' = waiting /\ got' = got /\ outcome' = outcome
      BY <1>8 DEF FramesArrive
    <2>2. Exchanges' BY <1>1, <1>8, FramesArriveExchanges
    <2>3. /\ \A f \in Moving' : f \in DataFrame => f \in Moving
          /\ \A k \in Station : station'[k].queue = station[k].queue
      BY <1>1, <1>8, FramesArriveMoving
    <2> QED BY <1>2, <2>1, <2>2, <2>3, SameFate
  <1>9. CASE FramesEnd
    <2>1. waiting' = waiting /\ got' = got /\ outcome' = outcome BY <1>9 DEF FramesEnd
    <2>2. scenario'.frames = scenario.frames BY <1>1, <1>9, ErrorsLeft DEF FramesEnd
    <2>3. Exchanges' BY <1>1, <1>9, FramesEndExchanges
    <2>4. /\ \A f \in Moving' : f \in DataFrame => f \in Moving
          /\ \A k \in Station : station'[k].queue = station[k].queue
      BY <1>1, <1>9, FramesEndMoving
    <2> QED BY <1>2, <2>1, <2>2, <2>3, <2>4, SameFate
  <1>10. CASE Tick
    <2>1. scenario' = scenario /\ waiting' = waiting /\ got' = got /\ outcome' = outcome
      BY <1>10 DEF Tick
    <2>2. Exchanges' BY <1>1, <1>10, TickExchanges
    <2>3. /\ \A f \in Moving' : f \in DataFrame => f \in Moving
          /\ \A k \in Station : station'[k].queue = station[k].queue
      BY <1>1, <1>10, TickMoving
    <2> QED BY <1>2, <2>1, <2>2, <2>3, SameFate
  <1>11. CASE UNCHANGED vars
    <2>1. /\ station' = station /\ air' = air /\ scenario' = scenario /\ waiting' = waiting
          /\ got' = got /\ outcome' = outcome
      BY <1>11 DEF vars
    <2>2. Moving' = Moving BY <2>1 DEF Moving
    <2>3. Exchanges' BY <1>1, <2>1 DEF Exchanges, DataGiven, DataOnAir, DataArrived, DataAnswered,
             AckGiven, AckOnAir, AckArrived, Followed, Confirmed, Got
    <2> QED BY <1>2, <2>1, <2>2, <2>3, SameFate
  <1> QED BY <1>4, <1>5, <1>6, <1>7, <1>8, <1>9, <1>10, <1>11 DEF Next

LEMMA InitFate ==
  ASSUME Init
  PROVE  FateInv
PROOF
  <1>1. SenseInv BY InitSense
  <1>2. ASSUME NEW n \in Station
        PROVE  /\ station[n].queue = <<>> /\ station[n].answering = None
               /\ station[n].down = None /\ station[n].arrived = None /\ air[n] = None
               /\ got[n] = <<>>
    <2>1. station[n] = NewStation(n) /\ air[n] = None /\ got[n] = <<>> BY DEF Init
    <2> QED BY <2>1 DEF NewStation
  <1>3. Exchanges
    BY <1>2, FrameKinds DEF Exchanges, DataGiven, DataOnAir, DataArrived, DataAnswered,
       AckGiven, AckOnAir, AckArrived
  <1>4. ASSUME NEW n \in Station PROVE OrderedAt(n)
    <2>1. Moving \subseteq {None} BY <1>2 DEF Moving
    <2>2. InPlay(n) = {} BY <2>1, FrameKinds DEF InPlay
    <2>3. \A m \in Station : Got(m) = {} BY <1>2 DEF Got
    <2>4. Heard(n) = {} BY <2>3 DEF Heard
    <2>5. Queued(n) = {} /\ Sorted(station[n].queue) BY <1>2 DEF Queued, Ids, Sorted
    <2>6. InTurn({}, {}, {}, Unsent(n)) BY DEF InTurn, NotAfter, Before
    <2> QED BY <2>2, <2>4, <2>5, <2>6 DEF OrderedAt
  <1>5. AckedGot BY DEF Init, AckedGot
  <1>6. InOrder BY <1>2 DEF InOrder
  <1> QED BY <1>1, <1>3, <1>4, <1>5, <1>6 DEF FateInv

LEMMA FateInvariant == Spec => []FateInv
PROOF
  <1>1. Init => FateInv BY InitFate
  <1>2. FateInv /\ [Next]_vars => FateInv' BY NextFate
  <1> QED BY <1>1, <1>2, PTL DEF Spec

LEMMA FateAcked ==
  ASSUME FateInv
  PROVE  AckedArrived
PROOF
  <1>1. SUFFICES ASSUME NEW i \in FrameId, outcome[i] = "acked"
                 PROVE  Contains(got[scenario.frames[i].to], i)
    BY DEF AckedArrived
  <1>2. PICK m : m = scenario.frames[i].to OBVIOUS
  <1>3. m \in Station /\ i \in Got(m) BY <1>1, <1>2 DEF FateInv, AckedGot
  <1>4. got[m] \in Seq(FrameId) BY <1>3 DEF FateInv, SenseInv, TypeOK
  <1> QED BY <1>2, <1>3, <1>4, ContainsIs DEF Got

(* The fate of a frame is what its sender believes it is: one that is      *)
(* taken for acknowledged has arrived (handleWithFSM takes any ACK for     *)
(* that of the current frame), frames arrive in order, and one is given up *)
(* only after all its attempts. *)
THEOREM FateKnown == Spec => []FramesAccounted
PROOF
  <1>1. FateInv /\ CountInv => FramesAccounted
    BY FateAcked DEF FateInv, CountInv, FramesAccounted
  <1> QED BY <1>1, FateInvariant, CountInvariant, PTL
=============================================================================
