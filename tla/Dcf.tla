-------------------------------- MODULE Dcf --------------------------------
(***************************************************************************)
(* IEEE 802.11 stations that share a medium: their MACs, their radios      *)
(* (linklayer/radio/AbstractRadio.cc) and the frames on the air, some of   *)
(* which a station does not hear.                                          *)
(*                                                                         *)
(* An action is one event of a MAC or of a radio: a frame between the two  *)
(* of a station is a message, while the state of the radio is notified at  *)
(* once.  Time jumps from one moment with events to the next.  At a moment *)
(* frames end and timers fire in any order, and only then do the frames    *)
(* begun at that moment reach other stations: propagation takes time, but  *)
(* less than the unit.                                                     *)
(***************************************************************************)
EXTENDS Ieee80211Mac, FiniteSets, SequencesExt

CONSTANT Scenarios  \* who hears whom, the frames to be sent, the bit errors to come

(* A frame on the air: the time left until its end, and whether it has not *)
(* yet reached the other stations. *)
OnAir == [frame : Frame, left : Nat, new : BOOLEAN]

ASSUME ScenarioAssumption ==
    /\ IsFiniteSet(Station) /\ None \notin OnAir
    /\ \A c \in Scenarios :
           /\ c \in [hears : SUBSET (Station \X Station), frames : Seq(DataFrame), errors : Nat]
           /\ \A p \in c.hears : p[1] # p[2]
           /\ \A i \in DOMAIN c.frames : c.frames[i].id = i

VARIABLES
    station,        \* the stations
    air,            \* the frame each station sends, or None
    waiting,        \* indices of the frames the higher layers have still to send
    scenario,       \* the scenario, with the bit errors still to come
    got,            \* the frames each station has sent up, as their numbers
    attempts,       \* transmissions of each frame, or of an RTS for it, up to transmissionLimit
    outcome         \* what became of each frame

vars == <<station, air, waiting, scenario, got, attempts, outcome>>

FrameId == DOMAIN scenario.frames

Init ==
    /\ scenario \in Scenarios
    /\ station = [n \in Station |-> NewStation(n)]
    /\ air = [n \in Station |-> None]
    /\ waiting = FrameId
    /\ got = [n \in Station |-> <<>>]
    /\ attempts = [i \in FrameId |-> 0]
    /\ outcome = [i \in FrameId |-> "none"]

-----------------------------------------------------------------------------
(* The MAC decides to send an RTS or data other than what a CTS allowed.   *)
Contends(s, t) ==
    s.down = None /\ t.down # None /\ t.down.type \in {"RTS", "DATA"} /\ s.fsm # "WAITSIFS"

Capped(k) == IF k < transmissionLimit THEN k + 1 ELSE k

(* One event of the MAC of station n: s is what its handler makes of it.   *)
MacStep(n, s) ==
    /\ station' = [station EXCEPT ![n] = [s EXCEPT !.up = None, !.done = None]]
    /\ got' = IF s.up = None THEN got ELSE [got EXCEPT ![n] = Append(@, s.up.id)]
    /\ outcome' = IF s.done = None THEN outcome ELSE [outcome EXCEPT ![s.done[1]] = s.done[2]]
    /\ attempts' = IF Contends(station[n], s)
                   THEN [attempts EXCEPT ![Current(station[n]).id] = Capped(@)] ELSE attempts

-----------------------------------------------------------------------------
Hears(m, n) == <<m, n>> \in scenario.hears

Ending == {m \in Station : air[m] # None /\ air[m].left = 0}
New == {m \in Station : air[m] # None /\ air[m].new}
Due == {p \in Station \X TimerName : station[p[1]].timer[p[2]] = 0}

(* Signals at station n that go on. *)
Noise(n) == {m \in Station \ (Ending \cup New) : air[m] # None /\ Hears(m, n)}

(* The higher layer hands over the next frame. *)
UpperMsg(n) ==
    \E i \in waiting :
        /\ scenario.frames[i].from = n /\ \A j \in waiting : i <= j \/ scenario.frames[j].from # n
        /\ waiting' = waiting \ {i}
        /\ MacStep(n, handleUpperMsg(station[n], scenario.frames[i]))
        /\ UNCHANGED <<air, scenario>>

(* The MAC gets the frame that its radio has received. *)
LowerMsg(n) ==
    /\ station[n].arrived # None
    /\ LET f == station[n].arrived IN
       MacStep(n, handleLowerMsg([station[n] EXCEPT !.arrived = None], f.frame, f.bad))
    /\ UNCHANGED <<air, waiting, scenario>>

(* A timer is due.  The time-out of an answer includes the propagation of  *)
(* the frame and of the answer, so that an answer that ends at the same    *)
(* moment is in time.                                                      *)
Timer(n, t) ==
    /\ <<n, t>> \in Due
    /\ (t = "Timeout" /\ station[n].fsm # "WAITBROADCAST")
           => Ending = {} /\ station[n].arrived = None
    /\ \E c \in Draws(station[n], t) :
           MacStep(n, handleSelfMsg(Cancel(station[n], t), t, c))
    /\ UNCHANGED <<air, waiting, scenario>>

(* AbstractRadio::handleUpperMsg: sending makes noise of what was being    *)
(* received; the MAC is notified.                                          *)
RadioSends(n) ==
    /\ station[n].down # None
    /\ LET s == station[n] IN
        /\ station' = [station EXCEPT ![n] = receiveChangeNotification(
               [Require(s, s.radio # "TRANSMIT") EXCEPT
                    !.receiving = None, !.garbled = FALSE, !.down = None], "TRANSMIT")]
        /\ air' = [air EXCEPT ![n] = [frame |-> s.down, left |-> s.down.airtime, new |-> TRUE]]
    /\ UNCHANGED <<waiting, scenario, got, attempts, outcome>>

Pending == {n \in Station : station[n].down # None \/ station[n].arrived # None}
Quiet == Ending = {} /\ Due = {} /\ Pending = {}

(* AbstractRadio::handleLowerMsgStart, of the frames begun at this moment: *)
(* a radio that neither sends nor receives takes one of them, and it is    *)
(* garbled if anything else is heard; one that receives gets a garbled     *)
(* frame.                                                                  *)
HeardBy(n) == {m \in New : Hears(m, n)}

Collides(n, first) == HeardBy(n) \cup Noise(n) # {first}

Arrived(s, n, first) ==
    IF HeardBy(n) = {} \/ s.radio = "TRANSMIT" THEN s
    ELSE IF s.receiving # None THEN [s EXCEPT !.garbled = TRUE]
    ELSE LET r == [s EXCEPT !.receiving = first, !.garbled = Collides(n, first)]
         IN  IF s.radio = "IDLE" THEN receiveChangeNotification(r, "RECV") ELSE r

FramesArrive ==
    /\ Quiet /\ New # {}
    /\ \E first \in [Station -> Station] :
        /\ \A n \in Station : first[n] \in HeardBy(n) \/ (HeardBy(n) = {} /\ first[n] = n)
        /\ station' = [n \in Station |-> Arrived(station[n], n, first[n])]
    /\ air' = [n \in Station |-> IF n \in New THEN [air[n] EXCEPT !.new = FALSE] ELSE air[n]]
    /\ UNCHANGED <<waiting, scenario, got, attempts, outcome>>

(* MK_TRANSMISSION_OVER and handleLowerMsgEnd: the radio's new state, of   *)
(* which the MAC is told before it gets the frame.                         *)
RadioAfter(s, n) ==
    IF s.radio = "IDLE" \/ (s.radio = "TRANSMIT" /\ n \notin Ending) THEN s.radio
    ELSE IF Noise(n) # {} THEN "RECV" ELSE "IDLE"

Silenced(s, n, spoilt) ==
    LET after == RadioAfter(s, n)
        r == IF s.receiving \in Ending
             THEN [s EXCEPT !.receiving = None, !.garbled = FALSE,
                            !.arrived = [frame |-> air[s.receiving].frame,
                                         bad |-> s.garbled \/ n \in spoilt]]
             ELSE s
    IN  IF after = s.radio THEN r ELSE receiveChangeNotification(r, after)

(* All frames that end at this moment; those to the stations in `spoilt'   *)
(* have bit errors.                                                        *)
FramesEnd ==
    /\ Ending # {}
    /\ \E spoilt \in SUBSET Station :
        /\ Cardinality(spoilt) <= scenario.errors
        /\ \A n \in spoilt : station[n].receiving \in Ending /\ ~station[n].garbled
        /\ scenario' = [scenario EXCEPT !.errors = @ - Cardinality(spoilt)]
        /\ station' = [n \in Station |-> Silenced(station[n], n, spoilt)]
    /\ air' = [n \in Station |-> IF n \in Ending THEN None ELSE air[n]]
    /\ UNCHANGED <<waiting, got, attempts, outcome>>

(* Time passes, to the next event or to a moment before it at which a      *)
(* higher layer sends a frame.                                             *)
Remaining == {air[n].left : n \in {m \in Station : air[m] # None}}
             \cup {station[p[1]].timer[p[2]] : p \in
                      {q \in Station \X TimerName : Scheduled(station[q[1]], q[2])}}

Tick ==
    /\ Quiet /\ New = {} /\ Remaining # {}
    /\ \E d \in 1 .. CHOOSE m \in Remaining : \A k \in Remaining : m <= k :
        /\ waiting # {} \/ d \in Remaining
        /\ station' = [n \in Station |-> [station[n] EXCEPT !.timer =
               [t \in TimerName |-> IF @[t] = -1 THEN -1 ELSE @[t] - d]]]
        /\ air' = [n \in Station |-> IF air[n] = None THEN None ELSE [air[n] EXCEPT !.left = @ - d]]
    /\ UNCHANGED <<waiting, scenario, got, attempts, outcome>>

Next ==
    \/ \E n \in Station :
           \/ UpperMsg(n) \/ LowerMsg(n) \/ RadioSends(n)
           \/ \E t \in TimerName : Timer(n, t)
    \/ FramesArrive \/ FramesEnd \/ Tick

Spec == Init /\ [][Next]_vars

(* The simulation goes on as long as there are events, and the higher      *)
(* layers do send their frames: weak fairness of Next and of UpperMsg,     *)
(* with their enabling conditions written out.                             *)
Fair ==
    /\ []<>(Remaining = {} /\ Pending = {} /\ waiting = {}) \/ []<><<TRUE>>_vars
    /\ []<>(waiting = {}) \/ []<><<TRUE>>_waiting

FairSpec == Spec /\ Fair

-----------------------------------------------------------------------------
(* Every variable has its type. *)
TypeOK ==
    /\ station \in [Station -> StationType]
    /\ air \in [Station -> OnAir \cup {None}]
    /\ waiting \subseteq FrameId
    /\ got \in [Station -> Seq(FrameId)]
    /\ attempts \in [FrameId -> 0 .. transmissionLimit]
    /\ outcome \in [FrameId -> Result \cup {"none"}]

(* No timer is scheduled twice, no frame is given to a radio that is       *)
(* sending, the ASSERTs of the state machine hold, and no variable leaves  *)
(* its type.                                                               *)
NoRuntimeError == TypeOK /\ \A n \in Station : ~station[n].err

(* Each timer runs in the states that wait for it and in no other, and a   *)
(* station without a timer has nothing to send or waits for a medium that  *)
(* is busy: no frame is stuck behind a change of the medium that was seen  *)
(* in another state.                                                       *)
TimersFit ==
    \A n \in Station :
        LET s == station[n] IN
        /\ Scheduled(s, "SIFS") <=> s.fsm = "WAITSIFS"
        /\ Scheduled(s, "DIFS") <=> s.fsm = "WAITDIFS"
        /\ Scheduled(s, "Backoff") <=> s.fsm = "BACKOFF"
        /\ Scheduled(s, "Timeout") <=> s.fsm \in {"WAITACK", "WAITCTS", "WAITBROADCAST"}
        /\ s.fsm = "DEFER" => ~isMediumFree(s)
        /\ s.fsm = "IDLE" => s.queue = <<>>

(* Physical and virtual carrier sense: a station that decides to send an   *)
(* RTS, or data no CTS allowed, hears no frame that had reached it and     *)
(* knows of no reservation, whatever states it went through since the      *)
(* medium changed.                                                         *)
SensesCarrier ==
    [][\A n \in Station :
          Contends(station[n], station'[n]) => Noise(n) = {} /\ ~Scheduled(station[n], "Reserve")]_vars

(* A frame taken for acknowledged has arrived, although an ACK names no    *)
(* frame.                                                                  *)
AckedArrived ==
    \A i \in FrameId : outcome[i] = "acked" => Contains(got[scenario.frames[i].to], i)

(* Frames from one station to another arrive in order: a retransmission    *)
(* may repeat the last one but never an earlier one.                       *)
InOrder ==
    \A n \in Station : \A i, j \in DOMAIN got[n] :
        (i < j /\ scenario.frames[got[n][i]].from = scenario.frames[got[n][j]].from)
            => got[n][i] <= got[n][j]

(* A frame is given up only after transmissionLimit attempts. *)
GivenUpAtLimit ==
    \A i \in FrameId : outcome[i] = "gaveUp" => attempts[i] = transmissionLimit

(* The fate of a frame is what its sender believes it is. *)
FramesAccounted == AckedArrived /\ InOrder /\ GivenUpAtLimit

(* Every frame is sent, acknowledged, given up or dropped at a full queue: *)
(* stations that collide or that do not hear each other do not block each  *)
(* other forever.                                                          *)
Settles == <>(\A i \in FrameId : outcome[i] # "none")
=============================================================================
