------------------------------- MODULE MCDcf -------------------------------
(***************************************************************************)
(* Instances of Dcf for TLC: three stations, of which a and c hear only b. *)
(***************************************************************************)
EXTENDS Dcf

CONSTANTS a, b, c

Three == {a, b, c}

(* Short durations in the order of the real ones: SIFS < ACK = CTS < RTS   *)
(* < data.                                                                 *)
Control == [t \in {"RTS", "CTS", "ACK"} |-> IF t = "RTS" THEN 4 ELSE 3]

Hidden == {<<a, b>>, <<b, a>>, <<b, c>>, <<c, b>>}
Everybody == {p \in Three \X Three : p[1] # p[2]}

Send(i, from, to, airtime) ==
    [type |-> "DATA", from |-> from, to |-> to, id |-> i, airtime |-> airtime, duration |-> 0]

Short == 3
Long == 5

Scenario(hears, errors, frames) == [hears |-> hears, errors |-> errors, frames |-> frames]

(* Two stations hidden from each other send to the one between them, which *)
(* answers; one of them sends more than its queue holds, with bit errors;  *)
(* three stations contend.                                                 *)
MCScenarios ==
    {Scenario(Hidden, 0, <<Send(1, a, b, Long), Send(2, c, b, Long), Send(3, b, c, Short)>>),
     Scenario(Hidden, 2, <<Send(1, a, b, Short), Send(2, a, b, Long), Send(3, a, b, Short),
                           Send(4, b, Broadcast, Short)>>),
     Scenario(Everybody, 0, <<Send(1, a, b, Long), Send(2, b, c, Short), Send(3, c, Broadcast, Short)>>)}
=============================================================================
