----------------------------- MODULE MCTcpPair -----------------------------
(***************************************************************************)
(* Instances of TcpPair for TLC: the initial sequence numbers and the      *)
(* scenarios of each run.                                                  *)
(***************************************************************************)
EXTENDS TcpPair, TLC

CONSTANTS cli, srv

MCPeer        == {cli, srv}

ClientServer  == (cli :> "active" @@ srv :> "passive")
BothActive    == (cli :> "active" @@ srv :> "active")

LowIss        == (cli :> 1 @@ srv :> 3)
(* The client's data starts at sequence number 0 of a SeqSpace of 64. *)
WrapIss       == (cli :> 63 @@ srv :> 30)

TwoByOne      == (cli :> <<2>> @@ srv :> <<1>>)
OnesByOne     == (cli :> <<1, 1, 1>> @@ srv :> <<1>>)
ThreeByTwo    == (cli :> <<1, 2>> @@ srv :> <<2>>)

-----------------------------------------------------------------------------
(* A client and a server that send, close and lose nothing. *)
Plain ==
    [opens |-> ClientServer, script |-> TwoByOne,
     closers |-> MCPeer, earlyClosers |-> {}, aborters |-> {},
     netFaults |-> {}, maxFaults |-> 0, earlyTimers |-> {}]

FaultScenarios ==
    {[Plain EXCEPT !.script = OnesByOne, !.netFaults = {"lose", "reorder"}, !.maxFaults = 2]}

(* Retransmission timers shorter than the round trip; simultaneous open    *)
(* with abort() at any moment.                                             *)
TimerScenarios ==
    {[Plain EXCEPT !.earlyTimers = {"REXMIT", "SYN_REXMIT"}],
     [Plain EXCEPT !.opens = BothActive, !.aborters = MCPeer, !.netFaults = {"lose"},
                   !.maxFaults = 1, !.earlyTimers = {"SYN_REXMIT"}]}

FaultOrTimerScenarios == FaultScenarios \cup TimerScenarios

(* Everybody closes over a reliable network; nobody closes over one that   *)
(* makes any two faults.                                                   *)
LiveScenarios ==
    {[Plain EXCEPT !.earlyClosers = {cli}],
     [Plain EXCEPT !.script = ThreeByTwo, !.closers = {}, !.maxFaults = 2,
                   !.netFaults = {"lose", "duplicate", "reorder"}]}

OneLoss == {[Plain EXCEPT !.netFaults = {"lose"}, !.maxFaults = 1]}
=============================================================================
