----------------------------- MODULE MCTcpMain -----------------------------
(* A small instance of TcpMain: one host address, one remote socket, one    *)
(* well-known port and an ephemeral range of two ports.                     *)
EXTENDS TcpMain, TLC

CONSTANTS c1, c2, c3, host, peer

MCConn == {c1, c2, c3}
MCLocalAddr == {host}
MCRemoteAddr == {peer}
MCLocalPort == {80, 1024}
MCRemotePort == {7}

ConnSymmetry == Permutations(MCConn)
=============================================================================
