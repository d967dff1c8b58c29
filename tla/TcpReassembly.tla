--------------------------- MODULE TcpReassembly ---------------------------
(***************************************************************************)
(* What the receive side of a TCP connection promises its application,     *)
(* without sequence numbers, regions or windows: of the bytes that have    *)
(* arrived, in whatever order and however often, exactly the longest       *)
(* gap-free prefix has been delivered.                                     *)
(***************************************************************************)
EXTENDS Integers

CONSTANT StreamLen      \* bytes in the peer's stream

VARIABLES
    have,               \* offsets of the bytes that have arrived
    delivered           \* number of bytes delivered to the application

absVars == <<have, delivered>>

Prefix(S) == CHOOSE n \in 0 .. StreamLen :
                /\ 0 .. (n - 1) \subseteq S
                /\ n \notin S

AbsInit == have = {} /\ delivered = 0

Receive(lo, hi) ==
    /\ have' = have \cup lo .. (hi - 1)
    /\ delivered' = Prefix(have')

AbsNext == \E lo \in 0 .. StreamLen, hi \in 0 .. StreamLen :
                delivered <= lo /\ lo < hi /\ Receive(lo, hi)

AbsSpec == AbsInit /\ [][AbsNext]_absVars
=============================================================================
