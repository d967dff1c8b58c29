----------------------------- MODULE TcpReceive -----------------------------
(***************************************************************************)
(* Segment text in the data transfer states: the "seventh" step of         *)
(* TCPConnection::processSegment1stThru8th driving the receive queue, for  *)
(* every order in which acceptable segments of one stream can arrive.      *)
(***************************************************************************)
EXTENDS TcpRcvQueue

CONSTANTS
    StreamLen,      \* bytes in the peer's stream
    FirstSeqs,      \* sequence numbers the first byte may have
    RcvWnd          \* rcv_wnd, the advertised window

ASSUME ReceiveAssumption ==
    /\ StreamLen \in Nat /\ StreamLen < SeqSpace \div 2
    /\ RcvWnd \in Nat \ {0} /\ RcvWnd < SeqSpace \div 2
    /\ FirstSeqs \subseteq SeqNo

VARIABLES
    first,          \* sequence number of the first byte (irs + 1)
    q,              \* the receive queue
    arrived,        \* history: offsets of the bytes in the segments so far
    delivered,      \* bytes handed to the application in TCP_I_DATA messages
    err             \* the ASSERT that stopped the simulation

vars == <<first, q, arrived, delivered, err>>

(* receiveQueue->init(rcv_nxt), when the peer's SYN arrives. *)
Init ==
    /\ first \in FirstSeqs
    /\ q = Queue(first, <<>>)
    /\ arrived = {}
    /\ delivered = 0
    /\ err = "none"

(* isSegmentAcceptable: the segment lies entirely in the receive window. *)
Acceptable(seq, len) ==
    /\ seqGE(seq, q.rcv_nxt)
    /\ seqLE(Plus(seq, len), Plus(q.rcv_nxt, RcvWnd))

(* Mutant: data above rcv_nxt is not cached (RFC 2525, section 2.5). *)
MutText(seq, len) ==
    LET ins == insertBytesFromSegment(q, seq, len)
        ext == Extract(ins, ins.rcv_nxt)
    IN  IF ins.rcv_nxt = q.rcv_nxt
        THEN UNCHANGED <<first, q, delivered, err>>
        ELSE /\ q' = [ins EXCEPT !.regions = ext.rest]
             /\ delivered' = delivered + ext.octets
             /\ UNCHANGED <<first, err>>

Text(seq, len) ==
    LET ins == insertBytesFromSegment(q, seq, len)
        ext == Extract(ins, ins.rcv_nxt)
    IN  IF ins.rcv_nxt = q.rcv_nxt
        THEN q' = ins /\ UNCHANGED <<first, delivered, err>>
        ELSE IF ext.ok
        THEN /\ q' = [ins EXCEPT !.regions = ext.rest]
             /\ delivered' = delivered + ext.octets
             /\ UNCHANGED <<first, err>>
        ELSE err' = "ASSERT(begin<end)" /\ UNCHANGED <<first, q, delivered>>

(* The peer sends bytes lo .. hi-1 of its stream, in any order, as often   *)
(* as it likes and cut into segments as it likes.                          *)
Arrive(lo, hi) ==
    /\ err = "none"
    /\ lo < hi
    /\ Acceptable(Plus(first, lo), hi - lo)
    /\ Text(Plus(first, lo), hi - lo)
    /\ arrived' = IF err' = "none" THEN arrived \cup lo .. (hi - 1) ELSE arrived

Next == \E lo \in 0 .. StreamLen, hi \in 0 .. StreamLen : Arrive(lo, hi)

Spec == Init /\ [][Next]_vars

-----------------------------------------------------------------------------
(* The region list is kept sorted, with gaps between the regions and before *)
(* the first, and rcv_nxt is where the delivered bytes end: the shape that  *)
(* merge, insertBytesFromSegment and extractTo rely on.                     *)
RegionsCanonical ==
    LET rel(s) == Minus(s, q.rcv_nxt) IN
    /\ q.rcv_nxt = Plus(first, delivered)
    /\ \A i \in 1 .. Len(q.regions) :
          /\ 0 < rel(q.regions[i].begin)
          /\ rel(q.regions[i].begin) < rel(q.regions[i].end)
          /\ rel(q.regions[i].end) <= RcvWnd
          /\ i < Len(q.regions) => rel(q.regions[i].end) < rel(q.regions[i+1].begin)

Reassembly == INSTANCE TcpReassembly WITH have <- arrived

(* The region list implements reassembly: whatever the arrival order, each *)
(* byte is delivered exactly when all the bytes in front of it have arrived; *)
(* none is lost, invented or forgotten above a gap.                        *)
ImplementsReassembly == Reassembly!AbsSpec
=============================================================================
