---------------------------- MODULE TcpRcvQueue ----------------------------
(***************************************************************************)
(* The receive queue of a connection                                       *)
(* (transport/tcp/queues/TCPVirtualDataRcvQueue.cc): the next byte         *)
(* expected and the list of regions [begin, end) received above it.        *)
(***************************************************************************)
EXTENDS TcpSeq, Sequences

Region == [begin : SeqNo, end : SeqNo]

Queue(nxt, regions) == [rcv_nxt |-> nxt, regions |-> regions]

(* The first of a set of positions in a list, or the place after its last. *)
First(S, last) == CHOOSE k \in S \cup {last + 1} : \A m \in S : k <= m

(* Mutant: a grown region is never joined with the ones that follow. *)
MutAbsorb(r, following) == <<r>> \o following

(* How far a region that ends at end reaches once it has swallowed the     *)
(* first k of the regions that follow.                                     *)
Reach(end, following) ==
    LET reach[k \in 0 .. Len(following)] ==
            IF k = 0 THEN end
            ELSE IF seqLess(reach[k - 1], following[k].end) THEN following[k].end
                                                            ELSE reach[k - 1]
    IN  reach

(* merge, last part: the regions that follow are swallowed as long as they *)
(* begin no later than the merged region ends.                             *)
Absorb(r, following) ==
    LET reach == Reach(r.end, following)
        apart == First({k \in 1 .. Len(following) : ~seqGE(reach[k - 1], following[k].begin)},
                       Len(following))
    IN  <<[r EXCEPT !.end = reach[apart - 1]]>> \o SubSeq(following, apart, Len(following))

(* merge: i is the first region that does not end before seg begins. *)
merge(regions, seg) ==
    LET i      == First({k \in 1 .. Len(regions) : ~seqLess(regions[k].end, seg.begin)},
                        Len(regions))
        before == SubSeq(regions, 1, i - 1)
        after  == SubSeq(regions, i + 1, Len(regions))
        r      == [regions[i] EXCEPT !.begin = IF seqLess(seg.begin, @) THEN seg.begin ELSE @]
    IN  before \o
            IF i > Len(regions) \/ seqLess(seg.end, regions[i].begin)
            THEN <<seg>> \o SubSeq(regions, i, Len(regions))
            ELSE IF seqLess(r.end, seg.end) THEN Absorb([r EXCEPT !.end = seg.end], after)
                                            ELSE <<r>> \o after

insertBytesFromSegment(q, seq, len) ==
    LET regions == merge(q.regions, [begin |-> seq, end |-> Plus(seq, len)])
    IN  Queue(IF seqGE(q.rcv_nxt, regions[1].begin) THEN regions[1].end ELSE q.rcv_nxt,
              regions)

(* Octets in the first k of the regions. *)
Octets(regions) ==
    LET octets[k \in 0 .. Len(regions)] ==
            IF k = 0 THEN 0 ELSE octets[k - 1] + Minus(regions[k].end, regions[k].begin)
    IN  octets

(* The loop of extractBytesUpTo(seq) calls in processSegment1stThru8th:    *)
(* octets handed to the application, the regions that stay, and whether    *)
(* ASSERT(begin<end) held for every first region that extractTo looked at. *)
(* Region i is the first that is not handed over whole.                    *)
Extract(q, seq) ==
    LET regions == q.regions
        i   == First({k \in 1 .. Len(regions) :
                        seqLE(seq, regions[k].begin) \/ seqLess(seq, regions[k].end)},
                     Len(regions))
        cut == i <= Len(regions) /\ ~seqLE(seq, regions[i].begin)
        stay == SubSeq(regions, i, Len(regions))
    IN  [octets |-> Octets(regions)[i - 1] + (IF cut THEN Minus(seq, regions[i].begin) ELSE 0),
         rest   |-> IF cut THEN [stay EXCEPT ![1].begin = seq] ELSE stay,
         ok     |-> /\ \A k \in DOMAIN regions : k <= i => regions[k].begin < regions[k].end
                    /\ cut => seq < regions[i].end]
=============================================================================
