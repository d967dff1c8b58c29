------------------------------- MODULE MCDsi -------------------------------
(***************************************************************************)
(* Instances of Dsi for TLC.                                               *)
(***************************************************************************)
EXTENDS Dsi, TLC

CONSTANT p1

OnePair == {p1}

(* Both edge switches in one pod of a fat tree with 4 ports, or with 6.    *)
(* There count packets travel until their TTL is used up, which a small    *)
(* one lets happen soon.                                                   *)
Pod(aggregates, packets, queueLen, threshold, ttl, breaks) ==
    [up |-> (Edge :> aggregates), down |-> [a \in Range(aggregates) |-> Dest],
     asked |-> Range(aggregates), packets |-> packets, hash |-> [p \in Pair |-> 0],
     queueLen |-> queueLen, threshold |-> threshold, ttl |-> ttl, breaks |-> breaks]

PodOf4(n, threshold, breaks) ==
    Pod(<<"a1", "a2">>, [p \in Pair |-> n], ("a1" :> 0 @@ "a2" :> 2), threshold, 3, breaks)

PodOf6(n, ttl) == Pod(<<"a1", "a2", "a3">>, [p \in Pair |-> n],
                      ("a1" :> 1 @@ "a2" :> 0 @@ "a3" :> 12), 0, ttl, {})

(* Two pods of a fat tree with 4 ports. *)
TwoPods(n, hash, queueLen) ==
    [up |-> (Edge :> <<"a1", "a2">> @@ "a1" :> <<"c1", "c2">> @@ "a2" :> <<"c3", "c4">>),
     down |-> ("a1" :> Nowhere @@ "a2" :> Nowhere @@ "c1" :> "b1" @@ "c2" :> "b1"
               @@ "c3" :> "b2" @@ "c4" :> "b2" @@ "b1" :> Dest @@ "b2" :> Dest),
     asked |-> DOMAIN queueLen, packets |-> [p \in Pair |-> n],
     hash |-> [p \in Pair |-> hash], queueLen |-> queueLen,
     threshold |-> 0, ttl |-> 5, breaks |-> {}]

(* All switches are lightly loaded but c4, which every hash routed packet  *)
(* goes through: that row comes out of the distribution with -1 packets.   *)
QueueLen(n) == CASE n = "c4" -> 12 [] n = "c1" -> 0 [] OTHER -> 1

Order == <<"a1", "a2", "b1", "b2", "c1", "c2", "c3", "c4">>
Rank(n) == CHOOSE i \in DOMAIN Order : Order[i] = n

Balanced == {PodOf4(4, 1, {}), PodOf4(4, 0, {"a1"}), PodOf6(3, 3), PodOf6(3, 2),
             TwoPods(4, 3, [n \in Range(Order) |-> QueueLen(n)])}

(* Bounds of the scenario of two pods, on what those of one pod leave free: *)
(* the edge switch handles one packet of a kind at a time, the switches    *)
(* answer in one order and the routes but that of c4 come back in one, and *)
(* the flow is distributed once the packets sent by hash have come through. *)
Bounded == AcrossPods(scenario) =>
    /\ queue = <<>>
    /\ Cardinality(InNet({"load"})) + Cardinality(InPqueue({"load", "found", "hashroute"})) <= 1
    /\ Cardinality(InNet({"count"})) <= 2
    /\ \A p \in Pair :
        /\ dynamic[p] => /\ InNet({"hashed", "hashroute", "probe"}) = {}
                         /\ Cardinality(InNet({"found"})) <= 1
        /\ \A i, j \in DOMAIN Order :
            i < j /\ LoadQuery(p, Order[i]) \in InNet({"loadquery"})
                => LoadQuery(p, Order[j]) \in InNet({"loadquery"})
        /\ \A r, q \in DOMAIN rows[p] :
            r < q /\ rows[p][r].up[2] # "c4" /\ rows[p][q].up[2] # "c4"
                => Rank(rows[p][r].up[2]) < Rank(rows[p][q].up[2])
=============================================================================
