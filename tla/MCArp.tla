------------------------------- MODULE MCArp -------------------------------
(***************************************************************************)
(* Instance of Arp for TLC: two networks joined by a node with proxy ARP.  *)
(***************************************************************************)
EXTENDS Arp

CONSTANTS h1, h2, r

Hosts == {h1, h2, r}
TwoLans == {"l1", "l2"}
Joined == {<<h1, "l1">>, <<r, "l1">>, <<r, "l2">>, <<h2, "l2">>}
Router == {r}

(* The router reaches every address on its own network. *)
Routes == [n \in Hosts |-> [a \in Joined \cup {Multicast} |->
             IF n = h1 \/ (a = Multicast /\ n = r) THEN "l1"
             ELSE IF n = h2 THEN "l2" ELSE a[2]]]

(* A host that sends over the router, and one that sends to it while it    *)
(* sends to the host.                                                      *)
Flows == {<<h1, <<h2, "l2">>>>, <<h1, Multicast>>, <<h2, <<r, "l2">>>>, <<r, <<h2, "l2">>>>}
Packets == [n \in Hosts |-> IF n = h1 THEN 2 ELSE 1]
=============================================================================
