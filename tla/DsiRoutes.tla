----------------------------- MODULE DsiRoutes -----------------------------
(***************************************************************************)
(* The rows an edge switch keeps for a pair of hosts in delay_load_matrix  *)
(* (networklayer/ipv4/IPchanged.cc, documented in IP.h) and the functions  *)
(* that change them.  A row is a route to the destination edge switch: the *)
(* switches on it (columns 2-5), the packets that may still be sent along  *)
(* it (column 6; negative while hash routed packets are only counted) and  *)
(* its load (column 7).  Column 1, the delay, only orders the routes and is *)
(* left out.                                                               *)
(***************************************************************************)
EXTENDS Integers, Sequences, SequencesExt

CONSTANT NUM_PACKETS    \* packets to be distributed over the routes

ASSUME NumPacketsAssumption == NUM_PACKETS \in Nat \ {0}

(* `via' is <<aggregate, core, aggregate downwards>>, or <<aggregate>> when *)
(* both edge switches are in one pod; a row found through a hash routed    *)
(* packet has only its first two addresses until a probe completes it.     *)
(* `assigned' and `sent' are the packets assigned to and sent along it.    *)
NewRow(up, via) == [up |-> up, via |-> via, left |-> 0, load |-> 0, assigned |-> 0, sent |-> 0]

RowOf(rows, up) == {r \in DOMAIN rows : rows[r].up = up}

(* Mutation: every answer is taken for a new route. *)
MutFillHash(rows, up) == Append(rows, [NewRow(up, <<>>) EXCEPT !.left = -1])

(* fill_routes_in_delay_load_matrix for the answer to a hash routed packet: *)
(* the packet is taken off the route, which is added if it is new.         *)
FillHash(rows, up) ==
    IF RowOf(rows, up) = {}
    THEN Append(rows, [NewRow(up, <<>>) EXCEPT !.left = -1])
    ELSE [r \in DOMAIN rows |-> IF r \in RowOf(rows, up)
                                THEN [rows[r] EXCEPT !.left = @ - 1] ELSE rows[r]]

(* fill_routes_in_delay_load_matrix for a probe that has come back. *)
FillProbe(rows, up, via) ==
    IF RowOf(rows, up) = {}
    THEN Append(rows, NewRow(up, via))
    ELSE [r \in DOMAIN rows |-> IF r \in RowOf(rows, up)
                                THEN [rows[r] EXCEPT !.via = via] ELSE rows[r]]

(* The source edge's part of route_load_packet: the load of a route is the *)
(* greatest load of its switches.                                          *)
RecordLoad(rows, switch, load) ==
    [r \in DOMAIN rows |->
        IF /\ \/ switch \in {rows[r].up[1], rows[r].up[2]}
              \/ \E i \in DOMAIN rows[r].via : rows[r].via[i] = switch
           /\ rows[r].load <= load
        THEN [rows[r] EXCEPT !.load = load] ELSE rows[r]]

-----------------------------------------------------------------------------
(* Sums and products over the first n elements of a sequence. *)
SumTo(f, n) == LET sum[i \in 0 .. n] == IF i = 0 THEN 0 ELSE sum[i - 1] + f[i] IN sum[n]

ProductTo(f, n) ==
    LET product[i \in 0 .. n] == IF i = 0 THEN 1 ELSE product[i - 1] * f[i] IN product[n]

(* The part of n that falls to row r when n is divided among the rows of S *)
(* in inverse proportion to their loads, rounded to the nearest integer    *)
(* (0.5 itself to 0).  A load of 0 makes the sum of the inverses infinite  *)
(* and every part 0 or not a number, which counts as 0.                    *)
Part(rows, S, r, n) ==
    LET others(j) == [i \in DOMAIN rows |-> IF i \in S \ {j} THEN rows[i].load ELSE 1]
        inverse == [j \in DOMAIN rows |->
                       IF j \in S THEN ProductTo(others(j), Len(rows)) ELSE 0]
        total == SumTo(inverse, Len(rows))
    IN  IF (\E i \in S : rows[i].load = 0) \/ 2 * n * inverse[r] <= total THEN 0
        ELSE (2 * n * inverse[r] + total) \div (2 * total)

AtLeast0(n) == IF n < 0 THEN 0 ELSE n

Left(rows) == SumTo([r \in DOMAIN rows |-> rows[r].left], Len(rows))

(* Mutation: what rounding and clipping change is not made up for. *)
Mutfill_delay_load_matrix(rows) ==
    [r \in DOMAIN rows |->
        LET n == AtLeast0(rows[r].left + Part(rows, DOMAIN rows, r, NUM_PACKETS))
        IN  [rows[r] EXCEPT !.left = n, !.assigned = n]]

(* The first row with most packets left, and the first with fewest. *)
posi_max(rows) == CHOOSE r \in DOMAIN rows : \A q \in DOMAIN rows :
    rows[r].left > rows[q].left \/ (rows[r].left = rows[q].left /\ r <= q)
posi_min(rows) == CHOOSE r \in DOMAIN rows : \A q \in DOMAIN rows :
    rows[r].left < rows[q].left \/ (rows[r].left = rows[q].left /\ r <= q)

(* NUM_PACKETS are divided among the routes, less the hash routed packets  *)
(* already sent along each; what rounding and clipping add (surplus) or    *)
(* lose is made up on one route.                                           *)
Share(row, n) == IF n = 0 THEN 0 ELSE AtLeast0(row.left + n)

Divided(rows) == [r \in DOMAIN rows |->
    [rows[r] EXCEPT !.left = Share(rows[r], Part(rows, DOMAIN rows, r, NUM_PACKETS))]]

Corrected(rows, surplus) ==
    IF surplus > 0 THEN [rows EXCEPT ![posi_max(rows)].left = @ - surplus]
    ELSE IF surplus < 0 THEN [rows EXCEPT ![posi_min(rows)].left = @ - surplus]
    ELSE rows

CorrectedFor(rows, divided) == Corrected(divided, Left(divided) - Left(rows) - NUM_PACKETS)

Assigned(rows) == [r \in DOMAIN rows |-> [rows[r] EXCEPT !.assigned = rows[r].left]]

fill_delay_load_matrix(rows) == Assigned(CorrectedFor(rows, Divided(rows)))

(* Mutation: the failed route keeps its packets. *)
Mutadjust_packet_count(rows, failed) == rows

(* adjust_packet_count: the packets left on a failed route, n, go to the   *)
(* others.                                                                 *)
GiveTo(rows, open, n) ==
    [r \in DOMAIN rows |->
        IF r \in open /\ Part(rows, open, r, n) # 0
        THEN [rows[r] EXCEPT !.left = AtLeast0(@ + Part(rows, open, r, n))] ELSE rows[r]]

adjust_packet_count(rows, failed) ==
    GiveTo([rows EXCEPT ![failed].left = -1],
           {r \in DOMAIN rows \ {failed} : rows[r].left # -1}, rows[failed].left)

(* route_link_failure_packet at the edge switch whose link to `aggregate'  *)
(* failed: every route through it, in the order of the rows.               *)
CloseRoutes(rows, aggregate) ==
    LET closed[r \in 0 .. Len(rows)] ==
        IF r = 0 THEN rows
        ELSE IF rows[r].up[1] = aggregate THEN adjust_packet_count(closed[r - 1], r)
        ELSE closed[r - 1]
    IN  closed[Len(rows)]
=============================================================================
