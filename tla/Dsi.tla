-------------------------------- MODULE Dsi --------------------------------
(***************************************************************************)
(* Load balancing of a data centre network: an edge switch finds the       *)
(* routes to another edge switch with probes, asks the switches on them    *)
(* for their load through the controller and then distributes the packets  *)
(* of a pair of hosts over the routes (networklayer/ipv4/IPchanged.cc over *)
(* base/AbstractQueue.cc, base/QueueBase.cc; networklayer/arp/ARP.cc for   *)
(* broken links).                                                          *)
(*                                                                         *)
(* The state is that of the source edge switch, of the packets on their    *)
(* way and of future_packets_count of every switch.  Data packets of the   *)
(* edge switch wait in `queue', control packets in `pqueue'; the two are   *)
(* served by timers of their own.  At the other switches a packet is       *)
(* served some time after it arrives.                                      *)
(***************************************************************************)
EXTENDS DsiRoutes, Bags, FiniteSets

CONSTANTS
    Pair,           \* pairs of a host of the source edge and one of the destination edge
    Edge, Dest,     \* the two edge switches
    Nowhere,        \* no switch
    Scenarios       \* topologies and traffic

(* up: the routes of rt1 of a switch, to the next higher layer; down: the  *)
(* route of rt to Dest; asked: the switches the controller asks; packets:  *)
(* what each pair sends; hash: the route hashRouting picks for the packets *)
(* of a pair; queueLen: the queue lengths the switches report; threshold:  *)
(* THRESHOLD, the packets of a flow in the queue that make it a large one; *)
(* ttl: timeToLive; breaks: the aggregate switches whose link to the edge  *)
(* switch may break, which it does once a flow is distributed.             *)
VARIABLES
    scenario,
    toSend,         \* Pair -> packets the host has still to send
    serving,        \* msgServiced of the edge switch: a pair, or Nowhere
    queue,          \* data packets of the edge switch, as their pairs
    pqueue,         \* control packets of the edge switch
    probeTimer,     \* probe_endServiceMsg is scheduled
    rows,           \* Pair -> routes found so far; [1][0] is their number
    dynamic,        \* Pair -> [0][0] = 1: the flow is distributed over the routes
    loads,          \* Pair -> [2][0]: load packets received, -1: not asked for
    forwarded,      \* Pair -> numForwarded_per_host
    future,         \* switch -> future_packets_count
    net,            \* bag of packets on their way
    broken,         \* aggregate switch whose link to the edge is broken, or Nowhere
    told,           \* flag_for_packet_sent_out of the edge switch's ARP
    learned,        \* the pairs that were dynamic when the failure was handled
    err             \* runtime error or undefined behaviour

vars == <<scenario, toSend, serving, queue, pqueue, probeTimer, rows, dynamic, loads,
          forwarded, future, net, broken, told, learned, err>>

Switch == UNION {s.asked : s \in Scenarios}

(* Both edge switches are in one pod, or every route between them leads    *)
(* over a core switch.  Then the switches have four ports: the k*k/4       *)
(* routes of a larger tree do not fit the k rows of delay_load_matrix.     *)
OnePod(s) == \A i \in DOMAIN s.up[Edge] : s.down[s.up[Edge][i]] = Dest

AcrossPods(s) ==
    /\ Len(s.up[Edge]) = 2
    /\ \A i \in DOMAIN s.up[Edge] :
        LET a == s.up[Edge][i] IN
        /\ s.down[a] = Nowhere
        /\ s.up[a] \in Seq(s.asked) /\ Len(s.up[a]) = 2
        /\ \A j \in DOMAIN s.up[a] : s.down[s.up[a][j]] \in s.asked

(* Links break where the switches have four ports: link_broken's arithmetic *)
(* for other numbers is not modelled.                                      *)
ASSUME ScenarioAssumption ==
    /\ Nowhere \notin Pair /\ Dest # Nowhere
    /\ Switch \cap {Edge, Dest, Nowhere, "controller"} = {}
    /\ Edge \notin {Dest, Nowhere, "controller"}
    /\ \A s \in Scenarios :
        /\ IsFiniteSet(s.asked)
        /\ s.up[Edge] \in Seq(s.asked) /\ s.up[Edge] # <<>>
        /\ s.down \in [s.asked -> s.asked \cup {Dest, Nowhere}]
        /\ OnePod(s) \/ AcrossPods(s)
        /\ {s.packets, s.hash} \subseteq [Pair -> Nat] /\ s.queueLen \in [s.asked -> Nat]
        /\ s.breaks \subseteq Range(s.up[Edge])
        /\ s.breaks # {} => Len(s.up[Edge]) = 2
        /\ s.ttl \in Nat \ {0}

Up(n) == scenario.up[n]
Down(n) == scenario.down[n]
NumLoads == Cardinality(scenario.asked)

(* k*k/4 routes between pods, k/2 inside one, in a fat tree of k ports. *)
NumRoutes == IF Down(Up(Edge)[1]) # Nowhere THEN Len(Up(Edge))
             ELSE SumTo([i \in DOMAIN Up(Edge) |-> Len(Up(Up(Edge)[i]))], Len(Up(Edge)))

Init ==
    /\ scenario \in Scenarios
    /\ toSend = scenario.packets
    /\ serving = Nowhere /\ queue = <<>> /\ pqueue = <<>> /\ probeTimer = FALSE
    /\ rows = [p \in Pair |-> <<>>]
    /\ dynamic = [p \in Pair |-> FALSE]
    /\ loads = [p \in Pair |-> -1]
    /\ forwarded = [p \in Pair |-> 0]
    /\ future = [n \in Switch |-> 0]
    /\ net = EmptyBag
    /\ broken = Nowhere /\ told = FALSE /\ learned = {}
    /\ err = "none"

Running == err = "none"

-----------------------------------------------------------------------------
(* Packets.  `at' is the switch they travel to. *)
Probe(p, at)            == [kind |-> "probe", pair |-> p, at |-> at]
Found(p, up, via)       == [kind |-> "found", pair |-> p, at |-> Edge, up |-> up, via |-> via]
Hashed(p, at)           == [kind |-> "hashed", pair |-> p, at |-> at]
HashRoute(p, up)        == [kind |-> "hashroute", pair |-> p, at |-> Edge, up |-> up]
Data(at, core)          == [kind |-> "data", at |-> at, core |-> core]
LoadRequest(p)          == [kind |-> "loadrequest", pair |-> p, at |-> "controller"]
LoadQuery(p, at)        == [kind |-> "loadquery", pair |-> p, at |-> at]
Load(p, n, l)           == [kind |-> "load", pair |-> p, at |-> Edge, switch |-> n, load |-> l]
Count(at, record, n, ttl) ==
    [kind |-> "count", at |-> at, record |-> record, n |-> n, ttl |-> ttl]
LinkFailure(at, a)      == [kind |-> "linkfailure", at |-> at, aggregate |-> a]

One(m) == SetToBag({m})
Each(S) == SetToBag(S)

(* ARP::processOutboundPacket and link_broken at the edge switch: a packet *)
(* for an interface whose link is broken leaves through its neighbour, and *)
(* the controller is told, the first time.                                 *)
Detour(a) ==
    LET i == CHOOSE j \in DOMAIN Up(Edge) : Up(Edge)[j] = a
    IN  Up(Edge)[IF i = Len(Up(Edge)) THEN i - 1 ELSE i + 1]

Through(a) == IF a = broken THEN Detour(a) ELSE a

Notice(S) == IF broken \in S /\ ~told THEN One(LinkFailure("controller", broken)) ELSE EmptyBag

(* hashRouting: the same hash of the flow at every switch. *)
hashRouting(p, n) == Up(n)[1 + (scenario.hash[p] % Len(Up(n)))]

-----------------------------------------------------------------------------
(* The queues of the edge switch: AbstractQueue and QueueBase. *)

(* A data packet from a host: handleMessage, arrivalWhenIdle or arrival. *)
HostSends(p) ==
    /\ Running /\ toSend[p] > 0
    /\ toSend' = [toSend EXCEPT ![p] = @ - 1]
    /\ IF serving = Nowhere THEN serving' = p /\ UNCHANGED queue
                            ELSE queue' = Append(queue, p) /\ UNCHANGED serving
    /\ probeTimer' = TRUE
    /\ UNCHANGED <<scenario, pqueue, rows, dynamic, loads, forwarded, future, net, broken, told,
                   learned, err>>

(* Mutation: the timer is only started for a packet that need not queue. *)
MutControlArrives ==
    /\ Running
    /\ \E m \in BagToSet(net) :
        /\ m.at = Edge
        /\ net' = net (-) One(m)
        /\ pqueue' = Append(pqueue, m)
    /\ probeTimer' = (probeTimer \/ pqueue = <<>>)
    /\ UNCHANGED <<scenario, toSend, serving, queue, rows, dynamic, loads, forwarded, future,
                   broken, told, learned, err>>

(* A control packet from the network. *)
ControlArrives ==
    /\ Running
    /\ \E m \in BagToSet(net) :
        /\ m.at = Edge
        /\ net' = net (-) One(m)
        /\ pqueue' = Append(pqueue, m)
    /\ probeTimer' = TRUE
    /\ UNCHANGED <<scenario, toSend, serving, queue, rows, dynamic, loads, forwarded, future,
                   broken, told, learned, err>>

(* doEndService: the next packet is taken into service. *)
NextServed ==
    IF queue = <<>> THEN serving' = Nowhere /\ UNCHANGED queue
                    ELSE serving' = Head(queue) /\ queue' = Tail(queue)

-----------------------------------------------------------------------------
(* routePacket for a data packet of pair p at the edge switch. *)

count_pkt_in_queue(p) == Cardinality({i \in DOMAIN queue : queue[i] = p})

(* The probe that goes out with the first packet waits in pqueue; so do    *)
(* the packets of send_future_packet_count, one per route.                 *)
FirstProbe(p) == IF forwarded[p] = 0 THEN <<Probe(p, Edge)>> ELSE <<>>

send_future_packet_count(rs) ==
    [r \in DOMAIN rs |->
        Count(Edge, <<Edge>> \o (IF Down(rs[r].up[1]) # Nowhere THEN <<rs[r].up[1]>>
                                 ELSE IF rs[r].via = <<>> THEN rs[r].up \o <<Nowhere>>
                                 ELSE rs[r].via),
              rs[r].left, scenario.ttl)]

UseHash(p) == ~dynamic[p] /\ count_pkt_in_queue(p) < scenario.threshold
AsksLoad(p) == ~UseHash(p) /\ loads[p] = -1 /\ Len(rows[p]) = NumRoutes
Fills(p) == ~UseHash(p) /\ ~dynamic[p] /\ Len(rows[p]) = NumRoutes /\ loads[p] = NumLoads
UseRoutes(p) == ~UseHash(p) /\ Len(rows[p]) = NumRoutes /\ loads[p] >= NumLoads

HashStep(p) ==
    /\ serving = p /\ ~UseRoutes(p)
    /\ LET a == hashRouting(p, Edge) IN
        /\ net' = net (+) One(Hashed(p, Through(a))) (+) Notice({a})
                      (+) (IF AsksLoad(p) THEN One(LoadRequest(p)) ELSE EmptyBag)
        /\ told' = (told \/ a = broken)
    /\ loads' = IF AsksLoad(p) THEN [loads EXCEPT ![p] = 0] ELSE loads
    /\ pqueue' = pqueue \o FirstProbe(p)
    /\ forwarded' = [forwarded EXCEPT ![p] = @ + 1]
    /\ NextServed
    /\ UNCHANGED <<rows, dynamic, err>>

(* The routes a packet can take.  Mutation: the last packet is kept back. *)
MutUsable(rs) == {r \in DOMAIN rs : rs[r].left > 1}

Usable(rs) == {r \in DOMAIN rs : rs[r].left > 0}

(* The route with the least delay among those with packets left; if there  *)
(* is none, path_to_be_taken is read uninitialized.                        *)
RouteStep(p) ==
    /\ serving = p /\ UseRoutes(p)
    /\ \E rs \in {IF Fills(p) THEN fill_delay_load_matrix(rows[p]) ELSE rows[p]} :
           \/ /\ Usable(rs) = {}
              /\ err' = "path_to_be_taken"
              /\ UNCHANGED <<serving, queue, pqueue, rows, dynamic, loads, forwarded, net, told>>
           \/ /\ Usable(rs) # {}
              /\ \E r \in Usable(rs) :
                  LET a == rs[r].up[1] IN
                  /\ rows' = [rows EXCEPT ![p] =
                                 [rs EXCEPT ![r].left = @ - 1, ![r].sent = @ + 1]]
                  /\ net' = net (+) One(Data(Through(a), rs[r].up[2])) (+) Notice({a})
                  /\ told' = (told \/ a = broken)
              /\ dynamic' = [dynamic EXCEPT ![p] = @ \/ Fills(p)]
              /\ pqueue' = pqueue \o (IF Fills(p) THEN send_future_packet_count(rs) ELSE <<>>)
              /\ forwarded' = [forwarded EXCEPT ![p] = @ + 1]
              /\ NextServed
              /\ UNCHANGED <<loads, err>>

EndService ==
    /\ Running
    /\ \E p \in Pair : HashStep(p) \/ RouteStep(p)
    /\ UNCHANGED <<scenario, toSend, probeTimer, future, broken, learned>>

-----------------------------------------------------------------------------
(* doProbeEndService: a control packet of the edge switch is served. *)

(* routePacket duplicates a probe over all upward routes. *)
Probes(p) ==
    [m \in {Probe(p, Through(a)) : a \in Range(Up(Edge))} |->
        Cardinality({i \in DOMAIN Up(Edge) : Probe(p, Through(Up(Edge)[i])) = m})]

SendProbe(m) ==
    /\ m.kind = "probe"
    /\ net' = net (+) Probes(m.pair) (+) Notice(Range(Up(Edge)))
    /\ told' = (told \/ broken \in Range(Up(Edge)))
    /\ UNCHANGED <<rows, loads, learned, err>>

RecordRoute(m) ==
    /\ m.kind \in {"found", "hashroute"}
    /\ rows' = [rows EXCEPT ![m.pair] = IF m.kind = "found" THEN FillProbe(@, m.up, m.via)
                                        ELSE FillHash(@, m.up)]
    /\ UNCHANGED <<net, told, loads, learned, err>>

(* route_load_packet at the source edge. *)
ReceiveLoad(m) ==
    /\ m.kind = "load"
    /\ rows' = [rows EXCEPT ![m.pair] = RecordLoad(@, m.switch, m.load)]
    /\ loads' = [loads EXCEPT ![m.pair] = @ + 1]
    /\ UNCHANGED <<net, told, learned, err>>

(* handlePacketFromNetwork records the node while there is room.  A node   *)
(* finds its successor behind its own first entry, so a count packet that  *)
(* has come back to the edge switch goes to the aggregate switch again.  An *)
(* entry that is not there is no switch's address.                         *)
Recorded(record, node) == IF Len(record) < 6 THEN Append(record, node) ELSE record

Position(record, node) ==
    CHOOSE k \in DOMAIN record : record[k] = node /\ \A j \in 1 .. k - 1 : record[j] # node

Successor(record, node) ==
    LET k == Position(record, node)
    IN  IF k + 1 \in DOMAIN record THEN record[k + 1] ELSE Nowhere

(* Mutation: one switch too early. *)
MutEnds(record, node) == Position(record, node) + 1 >= NumRoutes

(* A count packet ends where its position in the record is the number of   *)
(* routes (PacketId) or more.  When its TTL is used up before, it is given *)
(* to ICMP, which expects an ICMPMessage in a packet of protocol 1.        *)
Ends(record, node) == Position(record, node) >= NumRoutes

(* The edge switch is the first to handle its own count packets; it never  *)
(* reads its own future_packets_count.  One that announces -1 packets is   *)
(* taken for a probe whose PacketId is of neither direction: it is lost.   *)
SendCount(m) ==
    /\ m.kind = "count"
    /\ LET record == Recorded(m.record, Edge)
           a == Successor(record, Edge)
           lost == m.n = -1 \/ Ends(record, Edge)
       IN  \/ lost /\ UNCHANGED <<net, told, err>>
           \/ ~lost /\ m.ttl = 1 /\ err' = "not_an_ICMPMessage" /\ UNCHANGED <<net, told>>
           \/ /\ ~lost /\ m.ttl > 1
              /\ net' = net (+) Notice({a}) (+) One(Count(Through(a), record, m.n, m.ttl - 1))
              /\ told' = (told \/ a = broken)
              /\ UNCHANGED err
    /\ UNCHANGED <<rows, loads, learned>>

route_link_failure_packet(m) ==
    /\ m.kind = "linkfailure"
    /\ rows' = [p \in Pair |-> CloseRoutes(rows[p], m.aggregate)]
    /\ learned' = {p \in Pair : dynamic[p]}
    /\ UNCHANGED <<net, told, loads, err>>

doProbeEndService ==
    /\ Running /\ probeTimer
    /\ IF pqueue = <<>>
       THEN probeTimer' = FALSE /\ UNCHANGED <<pqueue, net, told, rows, loads, learned, err>>
       ELSE LET m == Head(pqueue) IN
            /\ pqueue' = Tail(pqueue)
            /\ \/ SendProbe(m) \/ RecordRoute(m) \/ ReceiveLoad(m) \/ SendCount(m)
               \/ route_link_failure_packet(m)
            /\ UNCHANGED probeTimer
    /\ UNCHANGED <<scenario, toSend, serving, queue, dynamic, forwarded, future, broken>>

-----------------------------------------------------------------------------
(* The other switches. *)

(* A probe is sent down if the destination edge is below, else up over all *)
(* routes; from there on its way to the destination edge and back is       *)
(* determined, by the routing tables and by the record route option.       *)
ProbeAtAggregate(m) ==
    /\ m.kind = "probe"
    /\ net' = (net (-) One(m)) (+)
              IF Down(m.at) # Nowhere THEN One(Found(m.pair, <<m.at, Dest>>, <<m.at>>))
              ELSE Each({Found(m.pair, <<m.at, c>>, <<m.at, c, Down(c)>>) : c \in Range(Up(m.at))})
    /\ UNCHANGED <<future, err>>

(* A hash routed packet goes on, out of sight, and the edge switch is told *)
(* the route it takes.                                                     *)
HashAtAggregate(m) ==
    /\ m.kind = "hashed"
    /\ LET next == IF Down(m.at) # Nowhere THEN Dest ELSE hashRouting(m.pair, m.at)
       IN  net' = (net (-) One(m)) (+) One(HashRoute(m.pair, <<m.at, next>>))
    /\ UNCHANGED <<future, err>>

(* A packet sent along a chosen route: down if possible, else to the core  *)
(* switch it names; one that names a core switch out of reach is dropped.  *)
DataAtSwitch(m) ==
    /\ m.kind = "data"
    /\ LET next == IF Down(m.at) # Nowhere THEN Down(m.at)
                   ELSE IF m.core \in Range(Up(m.at)) THEN m.core ELSE Nowhere
       IN  /\ future' = IF next = Nowhere THEN future ELSE [future EXCEPT ![m.at] = @ - 1]
           /\ net' = (net (-) One(m)) (+)
                     IF next \in {Nowhere, Dest} THEN EmptyBag ELSE One(Data(next, m.core))
    /\ UNCHANGED err

(* A count packet is sent on; it cannot be sent to a switch that is not    *)
(* known yet.                                                              *)
CountSent(m, record) ==
    LET next == Successor(record, m.at)
    IN  \/ next = Nowhere /\ err' = "no_route" /\ UNCHANGED net
        \/ next # Nowhere /\ m.ttl = 1 /\ err' = "not_an_ICMPMessage" /\ UNCHANGED net
        \/ /\ next # Nowhere /\ m.ttl > 1
           /\ net' = (net (-) One(m)) (+) One(Count(next, record, m.n, m.ttl - 1))
           /\ UNCHANGED err

CountAtSwitch(m) ==
    /\ m.kind = "count"
    /\ future' = [future EXCEPT ![m.at] = @ + m.n]
    /\ LET record == Recorded(m.record, m.at)
       IN  \/ Ends(record, m.at) /\ net' = net (-) One(m) /\ UNCHANGED err
           \/ ~Ends(record, m.at) /\ CountSent(m, record)

(* route_load_packet at the controller, for the request of an edge switch. *)
AskLoads(m) ==
    /\ m.kind = "loadrequest"
    /\ net' = (net (-) One(m)) (+) Each({LoadQuery(m.pair, n) : n \in scenario.asked})
    /\ UNCHANGED <<future, err>>

(* route_load_packet at a switch that is asked, and at the controller the  *)
(* answer passes: there a load of -1 is a request.                         *)
AnswerLoad(m) ==
    /\ m.kind = "loadquery"
    /\ LET sum == scenario.queueLen[m.at] + future[m.at]
           load == IF sum = 0 THEN 1 ELSE sum
       IN  IF load = -1 THEN err' = "reply_taken_for_request" /\ UNCHANGED net
           ELSE net' = (net (-) One(m)) (+) One(Load(m.pair, m.at, load)) /\ UNCHANGED err
    /\ UNCHANGED future

(* route_link_failure_packet at the controller; the other edge switches    *)
(* do nothing with it.                                                     *)
FailureAtController(m) ==
    /\ m.kind = "linkfailure"
    /\ net' = (net (-) One(m)) (+) One([m EXCEPT !.at = Edge])
    /\ UNCHANGED <<future, err>>

SwitchStep ==
    /\ Running
    /\ \E m \in BagToSet(net) :
        /\ m.at # Edge
        /\ \/ ProbeAtAggregate(m) \/ HashAtAggregate(m) \/ DataAtSwitch(m) \/ CountAtSwitch(m)
           \/ AskLoads(m) \/ AnswerLoad(m) \/ FailureAtController(m)
    /\ UNCHANGED <<scenario, toSend, serving, queue, pqueue, probeTimer, rows, dynamic, loads,
                   forwarded, broken, told, learned>>

LinkBreaks ==
    /\ Running /\ broken = Nowhere /\ \E p \in Pair : dynamic[p]
    /\ broken' \in scenario.breaks
    /\ UNCHANGED <<scenario, toSend, serving, queue, pqueue, probeTimer, rows, dynamic, loads,
                   forwarded, future, net, told, learned, err>>

Next == (\E p \in Pair : HostSends(p)) \/ ControlArrives \/ EndService \/ doProbeEndService
        \/ SwitchStep \/ LinkBreaks

Spec == Init /\ [][Next]_vars

-----------------------------------------------------------------------------
(* Properties. *)

Node == scenario.asked \cup {Dest, Nowhere}
Route == scenario.asked \X Node

Row == [up : Route, via : Seq(scenario.asked), left : Int, load : Nat, assigned : Int, sent : Nat]

(* Packets, of the kinds above. *)
Message ==
    [kind : {"probe", "hashed"}, pair : Pair, at : scenario.asked \cup {Edge}]
    \cup [kind : {"found"}, pair : Pair, at : {Edge}, up : Route, via : Seq(scenario.asked)]
    \cup [kind : {"hashroute"}, pair : Pair, at : {Edge}, up : Route]
    \cup [kind : {"data"}, at : scenario.asked, core : Node]
    \cup [kind : {"loadrequest"}, pair : Pair, at : {"controller"}]
    \cup [kind : {"loadquery"}, pair : Pair, at : scenario.asked]
    \cup [kind : {"load"}, pair : Pair, at : {Edge}, switch : scenario.asked, load : Int]
    \cup [kind : {"count"}, at : Node \cup {Edge}, record : Seq(Node \cup {Edge}), n : Int,
          ttl : Nat \ {0}]
    \cup [kind : {"linkfailure"}, at : {Edge, "controller"}, aggregate : scenario.asked]

(* Every variable has its type. *)
TypeOK ==
    /\ scenario \in Scenarios
    /\ toSend \in [Pair -> Nat] /\ forwarded \in [Pair -> Nat]
    /\ serving \in Pair \cup {Nowhere} /\ queue \in Seq(Pair)
    /\ pqueue \in Seq(Message)
    /\ rows \in [Pair -> Seq(Row)]
    /\ loads \in [Pair -> -1 .. NumLoads] /\ dynamic \in [Pair -> BOOLEAN]
    /\ future \in [Switch -> Int]
    /\ DOMAIN net \subseteq Message /\ net \in [DOMAIN net -> Nat \ {0}]
    /\ {probeTimer, told} \subseteq BOOLEAN
    /\ broken \in scenario.asked \cup {Nowhere} /\ learned \subseteq Pair

InPqueue(kinds) == {i \in DOMAIN pqueue : pqueue[i].kind \in kinds}
InNet(kinds) == {m \in BagToSet(net) : m.kind \in kinds}

(* Whatever order probes and the answers to hash routed packets come back  *)
(* in, the rows are distinct routes of the topology, none counted twice:   *)
(* the number of rows is what routePacket takes for "all routes found".    *)
(* They, and every other variable, have their types.                       *)
RoutesDistinct ==
    /\ TypeOK
    /\ \A p \in Pair :
        /\ \A r \in DOMAIN rows[p] : RowOf(rows[p], rows[p][r].up) = {r}
        /\ Len(rows[p]) <= NumRoutes
        /\ \A r \in DOMAIN rows[p] : rows[p][r].up[1] \in Range(Up(Edge))

(* The copies of the messages in S that are on their way. *)
Copies(S) == UNION {{m} \X (1 .. net[m]) : m \in S}

(* Hash routed packets whose answer the edge switch has not yet handled. *)
Uncounted(p) ==
    Cardinality(Copies({m \in InNet({"hashed", "hashroute"}) : m.pair = p}))
      + Cardinality({i \in InPqueue({"hashroute"}) : pqueue[i].pair = p})

(* Column 6 never loses or invents a packet: the counts of hash routed     *)
(* packets, before and after the distribution, its rounding and its        *)
(* correction add up to NUM_PACKETS minus what was forwarded.              *)
BudgetConserved ==
    Running /\ scenario.breaks = {} =>
        \A p \in Pair : Left(rows[p]) = (IF dynamic[p] THEN NUM_PACKETS ELSE 0)
                                           - forwarded[p] + Uncounted(p)

(* A pair that sends no more than NUM_PACKETS packets always finds a route *)
(* with packets left: path_to_be_taken is not read uninitialized.          *)
RouteAvailable ==
    scenario.breaks = {} /\ (\A p \in Pair : scenario.packets[p] <= NUM_PACKETS)
        => err # "path_to_be_taken"

OnRoute(row, n) == n \in Range(row.up) \cup Range(row.via)

(* What the switches of a route are told. *)
Announcement(row) == IF row.assigned = -1 THEN 0 ELSE row.assigned

(* When the packets of the distributed flows and the announcements of them *)
(* have all passed, future_packets_count of every switch is what is still  *)
(* to come along the routes through it, although data may overtake them.   *)
(* Only switches of four ports: with others a count packet does not end    *)
(* where its route does.  A count of -1 is not announced.                  *)
FutureSettles ==
    (/\ Running /\ scenario.breaks = {} /\ Len(Up(Edge)) = 2
     /\ InNet({"data", "count"}) = {} /\ InPqueue({"count"}) = {}) =>
        \A n \in Switch :
            future[n] = SumFunction([p \in Pair |-> SumFunctionOnSet(
                [r \in DOMAIN rows[p] |-> Announcement(rows[p][r]) - rows[p][r].sent],
                {r \in DOMAIN rows[p] : OnRoute(rows[p][r], n)})])

(* Once the edge switch has handled the failure of a link, no flow that was *)
(* distributed by then is sent along a route through it.                   *)
AvoidsBrokenLink ==
    [][\A p \in learned : \A r \in DOMAIN rows[p] :
          rows'[p][r].sent # rows[p][r].sent => rows[p][r].up[1] # broken]_vars

(* When the answers have all arrived and the timer of pqueue has stopped,  *)
(* nothing is missing although endService adds packets to pqueue without   *)
(* starting the timer: the edge switch knows every route of a pair it has  *)
(* sent a packet of, and the load of every switch if it asked for them;    *)
(* only count packets may be left behind in pqueue.                        *)
NothingMissing ==
    (/\ Running /\ scenario.breaks = {} /\ ~probeTimer
     /\ InNet({"hashed", "hashroute", "probe", "found", "loadrequest", "loadquery", "load"}) = {}) =>
        /\ InPqueue({"count"}) = DOMAIN pqueue
        /\ \A p \in Pair : /\ forwarded[p] > 0 => Len(rows[p]) = NumRoutes
                           /\ loads[p] \in {-1, NumLoads}
=============================================================================
