# A TLA+ development of INET: TCP, DSI load balancing, ARP, OSPF, IEEE 802.11

The repository is a version of the INET framework for OMNeT++: simulation models
of Internet protocols, written as C++ modules that exchange messages and timers.
On top of it, this version adds DSI, a load balancing scheme for data centre
networks, inside the IPv4 module. OMNeT++ executes one event at a time, so the
atomic step everywhere is *one call of a module's `handleMessage`*; what is
concurrent is the order of the events: commands of applications, packets of the
network and timers.

This directory models five parts: TCP (`transport/tcp`,
`transport/contract/TCPSocket.*`), which carries the most protocol logic; DSI
(`networklayer/ipv4/IPchanged.cc` and the queues below it), which is what this
repository is about; ARP (`networklayer/arp`); the adjacency of two OSPF routers
(`networklayer/ospfv2`); and the medium access of IEEE 802.11 stations
(`linklayer/ieee80211/mac`, `linklayer/radio`). TLC checks all of them on small instances; TLAPS checks proofs
about TCP's connection tables and receive queue, ARP, DSI, OSPF and IEEE 802.11 for every value of the constants (section 4).
Paths below are relative to `src/src/`.

Contents: [inventory](#1-inventory), [modules](#2-modules-and-the-code-they-model),
[runs](#3-what-the-runs-check), [proofs](#4-what-is-proved),
[only model-checked](#5-what-is-only-model-checked),
[disagreements](#6-where-code-and-documentation-disagree),
[abstractions and gaps](#7-abstractions-and-what-is-not-modelled), [plan](#8-plan).

## 1. Inventory

### 1.1 TCP

| Part | State | Operations | What makes it correct |
|---|---|---|---|
| TCP main module (`TCP.cc`) | `tcpConnMap` (socket pair to connection), `tcpAppConnMap` (connId to connection), `usedEphemeralPorts` (a multiset), `lastEphemeralPort` | dispatch in `handleMessage`; `findConnForSegment`, `addSockPair`, `updateSockPair`, `addForkedConnection`, `removeConnection`, `getEphemeralPort` | both tables describe exactly the live connections; a port handed out is unused; a forking listener never disappears |
| TCP connection (`TCPConnection*.cc`) | FSM state, `TCPStateVariables` (sequence numbers, windows, FIN flags), four timers | `process_OPEN_ACTIVE/OPEN_PASSIVE/SEND/CLOSE/ABORT`, `process_RCV_SEGMENT` (LISTEN, SYN_SENT, "first thru eighth" step), `process_TIMEOUT_*`, `performStateTransition`, `stateEntered` | exact in-order delivery, no `opp_error()` or `ASSERT` reached, timers run only in the states that handle them, both ends get closed |
| Virtual data queues (`queues/TCPVirtualData*`) | send queue `[begin,end)`, receive queue `rcv_nxt` and the list of regions above gaps | `enqueueAppData`, `createSegmentWithBytes`, `discardUpTo`, `insertBytesFromSegment`, `merge`, `extractBytesUpTo` | regions sorted and disjoint; exactly the gap-free prefix is delivered; unacknowledged bytes are kept |
| Congestion control (`flavours/`) | `snd_cwnd`, `ssthresh`, `dupacks`, `rexmit_count`, REXMIT timer | `established`, `sendData`, `receivedDataAck`, `receivedDuplicateAck`, `dataSent`, `processRexmitTimer` in `TCPBaseAlg`, `TCPTahoe`, `TCPReno`, `TCPNoCongestionControl` | the peer's window is respected; REXMIT runs whenever data is unacknowledged; lost data is sent again |
| TCPSocket (`contract/TCPSocket.cc`) | `sockstate` | `connect`, `listen`, `send`, `close`, `abort`, `processMessage` | the application's view follows TCP's indications; silence after the final one |

Interaction: an application calls `TCPSocket`, which sends a command to `TCP`;
`TCP` finds or creates the `TCPConnection` and calls it synchronously; the
connection calls its algorithm and its queues synchronously, sends segments to IP
and indications to the application, and finally makes one state transition for
the *one* event code its handler returned. When the new state is CLOSED, `TCP`
removes and deletes the connection.

Hard behaviour: two ends, three kinds of events and an unreliable network between
them; a handler that discovers two events (an ACK of our FIN and a FIN, a FIN and a
deferred CLOSE) yet may return only one; timers started in one handler and
cancelled on entry to another state; 32-bit sequence numbers that wrap around;
`snd_nxt` that goes back on retransmission; listening connections that hand their
socket pair to a clone. `PROJECT.json` lists each of these as a hazard with its line
and the properties aimed at it.

### 1.2 DSI, ARP, OSPF and IEEE 802.11

| Part | State | Operations | What makes it correct |
|---|---|---|---|
| DSI at the source edge switch (`IPchanged.cc`, `IP.h`) | `delay_load_matrix` (per pair of hosts: the routes found, the packets left on each, its load), `numForwarded_per_host` | `routePacket` (hash routing, probing, asking for loads, choosing a route), `fill_routes_in_delay_load_matrix`, `fill_delay_load_matrix`, `adjust_packet_count`, `send_future_packet_count`, `route_load_packet`, `route_link_failure_packet` | every route found once; the packets left on all routes add up; a packet always finds a route; after a failure notice none goes over the broken link |
| DSI at the other switches and the controller | `future_packets_count` | duplicating probes, answering hash routed packets and load queries, relaying | announced packets are accounted for; an answer is told from a request |
| Service queues (`base/AbstractQueue.cc`, `base/QueueBase.cc`) | the data queue and the control queue `pqueue`, a timer for each | `handleMessage`, `doEndService`, `doProbeEndService` | control packets are served although two timers run |
| ARP (`ARP.cc`) | `arpCache`: pending or resolved entries, retries, packets that wait | `processOutboundPacket`, `initiateARPResolution`, `requestTimedOut`, `processARPPacket`, `updateARPCache` | one timer per pending entry; each packet sent once, in order, or dropped after the last retry |
| OSPF neighbour (`OSPFNeighbor*.cc`, `messagehandler/`, `OSPFInterface.cc`) | state, four timers, two flags that shadow them, summary, request and retransmission lists | hello, database description, request, update and acknowledgement handlers, flooding, the events of the state machine | no timer scheduled twice; nothing unanswered without a timer; full neighbours have the same database |
| 802.11 MAC (`Ieee80211Mac.cc`) | FSM state, `transmissionQueue`, `backoff`, `backoffPeriod`, `retryCounter`, `lastReceiveFailed`, six timers of which `endReserve` is the NAV | `handleUpperMsg`, `handleLowerMsg`, `receiveChangeNotification`, `handleSelfMsg`, all through `handleWithFSM` | a timer runs in the states that wait for it; nobody contends on a medium it knows to be busy; what is acknowledged has arrived; every frame is disposed of |
| Radio (`AbstractRadio.cc`) | `rs`, the frame being received, noise | `handleUpperMsg`, `handleLowerMsgStart`, `handleLowerMsgEnd`, the end of a transmission | the MAC never sends while it sends |

Interaction. DSI lives in `routePacket`, called when the service of a data packet
ends; packets it creates there go to `pqueue`, whose timer only an arriving packet
starts. Loads are asked for through the controller, one query and one answer per switch. ARP
is the last step before the NIC; in this version it also redirects packets away from a
broken link and tells the controller. The OSPF handlers call the neighbour's state
machine, the state machine calls flooding, and flooding may change the neighbour's
state again, all in one event. An 802.11 radio notifies its MAC of its state by a call, but
frames pass between the two as messages: the MAC hears that the medium is free before
it gets the frame that ended.

Hard behaviour: answers to probes, to hash routed packets and to load queries in any
order; data that overtakes its own announcement; rounding that has to add up; a reply that
races the last retry; a timer and a flag for it, set in seven states; an update that
crosses the request for it; stations that collide because they do not hear each other; a medium that is
busy in two ways, by what is heard and by what was announced.

### 1.3 The rest of the framework, not modelled

| Part | What it keeps, and what is hard about it |
|---|---|
| Message based queues, DumbTCP | message boundaries keyed by sequence number in a `std::map` ordered by plain `<`; a minimal flavour |
| UDP | port tables; dispatch of ICMP errors to sockets |
| SCTP | an association state machine, chunks, multi-homing: as large as all of TCP |
| RTP/RTCP | session setup between three modules; otherwise statistics |
| IPv4, ICMP, fragmentation | reassembly buffers with a timeout: fragments of several datagrams interleaved, lost or late |
| IPv6, neighbour discovery | neighbour unreachability state machine with probes and timers |
| OSPFv2 areas, broadcast networks | election of designated routers, ageing to MaxAge, shortest paths: the parts of OSPF that `OspfPair` leaves out |
| LDP, RSVP-TE, TED | sessions and label bindings over TCP; soft state refreshed by timers; link state flooding |
| Output queues | the request/deliver protocol between a passive queue and a MAC |
| Ethernet MAC, switch | CSMA/CD with jamming, backoff and PAUSE; an address table at its limit, with ageing |
| IEEE 802.11 management, the older `mf80211` | scanning, authentication and association, on top of the MAC; a second MAC kept beside it |
| MPLS forwarding, routing table, NotificationBoard, InterfaceTable | lookups and synchronous registries |
| Channel, signal strength, mobility | floating point physics and geometry: out of TLC's reach |
| External interfaces, serializers, configurators, SHA-1 | pure I/O, byte layout, start-up code, third-party code |
| Applications | traffic generators; `TcpPair` lets its applications issue every command the socket allows |

## 2. Modules and the code they model

    TcpSeq -- TcpRcvQueue -+- TcpReceive  ==implements==>  TcpReassembly
                           |      +- TcpReceive_proofs (Iteration)
                           |
                           +- TcpOutput -- TcpConnection -- TcpPair -- MCTcpPair

    TcpMain -+- MCTcpMain
             +- TcpMain_proofs

    Arp -+- MCArp                    OspfNeighbor -- OspfPair -+- MCOspf
         +- Arp_proofs                                         +- OspfPair_proofs (Iteration)

    DsiRoutes -- Dsi -+- MCDsi                   Ieee80211Mac -+- Dcf -+- MCDcf
                      +- Dsi_proofs (Iteration)                |       +- Dcf_proofs
                                                               +- Ieee80211Mac_proofs -+

**`TcpMain`** is `TCP.cc`. Variables are the four tables of the class and, for each
connection object, what the tables depend on: its socket pair (`sock`, NULL when the
object is not allocated), `connId`, FSM state (all synchronised states in one),
`state->active` and `state->fork`. Actions: `OpenActive`, `OpenPassive`, `Close`, `Abort` (commands), `SynInListen`,
`SynInSynSent`, `AckInSynRcvd`, `RstArrives`, `ClosingSegment` (segments), and
`ConnEstabTimeout`, `ClosingTimeout` (timers). `findConnForSegment` makes the four lookups
in the code's order; `UpdatedConnMap` overwrites what another connection has under the
new key, as the code's plain assignment does; `AddForkedConnection` gives the accepted
connection the new connId and leaves the old one to the clone, which may accept the next
connection in its turn. `Fail` is `error()`: it ends
the simulation (`err`). Which segment is acceptable is left open here, so every
reachable table state of the code is a reachable state of the module.

**`TcpSeq`** has `seqLess`, `seqLE`, `seqGreater`, `seqGE` on a circular space of `SeqSpace`
numbers in place of 2^32; the comparison is the sign of the difference, as in
`TCPConnection.h`.

**`TcpRcvQueue`** is `TCPVirtualDataRcvQueue`: a record of `rcv_nxt` and the sorted sequence of
regions, with `merge`, `insertBytesFromSegment` and `Extract` (`extractBytesUpTo`, with the
`ASSERT` that compares with plain `<`). `First` is where a loop over the regions stops, `Reach` and `Octets` are
what the loops of `merge` and of the calls of `extractTo` accumulate. **`TcpReceive`** drives it with the text step of
`processSegment1stThru8th`: any piece `lo..hi-1` of the peer's stream arrives, in any
order and as often as it likes, as long as it lies in the receive window.
**`TcpReassembly`** is the abstract specification of that: a set of bytes that have arrived
and the length of its gap-free prefix, no sequence numbers, regions or window.

**`TcpOutput`** is what a connection sends and schedules: `sendToIP`, `sendSyn`, `sendSynAck`,
`sendRst`, `sendAck`, `sendFin`, `sendSegment`, `sendData` (`connSendData` is
`TCPConnection::sendData`, `sendData` the Nagle wrapper of `TCPBaseAlg`), the send queue,
`retransmitOneSegment`, `retransmitData`, and the three flavours' `established`,
`receivedDataAck`, `receivedDuplicateAck`, `processRexmitTimer`. A connection is a record
whose fields have the names of `TCPStateVariables`; a handler is an operator from record
to record, and what it sends up and down collects in the fields `out` and `ind`.

**`TcpConnection`** is the four `TCPConnection*.cc` files: the transition table, the entry
code of each state, one operator per `process_*` function and one per numbered step of
`processSegment1stThru8th`, composed in the code's order. The event code is the field `ev`,
and a later step overwrites it exactly where the code does.

**`TcpPair`** composes two connections, two applications behind `TCPSocket`, and a network
that delivers in order except for at most `MaxFaults` losses, duplications and
overtakings. Every action is one event and does all the event does: handler, transition,
segments to the network, indications to the socket, removal on CLOSED. What
the applications and the network may do is a *scenario*, chosen in the initial state and
kept in the variable `scenario`: who opens and how, the lengths of the messages each
application sends, who closes, perhaps early, who aborts, which faults the network may
make, and which timers may be early. One run thus covers several scenarios.

**`DsiRoutes`** is the rows of `delay_load_matrix` and the functions that change them: `FillHash` and
`FillProbe` (`fill_routes_in_delay_load_matrix` for the answer to a hash routed packet and for
a probe), `RecordLoad`, `fill_delay_load_matrix`, `adjust_packet_count`, `CloseRoutes`. Loads
are compared and `NUM_PACKETS` divided in exact fractions, rounded as the code rounds its
floats; what the code computes when a load is 0 (infinity, or not a number) is
modelled by what its comparisons then do. The sums over the rows are `SumTo` and `ProductTo`.

**`Dsi`** is the rest of DSI. Its variables are the state of the source edge switch (the two
queues and their timers, the rows, whether the flow of a pair is distributed, how many
loads have arrived), `future_packets_count` of every switch and the bag of packets on
their way. Actions: `HostSends`, `ControlArrives` (arrivals), `EndService` (`routePacket`
for a data packet: `HashStep` or `RouteStep`), `doProbeEndService` (a control packet is
served), `SwitchStep` (one packet at another switch or at the controller), `LinkBreaks`. A
packet whose way is determined from some switch on, such as a probe below the
core, arrives in one step. A count packet carries what its way depends on: the record route
option, to which each switch adds itself while there is room (`Recorded`) and in which it finds
its successor behind its own first entry (`Position`, `Successor`), and its TTL. It ends (`Ends`) where
that position reaches `PacketId`, the number of routes, and when the TTL is used up `sendErrorMessage`
stops the simulation, since it expects an `ICMPMessage` in a packet of protocol 1. One that announces
-1 packets is taken for a probe and lost (`SendCount`). `Detour`, `Through` and `Notice` are what `ARP.cc` does at a broken link.

**`Arp`** is `ARP.cc` for several nodes on several broadcast networks. An interface stands for its
IP and its MAC address. Timers are counted per entry, so that a second one, or one that
outlives its entry, is a state of the model. `Expire` is the passing of `cacheTimeout`.
ARP packets stay in `net`: any of them may be late, be received more than once (as the
repetition it may stand for) or never.

**`OspfNeighbor`** is a router with its one neighbour as a record, and handlers as operators from
record to record: the timers with their flags, the lists, the events of the state
machine, the five packet handlers and flooding. Scheduling a scheduled timer sets `err`, as it
ends the simulation. **`OspfPair`** composes two of them over a link with bounded losses; an
action is one packet or one timer. LSAs of a third router arrive from outside (`LearnLSA`).

**`Ieee80211Mac`** is `Ieee80211Mac.cc`: a station as a record, the events of `handleWithFSM` as operators on it.
An `Enter...` operator is what entering a state does, with the transitions that follow without an
event; `mediumStateChange`, `ReceiveFrame`, `endDIFS`, `endTimeout`, `endSIFS` and `handleUpperMsg` are the
transitions an event makes. `timer` is the time left until each timer, and scheduling one that is scheduled,
or a false `ASSERT`, sets `err`. The slot number drawn for a backoff is a parameter. What a
handler gives to the higher layer and what became of a frame it disposes of are the fields `up` and `done`, which `Dcf` takes
after every event into the history variables `got` and `outcome`. **`Dcf`** composes stations, their
radios and the frames on the air. Which station hears which is part of the scenario. Actions: `UpperMsg`,
`LowerMsg`, `Timer` (events of a MAC), `RadioSends`, `FramesArrive`, `FramesEnd` (events of radios) and
`Tick`, by which time passes to the next moment at which something happens. At one moment
the order of events is open, with two exceptions that propagation delay explains: frames begun at that moment arrive at
other stations last, and the time-out of an answer, which includes twice
`MAX_PROPAGATION_DELAY`, comes after an answer that ends there.

**`Iteration`** holds two lemmas about loops that the proofs share; the modules named `..._proofs` hold the
theorems of section 4.

**`MCTcpMain`**, **`MCTcpPair`**, **`MCDsi`**, **`MCArp`**, **`MCOspf`**, **`MCDcf`** hold the constants and the scenarios
of the instances. Definitions whose name starts
with `Mut` are deliberately wrong variants of the definition after them; they show that
a property notices the mistake and are used by no specification.

## 3. What the runs check

### 3.1 Runs that pass

| Run | Instance | Shows |
|---|---|---|
| `tcp_main` | 3 connection objects (symmetric), one host address and the wildcard, one remote socket, local ports 80 and 1024, ephemeral range of two ports, 3 connIds; 15.7 thousand states | the tables always describe exactly the live connections (`TablesConsistent`), the multiset counts the users of each ephemeral port (`PortsAccounted`), a port handed out is unused and none is refused while one is free (`EphemeralFresh`), a forking listener stays (`ForkedListenerStays`) |
| `tcp_receive` | SeqSpace 32, stream of 10 bytes, window 8, first byte at 2 or at 28, so that the stream wraps; 1.4 thousand states | the region list stays canonical (`RegionsCanonical`) and implements `TcpReassembly` (`ImplementsReassembly`) |
| `tcp_pair_faults` | MSS 1, window 2, client's data starts at sequence number 0; three scenarios: client sends 1+1+1 bytes, server 1, two segments lost or overtaken; client sends 2 bytes, server 1, REXMIT and SYN-REXMIT may fire while up to two segments are in flight each way; both ends open actively, one loss, early SYN-REXMIT, `abort()` at any moment; 725 thousand states | exact in-order delivery and complete data before PEER_CLOSED (`DeliveredExactly`), nothing acknowledged that did not arrive (`AckedArrived`), unacknowledged bytes kept and REXMIT always armed (`UnackedRepeatable`), no sender beyond its peer's window (`FlowControlled`), silence after the final indication (`SilentAfterFinal`), setup and 2MSL timers in the states that handle them (`TimersFit`), and no `opp_error()` or `ASSERT` (`NoRuntimeError`); the last two but for the two states of section 6, which they name |
| `tcp_pair_live` | two scenarios with fairness: reliable network, both applications close, the client perhaps before the connection is established; nobody closes, two faults of any kind, three retransmissions; 56 thousand states | active, passive, simultaneous and deferred close all end with both connections removed (`BothClosed`); every byte arrives (`AllDelivered`) |
| `dsi` | one pair of hosts, NUM_PACKETS 5, five scenarios: a pod with two routes and a threshold of 1; the same with a link that may break; a pod of a six-port tree, with three routes and unequal loads, with a TTL of 3 and of 2; two pods with two core switches behind each aggregate switch, where all hash routed packets go along the route of the heaviest load, under the constraint `Bounded`; 700 thousand states | routes are counted once (`RoutesDistinct`), column 6 adds up (`BudgetConserved`), a route is always found (`RouteAvailable`), announcements settle in four-port trees (`FutureSettles`), nothing stays unknown or is left in `pqueue` but count packets (`NothingMissing`), the broken link is avoided (`AvoidsBrokenLink`) |
| `arp` | two networks joined by a node with proxy ARP, two requests per resolution, four packets; with fairness; 21 thousand states | one timer per pending entry (`TimerIffPending`), each packet waits, was sent once or was dropped (`PacketsAccounted`), order (`InOrder`), destinations (`SentWhereHeard`), no packet waits forever (`Resolves`) |
| `ospf` | two routers, LSAs of both and of a third, one header per description, so that the exchange takes several; four scenarios: a lost packet and an early timer; a neighbour declared dead; a third router's LSA learned during the exchange by the first or by the second; 670 thousand states | no timer scheduled twice (`NoRuntimeError`), flags and timers agree and nothing unanswered is without one (`TimersArmed`), the exchange is complete when left (`ExchangeComplete`), full neighbours agree (`DatabasesAgree`) and stay full (`AdjacencyKept`) |
| `ospf_live` | one lost packet, not a description after the negotiation; with fairness; 35 thousand states | the adjacency forms and the databases become equal for good (`AdjacencyForms`) |
| `dcf` | three stations, `transmissionLimit` 3, contention windows of 2, 4 and 5 slots, queues of two frames; three scenarios with fairness: two stations hidden from each other send to the one between them, which sends too; one sends more than its queue holds, with two bit errors and a broadcast; all hear each other and contend; 261 thousand states | no timer scheduled twice and no frame given to a sending radio (`NoRuntimeError`), timers run where they are waited for and nobody waits for a free medium (`TimersFit`), contention only on a medium that is silent and not reserved (`SensesCarrier`), acknowledged frames have arrived, in order, and none is given up early (`FramesAccounted`), each is disposed of (`Settles`) |

The type invariant `TypeOK` of `TcpPair`, `OspfPair` and `Dcf` is part of `NoRuntimeError`, that of `Dsi` part of `RoutesDistinct`.

Bounds, and why they are enough to be interesting. In `tcp_main`, three objects allow a
listener, the connection forked off it and an independent third one; port 1024 is both a port an
application can ask for and the first of the ephemeral range, so explicit use and
allocation collide; two ephemeral ports make the search wrap and run out. In
`tcp_receive`, a window smaller than the stream makes the list of regions as long as it can be
(four regions with gaps) while delivery moves on. In `TcpPair`, `SeqSpace` 64 leaves
the stream far below half the space, as 2^32 does; three data segments allow a gap with data above it, and two
faults allow the loss of a segment and of its retransmission or acknowledgment.
`MaxRexmit` and `MaxSynRexmit` bound the retries: `MAX_REXMIT_COUNT` (12) as a parameter, because the
give-up path is the same at any count; SYN retransmission stops at 4 at most, because
CONN-ESTAB (75 s) fires before the fifth (3+6+12+24+48 s). In `dsi`, five packets divided over
two and three routes in inverse proportion to loads of 1, 2 and 12 take every branch of the rounding and both
corrections; a pair sends up to four, so that some are hash routed before the
distribution and counted against it. The TTL of 32 is a parameter: a count packet that does not end in
a six-port pod travels until the TTL is used up, which 3 and 2 let happen at the aggregate and at the edge
switch. Two pods have eight switches, so `Bounded` leaves to the scenarios of one pod what does not depend on their number: there, a state is
explored further only if the data queue is empty, loads and routes are handled one at a time, the loads are answered and
the routes other than that of `c4` found in one order, at most two count packets are on their way, and the flow is distributed only
when the hash routed packets are back. Whether data or count packets are earlier, and whether
the last probe is back when the flow is distributed, stays open. Reached
are an announcement of -1 packets, which is lost, and one of a route not fully known, which ends with "no route". In `arp`, two requests allow a late answer to the
first to meet the second and the failure; the address of h2 is resolved by its
neighbour and, through the proxy, by h1. In `ospf`, each router has something the other lacks, and
three keys make requests and updates cross. In `dcf`, durations keep the order of the real ones (SIFS < ACK =
CTS < RTS < long data), frames shorter and not shorter than `rtsThreshold` occur, and the two hidden stations collide
until one of them gives up.

Deadlock is checked in `tcp_main` (`Done` is the intended end) and in the OSPF runs, where hellos
never end. The others do not check it: a stream that has arrived, a pair of closed
connections, a host or a station with nothing left to send rightly stop.

`TcpPair`'s timers fire when the network is empty, unless named in `earlyTimers`: the RTO is at
least a second, SYN-REXMIT 3 s, CONN-ESTAB 75 s, 2MSL 240 s, far above a segment's lifetime in
these networks. REXMIT and SYN-REXMIT, which the protocol must expect to be premature, are released
from this in two scenarios of `tcp_pair_faults`. `OspfPair` is the same: its timers are of a second or more, and
`early` of them may race packets. `Arp` and `Dsi` put no order on timers and packets. `Dcf` counts time.

### 3.2 Fairness

OMNeT++ removes the earliest event from a finite queue until it is empty, so a message
in flight is delivered and a scheduled timer fires unless it is cancelled. Loss, duplication,
reordering, expiry and `abort()` are never assumed to happen.

- `TcpPair`: weak fairness, at each end, of the application's next command, of the arrival of
  the next segment and of the timers, with the enabling conditions written out (TLC cannot
  evaluate `ENABLED` of whole handlers in reasonable time). The applications in `closers` are ones
  that do close. `AllDelivered` needs more retransmissions (`MaxRexmit`) than
  faults: with as many losses as retries the code rightly gives up.
- `Arp`: weak fairness of the timers only; no request need ever be answered.
- `OspfPair`: weak fairness of arrival, strong fairness of the timers. A timer that is scheduled
  fires at its time; the model lets it fire only when the link is idle, which it is again
  and again but not continuously, since hellos keep coming: strong fairness says that a
  scheduled timer's turn comes. Two pairs of timers share one condition, which assumes less.
- `Dcf`: weak fairness of the next-state relation (some event happens as long as there is one; time makes
  all of them happen) and of the higher layers' sending, with the enabling conditions written out. Nothing is
  assumed of the slots drawn: `Settles` holds even if two stations always draw the same.

### 3.3 Runs that show a disagreement

Three runs check what a comment, an assertion or a document of the repository says and
TLC finds violated; section 6 tells what happens in each.

## 4. What is proved

The theorems hold for every value of the constants that satisfies the assumptions named with them; TLC evaluates those
assumptions in the runs. The third column names the property of section 3 that the theorem states.

| Module | Theorem | States, for every reachable state or step |
|---|---|---|
| `TcpMain_proofs` | `TypeCorrect` | `TypeOK` |
| | `TablesAlwaysConsistent` | `TablesConsistent`: every live connection is found under its socket pair and its connId, and neither table holds anything else |
| | `PortsAlwaysAccounted` | `PortsAccounted`: the multiset counts exactly the users of each ephemeral port |
| | `EphemeralPortsFresh` | `EphemeralFresh`: a port that `getEphemeralPort` hands out, the last one again included, has no user, and it refuses one only when all have |
| | `ForkedListenersStay` | `ForkedListenerStays`: a forking listener's connId keeps naming a listener |
| `TcpReceive_proofs` | `RegionsStayCanonical` | `RegionsCanonical`: regions sorted, apart, not empty, within the window, across the wrap-around |
| | `QueueReassembles` | `ImplementsReassembly`: the queue implements `TcpReassembly` |
| `Arp_proofs` | `TypeCorrect` | `TypeOK` |
| | `TimersMatchEntries` | `TimerIffPending`: one timer for a pending entry, none for any other |
| | `EveryPacketAccounted` | `PacketsAccounted`: each packet waits, was sent once, or was dropped |
| | `PacketsInOrder` | `InOrder`: packets for one next hop keep their order |
| | `PacketsSentWhereHeard` | `SentWhereHeard`: a packet goes to an interface of the next hop, or of a proxy for it, on the network it leaves by |
| `OspfPair_proofs` | `NeverARuntimeError` | `NoRuntimeError`: no timer is scheduled twice; types |
| | `TimersAlwaysArmed` | `TimersArmed`: flags and timers agree, and what waits for an answer has a timer |
| | `ExchangesComplete` | `ExchangeComplete`: Loading or Full only with the whole database described, Full only with nothing left to request |
| `Dcf_proofs` | `RunsWithoutError` | `NoRuntimeError`: no timer is scheduled twice, no frame given to a radio that sends, no `ASSERT` fails; types |
| | `TimersAlwaysFit` | `TimersFit`: timers run in the states that wait for them; no station waits for a medium that is free |
| | `CarrierSensed` | `SensesCarrier`: who contends hears nothing and knows of no reservation |
| | `FateKnown` | `FramesAccounted`: what is taken for acknowledged has arrived, frames keep their order, none is given up early |
| `Dsi_proofs` | `RowsAreRoutes` | `RoutesDistinct`: the rows are distinct routes of the topology, at most as many as it has; types |
| | `NoPacketLost` | `BudgetConserved`: column 6, what was forwarded and what is not yet counted add up |
| | `PathIsTaken` | `RouteAvailable`: a pair that sends at most `NUM_PACKETS` packets finds a route for each |
| | `BrokenLinkAvoided` | `AvoidsBrokenLink`: after the failure is handled no distributed flow is sent over the broken link |

### 4.1 The tables of TCP

Assumptions: `ConstAssumption` (finitely many connection objects; the ephemeral range is not empty; the unspecified
address is no host's) and `NullAssumption` (NULL is neither an object nor a socket pair).

`TablesConsistent` is not inductive by itself: a new connection is entered in `tcpAppConnMap` under `nextConnId`, which
must not be the connId of a live connection. `IdsIssued` (every connId in use is below `nextConnId`) supplies that, and
`TablesInv == TypeOK /\ TablesConsistent /\ IdsIssued` is inductive. The interesting steps are the moves to a fully
specified key. Lemma `FindConn` says that the connection `findConnForSegment` returns is live and is the one stored
under the *first* of the four keys that is occupied; hence the full key is free, or the connection found owns it,
and the overwriting assignment of `updateSockPair` loses nobody. `EphemeralPortIsFree` shows that `getEphemeralPort`
returns a port of the range whose count is zero whenever there is one.

`PortsAccounted` is inductive with `TablesInv`. It compares a count with the cardinality of a set of connections; the lemmas
`UserAdded`, `UserRemoved` and `UserMoved` say what each change of the tables does to that set. The set must be finite,
which is why `Conn` is assumed to be. A count of zero then means that there is no user, and a count above it that there is one, which is `EphemeralFresh`;
`ForkedListenerStays` is a case analysis of the steps that touch a listener, from `TablesInv`.

### 4.2 The receive queue of TCP

Assumptions: `SeqSpaceAssumption` (an even space of at least 4 numbers) and `ReceiveAssumption`: the window and the
stream are shorter than half the space. The first holds of the code: `advertisedWindow` is an `int` parameter. The second is the usual
condition on old duplicates: any piece of the stream may arrive arbitrarily late, and `seqLess` can tell an old
one from a new one only within half the space.

The argument replaces sequence numbers by their distance from a base. Lemmas `Compare` and `InWindow` show that `seqLess` and
the others, which compare modulo the space, order two numbers as their distances from `rcv_nxt` are ordered, as long as both are
within the window; `PlusValue` and `MinusValue` deal with the wrap-around. From there the region list is a list of
intervals of integers. The inductive invariant is
`ReceiveInv == TypeInv /\ Canonical /\ Accounted`:

- `Canonical`: seen from `rcv_nxt` the list is `Shaped` (sorted, apart, not empty, in the window) and `Ahead` (begins above a gap);
- `Accounted`: a byte has arrived if and only if it was delivered or one of the regions covers it.

`RegionsCanonical` alone says nothing of which bytes the regions stand for, so it cannot give the refinement; `Accounted`
relates the list to the history. `merge` is treated once for each way its loop can end (`MergeFrom`, `SplicedShaped`,
`AbsorbResult`), and lemma `MergeShaped` collects that it keeps the shape and covers
exactly what the list and the segment cover. In the middle of an arrival, after `merge` and
before extraction, the list may touch `rcv_nxt`: `AheadOrFirst`. `RestShaped` shows that extraction takes just the first region
then and that what stays is shaped and ahead as seen from the new `rcv_nxt`. That a step of `TcpReceive` maps to a step of
`TcpReassembly` follows since by `Ahead` and `Accounted` the byte at `rcv_nxt` has not arrived, so the delivered bytes are *the* gap-free prefix
(`DeliveredIsPrefix`).

### 4.3 ARP

Assumptions: `InterfaceAssumption`, `RouteAssumption`, `FlowAssumption` (types; the packets of a node leave by a network
it is on) and `DirectRouteAssumption` (a node reaches an address of a network it is on through that network, as
`updateNetmaskRoutes` sets it up; only `PacketsSentWhereHeard` and its lemmas need it).

Three invariants, one for each question:

- `TimersInv == TypeOK /\ PendingOnInterface /\ TimerIffPending`. A pending entry's network must be one that its node is
  on, so that a repeated request has an interface to leave from.
- `HeardInv` adds to it `ArpPacketsTrue` and `EntriesTrue`: whatever an ARP packet in `net` or a cache entry claims is true: the
  interface named belongs to the address, or to a proxy that has a route to it over another network. Only from that does
  `SentWhereHeard` follow, since a packet is sent to what an entry says, and an entry says what a packet
  said, arbitrarily long ago. `DirectRouteAssumption` is needed where the sender of a request updates an
  entry: the request's network must be the one the node itself sends to that address by. A node that answers for an address may
  be a proxy with a route over another network, which is why `SentWhereHeard` names proxies.
- `AccountInv` relates, for each node, the packets handed over with those in the queues of its entries, sent and dropped: every number occurs in
  exactly one place and once, and a queue's numbers are later than those sent to the same next hop. `QueuePacket`, `SendPacket`,
  `FlushQueue` and `DropQueue` are the four things that happen to a packet, each proved for one node; the proof of an action then shows
  which of them it is.

### 4.4 OSPF

Assumptions: `HeadersAssumption`, `KeyAssumption` (the order of the keys lists all of them, and each router's own LSA is one),
`ScenarioAssumption` (scenarios are well typed: databases, losses and early timers are arbitrary).

The inductive invariant is `PairInv == TypeOK /\ \A n \in Router : Good(router[n])`, where
`Good == Armed /\ Requests /\ Complete` speaks of one router: nothing the peer or the link does can falsify it, whatever
packets arrive. `Armed` says which timers each state may and must have; in particular that the database description timer does not
run in Exchange, where `NegotiationDone` cleared it, so that `ExchangeDone` may start it again. `Requests` is separate because it is false in
the middle of a handler: requests are put on the list first, and their timer is started, or they are dropped, at its end. Each handler
has a lemma, from what it may assume in the middle of an event to what it ensures there; an action composes them. An update with
any number of LSAs is a fold over them (`ProcessLsasGood`), proved with the loop lemmas below: each LSA may flood, change the lists and end the exchange.

That the proof is not vacuous was tried on a variant: with the `ClearTimer` in `NegotiationDone` left out (`MutNegotiationDone`) the
proof of that handler fails, and TLC finds the timer scheduled twice in `ospf`.

### 4.5 IEEE 802.11

Assumptions: `MacAssumption` (the inter-frame space, the slot, the limit and the windows are numbers; every frame lasts longer than SIFS),
`NoneAssumption` (None is none of the values it is the absence of) and `ScenarioAssumption` (finitely many stations; who hears whom, the
frames and the bit errors are arbitrary, but nobody hears itself). That a frame lasts longer than SIFS holds of the code, since
the PHY header alone takes 192 us and SIFS is 10 us, and it is needed: `endSIFS` sends without looking at the medium,
and what the station began to receive in the meantime must not have ended by then, or a frame for the MAC would meet one from it.

`Ieee80211Mac_proofs` is about one station: `Good(s)` is a conjunction of what its fields say of each other, `Ready(s)` what holds in
the middle of a handler, when no timer of a state runs; each operator has a lemma from one to the other, which also says what it left alone. `TimersFit`
alone is not inductive: a station leaves DEFER when told that the medium is free, so that `Senses` must say
that WAITDIFS and BACKOFF are left as soon as it is not; `Passing` excludes that a time-out for sending is due while a frame is between MAC and radio;
`Placed` connects the state with the queue and the period left of a backoff.

`Dcf_proofs` has three inductive invariants, each built on the one before or on the first:

- `SenseInv` adds the radios and the air to `Good`: a radio is in TRANSMIT exactly while its frame is on the air; an idle radio hears nothing
  that had reached it (`SilenceOk`), which makes `isMediumFree` mean what `SensesCarrier` says; what is being received is on the
  air, and outlasts a SIFS that runs (`ReceivesOk`). From it follow `NoRuntimeError`, `TimersFit` and, for every step, `SensesCarrier`.
- `CountInv`: the attempts at the current frame are at least those counted in `retryCounter`, and one more while an answer is awaited.
  A reset of the counter (section 6) can only make it smaller, so that a frame given up has had all its attempts.
- `FateInv`: why an ACK, which names no frame, is the right one. A station that waits for an ACK knows only its time-out, and
  `Exchanges` says that the time left until it tells how far the exchange has come: the data frame is between MAC and radio, on the air, or has arrived with
  SIFS and an ACK to go, or the receiver's SIFS runs, or its ACK is given, on the air, or has arrived with no time left. Every ACK anywhere is
  therefore for the frame its receiver waits for *now*, and that one is in `got`: a late ACK cannot meet a
  later frame, because its time would have run out before. `OrderedAt` says that the frames of a station are in turn: those heard are
  not later than the one in play, which is not later than those queued, which are earlier than those still to be sent. The order of arrival follows.

All three were given to TLC as invariants of the scenarios of `dcf` before they were proved.

### 4.6 DSI

Assumptions: `NumPacketsAssumption` (`NUM_PACKETS` is a positive number) and `ScenarioAssumption`: the switches that are asked are
finitely many, the upward routes of a switch are a list of switches, and either both edge switches are in one pod, with any number of
routes, or every route between them leads over a core switch, in a tree of four ports (section 7 says why no larger one); a link that may break
is one of the edge switch's, which then has two. Loads, traffic, hashes and the TTL are arbitrary, and the lists of routes may even name a switch twice.

The invariant is `IInv == Typed /\ Packets /\ (\A p \in Pair : PairOk(p) /\ SentOk(p)) /\ RouteAvailable`, where
`PairOk == RoutesOk /\ LoadsOk /\ BudgetOk /\ LearnedOk`. Why each part is needed:

- `Packets`: what is on its way or queued is `Good`. A probe that has come back and the answer to a hash routed packet name a route of the
  topology, the record of a count packet begins with the edge switch and the switch it sends it to, however often the packet passes (`Heads`, `RecordedIs`,
  `SuccessorIs`), a failure notice names the link that is broken.
- `RoutesOk`: rows of a pair are distinct members of `Routes`. That there are at most `NumRoutes` is then a matter of counting
  (`ListsCard`, `RoutesAre`, `FewRows`); it could not be proved row by row.
- `BudgetOk` is `BudgetConserved` with the packets counted by kind. Without it `RouteAvailable` is not inductive: if no row has packets
  left, their sum is at most 0, yet `BudgetOk` and `SentOk` (what a host has sent has been forwarded, or is at the switch) make it positive.
- `LoadsOk`: the switches are asked once and each answers once, so that as many load packets as switches arrive at most. Only so does a pair
  that may use routes either have a distributed flow or fill its rows now (`ChosenIs`); a load too many would leave column 6 of hash routed
  packets to be used as a budget.
- `LearnedOk`: a distributed flow has no packets left on a row through the broken link. It is kept because every later change
  of rows covers no row more than before (`Covered`), and the packet sent takes its row down.

Nothing in the division is trusted to be exact: `FillIs` needs of `Part` only that it is a number, since `Corrected` makes up for whatever rounding and
clipping change. `SumChange` says what a change of one row does to the sum. `CountMore`, `PlusOthers` and `PlusAnswers` say what `(+)` and `(-)` do to
the number of packets of a kind; each action then has a lemma that says by how much it changes the numbers of hash routed packets, requests and answers
of each pair (`Changed`), such as `HashRelay` and `AskRelay`, and `CloseIs` that closing routes in the order of the rows leaves none open through the link,
although `adjust_packet_count` gives packets to the rows that are still open.

TLC checked `IInv` on the scenarios of `dsi` before it was proved.

### 4.7 Loops

`Iteration` has induction up to a bound, and the existence of the values of a loop, stated over a *set* of values instead of
a predicate, and derived from the well-foundedness of the natural numbers. An invariant of a loop becomes the
set of the values that satisfy it. With it, what the recursive functions `Reach` and `Octets`, the update loop of OSPF, and the sums and the loop over the rows of DSI compute is proved for every length.

## 5. What is only model-checked

- *Liveness*: `BothClosed`, `AllDelivered`, `Resolves`, `AdjacencyForms`, `Settles`. The proof system does not handle liveness under fairness.
- *The composition of two TCPs*: `DeliveredExactly`, `AckedArrived`, `UnackedRepeatable`, `FlowControlled`, `SilentAfterFinal`, `TimersFit`,
  `NoRuntimeError`. `TimersFit` and `NoRuntimeError` are not invariants of the code outright but hold outside the two states of section 6;
  the others need an invariant on all segments in flight and both ends' sequence
  numbers at once, for handlers of some hundred lines. The receive side of `DeliveredExactly` is what `QueueReassembles` proves.
- *Agreement of two OSPF routers*: `DatabasesAgree` and `AdjacencyKept` relate both routers and the packets on the link, and
  `DatabasesAgree` is true only of scenarios in which the disagreement of section 6 does not arise.
- *Announcements and completeness of DSI*: `FutureSettles` and `NothingMissing` hold when everything on its way has passed: an invariant would have to
  say, for each switch and route, where every data and count packet is and what it still has to do, as sums over bags of packets.

Section 8 names those that are candidates for proofs.

## 6. Where code and documentation disagree

Three runs show a disagreement, each with a counterexample of several events:

| Run | The repository says | The code does |
|---|---|---|
| `tcp_pair_lost_fin` | `TCP.ned`: "connection setup and teardown as in RFC793" | a FIN sent by `process_CLOSE` starts no REXMIT timer; once lost, no event is left, and neither end is ever CLOSED (`EndsTornDown`) |
| `tcp_pair_fast_fin` | `TCPVirtualDataSendQueue.cc`: `ASSERT(seqLE(begin,fromSeq) && seqLE(fromSeq+numBytes,end))` | `retransmitOneSegment` takes the FIN in `snd_max` for a byte of the queue: after three duplicate ACKs for the FIN, or for less than a segment before it, the assertion fails (`SegmentsFromQueue`). One overtaken segment is enough |
| `ospf_flood` | `OSPFNeighbor.cc`: "a copy of the LSA is added to the end of the retransmission list" | a newer LSA is flooded, then its key is removed from all retransmission lists; an update the neighbour does not take is never repeated (`DatabasesAgree`) |

The models, being translated from the code, show further differences from what
comments and the standards they quote say. No run repeats these; each is a few steps in the definition named.

| Where | The repository says | The code, and the model, do |
|---|---|---|
| `SynInListen` (`AddForkedConnection`) | `TCPSocket.h`: "the original connection (original connId) will keep listening on the port" | a forked connection that a RST sends back to LISTEN forks again on its peer's next SYN, finds its own first clone on the listening pair, and `addSockPair` stops the simulation |
| `Extract` | `TCPVirtualDataRcvQueue.cc`: "empty regions cannot exist" | the `ASSERT` uses `<`, not `seqLess`: a non-empty region across the wrap-around fails it |
| `AckStep`, `FinStep` in CLOSING | "We should not receive this timeout in this state." | a segment that acks our FIN and repeats the peer's starts 2MSL, then RCV_FIN overwrites RCV_ACK: the connection stays in CLOSING and the timer runs into `opp_error()`, or is scheduled a second time |
| `FinStep` | `TCPConnection.h`: "CLOSE-WAIT - FIN received and acked" | a FIN above a gap enters CLOSE_WAIT, where text is no longer accepted, before it can be acknowledged |
| `DeferredClose` | `TCPConnection.h`: "FIN-WAIT-2 - ... waiting for peer's FIN" | the simulated CLOSE overwrites the RCV_FIN event of the same segment; the connection later waits in FIN_WAIT_2 for a FIN it already has |
| `AckStep`, FIN_WAIT_1 | `TCP.ned` lists a "FIN-WAIT-2 timer" | nothing schedules it; a peer that never closes keeps the state forever |
| `AckStep`, TIME_WAIT | "The only thing that can arrive in this state is a retransmission of the remote FIN." | an ACK can arrive too and is answered with an ACK that restarts 2MSL: two ends in TIME_WAIT keep each other there |
| `segmentArrivalWhileClosed` | the reset is "acceptable to the TCP that sent the offending segment" | its ackNo leaves the SYN out and SYN_SENT refuses it |
| `established` | `TCPNoCongestionControl.h`: "congestion window kept very large" | the inherited method sets it to one MSS |
| `UpdatedWnd` | `TCP.ned`: PERSIST not needed "because receiver never advertises 0 window size" | in a simultaneous open with a high initial sequence number the first window update is refused (`snd_wl1` is still 0) and the send window stays 0 |
| `AnswerLoad` | `IPchanged.cc`, of the load -1 that marks a request: "when the controller receives reply from the other nodes the load value would have changed and hence it can be used to distinguish" | with two flows, data overtakes its announcement, which waits in `pqueue`; queue length plus a negative `future_packets_count` can be -1, and the controller takes the answer for a request |
| `Ends` | `IPchanged.cc`: "Num_packet_for_this_path contains the number of future packets which will be routed along this path" | a count packet ends where a switch's position in its record reaches the number of routes. In a pod of a six-port tree the aggregate switch is at position 2 of 3: it adds the count and sends the packet on to the next address, the edge switch's own, which sends it to the aggregate switch again; every passage adds the count once more, and when the TTL is used up `sendErrorMessage` stops the simulation. In a four-port tree position and number of routes agree |
| `resetStateVariables` | `Ieee80211Mac.h`: `transmissionLimit` is the "Maximum number of transmissions for a message. This includes the initial transmission and all subsequent retransmissions." | every frame received in IDLE, DEFER or WAITDIFS sets `retryCounter` to 0: a frame whose attempts are separated by traffic of others is sent more often |
| `Close` with `EarlyClosers` | `TCPSocket.cc`: "not connected or close() already called" | `close()` in SYN_RCVD of a simultaneous open with data pending sets CLOSED; the ESTABLISHED indication then sets CONNECTED and a second `close()` runs into an error |

And behaviour that no sentence of the repository contradicts, but a reader should know:

| Where | The code, and the model, do |
|---|---|
| `CountAtSwitch` | a route found only through a hash routed packet has no switch below the core in its row; if the flow is distributed before the probe of that route comes back, its count packet ends with "no route" |
| `SendCount` | the correction of the rounding can leave -1 packets on a route that hash routing has overdrawn; the count packet that says so is taken for a probe and sent nowhere. `FutureSettles` counts such a row as not announced |
| `EndService` | count packets, and the first probe, enter `pqueue` without its timer. The first packets of a flow bring others back, so no route or load stays unknown, but the count packets of the last flow wait until some packet arrives, perhaps forever: `NothingMissing` lets them, and `FutureSettles` speaks of states in which none waits |
| `fill_delay_load_matrix` | a failure notice handled before the flow is distributed closes rows that the distribution opens again |
| `Notice` | `flag_for_packet_sent_out` is never cleared: of two broken links only the first is reported |
| `NumRoutes` | `initialize` allocates k rows for a pair of hosts; between pods there are k*k/4 routes, more than k from k = 6 on: `dsi` and the theorems stay with k = 4 there |
| `NegotiationDone` | the timer for database descriptions is cleared and Exchange starts none: a description lost there stops the exchange for good, while hellos keep both routers in it |
| `ReceiveFrame` | in WAITACK and WAITCTS a frame with bit errors, or a collision, is taken for the ACK or the CTS it was |
| `scheduleReservePeriod` | the duration field of a garbled frame is believed; a station with a reservation still answers an RTS with a CTS |
| `EnterReceive` | duplicates go up: `asfTuplesList` "is not yet used" |
| `EnterDefer` | the macro does not parenthesise `isMediumFree() \|\| !backoff`, so that a free medium lets any event leave DEFER; `TimersFit` shows that DEFER is never met with a free medium |
| `NewerLsa` | the first instance of an LSA is not acknowledged; its retransmission is, as a duplicate |

Found while reading, in code that has no module: `IPFragBuf::addFragment` leaves the field `id` of its
key unassigned, and erases `bufs.end()` when the first fragment completes a datagram; `TCPMsgBasedRcvQueue` orders its
payload list by plain `<` across the wrap-around; `TCP` keeps ports as `short`.

The two states from which a TCP connection runs into an error, the connection that stays in CLOSING and the
retransmission of the FIN as a byte, are `StuckInClosing` and `FinTakenForByte` in `TcpPair`: `NoRuntimeError` says that there
is no other in the scenarios of `tcp_pair_faults`. The first came up again as the step on which a proof that
`TimersFit` is inductive fails; it takes two faults.

## 7. Abstractions and what is not modelled

TCP:

- Bytes are counted, not stored: the virtual data queues keep none either. A message has a
  length only.
- Time is left out. A timer is scheduled or not; the retransmission timeout's value and RTT
  measurement change only when a timer fires, not whether it may.
- `snd_wl1` and `snd_wl2` are left out: every segment advertises the same window, so they matter
  only until the first update, up to which they keep their initial 0. `dupacks` counts up to 4,
  since only "three" and "more than three" are told apart.
- Nagle's algorithm is on and delayed ACKs are off, the defaults of `TCP.ned`. SYN
  segments carry no text, because neither end of this code sends any.
- `TcpPair` gives an application its indications before its next command; commands that
  cross an indication are in the plan.
- Never reached in this code, hence not modelled: `sendProbe`, `process_TIMEOUT_FIN_WAIT_2`,
  the PERSIST and KEEP-ALIVE timers. STATUS, urgent data and display strings change no state
  that matters.

DSI:

- Delays only order the routes; the model picks any route with packets left.
- One source and one destination edge switch; what other traffic does is the queue length a
  switch reports, which a scenario fixes.
- Below the core a packet has one way, and its steps there are one step of the model, except
  for count and data packets, whose every switch keeps a count.
- Between pods the tree has four ports, two aggregate switches with two core switches each: with more,
  the rows overrun their allocation (section 6), and what the code then does is undefined.
- A link breaks between the edge switch and an aggregate switch, once, after a flow was
  distributed, and only at switches of four ports: the arithmetic of `link_broken` for others is left out.
- `FutureSettles` is stated for switches of four ports, where a count packet ends with its route; section 6
  shows what happens in others.

ARP:

- Interfaces that are not broadcast (no resolution, no state) and multicast groups beyond
  one address are left out; the redirection at broken links is in `Dsi`.
- `retryCount` is a parameter; of `cacheTimeout` only "old" and "not old" are
  told apart.

OSPF:

- A point-to-point link: `NeedAdjacency()` is true, so TwoWay, designated routers and polling
  are never reached; delayed acknowledgements and direct ones are both there.
- An LSA is a key and a sequence number. Ageing to MaxAge, premature ageing, received
  self-originated LSAs and the routing table are left out; `young` is MIN_LS_ARRIVAL.
- All requests fit in one packet; descriptions carry `HeadersPerDD` headers.

IEEE 802.11:

- A frame has a duration on the air instead of a length; `EIFS` takes the duration of an ACK from its own
  parameter, because the code computes it at another rate.
- Signals are heard or not heard, with equal power: two that overlap at a station garble each other. Bit errors are
  chosen by the scenario.
- Radio configuration commands (`handleCommand`, `sendDownPendingRadioConfigMsg`), the external queue module and
  frames with more fragments, which the code never creates, are left out; so are statistics.
- `attempts` counts up to `transmissionLimit`, since only "fewer" and "not fewer" are told apart.

Components without a module are listed in 1.3 and in `PROJECT.json` with the reason.

## 8. Plan

1. *Proofs.* For `TcpConnection`, that
   `TimersFit` is kept by every step from a state that is not one of the two of section 6.
2. *TCP, the rest.* Commands that cross indications, `renewSocket`, accepting sockets,
   `TCPSocketMap`; message based queues on top of `TcpRcvQueue`; DumbTCP as a fourth flavour.
3. *IP and below.* Fragment reassembly (`IPFragBuf`, `ReassemblyBuffer`) against an abstract
   buffer; UDP's port tables; `PassiveQueueBase` with its MAC, then PAUSE and CSMA/CD; 802.11 management on top of `Dcf`.
4. *Routing and signalling.* OSPF on a broadcast network; IPv6 neighbour unreachability; RSVP-TE
   soft state; LDP sessions over an abstract TCP.
5. SCTP associations, with what `TcpPair` has taught.
