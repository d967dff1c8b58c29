-------------------------------- MODULE Arp --------------------------------
(***************************************************************************)
(* Address resolution (networklayer/arp/ARP.cc): the ARP modules of the    *)
(* nodes on some broadcast networks, packets that wait for a resolution,   *)
(* requests that time out and are repeated, answers that are late or lost. *)
(*                                                                         *)
(* An interface of a node is the pair of the node and its network; it      *)
(* stands for its IP address and for its MAC address as well.              *)
(***************************************************************************)
EXTENDS Naturals, Sequences, SequencesExt, FiniteSets

CONSTANTS
    Node, Lan,
    Interface,      \* the interfaces there are
    Proxy,          \* the nodes with doProxyARP set
    Route,          \* Route[n][a]: the network on which n sends to address a
    Broadcast,      \* the broadcast MAC address
    Multicast,      \* a multicast IP address
    retryCount,
    Flow,           \* pairs <<n, a>>: n has packets for address a
    MaxPackets      \* MaxPackets[n]: the packets node n has to send

ASSUME InterfaceAssumption == Interface \subseteq Node \X Lan
ASSUME RouteAssumption ==
    /\ Proxy \subseteq Node
    /\ Route \in [Node -> [Interface \cup {Multicast} -> Lan]]
    /\ Multicast \notin Interface /\ Broadcast \notin Interface
ASSUME FlowAssumption ==
    /\ Flow \subseteq Node \X (Interface \cup {Multicast})
    /\ retryCount \in Nat \ {0} /\ MaxPackets \in [Node -> Nat]
    /\ \A n \in Node : \A a \in Interface \cup {Multicast} :
           <<n, a>> \in Flow => <<n, Route[n][a]>> \in Interface

(* The routes of RoutingTable::updateNetmaskRoutes: a node sends on the    *)
(* network it shares with an address.                                      *)
ASSUME DirectRouteAssumption ==
    \A n \in Node : \A a \in Interface : <<n, a[2]>> \in Interface => Route[n][a] = a[2]

VARIABLES
    cache,          \* arpCache of every node
    timer,          \* timer[n][a]: "ARP timeout" messages scheduled for the entry
    given,          \* packets the higher layer has handed over, per node
    out,            \* packets sent to the NIC, per node
    dropped,        \* packets dropped by failed resolutions, per node
    net             \* ARP packets sent

vars == <<cache, timer, given, out, dropped, net>>

(* lan is the interface `ie', queue is pendingPackets, fresh is            *)
(* lastUpdate + cacheTimeout >= simTime().                                 *)
NoEntry == [state |-> "none"]

Entry == [state : {"pending", "resolved"}, lan : Lan, mac : Interface \cup {Broadcast},
          fresh : BOOLEAN, numRetries : Nat, queue : Seq(Nat)]

Packet == [id : Nat, to : Interface \cup {Multicast}, lan : Lan, mac : Interface \cup {Broadcast}]

ArpPacket == [op : {"request", "reply"}, lan : Lan, srcMac : Interface, srcIP : Interface,
              dstIP : Interface]

Init ==
    /\ cache = [n \in Node |-> [a \in Interface |-> NoEntry]]
    /\ timer = [n \in Node |-> [a \in Interface |-> 0]]
    /\ given = [n \in Node |-> 0]
    /\ out = [n \in Node |-> <<>>]
    /\ dropped = [n \in Node |-> {}]
    /\ net = {}

(* Mutation: the sender's MAC address is left out. *)
MutRequest(n, lan, a) ==
    [op |-> "request", lan |-> lan, srcMac |-> Broadcast, srcIP |-> <<n, lan>>, dstIP |-> a]

Request(n, lan, a) ==
    [op |-> "request", lan |-> lan, srcMac |-> <<n, lan>>, srcIP |-> <<n, lan>>, dstIP |-> a]

(* Packets to be sent on a network, with the MAC address given. *)
SentTo(ids, a, lan, mac) ==
    [i \in DOMAIN ids |-> [id |-> ids[i], to |-> a, lan |-> lan, mac |-> mac]]

-----------------------------------------------------------------------------
(* initiateARPResolution, for the entry of address a.  The MAC address of  *)
(* a new entry is not set (Broadcast stands for that).                     *)
initiateARPResolution(n, a, lan, queue) ==
    /\ cache' = [cache EXCEPT ![n][a] =
           [state |-> "pending", lan |-> lan, fresh |-> FALSE, numRetries |-> 0, queue |-> queue,
            mac |-> IF @.state = "none" THEN Broadcast ELSE @.mac]]
    /\ timer' = [timer EXCEPT ![n][a] = @ + 1]
    /\ net' = net \cup {Request(n, lan, a)}

(* Mutation: an entry is taken for valid although its resolution is pending. *)
MutprocessOutboundPacket(n, a) ==
    LET id == given[n] + 1
        lan == Route[n][a]
    IN  /\ given[n] < MaxPackets[n]
        /\ given' = [given EXCEPT ![n] = id]
        /\ \/ /\ a # Multicast /\ cache[n][a].state = "none"
              /\ initiateARPResolution(n, a, lan, <<id>>)
              /\ UNCHANGED out
           \/ /\ a # Multicast /\ cache[n][a].state # "none"
              /\ out' = [out EXCEPT ![n] = @ \o SentTo(<<id>>, a, lan, cache[n][a].mac)]
              /\ UNCHANGED <<cache, timer, net>>
        /\ UNCHANGED dropped

(* processOutboundPacket on a broadcast interface: a packet for address a. *)
processOutboundPacket(n, a) ==
    LET id == given[n] + 1
        lan == Route[n][a]
        e == cache[n][a]
    IN  /\ given[n] < MaxPackets[n]
        /\ given' = [given EXCEPT ![n] = id]
        /\ \/ /\ a = Multicast
              /\ out' = [out EXCEPT ![n] = @ \o SentTo(<<id>>, a, lan, Broadcast)]
              /\ UNCHANGED <<cache, timer, net>>
           \/ /\ a # Multicast /\ e.state = "none"
              /\ initiateARPResolution(n, a, lan, <<id>>)
              /\ UNCHANGED out
           \/ /\ a # Multicast /\ e.state = "pending"
              /\ cache' = [cache EXCEPT ![n][a].queue = Append(@, id)]
              /\ UNCHANGED <<out, timer, net>>
           \/ /\ a # Multicast /\ e.state = "resolved" /\ ~e.fresh
              /\ initiateARPResolution(n, a, lan, Append(e.queue, id))
              /\ UNCHANGED out
           \/ /\ a # Multicast /\ e.state = "resolved" /\ e.fresh
              /\ out' = [out EXCEPT ![n] = @ \o SentTo(<<id>>, a, lan, e.mac)]
              /\ UNCHANGED <<cache, timer, net>>
        /\ UNCHANGED dropped

-----------------------------------------------------------------------------
(* Mutation: retries are not counted. *)
MutrequestTimedOut(n, a) ==
    /\ timer[n][a] > 0
    /\ net' = net \cup {Request(n, cache[n][a].lan, a)}
    /\ UNCHANGED <<cache, timer, given, out, dropped>>

(* requestTimedOut: the timer of the entry of address a. *)
requestTimedOut(n, a) ==
    LET e == cache[n][a]
    IN  /\ timer[n][a] > 0
        /\ \/ /\ e.numRetries + 1 < retryCount
              /\ cache' = [cache EXCEPT ![n][a].numRetries = @ + 1]
              /\ net' = net \cup {Request(n, e.lan, a)}
              /\ UNCHANGED <<timer, dropped>>
           \/ /\ e.numRetries + 1 >= retryCount
              /\ dropped' = [dropped EXCEPT ![n] = @ \cup Range(e.queue)]
              /\ cache' = [cache EXCEPT ![n][a] = NoEntry]
              /\ timer' = [timer EXCEPT ![n][a] = @ - 1]
              /\ UNCHANGED net
        /\ UNCHANGED <<given, out>>

-----------------------------------------------------------------------------
addressRecognized(n, a, lan) == a[1] = n \/ (n \in Proxy /\ Route[n][a] # lan)

(* Mutation: the packets sent stay in the queue. *)
MutUpdated(e, mac) ==
    [e EXCEPT !.state = "resolved", !.mac = mac, !.fresh = TRUE,
              !.numRetries = IF e.state = "pending" THEN 0 ELSE @]

(* updateARPCache on an entry the cache has: the timer is cancelled if the *)
(* entry was pending, and the packets that wait are sent on its interface. *)
Updated(e, mac) ==
    [e EXCEPT !.state = "resolved", !.mac = mac, !.fresh = TRUE, !.queue = <<>>,
              !.numRetries = IF e.state = "pending" THEN 0 ELSE @]

NewEntry(lan, mac) ==
    [state |-> "resolved", lan |-> lan, mac |-> mac, fresh |-> TRUE, numRetries |-> 0,
     queue |-> <<>>]

(* Mutation: the timer of a resolved entry is left running. *)
MutTimerAfter(n, a) == timer

(* The timers after an ARP packet from address a. *)
TimerAfter(n, a) ==
    IF cache[n][a].state = "pending" THEN [timer EXCEPT ![n][a] = 0] ELSE timer

(* Mutation: the packets that wait are sent last in, first out. *)
MutFlushed(n, a, mac) ==
    out[n] \o SentTo(Reverse(cache[n][a].queue), a, cache[n][a].lan, mac)

Flushed(n, a, mac) == out[n] \o SentTo(cache[n][a].queue, a, cache[n][a].lan, mac)

Receives(n, m) ==
    /\ <<n, m.lan>> \in Interface /\ m.srcMac # <<n, m.lan>>
    /\ m.op = "reply" => m.dstIP = <<n, m.lan>>

(* processARPPacket.  A reply goes to the MAC address of the request, so   *)
(* only its receiver sees it; packets stay in net, where they may be late, *)
(* never arrive, or arrive again as the retries they may stand for.        *)
processARPPacket(n, m) ==
    LET a == m.srcIP
        known == cache[n][a].state # "none"
        recognized == addressRecognized(n, m.dstIP, m.lan)
    IN  /\ m \in net /\ Receives(n, m)
        /\ \/ /\ known
              /\ cache' = [cache EXCEPT ![n][a] = Updated(@, m.srcMac)]
              /\ timer' = TimerAfter(n, a)
              /\ out' = [out EXCEPT ![n] = Flushed(n, a, m.srcMac)]
           \/ /\ ~known /\ recognized
              /\ cache' = [cache EXCEPT ![n][a] = NewEntry(m.lan, m.srcMac)]
              /\ UNCHANGED <<timer, out>>
           \/ /\ ~known /\ ~recognized
              /\ UNCHANGED <<cache, timer, out>>
        /\ net' = IF recognized /\ m.op = "request"
                  THEN net \cup {[op |-> "reply", lan |-> m.lan, srcMac |-> <<n, m.lan>>,
                                  srcIP |-> m.dstIP, dstIP |-> a]}
                  ELSE net
        /\ UNCHANGED <<given, dropped>>

(* Time passes: an entry gets older than cacheTimeout. *)
Expire(n, a) ==
    /\ cache[n][a].state = "resolved" /\ cache[n][a].fresh
    /\ cache' = [cache EXCEPT ![n][a].fresh = FALSE]
    /\ UNCHANGED <<timer, given, out, dropped, net>>

-----------------------------------------------------------------------------
Next ==
    \E n \in Node :
        \/ \E a \in Interface \cup {Multicast} : <<n, a>> \in Flow /\ processOutboundPacket(n, a)
        \/ \E a \in Interface : requestTimedOut(n, a) \/ Expire(n, a)
        \/ \E m \in net : processARPPacket(n, m)

Spec == Init /\ [][Next]_vars

(* The simulation kernel delivers every timer; packets may get lost. *)
FairSpec == Spec /\ WF_vars(\E n \in Node, a \in Interface : requestTimedOut(n, a))

-----------------------------------------------------------------------------
(* Every variable has its type. *)
TypeOK ==
    /\ cache \in [Node -> [Interface -> Entry \cup {NoEntry}]]
    /\ timer \in [Node -> [Interface -> Nat]]
    /\ given \in [Node -> Nat]
    /\ out \in [Node -> Seq(Packet)]
    /\ dropped \in [Node -> SUBSET Nat]
    /\ net \subseteq ArpPacket

(* Exactly one timeout is scheduled for an entry whose resolution is       *)
(* pending and none for any other, whatever the order of timeouts, replies *)
(* and crossing requests: a timer would outlive its entry, or packets wait *)
(* for a resolution nobody repeats.                                        *)
TimerIffPending ==
    \A n \in Node, a \in Interface :
        timer[n][a] = IF cache[n][a].state = "pending" THEN 1 ELSE 0

Queued(n, a) == IF cache[n][a].state = "none" THEN {} ELSE Range(cache[n][a].queue)
AllQueued(n) == UNION {Queued(n, a) : a \in Interface}
SentIds(n) == {out[n][i].id : i \in DOMAIN out[n]}

(* A packet handed over waits in one queue, or was sent once, or was       *)
(* dropped by a failed resolution, and packets wait only in entries whose  *)
(* resolution is pending.                                                  *)
PacketsAccounted ==
    \A n \in Node :
        /\ AllQueued(n) \cup SentIds(n) \cup dropped[n] = 1 .. given[n]
        /\ AllQueued(n) \cap SentIds(n) = {} /\ AllQueued(n) \cap dropped[n] = {}
        /\ SentIds(n) \cap dropped[n] = {}
        /\ \A i, j \in DOMAIN out[n] : out[n][i].id = out[n][j].id => i = j
        /\ \A a, b \in Interface : Queued(n, a) \cap Queued(n, b) # {} => a = b
        /\ \A a \in Interface : Queued(n, a) # {} => cache[n][a].state = "pending"

(* Packets for one next hop leave in the order they were handed over, also *)
(* those that waited before those that found the entry resolved.           *)
InOrder ==
    \A n \in Node : \A i, j \in DOMAIN out[n] :
        i < j /\ out[n][i].to = out[n][j].to => out[n][i].id < out[n][j].id

(* A packet is sent to an interface on the network it leaves through, that *)
(* of the node which has the next hop's address or that of a node with     *)
(* proxy ARP that has a route to it over another network.                  *)
SentWhereHeard ==
    \A n \in Node : \A i \in DOMAIN out[n] :
        LET p == out[n][i] IN
        p.to # Multicast =>
            /\ p.mac \in Interface /\ p.mac[2] = p.lan
            /\ p.mac[1] = p.to[1] \/ (p.mac[1] \in Proxy /\ Route[p.mac[1]][p.to] # p.lan)

(* No packet waits forever: its resolution succeeds, or fails after        *)
(* retryCount requests.                                                    *)
Resolves ==
    \A n \in Node : \A i \in 1 .. MaxPackets[n] : (i \in AllQueued(n)) ~> (i \notin AllQueued(n))
=============================================================================
