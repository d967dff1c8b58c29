----------------------------- MODULE Arp_proofs -----------------------------
(***************************************************************************)
(* Proofs about Arp, for every set of nodes, networks, interfaces, routes  *)
(* and flows.                                                              *)
(***************************************************************************)
EXTENDS Arp, SequenceTheorems, TLAPS

(* An entry that exists has the fields of ARPCacheEntry. *)
LEMMA EntryFields ==
  ASSUME TypeOK, NEW n \in Node, NEW a \in Interface
  PROVE  /\ cache[n][a].state # "none" => cache[n][a] \in Entry
         /\ cache[n][a].state = "none" => cache[n][a] = NoEntry
         /\ cache[n][a].state \in {"none", "pending", "resolved"}
PROOF BY DEF TypeOK, Entry, NoEntry

(* What one assignment to an element of arpCache leaves. *)
LEMMA CacheUpdate ==
  ASSUME NEW f, NEW S, f \in [Node -> [Interface -> S]],
         NEW n \in Node, NEW a \in Interface, NEW v \in S, NEW g,
         g = [f EXCEPT ![n][a] = v]
  PROVE  /\ g \in [Node -> [Interface -> S]]
         /\ g[n][a] = v
         /\ \A x \in Node, b \in Interface : (x # n \/ b # a) => g[x][b] = f[x][b]
         /\ \A x \in Node : x # n => g[x] = f[x]
PROOF OBVIOUS

(* The assignments to fields of an entry that the handlers make. *)
LEMMA EntryAssigned ==
  ASSUME NEW e \in Entry
  PROVE  /\ \A q \in Seq(Nat) : LET f == [e EXCEPT !.queue = q] IN
               /\ f \in Entry /\ f.state = e.state /\ f.lan = e.lan /\ f.mac = e.mac
               /\ f.queue = q
         /\ \A k \in Nat : LET f == [e EXCEPT !.numRetries = k] IN
               /\ f \in Entry /\ f.state = e.state /\ f.lan = e.lan /\ f.mac = e.mac
               /\ f.queue = e.queue
         /\ \A b \in BOOLEAN : LET f == [e EXCEPT !.fresh = b] IN
               /\ f \in Entry /\ f.state = e.state /\ f.lan = e.lan /\ f.mac = e.mac
               /\ f.queue = e.queue
         /\ \A mac \in Interface : LET f == Updated(e, mac) IN
               /\ f \in Entry /\ f.state = "resolved" /\ f.lan = e.lan /\ f.mac = mac
               /\ f.queue = <<>>
PROOF
  <1>1. ASSUME NEW q \in Seq(Nat)
        PROVE  LET f == [e EXCEPT !.queue = q] IN
               /\ f \in Entry /\ f.state = e.state /\ f.lan = e.lan /\ f.mac = e.mac
               /\ f.queue = q
    BY DEF Entry
  <1>2. ASSUME NEW k \in Nat
        PROVE  LET f == [e EXCEPT !.numRetries = k] IN
               /\ f \in Entry /\ f.state = e.state /\ f.lan = e.lan /\ f.mac = e.mac
               /\ f.queue = e.queue
    BY DEF Entry
  <1>3. ASSUME NEW b \in BOOLEAN
        PROVE  LET f == [e EXCEPT !.fresh = b] IN
               /\ f \in Entry /\ f.state = e.state /\ f.lan = e.lan /\ f.mac = e.mac
               /\ f.queue = e.queue
    BY DEF Entry
  <1>4. ASSUME NEW mac \in Interface
        PROVE  LET f == Updated(e, mac) IN
               /\ f \in Entry /\ f.state = "resolved" /\ f.lan = e.lan /\ f.mac = mac
               /\ f.queue = <<>>
    <2> DEFINE k == IF e.state = "pending" THEN 0 ELSE e.numRetries
               none == <<>>
    <2>1. k \in Nat /\ none \in Seq(Nat)
      BY DEF Entry
    <2>2. Updated(e, mac) = [e EXCEPT !.state = "resolved", !.mac = mac, !.fresh = TRUE,
                                     !.queue = none, !.numRetries = k]
      BY DEF Updated, Entry
    <2> HIDE DEF k, none
    <2>3. LET f == Updated(e, mac) IN
          /\ f \in Entry /\ f.state = "resolved" /\ f.lan = e.lan /\ f.mac = mac
          /\ f.queue = none
      BY <2>1, <2>2 DEF Entry
    <2> QED BY <2>3 DEF none
  <1> QED BY <1>1, <1>2, <1>3, <1>4

LEMMA SameTimer ==
  ASSUME NEW f \in [Node -> [Interface -> Nat]], NEW n \in Node, NEW a \in Interface
  PROVE  f = [f EXCEPT ![n][a] = f[n][a]]
PROOF OBVIOUS

(* The packets of SentTo, one for every id. *)
LEMMA SentToType ==
  ASSUME NEW ids \in Seq(Nat), NEW a \in Interface \cup {Multicast}, NEW lan \in Lan,
         NEW mac \in Interface \cup {Broadcast}
  PROVE  /\ SentTo(ids, a, lan, mac) \in Seq(Packet)
         /\ Len(SentTo(ids, a, lan, mac)) = Len(ids)
         /\ \A i \in 1 .. Len(ids) : SentTo(ids, a, lan, mac)[i] =
                [id |-> ids[i], to |-> a, lan |-> lan, mac |-> mac]
PROOF
  <1> DEFINE s == SentTo(ids, a, lan, mac)
  <1>1. s = [i \in 1 .. Len(ids) |-> [id |-> ids[i], to |-> a, lan |-> lan, mac |-> mac]]
    BY DEF SentTo
  <1>2. \A i \in 1 .. Len(ids) : [id |-> ids[i], to |-> a, lan |-> lan, mac |-> mac] \in Packet
    BY DEF Packet
  <1>3. Len(ids) \in Nat
    OBVIOUS
  <1>4. s \in Seq(Packet) /\ Len(s) = Len(ids)
    <2> HIDE DEF s
    <2> QED BY <1>1, <1>2, <1>3, IsASeq
  <1> QED BY <1>1, <1>4

(* t is s followed by the packets with these ids. *)
Extends(t, s, ids, a, lan, mac) ==
    /\ t \in Seq(Packet)
    /\ Len(t) = Len(s) + Len(ids)
    /\ \A k \in 1 .. Len(s) : t[k] = s[k]
    /\ \A k \in 1 .. Len(t) : k \notin 1 .. Len(s) =>
           /\ k - Len(s) \in 1 .. Len(ids)
           /\ t[k].id = ids[k - Len(s)] /\ t[k].to = a /\ t[k].lan = lan /\ t[k].mac = mac

(* What out[n] holds after packets were sent with SentTo. *)
LEMMA Concatenated ==
  ASSUME NEW s \in Seq(Packet), NEW ids \in Seq(Nat), NEW a \in Interface \cup {Multicast},
         NEW lan \in Lan, NEW mac \in Interface \cup {Broadcast}
  PROVE  Extends(s \o SentTo(ids, a, lan, mac), s, ids, a, lan, mac)
PROOF
  <1>0. PICK t : t = s \o SentTo(ids, a, lan, mac)
    OBVIOUS
  <1> DEFINE u == SentTo(ids, a, lan, mac)
  <1>1. /\ u \in Seq(Packet) /\ Len(u) = Len(ids)
        /\ \A i \in 1 .. Len(ids) : u[i] = [id |-> ids[i], to |-> a, lan |-> lan, mac |-> mac]
    BY SentToType
  <1> HIDE DEF u
  <1>2. t = s \o u
    BY <1>0 DEF u
  <1>3. t \in Seq(Packet) /\ Len(t) = Len(s) + Len(ids) /\ Len(s) \in Nat /\ Len(ids) \in Nat
    <2>1. s \o u \in Seq(Packet) /\ Len(s \o u) = Len(s) + Len(u)
      BY <1>1, ConcatProperties
    <2>2. Len(s) \in Nat /\ Len(ids) \in Nat
      OBVIOUS
    <2> QED BY <1>1, <1>2, <2>1, <2>2, Zenon
  <1>4. \A k \in 1 .. Len(s) : t[k] = s[k]
    BY <1>1, <1>2
  <1>5. \A i \in 1 .. Len(ids) : t[Len(s) + i] = u[i]
    BY <1>1, <1>2, <1>3
  <1>6. ASSUME NEW k \in 1 .. Len(t), k \notin 1 .. Len(s)
        PROVE  /\ k - Len(s) \in 1 .. Len(ids)
               /\ t[k].id = ids[k - Len(s)] /\ t[k].to = a /\ t[k].lan = lan /\ t[k].mac = mac
    <2>1. k - Len(s) \in 1 .. Len(ids) /\ k = Len(s) + (k - Len(s))
      BY <1>3, <1>6
    <2>2. t[k] = [id |-> ids[k - Len(s)], to |-> a, lan |-> lan, mac |-> mac]
      BY <1>1, <1>5, <2>1
    <2> QED BY <2>1, <2>2
  <1>7. Extends(t, s, ids, a, lan, mac)
    BY <1>3, <1>4, <1>6 DEF Extends
  <1> QED BY <1>0, <1>7

-----------------------------------------------------------------------------
(* A request that is repeated leaves through an interface of the node. *)
PendingOnInterface ==
    \A n \in Node, a \in Interface :
        cache[n][a].state = "pending" => <<n, cache[n][a].lan>> \in Interface

TimersInv == TypeOK /\ TimerIffPending /\ PendingOnInterface

(* A step that changes one entry and its timer keeps the invariant. *)
LEMMA OneEntryChanged ==
  ASSUME TimersInv, NEW n \in Node, NEW a \in Interface,
         NEW e \in Entry \cup {NoEntry}, NEW t \in Nat,
         cache' = [cache EXCEPT ![n][a] = e], timer' = [timer EXCEPT ![n][a] = t],
         t = IF e.state = "pending" THEN 1 ELSE 0,
         e.state = "pending" => <<n, e.lan>> \in Interface,
         given' \in [Node -> Nat], out' \in [Node -> Seq(Packet)],
         dropped' \in [Node -> SUBSET Nat], net' \subseteq ArpPacket
  PROVE  TimersInv'
PROOF
  <1>1. /\ cache' \in [Node -> [Interface -> Entry \cup {NoEntry}]]
        /\ cache'[n][a] = e
        /\ \A x \in Node, b \in Interface : (x # n \/ b # a) => cache'[x][b] = cache[x][b]
    BY CacheUpdate DEF TimersInv, TypeOK
  <1>2. /\ timer' \in [Node -> [Interface -> Nat]]
        /\ timer'[n][a] = t
        /\ \A x \in Node, b \in Interface : (x # n \/ b # a) => timer'[x][b] = timer[x][b]
    BY CacheUpdate DEF TimersInv, TypeOK
  <1>3. TypeOK'
    BY <1>1, <1>2 DEF TypeOK
  <1>4. ASSUME NEW x \in Node, NEW b \in Interface
        PROVE  /\ timer'[x][b] = IF cache'[x][b].state = "pending" THEN 1 ELSE 0
               /\ cache'[x][b].state = "pending" => <<x, cache'[x][b].lan>> \in Interface
    <2>1. CASE x = n /\ b = a
      BY <2>1, <1>1, <1>2
    <2>2. CASE x # n \/ b # a
      <3>1. cache'[x][b] = cache[x][b] /\ timer'[x][b] = timer[x][b]
        BY <2>2, <1>1, <1>2
      <3>2. /\ timer[x][b] = IF cache[x][b].state = "pending" THEN 1 ELSE 0
            /\ cache[x][b].state = "pending" => <<x, cache[x][b].lan>> \in Interface
        BY DEF TimersInv, TimerIffPending, PendingOnInterface
      <3> QED BY <3>1, <3>2
    <2> QED BY <2>1, <2>2
  <1> QED BY <1>3, <1>4 DEF TimersInv, TimerIffPending, PendingOnInterface

LEMMA InitiateTimers ==
  ASSUME TimersInv, NEW n \in Node, NEW a \in Interface, NEW lan \in Lan,
         NEW queue \in Seq(Nat), <<n, lan>> \in Interface,
         cache[n][a].state # "pending",
         initiateARPResolution(n, a, lan, queue), UNCHANGED <<out, dropped>>,
         given' \in [Node -> Nat]
  PROVE  TimersInv'
PROOF
  <1> DEFINE e == [state |-> "pending", lan |-> lan, fresh |-> FALSE, numRetries |-> 0,
                   queue |-> queue,
                   mac |-> IF cache[n][a].state = "none" THEN Broadcast ELSE cache[n][a].mac]
  <1>1. e \in Entry /\ e.state = "pending" /\ e.lan = lan
    BY EntryFields DEF TimersInv, Entry
  <1>2. cache' = [cache EXCEPT ![n][a] = e]
    BY DEF initiateARPResolution, TimersInv, TypeOK
  <1>3. timer' = [timer EXCEPT ![n][a] = 1]
    <2>1. timer[n][a] = 0
      BY DEF TimersInv, TimerIffPending
    <2>2. timer' = [timer EXCEPT ![n][a] = timer[n][a] + 1]
      BY DEF initiateARPResolution, TimersInv, TypeOK
    <2> QED BY <2>1, <2>2
  <1>4. net' \subseteq ArpPacket
    <2>1. Request(n, lan, a) \in ArpPacket
      BY DEF Request, ArpPacket
    <2> QED BY <2>1 DEF initiateARPResolution, TimersInv, TypeOK
  <1>5. out' \in [Node -> Seq(Packet)] /\ dropped' \in [Node -> SUBSET Nat]
    BY DEF TimersInv, TypeOK
  <1> HIDE DEF e
  <1> QED BY <1>1, <1>2, <1>3, <1>4, <1>5, OneEntryChanged

LEMMA OutboundTimers ==
  ASSUME TimersInv, NEW n \in Node, NEW a \in Interface \cup {Multicast}, <<n, a>> \in Flow,
         processOutboundPacket(n, a)
  PROVE  TimersInv'
PROOF
  <1> DEFINE id == given[n] + 1
             lan == Route[n][a]
             e == cache[n][a]
  <1>1. id \in Nat /\ lan \in Lan /\ <<n, lan>> \in Interface
    BY RouteAssumption, FlowAssumption DEF TimersInv, TypeOK
  <1>2. given' \in [Node -> Nat] /\ dropped' = dropped
    BY <1>1 DEF processOutboundPacket, TimersInv, TypeOK
  <1>3. <<id>> \in Seq(Nat)
    BY <1>1
  <1>4. ASSUME NEW mac \in Interface \cup {Broadcast},
               out' = [out EXCEPT ![n] = @ \o SentTo(<<id>>, a, lan, mac)],
               UNCHANGED <<cache, timer, net>>
        PROVE  TimersInv'
    <2>1. out[n] \in Seq(Packet) /\ SentTo(<<id>>, a, lan, mac) \in Seq(Packet)
      BY <1>1, <1>3, SentToType DEF TimersInv, TypeOK
    <2>2. out' \in [Node -> Seq(Packet)]
      BY <1>4, <2>1 DEF TimersInv, TypeOK
    <2> QED BY <1>2, <1>4, <2>2 DEF TimersInv, TypeOK, TimerIffPending, PendingOnInterface
  <1>5. CASE a = Multicast /\ out' = [out EXCEPT ![n] = @ \o SentTo(<<id>>, a, lan, Broadcast)]
             /\ UNCHANGED <<cache, timer, net>>
    BY <1>4, <1>5
  <1>6. CASE a # Multicast /\ e.state = "none" /\ initiateARPResolution(n, a, lan, <<id>>)
             /\ UNCHANGED out
    BY <1>1, <1>2, <1>3, <1>6, InitiateTimers
  <1>7. CASE a # Multicast /\ e.state = "pending"
             /\ cache' = [cache EXCEPT ![n][a].queue = Append(@, id)] /\ UNCHANGED <<out, timer, net>>
    <2> DEFINE q == Append(e.queue, id)
               f == [e EXCEPT !.queue = q]
    <2>1. e \in Entry
      BY <1>7, EntryFields DEF TimersInv
    <2>2. f \in Entry /\ f.state = "pending" /\ f.lan = e.lan
      <3>1. q \in Seq(Nat) /\ e.state = "pending"
        BY <1>1, <1>7, <2>1 DEF Entry
      <3> HIDE DEF q, e
      <3> QED BY <2>1, <3>1, EntryAssigned
    <2>3. cache' = [cache EXCEPT ![n][a] = f]
      BY <1>7 DEF TimersInv, TypeOK
    <2>4. timer' = [timer EXCEPT ![n][a] = 1]
      <3>1. timer[n][a] = 1
        BY <1>7 DEF TimersInv, TimerIffPending
      <3> QED BY <3>1, <1>7, SameTimer DEF TimersInv, TypeOK
    <2>5. <<n, f.lan>> \in Interface
      BY <1>7, <2>2 DEF TimersInv, PendingOnInterface
    <2>6. out' \in [Node -> Seq(Packet)] /\ dropped' \in [Node -> SUBSET Nat] /\ net' \subseteq ArpPacket
      BY <1>2, <1>7 DEF TimersInv, TypeOK
    <2>7. a \in Interface
      BY <1>7
    <2> HIDE DEF f, e, id, lan
    <2> QED BY <1>2, <2>2, <2>3, <2>4, <2>5, <2>6, <2>7, OneEntryChanged
  <1>8. CASE a # Multicast /\ e.state = "resolved" /\ ~e.fresh
             /\ initiateARPResolution(n, a, lan, Append(e.queue, id)) /\ UNCHANGED out
    <2>1. Append(e.queue, id) \in Seq(Nat)
      BY <1>1, <1>8, EntryFields DEF TimersInv, Entry
    <2>2. a \in Interface /\ cache[n][a].state # "pending"
      BY <1>8
    <2>3. initiateARPResolution(n, a, lan, Append(e.queue, id)) /\ UNCHANGED <<out, dropped>>
      BY <1>2, <1>8
    <2> HIDE DEF lan, e, id
    <2> QED BY <1>1, <1>2, <2>1, <2>2, <2>3, InitiateTimers
  <1>9. CASE a # Multicast /\ e.state = "resolved" /\ e.fresh
             /\ out' = [out EXCEPT ![n] = @ \o SentTo(<<id>>, a, lan, e.mac)]
             /\ UNCHANGED <<cache, timer, net>>
    <2>1. e.mac \in Interface \cup {Broadcast}
      BY <1>9, EntryFields DEF TimersInv, Entry
    <2> QED BY <2>1, <1>4, <1>9
  <1> HIDE DEF id, lan, e
  <1> QED BY <1>5, <1>6, <1>7, <1>8, <1>9 DEF processOutboundPacket, id, lan, e

LEMMA TimedOutTimers ==
  ASSUME TimersInv, NEW n \in Node, NEW a \in Interface, requestTimedOut(n, a)
  PROVE  TimersInv'
PROOF
  <1> DEFINE e == cache[n][a]
  <1>1. e.state = "pending" /\ timer[n][a] = 1 /\ e \in Entry /\ <<n, e.lan>> \in Interface
    <2>1. timer[n][a] > 0
      BY DEF requestTimedOut
    <2>2. timer[n][a] = IF e.state = "pending" THEN 1 ELSE 0
      BY DEF TimersInv, TimerIffPending
    <2>3. e.state = "pending" /\ timer[n][a] = 1
      BY <2>1, <2>2
    <2> QED BY <2>3, EntryFields DEF TimersInv, PendingOnInterface
  <1>2. given' = given /\ out' = out
    BY DEF requestTimedOut
  <1>3. CASE /\ cache' = [cache EXCEPT ![n][a].numRetries = @ + 1]
             /\ net' = net \cup {Request(n, e.lan, a)}
             /\ UNCHANGED <<timer, dropped>>
    <2> DEFINE k == e.numRetries + 1
               f == [e EXCEPT !.numRetries = k]
    <2>1. f \in Entry /\ f.state = "pending" /\ f.lan = e.lan
      <3>1. k \in Nat
        BY <1>1 DEF Entry
      <3> HIDE DEF k, e
      <3> QED BY <1>1, <3>1, EntryAssigned
    <2>2. cache' = [cache EXCEPT ![n][a] = f]
      BY <1>3 DEF TimersInv, TypeOK
    <2>3. timer' = [timer EXCEPT ![n][a] = 1]
      BY <1>1, <1>3, SameTimer DEF TimersInv, TypeOK
    <2>4. Request(n, e.lan, a) \in ArpPacket
      BY <1>1 DEF Request, ArpPacket, Entry
    <2>5. /\ given' \in [Node -> Nat] /\ out' \in [Node -> Seq(Packet)]
          /\ dropped' \in [Node -> SUBSET Nat] /\ net' \subseteq ArpPacket
      BY <1>2, <1>3, <2>4 DEF TimersInv, TypeOK
    <2> HIDE DEF f, e
    <2> QED BY <1>1, <2>1, <2>2, <2>3, <2>5, OneEntryChanged
  <1>4. CASE /\ dropped' = [dropped EXCEPT ![n] = @ \cup Range(e.queue)]
             /\ cache' = [cache EXCEPT ![n][a] = NoEntry]
             /\ timer' = [timer EXCEPT ![n][a] = @ - 1]
             /\ UNCHANGED net
    <2>1. Range(e.queue) \subseteq Nat
      BY <1>1 DEF Entry, Range
    <2>2. timer' = [timer EXCEPT ![n][a] = 0]
      <3>1. timer' = [timer EXCEPT ![n][a] = timer[n][a] - 1]
        BY <1>4 DEF TimersInv, TypeOK
      <3> QED BY <1>1, <3>1
    <2>3. /\ given' \in [Node -> Nat] /\ out' \in [Node -> Seq(Packet)]
          /\ dropped' \in [Node -> SUBSET Nat] /\ net' \subseteq ArpPacket
      BY <1>2, <1>4, <2>1 DEF TimersInv, TypeOK
    <2>4. NoEntry.state # "pending" /\ NoEntry \in Entry \cup {NoEntry}
      BY DEF NoEntry
    <2> HIDE DEF e
    <2> QED BY <1>4, <2>2, <2>3, <2>4, OneEntryChanged
  <1> HIDE DEF e
  <1> QED BY <1>3, <1>4 DEF requestTimedOut, e

LEMMA ExpireTimers ==
  ASSUME TimersInv, NEW n \in Node, NEW a \in Interface, Expire(n, a)
  PROVE  TimersInv'
PROOF
  <1> DEFINE e == cache[n][a]
             f == [e EXCEPT !.fresh = FALSE]
  <1>1. e.state = "resolved" /\ e \in Entry
    BY EntryFields DEF Expire, TimersInv
  <1>2. f \in Entry /\ f.state = "resolved"
    <2> HIDE DEF e
    <2> QED BY <1>1, EntryAssigned
  <1>3. cache' = [cache EXCEPT ![n][a] = f]
    BY DEF Expire, TimersInv, TypeOK
  <1>4. timer' = [timer EXCEPT ![n][a] = 0]
    <2>1. timer[n][a] = 0
      BY <1>1 DEF TimersInv, TimerIffPending
    <2> QED BY <2>1, SameTimer DEF Expire, TimersInv, TypeOK
  <1>5. /\ given' \in [Node -> Nat] /\ out' \in [Node -> Seq(Packet)]
        /\ dropped' \in [Node -> SUBSET Nat] /\ net' \subseteq ArpPacket
    BY DEF Expire, TimersInv, TypeOK
  <1> HIDE DEF e, f
  <1> QED BY <1>2, <1>3, <1>4, <1>5, OneEntryChanged

LEMMA ArpPacketTimers ==
  ASSUME TimersInv, NEW n \in Node, NEW m \in net, processARPPacket(n, m)
  PROVE  TimersInv'
PROOF
  <1> DEFINE a == m.srcIP
             e == cache[n][a]
             reply == [op |-> "reply", lan |-> m.lan, srcMac |-> <<n, m.lan>>,
                       srcIP |-> m.dstIP, dstIP |-> a]
  <1>1. /\ m \in ArpPacket /\ a \in Interface /\ m.srcMac \in Interface /\ m.lan \in Lan
        /\ m.dstIP \in Interface /\ <<n, m.lan>> \in Interface
    BY DEF TimersInv, TypeOK, ArpPacket, processARPPacket, Receives
  <1>2. net' \subseteq ArpPacket
    <2>1. reply \in ArpPacket
      BY <1>1 DEF ArpPacket
    <2>2. net' \subseteq net \cup {reply}
      BY DEF processARPPacket
    <2> QED BY <2>1, <2>2 DEF TimersInv, TypeOK
  <1>3. given' \in [Node -> Nat] /\ dropped' \in [Node -> SUBSET Nat]
    BY DEF processARPPacket, TimersInv, TypeOK
  <1>4. CASE /\ e.state # "none"
             /\ cache' = [cache EXCEPT ![n][a] = Updated(@, m.srcMac)]
             /\ timer' = TimerAfter(n, a)
             /\ out' = [out EXCEPT ![n] = Flushed(n, a, m.srcMac)]
    <2>1. e \in Entry
      BY <1>1, <1>4, EntryFields DEF TimersInv
    <2>2. Updated(e, m.srcMac) \in Entry /\ Updated(e, m.srcMac).state = "resolved"
      BY <1>1, <2>1, EntryAssigned
    <2>3. cache' = [cache EXCEPT ![n][a] = Updated(e, m.srcMac)]
      BY <1>1, <1>4 DEF TimersInv, TypeOK
    <2>4. timer' = [timer EXCEPT ![n][a] = 0]
      <3>1. timer[n][a] = IF e.state = "pending" THEN 1 ELSE 0
        BY <1>1 DEF TimersInv, TimerIffPending
      <3>2. timer \in [Node -> [Interface -> Nat]]
        BY DEF TimersInv, TypeOK
      <3>3. CASE e.state = "pending"
        BY <3>3, <1>4 DEF TimerAfter
      <3>4. CASE e.state # "pending"
        BY <3>1, <3>2, <3>4, <1>1, <1>4, SameTimer DEF TimerAfter
      <3> QED BY <3>3, <3>4
    <2>5. out' \in [Node -> Seq(Packet)]
      <3>1. e.queue \in Seq(Nat) /\ e.lan \in Lan
        BY <2>1 DEF Entry
      <3>2. out[n] \in Seq(Packet)
        BY DEF TimersInv, TypeOK
      <3>3. SentTo(e.queue, a, e.lan, m.srcMac) \in Seq(Packet)
        BY <1>1, <3>1, SentToType
      <3>4. Flushed(n, a, m.srcMac) \in Seq(Packet)
        BY <3>2, <3>3, ConcatProperties DEF Flushed
      <3> QED BY <1>4, <3>4 DEF TimersInv, TypeOK
    <2> HIDE DEF e, a
    <2> QED BY <1>1, <1>2, <1>3, <2>2, <2>3, <2>4, <2>5, OneEntryChanged
  <1>5. CASE /\ e.state = "none"
             /\ cache' = [cache EXCEPT ![n][a] = NewEntry(m.lan, m.srcMac)]
             /\ UNCHANGED <<timer, out>>
    <2>1. NewEntry(m.lan, m.srcMac) \in Entry /\ NewEntry(m.lan, m.srcMac).state = "resolved"
      BY <1>1 DEF NewEntry, Entry
    <2>2. timer' = [timer EXCEPT ![n][a] = 0]
      <3>1. timer[n][a] = 0
        BY <1>1, <1>5 DEF TimersInv, TimerIffPending
      <3> QED BY <1>1, <1>5, <3>1, SameTimer DEF TimersInv, TypeOK
    <2>3. out' \in [Node -> Seq(Packet)]
      BY <1>5 DEF TimersInv, TypeOK
    <2> HIDE DEF e, a
    <2> QED BY <1>1, <1>2, <1>3, <1>5, <2>1, <2>2, <2>3, OneEntryChanged
  <1>6. CASE UNCHANGED <<cache, timer, out>>
    BY <1>2, <1>3, <1>6 DEF TimersInv, TypeOK, TimerIffPending, PendingOnInterface
  <1> HIDE DEF a, e
  <1> QED BY <1>4, <1>5, <1>6 DEF processARPPacket, a, e

LEMMA TimersStep == TimersInv /\ [Next]_vars => TimersInv'
PROOF
  <1> SUFFICES ASSUME TimersInv, [Next]_vars PROVE TimersInv'
    OBVIOUS
  <1>1. CASE UNCHANGED vars
    BY <1>1 DEF vars, TimersInv, TypeOK, TimerIffPending, PendingOnInterface
  <1>2. CASE Next
    BY <1>2, OutboundTimers, TimedOutTimers, ExpireTimers, ArpPacketTimers DEF Next
  <1> QED BY <1>1, <1>2

LEMMA TimersInit == Init => TimersInv
PROOF
  <1> SUFFICES ASSUME Init PROVE TimersInv
    OBVIOUS
  <1>1. TypeOK
    BY DEF Init, TypeOK
  <1> QED BY <1>1 DEF Init, TimersInv, TimerIffPending, PendingOnInterface, NoEntry

LEMMA TimersInvariant == Spec => []TimersInv
PROOF BY TimersInit, TimersStep, PTL DEF Spec

(* The caches, queues and packets keep their types: no handler of ARP.cc   *)
(* works on an entry that was deleted.                                     *)
THEOREM TypeCorrect == Spec => []TypeOK
PROOF BY TimersInvariant, PTL DEF TimersInv

(* Whatever the order of timeouts, replies and crossing requests, an entry *)
(* has one timeout scheduled while its resolution is pending and none      *)
(* otherwise.                                                              *)
THEOREM TimersMatchEntries == Spec => []TimerIffPending
PROOF BY TimersInvariant, PTL DEF TimersInv

-----------------------------------------------------------------------------
(* Who may answer for an address on a network: what the property says of   *)
(* the packets sent, said of ARP packets and of cache entries.             *)
Answers(a, lan, mac) ==
    /\ mac \in Interface /\ mac[2] = lan
    /\ mac[1] = a[1] \/ (mac[1] \in Proxy /\ Route[mac[1]][a] # lan)

(* A request names its sender's interface and leaves on the route to the   *)
(* address asked for; a reply comes back on that network.                  *)
ArpPacketsTrue ==
    \A m \in net :
        /\ Answers(m.srcIP, m.lan, m.srcMac)
        /\ m.op = "request" => m.srcIP = m.srcMac /\ Route[m.srcMac[1]][m.dstIP] = m.lan
        /\ m.op = "reply" => Route[m.dstIP[1]][m.srcIP] = m.lan

(* An entry belongs to the network of the route to its address, and a      *)
(* resolved one holds who answers there.                                   *)
EntryTrue(n, a, e) ==
    /\ e.state # "none" => e.lan = Route[n][a]
    /\ e.state = "resolved" => Answers(a, e.lan, e.mac)

EntriesTrue == \A n \in Node, a \in Interface : EntryTrue(n, a, cache[n][a])

HeardInv == TimersInv /\ ArpPacketsTrue /\ EntriesTrue /\ SentWhereHeard

(* Packets sent to who answers keep SentWhereHeard. *)
LEMMA SentHeard ==
  ASSUME TypeOK, SentWhereHeard, NEW n \in Node, NEW a \in Interface \cup {Multicast},
         NEW ids \in Seq(Nat), NEW lan \in Lan, NEW mac \in Interface \cup {Broadcast},
         a # Multicast => Answers(a, lan, mac),
         out' = [out EXCEPT ![n] = @ \o SentTo(ids, a, lan, mac)]
  PROVE  SentWhereHeard'
PROOF
  <1>0. PICK t : t = out[n] \o SentTo(ids, a, lan, mac)
    OBVIOUS
  <1>1. out[n] \in Seq(Packet) /\ DOMAIN out[n] = 1 .. Len(out[n])
    BY DEF TypeOK
  <1>2. Extends(t, out[n], ids, a, lan, mac)
    BY <1>1, <1>0, Concatenated
  <1>3. out'[n] = t /\ \A x \in Node : x # n => out'[x] = out[x]
    BY <1>0 DEF TypeOK
  <1>4. ASSUME NEW x \in Node, NEW k \in DOMAIN out'[x], out'[x][k].to # Multicast
        PROVE  Answers(out'[x][k].to, out'[x][k].lan, out'[x][k].mac)
    <2>1. CASE x # n
      <3>1. out'[x] = out[x]
        BY <1>3, <2>1
      <3> QED BY <1>4, <3>1 DEF SentWhereHeard, Answers
    <2>2. CASE x = n
      <3>1. out'[x] = t /\ k \in 1 .. Len(t)
        BY <1>2, <1>3, <2>2, <1>4 DEF Extends
      <3>2. CASE k \in 1 .. Len(out[n])
        <4>1. t[k] = out[n][k] /\ k \in DOMAIN out[n]
          BY <1>1, <1>2, <3>2 DEF Extends
        <4> QED BY <1>4, <3>1, <4>1 DEF SentWhereHeard, Answers
      <3>3. CASE k \notin 1 .. Len(out[n])
        <4>1. out'[x][k].to = a /\ out'[x][k].lan = lan /\ out'[x][k].mac = mac
          BY <1>2, <3>1, <3>3 DEF Extends
        <4> QED BY <1>4, <4>1
      <3> QED BY <3>2, <3>3
    <2> QED BY <2>1, <2>2
  <1> QED BY <1>4 DEF SentWhereHeard, Answers

(* A step that changes one entry to a true one keeps all entries true. *)
LEMMA OneEntryTrue ==
  ASSUME TypeOK, EntriesTrue, NEW n \in Node, NEW a \in Interface,
         NEW e \in Entry \cup {NoEntry}, EntryTrue(n, a, e),
         cache' = [cache EXCEPT ![n][a] = e]
  PROVE  EntriesTrue'
PROOF
  <1>1. /\ cache'[n][a] = e
        /\ \A x \in Node, b \in Interface : (x # n \/ b # a) => cache'[x][b] = cache[x][b]
    BY CacheUpdate DEF TypeOK
  <1>2. ASSUME NEW x \in Node, NEW b \in Interface PROVE EntryTrue(x, b, cache'[x][b])
    <2>1. CASE x = n /\ b = a
      BY <2>1, <1>1
    <2>2. CASE x # n \/ b # a
      <3>1. cache'[x][b] = cache[x][b]
        BY <2>2, <1>1
      <3> QED BY <3>1 DEF EntriesTrue
    <2> QED BY <2>1, <2>2
  <1> QED BY <1>2 DEF EntriesTrue, EntryTrue, Answers

(* A request keeps the ARP packets true. *)
LEMMA RequestTrue ==
  ASSUME ArpPacketsTrue, NEW n \in Node, NEW a \in Interface, NEW lan \in Lan,
         <<n, lan>> \in Interface, lan = Route[n][a],
         net' = net \cup {Request(n, lan, a)}
  PROVE  ArpPacketsTrue'
PROOF
  <1> DEFINE r == Request(n, lan, a)
  <1>1. /\ r.op = "request" /\ r.srcIP = <<n, lan>> /\ r.srcMac = <<n, lan>>
        /\ r.lan = lan /\ r.dstIP = a
    BY DEF Request
  <1>2. Answers(r.srcIP, r.lan, r.srcMac)
    BY <1>1 DEF Answers
  <1>3. Route[r.srcMac[1]][r.dstIP] = r.lan
    BY <1>1
  <1> HIDE DEF r
  <1>4. ASSUME NEW m \in net'
        PROVE  /\ Answers(m.srcIP, m.lan, m.srcMac)
               /\ m.op = "request" => m.srcIP = m.srcMac /\ Route[m.srcMac[1]][m.dstIP] = m.lan
               /\ m.op = "reply" => Route[m.dstIP[1]][m.srcIP] = m.lan
    <2>1. CASE m \in net
      BY <2>1 DEF ArpPacketsTrue
    <2>2. CASE m = r
      BY <2>2, <1>1, <1>2, <1>3
    <2> QED BY <2>1, <2>2 DEF r
  <1> QED BY <1>4 DEF ArpPacketsTrue, Answers

LEMMA InitiateHeard ==
  ASSUME HeardInv, NEW n \in Node, NEW a \in Interface, NEW queue \in Seq(Nat),
         Route[n][a] \in Lan, <<n, Route[n][a]>> \in Interface,
         initiateARPResolution(n, a, Route[n][a], queue), UNCHANGED out
  PROVE  ArpPacketsTrue' /\ EntriesTrue' /\ SentWhereHeard'
PROOF
  <1> DEFINE e == [state |-> "pending", lan |-> Route[n][a], fresh |-> FALSE, numRetries |-> 0,
                   queue |-> queue,
                   mac |-> IF cache[n][a].state = "none" THEN Broadcast ELSE cache[n][a].mac]
  <1>1. e \in Entry
    BY EntryFields DEF HeardInv, TimersInv, Entry
  <1>2. cache' = [cache EXCEPT ![n][a] = e]
    BY DEF initiateARPResolution, HeardInv, TimersInv, TypeOK
  <1>3. EntryTrue(n, a, e)
    BY DEF EntryTrue
  <1>4. EntriesTrue'
    <2> HIDE DEF e
    <2> QED BY <1>1, <1>2, <1>3, OneEntryTrue DEF HeardInv, TimersInv
  <1>5. ArpPacketsTrue'
    BY RequestTrue DEF initiateARPResolution, HeardInv
  <1>6. SentWhereHeard'
    BY DEF HeardInv, SentWhereHeard
  <1> QED BY <1>4, <1>5, <1>6

LEMMA OutboundHeard ==
  ASSUME HeardInv, NEW n \in Node, NEW a \in Interface \cup {Multicast}, <<n, a>> \in Flow,
         processOutboundPacket(n, a)
  PROVE  ArpPacketsTrue' /\ EntriesTrue' /\ SentWhereHeard'
PROOF
  <1> DEFINE id == given[n] + 1
             lan == Route[n][a]
             e == cache[n][a]
  <1>1. id \in Nat /\ lan \in Lan /\ <<n, lan>> \in Interface /\ <<id>> \in Seq(Nat) /\ TypeOK
    BY RouteAssumption, FlowAssumption DEF HeardInv, TimersInv, TypeOK
  <1>2. ASSUME NEW mac \in Interface \cup {Broadcast}, a # Multicast => Answers(a, lan, mac),
               out' = [out EXCEPT ![n] = @ \o SentTo(<<id>>, a, lan, mac)],
               UNCHANGED <<cache, timer, net>>
        PROVE  ArpPacketsTrue' /\ EntriesTrue' /\ SentWhereHeard'
    <2>1. SentWhereHeard'
      <3> HIDE DEF id, lan
      <3> QED BY <1>1, <1>2, SentHeard DEF HeardInv
    <2> QED BY <1>2, <2>1 DEF HeardInv, ArpPacketsTrue, EntriesTrue
  <1>3. CASE a = Multicast /\ out' = [out EXCEPT ![n] = @ \o SentTo(<<id>>, a, lan, Broadcast)]
             /\ UNCHANGED <<cache, timer, net>>
    BY <1>2, <1>3
  <1>4. CASE a # Multicast /\ e.state = "none" /\ initiateARPResolution(n, a, lan, <<id>>)
             /\ UNCHANGED out
    BY <1>1, <1>4, InitiateHeard
  <1>5. CASE a # Multicast /\ e.state = "pending"
             /\ cache' = [cache EXCEPT ![n][a].queue = Append(@, id)] /\ UNCHANGED <<out, timer, net>>
    <2> DEFINE q == Append(e.queue, id)
               f == [e EXCEPT !.queue = q]
    <2>1. e \in Entry /\ a \in Interface
      BY <1>1, <1>5, EntryFields
    <2>2. f \in Entry /\ f.state = "pending" /\ f.lan = e.lan
      <3>1. q \in Seq(Nat) /\ e.state = "pending"
        BY <1>1, <1>5, <2>1 DEF Entry
      <3> HIDE DEF q, e
      <3> QED BY <2>1, <3>1, EntryAssigned
    <2>3. cache' = [cache EXCEPT ![n][a] = f]
      BY <1>5 DEF HeardInv, TimersInv, TypeOK
    <2>4. EntryTrue(n, a, f)
      BY <1>5, <2>1, <2>2 DEF HeardInv, EntriesTrue, EntryTrue
    <2>5. EntriesTrue'
      <3> HIDE DEF f, e
      <3> QED BY <1>1, <2>1, <2>2, <2>3, <2>4, OneEntryTrue DEF HeardInv
    <2> QED BY <1>5, <2>5 DEF HeardInv, ArpPacketsTrue, SentWhereHeard
  <1>6. CASE a # Multicast /\ e.state = "resolved" /\ ~e.fresh
             /\ initiateARPResolution(n, a, lan, Append(e.queue, id)) /\ UNCHANGED out
    <2>1. Append(e.queue, id) \in Seq(Nat) /\ a \in Interface
      BY <1>1, <1>6, EntryFields DEF Entry
    <2>2. initiateARPResolution(n, a, Route[n][a], Append(e.queue, id)) /\ UNCHANGED out
      BY <1>6
    <2> HIDE DEF e, id
    <2> QED BY <1>1, <2>1, <2>2, InitiateHeard
  <1>7. CASE a # Multicast /\ e.state = "resolved" /\ e.fresh
             /\ out' = [out EXCEPT ![n] = @ \o SentTo(<<id>>, a, lan, e.mac)]
             /\ UNCHANGED <<cache, timer, net>>
    <2>1. e.mac \in Interface \cup {Broadcast} /\ a \in Interface
      BY <1>1, <1>7, EntryFields DEF Entry
    <2>2. Answers(a, lan, e.mac)
      BY <1>7, <2>1 DEF HeardInv, EntriesTrue, EntryTrue
    <2> QED BY <1>2, <1>7, <2>1, <2>2
  <1> HIDE DEF id, lan, e
  <1> QED BY <1>3, <1>4, <1>5, <1>6, <1>7 DEF processOutboundPacket, id, lan, e

LEMMA TimedOutHeard ==
  ASSUME HeardInv, NEW n \in Node, NEW a \in Interface, requestTimedOut(n, a)
  PROVE  ArpPacketsTrue' /\ EntriesTrue' /\ SentWhereHeard'
PROOF
  <1> DEFINE e == cache[n][a]
  <1>1. /\ e.state = "pending" /\ e \in Entry /\ <<n, e.lan>> \in Interface
        /\ e.lan = Route[n][a] /\ TypeOK
    <2>1. timer[n][a] > 0 /\ timer[n][a] = IF e.state = "pending" THEN 1 ELSE 0
      BY DEF requestTimedOut, HeardInv, TimersInv, TimerIffPending
    <2>2. e.state = "pending"
      BY <2>1
    <2> QED BY <2>2, EntryFields
         DEF HeardInv, TimersInv, PendingOnInterface, EntriesTrue, EntryTrue
  <1>2. SentWhereHeard'
    BY DEF requestTimedOut, HeardInv, SentWhereHeard
  <1>3. CASE /\ cache' = [cache EXCEPT ![n][a].numRetries = @ + 1]
             /\ net' = net \cup {Request(n, e.lan, a)}
    <2> DEFINE k == e.numRetries + 1
               f == [e EXCEPT !.numRetries = k]
    <2>1. f \in Entry /\ f.state = "pending" /\ f.lan = e.lan
      <3>1. k \in Nat
        BY <1>1 DEF Entry
      <3> HIDE DEF k, e
      <3> QED BY <1>1, <3>1, EntryAssigned
    <2>2. cache' = [cache EXCEPT ![n][a] = f]
      BY <1>3 DEF HeardInv, TimersInv, TypeOK
    <2>3. EntryTrue(n, a, f)
      BY <1>1, <2>1 DEF EntryTrue
    <2>4. EntriesTrue'
      <3> HIDE DEF f, e
      <3> QED BY <1>1, <2>1, <2>2, <2>3, OneEntryTrue DEF HeardInv
    <2>5. e.lan \in Lan
      BY <1>1 DEF Entry
    <2>6. ArpPacketsTrue'
      <3> HIDE DEF e
      <3> QED BY <1>1, <1>3, <2>5, RequestTrue DEF HeardInv
    <2> QED BY <1>2, <2>4, <2>6
  <1>4. CASE cache' = [cache EXCEPT ![n][a] = NoEntry] /\ UNCHANGED net
    <2>1. EntryTrue(n, a, NoEntry)
      BY DEF EntryTrue, NoEntry
    <2>2. EntriesTrue'
      BY <1>1, <1>4, <2>1, OneEntryTrue DEF HeardInv
    <2> QED BY <1>2, <1>4, <2>2 DEF HeardInv, ArpPacketsTrue
  <1> HIDE DEF e
  <1> QED BY <1>3, <1>4 DEF requestTimedOut, e

LEMMA ExpireHeard ==
  ASSUME HeardInv, NEW n \in Node, NEW a \in Interface, Expire(n, a)
  PROVE  ArpPacketsTrue' /\ EntriesTrue' /\ SentWhereHeard'
PROOF
  <1> DEFINE e == cache[n][a]
             f == [e EXCEPT !.fresh = FALSE]
  <1>1. e.state = "resolved" /\ e \in Entry
    BY EntryFields DEF Expire, HeardInv, TimersInv
  <1>2. f \in Entry /\ f.state = e.state /\ f.lan = e.lan /\ f.mac = e.mac
    <2> HIDE DEF e
    <2> QED BY <1>1, EntryAssigned
  <1>3. cache' = [cache EXCEPT ![n][a] = f]
    BY DEF Expire, HeardInv, TimersInv, TypeOK
  <1>4. EntryTrue(n, a, f)
    BY <1>2 DEF HeardInv, EntriesTrue, EntryTrue
  <1>5. EntriesTrue'
    <2> HIDE DEF f, e
    <2> QED BY <1>2, <1>3, <1>4, OneEntryTrue DEF HeardInv, TimersInv
  <1> QED BY <1>5 DEF Expire, HeardInv, ArpPacketsTrue, SentWhereHeard

LEMMA ArpPacketHeard ==
  ASSUME HeardInv, NEW n \in Node, NEW m \in net, processARPPacket(n, m)
  PROVE  ArpPacketsTrue' /\ EntriesTrue' /\ SentWhereHeard'
PROOF
  <1> DEFINE a == m.srcIP
             e == cache[n][a]
             reply == [op |-> "reply", lan |-> m.lan, srcMac |-> <<n, m.lan>>,
                       srcIP |-> m.dstIP, dstIP |-> a]
  <1>1. /\ m.op \in {"request", "reply"} /\ a \in Interface /\ m.srcMac \in Interface
        /\ m.lan \in Lan /\ m.dstIP \in Interface /\ <<n, m.lan>> \in Interface /\ TypeOK
        /\ (m.op = "reply" => m.dstIP = <<n, m.lan>>)
    BY DEF HeardInv, TimersInv, TypeOK, ArpPacket, processARPPacket, Receives
  <1>2. Answers(a, m.lan, m.srcMac)
    BY DEF HeardInv, ArpPacketsTrue
  <1>3. Route[n][a] = m.lan
    <2>1. CASE m.op = "request"
      <3>1. a = m.srcMac /\ a[2] = m.lan
        BY <1>2, <2>1 DEF HeardInv, ArpPacketsTrue, Answers
      <3> QED BY <1>1, <3>1, DirectRouteAssumption
    <2>2. CASE m.op = "reply"
      <3>1. m.dstIP[1] = n
        BY <1>1, <2>2
      <3> QED BY <2>2, <3>1 DEF HeardInv, ArpPacketsTrue
    <2> QED BY <1>1, <2>1, <2>2
  <1>4. ArpPacketsTrue'
    <2>1. CASE net' = net
      BY <2>1 DEF HeardInv, ArpPacketsTrue
    <2>2. CASE addressRecognized(n, m.dstIP, m.lan) /\ m.op = "request" /\ net' = net \cup {reply}
      <3>1. /\ reply.op = "reply" /\ reply.lan = m.lan /\ reply.srcMac = <<n, m.lan>>
            /\ reply.srcIP = m.dstIP /\ reply.dstIP = a
        OBVIOUS
      <3>2. Answers(m.dstIP, m.lan, <<n, m.lan>>)
        BY <1>1, <2>2 DEF Answers, addressRecognized
      <3>3. Route[a[1]][m.dstIP] = m.lan
        BY <2>2 DEF HeardInv, ArpPacketsTrue
      <3> HIDE DEF reply
      <3>4. ASSUME NEW p \in net'
            PROVE  /\ Answers(p.srcIP, p.lan, p.srcMac)
                   /\ p.op = "request" => p.srcIP = p.srcMac /\ Route[p.srcMac[1]][p.dstIP] = p.lan
                   /\ p.op = "reply" => Route[p.dstIP[1]][p.srcIP] = p.lan
        <4>1. CASE p \in net
          BY <4>1 DEF HeardInv, ArpPacketsTrue
        <4>2. CASE p = reply
          BY <4>2, <3>1, <3>2, <3>3
        <4> QED BY <2>2, <4>1, <4>2
      <3> QED BY <3>4 DEF ArpPacketsTrue, Answers
    <2> QED BY <2>1, <2>2 DEF processARPPacket
  <1>5. CASE /\ e.state # "none"
             /\ cache' = [cache EXCEPT ![n][a] = Updated(@, m.srcMac)]
             /\ out' = [out EXCEPT ![n] = Flushed(n, a, m.srcMac)]
    <2>1. e \in Entry
      BY <1>1, <1>5, EntryFields
    <2>2. e.lan = m.lan /\ e.lan \in Lan /\ e.queue \in Seq(Nat)
      BY <1>1, <1>3, <1>5, <2>1 DEF HeardInv, EntriesTrue, EntryTrue, Entry
    <2> DEFINE f == Updated(e, m.srcMac)
    <2>3. f \in Entry /\ f.state = "resolved" /\ f.lan = e.lan /\ f.mac = m.srcMac
      BY <1>1, <2>1, EntryAssigned
    <2>4. cache' = [cache EXCEPT ![n][a] = f]
      BY <1>1, <1>5 DEF TypeOK
    <2>5. EntryTrue(n, a, f)
      <3> HIDE DEF f
      <3> QED BY <1>2, <1>3, <2>2, <2>3 DEF EntryTrue
    <2>6. EntriesTrue'
      <3> HIDE DEF f, e, a
      <3> QED BY <1>1, <2>3, <2>4, <2>5, OneEntryTrue DEF HeardInv
    <2>7. out' = [out EXCEPT ![n] = @ \o SentTo(e.queue, a, e.lan, m.srcMac)]
      BY <1>5 DEF Flushed
    <2>8. SentWhereHeard'
      <3> HIDE DEF e, a
      <3> QED BY <1>1, <1>2, <2>2, <2>7, SentHeard DEF HeardInv
    <2> QED BY <1>4, <2>6, <2>8
  <1>6. CASE /\ cache' = [cache EXCEPT ![n][a] = NewEntry(m.lan, m.srcMac)]
             /\ UNCHANGED out
    <2> DEFINE f == NewEntry(m.lan, m.srcMac)
    <2>1. f \in Entry /\ f.state = "resolved" /\ f.lan = m.lan /\ f.mac = m.srcMac
      BY <1>1 DEF NewEntry, Entry
    <2> HIDE DEF f
    <2>2. EntryTrue(n, a, f)
      BY <1>2, <1>3, <2>1 DEF EntryTrue
    <2>3. EntriesTrue'
      <3> HIDE DEF a
      <3> QED BY <1>1, <1>6, <2>1, <2>2, OneEntryTrue DEF HeardInv, f
    <2> QED BY <1>4, <1>6, <2>3 DEF HeardInv, SentWhereHeard
  <1>7. CASE UNCHANGED <<cache, timer, out>>
    BY <1>4, <1>7 DEF HeardInv, EntriesTrue, SentWhereHeard
  <1> HIDE DEF a, e
  <1> QED BY <1>5, <1>6, <1>7 DEF processARPPacket, a, e

LEMMA HeardInvariant == Spec => []HeardInv
PROOF
  <1>1. Init => HeardInv
    BY TimersInit DEF Init, HeardInv, ArpPacketsTrue, EntriesTrue, EntryTrue, NoEntry, SentWhereHeard
  <1>2. HeardInv /\ [Next]_vars => HeardInv'
    <2> SUFFICES ASSUME HeardInv, [Next]_vars PROVE HeardInv'
      OBVIOUS
    <2>1. TimersInv'
      BY TimersStep DEF HeardInv
    <2>2. CASE UNCHANGED vars
      BY <2>1, <2>2 DEF vars, HeardInv, ArpPacketsTrue, EntriesTrue, SentWhereHeard
    <2>3. CASE Next
      BY <2>1, <2>3, OutboundHeard, TimedOutHeard, ExpireHeard, ArpPacketHeard DEF Next, HeardInv
    <2> QED BY <2>2, <2>3
  <1> QED BY <1>1, <1>2, PTL DEF Spec

(* A packet leaves ARP only for an interface on the network it leaves      *)
(* through, that of the node with the address or of a proxy for it, for    *)
(* any number of networks, multihomed nodes and proxies.                   *)
THEOREM PacketsSentWhereHeard == Spec => []SentWhereHeard
PROOF BY HeardInvariant, PTL DEF HeardInv

-----------------------------------------------------------------------------
(* The packets of one node: the queues Q of its entries, the packets o it  *)
(* sent, the ids d it dropped and the number g handed over.  The parts are *)
(* named so that a step can show each one by itself.                       *)
QueueIds(Q, d, g) == \A a \in Interface : \A i \in 1 .. Len(Q[a]) : Q[a][i] \in 1 .. g \ d

QueuesApart(Q) ==
    \A a, b \in Interface : \A i \in 1 .. Len(Q[a]), j \in 1 .. Len(Q[b]) :
        Q[a][i] = Q[b][j] => a = b

QueuesSorted(Q) ==
    \A a \in Interface : \A i, j \in 1 .. Len(Q[a]) : i < j => Q[a][i] < Q[a][j]

SentOnce(o, d, g) ==
    /\ \A k \in 1 .. Len(o) : o[k].id \in 1 .. g \ d
    /\ \A k, l \in 1 .. Len(o) : o[k].id = o[l].id => k = l

SentSorted(o) == \A k, l \in 1 .. Len(o) : k < l /\ o[k].to = o[l].to => o[k].id < o[l].id

(* A packet that waits was not sent, and follows those sent to its next hop. *)
SentBefore(Q, o) ==
    \A a \in Interface : \A i \in 1 .. Len(Q[a]), k \in 1 .. Len(o) :
        /\ o[k].id # Q[a][i]
        /\ o[k].to = a => o[k].id < Q[a][i]

NoneLost(Q, o, d, g) ==
    \A x \in 1 .. g :
        \/ x \in d
        \/ \E k \in 1 .. Len(o) : o[k].id = x
        \/ \E a \in Interface : \E i \in 1 .. Len(Q[a]) : Q[a][i] = x

NodeInv(Q, o, d, g) ==
    /\ Q \in [Interface -> Seq(Nat)] /\ o \in Seq(Packet) /\ d \subseteq 1 .. g /\ g \in Nat
    /\ QueueIds(Q, d, g) /\ QueuesApart(Q) /\ QueuesSorted(Q)
    /\ SentOnce(o, d, g) /\ SentSorted(o)
    /\ SentBefore(Q, o)
    /\ NoneLost(Q, o, d, g)

(* A packet is queued behind the others that wait for the same next hop. *)
LEMMA QueuePacket ==
  ASSUME NEW Q, NEW o, NEW d, NEW g, NodeInv(Q, o, d, g), NEW a \in Interface, NEW R,
         R = [Q EXCEPT ![a] = Append(@, g + 1)]
  PROVE  NodeInv(R, o, d, g + 1)
PROOF
  <1>1. /\ Q \in [Interface -> Seq(Nat)] /\ o \in Seq(Packet) /\ d \subseteq 1 .. g /\ g \in Nat
    BY DEF NodeInv
  <1>2. /\ R \in [Interface -> Seq(Nat)]
        /\ \A b \in Interface : b # a => R[b] = Q[b]
        /\ Len(R[a]) = Len(Q[a]) + 1 /\ R[a][Len(Q[a]) + 1] = g + 1
        /\ \A i \in 1 .. Len(Q[a]) : R[a][i] = Q[a][i]
        /\ Len(Q[a]) \in Nat
    BY <1>1
  <1>3. ASSUME NEW b \in Interface, NEW i \in 1 .. Len(R[b])
        PROVE  \/ i \in 1 .. Len(Q[b]) /\ R[b][i] = Q[b][i]
               \/ b = a /\ i = Len(Q[a]) + 1 /\ R[b][i] = g + 1
    BY <1>2
  <1>4. \A b \in Interface : \A i \in 1 .. Len(Q[b]) : i \in 1 .. Len(R[b]) /\ R[b][i] = Q[b][i]
    BY <1>2
  <1>5. \A b \in Interface : \A i \in 1 .. Len(Q[b]) : Q[b][i] \in 1 .. g \ d /\ Q[b][i] < g + 1
    BY <1>1 DEF NodeInv, QueueIds
  <1>6. \A k \in 1 .. Len(o) : o[k].id \in 1 .. g \ d /\ o[k].id < g + 1
    BY <1>1 DEF NodeInv, SentOnce
  <1>7. g + 1 \notin d /\ d \subseteq 1 .. g + 1
    BY <1>1
  <1>8. QueueIds(R, d, g + 1)
    BY <1>1, <1>3, <1>5, <1>7 DEF QueueIds
  <1>9. QueuesApart(R)
    <2> SUFFICES ASSUME NEW b \in Interface, NEW c \in Interface, NEW i \in 1 .. Len(R[b]),
                        NEW j \in 1 .. Len(R[c]), R[b][i] = R[c][j]
                 PROVE  b = c
      BY DEF QueuesApart
    <2>1. CASE i \in 1 .. Len(Q[b]) /\ R[b][i] = Q[b][i] /\ j \in 1 .. Len(Q[c]) /\ R[c][j] = Q[c][j]
      BY <2>1 DEF NodeInv, QueuesApart
    <2>2. \A x \in 1 .. g : x # g + 1
      BY <1>1
    <2> QED BY <1>3, <1>5, <2>1, <2>2
  <1>10. QueuesSorted(R)
    <2> SUFFICES ASSUME NEW b \in Interface, NEW i \in 1 .. Len(R[b]), NEW j \in 1 .. Len(R[b]), i < j
                 PROVE  R[b][i] < R[b][j]
      BY DEF QueuesSorted
    <2>1. CASE i \in 1 .. Len(Q[b]) /\ R[b][i] = Q[b][i] /\ j \in 1 .. Len(Q[b]) /\ R[b][j] = Q[b][j]
      BY <2>1 DEF NodeInv, QueuesSorted
    <2>2. CASE b = a /\ j = Len(Q[a]) + 1 /\ R[b][j] = g + 1
      <3>1. i \in 1 .. Len(Q[b])
        BY <1>2, <2>2
      <3> QED BY <1>4, <1>5, <2>2, <3>1
    <2>3. CASE b = a /\ i = Len(Q[a]) + 1 /\ j \in 1 .. Len(Q[b])
      BY <1>2, <2>3
    <2> QED BY <1>3, <2>1, <2>2, <2>3
  <1>11. SentOnce(o, d, g + 1)
    BY <1>1, <1>6 DEF NodeInv, SentOnce
  <1>12. SentBefore(R, o)
    <2> SUFFICES ASSUME NEW b \in Interface, NEW i \in 1 .. Len(R[b]), NEW k \in 1 .. Len(o)
                 PROVE  o[k].id # R[b][i] /\ (o[k].to = b => o[k].id < R[b][i])
      BY DEF SentBefore
    <2>1. CASE i \in 1 .. Len(Q[b]) /\ R[b][i] = Q[b][i]
      BY <2>1 DEF NodeInv, SentBefore
    <2>2. CASE R[b][i] = g + 1
      BY <1>1, <1>6, <2>2
    <2> QED BY <1>3, <2>1, <2>2
  <1>13. NoneLost(R, o, d, g + 1)
    <2> SUFFICES ASSUME NEW x \in 1 .. g + 1, x \notin d, ~ \E k \in 1 .. Len(o) : o[k].id = x
                 PROVE  \E b \in Interface : \E i \in 1 .. Len(R[b]) : R[b][i] = x
      BY DEF NoneLost
    <2>1. CASE x \in 1 .. g
      <3>1. PICK b \in Interface : \E i \in 1 .. Len(Q[b]) : Q[b][i] = x
        BY <2>1 DEF NodeInv, NoneLost
      <3> QED BY <1>4, <3>1
    <2>2. CASE x = g + 1
      <3>1. Len(Q[a]) + 1 \in 1 .. Len(R[a])
        BY <1>2
      <3> QED BY <1>2, <2>2, <3>1
    <2> QED BY <1>1, <2>1, <2>2
  <1> QED BY <1>1, <1>2, <1>7, <1>8, <1>9, <1>10, <1>11, <1>12, <1>13 DEF NodeInv

(* A packet is sent at once: nothing waits for its next hop. *)
LEMMA SendPacket ==
  ASSUME NEW Q, NEW o, NEW d, NEW g, NodeInv(Q, o, d, g), NEW a \in Interface \cup {Multicast},
         NEW t, NEW ids, ids \in Seq(Nat), Len(ids) = 1, ids[1] = g + 1, NEW lan, NEW mac,
         Extends(t, o, ids, a, lan, mac), a \in Interface => Len(Q[a]) = 0
  PROVE  NodeInv(Q, t, d, g + 1)
PROOF
  <1>1. /\ Q \in [Interface -> Seq(Nat)] /\ o \in Seq(Packet) /\ d \subseteq 1 .. g /\ g \in Nat
    BY DEF NodeInv
  <1>2. /\ t \in Seq(Packet) /\ Len(t) = Len(o) + 1 /\ Len(o) \in Nat
        /\ t[Len(o) + 1].id = g + 1 /\ t[Len(o) + 1].to = a
        /\ \A k \in 1 .. Len(o) : t[k] = o[k]
    BY <1>1 DEF Extends
  <1>3. ASSUME NEW k \in 1 .. Len(t)
        PROVE  \/ k \in 1 .. Len(o) /\ t[k] = o[k]
               \/ k = Len(o) + 1 /\ t[k].id = g + 1 /\ t[k].to = a
    BY <1>2
  <1>4. \A k \in 1 .. Len(o) : k \in 1 .. Len(t) /\ t[k] = o[k]
    BY <1>2
  <1>5. \A b \in Interface : \A i \in 1 .. Len(Q[b]) : Q[b][i] \in 1 .. g \ d /\ Q[b][i] < g + 1
    BY <1>1 DEF NodeInv, QueueIds
  <1>6. \A k \in 1 .. Len(o) : o[k].id \in 1 .. g \ d /\ o[k].id < g + 1 /\ o[k].id # g + 1
    BY <1>1 DEF NodeInv, SentOnce
  <1>7. g + 1 \notin d /\ d \subseteq 1 .. g + 1
    BY <1>1
  <1>8. QueueIds(Q, d, g + 1)
    BY <1>1, <1>5 DEF QueueIds
  <1>9. SentOnce(t, d, g + 1)
    <2>1. \A k \in 1 .. Len(t) : t[k].id \in 1 .. g + 1 \ d
      BY <1>1, <1>3, <1>6, <1>7
    <2>2. ASSUME NEW k \in 1 .. Len(t), NEW l \in 1 .. Len(t), t[k].id = t[l].id
          PROVE  k = l
      <3>1. CASE k \in 1 .. Len(o) /\ t[k] = o[k] /\ l \in 1 .. Len(o) /\ t[l] = o[l]
        BY <2>2, <3>1 DEF NodeInv, SentOnce
      <3> QED BY <1>3, <1>6, <2>2, <3>1
    <2> QED BY <2>1, <2>2 DEF SentOnce
  <1>10. SentSorted(t)
    <2> SUFFICES ASSUME NEW k \in 1 .. Len(t), NEW l \in 1 .. Len(t), k < l, t[k].to = t[l].to
                 PROVE  t[k].id < t[l].id
      BY DEF SentSorted
    <2>1. k \in 1 .. Len(o) /\ t[k] = o[k]
      BY <1>2
    <2>2. CASE l \in 1 .. Len(o) /\ t[l] = o[l]
      BY <2>1, <2>2 DEF NodeInv, SentSorted
    <2>3. CASE t[l].id = g + 1
      BY <1>6, <2>1, <2>3
    <2> QED BY <1>3, <2>2, <2>3
  <1>11. SentBefore(Q, t)
    <2> SUFFICES ASSUME NEW b \in Interface, NEW i \in 1 .. Len(Q[b]), NEW k \in 1 .. Len(t)
                 PROVE  t[k].id # Q[b][i] /\ (t[k].to = b => t[k].id < Q[b][i])
      BY DEF SentBefore
    <2>1. CASE k \in 1 .. Len(o) /\ t[k] = o[k]
      BY <2>1 DEF NodeInv, SentBefore
    <2>2. CASE t[k].id = g + 1 /\ t[k].to = a
      <3>1. t[k].to # b
        BY <1>1, <2>2
      <3>2. Q[b][i] \in 1 .. g /\ Q[b][i] # g + 1
        BY <1>1, <1>5
      <3> QED BY <2>2, <3>1, <3>2
    <2> QED BY <1>3, <2>1, <2>2
  <1>12. NoneLost(Q, t, d, g + 1)
    <2> SUFFICES ASSUME NEW x \in 1 .. g + 1, x \notin d,
                        ~ \E b \in Interface : \E i \in 1 .. Len(Q[b]) : Q[b][i] = x
                 PROVE  \E k \in 1 .. Len(t) : t[k].id = x
      BY DEF NoneLost
    <2>1. CASE x \in 1 .. g
      <3>1. PICK k \in 1 .. Len(o) : o[k].id = x
        BY <2>1 DEF NodeInv, NoneLost
      <3> QED BY <1>4, <3>1
    <2>2. CASE x = g + 1
      <3>1. Len(o) + 1 \in 1 .. Len(t)
        BY <1>2
      <3> QED BY <1>2, <2>2, <3>1
    <2> QED BY <1>1, <2>1, <2>2
  <1> QED BY <1>1, <1>2, <1>7, <1>8, <1>9, <1>10, <1>11, <1>12 DEF NodeInv

(* The queue of one next hop is emptied. *)
LEMMA EmptiedQueue ==
  ASSUME NEW Q \in [Interface -> Seq(Nat)], NEW a \in Interface, NEW R,
         R = [Q EXCEPT ![a] = <<>>]
  PROVE  /\ R \in [Interface -> Seq(Nat)] /\ Len(R[a]) = 0
         /\ \A b \in Interface : b # a => R[b] = Q[b]
         /\ \A b \in Interface : \A i \in 1 .. Len(R[b]) :
                b # a /\ i \in 1 .. Len(Q[b]) /\ R[b][i] = Q[b][i]
PROOF
  <1>1. R \in [Interface -> Seq(Nat)] /\ R[a] = <<>> /\ \A b \in Interface : b # a => R[b] = Q[b]
    OBVIOUS
  <1>2. Len(R[a]) = 0
    BY <1>1
  <1>3. ASSUME NEW b \in Interface, NEW i \in 1 .. Len(R[b])
        PROVE  b # a /\ i \in 1 .. Len(Q[b]) /\ R[b][i] = Q[b][i]
    <2>1. b # a
      BY <1>2
    <2> QED BY <1>1, <2>1
  <1> QED BY <1>1, <1>2, <1>3

(* The packets of a queue are sent in its order. *)
LEMMA FlushQueue ==
  ASSUME NEW Q, NEW o, NEW d, NEW g, NodeInv(Q, o, d, g), NEW a \in Interface,
         NEW t, NEW lan, NEW mac, Extends(t, o, Q[a], a, lan, mac), NEW R,
         R = [Q EXCEPT ![a] = <<>>]
  PROVE  NodeInv(R, t, d, g)
PROOF
  <1>1. /\ Q \in [Interface -> Seq(Nat)] /\ o \in Seq(Packet) /\ d \subseteq 1 .. g /\ g \in Nat
    BY DEF NodeInv
  <1>2. /\ R \in [Interface -> Seq(Nat)] /\ Len(R[a]) = 0
        /\ \A b \in Interface : b # a => R[b] = Q[b]
        /\ \A b \in Interface : \A i \in 1 .. Len(R[b]) :
               b # a /\ i \in 1 .. Len(Q[b]) /\ R[b][i] = Q[b][i]
    BY <1>1, EmptiedQueue
  <1>3. /\ t \in Seq(Packet) /\ Len(t) = Len(o) + Len(Q[a]) /\ Len(o) \in Nat /\ Len(Q[a]) \in Nat
        /\ \A k \in 1 .. Len(o) : k \in 1 .. Len(t) /\ t[k] = o[k]
        /\ \A k \in 1 .. Len(t) : k \notin 1 .. Len(o) =>
               k - Len(o) \in 1 .. Len(Q[a]) /\ t[k].id = Q[a][k - Len(o)] /\ t[k].to = a
    BY <1>1 DEF Extends
  <1>4. QueueIds(R, d, g)
    BY <1>2 DEF NodeInv, QueueIds
  <1>5. QueuesApart(R)
    BY <1>2 DEF NodeInv, QueuesApart
  <1>6. QueuesSorted(R)
    BY <1>2 DEF NodeInv, QueuesSorted
  <1>7. SentOnce(t, d, g)
    <2>1. ASSUME NEW k \in 1 .. Len(t)
          PROVE  t[k].id \in 1 .. g \ d
      <3>1. CASE k \in 1 .. Len(o)
        BY <1>3, <3>1 DEF NodeInv, SentOnce
      <3>2. CASE k \notin 1 .. Len(o)
        BY <1>3, <3>2 DEF NodeInv, QueueIds
      <3> QED BY <3>1, <3>2
    <2>2. ASSUME NEW k \in 1 .. Len(t), NEW l \in 1 .. Len(t), k < l
          PROVE  t[k].id # t[l].id
      <3>1. CASE l \in 1 .. Len(o)
        <4>1. k \in 1 .. Len(o) /\ k # l
          BY <1>3, <2>2, <3>1
        <4> QED BY <1>3, <3>1, <4>1 DEF NodeInv, SentOnce
      <3>2. CASE l \notin 1 .. Len(o) /\ k \in 1 .. Len(o)
        <4>1. /\ t[k] = o[k] /\ l - Len(o) \in 1 .. Len(Q[a])
              /\ t[l].id = Q[a][l - Len(o)]
          BY <1>3, <3>2
        <4> QED BY <3>2, <4>1 DEF NodeInv, SentBefore
      <3>3. CASE l \notin 1 .. Len(o) /\ k \notin 1 .. Len(o)
        <4>1. /\ k - Len(o) \in 1 .. Len(Q[a]) /\ l - Len(o) \in 1 .. Len(Q[a])
              /\ k - Len(o) < l - Len(o)
          BY <1>3, <2>2, <3>3
        <4>2. Q[a][k - Len(o)] < Q[a][l - Len(o)]
          BY <4>1 DEF NodeInv, QueuesSorted
        <4>3. Q[a][k - Len(o)] \in Nat /\ Q[a][l - Len(o)] \in Nat
          BY <1>1, <4>1
        <4> QED BY <1>3, <3>3, <4>2, <4>3
      <3> QED BY <3>1, <3>2, <3>3
    <2>3. ASSUME NEW k \in 1 .. Len(t), NEW l \in 1 .. Len(t), t[k].id = t[l].id
          PROVE  k = l
      BY <2>2, <2>3
    <2> QED BY <2>1, <2>3 DEF SentOnce
  <1>8. SentSorted(t)
    <2> SUFFICES ASSUME NEW k \in 1 .. Len(t), NEW l \in 1 .. Len(t), k < l, t[k].to = t[l].to
                 PROVE  t[k].id < t[l].id
      BY DEF SentSorted
    <2>1. CASE l \in 1 .. Len(o)
      <3>1. k \in 1 .. Len(o)
        BY <1>3, <2>1
      <3> QED BY <1>3, <2>1, <3>1 DEF NodeInv, SentSorted
    <2>2. CASE l \notin 1 .. Len(o) /\ k \in 1 .. Len(o)
      <3>1. /\ t[k] = o[k] /\ l - Len(o) \in 1 .. Len(Q[a])
            /\ t[l].id = Q[a][l - Len(o)] /\ t[l].to = a
        BY <1>3, <2>2
      <3>2. o[k].to = a
        BY <3>1
      <3> QED BY <2>2, <3>1, <3>2 DEF NodeInv, SentBefore
    <2>3. CASE l \notin 1 .. Len(o) /\ k \notin 1 .. Len(o)
      <3>1. /\ k - Len(o) \in 1 .. Len(Q[a]) /\ l - Len(o) \in 1 .. Len(Q[a])
            /\ k - Len(o) < l - Len(o)
        BY <1>3, <2>3
      <3>2. Q[a][k - Len(o)] < Q[a][l - Len(o)]
        BY <3>1 DEF NodeInv, QueuesSorted
      <3> QED BY <1>3, <2>3, <3>2
    <2> QED BY <2>1, <2>2, <2>3
  <1>9. SentBefore(R, t)
    <2> SUFFICES ASSUME NEW b \in Interface, NEW i \in 1 .. Len(R[b]), NEW k \in 1 .. Len(t)
                 PROVE  t[k].id # R[b][i] /\ (t[k].to = b => t[k].id < R[b][i])
      BY DEF SentBefore
    <2>1. b # a /\ i \in 1 .. Len(Q[b]) /\ R[b][i] = Q[b][i]
      BY <1>2
    <2>2. CASE k \in 1 .. Len(o)
      BY <1>3, <2>1, <2>2 DEF NodeInv, SentBefore
    <2>3. CASE k \notin 1 .. Len(o)
      BY <1>3, <2>1, <2>3 DEF NodeInv, QueuesApart
    <2> QED BY <2>2, <2>3
  <1>10. NoneLost(R, t, d, g)
    <2> SUFFICES ASSUME NEW x \in 1 .. g, x \notin d, ~ \E k \in 1 .. Len(t) : t[k].id = x
                 PROVE  \E b \in Interface : \E i \in 1 .. Len(R[b]) : R[b][i] = x
      BY DEF NoneLost
    <2>1. ~ \E k \in 1 .. Len(o) : o[k].id = x
      BY <1>3
    <2>2. PICK b \in Interface : \E i \in 1 .. Len(Q[b]) : Q[b][i] = x
      BY <2>1 DEF NodeInv, NoneLost
    <2>3. PICK i \in 1 .. Len(Q[b]) : Q[b][i] = x
      BY <2>2
    <2>4. CASE b = a
      <3>1. Len(o) + i \in 1 .. Len(t) /\ Len(o) + i \notin 1 .. Len(o) /\ (Len(o) + i) - Len(o) = i
        BY <1>3, <2>4
      <3>2. t[Len(o) + i].id = Q[a][i]
        BY <1>3, <3>1
      <3> QED BY <2>3, <2>4, <3>1, <3>2
    <2>5. CASE b # a
      BY <1>2, <2>3, <2>5
    <2> QED BY <2>4, <2>5
  <1> QED BY <1>1, <1>2, <1>3, <1>4, <1>5, <1>6, <1>7, <1>8, <1>9, <1>10 DEF NodeInv

(* The packets of a queue are dropped. *)
LEMMA DropQueue ==
  ASSUME NEW Q, NEW o, NEW d, NEW g, NodeInv(Q, o, d, g), NEW a \in Interface, NEW R,
         R = [Q EXCEPT ![a] = <<>>]
  PROVE  NodeInv(R, o, d \cup Range(Q[a]), g)
PROOF
  <1> DEFINE c == d \cup Range(Q[a])
  <1>1. /\ Q \in [Interface -> Seq(Nat)] /\ o \in Seq(Packet) /\ d \subseteq 1 .. g /\ g \in Nat
    BY DEF NodeInv
  <1>2. /\ R \in [Interface -> Seq(Nat)] /\ Len(R[a]) = 0
        /\ \A b \in Interface : b # a => R[b] = Q[b]
        /\ \A b \in Interface : \A i \in 1 .. Len(R[b]) :
               b # a /\ i \in 1 .. Len(Q[b]) /\ R[b][i] = Q[b][i]
    BY <1>1, EmptiedQueue
  <1>3. \A x : x \in c <=> x \in d \/ \E i \in 1 .. Len(Q[a]) : Q[a][i] = x
    BY <1>1 DEF Range
  <1> HIDE DEF c
  <1>4. c \subseteq 1 .. g
    BY <1>1, <1>3 DEF NodeInv, QueueIds
  <1>5. QueueIds(R, c, g)
    <2> SUFFICES ASSUME NEW b \in Interface, NEW i \in 1 .. Len(R[b])
                 PROVE  R[b][i] \in 1 .. g \ c
      BY DEF QueueIds
    <2>1. b # a /\ i \in 1 .. Len(Q[b]) /\ R[b][i] = Q[b][i]
      BY <1>2
    <2>2. Q[b][i] \in 1 .. g /\ Q[b][i] \notin d
      BY <2>1 DEF NodeInv, QueueIds
    <2>3. \A j \in 1 .. Len(Q[a]) : Q[a][j] # Q[b][i]
      BY <2>1 DEF NodeInv, QueuesApart
    <2> QED BY <1>3, <2>1, <2>2, <2>3
  <1>6. QueuesApart(R)
    BY <1>2 DEF NodeInv, QueuesApart
  <1>7. QueuesSorted(R)
    BY <1>2 DEF NodeInv, QueuesSorted
  <1>8. SentOnce(o, c, g)
    <2>1. ASSUME NEW k \in 1 .. Len(o)
          PROVE  o[k].id \in 1 .. g \ c
      <3>1. o[k].id \in 1 .. g /\ o[k].id \notin d
        BY DEF NodeInv, SentOnce
      <3>2. \A i \in 1 .. Len(Q[a]) : Q[a][i] # o[k].id
        BY DEF NodeInv, SentBefore
      <3> QED BY <1>3, <3>1, <3>2
    <2> QED BY <2>1 DEF NodeInv, SentOnce
  <1>9. SentBefore(R, o)
    BY <1>2 DEF NodeInv, SentBefore
  <1>10. NoneLost(R, o, c, g)
    <2> SUFFICES ASSUME NEW x \in 1 .. g, x \notin c, ~ \E k \in 1 .. Len(o) : o[k].id = x
                 PROVE  \E b \in Interface : \E i \in 1 .. Len(R[b]) : R[b][i] = x
      BY DEF NoneLost
    <2>1. PICK b \in Interface : \E i \in 1 .. Len(Q[b]) : Q[b][i] = x
      BY <1>3 DEF NodeInv, NoneLost
    <2>2. b # a
      BY <1>3, <2>1
    <2> QED BY <1>2, <2>1, <2>2
  <1> QED BY <1>1, <1>2, <1>4, <1>5, <1>6, <1>7, <1>8, <1>9, <1>10 DEF NodeInv, c

-----------------------------------------------------------------------------
(* The queues of node n in the caches c. *)
QueueOf(e) == IF e.state = "none" THEN <<>> ELSE e.queue
Waiting(c, n) == [a \in Interface |-> QueueOf(c[n][a])]

Requeued(c, n, a, q) == [Waiting(c, n) EXCEPT ![a] = q]

OnlyPendingWait(c, n) ==
    \A a \in Interface : Len(Waiting(c, n)[a]) # 0 => c[n][a].state = "pending"

AccountInv ==
    /\ TimersInv
    /\ \A n \in Node : NodeInv(Waiting(cache, n), out[n], dropped[n], given[n]) /\ OnlyPendingWait(cache, n)

(* A step changes the packets of one node. *)
LEMMA OneNodeAccount ==
  ASSUME AccountInv, TimersInv', NEW n \in Node,
         \A x \in Node : x # n => /\ cache'[x] = cache[x] /\ out'[x] = out[x]
                                  /\ dropped'[x] = dropped[x] /\ given'[x] = given[x],
         NodeInv(Waiting(cache', n), out'[n], dropped'[n], given'[n]), OnlyPendingWait(cache', n)
  PROVE  AccountInv'
PROOF
  <1>1. ASSUME NEW x \in Node
        PROVE  NodeInv(Waiting(cache', x), out'[x], dropped'[x], given'[x]) /\ OnlyPendingWait(cache', x)
    <2>1. CASE x = n
      BY <2>1
    <2>2. CASE x # n
      <3>1. cache'[x] = cache[x] /\ out'[x] = out[x] /\ dropped'[x] = dropped[x] /\ given'[x] = given[x]
        BY <2>2
      <3>2. Waiting(cache', x) = Waiting(cache, x)
        BY <3>1 DEF Waiting
      <3>3. OnlyPendingWait(cache', x)
        BY <3>1, <3>2 DEF AccountInv, OnlyPendingWait
      <3>4. NodeInv(Waiting(cache, x), out[x], dropped[x], given[x])
        BY DEF AccountInv
      <3> QED BY <3>1, <3>2, <3>3, <3>4
    <2> QED BY <2>1, <2>2
  <1> QED BY <1>1 DEF AccountInv

(* What the change of one entry does to the queues. *)
LEMMA WaitingUpdate ==
  ASSUME TypeOK, NEW n \in Node, NEW a \in Interface, NEW e \in Entry \cup {NoEntry},
         cache' = [cache EXCEPT ![n][a] = e]
  PROVE  /\ Waiting(cache', n) = Requeued(cache, n, a, QueueOf(e))
         /\ \A x \in Node : x # n => cache'[x] = cache[x]
         /\ \A b \in Interface : b # a => cache'[n][b] = cache[n][b]
PROOF
  <1>1. /\ cache'[n][a] = e
        /\ \A x \in Node, b \in Interface : (x # n \/ b # a) => cache'[x][b] = cache[x][b]
        /\ \A x \in Node : x # n => cache'[x] = cache[x]
    BY CacheUpdate DEF TypeOK
  <1>2. ASSUME NEW b \in Interface
        PROVE  QueueOf(cache'[n][b]) = IF b = a THEN QueueOf(e) ELSE QueueOf(cache[n][b])
    BY <1>1
  <1>3. [b \in Interface |-> QueueOf(cache'[n][b])]
            = [b \in Interface |-> IF b = a THEN QueueOf(e) ELSE QueueOf(cache[n][b])]
    BY <1>2
  <1>4. Waiting(cache', n) = [b \in Interface |-> QueueOf(cache'[n][b])]
    BY DEF Waiting, QueueOf
  <1>5. [Waiting(cache, n) EXCEPT ![a] = QueueOf(e)]
            = [b \in Interface |-> IF b = a THEN QueueOf(e) ELSE QueueOf(cache[n][b])]
    BY DEF Waiting
  <1> QED BY <1>1, <1>3, <1>4, <1>5 DEF Requeued

(* The queues after one of them was emptied or the state of its entry set. *)
LEMMA OnlyPendingUpdate ==
  ASSUME TypeOK, NEW n \in Node, NEW a \in Interface, NEW e \in Entry \cup {NoEntry},
         OnlyPendingWait(cache, n), cache' = [cache EXCEPT ![n][a] = e],
         e.state # "pending" => Len(QueueOf(e)) = 0
  PROVE  OnlyPendingWait(cache', n)
PROOF
  <1>0. Waiting(cache', n) = Requeued(cache, n, a, QueueOf(e))
    BY WaitingUpdate
  <1>1. \A b \in Interface : b # a => cache'[n][b] = cache[n][b]
    BY WaitingUpdate
  <1>3. cache'[n][a] = e
    BY CacheUpdate DEF TypeOK
  <1>2. ASSUME NEW b \in Interface, Len(Waiting(cache', n)[b]) # 0
        PROVE  cache'[n][b].state = "pending"
    <2>1. CASE b = a
      <3>1. Waiting(cache', n)[b] = QueueOf(e)
        BY <1>0, <2>1 DEF Waiting, Requeued
      <3>2. Len(QueueOf(e)) # 0
        BY <1>2, <3>1
      <3> QED BY <1>3, <2>1, <3>2
    <2>2. CASE b # a
      <3>1. Waiting(cache', n)[b] = Waiting(cache, n)[b]
        BY <1>0, <2>2 DEF Waiting, Requeued
      <3> QED BY <1>1, <1>2, <2>2, <3>1 DEF OnlyPendingWait
    <2> QED BY <2>1, <2>2
  <1> QED BY <1>2 DEF OnlyPendingWait

(* A step changes one entry of a node, and packets of that node. *)
LEMMA EntryAccount ==
  ASSUME AccountInv, TimersInv', NEW n \in Node, NEW a \in Interface,
         NEW e \in Entry \cup {NoEntry}, cache' = [cache EXCEPT ![n][a] = e],
         e.state # "pending" => Len(QueueOf(e)) = 0,
         \A x \in Node : x # n => /\ out'[x] = out[x] /\ dropped'[x] = dropped[x]
                                  /\ given'[x] = given[x],
         NodeInv(Requeued(cache, n, a, QueueOf(e)), out'[n], dropped'[n], given'[n])
  PROVE  AccountInv'
PROOF
  <1>1. TypeOK /\ OnlyPendingWait(cache, n)
    BY DEF AccountInv, TimersInv
  <1>2. OnlyPendingWait(cache', n)
    BY <1>1, OnlyPendingUpdate
  <1>3. Waiting(cache', n) = Requeued(cache, n, a, QueueOf(e))
    BY <1>1, WaitingUpdate
  <1>4. \A x \in Node : x # n => cache'[x] = cache[x]
    BY <1>1, WaitingUpdate
  <1>5. NodeInv(Waiting(cache', n), out'[n], dropped'[n], given'[n])
    BY <1>3
  <1> QED BY <1>2, <1>4, <1>5, OneNodeAccount

LEMMA QueuedAccount ==
  ASSUME AccountInv, TimersInv', NEW n \in Node, NEW a \in Interface,
         NEW e \in Entry, cache' = [cache EXCEPT ![n][a] = e], e.state = "pending",
         e.queue = Append(Waiting(cache, n)[a], given[n] + 1),
         given' = [given EXCEPT ![n] = given[n] + 1], UNCHANGED <<out, dropped>>
  PROVE  AccountInv'
PROOF
  <1>1. NodeInv(Waiting(cache, n), out[n], dropped[n], given[n])
    BY DEF AccountInv
  <1>2. PICK R : R = [Waiting(cache, n) EXCEPT ![a] = Append(@, given[n] + 1)]
    OBVIOUS
  <1>3. NodeInv(R, out[n], dropped[n], given[n] + 1)
    BY <1>1, <1>2, QueuePacket
  <1>4. QueueOf(e) = Append(Waiting(cache, n)[a], given[n] + 1)
    BY DEF QueueOf
  <1>5. R = Requeued(cache, n, a, QueueOf(e))
    BY <1>2, <1>4 DEF Requeued
  <1>6. /\ given'[n] = given[n] + 1 /\ out'[n] = out[n] /\ dropped'[n] = dropped[n]
        /\ \A x \in Node : x # n => /\ out'[x] = out[x] /\ dropped'[x] = dropped[x]
                                     /\ given'[x] = given[x]
    BY DEF AccountInv, TimersInv, TypeOK
  <1>7. NodeInv(Requeued(cache, n, a, QueueOf(e)), out'[n], dropped'[n], given'[n])
    BY <1>3, <1>5, <1>6
  <1> QED BY <1>6, <1>7, EntryAccount

(* A packet sent at once. *)
LEMMA SentAccount ==
  ASSUME AccountInv, TimersInv', NEW n \in Node, NEW a \in Interface \cup {Multicast},
         a \in Interface => cache[n][a].state # "pending",
         NEW lan \in Lan, NEW mac \in Interface \cup {Broadcast},
         out' = [out EXCEPT ![n] = @ \o SentTo(<<given[n] + 1>>, a, lan, mac)],
         given' = [given EXCEPT ![n] = given[n] + 1], UNCHANGED <<cache, dropped>>
  PROVE  AccountInv'
PROOF
  <1>1. NodeInv(Waiting(cache, n), out[n], dropped[n], given[n]) /\ OnlyPendingWait(cache, n)
    BY DEF AccountInv
  <1>2. PICK ids : ids = <<given[n] + 1>>
    OBVIOUS
  <1>3. /\ given[n] \in Nat /\ out[n] \in Seq(Packet) /\ Waiting(cache, n) \in [Interface -> Seq(Nat)]
        /\ given' = [given EXCEPT ![n] = given[n] + 1]
    BY <1>1 DEF NodeInv
  <1>4. ids \in Seq(Nat) /\ Len(ids) = 1 /\ ids[1] = given[n] + 1
    BY <1>2, <1>3
  <1>5. Extends(out[n] \o SentTo(ids, a, lan, mac), out[n], ids, a, lan, mac)
    BY <1>3, <1>4, Concatenated
  <1>6. a \in Interface => Len(Waiting(cache, n)[a]) = 0
    BY <1>1 DEF OnlyPendingWait
  <1>7. PICK t : t = out[n] \o SentTo(ids, a, lan, mac)
    OBVIOUS
  <1>8. Extends(t, out[n], ids, a, lan, mac)
    BY <1>5, <1>7
  <1>9. NodeInv(Waiting(cache, n), t, dropped[n], given[n] + 1)
    BY <1>1, <1>4, <1>6, <1>8, SendPacket
  <1>10. /\ given'[n] = given[n] + 1 /\ out'[n] = t /\ dropped'[n] = dropped[n]
         /\ \A x \in Node : x # n => /\ out'[x] = out[x] /\ dropped'[x] = dropped[x]
                                      /\ given'[x] = given[x] /\ cache'[x] = cache[x]
    BY <1>2, <1>7 DEF AccountInv, TimersInv, TypeOK
  <1>11. NodeInv(Waiting(cache', n), out'[n], dropped'[n], given'[n])
    BY <1>9, <1>10
  <1>12. OnlyPendingWait(cache', n)
    BY <1>1
  <1> QED BY <1>10, <1>11, <1>12, OneNodeAccount

LEMMA OutboundAccount ==
  ASSUME AccountInv, TimersInv', NEW n \in Node, NEW a \in Interface \cup {Multicast},
         <<n, a>> \in Flow, processOutboundPacket(n, a)
  PROVE  AccountInv'
PROOF
  <1> DEFINE id == given[n] + 1
             lan == Route[n][a]
             e == cache[n][a]
  <1>1. id \in Nat /\ lan \in Lan /\ TypeOK /\ OnlyPendingWait(cache, n)
    BY RouteAssumption DEF AccountInv, TimersInv, TypeOK
  <1>2. given' = [given EXCEPT ![n] = given[n] + 1] /\ dropped' = dropped
    BY DEF processOutboundPacket
  <1>3. CASE a = Multicast /\ out' = [out EXCEPT ![n] = @ \o SentTo(<<id>>, a, lan, Broadcast)]
             /\ UNCHANGED <<cache, timer, net>>
    <2>1. a \notin Interface
      BY <1>3, RouteAssumption
    <2> QED BY <1>1, <1>2, <1>3, <2>1, SentAccount
  <1>4. ASSUME NEW q, q = Append(Waiting(cache, n)[a], id), a \in Interface,
               initiateARPResolution(n, a, lan, q), UNCHANGED out
        PROVE  AccountInv'
    <2> DEFINE f == [state |-> "pending", lan |-> lan, fresh |-> FALSE, numRetries |-> 0,
                     queue |-> q, mac |-> IF e.state = "none" THEN Broadcast ELSE e.mac]
    <2>1. Waiting(cache, n)[a] \in Seq(Nat)
      BY <1>4 DEF AccountInv, NodeInv
    <2>2. q \in Seq(Nat)
      BY <1>1, <1>4, <2>1
    <2>3. f \in Entry /\ f.state = "pending" /\ f.queue = q
      BY <1>1, <1>4, <2>2, EntryFields DEF Entry
    <2>4. cache' = [cache EXCEPT ![n][a] = f]
      BY <1>4 DEF initiateARPResolution, AccountInv, TimersInv, TypeOK
    <2> HIDE DEF f
    <2> QED BY <1>2, <1>4, <2>3, <2>4, QueuedAccount
  <1>5. CASE a # Multicast /\ e.state = "none" /\ initiateARPResolution(n, a, lan, <<id>>)
             /\ UNCHANGED out
    <2>1. a \in Interface /\ Waiting(cache, n)[a] = <<>>
      BY <1>5 DEF Waiting, QueueOf
    <2>2. <<id>> = Append(Waiting(cache, n)[a], id)
      BY <2>1
    <2> HIDE DEF id, lan, e
    <2> QED BY <1>4, <1>5, <2>1, <2>2
  <1>6. CASE a # Multicast /\ e.state = "pending"
             /\ cache' = [cache EXCEPT ![n][a].queue = Append(@, id)] /\ UNCHANGED <<out, timer, net>>
    <2> DEFINE q == Append(e.queue, id)
               f == [e EXCEPT !.queue = q]
    <2>1. e \in Entry /\ a \in Interface
      BY <1>1, <1>6, EntryFields
    <2>2. f \in Entry /\ f.state = "pending" /\ f.queue = q
      <3>1. q \in Seq(Nat) /\ e.state = "pending"
        BY <1>1, <1>6, <2>1 DEF Entry
      <3> HIDE DEF q, e
      <3> QED BY <2>1, <3>1, EntryAssigned
    <2>3. cache' = [cache EXCEPT ![n][a] = f]
      BY <1>6 DEF AccountInv, TimersInv, TypeOK
    <2>4. f.queue = Append(Waiting(cache, n)[a], given[n] + 1)
      <3>1. Waiting(cache, n)[a] = e.queue
        BY <1>6, <2>1 DEF Waiting, QueueOf
      <3> QED BY <2>2, <3>1
    <2> HIDE DEF f, e
    <2> QED BY <1>2, <1>6, <2>1, <2>2, <2>3, <2>4, QueuedAccount
  <1>7. CASE a # Multicast /\ e.state = "resolved" /\ ~e.fresh
             /\ initiateARPResolution(n, a, lan, Append(e.queue, id)) /\ UNCHANGED out
    <2>1. a \in Interface /\ Waiting(cache, n)[a] = e.queue
      BY <1>7 DEF Waiting, QueueOf
    <2>2. Append(e.queue, id) = Append(Waiting(cache, n)[a], id)
      BY <2>1
    <2> HIDE DEF id, lan, e
    <2> QED BY <1>4, <1>7, <2>1, <2>2
  <1>8. CASE a # Multicast /\ e.state = "resolved" /\ e.fresh
             /\ out' = [out EXCEPT ![n] = @ \o SentTo(<<id>>, a, lan, e.mac)]
             /\ UNCHANGED <<cache, timer, net>>
    <2>1. e.mac \in Interface \cup {Broadcast} /\ e.state # "pending"
      BY <1>1, <1>8, EntryFields DEF Entry
    <2> HIDE DEF lan
    <2> QED BY <1>1, <1>2, <1>8, <2>1, SentAccount
  <1> HIDE DEF id, lan, e
  <1> QED BY <1>3, <1>5, <1>6, <1>7, <1>8 DEF processOutboundPacket, id, lan, e

(* A step that leaves the queue of an entry as it is. *)
LEMMA SameQueueAccount ==
  ASSUME AccountInv, TimersInv', NEW n \in Node, NEW a \in Interface,
         NEW e \in Entry, cache' = [cache EXCEPT ![n][a] = e],
         cache[n][a].state # "none", e.state = cache[n][a].state, e.queue = cache[n][a].queue,
         UNCHANGED <<out, dropped, given>>
  PROVE  AccountInv'
PROOF
  <1>1. /\ NodeInv(Waiting(cache, n), out[n], dropped[n], given[n])
        /\ OnlyPendingWait(cache, n)
    BY DEF AccountInv
  <1>2. QueueOf(e) = Waiting(cache, n)[a]
    BY DEF QueueOf, Waiting
  <1>3. Waiting(cache, n) = Requeued(cache, n, a, QueueOf(e))
    BY <1>2 DEF Requeued, Waiting
  <1>4. e.state # "pending" => Len(QueueOf(e)) = 0
    BY <1>1, <1>2 DEF OnlyPendingWait
  <1>5. NodeInv(Requeued(cache, n, a, QueueOf(e)), out'[n], dropped'[n], given'[n])
    BY <1>1, <1>3
  <1> QED BY <1>4, <1>5, EntryAccount

LEMMA TimedOutAccount ==
  ASSUME AccountInv, TimersInv', NEW n \in Node, NEW a \in Interface, requestTimedOut(n, a)
  PROVE  AccountInv'
PROOF
  <1> DEFINE e == cache[n][a]
  <1>1. e.state = "pending" /\ e \in Entry
    <2>1. timer[n][a] > 0 /\ timer[n][a] = IF e.state = "pending" THEN 1 ELSE 0
      BY DEF requestTimedOut, AccountInv, TimersInv, TimerIffPending
    <2>2. e.state = "pending"
      BY <2>1
    <2> QED BY <2>2, EntryFields DEF AccountInv, TimersInv
  <1>2. given' = given /\ out' = out
    BY DEF requestTimedOut
  <1>3. CASE cache' = [cache EXCEPT ![n][a].numRetries = @ + 1] /\ UNCHANGED dropped
    <2> DEFINE k == e.numRetries + 1
               f == [e EXCEPT !.numRetries = k]
    <2>1. f \in Entry /\ f.state = e.state /\ f.queue = e.queue
      <3>1. k \in Nat
        BY <1>1 DEF Entry
      <3> HIDE DEF k, e
      <3> QED BY <1>1, <3>1, EntryAssigned
    <2>2. cache' = [cache EXCEPT ![n][a] = f]
      BY <1>3 DEF AccountInv, TimersInv, TypeOK
    <2>3. cache[n][a].state # "none" /\ f.state = cache[n][a].state /\ f.queue = cache[n][a].queue
      BY <1>1, <2>1
    <2> HIDE DEF f, e
    <2> QED BY <1>2, <1>3, <2>1, <2>2, <2>3, SameQueueAccount
  <1>4. CASE /\ dropped' = [dropped EXCEPT ![n] = @ \cup Range(e.queue)]
             /\ cache' = [cache EXCEPT ![n][a] = NoEntry]
    <2>1. NodeInv(Waiting(cache, n), out[n], dropped[n], given[n])
      BY DEF AccountInv
    <2>2. PICK R : R = [Waiting(cache, n) EXCEPT ![a] = <<>>]
      OBVIOUS
    <2>3. NodeInv(R, out[n], dropped[n] \cup Range(Waiting(cache, n)[a]), given[n])
      BY <2>1, <2>2, DropQueue
    <2>4. Waiting(cache, n)[a] = e.queue
      BY <1>1 DEF Waiting, QueueOf
    <2>5. QueueOf(NoEntry) = <<>> /\ Len(QueueOf(NoEntry)) = 0
      BY DEF QueueOf, NoEntry
    <2>6. R = Requeued(cache, n, a, QueueOf(NoEntry))
      BY <2>2, <2>5 DEF Requeued
    <2>7. /\ dropped'[n] = dropped[n] \cup Range(e.queue) /\ out'[n] = out[n] /\ given'[n] = given[n]
          /\ \A x \in Node : x # n => /\ out'[x] = out[x] /\ dropped'[x] = dropped[x]
                                       /\ given'[x] = given[x]
      BY <1>2, <1>4 DEF AccountInv, TimersInv, TypeOK
    <2>8. NodeInv(Requeued(cache, n, a, QueueOf(NoEntry)), out'[n], dropped'[n], given'[n])
      BY <2>3, <2>4, <2>6, <2>7
    <2> QED BY <1>4, <2>5, <2>7, <2>8, EntryAccount
  <1> HIDE DEF e
  <1> QED BY <1>3, <1>4 DEF requestTimedOut, e

LEMMA ExpireAccount ==
  ASSUME AccountInv, TimersInv', NEW n \in Node, NEW a \in Interface, Expire(n, a)
  PROVE  AccountInv'
PROOF
  <1> DEFINE e == cache[n][a]
             f == [e EXCEPT !.fresh = FALSE]
  <1>1. e.state = "resolved" /\ e \in Entry
    BY EntryFields DEF Expire, AccountInv, TimersInv
  <1>2. f \in Entry /\ f.state = e.state /\ f.queue = e.queue
    <2> HIDE DEF e
    <2> QED BY <1>1, EntryAssigned
  <1>3. cache' = [cache EXCEPT ![n][a] = f] /\ UNCHANGED <<out, dropped, given>>
    BY DEF Expire, AccountInv, TimersInv, TypeOK
  <1>4. cache[n][a].state # "none" /\ f.state = cache[n][a].state /\ f.queue = cache[n][a].queue
    BY <1>1, <1>2
  <1> HIDE DEF e, f
  <1> QED BY <1>2, <1>3, <1>4, SameQueueAccount

LEMMA ArpPacketAccount ==
  ASSUME AccountInv, TimersInv', NEW n \in Node, NEW m \in net, processARPPacket(n, m)
  PROVE  AccountInv'
PROOF
  <1> DEFINE a == m.srcIP
             e == cache[n][a]
  <1>1. a \in Interface /\ m.srcMac \in Interface /\ m.lan \in Lan /\ TypeOK
    BY DEF AccountInv, TimersInv, TypeOK, ArpPacket
  <1>2. given' = given /\ dropped' = dropped
    BY DEF processARPPacket
  <1>3. NodeInv(Waiting(cache, n), out[n], dropped[n], given[n]) /\ OnlyPendingWait(cache, n)
    BY DEF AccountInv
  <1>4. CASE /\ e.state # "none"
             /\ cache' = [cache EXCEPT ![n][a] = Updated(@, m.srcMac)]
             /\ out' = [out EXCEPT ![n] = Flushed(n, a, m.srcMac)]
    <2>1. e \in Entry
      BY <1>1, <1>4, EntryFields
    <2>2. e.lan \in Lan /\ e.queue \in Seq(Nat) /\ out[n] \in Seq(Packet)
      BY <1>1, <2>1 DEF Entry, TypeOK
    <2> DEFINE f == Updated(e, m.srcMac)
    <2>3. f \in Entry /\ f.state = "resolved" /\ f.queue = <<>>
      BY <1>1, <2>1, EntryAssigned
    <2>4. cache' = [cache EXCEPT ![n][a] = f]
      BY <1>1, <1>4 DEF TypeOK
    <2> HIDE DEF f
    <2>5. Waiting(cache, n)[a] = e.queue
      BY <1>1, <1>4 DEF Waiting, QueueOf
    <2>6. Extends(Flushed(n, a, m.srcMac), out[n], e.queue, a, e.lan, m.srcMac)
      <3>1. Extends(out[n] \o SentTo(e.queue, a, e.lan, m.srcMac), out[n], e.queue, a, e.lan, m.srcMac)
        <4> HIDE DEF a, e
        <4> QED BY <1>1, <2>2, Concatenated
      <3> QED BY <3>1 DEF Flushed
    <2>7. PICK R : R = [Waiting(cache, n) EXCEPT ![a] = <<>>]
      OBVIOUS
    <2>8. NodeInv(R, Flushed(n, a, m.srcMac), dropped[n], given[n])
      <3>1. Extends(Flushed(n, a, m.srcMac), out[n], Waiting(cache, n)[a], a, e.lan, m.srcMac)
        BY <2>5, <2>6
      <3> HIDE DEF a, e
      <3> QED BY <1>1, <1>3, <2>7, <3>1, FlushQueue
    <2>9. QueueOf(f) = <<>> /\ Len(QueueOf(f)) = 0
      BY <2>3 DEF QueueOf
    <2>10. R = Requeued(cache, n, a, QueueOf(f))
      BY <2>7, <2>9 DEF Requeued
    <2>11. /\ out'[n] = Flushed(n, a, m.srcMac) /\ dropped'[n] = dropped[n] /\ given'[n] = given[n]
           /\ \A x \in Node : x # n => /\ out'[x] = out[x] /\ dropped'[x] = dropped[x]
                                        /\ given'[x] = given[x]
      BY <1>1, <1>2, <1>4 DEF TypeOK
    <2>12. NodeInv(Requeued(cache, n, a, QueueOf(f)), out'[n], dropped'[n], given'[n])
      BY <2>8, <2>10, <2>11
    <2> HIDE DEF a, e
    <2> QED BY <1>1, <2>3, <2>4, <2>9, <2>11, <2>12, EntryAccount
  <1>5. CASE /\ e.state = "none"
             /\ cache' = [cache EXCEPT ![n][a] = NewEntry(m.lan, m.srcMac)]
             /\ UNCHANGED out
    <2> DEFINE f == NewEntry(m.lan, m.srcMac)
    <2>1. f \in Entry /\ f.state = "resolved" /\ f.queue = <<>>
      BY <1>1 DEF NewEntry, Entry
    <2>2. cache' = [cache EXCEPT ![n][a] = f]
      BY <1>5
    <2> HIDE DEF f
    <2>3. QueueOf(f) = <<>> /\ Len(QueueOf(f)) = 0 /\ Waiting(cache, n)[a] = <<>>
      BY <1>1, <1>5, <2>1 DEF QueueOf, Waiting
    <2>4. Waiting(cache, n) = Requeued(cache, n, a, QueueOf(f))
      BY <2>3 DEF Requeued, Waiting
    <2>5. NodeInv(Requeued(cache, n, a, QueueOf(f)), out'[n], dropped'[n], given'[n])
      BY <1>2, <1>3, <1>5, <2>4
    <2> HIDE DEF a, e
    <2> QED BY <1>1, <1>2, <1>5, <2>1, <2>2, <2>3, <2>5, EntryAccount
  <1>6. CASE UNCHANGED <<cache, timer, out>>
    BY <1>2, <1>6 DEF AccountInv
  <1> HIDE DEF a, e
  <1> QED BY <1>4, <1>5, <1>6 DEF processARPPacket, a, e

LEMMA AccountInvariant == Spec => []AccountInv
PROOF
  <1>1. Init => AccountInv
    <2> SUFFICES ASSUME Init, NEW n \in Node
                 PROVE  NodeInv(Waiting(cache, n), out[n], dropped[n], given[n])
                        /\ OnlyPendingWait(cache, n)
      BY TimersInit DEF AccountInv
    <2>1. /\ Waiting(cache, n) = [a \in Interface |-> <<>>]
          /\ out[n] = <<>> /\ dropped[n] = {} /\ given[n] = 0
      BY DEF Init, Waiting, QueueOf, NoEntry
    <2>2. \A a \in Interface : Len(Waiting(cache, n)[a]) = 0
      BY <2>1
    <2>3. /\ Waiting(cache, n) \in [Interface -> Seq(Nat)] /\ out[n] \in Seq(Packet) /\ Len(out[n]) = 0
      BY <2>1
    <2>4. OnlyPendingWait(cache, n)
      BY <2>2 DEF OnlyPendingWait
    <2>5. NodeInv(Waiting(cache, n), out[n], dropped[n], given[n])
      BY <2>1, <2>2, <2>3
      DEF NodeInv, QueueIds, QueuesApart, QueuesSorted, SentOnce, SentSorted, SentBefore, NoneLost
    <2> QED BY <2>4, <2>5
  <1>2. AccountInv /\ [Next]_vars => AccountInv'
    <2> SUFFICES ASSUME AccountInv, [Next]_vars PROVE AccountInv'
      OBVIOUS
    <2>1. TimersInv'
      BY TimersStep DEF AccountInv
    <2>2. CASE UNCHANGED vars
      BY <2>1, <2>2 DEF vars, AccountInv
    <2>3. CASE Next
      BY <2>1, <2>3, OutboundAccount, TimedOutAccount, ExpireAccount, ArpPacketAccount DEF Next
    <2> QED BY <2>2, <2>3
  <1> QED BY <1>1, <1>2, PTL DEF Spec

(* What waits in the queue of an entry, as the properties say it. *)
LEMMA QueuedIsWaiting ==
  ASSUME TypeOK, NEW n \in Node, Waiting(cache, n) \in [Interface -> Seq(Nat)]
  PROVE  /\ \A a \in Interface : \A x :
                x \in Queued(n, a) <=> \E i \in 1 .. Len(Waiting(cache, n)[a]) : Waiting(cache, n)[a][i] = x
         /\ \A x : x \in AllQueued(n) <=> \E a \in Interface : x \in Queued(n, a)
         /\ \A x : x \in SentIds(n) <=> \E k \in 1 .. Len(out[n]) : out[n][k].id = x
PROOF
  <1>1. ASSUME NEW a \in Interface, NEW x
        PROVE  x \in Queued(n, a) <=> \E i \in 1 .. Len(Waiting(cache, n)[a]) : Waiting(cache, n)[a][i] = x
    <2>1. Queued(n, a) = Range(Waiting(cache, n)[a])
      <3>1. CASE cache[n][a].state = "none"
        <4>1. Waiting(cache, n)[a] = <<>>
          BY <3>1 DEF Waiting, QueueOf
        <4> QED BY <3>1, <4>1 DEF Queued, Range
      <3>2. CASE cache[n][a].state # "none"
        BY <3>2 DEF Queued, Waiting, QueueOf
      <3> QED BY <3>1, <3>2
    <2>2. DOMAIN Waiting(cache, n)[a] = 1 .. Len(Waiting(cache, n)[a])
      OBVIOUS
    <2> QED BY <2>1, <2>2 DEF Range
  <1>2. \A x : x \in AllQueued(n) <=> \E a \in Interface : x \in Queued(n, a)
    BY DEF AllQueued
  <1>3. \A x : x \in SentIds(n) <=> \E k \in 1 .. Len(out[n]) : out[n][k].id = x
    <2>1. DOMAIN out[n] = 1 .. Len(out[n])
      BY DEF TypeOK
    <2> QED BY <2>1 DEF SentIds
  <1> QED BY <1>1, <1>2, <1>3

LEMMA AccountImplies == AccountInv => PacketsAccounted /\ InOrder
PROOF
  <1> SUFFICES ASSUME AccountInv PROVE PacketsAccounted /\ InOrder
    OBVIOUS
  <1>1. InOrder
    <2> SUFFICES ASSUME NEW n \in Node, NEW i \in DOMAIN out[n], NEW j \in DOMAIN out[n],
                        i < j, out[n][i].to = out[n][j].to
                 PROVE  out[n][i].id < out[n][j].id
      BY DEF InOrder
    <2>1. DOMAIN out[n] = 1 .. Len(out[n]) /\ SentSorted(out[n])
      BY DEF AccountInv, NodeInv
    <2> QED BY <2>1 DEF SentSorted
  <1>2. ASSUME NEW n \in Node
        PROVE  /\ AllQueued(n) \cup SentIds(n) \cup dropped[n] = 1 .. given[n]
               /\ AllQueued(n) \cap SentIds(n) = {} /\ AllQueued(n) \cap dropped[n] = {}
               /\ SentIds(n) \cap dropped[n] = {}
               /\ \A i, j \in DOMAIN out[n] : out[n][i].id = out[n][j].id => i = j
               /\ \A a, b \in Interface : Queued(n, a) \cap Queued(n, b) # {} => a = b
               /\ \A a \in Interface : Queued(n, a) # {} => cache[n][a].state = "pending"
    <2> DEFINE Q == Waiting(cache, n)
               o == out[n]
               d == dropped[n]
               g == given[n]
    <2>1. NodeInv(Q, o, d, g) /\ OnlyPendingWait(cache, n) /\ TypeOK
      BY DEF AccountInv, TimersInv
    <2>2. Q \in [Interface -> Seq(Nat)] /\ o \in Seq(Packet) /\ d \subseteq 1 .. g /\ g \in Nat
      BY <2>1 DEF NodeInv
    <2>3. /\ \A a \in Interface : \A x : x \in Queued(n, a) <=> \E i \in 1 .. Len(Q[a]) : Q[a][i] = x
          /\ \A x : x \in AllQueued(n) <=> \E a \in Interface : x \in Queued(n, a)
          /\ \A x : x \in SentIds(n) <=> \E k \in 1 .. Len(o) : o[k].id = x
      BY <2>1, <2>2, QueuedIsWaiting
    <2>4. \A a \in Interface : Len(Q[a]) # 0 => cache[n][a].state = "pending"
      BY <2>1 DEF OnlyPendingWait
    <2> HIDE DEF Q, o, d, g
    <2>5. ASSUME NEW x \in AllQueued(n)
          PROVE  x \in 1 .. g /\ x \notin d /\ x \notin SentIds(n)
      <3>1. PICK a \in Interface : x \in Queued(n, a)
        BY <2>3, <2>5
      <3>2. PICK i \in 1 .. Len(Q[a]) : Q[a][i] = x
        BY <2>3, <3>1
      <3>3. x \in 1 .. g /\ x \notin d
        BY <2>1, <3>2 DEF NodeInv, QueueIds
      <3>4. \A k \in 1 .. Len(o) : o[k].id # x
        BY <2>1, <3>2 DEF NodeInv, SentBefore
      <3> QED BY <2>3, <3>3, <3>4
    <2>6. ASSUME NEW x \in SentIds(n)
          PROVE  x \in 1 .. g /\ x \notin d
      BY <2>1, <2>3, <2>6 DEF NodeInv, SentOnce
    <2>7. ASSUME NEW x \in 1 .. g
          PROVE  x \in AllQueued(n) \cup SentIds(n) \cup d
      BY <2>1, <2>3, <2>7 DEF NodeInv, NoneLost
    <2>8. AllQueued(n) \cup SentIds(n) \cup d = 1 .. g
      BY <2>2, <2>5, <2>6, <2>7
    <2>9. \A i, j \in DOMAIN o : o[i].id = o[j].id => i = j
      <3>1. DOMAIN o = 1 .. Len(o)
        BY <2>2
      <3> QED BY <2>1, <3>1 DEF NodeInv, SentOnce
    <2>10. \A a, b \in Interface : Queued(n, a) \cap Queued(n, b) # {} => a = b
      <3> SUFFICES ASSUME NEW a \in Interface, NEW b \in Interface,
                          NEW x \in Queued(n, a), x \in Queued(n, b)
                   PROVE  a = b
        OBVIOUS
      <3>1. PICK i \in 1 .. Len(Q[a]) : Q[a][i] = x
        BY <2>3
      <3>2. PICK j \in 1 .. Len(Q[b]) : Q[b][j] = x
        BY <2>3
      <3> QED BY <2>1, <3>1, <3>2 DEF NodeInv, QueuesApart
    <2>11. \A a \in Interface : Queued(n, a) # {} => cache[n][a].state = "pending"
      <3> SUFFICES ASSUME NEW a \in Interface, NEW x \in Queued(n, a)
                   PROVE  cache[n][a].state = "pending"
        OBVIOUS
      <3>1. PICK i \in 1 .. Len(Q[a]) : Q[a][i] = x
        BY <2>3
      <3>2. Len(Q[a]) # 0
        BY <3>1
      <3> QED BY <2>4, <3>2
    <2> USE DEF o, d, g
    <2> QED BY <2>5, <2>6, <2>8, <2>9, <2>10, <2>11
  <1> QED BY <1>1, <1>2 DEF PacketsAccounted

(* No packet is lost, sent twice or sent out of the queue of a resolution  *)
(* that failed: for every flow, retry count and order of events, a packet  *)
(* handed to ARP waits in one queue, was sent once, or was dropped.        *)
THEOREM EveryPacketAccounted == Spec => []PacketsAccounted
PROOF BY AccountInvariant, AccountImplies, PTL

(* Packets for one next hop are sent in the order they were handed over,   *)
(* whether they waited for the resolution or not.                          *)
THEOREM PacketsInOrder == Spec => []InOrder
PROOF BY AccountInvariant, AccountImplies, PTL
=============================================================================
