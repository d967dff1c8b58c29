---------------------------- MODULE OspfNeighbor ----------------------------
(***************************************************************************)
(* The OSPF neighbour data structure (OSPFNeighbor.cc), its state machine  *)
(* (OSPFNeighborState*.cc) and the packet handlers (messagehandler/), as   *)
(* operators from the record of a router to that record.                   *)
(*                                                                         *)
(* A router has one neighbour, on a point-to-point interface, so           *)
(* NeedAdjacency() is TRUE and TwoWay is never entered.  An instance of an *)
(* LSA is its key and its sequence number; the key of the router LSA of a  *)
(* router is the router's ID.                                              *)
(***************************************************************************)
EXTENDS Integers, Sequences, SequencesExt

CONSTANTS
    Key,            \* LSA keys
    KeyOrder,       \* the keys, in the order in which an area keeps its LSAs
    HeadersPerDD    \* LSA headers that fit into a database description

Router == {1, 2}

ASSUME HeadersAssumption == HeadersPerDD \in Nat \ {0}
ASSUME KeyAssumption == Router \subseteq Key /\ KeyOrder \in Seq(Key) /\ Range(KeyOrder) = Key

Peer(n) == 3 - n

State == {"Down", "Init", "ExchangeStart", "Exchange", "Loading", "Full"}
Adjacent == {"Exchange", "Loading", "Full"}
Timer == {"inactivity", "dd", "update", "request"}

Instance == [key : Key, seq : Nat]

(* I_Init, M_More, MS_MasterSlave and the sequence number of a database    *)
(* description.                                                            *)
PacketID == [init : BOOLEAN, more : BOOLEAN, ms : BOOLEAN, seq : Nat]
NoDD == [type |-> "none"]

Hello == [type : {"hello"}, sees : BOOLEAN]
DD == [type : {"dd"}, id : PacketID, headers : Seq(Instance)]
Lsr == [type : {"lsr"}, keys : Seq(Key)]
LsuOrAck == [type : {"lsu", "ack"}, lsas : Seq(Instance)]
OspfPacket == Hello \cup DD \cup Lsr \cup LsuOrAck

(* out, seed and stop are the effects of a handler in progress, and as in   *)
(* NewNeighbor between events: the packets sent, the first sequence number  *)
(* for the next neighbour, and the rest of an update not to be looked at.   *)
NeighborType ==
    [id : Router, state : State, timers : SUBSET Timer, updateActive : BOOLEAN,
     requestActive : BOOLEAN, inited : BOOLEAN, ddSeq : Nat, role : {"Master", "Slave"},
     lastRcvd : PacketID, lastSent : DD \cup {NoDD}, summary : Seq(Instance),
     request : Seq(Instance), retrans : Seq(Instance), db : [Key -> Nat], young : SUBSET Key,
     transmitted : SUBSET (Key \X {0, 1}), acks : Seq(Instance), err : BOOLEAN,
     out : Seq(OspfPacket), seed : Nat, stop : BOOLEAN]

(* A neighbour before the first hello; db maps a key without LSA to 0.     *)
NewNeighbor(n, db) ==
    [id |-> n, state |-> "Down", timers |-> {}, updateActive |-> FALSE, requestActive |-> FALSE,
     inited |-> FALSE, ddSeq |-> 0, role |-> "Slave",
     lastRcvd |-> [init |-> TRUE, more |-> TRUE, ms |-> FALSE, seq |-> 0], lastSent |-> NoDD,
     summary |-> <<>>, request |-> <<>>, retrans |-> <<>>, db |-> db, young |-> {},
     transmitted |-> {}, acks |-> <<>>, err |-> FALSE,
     out |-> <<>>, seed |-> 0, stop |-> FALSE]

-----------------------------------------------------------------------------
(* The elements of a list that are in S, in their order. *)
Those(list, S) ==
    LET those[i \in 0 .. Len(list)] ==
            IF i = 0 THEN <<>>
            ELSE IF list[i] \in S THEN Append(those[i - 1], list[i]) ELSE those[i - 1]
    IN  those[Len(list)]

Send(s, p) == [s EXCEPT !.out = Append(@, p)]

(* scheduleAt() of a timer that is scheduled is a runtime error. *)
StartTimer(s, t) == [s EXCEPT !.timers = @ \cup {t}, !.err = @ \/ t \in s.timers]
ClearTimer(s, t) == [s EXCEPT !.timers = @ \ {t}]

StartUpdateRetransmissionTimer(s) == [StartTimer(s, "update") EXCEPT !.updateActive = TRUE]
ClearUpdateRetransmissionTimer(s) == [ClearTimer(s, "update") EXCEPT !.updateActive = FALSE]
StartRequestRetransmissionTimer(s) == [StartTimer(s, "request") EXCEPT !.requestActive = TRUE]
ClearRequestRetransmissionTimer(s) == [ClearTimer(s, "request") EXCEPT !.requestActive = FALSE]

(* Mutation: a timer is left running. *)
MutReset(s) ==
    [ClearTimer(ClearUpdateRetransmissionTimer(s), "dd")
        EXCEPT !.retrans = <<>>, !.summary = <<>>, !.request = <<>>, !.lastSent = NoDD]

Reset(s) ==
    LET t == ClearRequestRetransmissionTimer(
                 ClearUpdateRetransmissionTimer(ClearTimer(s, "dd"))) IN
    [t EXCEPT !.retrans = <<>>, !.summary = <<>>, !.request = <<>>, !.lastSent = NoDD]

InitFirstAdjacency(s) == [s EXCEPT !.ddSeq = s.seed, !.seed = @ + 1, !.inited = TRUE]
IncrementDDSequenceNumber(s) == [s EXCEPT !.ddSeq = @ + 1]

Headers(db, keys) == [i \in DOMAIN keys |-> [key |-> keys[i], seq |-> db[keys[i]]]]

(* CreateDatabaseSummary: the headers of all LSAs. *)
CreateDatabaseSummary(s) ==
    [s EXCEPT !.summary = @ \o Headers(s.db, Those(KeyOrder, {k \in Key : s.db[k] # 0}))]

SendDatabaseDescriptionPacket(s, init) ==
    LET k == IF HeadersPerDD < Len(s.summary) THEN HeadersPerDD ELSE Len(s.summary)
        rest == IF init THEN s.summary ELSE SubSeq(s.summary, k + 1, Len(s.summary))
        p == [type |-> "dd",
              id |-> [init |-> init, more |-> init \/ rest # <<>>,
                      ms |-> init \/ s.role = "Master", seq |-> s.ddSeq],
              headers |-> IF init THEN <<>> ELSE SubSeq(s.summary, 1, k)] IN
    [Send(s, p) EXCEPT !.summary = rest, !.lastSent = p]

RetransmitDatabaseDescriptionPacket(s) ==
    IF s.lastSent = NoDD THEN s ELSE Send(s, s.lastSent)

(* All requests fit into one packet. *)
SendLinkStateRequestPacket(s) ==
    Send(s, [type |-> "lsr", keys |-> [i \in DOMAIN s.request |-> s.request[i].key]])

SendUpdate(s, lsas) == Send(s, [type |-> "lsu", lsas |-> lsas])

OnList(list, k) == \E i \in DOMAIN list : list[i].key = k
WithoutKey(list, k) == Those(list, {x \in Instance : x.key # k})

AddToRetransmissionList(s, l) ==
    [s EXCEPT !.retrans =
        IF OnList(@, l.key) THEN [i \in DOMAIN @ |-> IF @[i].key = l.key THEN l ELSE @[i]]
        ELSE Append(@, l)]

-----------------------------------------------------------------------------
(* The state machine. *)

(* Mutation: the LSA is sent once only. *)
MutFloodOut(s, l) == [SendUpdate(s, <<l>>) EXCEPT !.transmitted = @ \cup {<<l.key, 0>>}]

(* Interface::FloodLSA, the part that sends an LSA to the neighbour: it is *)
(* put on the retransmission list.                                         *)
FloodOut(s, l) ==
    LET t == [SendUpdate(AddToRetransmissionList(s, l), <<l>>)
                 EXCEPT !.transmitted = @ \cup {<<l.key, 0>>}] IN
    IF s.updateActive THEN t ELSE StartUpdateRetransmissionTimer(t)

FloodOwnLSA(s) ==
    IF s.state \in Adjacent THEN FloodOut(s, [key |-> s.id, seq |-> s.db[s.id]]) ELSE s

(* NeighborState::ChangeState: the own router LSA is originated anew when  *)
(* an adjacency is completed or given up.  At that time nothing is on the  *)
(* request list.                                                           *)
ChangeState(s, newState) ==
    LET t == [s EXCEPT !.state = newState] IN
    IF "Full" \in {s.state, newState} THEN FloodOwnLSA([t EXCEPT !.db[s.id] = @ + 1]) ELSE t

TwoWayReceived(s) ==
    IF s.state # "Init" THEN s
    ELSE LET t == IF s.inited THEN IncrementDDSequenceNumber(s) ELSE InitFirstAdjacency(s) IN
         ChangeState(StartTimer(SendDatabaseDescriptionPacket(t, TRUE), "dd"), "ExchangeStart")

OneWayReceived(s) ==
    IF s.state \in {"Down", "Init"} THEN s ELSE ChangeState(Reset(s), "Init")

HelloReceived(s) ==
    IF s.state = "Down" THEN ChangeState(StartTimer(s, "inactivity"), "Init")
    ELSE StartTimer(ClearTimer(s, "inactivity"), "inactivity")

InactivityTimer(s) == IF s.state = "Down" THEN s ELSE ChangeState(Reset(s), "Down")

(* Mutation: the retransmission timer of the negotiation goes on. *)
MutNegotiationDone(s) ==
    [SendDatabaseDescriptionPacket(CreateDatabaseSummary(s), FALSE) EXCEPT !.state = "Exchange"]

NegotiationDone(s) ==
    ChangeState(
        ClearTimer(SendDatabaseDescriptionPacket(CreateDatabaseSummary(s), FALSE), "dd"),
        "Exchange")

(* SequenceNumberMismatch and BadLinkStateRequest. *)
ExchangeFailed(s) ==
    IF s.state \notin Adjacent THEN s
    ELSE ChangeState(
             StartTimer(
                 SendDatabaseDescriptionPacket(IncrementDDSequenceNumber(Reset(s)), TRUE), "dd"),
             "ExchangeStart")

ExchangeDone(s) ==
    IF s.state # "Exchange" THEN s
    ELSE IF s.request = <<>>
         THEN ChangeState(ClearRequestRetransmissionTimer(StartTimer(s, "dd")), "Full")
         ELSE ChangeState(StartTimer(s, "dd"), "Loading")

LoadingDone(s) == ChangeState(ClearRequestRetransmissionTimer(s), "Full")

DDRetransmissionTimer(s) ==
    CASE s.state = "ExchangeStart" -> StartTimer(RetransmitDatabaseDescriptionPacket(s), "dd")
      [] s.state \in {"Loading", "Full"} -> [s EXCEPT !.lastSent = NoDD]
      [] OTHER -> s

UpdateRetransmissionTimer(s) ==
    IF s.state \in Adjacent THEN StartUpdateRetransmissionTimer(SendUpdate(s, s.retrans)) ELSE s

RequestRetransmissionTimer(s) ==
    IF s.state \in {"Exchange", "Loading"}
    THEN StartRequestRetransmissionTimer(SendLinkStateRequestPacket(s)) ELSE s

RemoveFromRequestList(s, k) ==
    LET t == [s EXCEPT !.request = WithoutKey(@, k)] IN
    IF s.state = "Loading" /\ t.request = <<>> THEN LoadingDone(t) ELSE t

-----------------------------------------------------------------------------
(* HelloHandler. *)
ProcessHello(s, p) ==
    LET t == HelloReceived(s) IN IF p.sees THEN TwoWayReceived(t) ELSE OneWayReceived(t)

(* DatabaseDescriptionHandler. *)
AddNewer(s, headers) ==
    [s EXCEPT !.request = @ \o Those(headers, {h \in Instance : s.db[h.key] < h.seq})]

(* Mutation: the slave is done before it has described its own database.   *)
MutProcessDDPacket(s, p, inExchangeStart) ==
    LET listed == AddNewer(s, p.headers)
        Reply(t) == IF inExchangeStart THEN t ELSE SendDatabaseDescriptionPacket(t, FALSE) IN
    IF s.role = "Master"
    THEN LET t == IncrementDDSequenceNumber(listed) IN
         IF t.summary = <<>> /\ ~ p.id.more THEN ExchangeDone(t) ELSE Reply(t)
    ELSE LET t == Reply([listed EXCEPT !.ddSeq = p.id.seq]) IN
         IF ~ p.id.more THEN ExchangeDone(t) ELSE t

ProcessDDPacket(s, p, inExchangeStart) ==
    LET listed == AddNewer(s, p.headers)
        Reply(t) == IF inExchangeStart THEN t ELSE SendDatabaseDescriptionPacket(t, FALSE) IN
    IF s.role = "Master"
    THEN LET t == IncrementDDSequenceNumber(listed) IN
         IF t.summary = <<>> /\ ~ p.id.more THEN ExchangeDone(t) ELSE Reply(t)
    ELSE LET t == Reply([listed EXCEPT !.ddSeq = p.id.seq]) IN
         IF t.summary = <<>> /\ ~ p.id.more THEN ExchangeDone(t) ELSE t

StartRequests(s) ==
    IF s.request = <<>> \/ s.requestActive THEN s
    ELSE StartRequestRetransmissionTimer(
             ClearRequestRetransmissionTimer(SendLinkStateRequestPacket(s)))

DDInExchangeStart(s, p) ==
    LET Negotiated(role, seq) ==
            StartRequests(NegotiationDone(ProcessDDPacket(
                [s EXCEPT !.role = role, !.ddSeq = seq, !.lastRcvd = p.id], p, TRUE))) IN
    CASE p.id.init /\ Peer(s.id) > s.id -> Negotiated("Slave", p.id.seq)
      [] p.id.init /\ Peer(s.id) < s.id -> SendDatabaseDescriptionPacket(s, TRUE)
      [] ~ p.id.init /\ ~ p.id.ms /\ p.id.seq = s.ddSeq /\ Peer(s.id) < s.id ->
             Negotiated("Master", s.ddSeq)
      [] OTHER -> s

DDInExchange(s, p) ==
    CASE p.id = s.lastRcvd ->
             IF s.role = "Slave" THEN RetransmitDatabaseDescriptionPacket(s) ELSE s
      [] /\ p.id # s.lastRcvd /\ p.id.ms = (s.role = "Slave") /\ ~ p.id.init
         /\ p.id.seq = IF s.role = "Master" THEN s.ddSeq ELSE s.ddSeq + 1 ->
             StartRequests(ProcessDDPacket([s EXCEPT !.lastRcvd = p.id], p, FALSE))
      [] OTHER -> ExchangeFailed(s)

DDAfterExchange(s, p) ==
    IF p.id # s.lastRcvd \/ p.id.init \/ (s.role = "Slave" /\ s.lastSent = NoDD)
    THEN ExchangeFailed(s)
    ELSE IF s.role = "Slave" THEN RetransmitDatabaseDescriptionPacket(s) ELSE s

ProcessDD(s, p) ==
    CASE s.state = "Down" -> s
      [] s.state = "Init" -> TwoWayReceived(s)
      [] s.state = "ExchangeStart" -> DDInExchangeStart(s, p)
      [] s.state = "Exchange" -> DDInExchange(s, p)
      [] s.state \in {"Loading", "Full"} -> DDAfterExchange(s, p)

(* LinkStateRequestHandler: one update for each LSA, none when one is not  *)
(* in the database.                                                        *)
ProcessLsr(s, p) ==
    IF s.state \notin Adjacent THEN s
    ELSE IF \E i \in DOMAIN p.keys : s.db[p.keys[i]] = 0 THEN ExchangeFailed(s)
    ELSE [s EXCEPT !.out = @ \o [i \in DOMAIN p.keys |->
             [type |-> "lsu", lsas |-> Headers(s.db, <<p.keys[i]>>)]]]

(* Interface::FloodLSA of an LSA that came from the neighbour (here) or    *)
(* over another interface.  It is taken off the request list unless a      *)
(* newer one was requested, and sent unless the neighbour has it.          *)
FloodLSA(s, l, here) ==
    LET requested == {s.request[i].seq : i \in {j \in DOMAIN s.request : s.request[j].key = l.key}}
        t == IF requested = {} THEN s ELSE RemoveFromRequestList(s, l.key) IN
    CASE s.state \notin Adjacent \/ (\E q \in requested : l.seq < q) -> s
      [] s.state \in Adjacent /\ (here \/ l.seq \in requested) -> t
      [] s.state \in Adjacent /\ ~ here /\ (\A q \in requested : l.seq > q) -> FloodOut(t, l)

(* LinkStateUpdateHandler, a newer instance: it is flooded, the key is     *)
(* taken off the retransmission list if there was an older instance, the   *)
(* LSA is installed, and acknowledged if it replaces an older instance and *)
(* came from the neighbour.  An instance that follows the last one within  *)
(* MIN_LS_ARRIVAL is ignored.                                              *)
NewerLsa(s, l, here) ==
    LET known == s.db[l.key] # 0
        t == FloodLSA(s, l, here) IN
    IF l.key \in s.young THEN s
    ELSE [t EXCEPT !.db[l.key] = l.seq, !.young = @ \cup {l.key},
             !.retrans = IF known THEN WithoutKey(@, l.key) ELSE @,
             !.acks = IF known /\ here /\ t.state \in Adjacent THEN Append(@, l) ELSE @]

(* Mutation: a duplicate is not acknowledged. *)
MutDuplicateLsa(s, l) == [s EXCEPT !.retrans = WithoutKey(@, l.key)]

(* A duplicate is an implied acknowledgement, or it is acknowledged.       *)
DuplicateLsa(s, l) ==
    IF OnList(s.retrans, l.key) THEN [s EXCEPT !.retrans = WithoutKey(@, l.key)]
    ELSE Send(s, [type |-> "ack", lsas |-> <<l>>])

(* Mutation: it need not be one that was requested. *)
MutBadLinkStateRequest(s, l) == s.db[l.key] >= l.seq

(* What was requested arrives, and it is not newer. *)
BadLinkStateRequest(s, l) == s.db[l.key] >= l.seq /\ OnList(s.request, l.key)

(* An older LSA is answered with the one in the database. *)
OlderLsa(s, l) ==
    IF \E a \in {0, 1} : <<l.key, a>> \in s.transmitted THEN s
    ELSE SendUpdate(s, <<[key |-> l.key, seq |-> s.db[l.key]]>>)

ProcessLsa(s, l) ==
    IF s.stop THEN s
    ELSE IF BadLinkStateRequest(s, l) THEN [ExchangeFailed(s) EXCEPT !.stop = TRUE]
    ELSE CASE s.db[l.key] < l.seq -> NewerLsa(s, l, TRUE)
           [] s.db[l.key] = l.seq -> DuplicateLsa(s, l)
           [] s.db[l.key] > l.seq -> OlderLsa(s, l)

ProcessLsas(s, lsas) ==
    LET after[i \in 0 .. Len(lsas)] == IF i = 0 THEN s ELSE ProcessLsa(after[i - 1], lsas[i])
    IN  after[Len(lsas)]

ProcessLsu(s, p) == IF s.state \in Adjacent THEN ProcessLsas(s, p.lsas) ELSE s

(* LinkStateAcknowledgementHandler. *)
Acknowledged(s, lsas) == [s EXCEPT !.retrans = Those(@, Instance \ Range(lsas))]

ProcessAck(s, p) ==
    IF s.state \notin Adjacent THEN s
    ELSE LET t == Acknowledged(s, p.lsas) IN
         IF t.retrans = <<>> THEN ClearUpdateRetransmissionTimer(t) ELSE t

(* MessageHandler::ProcessPacket. *)
ProcessPacket(s, p) ==
    CASE p.type = "hello" -> ProcessHello(s, p)
      [] p.type = "dd" -> ProcessDD(s, p)
      [] p.type = "lsr" -> ProcessLsr(s, p)
      [] p.type = "lsu" -> ProcessLsu(s, p)
      [] p.type = "ack" -> ProcessAck(s, p)

(* SendDelayedAcknowledgements, in one packet. *)
SendDelayedAcknowledgements(s) ==
    [Send(s, [type |-> "ack", lsas |-> s.acks]) EXCEPT !.acks = <<>>]

(* A second passes in AgeDatabase: LSAs are no longer as new as            *)
(* MIN_LS_ARRIVAL, and AgeTransmittedLSAList forgets those flooded before. *)
AgeDatabase(s) ==
    [s EXCEPT !.young = {}, !.transmitted = {<<e[1], 1>> : e \in {x \in @ : x[2] = 0}}]
=============================================================================
