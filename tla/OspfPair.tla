------------------------------ MODULE OspfPair ------------------------------
(***************************************************************************)
(* Two OSPF routers at the ends of a point-to-point link: the adjacency    *)
(* they form with hellos, the exchange of database descriptions, and the   *)
(* flooding of LSAs with acknowledgements and retransmissions, over a link *)
(* that may lose packets.                                                  *)
(***************************************************************************)
EXTENDS OspfNeighbor

CONSTANT
    Scenario        \* what the routers start with and what may go wrong

ScenarioType ==
    [dbs : [Router -> [Key -> Nat]], lossy : SUBSET {"hello", "dd", "lsr", "lsu", "ack", "init"},
     lost : Nat, early : Nat, expired : Nat, learn : SUBSET (Router \X Key)]

ASSUME ScenarioAssumption == Scenario \subseteq ScenarioType

VARIABLES
    router,         \* the two routers
    net,            \* net[n]: packets on their way to n
    seed,           \* Neighbor::ddSequenceNumberInitSeed
    left            \* the scenario, with what may still go wrong

vars == <<router, net, seed, left>>

Init ==
    /\ left \in Scenario
    /\ router = [n \in Router |-> NewNeighbor(n, left.dbs[n])]
    /\ net = [n \in Router |-> <<>>]
    /\ seed = 0

(* The record a handler starts from, and what becomes of the one it ends   *)
(* with when the packets on their way to n are then `inbox'.               *)
Begin(n) == [router[n] EXCEPT !.seed = seed]
Settled(s) == [s EXCEPT !.out = <<>>, !.seed = 0, !.stop = FALSE]

End(n, result, inbox) ==
    \E s \in {result} :
        /\ router' = [router EXCEPT ![n] = Settled(s)]
        /\ net' = [net EXCEPT ![n] = inbox, ![Peer(n)] = @ \o s.out]
        /\ seed' = s.seed

(* Timers run for a second or more and packets arrive within milliseconds: *)
(* a timer expires when no packet is on its way, or early, left.early      *)
(* times.                                                                  *)
Idle == \A n \in Router : net[n] = <<>>

Expires ==
    \/ Idle /\ UNCHANGED left
    \/ ~ Idle /\ left.early > 0 /\ left' = [left EXCEPT !.early = @ - 1]

ReceivePacket(n) ==
    /\ net[n] # <<>>
    /\ End(n, ProcessPacket(Begin(n), Head(net[n])), Tail(net[n]))
    /\ UNCHANGED left

LosePacket(n) ==
    /\ net[n] # <<>> /\ left.lost > 0
    /\ LET p == Head(net[n]) IN
       p.type \in left.lossy \/ (p.type = "dd" /\ p.id.init /\ "init" \in left.lossy)
    /\ net' = [net EXCEPT ![n] = Tail(@)]
    /\ left' = [left EXCEPT !.lost = @ - 1]
    /\ UNCHANGED <<router, seed>>

(* A new instance of a third router's LSA arrives on another interface.    *)
LearnLSA(n, k) ==
    /\ <<n, k>> \in left.learn
    /\ End(n, NewerLsa(Begin(n), [key |-> k, seq |-> router[n].db[k] + 1], FALSE), net[n])
    /\ left' = [left EXCEPT !.learn = @ \ {<<n, k>>}]

(* The timers of the interface. *)
HelloTimer(n) ==
    /\ Expires
    /\ End(n, Send(Begin(n), [type |-> "hello", sees |-> router[n].state # "Down"]), net[n])

AcknowledgementTimer(n) ==
    /\ router[n].acks # <<>> /\ Expires
    /\ End(n, SendDelayedAcknowledgements(Begin(n)), net[n])

(* The timers of the neighbour. *)
Fired(n, t) == [Begin(n) EXCEPT !.timers = @ \ {t}]

DDTimer(n) ==
    /\ "dd" \in router[n].timers /\ Expires
    /\ End(n, DDRetransmissionTimer(Fired(n, "dd")), net[n])

UpdateTimer(n) ==
    /\ "update" \in router[n].timers /\ Expires
    /\ End(n, UpdateRetransmissionTimer(Fired(n, "update")), net[n])

RequestTimer(n) ==
    /\ "request" \in router[n].timers /\ Expires
    /\ End(n, RequestRetransmissionTimer(Fired(n, "request")), net[n])

(* No hello has arrived for RouterDeadInterval. *)
InactivityTimerExpired(n) ==
    /\ "inactivity" \in router[n].timers /\ left.expired > 0
    /\ End(n, InactivityTimer(Fired(n, "inactivity")), net[n])
    /\ left' = [left EXCEPT !.expired = @ - 1]

(* The timer of the router that ages its database every second. *)
AgeTimer(n) ==
    /\ router[n].young # {} \/ router[n].transmitted # {}
    /\ Expires
    /\ End(n, AgeDatabase(Begin(n)), net[n])

Next ==
    \E n \in Router :
        \/ ReceivePacket(n) \/ LosePacket(n) \/ HelloTimer(n) \/ AcknowledgementTimer(n)
        \/ DDTimer(n) \/ UpdateTimer(n) \/ RequestTimer(n) \/ InactivityTimerExpired(n)
        \/ AgeTimer(n) \/ \E k \in Key \ Router : LearnLSA(n, k)

Spec == Init /\ [][Next]_vars

(* Packets on their way arrive, and the simulation kernel delivers every   *)
(* timer: one that is pending whenever the link gets idle expires at last. *)
(* (The weaker fairness of two timers together is enough.)                 *)
Fairness ==
    \A n \in Router :
        /\ WF_vars(ReceivePacket(n)) /\ SF_vars(HelloTimer(n)) /\ SF_vars(UpdateTimer(n))
        /\ SF_vars(DDTimer(n) \/ RequestTimer(n)) /\ SF_vars(AcknowledgementTimer(n) \/ AgeTimer(n))

FairSpec == Spec /\ Fairness

-----------------------------------------------------------------------------
(* Every variable has its type. *)
TypeOK ==
    /\ router \in [Router -> NeighborType] /\ net \in [Router -> Seq(OspfPacket)]
    /\ seed \in Nat /\ left \in ScenarioType

(* No timer is scheduled that is already scheduled: every handler clears   *)
(* what an interrupted exchange or an earlier state may have left running. *)
(* No variable leaves its type.                                            *)
NoRuntimeError == TypeOK /\ \A n \in Router : ~ router[n].err

(* The exchange is complete when a router leaves it: it has described its  *)
(* whole database, and in state Full it has every LSA it asked for.        *)
ExchangeComplete ==
    \A n \in Router :
        /\ router[n].state \in {"Loading", "Full"} => router[n].summary = <<>>
        /\ router[n].state = "Full" => router[n].request = <<>>

(* What waits for an answer has a timer that will repeat it, and the flags *)
(* that say a timer is active agree with the timers.                       *)
TimersArmed ==
    \A n \in Router :
        LET s == router[n] IN
        /\ s.state # "Down" <=> "inactivity" \in s.timers
        /\ s.updateActive <=> "update" \in s.timers
        /\ s.requestActive <=> "request" \in s.timers
        /\ s.state = "ExchangeStart" => "dd" \in s.timers
        /\ s.retrans # <<>> => "update" \in s.timers
        /\ s.request # <<>> => "request" \in s.timers

(* Updates on their way to n. *)
Coming(n, k, seq) ==
    \E i \in DOMAIN net[n] : net[n][i].type = "lsu" /\ Contains(net[n][i].lsas, [key |-> k, seq |-> seq])

BothFull == \A n \in Router : router[n].state = "Full"

(* When both routers are in state Full, neither has an LSA older than the  *)
(* other's, unless it is on its way or the other one will send it again.   *)
DatabasesAgree ==
    BothFull =>
        \A n \in Router, k \in Key :
            LET seq == router[Peer(n)].db[k] IN
            \/ router[n].db[k] >= seq
            \/ Coming(n, k, seq)
            \/ Contains(router[Peer(n)].retrans, [key |-> k, seq |-> seq])

(* An adjacency both routers have completed is given up only when an       *)
(* inactivity timer expires: no packet that was delayed or sent again in   *)
(* the exchange makes one of them start over.                              *)
AdjacencyKept ==
    [][BothFull /\ left'.expired = left.expired => BothFull']_vars

(* The adjacency is formed, and the databases become equal and stay so. *)
AdjacencyForms ==
    <>[] /\ BothFull /\ router[1].db = router[2].db
         /\ \A n \in Router : router[n].retrans = <<>>
=============================================================================
