-------------------------- MODULE OspfPair_proofs --------------------------
(***************************************************************************)
(* Proofs about OspfPair, for all sets of LSA keys, sizes of database      *)
(* descriptions and scenarios: the timers of a neighbour and what its      *)
(* states promise.                                                         *)
(***************************************************************************)
EXTENDS OspfPair, Iteration, SequenceTheorems

(* The timers each state of a neighbour may or must have. *)
TimersInv(s) ==
    /\ s.state # "Down" <=> "inactivity" \in s.timers
    /\ s.updateActive <=> "update" \in s.timers
    /\ s.requestActive <=> "request" \in s.timers
    /\ "update" \in s.timers => s.state \in Adjacent
    /\ "request" \in s.timers => s.state \in {"Exchange", "Loading"}
    /\ "dd" \in s.timers => s.state \in {"ExchangeStart", "Loading", "Full"}
    /\ s.state = "ExchangeStart" => "dd" \in s.timers
    /\ s.retrans # <<>> => "update" \in s.timers

(* What holds in the middle of a handler too, with requests to be sent. *)
Armed(s) == s \in NeighborType /\ ~ s.err /\ TimersInv(s)

Requests(s) == s.request # <<>> => "request" \in s.timers

Complete(s) ==
    /\ s.state \in {"Loading", "Full"} => s.summary = <<>>
    /\ s.state = "Full" => s.request = <<>>

(* The inductive invariant of a neighbour. *)
Good(s) == Armed(s) /\ Requests(s) /\ Complete(s)

-----------------------------------------------------------------------------
(* Lists. *)

LEMMA ThoseType ==
  ASSUME NEW S, NEW list \in Seq(S), NEW T
  PROVE  /\ Those(list, T) \in Seq(S)
         /\ list = <<>> => Those(list, T) = <<>>
PROOF
  <1>n. PICK n : n = Len(list) OBVIOUS
  <1>e. PICK e : e = <<>> OBVIOUS
  <1>l. PICK L : L = Seq(S) OBVIOUS
  <1> DEFINE Turn(i, x) == IF list[i] \in T THEN Append(x, list[i]) ELSE x
             P(f) == f = [i \in 0 .. n |-> IF i = 0 THEN e ELSE Turn(i, f[i - 1])]
             those == CHOOSE f : P(f)
  <1>1. n \in Nat /\ e \in L BY <1>n, <1>e, <1>l
  <1>2. \A i \in 1 .. n, x \in L : Turn(i, x) \in L BY <1>n, <1>l
  <1>3. Those(list, T) = those[n] BY <1>n, <1>e DEF Those
  <1>4. list = <<>> => n = 0 BY <1>n
  <1> HIDE DEF Turn
  <1>5. \E f : P(f)
    <2> DEFINE step == [i \in 1 .. n |-> [x \in L |-> Turn(i, x)]]
    <2>1. step \in [1 .. n -> [L -> L]] BY <1>2
    <2>2. \A i \in 1 .. n, x \in L : step[i][x] = Turn(i, x) OBVIOUS
    <2> HIDE DEF step
    <2>3. PICK f \in [0 .. n -> L] : f[0] = e /\ \A i \in 1 .. n : f[i] = step[i][f[i - 1]]
      BY <1>1, <2>1, LoopExists
    <2>4. ASSUME NEW i \in 0 .. n
          PROVE  f[i] = IF i = 0 THEN e ELSE Turn(i, f[i - 1])
      <3>1. CASE i = 0 BY <2>3, <3>1
      <3>2. CASE i # 0
        <4>1. i \in 1 .. n /\ i - 1 \in 0 .. n BY <1>1, <3>2
        <4> QED BY <2>2, <2>3, <3>2, <4>1
      <3> QED BY <3>1, <3>2
    <2>5. f = [i \in 0 .. n |-> IF i = 0 THEN e ELSE Turn(i, f[i - 1])]
      BY <2>4
    <2> QED BY <2>5
  <1>6. P(those)
    BY <1>5, Zenon
  <1> HIDE DEF those
  <1>7. those[0] = e /\ \A i \in 1 .. n : those[i] = Turn(i, those[i - 1])
    BY <1>1, <1>6
  <1> HIDE DEF P
  <1>8. those[n] \in L
    <2> DEFINE D == {i \in 0 .. n : those[i] \in L}
    <2>1. 0 \in D BY <1>1, <1>7
    <2>2. \A i \in 1 .. n : i - 1 \in D => i \in D BY <1>2, <1>7
    <2>3. \A i \in 0 .. n : i \in D
      <3> HIDE DEF D
      <3> QED BY <1>1, <2>1, <2>2, UpTo
    <2> QED BY <1>1, <2>3
  <1> QED BY <1>e, <1>l, <1>3, <1>4, <1>7, <1>8

LEMMA PickType ==
  ASSUME NEW list \in Seq(Instance), NEW T
  PROVE  Those(list, T) \in Seq(Instance) /\ (list = <<>> => Those(list, T) = <<>>)
  BY ThoseType

LEMMA HeadersType ==
  ASSUME NEW db \in [Key -> Nat], NEW keys \in Seq(Key)
  PROVE  Headers(db, keys) \in Seq(Instance)
PROOF
  <1>1. DOMAIN keys = 1 .. Len(keys) /\ Len(keys) \in Nat
    OBVIOUS
  <1>2. \A i \in DOMAIN keys : [key |-> keys[i], seq |-> db[keys[i]]] \in Instance
    BY <1>1 DEF Instance
  <1>3. Headers(db, keys) \in [1 .. Len(keys) -> Instance]
    BY <1>1, <1>2 DEF Headers
  <1> QED BY <1>1, <1>3

-----------------------------------------------------------------------------
(* What an operation leaves alone, of what the invariant is about. *)
Keeps(s, t) ==
    /\ t \in NeighborType /\ t.id = s.id /\ t.state = s.state
    /\ t.summary = s.summary /\ t.request = s.request

KeepsTimers(s, t) ==
    /\ t.timers = s.timers /\ t.updateActive = s.updateActive
    /\ t.requestActive = s.requestActive /\ t.retrans = s.retrans /\ t.err = s.err

Neutral(s, t) == Keeps(s, t) /\ KeepsTimers(s, t)

LEMMA NeutralGood ==
  ASSUME NEW s, NEW t, Neutral(s, t)
  PROVE  /\ Armed(s) => Armed(t)
         /\ Requests(s) => Requests(t)
         /\ Complete(s) => Complete(t)
         /\ Good(s) => Good(t)
  BY DEF Neutral, Keeps, KeepsTimers, Good, Armed, TimersInv, Requests, Complete

LEMMA NeutralTwice ==
  ASSUME NEW s, NEW t, NEW u, Neutral(s, t), Neutral(t, u)
  PROVE  Neutral(s, u)
  BY DEF Neutral, Keeps, KeepsTimers

LEMMA SendNeutral ==
  ASSUME NEW s \in NeighborType, NEW p \in OspfPacket
  PROVE  Neutral(s, Send(s, p))
PROOF
  <1>1. Append(s.out, p) \in Seq(OspfPacket)
    <2>1. s.out \in Seq(OspfPacket) BY DEF NeighborType
    <2> QED BY <2>1
  <1>2. Send(s, p) \in NeighborType
    BY <1>1 DEF Send, NeighborType
  <1> QED BY <1>2 DEF Neutral, Keeps, KeepsTimers, Send, NeighborType

LEMMA SendUpdateNeutral ==
  ASSUME NEW s \in NeighborType, NEW lsas \in Seq(Instance)
  PROVE  Neutral(s, SendUpdate(s, lsas))
PROOF
  <1>1. [type |-> "lsu", lsas |-> lsas] \in OspfPacket
    BY DEF OspfPacket, LsuOrAck
  <1> QED BY <1>1, SendNeutral DEF SendUpdate

LEMMA StartTimerKeeps ==
  ASSUME NEW s \in NeighborType, NEW x \in Timer
  PROVE  LET t == StartTimer(s, x) IN
         /\ Keeps(s, t)
         /\ t.timers = s.timers \cup {x} /\ t.err = (s.err \/ x \in s.timers)
         /\ t.updateActive = s.updateActive /\ t.requestActive = s.requestActive
         /\ t.retrans = s.retrans
PROOF
  <1>1. StartTimer(s, x) \in NeighborType
    BY DEF StartTimer, NeighborType
  <1> QED BY <1>1 DEF Keeps, StartTimer, NeighborType

LEMMA ClearTimerKeeps ==
  ASSUME NEW s \in NeighborType, NEW x \in Timer
  PROVE  LET t == ClearTimer(s, x) IN
         /\ Keeps(s, t)
         /\ t.timers = s.timers \ {x} /\ t.err = s.err
         /\ t.updateActive = s.updateActive /\ t.requestActive = s.requestActive
         /\ t.retrans = s.retrans
PROOF
  <1>1. ClearTimer(s, x) \in NeighborType
    BY DEF ClearTimer, NeighborType
  <1> QED BY <1>1 DEF Keeps, ClearTimer, NeighborType

LEMMA StartUpdateKeeps ==
  ASSUME NEW s \in NeighborType
  PROVE  LET t == StartUpdateRetransmissionTimer(s) IN
         /\ Keeps(s, t)
         /\ t.timers = s.timers \cup {"update"} /\ t.err = (s.err \/ "update" \in s.timers)
         /\ t.updateActive = TRUE /\ t.requestActive = s.requestActive
         /\ t.retrans = s.retrans
PROOF
  <1>1. PICK u : u = StartTimer(s, "update") OBVIOUS
  <1>2. /\ Keeps(s, u)
        /\ u.timers = s.timers \cup {"update"} /\ u.err = (s.err \/ "update" \in s.timers)
        /\ u.requestActive = s.requestActive /\ u.retrans = s.retrans
    BY <1>1, StartTimerKeeps DEF Timer
  <1>3. PICK t : t = [u EXCEPT !.updateActive = TRUE] OBVIOUS
  <1>4. t \in NeighborType /\ Keeps(u, t) /\ t.updateActive = TRUE /\ t.timers = u.timers
        /\ t.err = u.err /\ t.requestActive = u.requestActive /\ t.retrans = u.retrans
    <2>1. u \in NeighborType BY <1>2 DEF Keeps
    <2>2. t \in NeighborType BY <1>3, <2>1 DEF NeighborType
    <2> QED BY <1>3, <2>1, <2>2 DEF Keeps, NeighborType
  <1>5. StartUpdateRetransmissionTimer(s) = t
    BY <1>1, <1>3 DEF StartUpdateRetransmissionTimer
  <1> QED BY <1>2, <1>4, <1>5 DEF Keeps

LEMMA StartRequestKeeps ==
  ASSUME NEW s \in NeighborType
  PROVE  LET t == StartRequestRetransmissionTimer(s) IN
         /\ Keeps(s, t)
         /\ t.timers = s.timers \cup {"request"} /\ t.err = (s.err \/ "request" \in s.timers)
         /\ t.requestActive = TRUE /\ t.updateActive = s.updateActive
         /\ t.retrans = s.retrans
PROOF
  <1>1. PICK u : u = StartTimer(s, "request") OBVIOUS
  <1>2. /\ Keeps(s, u)
        /\ u.timers = s.timers \cup {"request"} /\ u.err = (s.err \/ "request" \in s.timers)
        /\ u.updateActive = s.updateActive /\ u.retrans = s.retrans
    BY <1>1, StartTimerKeeps DEF Timer
  <1>3. PICK t : t = [u EXCEPT !.requestActive = TRUE] OBVIOUS
  <1>4. t \in NeighborType /\ Keeps(u, t) /\ t.requestActive = TRUE /\ t.timers = u.timers
        /\ t.err = u.err /\ t.updateActive = u.updateActive /\ t.retrans = u.retrans
    <2>1. u \in NeighborType BY <1>2 DEF Keeps
    <2>2. t \in NeighborType BY <1>3, <2>1 DEF NeighborType
    <2> QED BY <1>3, <2>1, <2>2 DEF Keeps, NeighborType
  <1>5. StartRequestRetransmissionTimer(s) = t
    BY <1>1, <1>3 DEF StartRequestRetransmissionTimer
  <1> QED BY <1>2, <1>4, <1>5 DEF Keeps

LEMMA ClearRequestKeeps ==
  ASSUME NEW s \in NeighborType
  PROVE  LET t == ClearRequestRetransmissionTimer(s) IN
         /\ Keeps(s, t)
         /\ t.timers = s.timers \ {"request"} /\ t.err = s.err
         /\ t.requestActive = FALSE /\ t.updateActive = s.updateActive
         /\ t.retrans = s.retrans
PROOF
  <1>1. ClearRequestRetransmissionTimer(s) \in NeighborType
    BY DEF ClearRequestRetransmissionTimer, ClearTimer, NeighborType
  <1> QED BY <1>1 DEF Keeps, ClearRequestRetransmissionTimer, ClearTimer, NeighborType

LEMMA ClearUpdateKeeps ==
  ASSUME NEW s \in NeighborType
  PROVE  LET t == ClearUpdateRetransmissionTimer(s) IN
         /\ Keeps(s, t)
         /\ t.timers = s.timers \ {"update"} /\ t.err = s.err
         /\ t.updateActive = FALSE /\ t.requestActive = s.requestActive
         /\ t.retrans = s.retrans
PROOF
  <1>1. ClearUpdateRetransmissionTimer(s) \in NeighborType
    BY DEF ClearUpdateRetransmissionTimer, ClearTimer, NeighborType
  <1> QED BY <1>1 DEF Keeps, ClearUpdateRetransmissionTimer, ClearTimer, NeighborType

LEMMA ResetKeeps ==
  ASSUME NEW s \in NeighborType
  PROVE  LET t == Reset(s) IN
         /\ t \in NeighborType /\ t.id = s.id /\ t.state = s.state /\ t.err = s.err
         /\ t.timers = s.timers \ {"dd", "update", "request"}
         /\ t.request = <<>> /\ t.retrans = <<>> /\ t.summary = <<>>
         /\ t.updateActive = FALSE /\ t.requestActive = FALSE
PROOF
  <1>1. PICK a : a = ClearTimer(s, "dd") OBVIOUS
  <1>2. PICK b : b = ClearUpdateRetransmissionTimer(a) OBVIOUS
  <1>3. PICK c : c = ClearRequestRetransmissionTimer(b) OBVIOUS
  <1>4. Keeps(s, a) /\ a.timers = s.timers \ {"dd"} /\ a.err = s.err
    BY <1>1, ClearTimerKeeps DEF Timer
  <1>5. Keeps(a, b) /\ b.timers = a.timers \ {"update"} /\ b.err = a.err /\ ~ b.updateActive
    BY <1>2, <1>4, ClearUpdateKeeps DEF Keeps
  <1>6. Keeps(b, c) /\ c.timers = b.timers \ {"request"} /\ c.err = b.err
        /\ c.updateActive = FALSE /\ ~ c.requestActive
    BY <1>3, <1>5, ClearRequestKeeps DEF Keeps, NeighborType
  <1>7. PICK t : t = [c EXCEPT !.retrans = <<>>, !.summary = <<>>, !.request = <<>>, !.lastSent = NoDD]
    OBVIOUS
  <1>8. c \in NeighborType BY <1>6 DEF Keeps
  <1>9. t \in NeighborType
    <2>1. <<>> \in Seq(Instance) OBVIOUS
    <2> QED BY <1>7, <1>8, <2>1 DEF NeighborType
  <1>10. Reset(s) = t
    BY <1>1, <1>2, <1>3, <1>7 DEF Reset
  <1>11. /\ t.id = c.id /\ t.state = c.state /\ t.err = c.err /\ t.timers = c.timers
         /\ t.request = <<>> /\ t.retrans = <<>> /\ t.summary = <<>>
         /\ t.updateActive = c.updateActive /\ t.requestActive = c.requestActive
    BY <1>7, <1>8 DEF NeighborType
  <1>12. c.requestActive = FALSE BY <1>6, <1>8 DEF NeighborType
  <1> QED BY <1>4, <1>5, <1>6, <1>9, <1>10, <1>11, <1>12 DEF Keeps

-----------------------------------------------------------------------------
(* Packets that tell of the neighbour's own state. *)

LEMMA DDPacketKeeps ==
  ASSUME NEW s \in NeighborType, NEW init \in BOOLEAN
  PROVE  LET t == SendDatabaseDescriptionPacket(s, init) IN
         /\ t \in NeighborType /\ t.id = s.id /\ t.state = s.state /\ t.request = s.request
         /\ KeepsTimers(s, t)
         /\ init => t.summary = s.summary
         /\ s.summary = <<>> => t.summary = <<>>
PROOF
  <1>s. s.summary \in Seq(Instance) /\ Len(s.summary) \in Nat
    BY DEF NeighborType
  <1>1. PICK k \in Nat : k = IF HeadersPerDD < Len(s.summary) THEN HeadersPerDD ELSE Len(s.summary)
    BY <1>s, HeadersAssumption
  <1>2. PICK rest : rest = IF init THEN s.summary ELSE SubSeq(s.summary, k + 1, Len(s.summary))
    OBVIOUS
  <1>3. PICK headers : headers = IF init THEN <<>> ELSE SubSeq(s.summary, 1, k)
    OBVIOUS
  <1>4. rest \in Seq(Instance) /\ headers \in Seq(Instance)
    <2>1. SubSeq(s.summary, k + 1, Len(s.summary)) \in Seq(Instance)
      BY <1>s, <1>1, SubSeqProperties
    <2>2. SubSeq(s.summary, 1, k) \in Seq(Instance)
      BY <1>s, <1>1, SubSeqProperties
    <2>3. <<>> \in Seq(Instance) OBVIOUS
    <2> QED BY <1>s, <1>2, <1>3, <2>1, <2>2, <2>3
  <1>5. s.summary = <<>> => rest = <<>>
    <2> SUFFICES ASSUME s.summary = <<>>, ~ init PROVE rest = <<>>
      BY <1>2
    <2>1. Len(s.summary) = 0 BY <1>s
    <2>2. k = 0 BY <1>1, <2>1, HeadersAssumption
    <2>3. rest = SubSeq(s.summary, 1, 0) BY <1>2, <2>1, <2>2
    <2> QED BY <1>s, <2>3, SubSeqProperties
  <1>6. PICK p : p = [type |-> "dd",
              id |-> [init |-> init, more |-> init \/ rest # <<>>,
                      ms |-> init \/ s.role = "Master", seq |-> s.ddSeq],
              headers |-> headers]
    OBVIOUS
  <1>7. p \in DD
    <2>1. [init |-> init, more |-> init \/ rest # <<>>,
           ms |-> init \/ s.role = "Master", seq |-> s.ddSeq] \in PacketID
      BY DEF PacketID, NeighborType
    <2> QED BY <1>4, <1>6, <2>1 DEF DD
  <1>8. PICK u : u = Send(s, p) OBVIOUS
  <1>9. Neutral(s, u)
    BY <1>7, <1>8, SendNeutral DEF OspfPacket
  <1>10. PICK t : t = [u EXCEPT !.summary = rest, !.lastSent = p] OBVIOUS
  <1>11. u \in NeighborType BY <1>9 DEF Neutral, Keeps
  <1>12. t \in NeighborType
    BY <1>4, <1>7, <1>10, <1>11 DEF NeighborType
  <1>13. t.id = u.id /\ t.state = u.state /\ t.request = u.request /\ KeepsTimers(u, t)
         /\ t.summary = rest
    BY <1>10, <1>11 DEF NeighborType, KeepsTimers
  <1>14. SendDatabaseDescriptionPacket(s, init) = t
    BY <1>1, <1>2, <1>3, <1>6, <1>8, <1>10 DEF SendDatabaseDescriptionPacket
  <1> QED BY <1>2, <1>5, <1>9, <1>12, <1>13, <1>14 DEF Neutral, Keeps, KeepsTimers

LEMMA RetransmitDDNeutral ==
  ASSUME NEW s \in NeighborType
  PROVE  Neutral(s, RetransmitDatabaseDescriptionPacket(s))
PROOF
  <1>1. CASE s.lastSent = NoDD
    BY <1>1 DEF RetransmitDatabaseDescriptionPacket, Neutral, Keeps, KeepsTimers
  <1>2. CASE s.lastSent # NoDD
    <2>1. s.lastSent \in OspfPacket BY <1>2 DEF NeighborType, OspfPacket
    <2> QED BY <1>2, <2>1, SendNeutral DEF RetransmitDatabaseDescriptionPacket
  <1> QED BY <1>1, <1>2

LEMMA SendRequestNeutral ==
  ASSUME NEW s \in NeighborType
  PROVE  Neutral(s, SendLinkStateRequestPacket(s))
PROOF
  <1>1. PICK list \in Seq(Instance) : list = s.request BY DEF NeighborType
  <1>2. PICK keys : keys = [i \in DOMAIN list |-> list[i].key] OBVIOUS
  <1>3. keys \in Seq(Key)
    <2>1. ASSUME NEW i \in 1 .. Len(list) PROVE list[i].key \in Key
      <3>1. list[i] \in Instance OBVIOUS
      <3> QED BY <3>1 DEF Instance
    <2>2. keys \in [1 .. Len(list) -> Key] BY <1>2, <2>1
    <2> QED BY <2>2
  <1>4. [type |-> "lsr", keys |-> keys] \in OspfPacket
    BY <1>3 DEF OspfPacket, Lsr
  <1> QED BY <1>1, <1>2, <1>4, SendNeutral DEF SendLinkStateRequestPacket

LEMMA FloodOutKeeps ==
  ASSUME NEW s \in NeighborType, s.updateActive <=> "update" \in s.timers, NEW l \in Instance
  PROVE  LET t == FloodOut(s, l) IN
         /\ Keeps(s, t) /\ t.timers = s.timers \cup {"update"} /\ t.err = s.err
         /\ t.updateActive = TRUE /\ t.requestActive = s.requestActive
PROOF
  <1>1. PICK a : a = AddToRetransmissionList(s, l) OBVIOUS
  <1>2. Keeps(s, a) /\ a.timers = s.timers /\ a.err = s.err
        /\ a.updateActive = s.updateActive /\ a.requestActive = s.requestActive
    <2>1. PICK list : list = IF OnList(s.retrans, l.key)
                             THEN [i \in DOMAIN s.retrans |-> IF s.retrans[i].key = l.key THEN l ELSE s.retrans[i]]
                             ELSE Append(s.retrans, l)
      OBVIOUS
    <2>2. list \in Seq(Instance)
      <3>1. s.retrans \in Seq(Instance) BY DEF NeighborType
      <3>2. Append(s.retrans, l) \in Seq(Instance) BY <3>1
      <3>3. [i \in DOMAIN s.retrans |-> IF s.retrans[i].key = l.key THEN l ELSE s.retrans[i]]
                \in [1 .. Len(s.retrans) -> Instance]
        BY <3>1
      <3> QED BY <2>1, <3>1, <3>2, <3>3
    <2>3. a = [s EXCEPT !.retrans = list]
      BY <1>1, <2>1 DEF AddToRetransmissionList
    <2>4. a \in NeighborType BY <2>2, <2>3 DEF NeighborType
    <2> QED BY <2>3, <2>4 DEF Keeps, NeighborType
  <1>3. PICK b : b = SendUpdate(a, <<l>>) OBVIOUS
  <1>4. Neutral(a, b)
    <2>1. <<l>> \in Seq(Instance) /\ a \in NeighborType BY <1>2 DEF Keeps
    <2> QED BY <1>3, <2>1, SendUpdateNeutral
  <1>5. PICK c : c = [b EXCEPT !.transmitted = @ \cup {<<l.key, 0>>}] OBVIOUS
  <1>6. Neutral(b, c)
    <2>1. b \in NeighborType BY <1>4 DEF Neutral, Keeps
    <2>2. <<l.key, 0>> \in Key \X {0, 1} BY DEF Instance
    <2>3. c \in NeighborType BY <1>5, <2>1, <2>2 DEF NeighborType
    <2> QED BY <1>5, <2>1, <2>3 DEF Neutral, Keeps, KeepsTimers, NeighborType
  <1>7. FloodOut(s, l) = IF s.updateActive THEN c ELSE StartUpdateRetransmissionTimer(c)
    BY <1>1, <1>3, <1>5 DEF FloodOut
  <1>8. Keeps(s, c) /\ c.timers = s.timers /\ c.err = s.err
        /\ c.updateActive = s.updateActive /\ c.requestActive = s.requestActive
    BY <1>2, <1>4, <1>6 DEF Neutral, Keeps, KeepsTimers
  <1>9. s.updateActive \in BOOLEAN /\ c \in NeighborType BY <1>8 DEF NeighborType, Keeps
  <1>10. CASE s.updateActive
    <2>1. c.timers = s.timers \cup {"update"} BY <1>8, <1>10
    <2>2. c.updateActive = TRUE BY <1>8, <1>9, <1>10
    <2> QED BY <1>7, <1>8, <1>10, <2>1, <2>2
  <1>11. CASE ~ s.updateActive
    <2>1. PICK t : t = StartUpdateRetransmissionTimer(c) OBVIOUS
    <2>2. /\ Keeps(c, t) /\ t.timers = c.timers \cup {"update"}
          /\ t.err = (c.err \/ "update" \in c.timers)
          /\ t.updateActive = TRUE /\ t.requestActive = c.requestActive
      BY <1>9, <2>1, StartUpdateKeeps
    <2>3. t.err = s.err
      <3>1. "update" \notin c.timers BY <1>8, <1>11
      <3>2. c.err \in BOOLEAN BY <1>9 DEF NeighborType
      <3> QED BY <1>8, <2>2, <3>1, <3>2
    <2> QED BY <1>7, <1>8, <1>11, <2>1, <2>2, <2>3 DEF Keeps
  <1> QED BY <1>10, <1>11

-----------------------------------------------------------------------------
(* The state machine. *)

LEMMA OriginateKeeps ==
  ASSUME NEW s \in NeighborType, NEW x \in State
  PROVE  LET t == [[s EXCEPT !.state = x] EXCEPT !.db[s.id] = @ + 1] IN
         /\ t \in NeighborType /\ t.id = s.id /\ t.state = x /\ t.summary = s.summary
         /\ t.request = s.request /\ KeepsTimers(s, t)
PROOF
  <1>1. PICK a : a = [s EXCEPT !.state = x] OBVIOUS
  <1>2. a \in NeighborType BY <1>1 DEF NeighborType
  <1>3. s.id \in Key /\ s.db \in [Key -> Nat] BY KeyAssumption DEF NeighborType
  <1>4. PICK d : d = [s.db EXCEPT ![s.id] = @ + 1] OBVIOUS
  <1>5. d \in [Key -> Nat] BY <1>3, <1>4
  <1>6. PICK t : t = [a EXCEPT !.db = d] OBVIOUS
  <1>7. t \in NeighborType BY <1>2, <1>5, <1>6 DEF NeighborType
  <1>8. [[s EXCEPT !.state = x] EXCEPT !.db[s.id] = @ + 1] = t
    BY <1>1, <1>4, <1>6 DEF NeighborType
  <1>9. t.id = s.id /\ t.state = x /\ t.summary = s.summary /\ t.request = s.request
        /\ KeepsTimers(s, t)
    BY <1>1, <1>2, <1>6 DEF NeighborType, KeepsTimers
  <1> QED BY <1>7, <1>8, <1>9

LEMMA ChangeStateKeeps ==
  ASSUME NEW s \in NeighborType, NEW x \in State \ {"Full"},
         s.state # "Full" \/ x \notin Adjacent
  PROVE  LET t == ChangeState(s, x) IN
         /\ t \in NeighborType /\ t.id = s.id /\ t.state = x /\ t.summary = s.summary
         /\ t.request = s.request /\ KeepsTimers(s, t)
PROOF
  <1>1. PICK a : a = [s EXCEPT !.state = x] OBVIOUS
  <1>2. a \in NeighborType BY <1>1 DEF NeighborType
  <1>3. a.id = s.id /\ a.state = x /\ a.summary = s.summary
        /\ a.request = s.request /\ KeepsTimers(s, a)
    BY <1>1, <1>2 DEF NeighborType, KeepsTimers
  <1>4. PICK b : b = [[s EXCEPT !.state = x] EXCEPT !.db[s.id] = @ + 1] OBVIOUS
  <1>5. /\ b \in NeighborType /\ b.id = s.id /\ b.state = x /\ b.summary = s.summary
        /\ b.request = s.request /\ KeepsTimers(s, b)
    BY <1>4, OriginateKeeps
  <1>6. CASE s.state = "Full"
    <2>1. FloodOwnLSA(b) = b BY <1>5, <1>6 DEF FloodOwnLSA
    <2>2. ChangeState(s, x) = FloodOwnLSA(b) BY <1>4, <1>6 DEF ChangeState
    <2> QED BY <1>5, <2>1, <2>2
  <1>7. CASE s.state # "Full"
    <2>1. ChangeState(s, x) = a BY <1>1, <1>7 DEF ChangeState
    <2> QED BY <1>2, <1>3, <2>1
  <1> QED BY <1>6, <1>7

LEMMA ChangeToFullKeeps ==
  ASSUME NEW s \in NeighborType, s.updateActive <=> "update" \in s.timers
  PROVE  LET t == ChangeState(s, "Full") IN
         /\ t \in NeighborType /\ t.id = s.id /\ t.state = "Full" /\ t.summary = s.summary
         /\ t.request = s.request /\ t.timers = s.timers \cup {"update"} /\ t.err = s.err
         /\ t.updateActive = TRUE /\ t.requestActive = s.requestActive
PROOF
  <1>1. PICK b : b = [[s EXCEPT !.state = "Full"] EXCEPT !.db[s.id] = @ + 1] OBVIOUS
  <1>2. /\ b \in NeighborType /\ b.id = s.id /\ b.state = "Full" /\ b.summary = s.summary
        /\ b.request = s.request /\ KeepsTimers(s, b)
    BY <1>1, OriginateKeeps DEF State
  <1>3. PICK l : l = [key |-> b.id, seq |-> b.db[b.id]] OBVIOUS
  <1>4. l \in Instance
    <2>1. b.id \in Key /\ b.db \in [Key -> Nat] BY <1>2, KeyAssumption DEF NeighborType
    <2> QED BY <1>3, <2>1 DEF Instance
  <1>5. ChangeState(s, "Full") = FloodOut(b, l)
    BY <1>1, <1>2, <1>3 DEF ChangeState, FloodOwnLSA, Adjacent
  <1>6. b.updateActive <=> "update" \in b.timers BY <1>2 DEF KeepsTimers
  <1>7. PICK t : t = FloodOut(b, l) OBVIOUS
  <1>8. Keeps(b, t) /\ t.timers = b.timers \cup {"update"} /\ t.err = b.err
        /\ t.updateActive = TRUE /\ t.requestActive = b.requestActive
    BY <1>2, <1>4, <1>6, <1>7, FloodOutKeeps
  <1> QED BY <1>2, <1>5, <1>7, <1>8 DEF Keeps, KeepsTimers

LEMMA SummaryKeeps ==
  ASSUME NEW s \in NeighborType
  PROVE  LET t == CreateDatabaseSummary(s) IN
         /\ t \in NeighborType /\ t.id = s.id /\ t.state = s.state /\ t.request = s.request
         /\ KeepsTimers(s, t)
PROOF
  <1>1. PICK keys : keys = Those(KeyOrder, {k \in Key : s.db[k] # 0}) OBVIOUS
  <1>2. keys \in Seq(Key) BY <1>1, KeyAssumption, ThoseType
  <1>3. PICK headers : headers = Headers(s.db, keys) OBVIOUS
  <1>4. headers \in Seq(Instance)
    <2>1. s.db \in [Key -> Nat] BY DEF NeighborType
    <2> QED BY <1>2, <1>3, <2>1, HeadersType
  <1>5. PICK list : list = s.summary \o headers OBVIOUS
  <1>6. list \in Seq(Instance)
    <2>1. s.summary \in Seq(Instance) BY DEF NeighborType
    <2> QED BY <1>4, <1>5, <2>1
  <1>7. PICK t : t = [s EXCEPT !.summary = list] OBVIOUS
  <1>8. t \in NeighborType BY <1>6, <1>7 DEF NeighborType
  <1>9. t.id = s.id /\ t.state = s.state /\ t.request = s.request /\ KeepsTimers(s, t)
    BY <1>7 DEF NeighborType, KeepsTimers
  <1>10. CreateDatabaseSummary(s) = t
    BY <1>1, <1>3, <1>5, <1>7 DEF CreateDatabaseSummary
  <1> QED BY <1>8, <1>9, <1>10

LEMMA InitFirstNeutral ==
  ASSUME NEW s \in NeighborType
  PROVE  Neutral(s, InitFirstAdjacency(s))
PROOF
  <1>1. s.seed \in Nat /\ s.seed + 1 \in Nat BY DEF NeighborType
  <1>2. PICK q \in Nat : q = s.seed + 1 BY <1>1
  <1>3. PICK t : t = [s EXCEPT !.ddSeq = s.seed, !.seed = q, !.inited = TRUE] OBVIOUS
  <1>4. t \in NeighborType BY <1>1, <1>3 DEF NeighborType
  <1>5. InitFirstAdjacency(s) = t BY <1>2, <1>3 DEF InitFirstAdjacency, NeighborType
  <1>6. Neutral(s, t) BY <1>3, <1>4 DEF Neutral, Keeps, KeepsTimers, NeighborType
  <1> QED BY <1>5, <1>6

LEMMA IncrementNeutral ==
  ASSUME NEW s \in NeighborType
  PROVE  Neutral(s, IncrementDDSequenceNumber(s))
PROOF
  <1>1. s.ddSeq + 1 \in Nat BY DEF NeighborType
  <1>2. PICK q \in Nat : q = s.ddSeq + 1 BY <1>1
  <1>3. PICK t : t = [s EXCEPT !.ddSeq = q] OBVIOUS
  <1>4. t \in NeighborType BY <1>3 DEF NeighborType
  <1>5. IncrementDDSequenceNumber(s) = t
    BY <1>2, <1>3 DEF IncrementDDSequenceNumber, NeighborType
  <1>6. Neutral(s, t) BY <1>3, <1>4 DEF Neutral, Keeps, KeepsTimers, NeighborType
  <1> QED BY <1>5, <1>6

LEMMA TwoWayGood ==
  ASSUME NEW s, Good(s)
  PROVE  Good(TwoWayReceived(s))
PROOF
  <1>1. CASE s.state # "Init" BY <1>1 DEF TwoWayReceived
  <1>2. CASE s.state = "Init"
    <2>1. s \in NeighborType BY DEF Good, Armed
    <2>2. PICK a : a = IF s.inited THEN IncrementDDSequenceNumber(s) ELSE InitFirstAdjacency(s)
      OBVIOUS
    <2>3. Neutral(s, a) BY <2>1, <2>2, IncrementNeutral, InitFirstNeutral
    <2>4. Good(a) /\ a \in NeighborType /\ a.state = "Init"
      BY <1>2, <2>3, NeutralGood DEF Neutral, Keeps
    <2>5. PICK b : b = SendDatabaseDescriptionPacket(a, TRUE) OBVIOUS
    <2>6. /\ b \in NeighborType /\ b.state = "Init" /\ b.request = a.request
          /\ KeepsTimers(a, b)
      BY <2>4, <2>5, DDPacketKeeps
    <2>7. PICK c : c = StartTimer(b, "dd") OBVIOUS
    <2>8. /\ Keeps(b, c)
          /\ c.timers = b.timers \cup {"dd"} /\ c.err = (b.err \/ "dd" \in b.timers)
          /\ c.updateActive = b.updateActive /\ c.requestActive = b.requestActive
          /\ c.retrans = b.retrans
      BY <2>6, <2>7, StartTimerKeeps DEF Timer
    <2>9. PICK d : d = ChangeState(c, "ExchangeStart") OBVIOUS
    <2>10. /\ d \in NeighborType /\ d.state = "ExchangeStart" /\ d.request = c.request
           /\ KeepsTimers(c, d)
      BY <2>6, <2>8, <2>9, ChangeStateKeeps DEF Keeps, State, Adjacent
    <2>11. TwoWayReceived(s) = d
      BY <1>2, <2>2, <2>5, <2>7, <2>9 DEF TwoWayReceived
    <2>12. TimersInv(a) /\ ~ a.err /\ Requests(a) BY <2>4 DEF Good, Armed
    <2>13. "dd" \notin b.timers /\ ~ b.err /\ "request" \notin b.timers /\ b.request = <<>>
      BY <2>4, <2>6, <2>12 DEF TimersInv, KeepsTimers, Requests
    <2>14. ~ d.err BY <2>8, <2>10, <2>13 DEF KeepsTimers
    <2>15. TimersInv(d)
      BY <2>4, <2>6, <2>8, <2>10, <2>12 DEF TimersInv, KeepsTimers, Adjacent
    <2>16. d.request = <<>> BY <2>8, <2>10, <2>13 DEF Keeps
    <2> QED BY <2>10, <2>11, <2>14, <2>15, <2>16 DEF Good, Armed, Requests, Complete
  <1> QED BY <1>1, <1>2

(* A neighbour that is given up. *)
LEMMA GiveUpGood ==
  ASSUME NEW s \in NeighborType, ~ s.err, NEW x \in {"Down", "Init"},
         x = "Init" <=> "inactivity" \in s.timers
  PROVE  Good(ChangeState(Reset(s), x))
PROOF
  <1>1. PICK a : a = Reset(s) OBVIOUS
  <1>2. /\ a \in NeighborType /\ a.err = s.err
        /\ a.timers = s.timers \ {"dd", "update", "request"}
        /\ a.request = <<>> /\ a.retrans = <<>>
        /\ a.updateActive = FALSE /\ a.requestActive = FALSE
    BY <1>1, ResetKeeps
  <1>3. PICK b : b = ChangeState(a, x) OBVIOUS
  <1>4. /\ b \in NeighborType /\ b.state = x /\ b.request = a.request /\ KeepsTimers(a, b)
    BY <1>2, <1>3, ChangeStateKeeps DEF State, Adjacent
  <1>5. b.updateActive = FALSE /\ b.requestActive = FALSE /\ ~ b.err
    BY <1>2, <1>4 DEF KeepsTimers
  <1>6. TimersInv(b)
    BY <1>2, <1>4, <1>5 DEF TimersInv, KeepsTimers, Adjacent
  <1> QED BY <1>1, <1>2, <1>3, <1>4, <1>5, <1>6 DEF Good, Armed, Requests, Complete

LEMMA OneWayGood ==
  ASSUME NEW s, Good(s)
  PROVE  Good(OneWayReceived(s))
PROOF
  <1>1. CASE s.state \in {"Down", "Init"} BY <1>1 DEF OneWayReceived
  <1>2. CASE s.state \notin {"Down", "Init"}
    <2>1. s \in NeighborType /\ ~ s.err /\ "inactivity" \in s.timers
      BY <1>2 DEF Good, Armed, TimersInv
    <2> QED BY <1>2, <2>1, GiveUpGood DEF OneWayReceived
  <1> QED BY <1>1, <1>2

LEMMA InactivityGood ==
  ASSUME NEW s, Good(s)
  PROVE  "inactivity" \in s.timers =>
            Good(InactivityTimer([s EXCEPT !.timers = @ \ {"inactivity"}]))
PROOF
  <1> SUFFICES ASSUME "inactivity" \in s.timers
               PROVE  Good(InactivityTimer([s EXCEPT !.timers = @ \ {"inactivity"}]))
    OBVIOUS
  <1>1. s \in NeighborType /\ ~ s.err /\ s.state # "Down" BY DEF Good, Armed, TimersInv
  <1>2. PICK a : a = [s EXCEPT !.timers = @ \ {"inactivity"}] OBVIOUS
  <1>3. a \in NeighborType BY <1>1, <1>2 DEF NeighborType
  <1>4. "inactivity" \notin a.timers /\ a.err = s.err /\ a.state = s.state
    BY <1>1, <1>2 DEF NeighborType
  <1>5. Good(ChangeState(Reset(a), "Down")) BY <1>1, <1>3, <1>4, GiveUpGood
  <1> QED BY <1>1, <1>2, <1>4, <1>5 DEF InactivityTimer

LEMMA HelloReceivedGood ==
  ASSUME NEW s, Good(s)
  PROVE  Good(HelloReceived(s))
PROOF
  <1>1. s \in NeighborType /\ ~ s.err /\ TimersInv(s) /\ Requests(s) /\ Complete(s)
    BY DEF Good, Armed
  <1>2. CASE s.state = "Down"
    <2>1. PICK a : a = StartTimer(s, "inactivity") OBVIOUS
    <2>2. /\ Keeps(s, a)
          /\ a.timers = s.timers \cup {"inactivity"} /\ a.err = (s.err \/ "inactivity" \in s.timers)
          /\ a.updateActive = s.updateActive /\ a.requestActive = s.requestActive
          /\ a.retrans = s.retrans
      BY <1>1, <2>1, StartTimerKeeps DEF Timer
    <2>3. PICK b : b = ChangeState(a, "Init") OBVIOUS
    <2>4. /\ b \in NeighborType /\ b.state = "Init" /\ b.request = a.request /\ KeepsTimers(a, b)
      BY <2>2, <2>3, ChangeStateKeeps DEF State, Adjacent, Keeps
    <2>5. "inactivity" \notin s.timers BY <1>1, <1>2 DEF TimersInv
    <2>6. ~ b.err BY <1>1, <2>2, <2>4, <2>5 DEF KeepsTimers
    <2>7. TimersInv(b)
      BY <1>1, <1>2, <2>2, <2>4 DEF TimersInv, KeepsTimers, Adjacent
    <2>8. HelloReceived(s) = b BY <1>2, <2>1, <2>3 DEF HelloReceived
    <2>9. Requests(b) BY <1>1, <2>2, <2>4 DEF Requests, Keeps, KeepsTimers
    <2> QED BY <2>4, <2>6, <2>7, <2>8, <2>9 DEF Good, Armed, Complete
  <1>3. CASE s.state # "Down"
    <2>1. PICK a : a = ClearTimer(s, "inactivity") OBVIOUS
    <2>2. /\ Keeps(s, a) /\ a.timers = s.timers \ {"inactivity"} /\ a.err = s.err
          /\ a.updateActive = s.updateActive /\ a.requestActive = s.requestActive
          /\ a.retrans = s.retrans
      BY <1>1, <2>1, ClearTimerKeeps DEF Timer
    <2>3. PICK b : b = StartTimer(a, "inactivity") OBVIOUS
    <2>4. /\ Keeps(a, b)
          /\ b.timers = a.timers \cup {"inactivity"} /\ b.err = (a.err \/ "inactivity" \in a.timers)
          /\ b.updateActive = a.updateActive /\ b.requestActive = a.requestActive
          /\ b.retrans = a.retrans
      BY <2>2, <2>3, StartTimerKeeps DEF Timer, Keeps
    <2>5. HelloReceived(s) = b BY <1>3, <2>1, <2>3 DEF HelloReceived
    <2>6. ~ b.err BY <1>1, <2>2, <2>4
    <2>7. b \in NeighborType /\ b.state = s.state /\ b.request = s.request /\ b.summary = s.summary
      BY <2>2, <2>4 DEF Keeps
    <2>8. TimersInv(b) BY <1>1, <1>3, <2>2, <2>4, <2>7 DEF TimersInv
    <2>9. Requests(b) /\ Complete(b) BY <1>1, <2>2, <2>4, <2>7 DEF Requests, Complete
    <2> QED BY <2>5, <2>6, <2>7, <2>8, <2>9 DEF Good, Armed
  <1> QED BY <1>2, <1>3

LEMMA ProcessHelloGood ==
  ASSUME NEW s, Good(s), NEW p
  PROVE  Good(ProcessHello(s, p))
  BY HelloReceivedGood, TwoWayGood, OneWayGood DEF ProcessHello

LEMMA NegotiationDoneArmed ==
  ASSUME NEW s, Armed(s), s.state = "ExchangeStart"
  PROVE  Armed(NegotiationDone(s)) /\ NegotiationDone(s).state = "Exchange"
PROOF
  <1>1. s \in NeighborType /\ ~ s.err /\ TimersInv(s) BY DEF Armed
  <1>2. PICK a : a = CreateDatabaseSummary(s) OBVIOUS
  <1>3. a \in NeighborType /\ a.state = s.state /\ KeepsTimers(s, a)
    BY <1>1, <1>2, SummaryKeeps
  <1>4. PICK b : b = SendDatabaseDescriptionPacket(a, FALSE) OBVIOUS
  <1>5. b \in NeighborType /\ b.state = a.state /\ KeepsTimers(a, b)
    BY <1>3, <1>4, DDPacketKeeps
  <1>6. PICK c : c = ClearTimer(b, "dd") OBVIOUS
  <1>7. /\ Keeps(b, c) /\ c.timers = b.timers \ {"dd"} /\ c.err = b.err
        /\ c.updateActive = b.updateActive /\ c.requestActive = b.requestActive
        /\ c.retrans = b.retrans
    BY <1>5, <1>6, ClearTimerKeeps DEF Timer
  <1>8. PICK d : d = ChangeState(c, "Exchange") OBVIOUS
  <1>9. d \in NeighborType /\ d.state = "Exchange" /\ KeepsTimers(c, d)
    <2>1. c \in NeighborType /\ c.state # "Full" BY <1>3, <1>5, <1>7 DEF Keeps
    <2> QED BY <1>8, <2>1, ChangeStateKeeps DEF State
  <1>10. ~ d.err BY <1>1, <1>3, <1>5, <1>7, <1>9 DEF KeepsTimers
  <1>11. TimersInv(d)
    BY <1>1, <1>3, <1>5, <1>7, <1>9 DEF TimersInv, KeepsTimers, Adjacent
  <1>12. NegotiationDone(s) = d BY <1>2, <1>4, <1>6, <1>8 DEF NegotiationDone
  <1> QED BY <1>9, <1>10, <1>11, <1>12 DEF Armed

LEMMA ExchangeFailedGood ==
  ASSUME NEW s, Good(s)
  PROVE  Good(ExchangeFailed(s))
PROOF
  <1>1. CASE s.state \notin Adjacent BY <1>1 DEF ExchangeFailed
  <1>2. CASE s.state \in Adjacent
    <2>1. s \in NeighborType /\ ~ s.err /\ TimersInv(s) BY DEF Good, Armed
    <2>2. PICK a : a = Reset(s) OBVIOUS
    <2>3. /\ a \in NeighborType /\ a.state = s.state /\ a.err = s.err
          /\ a.timers = s.timers \ {"dd", "update", "request"}
          /\ a.request = <<>> /\ a.retrans = <<>>
          /\ a.updateActive = FALSE /\ a.requestActive = FALSE
      BY <2>1, <2>2, ResetKeeps
    <2>4. PICK b : b = IncrementDDSequenceNumber(a) OBVIOUS
    <2>5. Neutral(a, b) BY <2>3, <2>4, IncrementNeutral
    <2>6. PICK c : c = SendDatabaseDescriptionPacket(b, TRUE) OBVIOUS
    <2>7. c \in NeighborType /\ c.state = b.state /\ c.request = b.request /\ KeepsTimers(b, c)
      BY <2>5, <2>6, DDPacketKeeps DEF Neutral, Keeps
    <2>8. PICK d : d = StartTimer(c, "dd") OBVIOUS
    <2>9. /\ Keeps(c, d)
          /\ d.timers = c.timers \cup {"dd"} /\ d.err = (c.err \/ "dd" \in c.timers)
          /\ d.updateActive = c.updateActive /\ d.requestActive = c.requestActive
          /\ d.retrans = c.retrans
      BY <2>7, <2>8, StartTimerKeeps DEF Timer
    <2>10. PICK e : e = ChangeState(d, "ExchangeStart") OBVIOUS
    <2>11. e \in NeighborType /\ e.state = "ExchangeStart" /\ e.request = d.request
           /\ KeepsTimers(d, e)
      BY <2>9, <2>10, ChangeStateKeeps DEF Keeps, State, Adjacent
    <2>12. ExchangeFailed(s) = e
      BY <1>2, <2>2, <2>4, <2>6, <2>8, <2>10 DEF ExchangeFailed
    <2>13. "dd" \notin c.timers /\ ~ c.err
      BY <2>1, <2>3, <2>5, <2>7 DEF Neutral, KeepsTimers
    <2>14. ~ e.err BY <2>9, <2>11, <2>13 DEF KeepsTimers
    <2>15. e.request = <<>> BY <2>3, <2>5, <2>7, <2>9, <2>11 DEF Neutral, Keeps
    <2>16. "inactivity" \in s.timers BY <1>2, <2>1 DEF TimersInv, Adjacent
    <2>17. e.timers = (s.timers \ {"dd", "update", "request"}) \cup {"dd"}
           /\ e.updateActive = FALSE /\ e.requestActive = FALSE /\ e.retrans = <<>>
      BY <2>3, <2>5, <2>7, <2>9, <2>11 DEF Neutral, KeepsTimers
    <2>18. TimersInv(e) BY <2>11, <2>16, <2>17 DEF TimersInv, Adjacent
    <2> QED BY <2>11, <2>12, <2>14, <2>15, <2>18 DEF Good, Armed, Requests, Complete
  <1> QED BY <1>1, <1>2

(* From Exchange or Loading, when nothing is requested any more. *)
LEMMA ToFullGood ==
  ASSUME NEW s, Armed(s), s.state \in {"Exchange", "Loading"},
         s.summary = <<>>, s.request = <<>>
  PROVE  /\ Good(LoadingDone(s)) /\ LoadingDone(s).state = "Full"
         /\ LoadingDone(s).requestActive = FALSE
PROOF
  <1>1. s \in NeighborType /\ ~ s.err /\ TimersInv(s) BY DEF Armed
  <1>2. PICK a : a = ClearRequestRetransmissionTimer(s) OBVIOUS
  <1>3. /\ Keeps(s, a) /\ a.timers = s.timers \ {"request"} /\ a.err = s.err
        /\ a.requestActive = FALSE /\ a.updateActive = s.updateActive /\ a.retrans = s.retrans
    BY <1>1, <1>2, ClearRequestKeeps
  <1>4. PICK b : b = ChangeState(a, "Full") OBVIOUS
  <1>5. a.updateActive <=> "update" \in a.timers
    BY <1>1, <1>3 DEF TimersInv
  <1>6. /\ b \in NeighborType /\ b.state = "Full" /\ b.summary = a.summary
        /\ b.request = a.request /\ b.timers = a.timers \cup {"update"} /\ b.err = a.err
        /\ b.updateActive = TRUE /\ b.requestActive = a.requestActive
    BY <1>3, <1>4, <1>5, ChangeToFullKeeps DEF Keeps
  <1>7. LoadingDone(s) = b BY <1>2, <1>4 DEF LoadingDone
  <1>8. "inactivity" \in s.timers BY <1>1 DEF TimersInv
  <1>9. b.requestActive = FALSE BY <1>3, <1>6
  <1>10. TimersInv(b) BY <1>3, <1>6, <1>8, <1>9 DEF TimersInv, Adjacent
  <1>11. b.summary = <<>> /\ b.request = <<>> /\ ~ b.err
    BY <1>1, <1>3, <1>6 DEF Keeps
  <1> QED BY <1>6, <1>7, <1>9, <1>10, <1>11 DEF Good, Armed, Requests, Complete

LEMMA ExchangeDoneArmed ==
  ASSUME NEW s, Armed(s), s.state = "Exchange", s.summary = <<>>
  PROVE  LET t == ExchangeDone(s) IN Armed(t) /\ Complete(t) /\ t.state \in {"Loading", "Full"}
PROOF
  <1>1. s \in NeighborType /\ ~ s.err /\ TimersInv(s) BY DEF Armed
  <1>2. PICK a : a = StartTimer(s, "dd") OBVIOUS
  <1>3. /\ Keeps(s, a)
        /\ a.timers = s.timers \cup {"dd"} /\ a.err = (s.err \/ "dd" \in s.timers)
        /\ a.updateActive = s.updateActive /\ a.requestActive = s.requestActive
        /\ a.retrans = s.retrans
    BY <1>1, <1>2, StartTimerKeeps DEF Timer
  <1>4. "dd" \notin s.timers /\ "inactivity" \in s.timers BY <1>1 DEF TimersInv
  <1>5. ~ a.err /\ a \in NeighborType BY <1>1, <1>3, <1>4 DEF Keeps
  <1>6. CASE s.request = <<>>
    <2>1. PICK b : b = ClearRequestRetransmissionTimer(a) OBVIOUS
    <2>2. /\ Keeps(a, b) /\ b.timers = a.timers \ {"request"} /\ b.err = a.err
          /\ b.requestActive = FALSE /\ b.updateActive = a.updateActive
          /\ b.retrans = a.retrans
      BY <1>5, <2>1, ClearRequestKeeps
    <2>3. PICK c : c = ChangeState(b, "Full") OBVIOUS
    <2>4. b.updateActive <=> "update" \in b.timers BY <1>1, <1>3, <2>2 DEF TimersInv
    <2>5. /\ c \in NeighborType /\ c.state = "Full" /\ c.summary = b.summary
          /\ c.request = b.request /\ c.timers = b.timers \cup {"update"} /\ c.err = b.err
          /\ c.updateActive = TRUE /\ c.requestActive = b.requestActive
      BY <2>2, <2>3, <2>4, ChangeToFullKeeps DEF Keeps
    <2>6. ExchangeDone(s) = c BY <1>2, <1>6, <2>1, <2>3 DEF ExchangeDone
    <2>7. c.requestActive = FALSE BY <2>2, <2>5
    <2>8. TimersInv(c) BY <1>3, <1>4, <2>2, <2>5, <2>7 DEF TimersInv, Adjacent
    <2>9. ~ c.err BY <1>5, <2>2, <2>5
    <2>10. c.summary = <<>> /\ c.request = <<>> BY <1>3, <1>6, <2>2, <2>5 DEF Keeps
    <2> QED BY <2>5, <2>6, <2>8, <2>9, <2>10 DEF Armed, Complete
  <1>7. CASE s.request # <<>>
    <2>1. PICK b : b = ChangeState(a, "Loading") OBVIOUS
    <2>2. /\ b \in NeighborType /\ b.state = "Loading" /\ b.summary = a.summary
          /\ KeepsTimers(a, b)
      <3>1. a.state # "Full" BY <1>3 DEF Keeps
      <3> QED BY <1>5, <2>1, <3>1, ChangeStateKeeps DEF State
    <2>3. ExchangeDone(s) = b BY <1>2, <1>7, <2>1 DEF ExchangeDone
    <2>4. TimersInv(b) BY <1>1, <1>3, <1>4, <2>2 DEF TimersInv, KeepsTimers, Adjacent
    <2>5. ~ b.err BY <1>5, <2>2 DEF KeepsTimers
    <2>6. b.summary = <<>> BY <1>3, <2>2 DEF Keeps
    <2> QED BY <2>2, <2>3, <2>4, <2>5, <2>6 DEF Armed, Complete
  <1> QED BY <1>6, <1>7

LEMMA WithoutKeyType ==
  ASSUME NEW list \in Seq(Instance), NEW k
  PROVE  WithoutKey(list, k) \in Seq(Instance) /\ (list = <<>> => WithoutKey(list, k) = <<>>)
  BY PickType DEF WithoutKey

LEMMA RemoveGood ==
  ASSUME NEW s, Good(s), NEW k
  PROVE  LET t == RemoveFromRequestList(s, k) IN
         Good(t) /\ (s.state \in Adjacent => t.state \in Adjacent)
PROOF
  <1>1. s \in NeighborType /\ ~ s.err /\ TimersInv(s) /\ Requests(s) /\ Complete(s)
        /\ s.request \in Seq(Instance)
    BY DEF Good, Armed, NeighborType
  <1>2. PICK list : list = WithoutKey(s.request, k) OBVIOUS
  <1>3. list \in Seq(Instance) /\ (s.request = <<>> => list = <<>>)
    BY <1>1, <1>2, WithoutKeyType
  <1>4. PICK a : a = [s EXCEPT !.request = list] OBVIOUS
  <1>5. a \in NeighborType BY <1>1, <1>3, <1>4 DEF NeighborType
  <1>6. a.state = s.state /\ a.summary = s.summary /\ a.request = list /\ KeepsTimers(s, a)
    BY <1>1, <1>4 DEF NeighborType, KeepsTimers
  <1>7. Armed(a) /\ Requests(a) /\ Complete(a)
    BY <1>1, <1>3, <1>5, <1>6 DEF Armed, TimersInv, Requests, Complete, KeepsTimers
  <1>8. RemoveFromRequestList(s, k)
           = IF s.state = "Loading" /\ a.request = <<>> THEN LoadingDone(a) ELSE a
    BY <1>1, <1>2, <1>4 DEF RemoveFromRequestList, NeighborType
  <1>9. CASE s.state = "Loading" /\ a.request = <<>>
    <2>1. a.summary = <<>> BY <1>1, <1>6, <1>9 DEF Complete
    <2>2. Good(LoadingDone(a)) /\ LoadingDone(a).state = "Full"
      BY <1>6, <1>7, <1>9, <2>1, ToFullGood
    <2> QED BY <1>8, <1>9, <2>2 DEF Adjacent
  <1>10. CASE ~ (s.state = "Loading" /\ a.request = <<>>)
    BY <1>6, <1>7, <1>8, <1>10 DEF Good
  <1> QED BY <1>9, <1>10

-----------------------------------------------------------------------------
(* The retransmission timers. *)

LEMMA FiredKeeps ==
  ASSUME NEW s \in NeighborType, NEW x \in Timer
  PROVE  LET t == [s EXCEPT !.timers = @ \ {x}] IN
         /\ Keeps(s, t)
         /\ t.timers = s.timers \ {x} /\ t.err = s.err
         /\ t.updateActive = s.updateActive /\ t.requestActive = s.requestActive
         /\ t.retrans = s.retrans
  BY ClearTimerKeeps DEF ClearTimer

LEMMA DDTimerGood ==
  ASSUME NEW s, Good(s), "dd" \in s.timers
  PROVE  Good(DDRetransmissionTimer([s EXCEPT !.timers = @ \ {"dd"}]))
PROOF
  <1>1. s \in NeighborType /\ ~ s.err /\ TimersInv(s) /\ Requests(s) /\ Complete(s)
    BY DEF Good, Armed
  <1>2. s.state \in {"ExchangeStart", "Loading", "Full"} BY <1>1 DEF TimersInv
  <1>3. PICK a : a = [s EXCEPT !.timers = @ \ {"dd"}] OBVIOUS
  <1>4. /\ Keeps(s, a) /\ a.timers = s.timers \ {"dd"} /\ a.err = s.err
        /\ a.updateActive = s.updateActive /\ a.requestActive = s.requestActive
        /\ a.retrans = s.retrans
    BY <1>1, <1>3, FiredKeeps DEF Timer
  <1>5. a \in NeighborType /\ a.state = s.state BY <1>4 DEF Keeps
  <1>6. CASE s.state = "ExchangeStart"
    <2>1. PICK b : b = RetransmitDatabaseDescriptionPacket(a) OBVIOUS
    <2>2. Neutral(a, b) BY <1>5, <2>1, RetransmitDDNeutral
    <2>3. PICK c : c = StartTimer(b, "dd") OBVIOUS
    <2>4. /\ Keeps(b, c)
          /\ c.timers = b.timers \cup {"dd"} /\ c.err = (b.err \/ "dd" \in b.timers)
          /\ c.updateActive = b.updateActive /\ c.requestActive = b.requestActive
          /\ c.retrans = b.retrans
      BY <2>2, <2>3, StartTimerKeeps DEF Timer, Neutral, Keeps
    <2>5. DDRetransmissionTimer(a) = c
      BY <1>5, <1>6, <2>1, <2>3 DEF DDRetransmissionTimer
    <2>6. ~ c.err BY <1>1, <1>4, <2>2, <2>4 DEF Neutral, KeepsTimers
    <2>7. c \in NeighborType /\ c.state = s.state /\ c.request = s.request /\ c.summary = s.summary
      BY <1>4, <2>2, <2>4 DEF Neutral, Keeps
    <2>8. c.timers = s.timers /\ c.updateActive = s.updateActive
          /\ c.requestActive = s.requestActive /\ c.retrans = s.retrans
      BY <1>4, <2>2, <2>4 DEF Neutral, KeepsTimers
    <2>9. TimersInv(c) BY <1>1, <2>7, <2>8 DEF TimersInv
    <2>10. Requests(c) /\ Complete(c) BY <1>1, <2>7, <2>8 DEF Requests, Complete
    <2> QED BY <1>3, <2>5, <2>6, <2>7, <2>9, <2>10 DEF Good, Armed
  <1>7. CASE s.state \in {"Loading", "Full"}
    <2>1. PICK b : b = [a EXCEPT !.lastSent = NoDD] OBVIOUS
    <2>2. Neutral(a, b)
      <3>1. b \in NeighborType BY <1>5, <2>1 DEF NeighborType
      <3> QED BY <1>5, <2>1, <3>1 DEF Neutral, Keeps, KeepsTimers, NeighborType
    <2>3. DDRetransmissionTimer(a) = b BY <1>5, <1>7, <2>1 DEF DDRetransmissionTimer
    <2>4. Good(a)
      BY <1>1, <1>4, <1>5, <1>7
      DEF Good, Armed, TimersInv, Requests, Complete, Keeps
    <2> QED BY <1>3, <2>2, <2>3, <2>4, NeutralGood
  <1> QED BY <1>2, <1>6, <1>7

LEMMA UpdateTimerGood ==
  ASSUME NEW s, Good(s), "update" \in s.timers
  PROVE  Good(UpdateRetransmissionTimer([s EXCEPT !.timers = @ \ {"update"}]))
PROOF
  <1>1. s \in NeighborType /\ ~ s.err /\ TimersInv(s) /\ Requests(s) /\ Complete(s)
    BY DEF Good, Armed
  <1>2. s.state \in Adjacent /\ s.updateActive BY <1>1 DEF TimersInv
  <1>3. PICK a : a = [s EXCEPT !.timers = @ \ {"update"}] OBVIOUS
  <1>4. /\ Keeps(s, a) /\ a.timers = s.timers \ {"update"} /\ a.err = s.err
        /\ a.requestActive = s.requestActive /\ a.retrans = s.retrans
    BY <1>1, <1>3, FiredKeeps DEF Timer
  <1>5. a \in NeighborType /\ a.state = s.state BY <1>4 DEF Keeps
  <1>6. PICK b : b = SendUpdate(a, a.retrans) OBVIOUS
  <1>7. Neutral(a, b)
    <2>1. a.retrans \in Seq(Instance) BY <1>5 DEF NeighborType
    <2> QED BY <1>5, <1>6, <2>1, SendUpdateNeutral
  <1>8. PICK c : c = StartUpdateRetransmissionTimer(b) OBVIOUS
  <1>9. /\ Keeps(b, c)
        /\ c.timers = b.timers \cup {"update"} /\ c.err = (b.err \/ "update" \in b.timers)
        /\ c.updateActive = TRUE /\ c.requestActive = b.requestActive /\ c.retrans = b.retrans
    BY <1>7, <1>8, StartUpdateKeeps DEF Neutral, Keeps
  <1>10. UpdateRetransmissionTimer(a) = c
    BY <1>2, <1>5, <1>6, <1>8 DEF UpdateRetransmissionTimer
  <1>11. ~ c.err BY <1>1, <1>4, <1>7, <1>9 DEF Neutral, KeepsTimers
  <1>12. c \in NeighborType /\ c.state = s.state /\ c.request = s.request /\ c.summary = s.summary
    BY <1>4, <1>7, <1>9 DEF Neutral, Keeps
  <1>13. c.timers = s.timers /\ c.requestActive = s.requestActive /\ c.retrans = s.retrans
    BY <1>4, <1>7, <1>9 DEF Neutral, KeepsTimers
  <1>14. TimersInv(c) BY <1>1, <1>9, <1>12, <1>13 DEF TimersInv
  <1>15. Requests(c) /\ Complete(c) BY <1>1, <1>12, <1>13 DEF Requests, Complete
  <1> QED BY <1>3, <1>10, <1>11, <1>12, <1>14, <1>15 DEF Good, Armed

LEMMA RequestTimerGood ==
  ASSUME NEW s, Good(s), "request" \in s.timers
  PROVE  Good(RequestRetransmissionTimer([s EXCEPT !.timers = @ \ {"request"}]))
PROOF
  <1>1. s \in NeighborType /\ ~ s.err /\ TimersInv(s) /\ Requests(s) /\ Complete(s)
    BY DEF Good, Armed
  <1>2. s.state \in {"Exchange", "Loading"} BY <1>1 DEF TimersInv
  <1>3. PICK a : a = [s EXCEPT !.timers = @ \ {"request"}] OBVIOUS
  <1>4. /\ Keeps(s, a) /\ a.timers = s.timers \ {"request"} /\ a.err = s.err
        /\ a.updateActive = s.updateActive /\ a.retrans = s.retrans
    BY <1>1, <1>3, FiredKeeps DEF Timer
  <1>5. a \in NeighborType /\ a.state = s.state BY <1>4 DEF Keeps
  <1>6. PICK b : b = SendLinkStateRequestPacket(a) OBVIOUS
  <1>7. Neutral(a, b) BY <1>5, <1>6, SendRequestNeutral
  <1>8. PICK c : c = StartRequestRetransmissionTimer(b) OBVIOUS
  <1>9. /\ Keeps(b, c)
        /\ c.timers = b.timers \cup {"request"} /\ c.err = (b.err \/ "request" \in b.timers)
        /\ c.requestActive = TRUE /\ c.updateActive = b.updateActive /\ c.retrans = b.retrans
    BY <1>7, <1>8, StartRequestKeeps DEF Neutral, Keeps
  <1>10. RequestRetransmissionTimer(a) = c
    BY <1>2, <1>5, <1>6, <1>8 DEF RequestRetransmissionTimer
  <1>11. ~ c.err BY <1>1, <1>4, <1>7, <1>9 DEF Neutral, KeepsTimers
  <1>12. c \in NeighborType /\ c.state = s.state /\ c.request = s.request /\ c.summary = s.summary
    BY <1>4, <1>7, <1>9 DEF Neutral, Keeps
  <1>13. c.timers = s.timers /\ c.updateActive = s.updateActive /\ c.retrans = s.retrans
    BY <1>4, <1>7, <1>9 DEF Neutral, KeepsTimers
  <1>14. TimersInv(c) BY <1>1, <1>9, <1>12, <1>13 DEF TimersInv
  <1>15. Requests(c) /\ Complete(c) BY <1>1, <1>12, <1>13 DEF Requests, Complete
  <1> QED BY <1>3, <1>10, <1>11, <1>12, <1>14, <1>15 DEF Good, Armed

-----------------------------------------------------------------------------
(* The database exchange. *)

LEMMA AddNewerKeeps ==
  ASSUME NEW s \in NeighborType, NEW headers \in Seq(Instance)
  PROVE  LET t == AddNewer(s, headers) IN
         /\ t \in NeighborType /\ t.id = s.id /\ t.state = s.state /\ t.summary = s.summary
         /\ KeepsTimers(s, t)
PROOF
  <1>1. PICK newer : newer = Those(headers, {h \in Instance : s.db[h.key] < h.seq}) OBVIOUS
  <1>2. newer \in Seq(Instance) BY <1>1, PickType
  <1>3. PICK list : list = s.request \o newer OBVIOUS
  <1>4. list \in Seq(Instance)
    <2>1. s.request \in Seq(Instance) BY DEF NeighborType
    <2> QED BY <1>2, <1>3, <2>1
  <1>5. PICK t : t = [s EXCEPT !.request = list] OBVIOUS
  <1>6. t \in NeighborType BY <1>4, <1>5 DEF NeighborType
  <1>7. t.id = s.id /\ t.state = s.state /\ t.summary = s.summary /\ KeepsTimers(s, t)
    BY <1>5 DEF NeighborType, KeepsTimers
  <1>8. AddNewer(s, headers) = t BY <1>1, <1>3, <1>5 DEF AddNewer
  <1> QED BY <1>6, <1>7, <1>8

LEMMA StartRequestsGood ==
  ASSUME NEW s, Armed(s), Complete(s), s.state \in Adjacent
  PROVE  Good(StartRequests(s))
PROOF
  <1>1. s \in NeighborType /\ ~ s.err /\ TimersInv(s) BY DEF Armed
  <1>2. CASE s.request = <<>> \/ s.requestActive
    <2>1. Requests(s) BY <1>1, <1>2 DEF Requests, TimersInv
    <2> QED BY <1>2, <2>1 DEF StartRequests, Good
  <1>3. CASE ~ (s.request = <<>> \/ s.requestActive)
    <2>1. s.state \in {"Exchange", "Loading"} BY <1>3 DEF Complete, Adjacent
    <2>2. PICK a : a = SendLinkStateRequestPacket(s) OBVIOUS
    <2>3. Neutral(s, a) BY <1>1, <2>2, SendRequestNeutral
    <2>4. PICK b : b = ClearRequestRetransmissionTimer(a) OBVIOUS
    <2>5. /\ Keeps(a, b) /\ b.timers = a.timers \ {"request"} /\ b.err = a.err
          /\ b.updateActive = a.updateActive /\ b.retrans = a.retrans
      BY <2>3, <2>4, ClearRequestKeeps DEF Neutral, Keeps
    <2>6. PICK c : c = StartRequestRetransmissionTimer(b) OBVIOUS
    <2>7. /\ Keeps(b, c)
          /\ c.timers = b.timers \cup {"request"} /\ c.err = (b.err \/ "request" \in b.timers)
          /\ c.requestActive = TRUE /\ c.updateActive = b.updateActive
          /\ c.retrans = b.retrans
      BY <2>5, <2>6, StartRequestKeeps DEF Keeps
    <2>8. StartRequests(s) = c BY <1>3, <2>2, <2>4, <2>6 DEF StartRequests
    <2>9. ~ c.err BY <1>1, <2>3, <2>5, <2>7 DEF Neutral, KeepsTimers
    <2>10. c \in NeighborType /\ c.state = s.state /\ c.request = s.request /\ c.summary = s.summary
      BY <2>3, <2>5, <2>7 DEF Neutral, Keeps
    <2>11. c.timers = s.timers \cup {"request"} /\ c.updateActive = s.updateActive
           /\ c.retrans = s.retrans
      BY <2>3, <2>5, <2>7 DEF Neutral, KeepsTimers
    <2>12. TimersInv(c) BY <1>1, <2>1, <2>7, <2>10, <2>11 DEF TimersInv
    <2>13. Requests(c) /\ Complete(c) BY <2>10, <2>11 DEF Requests, Complete
    <2> QED BY <2>8, <2>9, <2>10, <2>12, <2>13 DEF Good, Armed
  <1> QED BY <1>2, <1>3

LEMMA ArmedKept ==
  ASSUME NEW s, NEW t, Armed(s), t \in NeighborType, t.state = s.state, KeepsTimers(s, t)
  PROVE  Armed(t)
  BY DEF Armed, TimersInv, KeepsTimers

LEMMA DDType ==
  ASSUME NEW p \in DD
  PROVE  p.id \in PacketID /\ p.id.seq \in Nat /\ p.headers \in Seq(Instance)
PROOF
  <1>1. p.id \in PacketID /\ p.headers \in Seq(Instance) BY DEF DD
  <1> QED BY <1>1 DEF PacketID

LEMMA SetSeqNeutral ==
  ASSUME NEW s \in NeighborType, NEW q \in Nat
  PROVE  Neutral(s, [s EXCEPT !.ddSeq = q])
PROOF
  <1>1. PICK t : t = [s EXCEPT !.ddSeq = q] OBVIOUS
  <1>2. t \in NeighborType BY <1>1 DEF NeighborType
  <1>3. Neutral(s, t) BY <1>1, <1>2 DEF Neutral, Keeps, KeepsTimers, NeighborType
  <1> QED BY <1>1, <1>3

LEMMA SetRcvdNeutral ==
  ASSUME NEW s \in NeighborType, NEW id \in PacketID
  PROVE  Neutral(s, [s EXCEPT !.lastRcvd = id])
PROOF
  <1>1. PICK t : t = [s EXCEPT !.lastRcvd = id] OBVIOUS
  <1>2. t \in NeighborType BY <1>1 DEF NeighborType
  <1>3. Neutral(s, t) BY <1>1, <1>2 DEF Neutral, Keeps, KeepsTimers, NeighborType
  <1> QED BY <1>1, <1>3

LEMMA SetNegotiatedNeutral ==
  ASSUME NEW s \in NeighborType, NEW role \in {"Master", "Slave"}, NEW q \in Nat,
         NEW id \in PacketID
  PROVE  Neutral(s, [s EXCEPT !.role = role, !.ddSeq = q, !.lastRcvd = id])
PROOF
  <1>1. PICK t : t = [s EXCEPT !.role = role, !.ddSeq = q, !.lastRcvd = id] OBVIOUS
  <1>2. t \in NeighborType BY <1>1 DEF NeighborType
  <1>3. Neutral(s, t) BY <1>1, <1>2 DEF Neutral, Keeps, KeepsTimers, NeighborType
  <1> QED BY <1>1, <1>3

LEMMA ProcessDDPacketArmed ==
  ASSUME NEW s, Armed(s), NEW p \in DD, NEW starting \in BOOLEAN,
         s.state = IF starting THEN "ExchangeStart" ELSE "Exchange"
  PROVE  LET t == ProcessDDPacket(s, p, starting) IN
         /\ Armed(t)
         /\ starting => t.state = "ExchangeStart"
         /\ ~ starting => Complete(t) /\ t.state \in Adjacent
PROOF
  <1> DEFINE Reply(x) == IF starting THEN x ELSE SendDatabaseDescriptionPacket(x, FALSE)
             Fine(x) == x \in NeighborType /\ x.state = s.state /\ KeepsTimers(s, x)
             Done(x) == IF x.summary = <<>> /\ ~ p.id.more THEN ExchangeDone(x) ELSE x
  <1>1. s \in NeighborType BY DEF Armed
  <1>2. PICK a : a = AddNewer(s, p.headers) OBVIOUS
  <1>3. Fine(a) BY <1>1, <1>2, AddNewerKeeps, DDType
  <1>4. ASSUME NEW x, Fine(x) PROVE Fine(Reply(x))
    <2>1. PICK y : y = SendDatabaseDescriptionPacket(x, FALSE) OBVIOUS
    <2>2. y \in NeighborType /\ y.state = x.state /\ KeepsTimers(x, y)
      BY <1>4, <2>1, DDPacketKeeps
    <2> QED BY <1>4, <2>1, <2>2 DEF KeepsTimers
  <1>5. ASSUME NEW x, Fine(x) PROVE Armed(x) BY <1>5, ArmedKept
  <1>6. ASSUME NEW x, Fine(x), ~ starting
        PROVE  Complete(x) /\ x.state \in Adjacent
    BY <1>6 DEF Complete, Adjacent
  <1>7. ASSUME NEW x, Fine(x), x.summary = <<>>
        PROVE  LET t == ExchangeDone(x) IN
               /\ Armed(t)
               /\ starting => t.state = "ExchangeStart"
               /\ ~ starting => Complete(t) /\ t.state \in Adjacent
    <2>1. CASE starting
      <3>1. ExchangeDone(x) = x BY <1>7, <2>1 DEF ExchangeDone
      <3> QED BY <1>5, <1>7, <2>1, <3>1
    <2>2. CASE ~ starting
      <3>1. PICK y : y = ExchangeDone(x) OBVIOUS
      <3>2. Armed(x) /\ x.state = "Exchange" BY <1>5, <1>7, <2>2
      <3>3. Armed(y) /\ Complete(y) /\ y.state \in {"Loading", "Full"}
        BY <1>7, <3>1, <3>2, ExchangeDoneArmed
      <3> QED BY <2>2, <3>1, <3>3 DEF Adjacent
    <2> QED BY <2>1, <2>2
  <1>8. CASE s.role = "Master"
    <2>1. PICK x : x = IncrementDDSequenceNumber(a) OBVIOUS
    <2>2. Neutral(a, x) BY <1>3, <2>1, IncrementNeutral
    <2>3. Fine(x) BY <1>3, <2>2 DEF Neutral, Keeps, KeepsTimers
    <2>4. ProcessDDPacket(s, p, starting)
             = IF x.summary = <<>> /\ ~ p.id.more THEN ExchangeDone(x) ELSE Reply(x)
      BY <1>2, <1>8, <2>1 DEF ProcessDDPacket
    <2> HIDE DEF Fine
    <2>5. CASE x.summary = <<>> /\ ~ p.id.more
      BY <1>7, <2>3, <2>4, <2>5
    <2>6. CASE ~ (x.summary = <<>> /\ ~ p.id.more)
      <3>1. PICK y : y = Reply(x) OBVIOUS
      <3>2. Fine(y) BY <1>4, <2>3, <3>1
      <3>3. ProcessDDPacket(s, p, starting) = y BY <2>4, <2>6, <3>1
      <3>4. starting => y.state = "ExchangeStart" BY <3>2 DEF Fine
      <3> QED BY <1>5, <1>6, <3>2, <3>3, <3>4
    <2> QED BY <2>5, <2>6
  <1>9. CASE s.role # "Master"
    <2>1. PICK x : x = [a EXCEPT !.ddSeq = p.id.seq] OBVIOUS
    <2>2. Neutral(a, x) BY <1>3, <2>1, DDType, SetSeqNeutral
    <2>3. Fine(x) BY <1>3, <2>2 DEF Neutral, Keeps, KeepsTimers
    <2>4. PICK y : y = Reply(x) OBVIOUS
    <2>5. ProcessDDPacket(s, p, starting)
             = IF y.summary = <<>> /\ ~ p.id.more THEN ExchangeDone(y) ELSE y
      BY <1>2, <1>9, <2>1, <2>4 DEF ProcessDDPacket
    <2> HIDE DEF Fine
    <2>6. Fine(y) BY <1>4, <2>3, <2>4
    <2>7. CASE y.summary = <<>> /\ ~ p.id.more
      BY <1>7, <2>5, <2>6, <2>7
    <2>8. CASE ~ (y.summary = <<>> /\ ~ p.id.more)
      <3>1. ProcessDDPacket(s, p, starting) = y BY <2>5, <2>8
      <3>2. starting => y.state = "ExchangeStart" BY <2>6 DEF Fine
      <3> QED BY <1>5, <1>6, <2>6, <3>1, <3>2
    <2> QED BY <2>7, <2>8
  <1> QED BY <1>8, <1>9

LEMMA InExchangeStartGood ==
  ASSUME NEW s, Good(s), NEW p \in DD, s.state = "ExchangeStart"
  PROVE  Good(DDInExchangeStart(s, p))
PROOF
  <1>1. s \in NeighborType /\ Armed(s) /\ s.ddSeq \in Nat BY DEF Good, Armed, NeighborType
  <1>2. ASSUME NEW role \in {"Master", "Slave"}, NEW q \in Nat
        PROVE  Good(StartRequests(NegotiationDone(ProcessDDPacket(
                   [s EXCEPT !.role = role, !.ddSeq = q, !.lastRcvd = p.id], p, TRUE))))
    <2>1. PICK a : a = [s EXCEPT !.role = role, !.ddSeq = q, !.lastRcvd = p.id] OBVIOUS
    <2>2. Neutral(s, a) BY <1>1, <2>1, DDType, SetNegotiatedNeutral
    <2>3. Armed(a) /\ a.state = "ExchangeStart"
      BY <1>1, <2>2, NeutralGood DEF Neutral, Keeps
    <2>4. PICK b : b = ProcessDDPacket(a, p, TRUE) OBVIOUS
    <2>5. Armed(b) /\ b.state = "ExchangeStart"
      BY <2>3, <2>4, ProcessDDPacketArmed
    <2>6. PICK c : c = NegotiationDone(b) OBVIOUS
    <2>7. Armed(c) /\ c.state = "Exchange" BY <2>5, <2>6, NegotiationDoneArmed
    <2>8. Good(StartRequests(c)) BY <2>7, StartRequestsGood DEF Complete, Adjacent
    <2> QED BY <2>1, <2>4, <2>6, <2>8
  <1>3. Good(SendDatabaseDescriptionPacket(s, TRUE))
    <2>1. PICK a : a = SendDatabaseDescriptionPacket(s, TRUE) OBVIOUS
    <2>2. Neutral(s, a) BY <1>1, <2>1, DDPacketKeeps DEF Neutral, Keeps
    <2> QED BY <2>1, <2>2, NeutralGood
  <1>4. DDInExchangeStart(s, p)
           \in {StartRequests(NegotiationDone(ProcessDDPacket(
                    [s EXCEPT !.role = "Slave", !.ddSeq = p.id.seq, !.lastRcvd = p.id], p, TRUE))),
                StartRequests(NegotiationDone(ProcessDDPacket(
                    [s EXCEPT !.role = "Master", !.ddSeq = s.ddSeq, !.lastRcvd = p.id], p, TRUE))),
                SendDatabaseDescriptionPacket(s, TRUE), s}
    BY DEF DDInExchangeStart
  <1>5. p.id.seq \in Nat BY DDType
  <1> QED BY <1>1, <1>2, <1>3, <1>4, <1>5

LEMMA InExchangeGood ==
  ASSUME NEW s, Good(s), NEW p \in DD, s.state = "Exchange"
  PROVE  Good(DDInExchange(s, p))
PROOF
  <1>1. s \in NeighborType /\ Armed(s) BY DEF Good, Armed
  <1>2. Good(RetransmitDatabaseDescriptionPacket(s))
    BY <1>1, RetransmitDDNeutral, NeutralGood
  <1>3. Good(ExchangeFailed(s)) BY ExchangeFailedGood
  <1>4. Good(StartRequests(ProcessDDPacket([s EXCEPT !.lastRcvd = p.id], p, FALSE)))
    <2>1. PICK a : a = [s EXCEPT !.lastRcvd = p.id] OBVIOUS
    <2>2. Neutral(s, a) BY <1>1, <2>1, DDType, SetRcvdNeutral
    <2>3. Armed(a) /\ a.state = "Exchange"
      BY <1>1, <2>2, NeutralGood DEF Neutral, Keeps
    <2>4. PICK b : b = ProcessDDPacket(a, p, FALSE) OBVIOUS
    <2>5. Armed(b) /\ Complete(b) /\ b.state \in Adjacent
      BY <2>3, <2>4, ProcessDDPacketArmed
    <2> QED BY <2>1, <2>4, <2>5, StartRequestsGood
  <1>5. DDInExchange(s, p)
           \in {RetransmitDatabaseDescriptionPacket(s), s, ExchangeFailed(s),
                StartRequests(ProcessDDPacket([s EXCEPT !.lastRcvd = p.id], p, FALSE))}
    <2>1. DEFINE next == StartRequests(ProcessDDPacket([s EXCEPT !.lastRcvd = p.id], p, FALSE))
                 retransmit == RetransmitDatabaseDescriptionPacket(s)
                 failed == ExchangeFailed(s)
                 right == p.id.ms = (s.role = "Slave") /\ ~ p.id.init
                          /\ p.id.seq = IF s.role = "Master" THEN s.ddSeq ELSE s.ddSeq + 1
    <2>2. DDInExchange(s, p)
             = CASE p.id = s.lastRcvd -> IF s.role = "Slave" THEN retransmit ELSE s
                 [] p.id # s.lastRcvd /\ right -> next
                 [] OTHER -> failed
      BY DEF DDInExchange
    <2> HIDE DEF next, retransmit, failed, right
    <2>3. DDInExchange(s, p) \in {retransmit, s, failed, next} BY <2>2
    <2> QED BY <2>3 DEF next, retransmit, failed
  <1> QED BY <1>2, <1>3, <1>4, <1>5

LEMMA AfterExchangeGood ==
  ASSUME NEW s, Good(s), NEW p
  PROVE  Good(DDAfterExchange(s, p))
PROOF
  <1>1. s \in NeighborType BY DEF Good, Armed
  <1>2. Good(RetransmitDatabaseDescriptionPacket(s))
    BY <1>1, RetransmitDDNeutral, NeutralGood
  <1> QED BY <1>2, ExchangeFailedGood DEF DDAfterExchange

LEMMA ProcessDDGood ==
  ASSUME NEW s, Good(s), NEW p \in DD
  PROVE  Good(ProcessDD(s, p))
PROOF
  <1>1. s.state \in State BY DEF Good, Armed, NeighborType
  <1>2. CASE s.state = "Down" BY <1>2 DEF ProcessDD
  <1>3. CASE s.state = "Init" BY <1>3, TwoWayGood DEF ProcessDD
  <1>4. CASE s.state = "ExchangeStart" BY <1>4, InExchangeStartGood DEF ProcessDD
  <1>5. CASE s.state = "Exchange" BY <1>5, InExchangeGood DEF ProcessDD
  <1>6. CASE s.state \in {"Loading", "Full"} BY <1>6, AfterExchangeGood DEF ProcessDD
  <1> QED BY <1>1, <1>2, <1>3, <1>4, <1>5, <1>6 DEF State

-----------------------------------------------------------------------------
(* Requests, updates and acknowledgements. *)

LEMMA ProcessLsrGood ==
  ASSUME NEW s, Good(s), NEW p \in Lsr
  PROVE  Good(ProcessLsr(s, p))
PROOF
  <1>1. s \in NeighborType BY DEF Good, Armed
  <1>2. PICK keys \in Seq(Key) : keys = p.keys BY DEF Lsr
  <1>3. PICK updates : updates = [i \in DOMAIN keys |->
                                     [type |-> "lsu", lsas |-> Headers(s.db, <<keys[i]>>)]]
    OBVIOUS
  <1>4. updates \in Seq(OspfPacket)
    <2>1. ASSUME NEW i \in 1 .. Len(keys)
          PROVE  [type |-> "lsu", lsas |-> Headers(s.db, <<keys[i]>>)] \in OspfPacket
      <3>1. <<keys[i]>> \in Seq(Key) OBVIOUS
      <3>2. s.db \in [Key -> Nat] BY <1>1 DEF NeighborType
      <3>3. PICK lsas : lsas = Headers(s.db, <<keys[i]>>) OBVIOUS
      <3>4. lsas \in Seq(Instance) BY <3>1, <3>2, <3>3, HeadersType
      <3>5. [type |-> "lsu", lsas |-> lsas] \in OspfPacket BY <3>4 DEF OspfPacket, LsuOrAck
      <3> QED BY <3>3, <3>5
    <2>2. updates \in [1 .. Len(keys) -> OspfPacket] BY <1>3, <2>1
    <2> QED BY <2>2
  <1>5. PICK list : list = s.out \o updates OBVIOUS
  <1>6. list \in Seq(OspfPacket)
    <2>1. s.out \in Seq(OspfPacket) BY <1>1 DEF NeighborType
    <2> QED BY <1>4, <1>5, <2>1
  <1>7. PICK t : t = [s EXCEPT !.out = list] OBVIOUS
  <1>8. Good(t)
    <2>1. t \in NeighborType BY <1>1, <1>6, <1>7 DEF NeighborType
    <2>2. Neutral(s, t) BY <1>1, <1>7, <2>1 DEF Neutral, Keeps, KeepsTimers, NeighborType
    <2> QED BY <2>2, NeutralGood
  <1>9. ProcessLsr(s, p) \in {s, ExchangeFailed(s), t}
    BY <1>2, <1>3, <1>5, <1>7 DEF ProcessLsr
  <1> QED BY <1>8, <1>9, ExchangeFailedGood

LEMMA FloodOutGood ==
  ASSUME NEW s, Good(s), s.state \in Adjacent, NEW l \in Instance
  PROVE  Good(FloodOut(s, l))
PROOF
  <1>1. s \in NeighborType /\ ~ s.err /\ TimersInv(s) /\ Requests(s) /\ Complete(s)
    BY DEF Good, Armed
  <1>2. PICK t : t = FloodOut(s, l) OBVIOUS
  <1>3. /\ Keeps(s, t) /\ t.timers = s.timers \cup {"update"} /\ t.err = s.err
        /\ t.updateActive = TRUE /\ t.requestActive = s.requestActive
    BY <1>1, <1>2, FloodOutKeeps DEF TimersInv
  <1>4. TimersInv(t) BY <1>1, <1>3 DEF TimersInv, Keeps
  <1>5. Requests(t) /\ Complete(t) BY <1>1, <1>3 DEF Requests, Complete, Keeps
  <1> QED BY <1>1, <1>2, <1>3, <1>4, <1>5 DEF Good, Armed, Keeps

LEMMA FloodLSAGood ==
  ASSUME NEW s, Good(s), NEW l \in Instance, NEW here \in BOOLEAN
  PROVE  Good(FloodLSA(s, l, here))
PROOF
  <1>1. PICK requested :
            requested = {s.request[i].seq : i \in {j \in DOMAIN s.request : s.request[j].key = l.key}}
    OBVIOUS
  <1>2. requested \subseteq Nat
    <2>1. s.request \in Seq(Instance) BY DEF Good, Armed, NeighborType
    <2>2. ASSUME NEW i \in DOMAIN s.request PROVE s.request[i].seq \in Nat
      <3>1. s.request[i] \in Instance BY <2>1
      <3> QED BY <3>1 DEF Instance
    <2> QED BY <1>1, <2>2
  <1>3. PICK t : t = IF requested = {} THEN s ELSE RemoveFromRequestList(s, l.key) OBVIOUS
  <1>4. Good(t) /\ (s.state \in Adjacent => t.state \in Adjacent)
    BY <1>3, RemoveGood
  <1>5. l.seq \in Nat BY DEF Instance
  <1> DEFINE late == \E q \in requested : l.seq < q
             above == \A q \in requested : l.seq > q
             asked == here \/ l.seq \in requested
             adjacent == s.state \in Adjacent
  <1>6. FloodLSA(s, l, here) = CASE ~ adjacent \/ late -> s
                                 [] adjacent /\ asked -> t
                                 [] adjacent /\ ~ here /\ above -> FloodOut(t, l)
    BY <1>1, <1>3, Zenon DEF FloodLSA
  <1>7. ~ late /\ ~ asked => ~ here /\ above BY <1>2, <1>5
  <1>8. above => l.seq \notin requested /\ ~ late BY <1>2, <1>5
  <1>9. adjacent => Good(FloodOut(t, l)) BY <1>4, FloodOutGood
  <1>10. PICK u : u = FloodOut(t, l) OBVIOUS
  <1>11. PICK v : v = FloodLSA(s, l, here) OBVIOUS
  <1>12. v \in {s, t} \/ (adjacent /\ v = u)
    <2> HIDE DEF late, above, asked, adjacent
    <2> QED BY <1>6, <1>7, <1>10, <1>11
  <1> QED BY <1>4, <1>9, <1>10, <1>11, <1>12

LEMMA NewerLsaGood ==
  ASSUME NEW s, Good(s), NEW l \in Instance, NEW here \in BOOLEAN
  PROVE  Good(NewerLsa(s, l, here))
PROOF
  <1>1. CASE l.key \in s.young BY <1>1 DEF NewerLsa
  <1>2. CASE l.key \notin s.young
    <2>1. PICK a : a = FloodLSA(s, l, here) OBVIOUS
    <2>2. Good(a) BY <2>1, FloodLSAGood
    <2>3. a \in NeighborType BY <2>2 DEF Good, Armed
    <2>4. l.key \in Key /\ l.seq \in Nat BY DEF Instance
    <2>5. PICK d : d = [a.db EXCEPT ![l.key] = l.seq] OBVIOUS
    <2>6. PICK y : y = a.young \cup {l.key} OBVIOUS
    <2>7. PICK r : r = IF s.db[l.key] # 0 THEN WithoutKey(a.retrans, l.key) ELSE a.retrans OBVIOUS
    <2>8. PICK k : k = IF s.db[l.key] # 0 /\ here /\ a.state \in Adjacent
                       THEN Append(a.acks, l) ELSE a.acks
      OBVIOUS
    <2>9. d \in [Key -> Nat]
      <3>1. a.db \in [Key -> Nat] BY <2>3 DEF NeighborType
      <3> QED BY <2>4, <2>5, <3>1
    <2>10. y \in SUBSET Key BY <2>3, <2>4, <2>6 DEF NeighborType
    <2>11. r \in Seq(Instance) /\ (a.retrans = <<>> => r = <<>>)
      <3>1. a.retrans \in Seq(Instance) BY <2>3 DEF NeighborType
      <3> QED BY <2>7, <3>1, WithoutKeyType
    <2>12. k \in Seq(Instance)
      <3>1. a.acks \in Seq(Instance) BY <2>3 DEF NeighborType
      <3>2. Append(a.acks, l) \in Seq(Instance) BY <3>1
      <3> QED BY <2>8, <3>1, <3>2
    <2>13. PICK b : b = [a EXCEPT !.db = d, !.young = y] OBVIOUS
    <2>14. b \in NeighborType BY <2>3, <2>9, <2>10, <2>13 DEF NeighborType
    <2>15. PICK c : c = [b EXCEPT !.retrans = r, !.acks = k] OBVIOUS
    <2>16. c \in NeighborType BY <2>11, <2>12, <2>14, <2>15 DEF NeighborType
    <2>17. NewerLsa(s, l, here) = c
      <3>1. NewerLsa(s, l, here) = [a EXCEPT !.db = d, !.young = y, !.retrans = r, !.acks = k]
        BY <1>2, <2>1, <2>3, <2>5, <2>6, <2>7, <2>8 DEF NewerLsa, NeighborType
      <3> QED BY <2>3, <2>13, <2>15, <3>1 DEF NeighborType
    <2>18. /\ c.state = a.state /\ c.request = a.request /\ c.summary = a.summary
           /\ c.timers = a.timers /\ c.err = a.err /\ c.retrans = r
           /\ c.updateActive = a.updateActive /\ c.requestActive = a.requestActive
      BY <2>3, <2>13, <2>15 DEF NeighborType
    <2>19. ~ a.err /\ TimersInv(a) /\ Requests(a) /\ Complete(a) BY <2>2 DEF Good, Armed
    <2>20. TimersInv(c) BY <2>11, <2>18, <2>19 DEF TimersInv
    <2>21. Requests(c) /\ Complete(c) BY <2>18, <2>19 DEF Requests, Complete
    <2> QED BY <2>16, <2>17, <2>18, <2>19, <2>20, <2>21 DEF Good, Armed
  <1> QED BY <1>1, <1>2

(* The retransmission list gets shorter. *)
LEMMA ShorterGood ==
  ASSUME NEW s, Good(s), NEW list \in Seq(Instance), s.retrans = <<>> => list = <<>>
  PROVE  /\ Good([s EXCEPT !.retrans = list])
         /\ [s EXCEPT !.retrans = list].retrans = list
         /\ [s EXCEPT !.retrans = list].state = s.state
PROOF
  <1>1. s \in NeighborType /\ ~ s.err /\ TimersInv(s) /\ Requests(s) /\ Complete(s)
    BY DEF Good, Armed
  <1>2. PICK t : t = [s EXCEPT !.retrans = list] OBVIOUS
  <1>3. t \in NeighborType BY <1>1, <1>2 DEF NeighborType
  <1>4. /\ t.state = s.state /\ t.request = s.request /\ t.summary = s.summary
        /\ t.timers = s.timers /\ t.err = s.err /\ t.retrans = list
        /\ t.updateActive = s.updateActive /\ t.requestActive = s.requestActive
    BY <1>1, <1>2 DEF NeighborType
  <1>5. TimersInv(t) BY <1>1, <1>4 DEF TimersInv
  <1>6. Requests(t) /\ Complete(t) BY <1>1, <1>4 DEF Requests, Complete
  <1> QED BY <1>1, <1>2, <1>3, <1>4, <1>5, <1>6 DEF Good, Armed

LEMMA SendGood ==
  ASSUME NEW s, Good(s), NEW p \in OspfPacket
  PROVE  Good(Send(s, p))
  BY SendNeutral, NeutralGood DEF Good, Armed

LEMMA DuplicateLsaGood ==
  ASSUME NEW s, Good(s), NEW l \in Instance
  PROVE  Good(DuplicateLsa(s, l))
PROOF
  <1>1. PICK list : list = WithoutKey(s.retrans, l.key) OBVIOUS
  <1>2. list \in Seq(Instance) /\ (s.retrans = <<>> => list = <<>>)
    <2>1. s.retrans \in Seq(Instance) BY DEF Good, Armed, NeighborType
    <2> QED BY <1>1, <2>1, WithoutKeyType
  <1>3. Good([s EXCEPT !.retrans = list]) BY <1>2, ShorterGood
  <1>4. [type |-> "ack", lsas |-> <<l>>] \in OspfPacket
    <2>1. <<l>> \in Seq(Instance) OBVIOUS
    <2> QED BY <2>1 DEF OspfPacket, LsuOrAck
  <1>5. Good(Send(s, [type |-> "ack", lsas |-> <<l>>])) BY <1>4, SendGood
  <1>6. s \in NeighborType BY DEF Good, Armed
  <1>7. DuplicateLsa(s, l) \in {[s EXCEPT !.retrans = list], Send(s, [type |-> "ack", lsas |-> <<l>>])}
    BY <1>1, <1>6 DEF DuplicateLsa, NeighborType
  <1> QED BY <1>3, <1>5, <1>7

LEMMA OlderLsaGood ==
  ASSUME NEW s, Good(s), NEW l \in Instance
  PROVE  Good(OlderLsa(s, l))
PROOF
  <1>1. PICK m : m = [key |-> l.key, seq |-> s.db[l.key]] OBVIOUS
  <1>2. m \in Instance
    <2>1. l.key \in Key BY DEF Instance
    <2>2. s.db \in [Key -> Nat] BY DEF Good, Armed, NeighborType
    <2> QED BY <1>1, <2>1, <2>2 DEF Instance
  <1>3. <<m>> \in Seq(Instance) /\ s \in NeighborType BY <1>2 DEF Good, Armed
  <1>4. Good(SendUpdate(s, <<m>>)) BY <1>3, SendUpdateNeutral, NeutralGood
  <1> QED BY <1>1, <1>4 DEF OlderLsa

LEMMA ProcessLsaGood ==
  ASSUME NEW s, Good(s), NEW l \in Instance
  PROVE  Good(ProcessLsa(s, l))
PROOF
  <1>1. l.seq \in Nat /\ s.db[l.key] \in Nat
    <2>1. l.key \in Key /\ l.seq \in Nat BY DEF Instance
    <2>2. s.db \in [Key -> Nat] BY DEF Good, Armed, NeighborType
    <2> QED BY <2>1, <2>2
  <1>2. CASE s.stop BY <1>2 DEF ProcessLsa
  <1>3. CASE ~ s.stop /\ BadLinkStateRequest(s, l)
    <2>1. PICK a : a = ExchangeFailed(s) OBVIOUS
    <2>2. Good(a) BY <2>1, ExchangeFailedGood
    <2>3. a \in NeighborType BY <2>2 DEF Good, Armed
    <2>4. PICK t : t = [a EXCEPT !.stop = TRUE] OBVIOUS
    <2>5. t \in NeighborType BY <2>3, <2>4 DEF NeighborType
    <2>6. Neutral(a, t) BY <2>3, <2>4, <2>5 DEF Neutral, Keeps, KeepsTimers, NeighborType
    <2>7. ProcessLsa(s, l) = t BY <1>3, <2>1, <2>4 DEF ProcessLsa
    <2> QED BY <2>2, <2>6, <2>7, NeutralGood
  <1>4. CASE ~ s.stop /\ ~ BadLinkStateRequest(s, l)
    <2>1. PICK have \in Nat, q \in Nat : have = s.db[l.key] /\ q = l.seq BY <1>1
    <2>2. PICK a, b, c : a = NewerLsa(s, l, TRUE) /\ b = DuplicateLsa(s, l) /\ c = OlderLsa(s, l)
      OBVIOUS
    <2>3. ProcessLsa(s, l) = CASE have < q -> a [] have = q -> b [] have > q -> c
      BY <1>4, <2>1, <2>2 DEF ProcessLsa
    <2>4. PICK t : t = ProcessLsa(s, l) OBVIOUS
    <2>5. t \in {a, b, c} BY <2>1, <2>3, <2>4
    <2> QED BY <2>2, <2>4, <2>5, NewerLsaGood, DuplicateLsaGood, OlderLsaGood
  <1> QED BY <1>2, <1>3, <1>4

(* The loop over the LSAs of an update. *)
LEMMA ProcessLsasGood ==
  ASSUME NEW s, Good(s), NEW lsas \in Seq(Instance)
  PROVE  Good(ProcessLsas(s, lsas))
PROOF
  <1>n. PICK n : n = Len(lsas) OBVIOUS
  <1>l. PICK S : S = {x \in NeighborType : Good(x)} OBVIOUS
  <1> DEFINE Turn(i, x) == ProcessLsa(x, lsas[i])
             P(f) == f = [i \in 0 .. n |-> IF i = 0 THEN s ELSE Turn(i, f[i - 1])]
             after == CHOOSE f : P(f)
  <1>1. n \in Nat /\ s \in S BY <1>n, <1>l DEF Good, Armed
  <1>2. \A i \in 1 .. n, x \in S : Turn(i, x) \in S
    <2> SUFFICES ASSUME NEW i \in 1 .. n, NEW x \in S PROVE Turn(i, x) \in S
      OBVIOUS
    <2>1. lsas[i] \in Instance BY <1>n
    <2>2. Good(x) BY <1>l
    <2>3. PICK y : y = ProcessLsa(x, lsas[i]) OBVIOUS
    <2>4. Good(y) BY <2>1, <2>2, <2>3, ProcessLsaGood
    <2>5. y \in NeighborType BY <2>4 DEF Good, Armed
    <2> QED BY <1>l, <2>3, <2>4, <2>5
  <1>3. ProcessLsas(s, lsas) = after[n] BY <1>n DEF ProcessLsas
  <1> HIDE DEF Turn
  <1>4. \E f : P(f)
    <2> DEFINE step == [i \in 1 .. n |-> [x \in S |-> Turn(i, x)]]
    <2>1. step \in [1 .. n -> [S -> S]] BY <1>2
    <2>2. \A i \in 1 .. n, x \in S : step[i][x] = Turn(i, x) OBVIOUS
    <2> HIDE DEF step
    <2>3. PICK f \in [0 .. n -> S] : f[0] = s /\ \A i \in 1 .. n : f[i] = step[i][f[i - 1]]
      BY <1>1, <2>1, LoopExists
    <2>4. ASSUME NEW i \in 0 .. n
          PROVE  f[i] = IF i = 0 THEN s ELSE Turn(i, f[i - 1])
      <3>1. CASE i = 0 BY <2>3, <3>1
      <3>2. CASE i # 0
        <4>1. i \in 1 .. n /\ i - 1 \in 0 .. n BY <1>1, <3>2
        <4> QED BY <2>2, <2>3, <3>2, <4>1
      <3> QED BY <3>1, <3>2
    <2>5. f = [i \in 0 .. n |-> IF i = 0 THEN s ELSE Turn(i, f[i - 1])]
      BY <2>4
    <2> QED BY <2>5
  <1>5. P(after) BY <1>4, Zenon
  <1> HIDE DEF after
  <1>6. after[0] = s /\ \A i \in 1 .. n : after[i] = Turn(i, after[i - 1])
    BY <1>1, <1>5
  <1> HIDE DEF P
  <1>7. after[n] \in S
    <2> DEFINE D == {i \in 0 .. n : after[i] \in S}
    <2>1. 0 \in D BY <1>1, <1>6
    <2>2. \A i \in 1 .. n : i - 1 \in D => i \in D BY <1>2, <1>6
    <2>3. \A i \in 0 .. n : i \in D
      <3> HIDE DEF D
      <3> QED BY <1>1, <2>1, <2>2, UpTo
    <2> QED BY <1>1, <2>3
  <1> QED BY <1>l, <1>3, <1>7

LEMMA ProcessAckGood ==
  ASSUME NEW s, Good(s), NEW p \in LsuOrAck
  PROVE  Good(ProcessAck(s, p))
PROOF
  <1>1. PICK list : list = Those(s.retrans, Instance \ Range(p.lsas)) OBVIOUS
  <1>2. list \in Seq(Instance) /\ (s.retrans = <<>> => list = <<>>)
    <2>1. s.retrans \in Seq(Instance) BY DEF Good, Armed, NeighborType
    <2> QED BY <1>1, <2>1, PickType
  <1>3. PICK a : a = [s EXCEPT !.retrans = list] OBVIOUS
  <1>4. Good(a) /\ a.retrans = list /\ a.state = s.state BY <1>2, <1>3, ShorterGood
  <1>5. s \in NeighborType BY DEF Good, Armed
  <1>6. Acknowledged(s, p.lsas) = a
    BY <1>1, <1>3, <1>5 DEF Acknowledged, NeighborType
  <1>7. PICK b : b = ClearUpdateRetransmissionTimer(a) OBVIOUS
  <1>8. a.retrans = <<>> => Good(b)
    <2> SUFFICES ASSUME a.retrans = <<>> PROVE Good(b) OBVIOUS
    <2>1. a \in NeighborType /\ ~ a.err /\ TimersInv(a) /\ Requests(a) /\ Complete(a)
      BY <1>4 DEF Good, Armed
    <2>2. /\ Keeps(a, b) /\ b.timers = a.timers \ {"update"} /\ b.err = a.err
          /\ b.updateActive = FALSE /\ b.requestActive = a.requestActive
          /\ b.retrans = a.retrans
      BY <1>7, <2>1, ClearUpdateKeeps
    <2>3. TimersInv(b) BY <2>1, <2>2 DEF TimersInv, Keeps
    <2>4. Requests(b) /\ Complete(b) BY <2>1, <2>2 DEF Requests, Complete, Keeps
    <2> QED BY <2>1, <2>2, <2>3, <2>4 DEF Good, Armed, Keeps
  <1>9. ProcessAck(s, p) \in {s, a, b} /\ (ProcessAck(s, p) = b => a.retrans = <<>> \/ b \in {s, a})
    BY <1>6, <1>7 DEF ProcessAck
  <1> QED BY <1>4, <1>8, <1>9

LEMMA ProcessPacketGood ==
  ASSUME NEW s, Good(s), NEW p \in OspfPacket
  PROVE  Good(ProcessPacket(s, p))
PROOF
  <1>1. CASE p \in Hello
    <2>1. ProcessPacket(s, p) = ProcessHello(s, p) BY <1>1 DEF Hello, ProcessPacket
    <2> QED BY <2>1, ProcessHelloGood
  <1>2. CASE p \in DD
    <2>1. ProcessPacket(s, p) = ProcessDD(s, p) BY <1>2 DEF DD, ProcessPacket
    <2> QED BY <1>2, <2>1, ProcessDDGood
  <1>3. CASE p \in Lsr
    <2>1. ProcessPacket(s, p) = ProcessLsr(s, p) BY <1>3 DEF Lsr, ProcessPacket
    <2> QED BY <1>3, <2>1, ProcessLsrGood
  <1>4. CASE p \in LsuOrAck
    <2>1. CASE p.type = "lsu"
      <3>1. ProcessPacket(s, p) = ProcessLsu(s, p) BY <2>1 DEF ProcessPacket
      <3>2. PICK lsas \in Seq(Instance) : lsas = p.lsas BY <1>4 DEF LsuOrAck
      <3>3. Good(ProcessLsas(s, lsas)) BY ProcessLsasGood
      <3> QED BY <3>1, <3>2, <3>3 DEF ProcessLsu
    <2>2. CASE p.type = "ack"
      <3>1. ProcessPacket(s, p) = ProcessAck(s, p) BY <2>2 DEF ProcessPacket
      <3> QED BY <1>4, <3>1, ProcessAckGood
    <2> QED BY <1>4, <2>1, <2>2 DEF LsuOrAck
  <1> QED BY <1>1, <1>2, <1>3, <1>4 DEF OspfPacket

LEMMA DelayedAcknowledgementsGood ==
  ASSUME NEW s, Good(s)
  PROVE  Good(SendDelayedAcknowledgements(s))
PROOF
  <1>1. s \in NeighborType /\ s.acks \in Seq(Instance) BY DEF Good, Armed, NeighborType
  <1>2. PICK p : p = [type |-> "ack", lsas |-> s.acks] OBVIOUS
  <1>3. p \in OspfPacket BY <1>1, <1>2 DEF OspfPacket, LsuOrAck
  <1>4. PICK a : a = Send(s, p) OBVIOUS
  <1>5. Good(a) BY <1>3, <1>4, SendGood
  <1>6. a \in NeighborType BY <1>5 DEF Good, Armed
  <1>7. PICK t : t = [a EXCEPT !.acks = <<>>] OBVIOUS
  <1>8. Neutral(a, t)
    <2>1. <<>> \in Seq(Instance) OBVIOUS
    <2>2. t \in NeighborType BY <1>6, <1>7, <2>1 DEF NeighborType
    <2> QED BY <1>6, <1>7, <2>2 DEF Neutral, Keeps, KeepsTimers, NeighborType
  <1>9. SendDelayedAcknowledgements(s) = t
    BY <1>2, <1>4, <1>7 DEF SendDelayedAcknowledgements
  <1> QED BY <1>5, <1>8, <1>9, NeutralGood

LEMMA AgeDatabaseGood ==
  ASSUME NEW s, Good(s)
  PROVE  Good(AgeDatabase(s))
PROOF
  <1>1. s \in NeighborType /\ s.transmitted \in SUBSET (Key \X {0, 1})
    BY DEF Good, Armed, NeighborType
  <1>2. PICK old : old = {<<e[1], 1>> : e \in {x \in s.transmitted : x[2] = 0}} OBVIOUS
  <1>3. old \in SUBSET (Key \X {0, 1}) BY <1>1, <1>2
  <1>4. PICK t : t = [s EXCEPT !.young = {}, !.transmitted = old] OBVIOUS
  <1>5. t \in NeighborType BY <1>1, <1>3, <1>4 DEF NeighborType
  <1>6. Neutral(s, t)
    BY <1>1, <1>4, <1>5 DEF Neutral, Keeps, KeepsTimers, NeighborType
  <1>7. AgeDatabase(s) = t BY <1>1, <1>2, <1>4 DEF AgeDatabase, NeighborType
  <1> QED BY <1>6, <1>7, NeutralGood

-----------------------------------------------------------------------------
(* The two routers. *)

(* The inductive invariant. *)
PairInv == TypeOK /\ \A n \in Router : Good(router[n])

LEMMA PeerType ==
  ASSUME NEW n \in Router
  PROVE  Peer(n) \in Router /\ Peer(n) # n
  BY DEF Router, Peer

LEMMA NewNeighborGood ==
  ASSUME NEW n \in Router, NEW db \in [Key -> Nat]
  PROVE  Good(NewNeighbor(n, db))
PROOF
  <1>1. PICK t : t = NewNeighbor(n, db) OBVIOUS
  <1>2. t \in NeighborType
    <2>1. <<>> \in Seq(Instance) /\ <<>> \in Seq(OspfPacket) OBVIOUS
    <2>2. [init |-> TRUE, more |-> TRUE, ms |-> FALSE, seq |-> 0] \in PacketID BY DEF PacketID
    <2> QED BY <1>1, <2>1, <2>2 DEF NewNeighbor, NeighborType, State
  <1>3. /\ t.state = "Down" /\ t.timers = {} /\ t.updateActive = FALSE
        /\ t.requestActive = FALSE /\ t.err = FALSE /\ t.retrans = <<>> /\ t.request = <<>>
    BY <1>1 DEF NewNeighbor
  <1> QED BY <1>1, <1>2, <1>3 DEF Good, Armed, TimersInv, Requests, Complete

LEMMA BeginGood ==
  ASSUME PairInv, NEW n \in Router
  PROVE  /\ Good(Begin(n)) /\ Begin(n).timers = router[n].timers
         /\ Begin(n).db = router[n].db
PROOF
  <1>1. router[n] \in NeighborType /\ seed \in Nat /\ Good(router[n])
    BY DEF PairInv, TypeOK
  <1>2. PICK t : t = Begin(n) OBVIOUS
  <1>3. t \in NeighborType BY <1>1, <1>2 DEF Begin, NeighborType
  <1>4. Neutral(router[n], t) /\ t.db = router[n].db
    BY <1>1, <1>2, <1>3 DEF Begin, Neutral, Keeps, KeepsTimers, NeighborType
  <1> QED BY <1>1, <1>2, <1>4, NeutralGood DEF Neutral, KeepsTimers

LEMMA SettledGood ==
  ASSUME NEW s, Good(s)
  PROVE  Good(Settled(s))
PROOF
  <1>1. s \in NeighborType BY DEF Good, Armed
  <1>2. PICK t : t = Settled(s) OBVIOUS
  <1>3. <<>> \in Seq(OspfPacket) OBVIOUS
  <1>4. t \in NeighborType BY <1>1, <1>2, <1>3 DEF Settled, NeighborType
  <1>5. Neutral(s, t)
    BY <1>1, <1>2, <1>4 DEF Settled, Neutral, Keeps, KeepsTimers, NeighborType
  <1> QED BY <1>2, <1>5, NeutralGood

LEMMA EndStep ==
  ASSUME PairInv, NEW n \in Router, NEW result, Good(result),
         NEW inbox \in Seq(OspfPacket), End(n, result, inbox), left' \in ScenarioType
  PROVE  PairInv'
PROOF
  <1>1. PICK t : t = Settled(result) OBVIOUS
  <1>2. Good(t) BY <1>1, SettledGood
  <1>3. t \in NeighborType /\ result \in NeighborType BY <1>2 DEF Good, Armed
  <1>4. result.out \in Seq(OspfPacket) /\ result.seed \in Nat BY <1>3 DEF NeighborType
  <1>5. /\ router' = [router EXCEPT ![n] = t]
        /\ net' = [net EXCEPT ![n] = inbox, ![Peer(n)] = @ \o result.out]
        /\ seed' = result.seed
    BY <1>1 DEF End
  <1>6. router \in [Router -> NeighborType] /\ net \in [Router -> Seq(OspfPacket)]
    BY DEF PairInv, TypeOK
  <1>7. router' \in [Router -> NeighborType] BY <1>3, <1>5, <1>6
  <1>8. net' \in [Router -> Seq(OspfPacket)]
    <2>1. PICK m : m = Peer(n) OBVIOUS
    <2>2. m \in Router /\ m # n BY <2>1, PeerType
    <2>3. net[m] \o result.out \in Seq(OspfPacket) BY <1>4, <1>6, <2>2
    <2>4. net' = [net EXCEPT ![n] = inbox, ![m] = net[m] \o result.out]
      BY <1>5, <1>6, <2>1, <2>2
    <2> QED BY <1>6, <2>2, <2>3, <2>4
  <1>9. ASSUME NEW m \in Router PROVE Good(router'[m])
    <2>1. CASE m = n BY <1>2, <1>5, <1>6, <2>1
    <2>2. CASE m # n
      <3>1. router'[m] = router[m] BY <1>5, <1>6, <2>2
      <3> QED BY <3>1 DEF PairInv
    <2> QED BY <2>1, <2>2
  <1>10. TypeOK' BY <1>4, <1>5, <1>7, <1>8 DEF TypeOK
  <1> QED BY <1>9, <1>10 DEF PairInv

LEMMA ScenarioStep ==
  ASSUME left \in ScenarioType
  PROVE  /\ left.early > 0 => [left EXCEPT !.early = @ - 1] \in ScenarioType
         /\ left.lost > 0 => [left EXCEPT !.lost = @ - 1] \in ScenarioType
         /\ left.expired > 0 => [left EXCEPT !.expired = @ - 1] \in ScenarioType
         /\ \A e : [left EXCEPT !.learn = @ \ {e}] \in ScenarioType
  BY DEF ScenarioType

LEMMA ExpiresType ==
  ASSUME left \in ScenarioType, Expires
  PROVE  left' \in ScenarioType
  BY ScenarioStep DEF Expires

(* Before the first hello nothing is armed, and nothing has to be. *)
THEOREM InitPairInv == Init => PairInv
PROOF
  <1> SUFFICES ASSUME Init PROVE PairInv OBVIOUS
  <1>1. left \in ScenarioType BY ScenarioAssumption DEF Init
  <1>2. \A n \in Router : left.dbs[n] \in [Key -> Nat] BY <1>1 DEF ScenarioType
  <1>3. ASSUME NEW n \in Router PROVE Good(router[n])
    <2>1. router[n] = NewNeighbor(n, left.dbs[n]) BY DEF Init
    <2> QED BY <1>2, <2>1, NewNeighborGood
  <1>4. router \in [Router -> NeighborType]
    <2>1. \A n \in Router : router[n] \in NeighborType BY <1>3 DEF Good, Armed
    <2>2. router = [n \in Router |-> router[n]] BY DEF Init
    <2> QED BY <2>1, <2>2
  <1>5. net \in [Router -> Seq(OspfPacket)] /\ seed \in Nat BY DEF Init
  <1> QED BY <1>1, <1>3, <1>4, <1>5 DEF PairInv, TypeOK

(* Every event leaves both neighbours in order: one step for each action,  *)
(* which is one operator of OspfNeighbor between Begin and End.            *)
THEOREM NextPairInv == PairInv /\ [Next]_vars => PairInv'
PROOF
  <1> SUFFICES ASSUME PairInv, [Next]_vars PROVE PairInv' OBVIOUS
  <1>1. left \in ScenarioType /\ net \in [Router -> Seq(OspfPacket)] /\ seed \in Nat
        /\ router \in [Router -> NeighborType]
    BY DEF PairInv, TypeOK
  <1>2. ASSUME NEW n \in Router, ReceivePacket(n) PROVE PairInv'
    <2>1. net[n] \in Seq(OspfPacket) /\ net[n] # <<>> BY <1>1, <1>2 DEF ReceivePacket
    <2>2. Head(net[n]) \in OspfPacket /\ Tail(net[n]) \in Seq(OspfPacket)
      BY <2>1, HeadTailProperties
    <2>3. PICK b : b = Begin(n) OBVIOUS
    <2>4. Good(b) BY <2>3, BeginGood
    <2>5. PICK r : r = ProcessPacket(b, Head(net[n])) OBVIOUS
    <2>6. Good(r) BY <2>2, <2>4, <2>5, ProcessPacketGood
    <2>7. End(n, r, Tail(net[n])) /\ left' = left BY <1>2, <2>3, <2>5 DEF ReceivePacket
    <2> QED BY <1>1, <2>2, <2>6, <2>7, EndStep
  <1>3. ASSUME NEW n \in Router, LosePacket(n) PROVE PairInv'
    <2>1. net[n] \in Seq(OspfPacket) /\ net[n] # <<>> BY <1>1, <1>3 DEF LosePacket
    <2>2. Tail(net[n]) \in Seq(OspfPacket) BY <2>1, HeadTailProperties
    <2>3. net' = [net EXCEPT ![n] = Tail(net[n])] /\ router' = router /\ seed' = seed
      BY <1>1, <1>3 DEF LosePacket
    <2>4. net' \in [Router -> Seq(OspfPacket)] BY <1>1, <2>2, <2>3
    <2>5. left' \in ScenarioType BY <1>1, <1>3, ScenarioStep DEF LosePacket
    <2>6. TypeOK' BY <1>1, <2>3, <2>4, <2>5 DEF TypeOK
    <2> QED BY <2>3, <2>6 DEF PairInv
  <1>4. ASSUME NEW n \in Router, HelloTimer(n) PROVE PairInv'
    <2>1. PICK b : b = Begin(n) OBVIOUS
    <2>2. Good(b) BY <2>1, BeginGood
    <2>3. PICK p : p = [type |-> "hello", sees |-> router[n].state # "Down"] OBVIOUS
    <2>4. p \in OspfPacket BY <2>3 DEF OspfPacket, Hello
    <2>5. PICK r : r = Send(b, p) OBVIOUS
    <2>6. Good(r) BY <2>2, <2>4, <2>5, SendGood
    <2>7. End(n, r, net[n]) /\ Expires BY <1>4, <2>1, <2>3, <2>5 DEF HelloTimer
    <2>8. net[n] \in Seq(OspfPacket) /\ left' \in ScenarioType BY <1>1, <2>7, ExpiresType
    <2> QED BY <2>6, <2>7, <2>8, EndStep
  <1>5. ASSUME NEW n \in Router, AcknowledgementTimer(n) PROVE PairInv'
    <2>1. PICK b : b = Begin(n) OBVIOUS
    <2>2. Good(b) BY <2>1, BeginGood
    <2>3. PICK r : r = SendDelayedAcknowledgements(b) OBVIOUS
    <2>4. Good(r) BY <2>2, <2>3, DelayedAcknowledgementsGood
    <2>5. End(n, r, net[n]) /\ Expires BY <1>5, <2>1, <2>3 DEF AcknowledgementTimer
    <2>6. net[n] \in Seq(OspfPacket) /\ left' \in ScenarioType BY <1>1, <2>5, ExpiresType
    <2> QED BY <2>4, <2>5, <2>6, EndStep
  <1>6. ASSUME NEW n \in Router, DDTimer(n) PROVE PairInv'
    <2>1. PICK b : b = Begin(n) OBVIOUS
    <2>2. Good(b) /\ "dd" \in b.timers BY <1>6, <2>1, BeginGood DEF DDTimer
    <2>3. PICK r : r = DDRetransmissionTimer([b EXCEPT !.timers = @ \ {"dd"}]) OBVIOUS
    <2>4. Good(r) BY <2>2, <2>3, DDTimerGood
    <2>5. End(n, r, net[n]) /\ Expires BY <1>6, <2>1, <2>3 DEF DDTimer, Fired
    <2>6. net[n] \in Seq(OspfPacket) /\ left' \in ScenarioType BY <1>1, <2>5, ExpiresType
    <2> QED BY <2>4, <2>5, <2>6, EndStep
  <1>7. ASSUME NEW n \in Router, UpdateTimer(n) PROVE PairInv'
    <2>1. PICK b : b = Begin(n) OBVIOUS
    <2>2. Good(b) /\ "update" \in b.timers BY <1>7, <2>1, BeginGood DEF UpdateTimer
    <2>3. PICK r : r = UpdateRetransmissionTimer([b EXCEPT !.timers = @ \ {"update"}]) OBVIOUS
    <2>4. Good(r) BY <2>2, <2>3, UpdateTimerGood
    <2>5. End(n, r, net[n]) /\ Expires BY <1>7, <2>1, <2>3 DEF UpdateTimer, Fired
    <2>6. net[n] \in Seq(OspfPacket) /\ left' \in ScenarioType BY <1>1, <2>5, ExpiresType
    <2> QED BY <2>4, <2>5, <2>6, EndStep
  <1>8. ASSUME NEW n \in Router, RequestTimer(n) PROVE PairInv'
    <2>1. PICK b : b = Begin(n) OBVIOUS
    <2>2. Good(b) /\ "request" \in b.timers BY <1>8, <2>1, BeginGood DEF RequestTimer
    <2>3. PICK r : r = RequestRetransmissionTimer([b EXCEPT !.timers = @ \ {"request"}]) OBVIOUS
    <2>4. Good(r) BY <2>2, <2>3, RequestTimerGood
    <2>5. End(n, r, net[n]) /\ Expires BY <1>8, <2>1, <2>3 DEF RequestTimer, Fired
    <2>6. net[n] \in Seq(OspfPacket) /\ left' \in ScenarioType BY <1>1, <2>5, ExpiresType
    <2> QED BY <2>4, <2>5, <2>6, EndStep
  <1>9. ASSUME NEW n \in Router, InactivityTimerExpired(n) PROVE PairInv'
    <2>1. PICK b : b = Begin(n) OBVIOUS
    <2>2. Good(b) /\ "inactivity" \in b.timers
      BY <1>9, <2>1, BeginGood DEF InactivityTimerExpired
    <2>3. PICK r : r = InactivityTimer([b EXCEPT !.timers = @ \ {"inactivity"}]) OBVIOUS
    <2>4. Good(r) BY <2>2, <2>3, InactivityGood
    <2>5. End(n, r, net[n]) BY <1>9, <2>1, <2>3 DEF InactivityTimerExpired, Fired
    <2>6. net[n] \in Seq(OspfPacket) /\ left' \in ScenarioType
      BY <1>1, <1>9, ScenarioStep DEF InactivityTimerExpired
    <2> QED BY <2>4, <2>5, <2>6, EndStep
  <1>10. ASSUME NEW n \in Router, AgeTimer(n) PROVE PairInv'
    <2>1. PICK b : b = Begin(n) OBVIOUS
    <2>2. Good(b) BY <2>1, BeginGood
    <2>3. PICK r : r = AgeDatabase(b) OBVIOUS
    <2>4. Good(r) BY <2>2, <2>3, AgeDatabaseGood
    <2>5. End(n, r, net[n]) /\ Expires BY <1>10, <2>1, <2>3 DEF AgeTimer
    <2>6. net[n] \in Seq(OspfPacket) /\ left' \in ScenarioType BY <1>1, <2>5, ExpiresType
    <2> QED BY <2>4, <2>5, <2>6, EndStep
  <1>11. ASSUME NEW n \in Router, NEW k \in Key \ Router, LearnLSA(n, k) PROVE PairInv'
    <2>1. PICK b : b = Begin(n) OBVIOUS
    <2>2. Good(b) BY <2>1, BeginGood
    <2>3. PICK l : l = [key |-> k, seq |-> router[n].db[k] + 1] OBVIOUS
    <2>4. l \in Instance
      <3>1. router[n].db \in [Key -> Nat]
        <4>1. router[n] \in NeighborType BY <1>1
        <4> QED BY <4>1 DEF NeighborType
      <3>2. router[n].db[k] + 1 \in Nat BY <3>1
      <3> QED BY <2>3, <3>2 DEF Instance
    <2>5. PICK r : r = NewerLsa(b, l, FALSE) OBVIOUS
    <2>6. Good(r) BY <2>2, <2>4, <2>5, NewerLsaGood
    <2>7. End(n, r, net[n]) /\ left' = [left EXCEPT !.learn = @ \ {<<n, k>>}]
      BY <1>11, <2>1, <2>3, <2>5 DEF LearnLSA
    <2>8. net[n] \in Seq(OspfPacket) /\ left' \in ScenarioType
      BY <1>1, <2>7, ScenarioStep
    <2> QED BY <2>6, <2>7, <2>8, EndStep
  <1>12. CASE UNCHANGED vars
    <2>1. router' = router /\ TypeOK' BY <1>1, <1>12 DEF vars, TypeOK
    <2> QED BY <2>1 DEF PairInv
  <1> QED BY <1>2, <1>3, <1>4, <1>5, <1>6, <1>7, <1>8, <1>9, <1>10, <1>11, <1>12 DEF Next

(* So both neighbours are in order always. *)
THEOREM PairInvHolds == Spec => []PairInv
PROOF
  <1> QED BY InitPairInv, NextPairInv, PTL DEF Spec

(* OSPFv2: no event and no packet, in any order and with any loss, makes a *)
(* handler schedule a timer that is scheduled, or leave its types.         *)
THEOREM NeverARuntimeError == Spec => []NoRuntimeError
PROOF
  <1>1. PairInv => NoRuntimeError
    BY DEF PairInv, NoRuntimeError, Good, Armed
  <1> QED BY <1>1, PairInvHolds, PTL

(* What waits for an answer always has a timer that will repeat it.        *)
THEOREM TimersAlwaysArmed == Spec => []TimersArmed
PROOF
  <1>1. PairInv => TimersArmed
    BY DEF PairInv, TimersArmed, Good, Armed, TimersInv, Requests
  <1> QED BY <1>1, PairInvHolds, PTL

(* A router leaves the exchange when it has described all it has, and is   *)
(* in state Full when it has received all it requested.                    *)
THEOREM ExchangesComplete == Spec => []ExchangeComplete
PROOF
  <1>1. PairInv => ExchangeComplete
    BY DEF PairInv, ExchangeComplete, Good, Complete
  <1> QED BY <1>1, PairInvHolds, PTL
=============================================================================
