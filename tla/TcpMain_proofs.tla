--------------------------- MODULE TcpMain_proofs ---------------------------
(***************************************************************************)
(* Proofs about TcpMain, for every set of connections, addresses and ports. *)
(***************************************************************************)
EXTENDS TcpMain, FiniteSetTheorems, WellFoundedInduction, TLAPS

(* What findConnForSegment returns is registered, and moving it to the      *)
(* segment's full socket pair overwrites no other connection's entry.       *)
LEMMA FindConn ==
  ASSUME TypeOK, NoDanglingEntry,
         NEW src \in RemoteAddr, NEW sport \in RemotePort,
         NEW dst \in LocalAddr, NEW dport \in Port,
         findConnForSegment(src, sport, dst, dport) # NULL
  PROVE  LET c == findConnForSegment(src, sport, dst, dport)
             key == FullKey(src, sport, dst, dport)
         IN  /\ c \in Conn /\ sock[c] \in SockPair
             /\ key \in SockPair
             /\ tcpConnMap[key] \in {NULL, c}
             /\ sock[c].localPort = dport /\ key.localPort = dport
PROOF
  <1> DEFINE keys == LookupKeys(src, sport, dst, dport)
             hits == Hits(src, sport, dst, dport)
             first == CHOOSE i \in hits : \A j \in hits : i <= j
  <1>1. \A i \in 1 .. 4 : keys[i] \in SockPair
    <2>1. keys[1] \in SockPair BY DEF LookupKeys, SockKey, SockPair
    <2>2. keys[2] \in SockPair BY DEF LookupKeys, SockKey, SockPair
    <2>3. keys[3] \in SockPair BY DEF LookupKeys, SockKey, SockPair
    <2>4. keys[4] \in SockPair BY DEF LookupKeys, SockKey, SockPair
    <2> QED BY <2>1, <2>2, <2>3, <2>4
  <1>2. hits \subseteq 1 .. 4 /\ hits # {}
    BY DEF Hits, findConnForSegment
  <1>3. \E i \in hits : \A j \in hits : i <= j
    <2>1. CASE 1 \in hits BY <2>1, <1>2
    <2>2. CASE 1 \notin hits /\ 2 \in hits BY <2>2, <1>2
    <2>3. CASE 1 \notin hits /\ 2 \notin hits /\ 3 \in hits BY <2>3, <1>2
    <2>4. CASE 1 \notin hits /\ 2 \notin hits /\ 3 \notin hits BY <2>4, <1>2
    <2> QED BY <2>1, <2>2, <2>3, <2>4
  <1>4. first \in hits /\ \A j \in hits : first <= j
    BY <1>3
  <1>5. findConnForSegment(src, sport, dst, dport) = tcpConnMap[keys[first]]
    BY <1>2 DEF findConnForSegment
  <1>6. tcpConnMap[keys[first]] \in Conn /\ sock[tcpConnMap[keys[first]]] = keys[first]
    <2>1. keys[first] \in SockPair BY <1>1, <1>2, <1>4
    <2>2. tcpConnMap[keys[first]] # NULL BY <1>4 DEF Hits
    <2> QED BY <2>1, <2>2 DEF TypeOK, NoDanglingEntry
  <1>7. keys[1] = FullKey(src, sport, dst, dport)
    BY DEF LookupKeys, FullKey
  <1>8. tcpConnMap[keys[1]] \in {NULL, tcpConnMap[keys[first]]}
    <2>1. CASE 1 \in hits
      <3>1. first = 1 BY <2>1, <1>2, <1>4
      <3> QED BY <3>1
    <2>2. CASE 1 \notin hits BY <2>2 DEF Hits
    <2> QED BY <2>1, <2>2
  <1>9. keys[1] \in SockPair /\ keys[first] \in SockPair BY <1>1, <1>2, <1>4
  <1>10. \A i \in 1 .. 4 : keys[i].localPort = dport
    <2>1. keys[1].localPort = dport BY DEF LookupKeys, SockKey
    <2>2. keys[2].localPort = dport BY DEF LookupKeys, SockKey
    <2>3. keys[3].localPort = dport BY DEF LookupKeys, SockKey
    <2>4. keys[4].localPort = dport BY DEF LookupKeys, SockKey
    <2> QED BY <2>1, <2>2, <2>3, <2>4
  <1>11. keys[1].localPort = dport /\ keys[first].localPort = dport
    BY <1>10, <1>2, <1>4
  <1> HIDE DEF keys, hits, first
  <1> QED BY <1>5, <1>6, <1>7, <1>8, <1>9, <1>11

(* While a port is free, getEphemeralPort returns a free port. *)
LEMMA EphemeralPortIsFree ==
  ASSUME TypeOK, FreePorts # {}
  PROVE  getEphemeralPort \in FreePorts
PROOF
  <1> DEFINE dists == {Distance(p) : p \in FreePorts}
  <1>1. \A p \in FreePorts : Distance(p) \in Nat
    BY ConstAssumption DEF TypeOK, FreePorts, Distance, EphemeralPort
  <1>2. dists \subseteq Nat /\ dists # {}
    BY <1>1
  <1> DEFINE R == {ss \in Nat \X Nat : ss[1] < ss[2]}
  <1>3. \E d \in dists : \A e \in dists : ~(<<e, d>> \in R)
    <2>1. IsWellFoundedOn(R, Nat)
      BY NatLessThanWellFounded, Zenon DEF OpToRel
    <2> HIDE DEF dists, R
    <2> QED BY <1>2, <2>1, WFMin
  <1>4. PICK p \in FreePorts :
            \A q \in FreePorts : ~(<<Distance(q), Distance(p)>> \in R)
    BY <1>3
  <1>5. \A q \in FreePorts : Distance(p) <= Distance(q)
    <2>1. \A a, b \in Nat : ~(<<a, b>> \in R) => b <= a
      OBVIOUS
    <2> HIDE DEF R
    <2> QED BY <2>1, <1>1, <1>4
  <1> QED BY <1>5 DEF getEphemeralPort

-----------------------------------------------------------------------------
(* The operations on the tables, one lemma each. *)

LEMMA AddSockPairInv ==
  ASSUME TablesInv, nextConnId \in ConnId,
         NEW key \in SockPair, NEW a \in BOOLEAN, NEW f \in BOOLEAN,
         AddSockPair(key, a, f), lastEphemeralPort' \in EphemeralPort
  PROVE  TablesInv'
PROOF
  <1>1. CASE tcpConnMap[key] # NULL
    BY <1>1 DEF AddSockPair, Fail, TablesInv, TypeOK, TablesConsistent, ConnRegistered,
       NoDanglingEntry, IdsIssued, tables
  <1>2. CASE tcpConnMap[key] = NULL
    <2>1. PICK c \in Conn \ Live :
            /\ tcpConnMap' = [tcpConnMap EXCEPT ![key] = c]
            /\ tcpAppConnMap' = [tcpAppConnMap EXCEPT ![nextConnId] = c]
            /\ usedEphemeralPorts' = MarkPort(key.localPort)
            /\ sock' = [sock EXCEPT ![c] = key]
            /\ connId' = [connId EXCEPT ![c] = nextConnId]
            /\ fsm' = [fsm EXCEPT ![c] = IF a THEN "SYN_SENT" ELSE "LISTEN"]
            /\ active' = [active EXCEPT ![c] = a]
            /\ fork' = [fork EXCEPT ![c] = f]
            /\ nextConnId' = nextConnId + 1
            /\ err' = err
      BY <1>2 DEF AddSockPair
    <2>2. c \in Conn /\ sock[c] = NULL
      BY <2>1 DEF Live
    <2>3. TypeOK'
      BY <2>1, <2>2, ConstAssumption DEF TablesInv, TypeOK, MarkPort, ConnId, ConnState
    <2>4. IdsIssued'
      BY <2>1, <2>2 DEF TablesInv, IdsIssued, TypeOK, ConnId
    <2>5. ConnRegistered'
      BY <1>2, <2>1, <2>2, ConstAssumption, NullAssumption
      DEF TablesInv, TypeOK, TablesConsistent, ConnRegistered, IdsIssued, ConnId
    <2>6. NoDanglingEntry'
      BY <1>2, <2>1, <2>2, ConstAssumption, NullAssumption
      DEF TablesInv, TypeOK, TablesConsistent, NoDanglingEntry, SockPair
    <2> QED BY <2>3, <2>4, <2>5, <2>6 DEF TablesInv, TablesConsistent
  <1> QED BY <1>1, <1>2

LEMMA RemoveConnectionInv ==
  ASSUME TablesInv, NEW c \in Conn, sock[c] # NULL, RemoveConnection(c)
  PROVE  TablesInv'
PROOF
  <1>1. TypeOK'
    BY ConstAssumption
    DEF TablesInv, TypeOK, RemoveConnection, UnmarkPort, ConnId, ConnState
  <1>2. IdsIssued'
    BY ConstAssumption, NullAssumption DEF TablesInv, TypeOK, RemoveConnection, IdsIssued
  <1>3. ConnRegistered'
    BY ConstAssumption, NullAssumption DEF TablesInv, TypeOK, RemoveConnection, TablesConsistent, ConnRegistered
  <1>4. NoDanglingEntry'
    BY ConstAssumption, NullAssumption DEF TablesInv, TypeOK, RemoveConnection, TablesConsistent, ConnRegistered,
           NoDanglingEntry
  <1> QED BY <1>1, <1>2, <1>3, <1>4 DEF TablesInv, TablesConsistent

LEMMA GotoInv ==
  ASSUME TablesInv, NEW c \in Conn, NEW s \in ConnState, Goto(c, s)
  PROVE  TablesInv'
  BY DEF TablesInv, TypeOK, Goto, TablesConsistent, ConnRegistered, NoDanglingEntry,
         IdsIssued, tables

(* What updateSockPair makes of tcpConnMap when the new place is free or    *)
(* the connection's own.                                                    *)
LEMMA UpdatedMap ==
  ASSUME TablesInv, NEW c \in Conn, sock[c] # NULL, NEW key \in SockPair,
         tcpConnMap[key] \in {NULL, c}
  PROVE  /\ sock[c] \in SockPair
         /\ UpdatedConnMap(c, key) \in [SockPair -> Conn \cup {NULL}]
         /\ \A k \in SockPair : UpdatedConnMap(c, key)[k] =
               IF k = key THEN c ELSE IF k = sock[c] THEN NULL ELSE tcpConnMap[k]
         /\ UpdatedConnMap(c, key)[key] = c
         /\ \A k \in SockPair : UpdatedConnMap(c, key)[k] = c => k = key
         /\ \A d \in Conn : d # c /\ sock[d] # NULL =>
               sock[d] # key /\ sock[d] # sock[c] /\ UpdatedConnMap(c, key)[sock[d]] = d
PROOF
  <1>1. sock[c] \in SockPair /\ tcpConnMap \in [SockPair -> Conn \cup {NULL}]
    BY DEF TablesInv, TypeOK
  <1>2. \A k \in SockPair : UpdatedConnMap(c, key)[k] =
               IF k = key THEN c ELSE IF k = sock[c] THEN NULL ELSE tcpConnMap[k]
    BY <1>1 DEF UpdatedConnMap
  <1>3. UpdatedConnMap(c, key) \in [SockPair -> Conn \cup {NULL}]
    BY <1>1 DEF UpdatedConnMap
  <1>4. \A k \in SockPair : UpdatedConnMap(c, key)[k] = c => k = key
    BY <1>1, <1>2, ConstAssumption DEF TablesInv, TablesConsistent, NoDanglingEntry
  <1>5. \A d \in Conn : d # c /\ sock[d] # NULL =>
               sock[d] # key /\ sock[d] # sock[c] /\ sock[d] \in SockPair
    BY <1>1, ConstAssumption
    DEF TablesInv, TypeOK, TablesConsistent, ConnRegistered
  <1>6. \A d \in Conn : d # c /\ sock[d] # NULL => UpdatedConnMap(c, key)[sock[d]] = d
    BY <1>2, <1>5 DEF TablesInv, TablesConsistent, ConnRegistered
  <1> QED BY <1>1, <1>2, <1>3, <1>4, <1>5, <1>6

LEMMA UpdateSockPairInv ==
  ASSUME TablesInv, NEW c \in Conn, sock[c] # NULL, NEW key \in SockPair,
         tcpConnMap[key] \in {NULL, c}, UpdateSockPair(c, key),
         NEW s \in ConnState, fsm' = [fsm EXCEPT ![c] = s]
  PROVE  TablesInv'
PROOF
  <1> DEFINE M == UpdatedConnMap(c, key)
  <1>0. /\ tcpConnMap' = M
        /\ sock' = [sock EXCEPT ![c] = key]
        /\ UNCHANGED <<tcpAppConnMap, lastEphemeralPort, usedEphemeralPorts, connId,
                       active, fork, nextConnId, err>>
    BY DEF UpdateSockPair
  <1>m. /\ sock[c] \in SockPair
        /\ M \in [SockPair -> Conn \cup {NULL}]
        /\ \A k \in SockPair : M[k] =
              IF k = key THEN c ELSE IF k = sock[c] THEN NULL ELSE tcpConnMap[k]
        /\ M[key] = c
        /\ \A k \in SockPair : M[k] = c => k = key
        /\ \A d \in Conn : d # c /\ sock[d] # NULL =>
              sock[d] # key /\ sock[d] # sock[c] /\ M[sock[d]] = d
    BY UpdatedMap
  <1> HIDE DEF M
  <1>1. TypeOK'
    BY <1>0, <1>m DEF TablesInv, TypeOK
  <1>2. IdsIssued'
    BY <1>0 DEF TablesInv, TypeOK, IdsIssued
  <1>3. ConnRegistered'
    BY <1>0, <1>m DEF TablesInv, TypeOK, TablesConsistent, ConnRegistered
  <1>4. NoDanglingEntry'
    <2>1. ASSUME NEW k \in SockPair, M[k] # NULL
          PROVE  sock'[M[k]] = k
      <3>1. CASE k = key BY <3>1, <1>0, <1>m DEF TablesInv, TypeOK
      <3>2. CASE k # key
        BY <3>2, <2>1, <1>0, <1>m
        DEF TablesInv, TypeOK, TablesConsistent, NoDanglingEntry
      <3> QED BY <3>1, <3>2
    <2>2. ASSUME NEW i \in ConnId, tcpAppConnMap[i] # NULL
          PROVE  sock'[tcpAppConnMap[i]] # NULL /\ connId[tcpAppConnMap[i]] = i
      BY <2>2, <1>0, NullAssumption DEF TablesInv, TypeOK, TablesConsistent, NoDanglingEntry
    <2> QED BY <1>0, <2>1, <2>2 DEF NoDanglingEntry
  <1> QED BY <1>1, <1>2, <1>3, <1>4 DEF TablesInv, TablesConsistent

LEMMA AddForkedConnectionInv ==
  ASSUME TablesInv, nextConnId \in ConnId, NEW c \in Conn, sock[c] # NULL,
         NEW key \in SockPair, tcpConnMap[key] \in {NULL, c},
         AddForkedConnection(c, key)
  PROVE  TablesInv'
PROOF
  <1> DEFINE M == UpdatedConnMap(c, key)
             lk == SockKey(sock[c].localAddr, sock[c].localPort, Unspecified, NoPort)
  <1>m. /\ sock[c] \in SockPair
        /\ M \in [SockPair -> Conn \cup {NULL}]
        /\ M[key] = c
        /\ \A k \in SockPair : M[k] =
              IF k = key THEN c ELSE IF k = sock[c] THEN NULL ELSE tcpConnMap[k]
        /\ \A k \in SockPair : M[k] = c => k = key
        /\ \A d \in Conn : d # c /\ sock[d] # NULL =>
              sock[d] # key /\ sock[d] # sock[c] /\ M[sock[d]] = d
    BY UpdatedMap
  <1>k. lk \in SockPair
    BY <1>m DEF SockKey, SockPair
  <1>1. CASE M[lk] # NULL
    BY <1>1 DEF AddForkedConnection, Fail, TablesInv, TypeOK, TablesConsistent,
       ConnRegistered, NoDanglingEntry, IdsIssued, tables
  <1>2. CASE M[lk] = NULL
    <2>1. PICK n \in Conn \ Live :
            /\ tcpConnMap' = [M EXCEPT ![lk] = n]
            /\ tcpAppConnMap' = [tcpAppConnMap EXCEPT ![connId[c]] = n,
                                                      ![nextConnId] = c]
            /\ usedEphemeralPorts' = MarkPort(lk.localPort)
            /\ sock' = [sock EXCEPT ![c] = key, ![n] = lk]
            /\ connId' = [connId EXCEPT ![c] = nextConnId, ![n] = connId[c]]
            /\ fsm' = [fsm EXCEPT ![c] = "SYN_RCVD", ![n] = "LISTEN"]
            /\ active' = [active EXCEPT ![n] = FALSE]
            /\ fork' = [fork EXCEPT ![n] = TRUE]
            /\ nextConnId' = nextConnId + 1
            /\ UNCHANGED <<lastEphemeralPort, err>>
      BY <1>2 DEF AddForkedConnection
    <2> HIDE DEF M, lk
    <2>2. n \in Conn /\ sock[n] = NULL /\ n # c
      BY <2>1 DEF Live
    <2>3. lk # key
      BY <1>m, <1>2, ConstAssumption
    <2>4. connId[c] \in ConnId /\ connId[c] < nextConnId /\ tcpAppConnMap[connId[c]] = c
      BY DEF TablesInv, TypeOK, IdsIssued, TablesConsistent, ConnRegistered
    <2>5. TypeOK'
      <3>1. tcpConnMap' \in [SockPair -> Conn \cup {NULL}] BY <2>1, <1>m, <1>k
      <3>2. tcpAppConnMap' \in [ConnId -> Conn \cup {NULL}]
        BY <2>1 DEF TablesInv, TypeOK
      <3>3. sock' \in [Conn -> SockPair \cup {NULL}]
        BY <2>1, <1>k DEF TablesInv, TypeOK
      <3>4. connId' \in [Conn -> ConnId] BY <2>1, <2>4 DEF TablesInv, TypeOK
      <3>5. fsm' \in [Conn -> ConnState]
        BY <2>1 DEF TablesInv, TypeOK, ConnState
      <3>6. usedEphemeralPorts' \in [EphemeralPort -> Nat]
        BY <2>1 DEF TablesInv, TypeOK, MarkPort
      <3>7. nextConnId' \in 1 .. (MaxConnId + 1)
        BY <2>1, ConstAssumption DEF ConnId
      <3> QED BY <2>1, <3>1, <3>2, <3>3, <3>4, <3>5, <3>6, <3>7 DEF TablesInv, TypeOK
    <2>s. /\ sock'[c] = key /\ sock'[n] = lk
          /\ \A d \in Conn : d # c /\ d # n => sock'[d] = sock[d]
      BY <2>1, <2>2 DEF TablesInv, TypeOK
    <2>i. /\ connId'[c] = nextConnId /\ connId'[n] = connId[c]
          /\ \A d \in Conn : d # c /\ d # n => connId'[d] = connId[d]
      BY <2>1, <2>2 DEF TablesInv, TypeOK
    <2>a. /\ tcpAppConnMap'[nextConnId] = c /\ tcpAppConnMap'[connId[c]] = n
          /\ \A i \in ConnId : i # nextConnId /\ i # connId[c] =>
                tcpAppConnMap'[i] = tcpAppConnMap[i]
      BY <2>1, <2>4 DEF TablesInv, TypeOK, ConnId
    <2>c. /\ tcpConnMap'[lk] = n
          /\ \A k \in SockPair : k # lk => tcpConnMap'[k] = M[k]
      BY <2>1, <1>m, <1>k
    <2>6. IdsIssued'
      <3> SUFFICES ASSUME NEW d \in Conn, sock'[d] # NULL
                   PROVE  connId'[d] < nextConnId + 1
        BY <2>1 DEF IdsIssued
      <3>1. CASE d = c BY <3>1, <2>i DEF ConnId
      <3>2. CASE d = n BY <3>2, <2>i, <2>4 DEF ConnId
      <3>3. CASE d # c /\ d # n
        BY <3>3, <2>s, <2>i DEF TablesInv, TypeOK, IdsIssued, ConnId
      <3> QED BY <3>1, <3>2, <3>3
    <2>7. ConnRegistered'
      <3> SUFFICES ASSUME NEW d \in Conn, sock'[d] # NULL
                   PROVE  tcpConnMap'[sock'[d]] = d /\ tcpAppConnMap'[connId'[d]] = d
        BY DEF ConnRegistered
      <3>1. CASE d = c BY <3>1, <1>m, <2>3, <2>s, <2>i, <2>a, <2>c
      <3>2. CASE d = n BY <3>2, <2>s, <2>i, <2>a, <2>c
      <3>3. CASE d # c /\ d # n
        <4>1. sock[d] # NULL /\ sock[d] \in SockPair /\ M[sock[d]] = d
          BY <3>3, <2>s, <1>m DEF TablesInv, TypeOK
        <4>2. sock[d] # lk BY <4>1, <1>2, ConstAssumption
        <4>3. connId[d] < nextConnId /\ connId[d] \in ConnId /\ tcpAppConnMap[connId[d]] = d
          BY <4>1 DEF TablesInv, TypeOK, IdsIssued, TablesConsistent, ConnRegistered
        <4>4. connId[d] # connId[c] BY <3>3, <4>3, <2>4
        <4>5. connId[d] # nextConnId BY <4>3 DEF ConnId
        <4> QED BY <3>3, <4>1, <4>2, <4>3, <4>4, <4>5, <2>s, <2>i, <2>a, <2>c
      <3> QED BY <3>1, <3>2, <3>3
    <2>8. NoDanglingEntry'
      <3>1. ASSUME NEW k \in SockPair, tcpConnMap'[k] # NULL
            PROVE  sock'[tcpConnMap'[k]] = k
        <4>1. CASE k = lk BY <4>1, <2>s, <2>c
        <4>2. CASE k = key BY <4>2, <1>m, <2>3, <2>s, <2>c
        <4>3. CASE k # lk /\ k # key
          <5>1. tcpConnMap'[k] = tcpConnMap[k] /\ tcpConnMap[k] # c
            BY <4>3, <3>1, <1>m, <2>c
          <5>2. sock[tcpConnMap[k]] = k /\ tcpConnMap[k] \in Conn
            BY <5>1, <3>1 DEF TablesInv, TypeOK, TablesConsistent, NoDanglingEntry
          <5>3. tcpConnMap[k] # n BY <5>2, <2>2, NullAssumption
          <5> QED BY <5>1, <5>2, <5>3, <2>s
        <4> QED BY <4>1, <4>2, <4>3
      <3>2. ASSUME NEW i \in ConnId, tcpAppConnMap'[i] # NULL
            PROVE  sock'[tcpAppConnMap'[i]] # NULL /\ connId'[tcpAppConnMap'[i]] = i
        <4>1. CASE i = nextConnId
          BY <4>1, <2>a, <2>s, <2>i, NullAssumption
        <4>2. CASE i = connId[c]
          BY <4>2, <2>a, <2>s, <2>i, <1>k, NullAssumption
        <4>3. CASE i # nextConnId /\ i # connId[c]
          <5>1. /\ tcpAppConnMap'[i] = tcpAppConnMap[i] /\ tcpAppConnMap[i] \in Conn
                /\ sock[tcpAppConnMap[i]] # NULL /\ connId[tcpAppConnMap[i]] = i
            BY <4>3, <3>2, <2>a
            DEF TablesInv, TypeOK, TablesConsistent, NoDanglingEntry
          <5>2. tcpAppConnMap[i] # c /\ tcpAppConnMap[i] # n BY <5>1, <4>3, <2>2
          <5> QED BY <5>1, <5>2, <2>s, <2>i
        <4> QED BY <4>1, <4>2, <4>3
      <3> QED BY <3>1, <3>2 DEF NoDanglingEntry
    <2> QED BY <2>5, <2>6, <2>7, <2>8 DEF TablesInv, TablesConsistent
  <1> QED BY <1>1, <1>2

-----------------------------------------------------------------------------
(* FallBack closes the connection or takes it back to LISTEN. *)
LEMMA FallBackInv ==
  ASSUME TablesInv, NEW c \in Conn, sock[c] # NULL, FallBack(c)
  PROVE  TablesInv'
  BY RemoveConnectionInv, GotoInv DEF FallBack, ConnState

LEMMA AppCommandInv ==
  ASSUME TablesInv, AppCommand
  PROVE  TablesInv'
PROOF
  <1> USE ConstAssumption
  <1>1. ASSUME NEW la \in LocalAddr \cup {Unspecified}, NEW lp \in LocalPort,
               NEW f \in BOOLEAN, OpenPassive(la, lp, f)
        PROVE  TablesInv'
    <2>1. SockKey(la, lp, Unspecified, NoPort) \in SockPair
      BY DEF SockKey, SockPair, Port
    <2>2. /\ nextConnId \in ConnId /\ lastEphemeralPort' \in EphemeralPort
          /\ AddSockPair(SockKey(la, lp, Unspecified, NoPort), FALSE, f)
      BY <1>1 DEF OpenPassive, TablesInv, TypeOK
    <2> QED BY <2>1, <2>2, AddSockPairInv
  <1>2. ASSUME NEW la \in LocalAddr \cup {Unspecified}, NEW lp \in LocalPort \cup {NoPort},
               NEW ra \in RemoteAddr, NEW rp \in RemotePort, OpenActive(la, lp, ra, rp)
        PROVE  TablesInv'
    <2>1. CASE lp # NoPort
      <3>1. SockKey(la, lp, ra, rp) \in SockPair
        BY <2>1 DEF SockKey, SockPair, Port
      <3> QED BY <1>2, <2>1, <3>1, AddSockPairInv DEF OpenActive, TablesInv, TypeOK
    <2>2. CASE lp = NoPort /\ FreePorts = {}
      BY <1>2, <2>2 DEF OpenActive, Fail, TablesInv, TypeOK, TablesConsistent,
         ConnRegistered, NoDanglingEntry, IdsIssued, tables
    <2>3. CASE lp = NoPort /\ FreePorts # {}
      <3>1. getEphemeralPort \in EphemeralPort
        BY <2>3, EphemeralPortIsFree DEF FreePorts, TablesInv
      <3>2. SockKey(la, getEphemeralPort, ra, rp) \in SockPair
        BY <3>1 DEF SockKey, SockPair, Port
      <3>3. /\ nextConnId \in ConnId /\ lastEphemeralPort' = getEphemeralPort
            /\ AddSockPair(SockKey(la, getEphemeralPort, ra, rp), TRUE, FALSE)
        BY <1>2, <2>3 DEF OpenActive
      <3> DEFINE key == SockKey(la, getEphemeralPort, ra, rp)
      <3> HIDE DEF key
      <3> QED BY <3>1, <3>2, <3>3, AddSockPairInv DEF key
    <2> QED BY <2>1, <2>2, <2>3
  <1>3. ASSUME NEW i \in ConnId, tcpAppConnMap[i] # NULL
        PROVE  tcpAppConnMap[i] \in Conn /\ sock[tcpAppConnMap[i]] # NULL
    BY <1>3 DEF TablesInv, TypeOK, TablesConsistent, NoDanglingEntry
  <1>4. ASSUME NEW i \in ConnId, Close(i)
        PROVE  TablesInv'
    BY <1>3, <1>4, RemoveConnectionInv, GotoInv DEF Close, ConnState
  <1>5. ASSUME NEW i \in ConnId, Abort(i)
        PROVE  TablesInv'
    BY <1>3, <1>5, RemoveConnectionInv DEF Abort
  <1> QED BY <1>1, <1>2, <1>4, <1>5 DEF AppCommand

LEMMA SegmentArrivesInv ==
  ASSUME TablesInv, SegmentArrives
  PROVE  TablesInv'
PROOF
  <1> SUFFICES ASSUME NEW src \in RemoteAddr, NEW sport \in RemotePort,
                      NEW dst \in LocalAddr, NEW dport \in Port,
                      \/ SynInListen(src, sport, dst, dport)
                      \/ \E s \in {"SYN_RCVD", "SYNCED"} : SynInSynSent(src, sport, dst, dport, s)
                      \/ AckInSynRcvd(src, sport, dst, dport)
                      \/ RstArrives(src, sport, dst, dport)
                      \/ ClosingSegment(src, sport, dst, dport)
               PROVE  TablesInv'
    BY DEF SegmentArrives
  <1> DEFINE c == findConnForSegment(src, sport, dst, dport)
             key == FullKey(src, sport, dst, dport)
  <1>1. c # NULL
    BY DEF SynInListen, SynInSynSent, AckInSynRcvd, RstArrives, ClosingSegment
  <1>2. c \in Conn /\ sock[c] # NULL /\ key \in SockPair /\ tcpConnMap[key] \in {NULL, c}
    BY <1>1, FindConn, NullAssumption DEF TablesInv, TablesConsistent
  <1>3. CASE SynInListen(src, sport, dst, dport)
    <2>1. CASE fork[c]
      <3>1. nextConnId \in ConnId /\ AddForkedConnection(c, key)
        BY <1>3, <2>1 DEF SynInListen
      <3> HIDE DEF c, key
      <3> QED BY <1>2, <3>1, AddForkedConnectionInv
    <2>2. CASE ~fork[c]
      <3>1. UpdateSockPair(c, key) /\ fsm' = [fsm EXCEPT ![c] = "SYN_RCVD"]
        BY <1>3, <2>2 DEF SynInListen
      <3> HIDE DEF c, key
      <3> QED BY <1>2, <3>1, UpdateSockPairInv DEF ConnState
    <2> QED BY <2>1, <2>2
  <1>4. ASSUME NEW s \in {"SYN_RCVD", "SYNCED"}, SynInSynSent(src, sport, dst, dport, s)
        PROVE  TablesInv'
    <2>1. UpdateSockPair(c, key) /\ fsm' = [fsm EXCEPT ![c] = s] /\ s \in ConnState
      BY <1>4 DEF SynInSynSent, ConnState
    <2> HIDE DEF c, key
    <2> QED BY <1>2, <2>1, UpdateSockPairInv
  <1>5. CASE AckInSynRcvd(src, sport, dst, dport)
    BY <1>2, <1>5, GotoInv DEF AckInSynRcvd, ConnState
  <1>6. CASE RstArrives(src, sport, dst, dport)
    BY <1>2, <1>6, FallBackInv DEF RstArrives
  <1>7. CASE ClosingSegment(src, sport, dst, dport)
    BY <1>2, <1>7, RemoveConnectionInv DEF ClosingSegment
  <1> QED BY <1>3, <1>4, <1>5, <1>6, <1>7

LEMMA TablesStep == TablesInv /\ [Next]_vars => TablesInv'
PROOF
  <1> SUFFICES ASSUME TablesInv, [Next]_vars PROVE TablesInv'
    OBVIOUS
  <1>1. CASE AppCommand BY <1>1, AppCommandInv
  <1>2. CASE SegmentArrives BY <1>2, SegmentArrivesInv
  <1>3. CASE Timer
    <2> PICK c \in Conn : ConnEstabTimeout(c) \/ ClosingTimeout(c) BY <1>3 DEF Timer
    <2> QED BY FallBackInv, RemoveConnectionInv DEF ConnEstabTimeout, ClosingTimeout, Live
  <1>4. CASE UNCHANGED vars
    BY <1>4 DEF vars, TablesInv, TypeOK, TablesConsistent, ConnRegistered,
       NoDanglingEntry, IdsIssued
  <1> QED BY <1>1, <1>2, <1>3, <1>4 DEF Next, Done

LEMMA TablesInit == Init => TablesInv
  BY ConstAssumption DEF Init, TablesInv, TypeOK, TablesConsistent, ConnRegistered,
     NoDanglingEntry, IdsIssued, ConnState, ConnId, EphemeralPort

LEMMA TablesInvariant == Spec => []TablesInv
  BY TablesInit, TablesStep, PTL DEF Spec

(* TCP.cc's tables have the types the code gives them: in particular the    *)
(* port counters of usedEphemeralPorts never go below zero and              *)
(* lastEphemeralPort stays within the ephemeral range.                      *)
THEOREM TypeCorrect == Spec => []TypeOK
PROOF
  <1>1. TablesInv => TypeOK BY DEF TablesInv
  <1> QED BY <1>1, TablesInvariant, PTL

(* However opens, forks, resets, timeouts and closes interleave, every      *)
(* connection is registered under its own socket pair and connId, and       *)
(* neither table keeps an entry for anything else: updateSockPair, which    *)
(* checks nothing, never takes another connection's place.                  *)
THEOREM TablesAlwaysConsistent == Spec => []TablesConsistent
PROOF
  <1>1. TablesInv => TablesConsistent BY DEF TablesInv
  <1> QED BY <1>1, TablesInvariant, PTL

-----------------------------------------------------------------------------
(* The connections that use a port, and what a step does to their number. *)
UsersIn(sk, p) == {c \in {d \in Conn : sk[d] # NULL} : sk[c].localPort = p}

PortCounts(used, sk) == \A p \in EphemeralPort : used[p] = Cardinality(UsersIn(sk, p))

LEMMA UsersFinite == ASSUME NEW sk, NEW p PROVE IsFiniteSet(UsersIn(sk, p))
PROOF
  <1>1. UsersIn(sk, p) \subseteq Conn
    BY DEF UsersIn
  <1> QED BY <1>1, ConstAssumption, FS_Subset

(* A connection object is taken, with the socket pair key. *)
LEMMA UserAdded ==
  ASSUME TypeOK, PortCounts(usedEphemeralPorts, sock), NEW c \in Conn, sock[c] = NULL,
         NEW key \in SockPair, NEW sk, sk = [sock EXCEPT ![c] = key]
  PROVE  PortCounts(MarkPort(key.localPort), sk)
PROOF
  <1> SUFFICES ASSUME NEW p \in EphemeralPort
               PROVE  MarkPort(key.localPort)[p] = Cardinality(UsersIn(sk, p))
    BY DEF PortCounts
  <1>1. usedEphemeralPorts[p] = Cardinality(UsersIn(sock, p)) /\ usedEphemeralPorts[p] \in Nat
    BY DEF PortCounts, TypeOK
  <1>2. CASE key.localPort = p
    <2>1. UsersIn(sk, p) = UsersIn(sock, p) \cup {c} /\ c \notin UsersIn(sock, p)
      BY <1>2, NullAssumption DEF UsersIn, TypeOK
    <2>2. Cardinality(UsersIn(sk, p)) = Cardinality(UsersIn(sock, p)) + 1
      BY <2>1, UsersFinite, FS_AddElement
    <2>3. MarkPort(key.localPort)[p] = usedEphemeralPorts[p] + 1
      BY <1>2 DEF MarkPort, TypeOK
    <2> QED BY <1>1, <2>2, <2>3
  <1>3. CASE key.localPort # p
    <2>1. UsersIn(sk, p) = UsersIn(sock, p)
      BY <1>3, NullAssumption DEF UsersIn, TypeOK
    <2>2. MarkPort(key.localPort)[p] = usedEphemeralPorts[p]
      BY <1>3 DEF MarkPort, TypeOK
    <2> QED BY <1>1, <2>1, <2>2
  <1> QED BY <1>2, <1>3

(* A connection object is deleted. *)
LEMMA UserRemoved ==
  ASSUME TypeOK, PortCounts(usedEphemeralPorts, sock), NEW c \in Conn, sock[c] # NULL,
         NEW sk, sk = [sock EXCEPT ![c] = NULL]
  PROVE  PortCounts(UnmarkPort(sock[c].localPort), sk)
PROOF
  <1> SUFFICES ASSUME NEW p \in EphemeralPort
               PROVE  UnmarkPort(sock[c].localPort)[p] = Cardinality(UsersIn(sk, p))
    BY DEF PortCounts
  <1>1. usedEphemeralPorts[p] = Cardinality(UsersIn(sock, p)) /\ usedEphemeralPorts[p] \in Nat
    BY DEF PortCounts, TypeOK
  <1>2. CASE sock[c].localPort = p
    <2>1. UsersIn(sk, p) = UsersIn(sock, p) \ {c} /\ c \in UsersIn(sock, p)
      BY <1>2 DEF UsersIn, TypeOK
    <2>2. /\ Cardinality(UsersIn(sk, p)) = Cardinality(UsersIn(sock, p)) - 1
          /\ Cardinality(UsersIn(sk, p)) \in Nat
      BY <2>1, UsersFinite, FS_RemoveElement, FS_CardinalityType
    <2>3. usedEphemeralPorts[p] > 0
      BY <1>1, <2>2
    <2>4. UnmarkPort(sock[c].localPort)[p] = usedEphemeralPorts[p] - 1
      BY <1>2, <2>3 DEF UnmarkPort, TypeOK
    <2> QED BY <1>1, <2>2, <2>4
  <1>3. CASE sock[c].localPort # p
    <2>1. UsersIn(sk, p) = UsersIn(sock, p)
      BY <1>3 DEF UsersIn, TypeOK
    <2>2. UnmarkPort(sock[c].localPort)[p] = usedEphemeralPorts[p]
      BY <1>3 DEF UnmarkPort, TypeOK
    <2> QED BY <1>1, <2>1, <2>2
  <1> QED BY <1>2, <1>3

(* A connection moves to another socket pair of the same local port. *)
LEMMA UserMoved ==
  ASSUME TypeOK, NEW c \in Conn, sock[c] # NULL,
         NEW key \in SockPair, key.localPort = sock[c].localPort,
         NEW sk, sk = [sock EXCEPT ![c] = key]
  PROVE  \A p : UsersIn(sk, p) = UsersIn(sock, p)
  BY NullAssumption DEF UsersIn, TypeOK

LEMMA PortsIsCounts == PortsAccounted <=> PortCounts(usedEphemeralPorts, sock)
  BY DEF PortsAccounted, PortCounts, UsersIn, Live

LEMMA AddSockPairPorts ==
  ASSUME TypeOK, PortCounts(usedEphemeralPorts, sock),
         NEW key \in SockPair, NEW a \in BOOLEAN, NEW f \in BOOLEAN, AddSockPair(key, a, f)
  PROVE  PortCounts(usedEphemeralPorts', sock')
PROOF
  <1>1. CASE tcpConnMap[key] # NULL
    BY <1>1 DEF AddSockPair, Fail, tables
  <1>2. CASE tcpConnMap[key] = NULL
    <2>1. PICK c \in Conn \ Live :
            /\ usedEphemeralPorts' = MarkPort(key.localPort)
            /\ sock' = [sock EXCEPT ![c] = key]
      BY <1>2 DEF AddSockPair
    <2>2. c \in Conn /\ sock[c] = NULL
      BY <2>1 DEF Live
    <2> QED BY <2>1, <2>2, UserAdded
  <1> QED BY <1>1, <1>2

LEMMA RemoveConnectionPorts ==
  ASSUME TypeOK, PortCounts(usedEphemeralPorts, sock), NEW c \in Conn, sock[c] # NULL,
         RemoveConnection(c)
  PROVE  PortCounts(usedEphemeralPorts', sock')
  BY UserRemoved DEF RemoveConnection

LEMMA GotoPorts ==
  ASSUME PortCounts(usedEphemeralPorts, sock), NEW c \in Conn, NEW s, Goto(c, s)
  PROVE  PortCounts(usedEphemeralPorts', sock')
  BY DEF Goto, tables

LEMMA FallBackPorts ==
  ASSUME TypeOK, PortCounts(usedEphemeralPorts, sock), NEW c \in Conn, sock[c] # NULL, FallBack(c)
  PROVE  PortCounts(usedEphemeralPorts', sock')
  BY RemoveConnectionPorts, GotoPorts DEF FallBack

LEMMA UpdateSockPairPorts ==
  ASSUME TypeOK, PortCounts(usedEphemeralPorts, sock), NEW c \in Conn, sock[c] # NULL,
         NEW key \in SockPair, key.localPort = sock[c].localPort, UpdateSockPair(c, key)
  PROVE  PortCounts(usedEphemeralPorts', sock')
PROOF
  <1>1. sock' = [sock EXCEPT ![c] = key] /\ usedEphemeralPorts' = usedEphemeralPorts
    BY DEF UpdateSockPair
  <1>2. \A p : UsersIn(sock', p) = UsersIn(sock, p)
    BY <1>1, UserMoved
  <1> QED BY <1>1, <1>2 DEF PortCounts

LEMMA AddForkedConnectionPorts ==
  ASSUME TypeOK, PortCounts(usedEphemeralPorts, sock), NEW c \in Conn, sock[c] # NULL,
         NEW key \in SockPair, key.localPort = sock[c].localPort,
         AddForkedConnection(c, key)
  PROVE  PortCounts(usedEphemeralPorts', sock')
PROOF
  <1> DEFINE lk == SockKey(sock[c].localAddr, sock[c].localPort, Unspecified, NoPort)
  <1>1. lk \in SockPair /\ lk.localPort = sock[c].localPort
    BY DEF TypeOK, SockKey, SockPair
  <1>2. CASE UpdatedConnMap(c, key)[lk] # NULL
    BY <1>2 DEF AddForkedConnection, Fail, tables
  <1>3. CASE UpdatedConnMap(c, key)[lk] = NULL
    <2>1. PICK n \in Conn \ Live :
            /\ usedEphemeralPorts' = MarkPort(lk.localPort)
            /\ sock' = [sock EXCEPT ![c] = key, ![n] = lk]
      BY <1>3 DEF AddForkedConnection
    <2> HIDE DEF lk
    <2>2. n \in Conn /\ sock[n] = NULL /\ n # c
      BY <2>1 DEF Live
    <2>3. PICK sk : sk = [sock EXCEPT ![n] = lk]
      OBVIOUS
    <2>4. PortCounts(MarkPort(lk.localPort), sk)
      BY <1>1, <2>2, <2>3, UserAdded
    <2>5. sock' = [sk EXCEPT ![c] = key]
      BY <2>1, <2>2, <2>3 DEF TypeOK
    <2>6. \A p : UsersIn(sock', p) = UsersIn(sk, p)
      BY <1>1, <2>2, <2>3, <2>5, NullAssumption DEF UsersIn, TypeOK
    <2> QED BY <2>1, <2>4, <2>6 DEF PortCounts
  <1> QED BY <1>2, <1>3

LEMMA PortsStep == TablesInv /\ PortsAccounted /\ [Next]_vars => PortsAccounted'
PROOF
  <1> DEFINE P == PortCounts(usedEphemeralPorts, sock)
             Q == PortCounts(usedEphemeralPorts', sock')
  <1> SUFFICES ASSUME TablesInv, P, [Next]_vars PROVE Q
    BY PortsIsCounts DEF PortsAccounted, PortCounts, UsersIn, Live
  <1>t. TypeOK /\ NoDanglingEntry
    BY DEF TablesInv, TablesConsistent
  <1>1. ASSUME NEW la \in LocalAddr \cup {Unspecified}, NEW lp \in LocalPort,
               NEW f \in BOOLEAN, OpenPassive(la, lp, f)
        PROVE  Q
    <2>1. SockKey(la, lp, Unspecified, NoPort) \in SockPair
      BY DEF SockKey, SockPair, Port
    <2> QED BY <1>t, <1>1, <2>1, AddSockPairPorts DEF OpenPassive
  <1>2. ASSUME NEW la \in LocalAddr \cup {Unspecified}, NEW lp \in LocalPort \cup {NoPort},
               NEW ra \in RemoteAddr, NEW rp \in RemotePort, OpenActive(la, lp, ra, rp)
        PROVE  Q
    <2>1. CASE lp # NoPort
      <3>1. SockKey(la, lp, ra, rp) \in SockPair
        BY <2>1 DEF SockKey, SockPair, Port
      <3> QED BY <1>t, <1>2, <2>1, <3>1, AddSockPairPorts DEF OpenActive
    <2>2. CASE lp = NoPort /\ FreePorts = {}
      BY <1>2, <2>2 DEF OpenActive, Fail, tables
    <2>3. CASE lp = NoPort /\ FreePorts # {}
      <3>1. SockKey(la, getEphemeralPort, ra, rp) \in SockPair
        BY <1>t, <2>3, EphemeralPortIsFree DEF FreePorts, SockKey, SockPair, Port
      <3>2. AddSockPair(SockKey(la, getEphemeralPort, ra, rp), TRUE, FALSE)
        BY <1>2, <2>3 DEF OpenActive
      <3>3. PICK key : key = SockKey(la, getEphemeralPort, ra, rp)
        OBVIOUS
      <3>4. key \in SockPair /\ AddSockPair(key, TRUE, FALSE)
        BY <3>1, <3>2, <3>3
      <3> QED BY <1>t, <3>4, AddSockPairPorts
    <2> QED BY <2>1, <2>2, <2>3
  <1>3. ASSUME NEW i \in ConnId, tcpAppConnMap[i] # NULL
        PROVE  tcpAppConnMap[i] \in Conn /\ sock[tcpAppConnMap[i]] # NULL
    BY <1>t, <1>3 DEF TypeOK, NoDanglingEntry
  <1>4. ASSUME NEW i \in ConnId, Close(i) \/ Abort(i)
        PROVE  Q
    BY <1>t, <1>3, <1>4, RemoveConnectionPorts, GotoPorts DEF Close, Abort
  <1>5. CASE SegmentArrives
    <2> SUFFICES ASSUME NEW src \in RemoteAddr, NEW sport \in RemotePort,
                        NEW dst \in LocalAddr, NEW dport \in Port,
                        \/ SynInListen(src, sport, dst, dport)
                        \/ \E s \in {"SYN_RCVD", "SYNCED"} : SynInSynSent(src, sport, dst, dport, s)
                        \/ AckInSynRcvd(src, sport, dst, dport)
                        \/ RstArrives(src, sport, dst, dport)
                        \/ ClosingSegment(src, sport, dst, dport)
                 PROVE  Q
      BY <1>5 DEF SegmentArrives
    <2> DEFINE c == findConnForSegment(src, sport, dst, dport)
               key == FullKey(src, sport, dst, dport)
    <2>1. /\ \/ AddForkedConnection(c, key)
             \/ UpdateSockPair(c, key)
             \/ Goto(c, "SYNCED")
             \/ FallBack(c)
             \/ RemoveConnection(c)
          /\ c # NULL
      BY DEF SynInListen, SynInSynSent, AckInSynRcvd, RstArrives, ClosingSegment
    <2>2. /\ c \in Conn /\ sock[c] # NULL /\ key \in SockPair
          /\ key.localPort = sock[c].localPort
      BY <1>t, <2>1, FindConn, NullAssumption
    <2> HIDE DEF c, key
    <2> QED BY <1>t, <2>1, <2>2, AddForkedConnectionPorts, UpdateSockPairPorts, GotoPorts,
               FallBackPorts, RemoveConnectionPorts
  <1>6. CASE Timer
    <2> PICK c \in Conn : ConnEstabTimeout(c) \/ ClosingTimeout(c) BY <1>6 DEF Timer
    <2> QED BY <1>t, FallBackPorts, RemoveConnectionPorts
            DEF ConnEstabTimeout, ClosingTimeout, Live
  <1>7. CASE UNCHANGED vars
    BY <1>7 DEF vars
  <1> QED BY <1>1, <1>2, <1>4, <1>5, <1>6, <1>7 DEF Next, Done, AppCommand

LEMMA PortsInit == Init => PortsAccounted
PROOF
  <1> SUFFICES ASSUME Init, NEW p \in EphemeralPort
               PROVE  usedEphemeralPorts[p] = Cardinality({c \in Live : sock[c].localPort = p})
    BY DEF PortsAccounted
  <1>1. {c \in Live : sock[c].localPort = p} = {}
    BY DEF Init, Live
  <1> QED BY <1>1, FS_EmptySet DEF Init

LEMMA PortsInvariant == Spec => [](TablesInv /\ PortsAccounted)
  BY TablesInit, TablesStep, PortsInit, PortsStep, PTL DEF Spec

(* usedEphemeralPorts counts the users of every ephemeral port exactly,     *)
(* forked connections included, for any number of connections: a port is    *)
(* never freed under a connection and never lost.                           *)
THEOREM PortsAlwaysAccounted == Spec => []PortsAccounted
  BY PortsInvariant, PTL

(* An ephemeral port that is handed out, the last one again included, is    *)
(* used by no connection at the time, and a request is refused only when    *)
(* every port of the range has a user.                                      *)
THEOREM EphemeralPortsFresh == Spec => EphemeralFresh
PROOF
  <1> DEFINE Asks == \E la \in LocalAddr \cup {Unspecified}, ra \in RemoteAddr,
                        rp \in RemotePort : OpenActive(la, NoPort, ra, rp)
             Fresh == \A c \in Live : sock[c].localPort # lastEphemeralPort'
             AllUsed == \A p \in EphemeralPort : \E c \in Live : sock[c].localPort = p
             A == Asks => /\ err' = "none" => Fresh
                          /\ err' # "none" => AllUsed
  <1>1. ASSUME TablesInv, PortsAccounted, Asks
        PROVE  (err' = "none" => Fresh) /\ (err' # "none" => AllUsed)
    <2> DEFINE U(p) == {c \in Live : sock[c].localPort = p}
    <2>1. \A p \in EphemeralPort : usedEphemeralPorts[p] = 0 <=> U(p) = {}
      <3> SUFFICES ASSUME NEW p \in EphemeralPort
                   PROVE  usedEphemeralPorts[p] = 0 <=> U(p) = {}
        OBVIOUS
      <3>1. usedEphemeralPorts[p] = Cardinality(U(p))
        BY <1>1 DEF PortsAccounted
      <3>2. U(p) \subseteq Conn BY DEF Live
      <3>3. IsFiniteSet(U(p))
        <4> HIDE DEF U
        <4> QED BY <3>2, ConstAssumption, FS_Subset
      <3> HIDE DEF U
      <3>4. Cardinality(U(p)) = 0 <=> U(p) = {}
        BY <3>3, FS_EmptySet
      <3> QED BY <3>1, <3>4
    <2>2. CASE FreePorts # {}
      <3>1. lastEphemeralPort' = getEphemeralPort
        BY <1>1, <2>2 DEF OpenActive
      <3>2. lastEphemeralPort' \in EphemeralPort /\ usedEphemeralPorts[lastEphemeralPort'] = 0
        BY <1>1, <2>2, <3>1, EphemeralPortIsFree DEF TablesInv, FreePorts
      <3>3. Fresh
        <4> SUFFICES ASSUME NEW c \in Live PROVE sock[c].localPort # lastEphemeralPort'
          OBVIOUS
        <4>1. c \notin U(lastEphemeralPort')
          <5> HIDE DEF U
          <5> QED BY <2>1, <3>2
        <4> QED BY <4>1
      <3>4. err' = "none"
        <4>1. PICK la \in LocalAddr \cup {Unspecified}, ra \in RemoteAddr, rp \in RemotePort :
                OpenActive(la, NoPort, ra, rp)
          BY <1>1
        <4> DEFINE key == SockKey(la, getEphemeralPort, ra, rp)
        <4>2. key \in SockPair /\ key.localPort = lastEphemeralPort'
          BY <3>1, <3>2 DEF SockKey, SockPair, Port
        <4>3. tcpConnMap[key] = NULL
          BY <1>1, <4>2, <3>3, ConstAssumption, NullAssumption
             DEF TablesInv, TypeOK, TablesConsistent, NoDanglingEntry, Live
        <4>4. AddSockPair(key, TRUE, FALSE) /\ err = "none"
          BY <4>1, <2>2 DEF OpenActive
        <4> QED BY <4>3, <4>4 DEF AddSockPair
      <3> QED BY <3>3, <3>4
    <2>3. CASE FreePorts = {}
      <3>1. err' # "none"
        BY <1>1, <2>3 DEF OpenActive, Fail
      <3>2. AllUsed
        <4>1. \A p \in EphemeralPort : U(p) # {}
          BY <2>1, <2>3 DEF FreePorts
        <4> QED BY <4>1
      <3> QED BY <3>1, <3>2
    <2> QED BY <2>2, <2>3
  <1>2. TablesInv /\ PortsAccounted /\ [Next]_vars => [A]_vars
    BY <1>1
  <1>3. Spec => [][A]_vars
    <2> HIDE DEF A
    <2> QED BY <1>2, PortsInvariant, PTL DEF Spec
  <1> QED BY <1>3 DEF EphemeralFresh

-----------------------------------------------------------------------------
(* The listening connection the application knows as i. *)
ListensForked(app, st, fk, i) ==
    app[i] # NULL /\ st[app[i]] = "LISTEN" /\ fk[app[i]]

(* What happens to another connection does not touch it. *)
LEMMA ListenerKept ==
  ASSUME TablesInv, NEW i \in ConnId, ListensForked(tcpAppConnMap, fsm, fork, i),
         NEW c \in Conn, sock[c] # NULL, c # tcpAppConnMap[i],
         \/ RemoveConnection(c)
         \/ \E s \in ConnState : Goto(c, s)
         \/ \E s \in ConnState, key \in SockPair :
                UpdateSockPair(c, key) /\ fsm' = [fsm EXCEPT ![c] = s]
  PROVE  ListensForked(tcpAppConnMap', fsm', fork', i)
PROOF
  <1> PICK l : l = tcpAppConnMap[i] OBVIOUS
  <1>1. l \in Conn /\ l # NULL /\ l # c /\ fsm[l] = "LISTEN" /\ fork[l] /\ connId[c] # i
    BY DEF ListensForked, TablesInv, TypeOK, TablesConsistent, ConnRegistered
  <1>2. tcpAppConnMap'[i] = l
    BY <1>1 DEF RemoveConnection, Goto, UpdateSockPair, tables, TablesInv, TypeOK
  <1>3. fsm'[l] = fsm[l] /\ fork'[l] = fork[l]
    BY <1>1 DEF RemoveConnection, Goto, UpdateSockPair, tables, TablesInv, TypeOK
  <1> QED BY <1>1, <1>2, <1>3 DEF ListensForked

(* The clone of a forking listener takes its place; the clone of another    *)
(* listener takes that one's.                                               *)
LEMMA ListenerForked ==
  ASSUME TablesInv, nextConnId \in ConnId,
         NEW i \in ConnId, ListensForked(tcpAppConnMap, fsm, fork, i),
         NEW c \in Conn, sock[c] # NULL, NEW key, AddForkedConnection(c, key)
  PROVE  ListensForked(tcpAppConnMap', fsm', fork', i)
PROOF
  <1> DEFINE lk == SockKey(sock[c].localAddr, sock[c].localPort, Unspecified, NoPort)
  <1>1. CASE UpdatedConnMap(c, key)[lk] # NULL
    BY <1>1 DEF AddForkedConnection, Fail, tables, ListensForked
  <1>2. CASE UpdatedConnMap(c, key)[lk] = NULL
    <2>1. PICK n \in Conn \ Live :
            /\ tcpAppConnMap' = [tcpAppConnMap EXCEPT ![connId[c]] = n, ![nextConnId] = c]
            /\ fsm' = [fsm EXCEPT ![c] = "SYN_RCVD", ![n] = "LISTEN"]
            /\ fork' = [fork EXCEPT ![n] = TRUE]
      BY <1>2 DEF AddForkedConnection
    <2>2. n \in Conn /\ sock[n] = NULL /\ n # c /\ n # NULL
      BY <2>1, ConstAssumption DEF Live
    <2>3. PICK l : l = tcpAppConnMap[i] OBVIOUS
    <2>4. l \in Conn /\ l # NULL /\ sock[l] # NULL /\ connId[l] = i /\ i < nextConnId
      BY <2>3 DEF ListensForked, TablesInv, TypeOK, TablesConsistent, NoDanglingEntry, IdsIssued
    <2>5. i # nextConnId /\ l # n
      BY <2>2, <2>4 DEF ConnId
    <2>6. CASE c = l
      <3>1. tcpAppConnMap'[i] = n
        BY <2>1, <2>4, <2>5, <2>6 DEF TablesInv, TypeOK
      <3>2. fsm'[n] = "LISTEN" /\ fork'[n] = TRUE
        BY <2>1, <2>2 DEF TablesInv, TypeOK
      <3> QED BY <2>2, <3>1, <3>2 DEF ListensForked
    <2>7. CASE c # l
      <3>1. connId[c] # i
        BY <2>3, <2>7 DEF TablesInv, TablesConsistent, ConnRegistered
      <3>2. tcpAppConnMap'[i] = l
        BY <2>1, <2>3, <2>5, <3>1 DEF TablesInv, TypeOK
      <3>3. fsm'[l] = fsm[l] /\ fork'[l] = fork[l]
        BY <2>1, <2>2, <2>4, <2>5, <2>7 DEF TablesInv, TypeOK
      <3> QED BY <2>3, <2>4, <3>2, <3>3 DEF ListensForked
    <2> QED BY <2>6, <2>7
  <1> QED BY <1>1, <1>2

(* No segment and no timer takes a forking listener away from the           *)
(* application, however many connections it forks: after each SYN the       *)
(* connId the application holds names the clone, which is in LISTEN.        *)
THEOREM ForkedListenersStay == Spec => ForkedListenerStays
PROOF
  <1> DEFINE A == \A i \in ConnId :
                    LET c == tcpAppConnMap[i]
                        d == tcpAppConnMap'[i]
                    IN  (c # NULL /\ fsm[c] = "LISTEN" /\ fork[c] /\ ~AppCommand) =>
                           (d # NULL /\ fsm'[d] = "LISTEN" /\ fork'[d])
  <1>1. ASSUME TablesInv, [Next]_vars, ~AppCommand,
               NEW i \in ConnId, ListensForked(tcpAppConnMap, fsm, fork, i)
        PROVE  ListensForked(tcpAppConnMap', fsm', fork', i)
    <2>1. CASE SegmentArrives
      <3> SUFFICES ASSUME NEW src \in RemoteAddr, NEW sport \in RemotePort,
                          NEW dst \in LocalAddr, NEW dport \in Port,
                          \/ SynInListen(src, sport, dst, dport)
                          \/ \E s \in {"SYN_RCVD", "SYNCED"} : SynInSynSent(src, sport, dst, dport, s)
                          \/ AckInSynRcvd(src, sport, dst, dport)
                          \/ RstArrives(src, sport, dst, dport)
                          \/ ClosingSegment(src, sport, dst, dport)
                   PROVE  ListensForked(tcpAppConnMap', fsm', fork', i)
        BY <2>1 DEF SegmentArrives
      <3> DEFINE c == findConnForSegment(src, sport, dst, dport)
                 key == FullKey(src, sport, dst, dport)
      <3>1. /\ \/ nextConnId \in ConnId /\ AddForkedConnection(c, key)
               \/ /\ fsm[c] # "LISTEN" \/ ~fork[c]
                  /\ \/ RemoveConnection(c)
                     \/ \E s \in ConnState : Goto(c, s)
                     \/ \E s \in ConnState : UpdateSockPair(c, key) /\ fsm' = [fsm EXCEPT ![c] = s]
            /\ c # NULL
        BY DEF SynInListen, SynInSynSent, AckInSynRcvd, RstArrives, ClosingSegment, FallBack,
           ConnState
      <3>2. c \in Conn /\ sock[c] # NULL /\ key \in SockPair
        BY <1>1, <3>1, FindConn, NullAssumption DEF TablesInv, TablesConsistent
      <3> HIDE DEF c, key
      <3>3. CASE nextConnId \in ConnId /\ AddForkedConnection(c, key)
        BY <1>1, <3>2, <3>3, ListenerForked
      <3>4. CASE fsm[c] # "LISTEN" \/ ~fork[c]
        <4>1. c # tcpAppConnMap[i] BY <1>1, <3>4 DEF ListensForked
        <4> QED BY <1>1, <3>1, <3>2, <3>3, <4>1, ListenerKept
      <3> QED BY <3>1, <3>3, <3>4
    <2>2. CASE Timer
      <3> PICK c \in Conn : ConnEstabTimeout(c) \/ ClosingTimeout(c) BY <2>2 DEF Timer
      <3>1. /\ sock[c] # NULL /\ fsm[c] # "LISTEN"
            /\ RemoveConnection(c) \/ \E s \in ConnState : Goto(c, s)
        BY DEF ConnEstabTimeout, ClosingTimeout, FallBack, ConnState, Live
      <3>2. c # tcpAppConnMap[i] BY <1>1, <3>1 DEF ListensForked
      <3> QED BY <1>1, <3>1, <3>2, ListenerKept
    <2>3. CASE UNCHANGED vars
      BY <1>1, <2>3 DEF vars
    <2> QED BY <1>1, <2>1, <2>2, <2>3 DEF Next, Done
  <1>2. TablesInv /\ [Next]_vars => [A]_vars
    BY <1>1 DEF ListensForked
  <1>3. Spec => [][A]_vars
    <2> HIDE DEF A
    <2> QED BY <1>2, TablesInvariant, PTL DEF Spec
  <1> QED BY <1>3 DEF ForkedListenerStays
=============================================================================
