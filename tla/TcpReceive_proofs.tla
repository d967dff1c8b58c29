------------------------- MODULE TcpReceive_proofs -------------------------
(***************************************************************************)
(* Proofs about TcpReceive: the region list stays canonical, and the       *)
(* receive queue implements reassembly.  Sequence numbers are replaced by  *)
(* their distance from a base, up to which half the space is ordered as    *)
(* the integers are.                                                       *)
(***************************************************************************)
EXTENDS TcpReceive, Iteration

Half == SeqSpace \div 2

LEMMA HalfSpace == Half \in Nat \ {0} /\ SeqSpace = Half + Half
  BY SeqSpaceAssumption DEF Half

-----------------------------------------------------------------------------
(* The remainder, for numbers less than twice the divisor away from 0. *)

LEMMA ModSame ==
  ASSUME NEW n \in Nat \ {0}, NEW x \in Int, 0 <= x, x < n
  PROVE  x % n = x
  OBVIOUS

LEMMA ModBelow ==
  ASSUME NEW n \in Nat \ {0}, NEW x \in Int, -n <= x, x < 0
  PROVE  x % n = x + n
  OBVIOUS

LEMMA ModAbove ==
  ASSUME NEW n \in Nat \ {0}, NEW x \in Int, n <= x, x < n + n
  PROVE  x % n = x - n
  OBVIOUS

(* Sums and differences of sequence numbers. *)
LEMMA PlusValue ==
  ASSUME NEW a \in SeqNo, NEW n \in Int, 0 <= n, n < SeqSpace
  PROVE  /\ Plus(a, n) \in SeqNo
         /\ Plus(a, n) = IF a + n < SeqSpace THEN a + n ELSE a + n - SeqSpace
  <1>1. SeqSpace \in Nat \ {0} BY SeqSpaceAssumption
  <1>2. CASE a + n < SeqSpace
    <2>1. a + n \in Int /\ 0 <= a + n BY <1>1 DEF SeqNo
    <2>2. (a + n) % SeqSpace = a + n BY <1>1, <1>2, <2>1, ModSame
    <2> QED BY <1>1, <1>2, <2>1, <2>2 DEF Plus, SeqNo
  <1>3. CASE ~(a + n < SeqSpace)
    <2>1. PICK x \in Int : x = a + n BY <1>1 DEF SeqNo
    <2>2. SeqSpace <= x /\ x < SeqSpace + SeqSpace BY <1>1, <1>3, <2>1 DEF SeqNo
    <2>3. x % SeqSpace = x - SeqSpace BY <1>1, <2>2, ModAbove
    <2> QED BY <1>1, <1>3, <2>1, <2>2, <2>3 DEF Plus, SeqNo
  <1> QED BY <1>2, <1>3

LEMMA MinusValue ==
  ASSUME NEW a \in SeqNo, NEW b \in SeqNo
  PROVE  /\ Minus(a, b) \in SeqNo
         /\ Minus(a, b) = IF b <= a THEN a - b ELSE a - b + SeqSpace
  <1>1. SeqSpace \in Nat \ {0} BY SeqSpaceAssumption
  <1>2. a - b \in Int /\ a \in Int /\ b \in Int BY <1>1 DEF SeqNo
  <1>3. CASE b <= a
    <2>1. 0 <= a - b /\ a - b < SeqSpace BY <1>1, <1>3 DEF SeqNo
    <2>2. (a - b) % SeqSpace = a - b BY <1>1, <1>2, <2>1, ModSame
    <2> QED BY <1>1, <1>2, <1>3, <2>1, <2>2 DEF Minus, SeqNo
  <1>4. CASE ~(b <= a)
    <2>1. -SeqSpace <= a - b /\ a - b < 0 BY <1>1, <1>4 DEF SeqNo
    <2>2. (a - b) % SeqSpace = a - b + SeqSpace BY <1>1, <1>2, <2>1, ModBelow
    <2> QED BY <1>1, <1>2, <1>4, <2>1, <2>2 DEF Minus, SeqNo
  <1> QED BY <1>3, <1>4

(* Half a space from a base, the comparisons are those of the distances. *)
LEMMA Compare ==
  ASSUME NEW base \in SeqNo, NEW a \in SeqNo, NEW b \in SeqNo,
         Minus(a, base) < Half, Minus(b, base) < Half
  PROVE  /\ seqLess(a, b) <=> Minus(a, base) < Minus(b, base)
         /\ seqLE(a, b) <=> Minus(a, base) <= Minus(b, base)
         /\ seqGE(a, b) <=> Minus(a, base) >= Minus(b, base)
         /\ Minus(a, base) <= Minus(b, base) => Minus(b, a) = Minus(b, base) - Minus(a, base)
         /\ a = b <=> Minus(a, base) = Minus(b, base)
  <1>1. SeqSpace = Half + Half /\ Half \in Nat \ {0} BY HalfSpace
  <1>2. base \in Int /\ 0 <= base /\ base < SeqSpace /\ a \in Int /\ 0 <= a /\ a < SeqSpace
        /\ b \in Int /\ 0 <= b /\ b < SeqSpace
    BY <1>1 DEF SeqNo
  <1>3. /\ Minus(a, base) = IF base <= a THEN a - base ELSE a - base + SeqSpace
        /\ Minus(b, base) = IF base <= b THEN b - base ELSE b - base + SeqSpace
        /\ Minus(a, b) = IF b <= a THEN a - b ELSE a - b + SeqSpace
        /\ Minus(b, a) = IF a <= b THEN b - a ELSE b - a + SeqSpace
    BY MinusValue
  <1>4. /\ seqLess(a, b) <=> (a # b /\ Minus(b, a) < Half)
        /\ seqLE(a, b) <=> Minus(b, a) < Half
        /\ seqGE(a, b) <=> Minus(a, b) < Half
    BY DEF seqLess, seqLE, seqGE, Half
  <1> QED BY <1>1, <1>2, <1>3, <1>4

(* What lies at distance n of the base. *)
LEMMA AtDistance ==
  ASSUME NEW base \in SeqNo, NEW n \in Int, 0 <= n, n < SeqSpace
  PROVE  Plus(base, n) \in SeqNo /\ Minus(Plus(base, n), base) = n
  <1>1. SeqSpace = Half + Half /\ Half \in Nat \ {0} BY HalfSpace
  <1>2. base \in Int /\ 0 <= base /\ base < SeqSpace BY <1>1 DEF SeqNo
  <1>3. PICK s \in SeqNo : s = Plus(base, n) /\ s = IF base + n < SeqSpace THEN base + n ELSE base + n - SeqSpace
    BY PlusValue
  <1>4. Minus(s, base) = IF base <= s THEN s - base ELSE s - base + SeqSpace BY MinusValue
  <1> QED BY <1>1, <1>2, <1>3, <1>4

-----------------------------------------------------------------------------
(* Lists. *)

LEMMA FirstFound ==
  ASSUME NEW last \in Nat, NEW S, S \subseteq 1 .. last
  PROVE  /\ First(S, last) \in 1 .. last + 1
         /\ First(S, last) \in S \cup {last + 1}
         /\ \A k \in 1 .. last : k < First(S, last) => k \notin S
PROOF
  <1> DEFINE P(k) == k \in S \cup {last + 1} /\ \A m \in S : k <= m
             D == {n \in 0 .. last : \A k \in 1 .. n : k \notin S}
  <1>1. \E k : P(k)
    <2> SUFFICES ASSUME ~\E k : P(k) PROVE FALSE OBVIOUS
    <2>1. 0 \in D OBVIOUS
    <2>2. ASSUME NEW n \in 1 .. last, n - 1 \in D PROVE n \in D
      <3>1. \A k \in 1 .. n - 1 : k \notin S BY <2>2
      <3>2. n \notin S
        <4> SUFFICES ASSUME n \in S PROVE FALSE OBVIOUS
        <4>1. \A m \in S : n <= m BY <3>1
        <4> QED BY <4>1
      <3> QED BY <3>1, <3>2
    <2>3. \A i \in 1 .. last : i - 1 \in D => i \in D BY <2>2
    <2> HIDE DEF D
    <2>4. \A i \in 0 .. last : i \in D BY <2>1, <2>3, UpTo
    <2>5. last \in D BY <2>4
    <2>6. S = {} BY <2>5 DEF D
    <2>7. P(last + 1) BY <2>6
    <2> QED BY <2>7
  <1>2. First(S, last) = CHOOSE k : P(k) BY DEF First
  <1> HIDE DEF P
  <1>3. P(First(S, last)) BY <1>1, <1>2
  <1>4. PICK f : f = First(S, last) OBVIOUS
  <1>5. f \in S \cup {last + 1} /\ \A m \in S : f <= m BY <1>3, <1>4 DEF P
  <1>6. f \in 1 .. last + 1 BY <1>5
  <1>7. \A k \in 1 .. last : k < f => k \notin S BY <1>5, <1>6
  <1> QED BY <1>4, <1>5, <1>6, <1>7

LEMMA Joined ==
  ASSUME NEW S, NEW a \in Seq(S), NEW c \in Seq(S), NEW u, u = a \o c
  PROVE  /\ u \in Seq(S) /\ Len(u) = Len(a) + Len(c)
         /\ \A k \in 1 .. Len(a) : u[k] = a[k]
         /\ \A k \in Len(a) + 1 .. Len(u) : u[k] = c[k - Len(a)]
  OBVIOUS

LEMMA Part ==
  ASSUME NEW S, NEW list \in Seq(S), NEW i \in 1 .. Len(list) + 1, NEW j \in Nat,
         i <= j + 1, j <= Len(list), NEW u, u = SubSeq(list, i, j)
  PROVE  u \in Seq(S) /\ Len(u) = j + 1 - i /\ \A k \in 1 .. j + 1 - i : u[k] = list[k + i - 1]
  OBVIOUS

(* t is list with r in place of its elements from i to j - 1. *)
Spliced(t, list, i, r, j) ==
    /\ Len(t) = i + (Len(list) + 1 - j)
    /\ \A k \in 1 .. i - 1 : t[k] = list[k]
    /\ t[i] = r
    /\ \A k \in i + 1 .. Len(t) : t[k] = list[k - (i + 1) + j]

LEMMA Prefixed ==
  ASSUME NEW S, NEW r \in S, NEW c \in Seq(S), NEW u, u = <<r>> \o c
  PROVE  /\ u \in Seq(S)
         /\ Len(u) = 1 + Len(c)
         /\ u[1] = r
         /\ \A k \in 2 .. Len(u) : u[k] = c[k - 1]
PROOF
  <1>1. PICK m : m = <<r>> OBVIOUS
  <1>2. m \in Seq(S) /\ Len(m) = 1 /\ m[1] = r BY <1>1
  <1>3. u = m \o c BY <1>1
  <1>4. /\ u \in Seq(S) /\ Len(u) = Len(m) + Len(c)
        /\ \A k \in 1 .. Len(m) : u[k] = m[k]
        /\ \A k \in Len(m) + 1 .. Len(u) : u[k] = c[k - Len(m)]
    <2>1. m \in Seq(S) BY <1>2
    <2> QED BY <1>3, <2>1, Joined
  <1>5. u \in Seq(S) /\ Len(u) = 1 + Len(c) BY <1>2, <1>4
  <1>6. u[1] = r BY <1>2, <1>4
  <1>7. \A k \in 2 .. Len(u) : u[k] = c[k - 1] BY <1>2, <1>4
  <1> QED BY <1>5, <1>6, <1>7

(* What c has of list: its elements from i on, for length of them. *)
Excerpt(c, list, i, length) ==
    Len(c) = length /\ \A k \in 1 .. length : c[k] = list[k + i - 1]

LEMMA SplicedElements ==
  ASSUME NEW S, NEW list, NEW r \in S, NEW n \in Nat, n = Len(list),
         NEW i \in 1 .. n + 1, NEW j \in i .. n + 1,
         NEW a \in Seq(S), Excerpt(a, list, 1, i - 1),
         NEW c \in Seq(S), Excerpt(c, list, j, n + 1 - j),
         NEW t, t = a \o (<<r>> \o c)
  PROVE  t \in Seq(S) /\ Spliced(t, list, i, r, j)
PROOF
  <1>i. i \in Nat \ {0} /\ j \in Nat \ {0} /\ i <= j /\ j <= n + 1 OBVIOUS
  <1>a. Len(a) = i - 1 /\ \A k \in 1 .. i - 1 : a[k] = list[k] BY <1>i DEF Excerpt
  <1>c. Len(c) = n + 1 - j /\ \A k \in 1 .. n + 1 - j : c[k] = list[k + j - 1]
    BY <1>i DEF Excerpt
  <1>7. PICK u : u = <<r>> \o c OBVIOUS
  <1>8. /\ u \in Seq(S)
        /\ Len(u) = 1 + Len(c)
        /\ u[1] = r
        /\ \A k \in 2 .. Len(u) : u[k] = c[k - 1]
    BY <1>7, Prefixed
  <1>9. /\ Len(u) = 1 + (n + 1 - j) /\ u[1] = r
        /\ \A k \in 2 .. 1 + (n + 1 - j) : u[k] = list[k - 1 + j - 1]
    <2>1. Len(u) = 1 + (n + 1 - j) BY <1>8, <1>i, <1>c
    <2>2. u[1] = r BY <1>8
    <2>3. ASSUME NEW k \in 2 .. 1 + (n + 1 - j) PROVE u[k] = list[k - 1 + j - 1]
      <3>1. PICK h \in Int : h = k - 1 BY <1>i
      <3>2. u[k] = c[h] BY <1>8, <2>1, <3>1, <1>i
      <3>3. h \in 1 .. n + 1 - j BY <3>1, <1>i
      <3>4. c[h] = list[h + j - 1] BY <3>3, <1>c
      <3> QED BY <3>1, <3>2, <3>4
    <2> QED BY <2>1, <2>2, <2>3
  <1>10. PICK v : v = a \o u OBVIOUS
  <1>11. /\ v \in Seq(S) /\ Len(v) = Len(a) + Len(u)
         /\ \A k \in 1 .. Len(a) : v[k] = a[k]
         /\ \A k \in Len(a) + 1 .. Len(v) : v[k] = u[k - Len(a)]
    <2>1. u \in Seq(S) /\ a \in Seq(S) BY <1>8
    <2> QED BY <1>10, <2>1, Joined
  <1>12. Len(v) = i + (n + 1 - j)
    BY <1>9, <1>11, <1>i, <1>a
  <1>13. ASSUME NEW k \in i + 1 .. Len(v) PROVE v[k] = list[k - (i + 1) + j]
    <2>1. PICK h \in Int : h = k - (i - 1) BY <1>i, <1>12
    <2>2. h \in 2 .. 1 + (n + 1 - j) BY <1>i, <1>12, <2>1
    <2>3. v[k] = u[h] BY <1>11, <1>12, <2>1, <1>i, <1>a
    <2>4. u[h] = list[h - 1 + j - 1] BY <1>9, <2>2
    <2>5. h - 1 + j - 1 = k - (i + 1) + j BY <2>1, <1>i, <1>12
    <2> QED BY <2>3, <2>4, <2>5
  <1>14. \A k \in 1 .. i - 1 : v[k] = list[k] BY <1>11, <1>i, <1>a
  <1>15. v[i] = r
    <2>1. v[i] = u[i - Len(a)] BY <1>11, <1>12, <1>i, <1>a
    <2>2. i - Len(a) = 1 BY <1>i, <1>a
    <2> QED BY <1>9, <2>1, <2>2
  <1>16. n = Len(list) OBVIOUS
  <1>18. Spliced(v, list, i, r, j) BY <1>12, <1>13, <1>14, <1>15, <1>16 DEF Spliced
  <1>19. v \in Seq(S) BY <1>11
  <1>20. v = t BY <1>7, <1>10
  <1> QED BY <1>18, <1>19, <1>20

-----------------------------------------------------------------------------
(* A list of regions as seen from base, and the distances it covers.       *)

Shaped(base, list) ==
    /\ list \in Seq(Region)
    /\ \A k \in 1 .. Len(list) : /\ Minus(list[k].begin, base) < Minus(list[k].end, base)
                                 /\ Minus(list[k].end, base) <= RcvWnd
    /\ \A k, m \in 1 .. Len(list) :
            k < m => Minus(list[k].end, base) < Minus(list[m].begin, base)

Inside(base, x, r) == Minus(r.begin, base) <= x /\ x < Minus(r.end, base)

Covered(base, list) == {x \in Nat : \E k \in 1 .. Len(list) : Inside(base, x, list[k])}

LEMMA SplicedShaped ==
  ASSUME NEW base \in SeqNo, NEW list, Shaped(base, list), NEW r \in Region,
         Minus(r.begin, base) < Minus(r.end, base), Minus(r.end, base) <= RcvWnd,
         NEW n \in Nat, n = Len(list),
         NEW i \in 1 .. n + 1, NEW j \in i .. n + 1,
         \A k \in 1 .. n : k < i => Minus(list[k].end, base) < Minus(r.begin, base),
         \A k \in 1 .. n : j <= k => Minus(r.end, base) < Minus(list[k].begin, base),
         NEW t \in Seq(Region), Spliced(t, list, i, r, j)
  PROVE  /\ Shaped(base, t)
         /\ \A x \in Nat : x \in Covered(base, t) <=>
                \/ Inside(base, x, r)
                \/ \E k \in 1 .. n : (k < i \/ j <= k) /\ Inside(base, x, list[k])
PROOF
  <1> DEFINE B(s) == Minus(s.begin, base)
             E(s) == Minus(s.end, base)
  <1>i. i \in Nat \ {0} /\ j \in Nat \ {0} /\ i <= j /\ j <= n + 1 OBVIOUS
  <1>n. PICK m \in Nat : m = Len(t) OBVIOUS
  <1>1. m = i + (n + 1 - j) BY <1>n DEF Spliced
  <1>2. /\ \A k \in 1 .. i - 1 : k \in 1 .. n /\ t[k] = list[k]
        /\ t[i] = r
    BY <1>n, <1>i DEF Spliced
  <1>4. /\ \A k \in 1 .. n : B(list[k]) < E(list[k]) /\ E(list[k]) <= RcvWnd
        /\ \A k, h \in 1 .. n : k < h => E(list[k]) < B(list[h])
        /\ \A k \in 1 .. n : k < i => E(list[k]) < B(r)
        /\ \A k \in 1 .. n : j <= k => E(r) < B(list[k])
        /\ B(r) < E(r) /\ E(r) <= RcvWnd
    BY DEF Shaped
  <1>5. /\ RcvWnd \in Nat
        /\ \A k \in 1 .. n : B(list[k]) \in Nat /\ E(list[k]) \in Nat
        /\ B(r) \in Nat /\ E(r) \in Nat
    <2>1. SeqSpace \in Nat \ {0} BY SeqSpaceAssumption
    <2>2. \A s \in Region : B(s) \in Nat /\ E(s) \in Nat
      <3> SUFFICES ASSUME NEW s \in Region PROVE B(s) \in Nat /\ E(s) \in Nat OBVIOUS
      <3>1. s.begin \in SeqNo /\ s.end \in SeqNo BY DEF Region
      <3>2. Minus(s.begin, base) \in SeqNo /\ Minus(s.end, base) \in SeqNo BY <3>1, MinusValue
      <3> QED BY <2>1, <3>2 DEF SeqNo
    <2>3. \A k \in 1 .. n : list[k] \in Region BY DEF Shaped
    <2> QED BY <2>2, <2>3, ReceiveAssumption
  <1> HIDE DEF B, E
  <1>6. ASSUME NEW k \in i + 1 .. m
        PROVE  \E p \in 1 .. n : p = k - (i + 1) + j /\ j <= p /\ t[k] = list[p]
    <2>1. PICK p \in Int : p = k - (i + 1) + j BY <1>1, <1>i
    <2>2. p \in 1 .. n /\ j <= p BY <1>1, <1>i, <2>1
    <2>3. t[k] = list[k - (i + 1) + j] BY <1>n DEF Spliced
    <2> QED BY <2>1, <2>2, <2>3
  <1>7. ASSUME NEW k \in 1 .. m
        PROVE  B(t[k]) < E(t[k]) /\ E(t[k]) <= RcvWnd
    <2>1. CASE k < i BY <1>2, <1>4, <2>1, <1>i
    <2>2. CASE k = i BY <1>2, <1>4, <2>2
    <2>3. CASE k > i
      <3>1. k \in i + 1 .. m BY <2>3, <1>1, <1>i
      <3>2. PICK p \in 1 .. n : t[k] = list[p] BY <1>6, <3>1
      <3> QED BY <1>4, <3>2
    <2> QED BY <2>1, <2>2, <2>3, <1>i
  <1>8. ASSUME NEW k \in 1 .. m, NEW h \in 1 .. m, k < h
        PROVE  E(t[k]) < B(t[h])
    <2>1. CASE h < i
      <3>1. t[k] = list[k] /\ t[h] = list[h] /\ k \in 1 .. n /\ h \in 1 .. n BY <1>2, <2>1, <1>8, <1>i
      <3> QED BY <1>4, <1>8, <3>1
    <2>2. CASE h = i
      <3>1. t[k] = list[k] /\ t[h] = r /\ k \in 1 .. n /\ k < i BY <1>2, <2>2, <1>8, <1>i
      <3> QED BY <1>4, <3>1
    <2>3. CASE h > i
      <3>0. h \in i + 1 .. m BY <2>3, <1>1, <1>i
      <3>h. PICK p \in 1 .. n : p = h - (i + 1) + j /\ j <= p /\ t[h] = list[p] BY <1>6, <3>0
      <3>1. CASE k < i
        <4>1. t[k] = list[k] /\ k \in 1 .. n /\ k < p BY <1>2, <3>1, <3>h, <1>i
        <4> QED BY <1>4, <3>h, <4>1
      <3>2. CASE k = i BY <1>2, <1>4, <3>2, <3>h
      <3>3. CASE k > i
        <4>0. k \in i + 1 .. m BY <3>3, <1>1, <1>i
        <4>1. PICK o \in 1 .. n : o = k - (i + 1) + j /\ t[k] = list[o] BY <1>6, <4>0
        <4>2. o < p BY <4>1, <3>h, <1>8, <1>i
        <4> QED BY <1>4, <3>h, <4>1, <4>2
      <3> QED BY <3>1, <3>2, <3>3, <1>i
    <2> QED BY <2>1, <2>2, <2>3, <1>i
  <1>9. Shaped(base, t) BY <1>n, <1>7, <1>8 DEF Shaped, B, E
  <1>10. ASSUME NEW x \in Nat, x \in Covered(base, t)
         PROVE  \/ Inside(base, x, r)
                \/ \E k \in 1 .. n : (k < i \/ j <= k) /\ Inside(base, x, list[k])
    <2>1. PICK k \in 1 .. m : Inside(base, x, t[k]) BY <1>n, <1>10 DEF Covered
    <2>2. CASE k < i BY <1>2, <2>1, <2>2, <1>i
    <2>3. CASE k = i BY <1>2, <2>1, <2>3
    <2>4. CASE k > i
      <3>0. k \in i + 1 .. m BY <2>4, <1>1, <1>i
      <3>1. PICK p \in 1 .. n : j <= p /\ t[k] = list[p] BY <1>6, <3>0
      <3> QED BY <2>1, <3>1
    <2> QED BY <2>2, <2>3, <2>4, <1>i
  <1>11. ASSUME NEW x \in Nat,
                \/ Inside(base, x, r)
                \/ \E k \in 1 .. n : (k < i \/ j <= k) /\ Inside(base, x, list[k])
         PROVE  x \in Covered(base, t)
    <2>1. CASE Inside(base, x, r)
      <3>1. i \in 1 .. m BY <1>1, <1>i
      <3> QED BY <1>n, <1>2, <2>1, <3>1 DEF Covered
    <2>2. ASSUME NEW k \in 1 .. n, k < i \/ j <= k, Inside(base, x, list[k]) PROVE x \in Covered(base, t)
      <3>1. CASE k < i
        <4>1. k \in 1 .. m /\ t[k] = list[k] BY <1>1, <1>2, <3>1, <1>i
        <4> QED BY <1>n, <2>2, <4>1 DEF Covered
      <3>2. CASE j <= k
        <4>1. PICK p \in Int : p = k - j + (i + 1) BY <1>i
        <4>2. p \in i + 1 .. m /\ p - (i + 1) + j = k BY <1>1, <3>2, <4>1, <1>i
        <4>3. PICK o \in 1 .. n : o = p - (i + 1) + j /\ t[p] = list[o] BY <1>6, <4>2
        <4>4. p \in 1 .. m /\ t[p] = list[k] BY <4>2, <4>3, <1>i
        <4> QED BY <1>n, <2>2, <4>4 DEF Covered
      <3> QED BY <2>2, <3>1, <3>2
    <2> QED BY <1>11, <2>1, <2>2
  <1> QED BY <1>9, <1>10, <1>11

-----------------------------------------------------------------------------
(* The regions that a grown region swallows.                               *)

EndIn(S, list) == Len(list) \in Nat /\ \A k \in 1 .. Len(list) : list[k].end \in S

LEMMA ReachValues ==
  ASSUME NEW S, NEW end \in S, NEW following, EndIn(S, following)
  PROVE  /\ Reach(end, following)[0] = end
         /\ \A k \in 0 .. Len(following) : Reach(end, following)[k] \in S
         /\ \A k \in 1 .. Len(following) :
                Reach(end, following)[k] =
                    IF seqLess(Reach(end, following)[k - 1], following[k].end)
                    THEN following[k].end ELSE Reach(end, following)[k - 1]
PROOF
  <1>n. PICK n : n = Len(following) OBVIOUS
  <1> DEFINE Turn(k, x) == IF seqLess(x, following[k].end) THEN following[k].end ELSE x
             P(f) == f = [k \in 0 .. n |-> IF k = 0 THEN end ELSE Turn(k, f[k - 1])]
             reach == CHOOSE f : P(f)
  <1>1. n \in Nat /\ end \in S BY <1>n DEF EndIn
  <1>2. \A k \in 1 .. n, x \in S : Turn(k, x) \in S BY <1>n DEF EndIn
  <1>3. Reach(end, following) = reach BY <1>n DEF Reach
  <1>4. \A k, x : Turn(k, x) = IF seqLess(x, following[k].end) THEN following[k].end ELSE x OBVIOUS
  <1> HIDE DEF Turn
  <1>5. \E f : P(f)
    <2> DEFINE step == [k \in 1 .. n |-> [x \in S |-> Turn(k, x)]]
    <2>1. step \in [1 .. n -> [S -> S]] BY <1>2
    <2>2. \A k \in 1 .. n, x \in S : step[k][x] = Turn(k, x) OBVIOUS
    <2> HIDE DEF step
    <2>3. PICK f \in [0 .. n -> S] : f[0] = end /\ \A i \in 1 .. n : f[i] = step[i][f[i - 1]]
      BY <1>1, <2>1, LoopExists
    <2>4. ASSUME NEW k \in 0 .. n
          PROVE  f[k] = IF k = 0 THEN end ELSE Turn(k, f[k - 1])
      <3>1. CASE k = 0 BY <2>3, <3>1
      <3>2. CASE k # 0
        <4>1. k \in 1 .. n /\ k - 1 \in 0 .. n BY <1>1, <3>2
        <4> QED BY <2>2, <2>3, <3>2, <4>1
      <3> QED BY <3>1, <3>2
    <2>5. f = [k \in 0 .. n |-> IF k = 0 THEN end ELSE Turn(k, f[k - 1])]
      BY <2>4
    <2> QED BY <2>5
  <1>6. P(reach) BY <1>5, Zenon
  <1> HIDE DEF reach
  <1>7. reach[0] = end /\ \A k \in 1 .. n : reach[k] = Turn(k, reach[k - 1])
    BY <1>1, <1>6
  <1> HIDE DEF P
  <1>8. \A k \in 0 .. n : reach[k] \in S
    <2> DEFINE D == {k \in 0 .. n : reach[k] \in S}
    <2>1. 0 \in D BY <1>1, <1>7
    <2>2. \A k \in 1 .. n : k - 1 \in D => k \in D BY <1>2, <1>7
    <2>3. \A k \in 0 .. n : k \in D
      <3> HIDE DEF D
      <3> QED BY <1>1, <2>1, <2>2, UpTo
    <2> QED BY <2>3
  <1> QED BY <1>n, <1>3, <1>4, <1>7, <1>8

LEMMA AbsorbLoop ==
  ASSUME NEW r \in Region, NEW following \in Seq(Region)
  PROVE  \E n, reach, apart :
            /\ n = Len(following)
            /\ Absorb(r, following) = <<[r EXCEPT !.end = reach[apart - 1]]>> \o SubSeq(following, apart, n)
            /\ reach[0] = r.end
            /\ \A k \in 0 .. n : reach[k] \in SeqNo
            /\ \A k \in 1 .. n : reach[k] = IF seqLess(reach[k - 1], following[k].end)
                                            THEN following[k].end ELSE reach[k - 1]
            /\ apart \in 1 .. n + 1
            /\ \A k \in 1 .. n : k < apart => seqGE(reach[k - 1], following[k].begin)
            /\ apart <= n => ~seqGE(reach[apart - 1], following[apart].begin)
PROOF
  <1>n. PICK n : n = Len(following) OBVIOUS
  <1>e. PICK e : e = r.end OBVIOUS
  <1>1. n \in Nat /\ e \in SeqNo BY <1>n, <1>e DEF Region
  <1>2. \A k \in 1 .. n : following[k].end \in SeqNo
    <2> SUFFICES ASSUME NEW k \in 1 .. n PROVE following[k].end \in SeqNo OBVIOUS
    <2>1. following[k] \in Region BY <1>n
    <2> QED BY <2>1 DEF Region
  <1>3. PICK reach : reach = Reach(e, following) OBVIOUS
  <1>4. /\ reach[0] = e
        /\ \A k \in 0 .. n : reach[k] \in SeqNo
        /\ \A k \in 1 .. n : reach[k] = IF seqLess(reach[k - 1], following[k].end)
                                        THEN following[k].end ELSE reach[k - 1]
    <2>1. PICK S : S = SeqNo OBVIOUS
    <2>2. e \in S BY <1>1, <2>1
    <2>3. EndIn(S, following) BY <1>n, <1>1, <1>2, <2>1 DEF EndIn
    <2>4. /\ Reach(e, following)[0] = e
          /\ \A k \in 0 .. Len(following) : Reach(e, following)[k] \in S
          /\ \A k \in 1 .. Len(following) :
                Reach(e, following)[k] =
                    IF seqLess(Reach(e, following)[k - 1], following[k].end)
                    THEN following[k].end ELSE Reach(e, following)[k - 1]
      BY <2>2, <2>3, ReachValues
    <2> QED BY <1>n, <1>3, <2>1, <2>4
  <1> DEFINE Gaps == {k \in 1 .. n : ~seqGE(reach[k - 1], following[k].begin)}
             apart == First(Gaps, n)
  <1>5. Absorb(r, following) = <<[r EXCEPT !.end = reach[apart - 1]]>> \o SubSeq(following, apart, n)
    BY <1>n, <1>e, <1>3 DEF Absorb
  <1>8. Gaps \subseteq 1 .. n OBVIOUS
  <1>9. \A k \in 1 .. n : k \in Gaps <=> ~seqGE(reach[k - 1], following[k].begin) OBVIOUS
  <1> HIDE DEF Gaps
  <1>10. /\ apart \in 1 .. n + 1 /\ apart \in Gaps \cup {n + 1}
         /\ \A k \in 1 .. n : k < apart => k \notin Gaps
    BY <1>1, <1>8, FirstFound
  <1>11. PICK a : a = apart OBVIOUS
  <1> HIDE DEF apart
  <1>12. a <= n => ~seqGE(reach[a - 1], following[a].begin) BY <1>1, <1>9, <1>10, <1>11
  <1>13. \A k \in 1 .. n : k < a => seqGE(reach[k - 1], following[k].begin) BY <1>9, <1>10, <1>11
  <1>14. Absorb(r, following) = <<[r EXCEPT !.end = reach[a - 1]]>> \o SubSeq(following, a, n)
    BY <1>5, <1>11
  <1>15. a \in 1 .. n + 1 BY <1>10, <1>11
  <1> QED BY <1>n, <1>e, <1>4, <1>12, <1>13, <1>14, <1>15

(* r grows into g over the regions before p, and stops short of p. *)
Swallows(base, r, following, p, g) ==
    /\ Absorb(r, following) = <<g>> \o SubSeq(following, p, Len(following))
    /\ g.begin = r.begin
    /\ Minus(g.begin, base) < Minus(g.end, base) /\ Minus(g.end, base) <= RcvWnd
    /\ \A k \in 1 .. Len(following) :
            p <= k => Minus(g.end, base) < Minus(following[k].begin, base)
    /\ \A x \in Nat : Inside(base, x, g) <=>
            \/ Inside(base, x, r)
            \/ \E k \in 1 .. Len(following) : k < p /\ Inside(base, x, following[k])

LEMMA AbsorbResult ==
  ASSUME NEW base \in SeqNo, NEW r \in Region, NEW following, Shaped(base, following),
         NEW n \in Nat, n = Len(following),
         Minus(r.begin, base) < Minus(r.end, base), Minus(r.end, base) <= RcvWnd,
         \A k \in 1 .. n : Minus(r.begin, base) < Minus(following[k].begin, base)
  PROVE  \E p \in 1 .. n + 1, g \in Region : Swallows(base, r, following, p, g)
PROOF
  <1>0. PICK len, reach, p :
            /\ len = Len(following)
            /\ Absorb(r, following) = <<[r EXCEPT !.end = reach[p - 1]]>> \o SubSeq(following, p, len)
            /\ reach[0] = r.end
            /\ \A k \in 0 .. len : reach[k] \in SeqNo
            /\ \A k \in 1 .. len : reach[k] = IF seqLess(reach[k - 1], following[k].end)
                                              THEN following[k].end ELSE reach[k - 1]
            /\ p \in 1 .. len + 1
            /\ \A k \in 1 .. len : k < p => seqGE(reach[k - 1], following[k].begin)
            /\ p <= len => ~seqGE(reach[p - 1], following[p].begin)
    <2>1. following \in Seq(Region) BY DEF Shaped
    <2> QED BY <2>1, AbsorbLoop
  <1>1. /\ Absorb(r, following) = <<[r EXCEPT !.end = reach[p - 1]]>> \o SubSeq(following, p, n)
        /\ reach[0] = r.end
        /\ \A k \in 0 .. n : reach[k] \in SeqNo
        /\ \A k \in 1 .. n : reach[k] = IF seqLess(reach[k - 1], following[k].end)
                                        THEN following[k].end ELSE reach[k - 1]
        /\ p \in 1 .. n + 1
        /\ \A k \in 1 .. n : k < p => seqGE(reach[k - 1], following[k].begin)
        /\ p <= n => ~seqGE(reach[p - 1], following[p].begin)
    BY <1>0
  <1>2. PICK B \in [1 .. n -> SeqNo] : \A k \in 1 .. n : B[k] = Minus(following[k].begin, base)
    <2>1. \A k \in 1 .. n : following[k] \in Region BY DEF Shaped
    <2>2. \A k \in 1 .. n : Minus(following[k].begin, base) \in SeqNo BY <2>1, MinusValue DEF Region
    <2>3. [k \in 1 .. n |-> Minus(following[k].begin, base)] \in [1 .. n -> SeqNo] BY <2>2
    <2> QED BY <2>3
  <1>3. PICK E \in [1 .. n -> SeqNo] : \A k \in 1 .. n : E[k] = Minus(following[k].end, base)
    <2>1. \A k \in 1 .. n : following[k] \in Region BY DEF Shaped
    <2>2. \A k \in 1 .. n : Minus(following[k].end, base) \in SeqNo BY <2>1, MinusValue DEF Region
    <2>3. [k \in 1 .. n |-> Minus(following[k].end, base)] \in [1 .. n -> SeqNo] BY <2>2
    <2> QED BY <2>3
  <1>4. PICK R \in [0 .. n -> SeqNo] : \A k \in 0 .. n : R[k] = Minus(reach[k], base)
    <2>1. \A k \in 0 .. n : Minus(reach[k], base) \in SeqNo BY <1>1, MinusValue
    <2>2. [k \in 0 .. n |-> Minus(reach[k], base)] \in [0 .. n -> SeqNo] BY <2>1
    <2> QED BY <2>2
  <1>5. PICK b \in SeqNo : b = Minus(r.begin, base) BY MinusValue DEF Region
  <1>6. PICK e \in SeqNo : e = Minus(r.end, base) BY MinusValue DEF Region
  <1>7. /\ \A k \in 1 .. n : B[k] < E[k] /\ E[k] <= RcvWnd /\ b < B[k]
        /\ \A k, m \in 1 .. n : k < m => E[k] < B[m]
        /\ b < e /\ e <= RcvWnd
    BY <1>2, <1>3, <1>5, <1>6 DEF Shaped
  <1>8. R[0] = e
    <2>1. 0 \in 0 .. n OBVIOUS
    <2> QED BY <1>1, <1>4, <1>6, <2>1
  <1>9. RcvWnd \in Nat /\ RcvWnd < Half /\ SeqNo \subseteq Nat
    <2>1. SeqSpace \in Nat \ {0} BY SeqSpaceAssumption
    <2> QED BY <2>1, ReceiveAssumption DEF Half, SeqNo
  <1>10. \A k \in 1 .. n : R[k - 1] <= RcvWnd =>
            /\ seqGE(reach[k - 1], following[k].begin) <=> R[k - 1] >= B[k]
            /\ R[k] = IF R[k - 1] < E[k] THEN E[k] ELSE R[k - 1]
    <2> SUFFICES ASSUME NEW k \in 1 .. n, R[k - 1] <= RcvWnd
                 PROVE  /\ seqGE(reach[k - 1], following[k].begin) <=> R[k - 1] >= B[k]
                        /\ R[k] = IF R[k - 1] < E[k] THEN E[k] ELSE R[k - 1]
      OBVIOUS
    <2>1. following[k] \in Region BY DEF Shaped
    <2>2. PICK x \in SeqNo : x = following[k].begin BY <2>1 DEF Region
    <2>3. PICK y \in SeqNo : y = following[k].end BY <2>1 DEF Region
    <2>4. k - 1 \in 0 .. n OBVIOUS
    <2>5. PICK z \in SeqNo : z = reach[k - 1] BY <1>1, <2>4
    <2>6. R[k - 1] = Minus(z, base) /\ B[k] = Minus(x, base) /\ E[k] = Minus(y, base)
      BY <1>2, <1>3, <1>4, <2>2, <2>3, <2>4, <2>5
    <2>7. Minus(z, base) < Half /\ Minus(x, base) < Half /\ Minus(y, base) < Half
      <3>0. R[k - 1] \in SeqNo /\ B[k] \in SeqNo /\ E[k] \in SeqNo BY <2>4
      <3>1. R[k - 1] \in Nat /\ B[k] \in Nat /\ E[k] \in Nat BY <1>9, <3>0
      <3>2. R[k - 1] <= RcvWnd /\ B[k] < E[k] /\ E[k] <= RcvWnd BY <1>7
      <3>3. R[k - 1] < Half /\ B[k] < Half /\ E[k] < Half BY <1>9, <3>1, <3>2, HalfSpace
      <3> QED BY <2>6, <3>3
    <2>8. seqGE(z, x) <=> Minus(z, base) >= Minus(x, base) BY <2>7, Compare
    <2>9. seqLess(z, y) <=> Minus(z, base) < Minus(y, base) BY <2>7, Compare
    <2>10. reach[k] = IF seqLess(z, y) THEN y ELSE z BY <1>1, <2>3, <2>5
    <2>11. R[k] = Minus(reach[k], base) BY <1>4
    <2> QED BY <2>2, <2>5, <2>6, <2>8, <2>9, <2>10, <2>11
  <1> DEFINE In(x, k) == B[k] <= x /\ x < E[k]
             D == {k \in 0 .. n : k < p => /\ e <= R[k] /\ R[k] <= RcvWnd
                                           /\ \A x \in Nat : (b <= x /\ x < R[k]) <=>
                                                \/ b <= x /\ x < e
                                                \/ \E m \in 1 .. k : In(x, m)}
  <1>11. 0 \in D
    <2>1. R[0] = e /\ e \in Nat /\ e <= RcvWnd BY <1>7, <1>8, <1>9
    <2> QED BY <2>1
  <1>12. ASSUME NEW k \in 1 .. n, k - 1 \in D PROVE k \in D
    <2> SUFFICES ASSUME k < p
                 PROVE  /\ e <= R[k] /\ R[k] <= RcvWnd
                        /\ \A x \in Nat : (b <= x /\ x < R[k]) <=>
                                \/ b <= x /\ x < e
                                \/ \E m \in 1 .. k : In(x, m)
      OBVIOUS
    <2>1. k - 1 < p BY <1>1
    <2>2. /\ e <= R[k - 1] /\ R[k - 1] <= RcvWnd
          /\ \A x \in Nat : (b <= x /\ x < R[k - 1]) <=>
                                \/ b <= x /\ x < e
                                \/ \E m \in 1 .. k - 1 : In(x, m)
      BY <1>12, <2>1
    <2>0. R[k - 1] \in SeqNo /\ R[k] \in SeqNo /\ B[k] \in SeqNo /\ E[k] \in SeqNo
      <3>1. k - 1 \in 0 .. n /\ k \in 0 .. n OBVIOUS
      <3> QED BY <3>1
    <2>3. PICK z \in Nat : z = R[k - 1] BY <1>9, <2>0
    <2>4. PICK y \in Nat : y = R[k] BY <1>9, <2>0
    <2>5. PICK c \in Nat : c = B[k] BY <1>9, <2>0
    <2>6. PICK d \in Nat : d = E[k] BY <1>9, <2>0
    <2>7. z >= c /\ y = IF z < d THEN d ELSE z BY <1>1, <1>10, <2>2, <2>3, <2>4, <2>5, <2>6
    <2>8. b < c /\ c < d /\ d <= RcvWnd /\ b \in Nat /\ e \in Nat BY <1>7, <1>9, <2>5, <2>6
    <2>9. e <= R[k] /\ R[k] <= RcvWnd BY <1>9, <2>2, <2>3, <2>4, <2>7, <2>8
    <2>10. ASSUME NEW x \in Nat
           PROVE  (\E m \in 1 .. k : In(x, m)) <=> (In(x, k) \/ \E m \in 1 .. k - 1 : In(x, m))
      <3> HIDE DEF In
      <3>1. \A m \in 1 .. k : m = k \/ m \in 1 .. k - 1 OBVIOUS
      <3>2. \A m \in 1 .. k - 1 : m \in 1 .. k OBVIOUS
      <3> QED BY <3>1, <3>2
    <2>11. ASSUME NEW x \in Nat
           PROVE  (b <= x /\ x < y) <=> ((b <= x /\ x < z) \/ (c <= x /\ x < d))
      BY <2>7, <2>8
    <2>12. ASSUME NEW x \in Nat
           PROVE  (b <= x /\ x < R[k]) <=>
                                \/ b <= x /\ x < e
                                \/ \E m \in 1 .. k : In(x, m)
      <3>1. (b <= x /\ x < z) <=> ((b <= x /\ x < e) \/ \E m \in 1 .. k - 1 : In(x, m)) BY <2>2, <2>3
      <3>2. In(x, k) <=> (c <= x /\ x < d) BY <2>5, <2>6
      <3> HIDE DEF In
      <3> QED BY <2>4, <2>10, <2>11, <3>1, <3>2
    <2> QED BY <2>9, <2>12
  <1>13. \A k \in 0 .. n : k \in D
    <2>1. \A k \in 1 .. n : k - 1 \in D => k \in D BY <1>12
    <2> HIDE DEF D
    <2> QED BY <1>11, <2>1, UpTo
  <1>14. PICK h \in Nat : h = p - 1 /\ h \in 0 .. n /\ h < p
    <2>1. p \in 1 .. n + 1 BY <1>1
    <2> QED BY <2>1
  <1>15. /\ e <= R[h] /\ R[h] <= RcvWnd
         /\ \A x \in Nat : (b <= x /\ x < R[h]) <=>
                                \/ b <= x /\ x < e
                                \/ \E m \in 1 .. h : In(x, m)
    BY <1>13, <1>14
  <1>16. PICK g \in Region : g = [r EXCEPT !.end = reach[p - 1]] /\ g.begin = r.begin /\ g.end = reach[h]
    BY <1>1, <1>14 DEF Region
  <1>17. Absorb(r, following) = <<g>> \o SubSeq(following, p, n) BY <1>1, <1>16
  <1>18. Minus(g.begin, base) = b /\ Minus(g.end, base) = R[h] BY <1>4, <1>5, <1>14, <1>16
  <1>19. b < R[h] BY <1>7, <1>9, <1>14, <1>15
  <1>20. ASSUME NEW k \in 1 .. n, p <= k PROVE R[h] < B[k]
    <2>1. p \in 1 .. n /\ p - 1 = h BY <1>1, <1>14, <1>20
    <2>2. ~(R[h] >= B[p]) BY <1>1, <1>10, <1>15, <2>1
    <2>3. R[h] \in Nat /\ B[p] \in Nat /\ E[p] \in Nat /\ B[k] \in Nat BY <1>9, <1>14, <2>1
    <2>4. R[h] < B[p] BY <2>2, <2>3
    <2>5. CASE k = p BY <2>4, <2>5
    <2>6. CASE k # p
      <3>1. p < k BY <1>20, <2>1, <2>6
      <3> QED BY <1>7, <2>1, <2>3, <2>4, <3>1
    <2> QED BY <2>5, <2>6
  <1>21. ASSUME NEW x \in Nat
         PROVE  Inside(base, x, g) <=>
                    \/ Inside(base, x, r)
                    \/ \E k \in 1 .. n : k < p /\ Inside(base, x, following[k])
    <2>1. Inside(base, x, g) <=> b <= x /\ x < R[h] BY <1>18 DEF Inside
    <2>2. Inside(base, x, r) <=> b <= x /\ x < e BY <1>5, <1>6 DEF Inside
    <2>3. \A k \in 1 .. n : Inside(base, x, following[k]) <=> In(x, k) BY <1>2, <1>3 DEF Inside
    <2>4. (b <= x /\ x < R[h]) <=> ((b <= x /\ x < e) \/ \E m \in 1 .. h : In(x, m)) BY <1>15
    <2>5. \A k : k \in 1 .. h <=> k \in 1 .. n /\ k < p BY <1>1, <1>14
    <2> HIDE DEF In
    <2>6. (\E m \in 1 .. h : In(x, m)) <=> \E k \in 1 .. n : k < p /\ In(x, k) BY <2>5
    <2> QED BY <2>1, <2>2, <2>3, <2>4, <2>6
  <1>22. \A k \in 1 .. n : p <= k => Minus(g.end, base) < Minus(following[k].begin, base)
    BY <1>2, <1>18, <1>20
  <1>23. p \in 1 .. n + 1 BY <1>1
  <1>24. Minus(g.begin, base) < Minus(g.end, base) /\ Minus(g.end, base) <= RcvWnd
    BY <1>15, <1>18, <1>19
  <1>25. Swallows(base, r, following, p, g)
    BY <1>16, <1>17, <1>21, <1>22, <1>24 DEF Swallows
  <1> QED BY <1>23, <1>25

-----------------------------------------------------------------------------
(* merge: a segment inside the window keeps the list canonical, and what   *)
(* is covered grows by what the segment covers.                            *)

(* g can take the place of the regions from i to j - 1. *)
Fits(base, list, g, i, j) ==
    /\ i \in 1 .. Len(list) + 1 /\ j \in i .. Len(list) + 1
    /\ Minus(g.begin, base) < Minus(g.end, base) /\ Minus(g.end, base) <= RcvWnd
    /\ \A k \in 1 .. Len(list) : k < i => Minus(list[k].end, base) < Minus(g.begin, base)
    /\ \A k \in 1 .. Len(list) : j <= k => Minus(g.end, base) < Minus(list[k].begin, base)

(* g covers what seg and the regions from i to j - 1 cover. *)
Joins(base, list, g, i, j, seg) ==
    \A x \in Nat : Inside(base, x, g) <=>
        \/ Inside(base, x, seg)
        \/ \E k \in 1 .. Len(list) : i <= k /\ k < j /\ Inside(base, x, list[k])

(* t covers what seg and list cover. *)
Grown(base, t, list, seg) ==
    \A x \in Nat : x \in Covered(base, t) <=> x \in Covered(base, list) \/ Inside(base, x, seg)

LEMMA InWindow ==
  ASSUME NEW base \in SeqNo, NEW a \in SeqNo, NEW b \in SeqNo,
         Minus(a, base) <= RcvWnd, Minus(b, base) <= RcvWnd
  PROVE  /\ Minus(a, base) \in Nat /\ Minus(b, base) \in Nat
         /\ seqLess(a, b) <=> Minus(a, base) < Minus(b, base)
         /\ seqLE(a, b) <=> Minus(a, base) <= Minus(b, base)
         /\ seqGE(a, b) <=> Minus(a, base) >= Minus(b, base)
         /\ Minus(a, base) <= Minus(b, base) => Minus(b, a) = Minus(b, base) - Minus(a, base)
         /\ a = b <=> Minus(a, base) = Minus(b, base)
PROOF
  <1>1. SeqSpace \in Nat \ {0} /\ RcvWnd \in Nat /\ RcvWnd < Half
    BY SeqSpaceAssumption, ReceiveAssumption DEF Half
  <1>2. PICK x \in SeqNo : x = Minus(a, base) BY MinusValue
  <1>3. PICK y \in SeqNo : y = Minus(b, base) BY MinusValue
  <1>4. x \in Nat /\ y \in Nat BY <1>1 DEF SeqNo
  <1>5. x < Half /\ y < Half BY <1>1, <1>2, <1>3, <1>4, HalfSpace
  <1>6. Minus(a, base) < Half /\ Minus(b, base) < Half BY <1>2, <1>3, <1>5
  <1>7. Minus(a, base) \in Nat /\ Minus(b, base) \in Nat BY <1>2, <1>3, <1>4
  <1> QED BY <1>6, <1>7, Compare

LEMMA SubSeqExcerpt ==
  ASSUME NEW S, NEW list \in Seq(S), NEW i \in 1 .. Len(list) + 1, NEW j \in Nat,
         i <= j + 1, j <= Len(list), NEW u, u = SubSeq(list, i, j)
  PROVE  u \in Seq(S) /\ Excerpt(u, list, i, j + 1 - i)
  BY Part DEF Excerpt

LEMMA MergeFrom ==
  ASSUME NEW base \in SeqNo, NEW list, Shaped(base, list), NEW g \in Region,
         NEW i, NEW j, Fits(base, list, g, i, j),
         NEW a \in Seq(Region), Excerpt(a, list, 1, i - 1),
         NEW c \in Seq(Region), Excerpt(c, list, j, Len(list) + 1 - j),
         NEW seg, Joins(base, list, g, i, j, seg),
         NEW t, t = a \o (<<g>> \o c)
  PROVE  Shaped(base, t) /\ Grown(base, t, list, seg)
PROOF
  <1>n. PICK n : n = Len(list) OBVIOUS
  <1>1. n \in Nat /\ i \in 1 .. n + 1 /\ j \in i .. n + 1 BY <1>n DEF Shaped, Fits
  <1>t. PICK v : v = a \o (<<g>> \o c) OBVIOUS
  <1>2. v \in Seq(Region) /\ Spliced(v, list, i, g, j)
    <2>1. Excerpt(c, list, j, n + 1 - j) BY <1>n
    <2>2. n \in Nat BY <1>1
    <2>3. i \in 1 .. n + 1 BY <1>1
    <2>4. j \in i .. n + 1 BY <1>1
    <2>5. n = Len(list) BY <1>n
    <2> QED BY <2>1, <2>2, <2>3, <2>4, <2>5, <1>t, SplicedElements
  <1>3. /\ Minus(g.begin, base) < Minus(g.end, base) /\ Minus(g.end, base) <= RcvWnd
        /\ \A k \in 1 .. n : k < i => Minus(list[k].end, base) < Minus(g.begin, base)
        /\ \A k \in 1 .. n : j <= k => Minus(g.end, base) < Minus(list[k].begin, base)
    BY <1>n DEF Fits
  <1>4. /\ Shaped(base, v)
        /\ \A x \in Nat : x \in Covered(base, v) <=>
                \/ Inside(base, x, g)
                \/ \E k \in 1 .. n : (k < i \/ j <= k) /\ Inside(base, x, list[k])
    BY <1>n, <1>1, <1>2, <1>3, SplicedShaped
  <1>5. ASSUME NEW x \in Nat
        PROVE  x \in Covered(base, v) <=> x \in Covered(base, list) \/ Inside(base, x, seg)
    <2>1. x \in Covered(base, v) <=> \/ Inside(base, x, g)
                                     \/ \E k \in 1 .. n : (k < i \/ j <= k) /\ Inside(base, x, list[k])
      BY <1>4
    <2>2. Inside(base, x, g) <=>
             \/ Inside(base, x, seg)
             \/ \E k \in 1 .. n : i <= k /\ k < j /\ Inside(base, x, list[k])
      BY <1>n DEF Joins
    <2>3. x \in Covered(base, list) <=> \E k \in 1 .. n : Inside(base, x, list[k])
      BY <1>n DEF Covered
    <2>4. \A k \in 1 .. n : (k < i \/ j <= k) \/ (i <= k /\ k < j) BY <1>1
    <2> QED BY <2>1, <2>2, <2>3, <2>4
  <1>6. v = t BY <1>t
  <1> QED BY <1>4, <1>5, <1>6 DEF Grown

LEMMA Distances ==
  ASSUME NEW base \in SeqNo, NEW list \in Seq(Region)
  PROVE  \E B, E : \A k \in 1 .. Len(list) :
            /\ B[k] \in SeqNo /\ B[k] = Minus(list[k].begin, base)
            /\ E[k] \in SeqNo /\ E[k] = Minus(list[k].end, base)
PROOF
  <1>n. PICK n : n = Len(list) OBVIOUS
  <1>1. \A k \in 1 .. n : list[k] \in Region BY <1>n
  <1>2. \A k \in 1 .. n : Minus(list[k].begin, base) \in SeqNo /\ Minus(list[k].end, base) \in SeqNo
    BY <1>1, MinusValue DEF Region
  <1>3. PICK B : B = [k \in 1 .. n |-> Minus(list[k].begin, base)] OBVIOUS
  <1>4. PICK E : E = [k \in 1 .. n |-> Minus(list[k].end, base)] OBVIOUS
  <1>5. \A k \in 1 .. n : B[k] \in SeqNo /\ B[k] = Minus(list[k].begin, base) BY <1>2, <1>3
  <1>6. \A k \in 1 .. n : E[k] \in SeqNo /\ E[k] = Minus(list[k].end, base) BY <1>2, <1>4
  <1> QED BY <1>n, <1>5, <1>6

LEMMA MergeShaped ==
  ASSUME NEW base \in SeqNo, NEW list, Shaped(base, list), NEW seg \in Region,
         Minus(seg.begin, base) < Minus(seg.end, base), Minus(seg.end, base) <= RcvWnd
  PROVE  Shaped(base, merge(list, seg)) /\ Grown(base, merge(list, seg), list, seg)
PROOF
  <1>n. PICK n : n = Len(list) OBVIOUS
  <1>l. list \in Seq(Region) /\ n \in Nat BY <1>n DEF Shaped
  <1>w. RcvWnd \in Nat /\ SeqNo \subseteq Nat
    <2>1. SeqSpace \in Nat \ {0} BY SeqSpaceAssumption
    <2> QED BY <2>1, ReceiveAssumption DEF SeqNo
  <1>1. PICK B, E : \A k \in 1 .. n : /\ B[k] \in SeqNo /\ B[k] = Minus(list[k].begin, base)
                                      /\ E[k] \in SeqNo /\ E[k] = Minus(list[k].end, base)
    <2>1. list \in Seq(Region) BY <1>l
    <2>2. \E B, E : \A k \in 1 .. Len(list) :
            /\ B[k] \in SeqNo /\ B[k] = Minus(list[k].begin, base)
            /\ E[k] \in SeqNo /\ E[k] = Minus(list[k].end, base)
      BY <2>1, Distances
    <2> QED BY <1>n, <2>2
  <1>2. \A k \in 1 .. n : list[k] \in Region /\ B[k] \in Nat /\ E[k] \in Nat
    <2>1. \A k \in 1 .. n : list[k] \in Region BY <1>l, <1>n
    <2>2. \A k \in 1 .. n : B[k] \in Nat /\ E[k] \in Nat BY <1>1, <1>w
    <2> QED BY <2>1, <2>2
  <1>s. PICK s \in SeqNo : s = Minus(seg.begin, base) BY MinusValue DEF Region
  <1>e. PICK e \in SeqNo : e = Minus(seg.end, base) BY MinusValue DEF Region
  <1>3. s \in Nat /\ e \in Nat BY <1>w
  <1>4. /\ \A k \in 1 .. n : B[k] < E[k] /\ E[k] <= RcvWnd
        /\ \A k, m \in 1 .. n : k < m => E[k] < B[m]
        /\ s < e /\ e <= RcvWnd
    BY <1>n, <1>1, <1>s, <1>e DEF Shaped
  <1>5. ASSUME NEW k \in 1 .. n
        PROVE  /\ seqLess(list[k].end, seg.begin) <=> E[k] < s
               /\ seqLess(seg.end, list[k].begin) <=> e < B[k]
               /\ seqLess(seg.begin, list[k].begin) <=> s < B[k]
               /\ seqLess(list[k].end, seg.end) <=> E[k] < e
    <2>1. PICK x \in SeqNo : x = list[k].begin BY <1>2 DEF Region
    <2>2. PICK y \in SeqNo : y = list[k].end BY <1>2 DEF Region
    <2>3. PICK c \in SeqNo : c = seg.begin BY DEF Region
    <2>4. PICK d \in SeqNo : d = seg.end BY DEF Region
    <2>5. /\ Minus(x, base) = B[k] /\ Minus(y, base) = E[k]
          /\ Minus(c, base) = s /\ Minus(d, base) = e
      BY <1>1, <1>s, <1>e, <2>1, <2>2, <2>3, <2>4
    <2>6. B[k] <= RcvWnd /\ E[k] <= RcvWnd /\ s <= RcvWnd /\ e <= RcvWnd BY <1>2, <1>3, <1>4, <1>w
    <2>7. /\ Minus(x, base) <= RcvWnd /\ Minus(y, base) <= RcvWnd
          /\ Minus(c, base) <= RcvWnd /\ Minus(d, base) <= RcvWnd
      BY <2>5, <2>6
    <2>8. seqLess(y, c) <=> Minus(y, base) < Minus(c, base) BY <2>7, InWindow
    <2>9. seqLess(d, x) <=> Minus(d, base) < Minus(x, base) BY <2>7, InWindow
    <2>10. seqLess(c, x) <=> Minus(c, base) < Minus(x, base) BY <2>7, InWindow
    <2>11. seqLess(y, d) <=> Minus(y, base) < Minus(d, base) BY <2>7, InWindow
    <2> QED BY <2>1, <2>2, <2>3, <2>4, <2>5, <2>8, <2>9, <2>10, <2>11
  <1> DEFINE Late == {k \in 1 .. n : ~seqLess(list[k].end, seg.begin)}
  <1>6. \A k \in 1 .. n : k \in Late <=> ~(E[k] < s) BY <1>5
  <1>7. PICK i : i = First(Late, n) OBVIOUS
  <1>8. /\ i \in 1 .. n + 1
        /\ \A k \in 1 .. n : k < i => E[k] < s
        /\ i <= n => ~(E[i] < s)
    <2>1. Late \subseteq 1 .. n OBVIOUS
    <2> HIDE DEF Late
    <2>2. /\ First(Late, n) \in 1 .. n + 1 /\ First(Late, n) \in Late \cup {n + 1}
          /\ \A k \in 1 .. n : k < First(Late, n) => k \notin Late
      BY <1>l, <2>1, FirstFound
    <2>3. i \in 1 .. n + 1 /\ i \in Late \cup {n + 1} /\ \A k \in 1 .. n : k < i => k \notin Late
      BY <1>7, <2>2
    <2> QED BY <1>6, <1>l, <2>3
  <1>9. i \in Nat \ {0} /\ i <= n + 1 BY <1>8, <1>l
  <1>10. PICK a : a = SubSeq(list, 1, i - 1) OBVIOUS
  <1>11. a \in Seq(Region) /\ Excerpt(a, list, 1, i - 1)
    <2>1. PICK h \in Nat : h = i - 1 BY <1>9
    <2>2. 1 \in 1 .. Len(list) + 1 /\ 1 <= h + 1 /\ h <= Len(list) BY <1>9, <1>l, <1>n, <2>1
    <2>3. list \in Seq(Region) BY <1>l
    <2>4. a = SubSeq(list, 1, h) BY <1>10, <2>1
    <2>5. a \in Seq(Region) /\ Excerpt(a, list, 1, h + 1 - 1) BY <2>2, <2>3, <2>4, SubSeqExcerpt
    <2>6. h + 1 - 1 = i - 1 BY <2>1, <1>9
    <2> QED BY <2>5, <2>6
  <1>12. ASSUME NEW m \in Nat, i <= m, m <= n + 1, NEW c, c = SubSeq(list, m, n)
         PROVE  c \in Seq(Region) /\ Excerpt(c, list, m, Len(list) + 1 - m)
    <2>1. m \in 1 .. Len(list) + 1 /\ n \in Nat /\ m <= n + 1 /\ n <= Len(list)
      BY <1>9, <1>l, <1>n, <1>12
    <2>2. list \in Seq(Region) BY <1>l
    <2>3. c \in Seq(Region) /\ Excerpt(c, list, m, n + 1 - m) BY <1>12, <2>1, <2>2, SubSeqExcerpt
    <2> QED BY <1>n, <2>3
  <1>13. CASE i > n \/ e < B[i]
    <2>1. PICK c : c = SubSeq(list, i, n) OBVIOUS
    <2>2. c \in Seq(Region) /\ Excerpt(c, list, i, Len(list) + 1 - i)
      <3>1. i \in Nat /\ i <= i /\ i <= n + 1 BY <1>9
      <3> QED BY <1>12, <2>1, <3>1
    <2>3. i > n \/ seqLess(seg.end, list[i].begin)
      <3>1. CASE i > n BY <3>1
      <3>2. CASE ~(i > n)
        <4>1. i \in 1 .. n BY <1>8, <1>l, <3>2
        <4> QED BY <1>5, <1>13, <3>2, <4>1
      <3> QED BY <3>1, <3>2
    <2>4. merge(list, seg) = a \o (<<seg>> \o c) BY <1>n, <1>7, <1>10, <2>1, <2>3 DEF merge
    <2>5. Fits(base, list, seg, i, i)
      <3>1. i \in 1 .. n + 1 /\ i \in i .. n + 1 BY <1>9, <1>l
      <3>2. \A k \in 1 .. n : k < i => Minus(list[k].end, base) < Minus(seg.begin, base)
        BY <1>1, <1>8, <1>s
      <3>3. \A k \in 1 .. n : i <= k => e < B[k]
        <4> SUFFICES ASSUME NEW k \in 1 .. n, i <= k PROVE e < B[k] OBVIOUS
        <4>1. i \in 1 .. n /\ e < B[i] BY <1>9, <1>13, <1>l
        <4>2. CASE k = i BY <4>1, <4>2
        <4>3. CASE i < k
          <5>1. B[i] < E[i] /\ E[i] < B[k] BY <1>4, <4>1, <4>3
          <5> QED BY <1>2, <1>3, <4>1, <5>1
        <4> QED BY <1>9, <4>2, <4>3
      <3>4. \A k \in 1 .. n : i <= k => Minus(seg.end, base) < Minus(list[k].begin, base)
        BY <1>1, <1>e, <3>3
      <3> QED BY <1>n, <3>1, <3>2, <3>4 DEF Fits
    <2>6. Joins(base, list, seg, i, i, seg)
      <3>1. \A k \in 1 .. Len(list) : ~(i <= k /\ k < i) BY <1>9, <1>n, <1>l
      <3> QED BY <3>1 DEF Joins
    <2>7. PICK t : t = a \o (<<seg>> \o c) OBVIOUS
    <2>8. Shaped(base, t) /\ Grown(base, t, list, seg)
      <3>1. a \in Seq(Region) BY <1>11
      <3>2. Excerpt(a, list, 1, i - 1) BY <1>11
      <3>3. c \in Seq(Region) BY <2>2
      <3>4. Excerpt(c, list, i, Len(list) + 1 - i) BY <2>2
      <3> QED BY <2>5, <2>6, <2>7, <3>1, <3>2, <3>3, <3>4, MergeFrom
    <2> QED BY <2>4, <2>7, <2>8
  <1>14. CASE ~(i > n \/ e < B[i])
    <2>i. i \in 1 .. n /\ B[i] <= e /\ s <= E[i]
      <3>1. i \in 1 .. n BY <1>9, <1>14, <1>l
      <3> QED BY <1>2, <1>3, <1>8, <1>14, <3>1
    <2>1. PICK h \in Region : h = list[i] BY <1>2, <2>i
    <2>2. PICK r : r = [h EXCEPT !.begin = IF seqLess(seg.begin, @) THEN seg.begin ELSE @] OBVIOUS
    <2>3. /\ r \in Region /\ r.end = h.end
          /\ r.begin = IF seqLess(seg.begin, h.begin) THEN seg.begin ELSE h.begin
      BY <2>2 DEF Region
    <2>4. PICK b \in Nat : b = Minus(r.begin, base) /\ b = IF s < B[i] THEN s ELSE B[i]
      <3>1. seqLess(seg.begin, h.begin) <=> s < B[i] BY <1>5, <2>i, <2>1
      <3>2. Minus(h.begin, base) = B[i] BY <1>1, <2>i, <2>1
      <3>3. Minus(r.begin, base) = IF s < B[i] THEN s ELSE B[i] BY <1>s, <2>3, <3>1, <3>2
      <3>4. B[i] \in Nat BY <1>2, <2>i
      <3> QED BY <1>3, <3>3, <3>4
    <2>5. Minus(r.end, base) = E[i] BY <1>1, <2>i, <2>1, <2>3
    <2>6. \A k \in 1 .. n : k < i => E[k] < b
      <3> SUFFICES ASSUME NEW k \in 1 .. n, k < i PROVE E[k] < b OBVIOUS
      <3>1. E[k] < s /\ E[k] < B[i] BY <1>4, <1>8, <2>i
      <3> QED BY <2>4, <3>1
    <2>7. seqLess(r.end, seg.end) <=> E[i] < e BY <1>5, <2>i, <2>1, <2>3
    <2>8. ~(i > n \/ seqLess(seg.end, list[i].begin)) BY <1>5, <1>14, <2>i
    <2>9. merge(list, seg) = a \o (IF seqLess(r.end, seg.end)
                                   THEN Absorb([r EXCEPT !.end = seg.end], SubSeq(list, i + 1, n))
                                   ELSE <<r>> \o SubSeq(list, i + 1, n))
      BY <1>n, <1>7, <1>10, <2>1, <2>2, <2>8 DEF merge
    <2>10. PICK after : after = SubSeq(list, i + 1, n) OBVIOUS
    <2>11. after \in Seq(Region) /\ Excerpt(after, list, i + 1, Len(list) + 1 - (i + 1))
      <3>1. PICK m \in Nat : m = i + 1 BY <1>9
      <3>2. i <= m /\ m <= n + 1 BY <3>1, <2>i, <1>l
      <3>3. after = SubSeq(list, m, n) BY <2>10, <3>1
      <3>4. after \in Seq(Region) /\ Excerpt(after, list, m, Len(list) + 1 - m) BY <3>2, <3>3, <1>12
      <3> QED BY <3>1, <3>4
    <2>12. CASE ~(E[i] < e)
      <3>1. merge(list, seg) = a \o (<<r>> \o after) BY <2>7, <2>9, <2>10, <2>12
      <3>2. Fits(base, list, r, i, i + 1)
        <4>1. i \in 1 .. n + 1 /\ i + 1 \in i .. n + 1 BY <1>9, <1>l, <2>i
        <4>2. b < E[i] /\ E[i] <= RcvWnd BY <1>4, <2>i, <2>4, <1>2, <1>3, <2>12
        <4>3. \A k \in 1 .. n : i + 1 <= k => E[i] < B[k] BY <1>4, <2>i, <1>9
        <4>4. \A k \in 1 .. n : k < i => Minus(list[k].end, base) < Minus(r.begin, base)
          BY <1>1, <2>4, <2>6
        <4>5. \A k \in 1 .. n : i + 1 <= k => Minus(r.end, base) < Minus(list[k].begin, base)
          BY <1>1, <2>5, <4>3
        <4>6. Minus(r.begin, base) < Minus(r.end, base) /\ Minus(r.end, base) <= RcvWnd
          BY <2>4, <2>5, <4>2
        <4> QED BY <1>n, <4>1, <4>4, <4>5, <4>6 DEF Fits
      <3>3. Joins(base, list, r, i, i + 1, seg)
        <4> SUFFICES ASSUME NEW x \in Nat
                     PROVE  Inside(base, x, r) <=>
                                \/ Inside(base, x, seg)
                                \/ \E k \in 1 .. Len(list) : i <= k /\ k < i + 1 /\ Inside(base, x, list[k])
          BY DEF Joins
        <4>1. Inside(base, x, r) <=> b <= x /\ x < E[i] BY <2>4, <2>5 DEF Inside
        <4>2. Inside(base, x, seg) <=> s <= x /\ x < e BY <1>s, <1>e DEF Inside
        <4>3. Inside(base, x, list[i]) <=> B[i] <= x /\ x < E[i] BY <1>1, <2>i DEF Inside
        <4>4. \A k \in 1 .. Len(list) : i <= k /\ k < i + 1 <=> k = i BY <1>n, <1>9, <1>l
        <4>5. i \in 1 .. Len(list) BY <1>n, <2>i
        <4>6. (\E k \in 1 .. Len(list) : i <= k /\ k < i + 1 /\ Inside(base, x, list[k]))
                <=> Inside(base, x, list[i])
          BY <4>4, <4>5
        <4>7. (b <= x /\ x < E[i]) <=> ((s <= x /\ x < e) \/ (B[i] <= x /\ x < E[i]))
          <5>1. B[i] \in Nat /\ E[i] \in Nat BY <1>2, <2>i
          <5> QED BY <1>3, <1>4, <2>i, <2>4, <2>12, <5>1
        <4> QED BY <4>1, <4>2, <4>3, <4>6, <4>7
      <3>4. PICK t : t = a \o (<<r>> \o after) OBVIOUS
      <3>5. PICK j : j = i + 1 OBVIOUS
      <3>6. Shaped(base, t) /\ Grown(base, t, list, seg)
        <4>1. a \in Seq(Region) BY <1>11
        <4>2. Excerpt(a, list, 1, i - 1) BY <1>11
        <4>3. after \in Seq(Region) BY <2>11
        <4>4. Excerpt(after, list, j, Len(list) + 1 - j) BY <2>11, <3>5
        <4>5. Fits(base, list, r, i, j) BY <3>2, <3>5
        <4>6. Joins(base, list, r, i, j, seg) BY <3>3, <3>5
        <4>7. r \in Region BY <2>3
        <4> QED BY <3>4, <4>1, <4>2, <4>3, <4>4, <4>5, <4>6, <4>7, MergeFrom
      <3> QED BY <3>1, <3>4, <3>6
    <2>13. CASE E[i] < e
      <3>l. PICK m : m = Len(after) OBVIOUS
      <3>1. /\ m \in Nat /\ m = n - i
            /\ \A k \in 1 .. m : i + k \in 1 .. n /\ after[k] = list[i + k]
        <4>1. m = Len(list) + 1 - (i + 1) /\ \A k \in 1 .. m : after[k] = list[k + (i + 1) - 1]
          BY <2>11, <3>l DEF Excerpt
        <4>2. m \in Nat /\ m = n - i BY <4>1, <1>n, <1>9, <1>l, <2>i
        <4>3. \A k \in 1 .. m : i + k \in 1 .. n /\ k + (i + 1) - 1 = i + k BY <4>2, <1>9, <1>l
        <4> QED BY <4>1, <4>2, <4>3
      <3>2. PICK r1 : r1 = [r EXCEPT !.end = seg.end] OBVIOUS
      <3>3. r1 \in Region /\ r1.begin = r.begin /\ r1.end = seg.end BY <2>3, <3>2 DEF Region
      <3>4. Minus(r1.begin, base) = b /\ Minus(r1.end, base) = e BY <1>e, <2>4, <3>3
      <3>5. merge(list, seg) = a \o Absorb(r1, after) BY <2>7, <2>9, <2>10, <2>13, <3>2
      <3>6. Shaped(base, after)
        <4>1. after \in Seq(Region) BY <2>11
        <4>2. ASSUME NEW k \in 1 .. m
              PROVE  /\ Minus(after[k].begin, base) < Minus(after[k].end, base)
                     /\ Minus(after[k].end, base) <= RcvWnd
          <5>1. i + k \in 1 .. n /\ after[k] = list[i + k] BY <3>1
          <5> QED BY <1>1, <1>4, <5>1
        <4>3. ASSUME NEW k \in 1 .. m, NEW o \in 1 .. m, k < o
              PROVE  Minus(after[k].end, base) < Minus(after[o].begin, base)
          <5>1. i + k \in 1 .. n /\ after[k] = list[i + k] BY <3>1
          <5>2. i + o \in 1 .. n /\ after[o] = list[i + o] BY <3>1
          <5>3. i + k < i + o BY <4>3, <1>9
          <5>4. E[i + k] < B[i + o] BY <1>4, <5>1, <5>2, <5>3
          <5> QED BY <1>1, <5>1, <5>2, <5>4
        <4> QED BY <3>l, <4>1, <4>2, <4>3 DEF Shaped
      <3>7. b < e /\ \A k \in 1 .. m : b < B[i + k]
        <4>1. b < e BY <2>4, <2>i, <1>2, <1>3, <1>4, <2>13
        <4>2. ASSUME NEW k \in 1 .. m PROVE b < B[i + k]
          <5>1. i + k \in 1 .. n /\ i < i + k BY <3>1, <1>9
          <5>2. B[i] < E[i] /\ E[i] < B[i + k] BY <1>4, <2>i, <5>1
          <5>3. B[i] \in Nat /\ E[i] \in Nat /\ B[i + k] \in Nat BY <1>2, <2>i, <5>1
          <5> QED BY <1>3, <2>4, <5>2, <5>3
        <4> QED BY <4>1, <4>2
      <3>8. \A k \in 1 .. m : Minus(r1.begin, base) < Minus(after[k].begin, base)
        BY <1>1, <3>1, <3>4, <3>7
      <3>9. PICK p \in 1 .. m + 1, g \in Region :
                /\ Absorb(r1, after) = <<g>> \o SubSeq(after, p, m)
                /\ g.begin = r1.begin
                /\ Minus(g.begin, base) < Minus(g.end, base) /\ Minus(g.end, base) <= RcvWnd
                /\ \A k \in 1 .. m : p <= k => Minus(g.end, base) < Minus(after[k].begin, base)
                /\ \A x \in Nat : Inside(base, x, g) <=>
                        \/ Inside(base, x, r1)
                        \/ \E k \in 1 .. m : k < p /\ Inside(base, x, after[k])
        <4>1. m \in Nat BY <3>1
        <4>2. Minus(r1.begin, base) < Minus(r1.end, base) BY <3>4, <3>7
        <4>3. Minus(r1.end, base) <= RcvWnd BY <1>4, <3>4
        <4>4. r1 \in Region BY <3>3
        <4>5. \E p \in 1 .. m + 1, g \in Region : Swallows(base, r1, after, p, g)
          BY <3>l, <3>6, <3>8, <4>1, <4>2, <4>3, <4>4, AbsorbResult
        <4> QED BY <3>l, <4>5 DEF Swallows
      <3>10. PICK j \in Nat : j = i + p BY <1>9, <3>1
      <3>11. PICK c : c = SubSeq(after, p, m) OBVIOUS
      <3>12. c \in Seq(Region) /\ Excerpt(c, list, j, Len(list) + 1 - j)
        <4>1. /\ p \in 1 .. Len(after) + 1 /\ m \in Nat /\ p <= m + 1 /\ m <= Len(after)
              /\ after \in Seq(Region)
          BY <2>11, <3>1, <3>l
        <4>2. c \in Seq(Region) /\ Excerpt(c, after, p, m + 1 - p)
          BY <3>11, <4>1, SubSeqExcerpt
        <4>3. m + 1 - p = Len(list) + 1 - j BY <1>n, <1>9, <1>l, <3>1, <3>10
        <4>4. Len(c) = m + 1 - p /\ \A k \in 1 .. m + 1 - p : c[k] = after[k + p - 1]
          BY <4>2 DEF Excerpt
        <4>5. ASSUME NEW k \in 1 .. m + 1 - p PROVE c[k] = list[k + j - 1]
          <5>1. PICK o \in Nat : o = k + p - 1 BY <3>1
          <5>2. o \in 1 .. m BY <3>1, <5>1
          <5>3. c[k] = after[o] /\ after[o] = list[i + o] BY <3>1, <4>4, <5>1, <5>2
          <5>4. i + o = k + j - 1 BY <1>9, <3>1, <3>10, <5>1
          <5> QED BY <5>3, <5>4
        <4>6. Excerpt(c, list, j, m + 1 - p) BY <4>4, <4>5 DEF Excerpt
        <4> QED BY <4>2, <4>3, <4>6
      <3>13. \A k \in 1 .. n : i < k => \E o \in 1 .. m : k = i + o
        <4> SUFFICES ASSUME NEW k \in 1 .. n, i < k PROVE \E o \in 1 .. m : k = i + o OBVIOUS
        <4>1. PICK o \in Int : o = k - i BY <1>9
        <4>2. o \in 1 .. m /\ k = i + o BY <1>9, <1>l, <3>1, <4>1
        <4> QED BY <4>2
      <3>14. Fits(base, list, g, i, j)
        <4>1. i \in 1 .. n + 1 /\ j \in i .. n + 1 BY <1>9, <1>l, <2>i, <3>1, <3>10
        <4>2. \A k \in 1 .. n : k < i => Minus(list[k].end, base) < Minus(g.begin, base)
          BY <1>1, <2>6, <3>4, <3>9
        <4>3. ASSUME NEW k \in 1 .. n, j <= k
              PROVE  Minus(g.end, base) < Minus(list[k].begin, base)
          <5>1. i < k BY <1>9, <3>1, <3>10, <4>3
          <5>2. PICK o \in 1 .. m : k = i + o BY <3>13, <5>1
          <5>3. p <= o BY <1>9, <3>1, <3>10, <4>3, <5>2
          <5>4. after[o] = list[k] BY <3>1, <5>2
          <5> QED BY <3>9, <5>3, <5>4
        <4>4. Minus(g.begin, base) < Minus(g.end, base) /\ Minus(g.end, base) <= RcvWnd BY <3>9
        <4> QED BY <1>n, <4>1, <4>2, <4>3, <4>4 DEF Fits
      <3>15. Joins(base, list, g, i, j, seg)
        <4> SUFFICES ASSUME NEW x \in Nat
                     PROVE  Inside(base, x, g) <=>
                                \/ Inside(base, x, seg)
                                \/ \E k \in 1 .. Len(list) : i <= k /\ k < j /\ Inside(base, x, list[k])
          BY DEF Joins
        <4>1. Inside(base, x, r1) <=> b <= x /\ x < e BY <3>4 DEF Inside
        <4>2. Inside(base, x, seg) <=> s <= x /\ x < e BY <1>s, <1>e DEF Inside
        <4>3. Inside(base, x, list[i]) <=> B[i] <= x /\ x < E[i] BY <1>1, <2>i DEF Inside
        <4>4. (b <= x /\ x < e) <=> ((s <= x /\ x < e) \/ (B[i] <= x /\ x < E[i]))
          <5>1. B[i] \in Nat /\ E[i] \in Nat BY <1>2, <2>i
          <5> QED BY <1>3, <1>4, <2>i, <2>4, <2>13, <5>1
        <4>5. Inside(base, x, r1) <=> Inside(base, x, seg) \/ Inside(base, x, list[i])
          BY <4>1, <4>2, <4>3, <4>4
        <4>6. Inside(base, x, g) <=> Inside(base, x, r1)
                                     \/ \E k \in 1 .. m : k < p /\ Inside(base, x, after[k])
          BY <3>9
        <4>7. ASSUME NEW k \in 1 .. m, k < p, Inside(base, x, after[k])
              PROVE  \E o \in 1 .. Len(list) : i <= o /\ o < j /\ Inside(base, x, list[o])
          <5>1. i + k \in 1 .. Len(list) /\ after[k] = list[i + k] BY <1>n, <3>1
          <5>2. i <= i + k /\ i + k < j BY <1>9, <3>1, <3>10, <4>7
          <5> QED BY <4>7, <5>1, <5>2
        <4>8. Inside(base, x, list[i]) =>
                  \E o \in 1 .. Len(list) : i <= o /\ o < j /\ Inside(base, x, list[o])
          <5>1. i \in 1 .. Len(list) /\ i <= i /\ i < j BY <1>n, <1>9, <2>i, <3>1, <3>10
          <5> QED BY <5>1
        <4>9. ASSUME NEW o \in 1 .. Len(list), i <= o, o < j, Inside(base, x, list[o])
              PROVE  Inside(base, x, list[i]) \/ \E k \in 1 .. m : k < p /\ Inside(base, x, after[k])
          <5>1. CASE o = i BY <4>9, <5>1
          <5>2. CASE i < o
            <6>1. PICK k \in 1 .. m : o = i + k BY <1>n, <3>13, <5>2
            <6>2. k < p BY <1>9, <3>1, <3>10, <4>9, <6>1
            <6>3. after[k] = list[o] BY <3>1, <6>1
            <6> QED BY <4>9, <6>2, <6>3
          <5> QED BY <4>9, <5>1, <5>2, <1>9
        <4> QED BY <4>5, <4>6, <4>7, <4>8, <4>9
      <3>16. PICK t : t = a \o (<<g>> \o c) OBVIOUS
      <3>17. merge(list, seg) = t BY <3>5, <3>9, <3>11, <3>16
      <3>18. Shaped(base, t) /\ Grown(base, t, list, seg)
        <4>1. a \in Seq(Region) BY <1>11
        <4>2. Excerpt(a, list, 1, i - 1) BY <1>11
        <4>3. c \in Seq(Region) BY <3>12
        <4>4. Excerpt(c, list, j, Len(list) + 1 - j) BY <3>12
        <4> QED BY <3>14, <3>15, <3>16, <4>1, <4>2, <4>3, <4>4, MergeFrom
      <3> QED BY <3>17, <3>18
    <2> QED BY <2>12, <2>13
  <1> QED BY <1>13, <1>14

-----------------------------------------------------------------------------
(* extractTo: when the first region begins at the base, all of it is       *)
(* handed over, and what stays is canonical from its end on.               *)

Measured(list, x) ==
    /\ Len(list) \in Nat \ {0}
    /\ x \in Nat /\ x = Minus(list[1].end, list[1].begin)
    /\ \A k \in 1 .. Len(list) : Minus(list[k].end, list[k].begin) \in Nat

LEMMA OctetsOfFirst ==
  ASSUME NEW list, NEW x, Measured(list, x)
  PROVE  Octets(list)[1] = x
PROOF
  <1>n. PICK n : n = Len(list) OBVIOUS
  <1>s. PICK S : S = Nat OBVIOUS
  <1>z. PICK z : z = 0 OBVIOUS
  <1> DEFINE Turn(k, y) == y + Minus(list[k].end, list[k].begin)
             P(f) == f = [k \in 0 .. n |-> IF k = 0 THEN z ELSE Turn(k, f[k - 1])]
             octets == CHOOSE f : P(f)
  <1>1. n \in Nat /\ z \in S BY <1>n, <1>s, <1>z DEF Measured
  <1>p. n # 0 BY <1>n DEF Measured
  <1>2. \A k \in 1 .. n, y \in S : Turn(k, y) \in S BY <1>n, <1>s DEF Measured
  <1>3. Octets(list) = octets BY <1>n, <1>z DEF Octets
  <1>4. Turn(1, z) = x BY <1>z DEF Measured
  <1> HIDE DEF Turn
  <1>5. \E f : P(f)
    <2> DEFINE step == [k \in 1 .. n |-> [y \in S |-> Turn(k, y)]]
    <2>1. step \in [1 .. n -> [S -> S]] BY <1>2
    <2>2. \A k \in 1 .. n, y \in S : step[k][y] = Turn(k, y) OBVIOUS
    <2> HIDE DEF step
    <2>3. PICK f \in [0 .. n -> S] : f[0] = z /\ \A i \in 1 .. n : f[i] = step[i][f[i - 1]]
      BY <1>1, <2>1, LoopExists
    <2>4. ASSUME NEW k \in 0 .. n
          PROVE  f[k] = IF k = 0 THEN z ELSE Turn(k, f[k - 1])
      <3>1. CASE k = 0 BY <2>3, <3>1
      <3>2. CASE k # 0
        <4>1. k \in 1 .. n /\ k - 1 \in 0 .. n BY <1>1, <3>2
        <4> QED BY <2>2, <2>3, <3>2, <4>1
      <3> QED BY <3>1, <3>2
    <2>5. f = [k \in 0 .. n |-> IF k = 0 THEN z ELSE Turn(k, f[k - 1])]
      BY <2>4
    <2> QED BY <2>5
  <1>6. P(octets) BY <1>5, Zenon
  <1> HIDE DEF octets
  <1>7. octets[0] = z /\ octets[1] = Turn(1, octets[0])
    BY <1>1, <1>p, <1>6
  <1> QED BY <1>3, <1>4, <1>7

(* The first region, which is handed over, and those that stay. *)
LEMMA ExtractFirst ==
  ASSUME NEW base \in SeqNo, NEW list, Shaped(base, list), Len(list) # 0,
         Minus(list[1].begin, base) = 0,
         NEW x, x = Minus(list[1].end, base),
         NEW queue, queue.regions = list
  PROVE  /\ Extract(queue, list[1].end).octets = x
         /\ Extract(queue, list[1].end).rest = SubSeq(list, 2, Len(list))
PROOF
  <1>n. PICK n : n = Len(list) OBVIOUS
  <1>l. list \in Seq(Region) /\ n \in Nat \ {0} BY <1>n DEF Shaped
  <1>r. \A k \in 1 .. n : list[k] \in Region BY <1>l, <1>n
  <1>w. RcvWnd \in Nat BY ReceiveAssumption
  <1>f. \A k \in 1 .. n : /\ Minus(list[k].begin, base) < Minus(list[k].end, base)
                          /\ Minus(list[k].end, base) <= RcvWnd
    BY <1>n DEF Shaped
  <1>1. PICK seq \in SeqNo : seq = list[1].end
    <2>1. list[1] \in Region BY <1>l, <1>r
    <2> QED BY <2>1 DEF Region
  <1>2. Minus(seq, base) = x /\ x <= RcvWnd /\ x \in Nat /\ 0 < x
    <2>1. 1 \in 1 .. n BY <1>l
    <2>2. Minus(seq, base) = x BY <1>1
    <2>3. Minus(seq, base) <= RcvWnd /\ 0 < Minus(seq, base) BY <1>1, <1>f, <2>1
    <2>4. Minus(seq, base) \in Nat BY <2>3, InWindow
    <2> QED BY <2>2, <2>3, <2>4
  <1>3. ASSUME NEW k \in 1 .. n
        PROVE  /\ Minus(list[k].begin, base) \in Nat /\ Minus(list[k].end, base) \in Nat
               /\ Minus(list[k].end, list[k].begin)
                    = Minus(list[k].end, base) - Minus(list[k].begin, base)
               /\ seqLE(seq, list[k].begin) <=> x <= Minus(list[k].begin, base)
    <2>1. PICK c \in SeqNo : c = list[k].begin BY <1>r DEF Region
    <2>2. PICK d \in SeqNo : d = list[k].end BY <1>r DEF Region
    <2>3. Minus(c, base) < Minus(d, base) /\ Minus(d, base) <= RcvWnd BY <1>f, <2>1, <2>2
    <2>4. Minus(d, base) \in Nat BY <2>3, InWindow
    <2>5. SeqSpace \in Nat \ {0} /\ Minus(c, base) \in SeqNo BY SeqSpaceAssumption, MinusValue
    <2>6. Minus(c, base) \in Nat BY <2>5 DEF SeqNo
    <2>7. Minus(c, base) <= RcvWnd /\ Minus(c, base) <= Minus(d, base) BY <1>w, <2>3, <2>4, <2>6
    <2>8. Minus(d, c) = Minus(d, base) - Minus(c, base) BY <2>3, <2>7, InWindow
    <2>9. Minus(seq, base) <= RcvWnd BY <1>2
    <2>10. seqLE(seq, c) <=> Minus(seq, base) <= Minus(c, base) BY <2>7, <2>9, InWindow
    <2> QED BY <1>2, <2>1, <2>2, <2>4, <2>6, <2>8, <2>10
  <1>4. Octets(list)[1] = x
    <2>1. 1 \in 1 .. n BY <1>l
    <2>2. Minus(list[1].end, list[1].begin) = x BY <1>1, <1>2, <1>3, <2>1
    <2>3. \A k \in 1 .. n : Minus(list[k].end, list[k].begin) \in Nat
      <3> SUFFICES ASSUME NEW k \in 1 .. n PROVE Minus(list[k].end, list[k].begin) \in Nat OBVIOUS
      <3>1. Minus(list[k].begin, base) < Minus(list[k].end, base) BY <1>f
      <3> QED BY <1>3, <3>1
    <2>4. x \in Nat BY <1>2
    <2>5. Measured(list, x) BY <1>n, <1>l, <2>2, <2>3, <2>4 DEF Measured
    <2> QED BY <2>5, OctetsOfFirst
  <1> DEFINE Stop == {k \in 1 .. n : seqLE(seq, list[k].begin) \/ seqLess(seq, list[k].end)}
  <1>5. 1 \notin Stop
    <2>1. 1 \in 1 .. n BY <1>l
    <2>2. ~seqLE(seq, list[1].begin) BY <1>2, <1>3, <2>1
    <2>3. ~seqLess(seq, list[1].end) BY <1>1 DEF seqLess
    <2> QED BY <2>2, <2>3
  <1>6. n # 1 => seqLE(seq, list[2].begin)
    <2> SUFFICES ASSUME n # 1 PROVE seqLE(seq, list[2].begin) OBVIOUS
    <2>1. 2 \in 1 .. n /\ 1 \in 1 .. n BY <1>l
    <2>2. Minus(list[1].end, base) < Minus(list[2].begin, base) BY <1>n, <2>1 DEF Shaped
    <2>3. Minus(list[2].begin, base) \in Nat BY <1>3, <2>1
    <2> QED BY <1>1, <1>2, <1>3, <2>1, <2>2, <2>3
  <1>7. PICK i : i = First(Stop, n) OBVIOUS
  <1>8. i = 2
    <2>1. Stop \subseteq 1 .. n OBVIOUS
    <2>2. n # 1 => 2 \in Stop BY <1>6, <1>l
    <2> HIDE DEF Stop
    <2>3. /\ First(Stop, n) \in 1 .. n + 1 /\ First(Stop, n) \in Stop \cup {n + 1}
          /\ \A k \in 1 .. n : k < First(Stop, n) => k \notin Stop
      BY <1>l, <2>1, FirstFound
    <2>4. i \in 1 .. n + 1 /\ i \in Stop \cup {n + 1} /\ \A k \in 1 .. n : k < i => k \notin Stop
      BY <1>7, <2>3
    <2>5. i # 1 BY <1>5, <1>l, <2>4
    <2>6. CASE n = 1 BY <2>4, <2>5, <2>6
    <2>7. CASE n # 1
      <3>1. 2 \in 1 .. n /\ 2 \in Stop BY <1>l, <2>2, <2>7
      <3>2. ~(2 < i) BY <2>4, <3>1
      <3> QED BY <1>l, <2>4, <2>5, <3>2
    <2> QED BY <2>6, <2>7
  <1>9. ~(i <= n /\ ~seqLE(seq, list[i].begin)) BY <1>6, <1>8, <1>l
  <1>10. Extract(queue, list[1].end).octets = Octets(list)[i - 1] + 0
    BY <1>1, <1>7, <1>9, <1>n DEF Extract
  <1>11. Extract(queue, list[1].end).rest = SubSeq(list, i, n)
    BY <1>1, <1>7, <1>9, <1>n DEF Extract
  <1> QED BY <1>2, <1>4, <1>8, <1>10, <1>11, <1>n

(* No region begins at the base: there is a gap before the first. *)
Ahead(base, list) == \A k \in 1 .. Len(list) : 0 < Minus(list[k].begin, base)

(* Past the first x bytes of what list covers from base comes what rest    *)
(* covers from next.                                                       *)
Stays(base, list, x, next, rest) ==
    /\ x \in Nat /\ 0 < x
    /\ next \in SeqNo /\ Shaped(next, rest) /\ Ahead(next, rest)
    /\ \A y \in Nat : y \in Covered(next, rest) <=> y + x \in Covered(base, list)
    /\ \A y \in Nat : y < x => y \in Covered(base, list)

LEMMA RestShaped ==
  ASSUME NEW base \in SeqNo, NEW list, Shaped(base, list), Len(list) # 0,
         Minus(list[1].begin, base) = 0,
         NEW x, x = Minus(list[1].end, base),
         NEW next, next = list[1].end,
         NEW rest, rest = SubSeq(list, 2, Len(list))
  PROVE  Stays(base, list, x, next, rest)
PROOF
  <1>n. PICK n : n = Len(list) OBVIOUS
  <1>l. list \in Seq(Region) /\ n \in Nat \ {0} BY <1>n DEF Shaped
  <1>r. \A k \in 1 .. n : list[k] \in Region BY <1>l, <1>n
  <1>w. RcvWnd \in Nat BY ReceiveAssumption
  <1>f. /\ \A k \in 1 .. n : /\ Minus(list[k].begin, base) < Minus(list[k].end, base)
                             /\ Minus(list[k].end, base) <= RcvWnd
        /\ \A k, m \in 1 .. n : k < m => Minus(list[k].end, base) < Minus(list[m].begin, base)
    BY <1>n DEF Shaped
  <1>0. 1 \in 1 .. n BY <1>l
  <1>1. next \in SeqNo /\ Minus(next, base) = x /\ Minus(next, base) <= RcvWnd
    <2>1. list[1] \in Region BY <1>0, <1>r
    <2> QED BY <1>0, <1>f, <2>1 DEF Region
  <1>2. x \in Nat /\ 0 < x
    <2>1. Minus(next, base) \in Nat BY <1>1, InWindow
    <2> QED BY <1>0, <1>1, <1>f, <2>1
  <1>3. ASSUME NEW s \in SeqNo, Minus(s, base) <= RcvWnd, x <= Minus(s, base)
        PROVE  Minus(s, next) = Minus(s, base) - x
    BY <1>1, <1>3, InWindow
  <1>4. ASSUME NEW k \in 1 .. n, k # 1
        PROVE  /\ x < Minus(list[k].begin, base)
               /\ Minus(list[k].begin, base) \in Nat /\ Minus(list[k].end, base) \in Nat
               /\ Minus(list[k].begin, next) = Minus(list[k].begin, base) - x
               /\ Minus(list[k].end, next) = Minus(list[k].end, base) - x
    <2>1. PICK c \in SeqNo : c = list[k].begin BY <1>r DEF Region
    <2>2. PICK d \in SeqNo : d = list[k].end BY <1>r DEF Region
    <2>3. Minus(c, base) < Minus(d, base) /\ Minus(d, base) <= RcvWnd BY <1>f, <2>1, <2>2
    <2>4. 1 < k BY <1>4, <1>l
    <2>5. x < Minus(c, base) BY <1>0, <1>1, <1>f, <2>1, <2>4
    <2>6. Minus(d, base) \in Nat BY <2>3, InWindow
    <2>7. SeqSpace \in Nat \ {0} /\ Minus(c, base) \in SeqNo BY SeqSpaceAssumption, MinusValue
    <2>8. Minus(c, base) \in Nat BY <2>7 DEF SeqNo
    <2>9. /\ Minus(c, base) <= RcvWnd /\ x <= Minus(c, base) /\ x <= Minus(d, base)
      BY <1>2, <1>w, <2>3, <2>5, <2>6, <2>8
    <2>10. Minus(c, next) = Minus(c, base) - x BY <1>3, <2>9
    <2>11. Minus(d, next) = Minus(d, base) - x BY <1>3, <2>3, <2>9
    <2> QED BY <2>1, <2>2, <2>5, <2>6, <2>8, <2>10, <2>11
  <1>5. PICK m : m = Len(rest) OBVIOUS
  <1>6. /\ rest \in Seq(Region) /\ m = n - 1
        /\ \A k \in 1 .. m : k + 1 \in 1 .. n /\ k + 1 # 1 /\ rest[k] = list[k + 1]
    <2>1. 2 \in 1 .. Len(list) + 1 /\ n \in Nat /\ 2 <= n + 1 /\ n <= Len(list) BY <1>l, <1>n
    <2>2. list \in Seq(Region) BY <1>l
    <2>3. rest = SubSeq(list, 2, n) BY <1>n
    <2>4. rest \in Seq(Region) /\ Excerpt(rest, list, 2, n + 1 - 2)
      BY <2>1, <2>2, <2>3, SubSeqExcerpt
    <2>5. m = n - 1 BY <1>5, <1>l, <2>4 DEF Excerpt
    <2>6. \A k \in 1 .. n + 1 - 2 : rest[k] = list[k + 2 - 1] BY <2>4 DEF Excerpt
    <2>7. ASSUME NEW k \in 1 .. m PROVE k + 1 \in 1 .. n /\ k + 1 # 1 /\ rest[k] = list[k + 1]
      <3>1. k \in 1 .. n + 1 - 2 /\ k + 2 - 1 = k + 1 BY <1>l, <2>5
      <3>2. rest[k] = list[k + 2 - 1] BY <2>6, <3>1
      <3>3. rest[k] = list[k + 1] BY <3>1, <3>2
      <3>4. k + 1 \in 1 .. n /\ k + 1 # 1 BY <1>l, <2>5
      <3> QED BY <3>3, <3>4
    <2> QED BY <2>4, <2>5, <2>7
  <1>7. Shaped(next, rest)
    <2>1. ASSUME NEW k \in 1 .. m
          PROVE  Minus(rest[k].begin, next) < Minus(rest[k].end, next) /\ Minus(rest[k].end, next) <= RcvWnd
      <3>1. k + 1 \in 1 .. n /\ k + 1 # 1 /\ rest[k] = list[k + 1] BY <1>6
      <3>2. PICK o \in 1 .. n : o = k + 1 /\ o # 1 /\ rest[k] = list[o] BY <3>1
      <3>3. /\ Minus(list[o].begin, base) < Minus(list[o].end, base)
            /\ Minus(list[o].end, base) <= RcvWnd
        BY <1>f
      <3>4. PICK c \in Nat : c = Minus(list[o].begin, base) /\ Minus(list[o].begin, next) = c - x
        BY <1>4, <3>2
      <3>5. PICK d \in Nat : d = Minus(list[o].end, base) /\ Minus(list[o].end, next) = d - x
        BY <1>4, <3>2
      <3>6. c - x < d - x /\ d - x <= RcvWnd BY <1>2, <1>w, <3>3, <3>4, <3>5
      <3> QED BY <3>2, <3>4, <3>5, <3>6
    <2>2. ASSUME NEW k \in 1 .. m, NEW h \in 1 .. m, k < h
          PROVE  Minus(rest[k].end, next) < Minus(rest[h].begin, next)
      <3>1. PICK o \in 1 .. n : o = k + 1 /\ o # 1 /\ rest[k] = list[o] BY <1>6
      <3>2. PICK p \in 1 .. n : p = h + 1 /\ p # 1 /\ rest[h] = list[p] BY <1>6
      <3>3. o < p BY <1>l, <2>2, <3>1, <3>2
      <3>4. PICK c \in Nat : c = Minus(list[o].end, base) /\ Minus(list[o].end, next) = c - x
        BY <1>4, <3>1
      <3>5. PICK d \in Nat : d = Minus(list[p].begin, base) /\ Minus(list[p].begin, next) = d - x
        BY <1>4, <3>2
      <3>6. c < d BY <1>f, <3>3, <3>4, <3>5
      <3>7. c - x < d - x BY <1>2, <3>6
      <3> QED BY <3>1, <3>2, <3>4, <3>5, <3>7
    <2> QED BY <1>5, <1>6, <2>1, <2>2 DEF Shaped
  <1>8. Ahead(next, rest)
    <2>1. ASSUME NEW k \in 1 .. m PROVE 0 < Minus(rest[k].begin, next)
      <3>1. PICK o \in 1 .. n : o = k + 1 /\ o # 1 /\ rest[k] = list[o] BY <1>6
      <3>2. PICK c \in Nat : /\ c = Minus(list[o].begin, base) /\ x < c
                             /\ Minus(list[o].begin, next) = c - x
        BY <1>4, <3>1
      <3>3. 0 < c - x BY <1>2, <3>2
      <3> QED BY <3>1, <3>2, <3>3
    <2> QED BY <1>5, <2>1 DEF Ahead
  <1>9. ASSUME NEW y \in Nat, y < x PROVE y \in Covered(base, list)
    BY <1>0, <1>9, <1>n DEF Covered, Inside
  <1>10. ASSUME NEW y \in Nat PROVE y \in Covered(next, rest) <=> y + x \in Covered(base, list)
    <2>1. y \in Covered(next, rest) <=> \E k \in 1 .. m : Inside(next, y, rest[k])
      BY <1>5 DEF Covered
    <2>2. y + x \in Covered(base, list) <=> \E k \in 1 .. n : Inside(base, y + x, list[k])
      BY <1>2, <1>n DEF Covered
    <2>3. ASSUME NEW k \in 1 .. n, k # 1
          PROVE  Inside(next, y, list[k]) <=> Inside(base, y + x, list[k])
      BY <1>2, <1>4, <2>3 DEF Inside
    <2>4. ~Inside(base, y + x, list[1]) BY <1>1, <1>2 DEF Inside
    <2>5. ASSUME NEW k \in 1 .. m, Inside(next, y, rest[k])
          PROVE  \E h \in 1 .. n : Inside(base, y + x, list[h])
      <3>1. PICK o \in 1 .. n : o = k + 1 /\ o # 1 /\ rest[k] = list[o] BY <1>6
      <3> QED BY <2>3, <2>5, <3>1
    <2>6. ASSUME NEW h \in 1 .. n, Inside(base, y + x, list[h])
          PROVE  \E k \in 1 .. m : Inside(next, y, rest[k])
      <3>1. h # 1 BY <2>4, <2>6
      <3>2. PICK k \in Int : k = h - 1 BY <1>l
      <3>3. k \in 1 .. m /\ k + 1 = h BY <1>6, <1>l, <3>1, <3>2
      <3>4. rest[k] = list[h] BY <1>6, <3>3
      <3> QED BY <2>3, <2>6, <3>1, <3>3, <3>4
    <2> QED BY <2>1, <2>2, <2>5, <2>6
  <1> QED BY <1>1, <1>2, <1>7, <1>8, <1>9, <1>10 DEF Stays

-----------------------------------------------------------------------------
(* The invariant: the list is canonical as seen from rcv_nxt, rcv_nxt is   *)
(* where the delivered bytes end, and the bytes that arrived are those     *)
(* delivered and those the regions cover.                                  *)

TypeInv ==
    /\ first \in SeqNo
    /\ q \in [rcv_nxt : SeqNo, regions : Seq(Region)]
    /\ arrived \subseteq 0 .. (StreamLen - 1)
    /\ delivered \in 0 .. StreamLen

Canonical ==
    /\ q.rcv_nxt = Plus(first, delivered)
    /\ Shaped(q.rcv_nxt, q.regions)
    /\ Ahead(q.rcv_nxt, q.regions)

Holds(bytes, n, base, list) ==
    \A x \in Nat : x \in bytes <=> x < n \/ (n <= x /\ x - n \in Covered(base, list))

Accounted == Holds(arrived, delivered, q.rcv_nxt, q.regions)

ReceiveInv == TypeInv /\ Canonical /\ Accounted

LEMMA InitReceiveInv == Init => ReceiveInv
PROOF
  <1> SUFFICES ASSUME Init PROVE ReceiveInv OBVIOUS
  <1>1. PICK e : e = <<>> OBVIOUS
  <1>2. e \in Seq(Region) /\ Len(e) = 0 BY <1>1
  <1>3. first \in SeqNo /\ q = [rcv_nxt |-> first, regions |-> e] /\ arrived = {} /\ delivered = 0
    BY <1>1, ReceiveAssumption DEF Init, Queue
  <1>4. TypeInv
    <2>1. delivered \in 0 .. StreamLen BY <1>3, ReceiveAssumption
    <2> QED BY <1>2, <1>3, <2>1 DEF TypeInv
  <1>5. q.rcv_nxt = first /\ q.regions = e BY <1>3
  <1>6. Plus(first, 0) = first
    <2>1. SeqSpace \in Nat /\ 0 < SeqSpace BY SeqSpaceAssumption
    <2>2. first \in Nat /\ first < SeqSpace BY <1>3, <2>1 DEF SeqNo
    <2>3. Plus(first, 0) = IF first + 0 < SeqSpace THEN first + 0 ELSE first + 0 - SeqSpace
      BY <1>3, <2>1, PlusValue
    <2> QED BY <2>2, <2>3
  <1>7. Shaped(first, e) /\ Ahead(first, e) BY <1>2 DEF Shaped, Ahead
  <1>8. Covered(first, e) = {} BY <1>2 DEF Covered
  <1>9. Accounted BY <1>3, <1>5, <1>8 DEF Accounted, Holds
  <1> QED BY <1>3, <1>4, <1>5, <1>6, <1>7, <1>9 DEF ReceiveInv, Canonical

LEMMA PlusPlus ==
  ASSUME NEW a \in SeqNo, NEW m \in Nat, NEW n \in Nat, m + n < SeqSpace
  PROVE  Plus(Plus(a, m), n) = Plus(a, m + n)
PROOF
  <1>1. SeqSpace \in Nat \ {0} BY SeqSpaceAssumption
  <1>2. a \in Nat /\ a < SeqSpace BY <1>1 DEF SeqNo
  <1>3. PICK b \in SeqNo : b = Plus(a, m) /\ b = IF a + m < SeqSpace THEN a + m ELSE a + m - SeqSpace
    BY <1>1, PlusValue
  <1>4. b \in Nat /\ b < SeqSpace BY <1>1 DEF SeqNo
  <1>5. Plus(b, n) = IF b + n < SeqSpace THEN b + n ELSE b + n - SeqSpace BY <1>1, PlusValue
  <1>6. PICK s \in Nat : s = m + n OBVIOUS
  <1>7. Plus(a, s) = IF a + s < SeqSpace THEN a + s ELSE a + s - SeqSpace BY <1>1, <1>6, PlusValue
  <1> QED BY <1>1, <1>2, <1>3, <1>4, <1>5, <1>6, <1>7

LEMMA PlusMinus ==
  ASSUME NEW a \in SeqNo, NEW b \in SeqNo
  PROVE  Plus(b, Minus(a, b)) = a
PROOF
  <1>1. SeqSpace \in Nat \ {0} BY SeqSpaceAssumption
  <1>2. a \in Nat /\ a < SeqSpace /\ b \in Nat /\ b < SeqSpace BY <1>1 DEF SeqNo
  <1>3. PICK m \in SeqNo : m = Minus(a, b) /\ m = IF b <= a THEN a - b ELSE a - b + SeqSpace
    BY MinusValue
  <1>4. m \in Nat /\ m < SeqSpace BY <1>1 DEF SeqNo
  <1>5. Plus(b, m) = IF b + m < SeqSpace THEN b + m ELSE b + m - SeqSpace BY <1>1, <1>4, PlusValue
  <1> QED BY <1>1, <1>2, <1>3, <1>4, <1>5

(* An acceptable segment of the stream lies at its offsets in the window. *)
LEMMA SegmentPlace ==
  ASSUME NEW f \in SeqNo, NEW d \in 0 .. StreamLen, NEW base, base = Plus(f, d),
         NEW lo \in 0 .. StreamLen, NEW hi \in 0 .. StreamLen, lo < hi,
         NEW seq, seq = Plus(f, lo), seqGE(seq, base),
         NEW end, end = Plus(seq, hi - lo), seqLE(end, Plus(base, RcvWnd))
  PROVE  /\ base \in SeqNo /\ seq \in SeqNo /\ end \in SeqNo
         /\ d <= lo /\ hi - d <= RcvWnd
         /\ Minus(seq, base) = lo - d /\ Minus(end, base) = hi - d
PROOF
  <1>1. /\ SeqSpace \in Nat \ {0} /\ Half \in Nat /\ SeqSpace = Half + Half
        /\ StreamLen \in Nat /\ StreamLen < Half /\ RcvWnd \in Nat /\ RcvWnd < Half
    BY SeqSpaceAssumption, HalfSpace, ReceiveAssumption DEF Half
  <1>2. /\ d \in Nat /\ lo \in Nat /\ hi \in Nat /\ d < Half /\ lo < Half /\ hi < Half
        /\ d < SeqSpace /\ lo < SeqSpace /\ hi < SeqSpace
    BY <1>1
  <1>3. base \in SeqNo /\ Minus(base, f) = d BY <1>2, AtDistance
  <1>4. seq \in SeqNo /\ Minus(seq, f) = lo BY <1>2, AtDistance
  <1>5. end \in SeqNo /\ Minus(end, f) = hi
    <2>1. PICK w \in Nat : w = hi - lo BY <1>2
    <2>2. lo + w = hi /\ lo + w < SeqSpace BY <1>2, <2>1
    <2>3. Plus(Plus(f, lo), w) = Plus(f, lo + w) BY <1>2, <2>2, PlusPlus
    <2>4. end = Plus(f, hi) BY <2>1, <2>2, <2>3
    <2> QED BY <1>2, <2>4, AtDistance
  <1>6. Minus(base, f) < Half /\ Minus(seq, f) < Half /\ Minus(end, f) < Half
    BY <1>2, <1>3, <1>4, <1>5
  <1>7. seqGE(seq, base) <=> Minus(seq, f) >= Minus(base, f) BY <1>3, <1>4, <1>6, Compare
  <1>8. d <= lo BY <1>2, <1>3, <1>4, <1>7
  <1>9. Minus(base, f) <= Minus(seq, f) /\ Minus(base, f) <= Minus(end, f)
    BY <1>2, <1>3, <1>4, <1>5, <1>8
  <1>10. Minus(seq, base) = lo - d
    <2>1. Minus(seq, base) = Minus(seq, f) - Minus(base, f) BY <1>3, <1>4, <1>6, <1>9, Compare
    <2> QED BY <1>3, <1>4, <2>1
  <1>11. Minus(end, base) = hi - d
    <2>1. Minus(end, base) = Minus(end, f) - Minus(base, f) BY <1>3, <1>5, <1>6, <1>9, Compare
    <2> QED BY <1>3, <1>5, <2>1
  <1>12. PICK e \in SeqNo : e = Plus(base, RcvWnd) /\ Minus(e, base) = RcvWnd
    BY <1>1, <1>3, AtDistance
  <1>13. Minus(e, base) < Half /\ Minus(end, base) < Half BY <1>1, <1>2, <1>8, <1>11, <1>12
  <1>14. seqLE(end, e) <=> Minus(end, base) <= Minus(e, base) BY <1>3, <1>5, <1>13, Compare
  <1>15. hi - d <= RcvWnd BY <1>11, <1>12, <1>14
  <1> QED BY <1>3, <1>4, <1>5, <1>8, <1>10, <1>11, <1>15

(* Segment text merged into the queue: seg holds the bytes lo .. hi - 1.   *)
LEMMA TextMerged ==
  ASSUME NEW base \in SeqNo, NEW list, Shaped(base, list), NEW d \in Nat,
         NEW bytes, Holds(bytes, d, base, list),
         NEW lo \in Nat, NEW hi \in Nat, d <= lo, lo < hi, hi - d <= RcvWnd,
         NEW seg \in Region, Minus(seg.begin, base) = lo - d, Minus(seg.end, base) = hi - d,
         NEW t, t = merge(list, seg)
  PROVE  /\ Shaped(base, t) /\ Len(t) # 0
         /\ Holds(bytes \cup lo .. (hi - 1), d, base, t)
PROOF
  <1>1. Minus(seg.begin, base) < Minus(seg.end, base) /\ Minus(seg.end, base) <= RcvWnd OBVIOUS
  <1>2. Shaped(base, t) /\ Grown(base, t, list, seg) BY <1>1, MergeShaped
  <1>3. \A x \in Nat : Inside(base, x, seg) <=> lo - d <= x /\ x < hi - d BY DEF Inside
  <1>4. Len(t) # 0
    <2>1. PICK x \in Nat : x = lo - d OBVIOUS
    <2>2. Inside(base, x, seg) BY <1>3, <2>1
    <2>3. x \in Covered(base, t) BY <1>2, <2>2 DEF Grown
    <2>4. \E k \in 1 .. Len(t) : Inside(base, x, t[k]) BY <2>3 DEF Covered
    <2> QED BY <2>4
  <1>5. ASSUME NEW x \in Nat
        PROVE  x \in bytes \cup lo .. (hi - 1) <=> x < d \/ (d <= x /\ x - d \in Covered(base, t))
    <2>1. x \in bytes <=> x < d \/ (d <= x /\ x - d \in Covered(base, list)) BY DEF Holds
    <2>2. CASE x < d BY <2>1, <2>2
    <2>3. CASE d <= x
      <3>1. PICK y \in Nat : y = x - d BY <2>3
      <3>2. y \in Covered(base, t) <=> y \in Covered(base, list) \/ Inside(base, y, seg)
        BY <1>2 DEF Grown
      <3>3. Inside(base, y, seg) <=> x \in lo .. (hi - 1) BY <1>3, <3>1
      <3>4. x \in bytes <=> y \in Covered(base, list) BY <2>1, <2>3, <3>1
      <3> QED BY <2>3, <3>1, <3>2, <3>3, <3>4
    <2> QED BY <2>2, <2>3
  <1> QED BY <1>2, <1>4, <1>5 DEF Holds

LEMMA AheadOrFirst ==
  ASSUME NEW base \in SeqNo, NEW list, Shaped(base, list), Len(list) # 0
  PROVE  /\ seqGE(base, list[1].begin) <=> Minus(list[1].begin, base) = 0
         /\ Minus(list[1].begin, base) # 0 => Ahead(base, list)
         /\ list[1] \in Region /\ list[1].end # base
PROOF
  <1>n. PICK n : n = Len(list) OBVIOUS
  <1>l. list \in Seq(Region) /\ n \in Nat \ {0} BY <1>n DEF Shaped
  <1>r. \A k \in 1 .. n : list[k] \in Region BY <1>l, <1>n
  <1>w. SeqSpace \in Nat \ {0} /\ RcvWnd \in Nat BY SeqSpaceAssumption, ReceiveAssumption
  <1>f. /\ \A k \in 1 .. n : /\ Minus(list[k].begin, base) < Minus(list[k].end, base)
                             /\ Minus(list[k].end, base) <= RcvWnd
        /\ \A k, m \in 1 .. n : k < m => Minus(list[k].end, base) < Minus(list[m].begin, base)
    BY <1>n DEF Shaped
  <1>1. \A k \in 1 .. n : Minus(list[k].begin, base) \in Nat /\ Minus(list[k].end, base) \in Nat
    <2> SUFFICES ASSUME NEW k \in 1 .. n
                 PROVE  Minus(list[k].begin, base) \in Nat /\ Minus(list[k].end, base) \in Nat
      OBVIOUS
    <2>1. list[k].begin \in SeqNo /\ list[k].end \in SeqNo BY <1>r DEF Region
    <2>2. Minus(list[k].begin, base) \in SeqNo /\ Minus(list[k].end, base) \in SeqNo
      BY <2>1, MinusValue
    <2> QED BY <1>w, <2>2 DEF SeqNo
  <1>2. 1 \in 1 .. n BY <1>l
  <1>3. PICK c \in SeqNo : c = list[1].begin BY <1>2, <1>r DEF Region
  <1>4. PICK e \in SeqNo : e = list[1].end BY <1>2, <1>r DEF Region
  <1>5. PICK b \in Nat : b = Minus(c, base) BY <1>1, <1>2, <1>3
  <1>6. PICK x \in Nat : x = Minus(e, base) BY <1>1, <1>2, <1>4
  <1>7. b < x /\ x <= RcvWnd BY <1>2, <1>3, <1>4, <1>5, <1>6, <1>f
  <1>8. Minus(base, base) = 0
    <2>1. base \in Nat BY <1>w DEF SeqNo
    <2>2. Minus(base, base) = IF base <= base THEN base - base ELSE base - base + SeqSpace
      BY MinusValue
    <2> QED BY <2>1, <2>2
  <1>9. seqGE(base, c) <=> b = 0
    <2>1. Minus(base, base) <= RcvWnd /\ Minus(c, base) <= RcvWnd BY <1>5, <1>7, <1>8, <1>w
    <2>2. seqGE(base, c) <=> Minus(base, base) >= Minus(c, base) BY <2>1, InWindow
    <2> QED BY <1>5, <1>8, <2>2
  <1>10. e # base BY <1>6, <1>7, <1>8
  <1>11. ASSUME b # 0 PROVE Ahead(base, list)
    <2>1. ASSUME NEW k \in 1 .. n PROVE 0 < Minus(list[k].begin, base)
      <3>1. CASE k = 1 BY <1>3, <1>5, <1>11, <3>1
      <3>2. CASE 1 < k
        <4>1. Minus(list[1].end, base) < Minus(list[k].begin, base) BY <1>2, <1>f, <3>2
        <4> QED BY <1>1, <1>2, <4>1
      <3> QED BY <1>l, <3>1, <3>2
    <2> QED BY <1>n, <2>1 DEF Ahead
  <1> QED BY <1>2, <1>3, <1>4, <1>5, <1>9, <1>10, <1>11, <1>r

(* Delivery: the base moves to the end of the first region. *)
LEMMA Moved ==
  ASSUME NEW bytes, NEW d \in Nat, NEW base, NEW list, Holds(bytes, d, base, list),
         NEW x \in Nat, NEW next, NEW rest,
         \A y \in Nat : y \in Covered(next, rest) <=> y + x \in Covered(base, list),
         \A y \in Nat : y < x => y \in Covered(base, list)
  PROVE  Holds(bytes, d + x, next, rest)
PROOF
  <1> SUFFICES ASSUME NEW y \in Nat
               PROVE  y \in bytes <=> y < d + x \/ (d + x <= y /\ y - (d + x) \in Covered(next, rest))
    BY DEF Holds
  <1>1. y \in bytes <=> y < d \/ (d <= y /\ y - d \in Covered(base, list)) BY DEF Holds
  <1>2. CASE y < d BY <1>1, <1>2
  <1>3. CASE d <= y /\ y < d + x
    <2>1. PICK z \in Nat : z = y - d BY <1>3
    <2>2. z \in Covered(base, list) BY <1>3, <2>1
    <2> QED BY <1>1, <1>3, <2>1, <2>2
  <1>4. CASE d + x <= y
    <2>1. PICK z \in Nat : z = y - (d + x) BY <1>4
    <2>2. z \in Covered(next, rest) <=> z + x \in Covered(base, list) OBVIOUS
    <2>3. z + x = y - d BY <2>1, <1>4
    <2> QED BY <1>1, <1>4, <2>1, <2>2, <2>3
  <1> QED BY <1>2, <1>3, <1>4

LEMMA ArriveStep ==
  ASSUME ReceiveInv, NEW lo \in 0 .. StreamLen, NEW hi \in 0 .. StreamLen, Arrive(lo, hi)
  PROVE  ReceiveInv' /\ delivered <= lo
PROOF
  <1>s. StreamLen \in Nat /\ RcvWnd \in Nat BY ReceiveAssumption
  <1>f. PICK f \in SeqNo : f = first BY DEF ReceiveInv, TypeInv
  <1>d. PICK d \in 0 .. StreamLen : d = delivered BY DEF ReceiveInv, TypeInv
  <1>b. PICK base : base = q.rcv_nxt OBVIOUS
  <1>l. PICK list : list = q.regions OBVIOUS
  <1>y. PICK bytes : bytes = arrived OBVIOUS
  <1>q. q = [rcv_nxt |-> base, regions |-> list] BY <1>b, <1>l DEF ReceiveInv, TypeInv
  <1>0. d \in Nat /\ lo \in Nat /\ hi \in Nat /\ d <= StreamLen BY <1>s
  <1>1. /\ base = Plus(f, d) /\ Shaped(base, list) /\ Ahead(base, list)
        /\ Holds(bytes, d, base, list) /\ bytes \subseteq 0 .. (StreamLen - 1)
    BY <1>f, <1>d, <1>b, <1>l, <1>y DEF ReceiveInv, TypeInv, Canonical, Accounted
  <1>2. PICK seq : seq = Plus(f, lo) OBVIOUS
  <1>3. PICK end : end = Plus(seq, hi - lo) OBVIOUS
  <1>4. lo < hi /\ seqGE(seq, base) /\ seqLE(end, Plus(base, RcvWnd))
    BY <1>f, <1>b, <1>2, <1>3 DEF Arrive, Acceptable
  <1>5. /\ base \in SeqNo /\ seq \in SeqNo /\ end \in SeqNo
        /\ d <= lo /\ hi - d <= RcvWnd
        /\ Minus(seq, base) = lo - d /\ Minus(end, base) = hi - d
    <2>1. base = Plus(f, d) BY <1>1
    <2> QED BY <1>2, <1>3, <1>4, <2>1, SegmentPlace
  <1>6. PICK seg \in Region : seg = [begin |-> seq, end |-> end] /\ seg.begin = seq /\ seg.end = end
    <2>1. PICK s : s = [begin |-> seq, end |-> end] OBVIOUS
    <2>2. s.begin = seq /\ s.end = end BY <2>1
    <2>3. s \in Region BY <1>5, <2>1 DEF Region
    <2> QED BY <2>1, <2>2, <2>3
  <1>7. PICK t : t = merge(list, seg) OBVIOUS
  <1>8. PICK grown : grown = bytes \cup lo .. (hi - 1) OBVIOUS
  <1>9. Shaped(base, t) /\ Len(t) # 0 /\ Holds(grown, d, base, t)
    <2>1. base \in SeqNo /\ d <= lo /\ hi - d <= RcvWnd BY <1>5
    <2>2. Minus(seg.begin, base) = lo - d BY <1>5, <1>6
    <2>3. Minus(seg.end, base) = hi - d BY <1>5, <1>6
    <2>4. Shaped(base, list) /\ Holds(bytes, d, base, list) BY <1>1
    <2>5. d \in Nat /\ lo \in Nat /\ hi \in Nat /\ lo < hi BY <1>0, <1>4
    <2>6. /\ Shaped(base, t) /\ Len(t) # 0
          /\ Holds(bytes \cup lo .. (hi - 1), d, base, t)
      BY <1>7, <2>1, <2>2, <2>3, <2>4, <2>5, TextMerged
    <2> QED BY <1>8, <2>6
  <1>10. grown \subseteq 0 .. (StreamLen - 1) BY <1>0, <1>1, <1>8, <1>s
  <1>11. /\ seqGE(base, t[1].begin) <=> Minus(t[1].begin, base) = 0
         /\ Minus(t[1].begin, base) # 0 => Ahead(base, t)
         /\ t[1] \in Region /\ t[1].end # base
    BY <1>5, <1>9, AheadOrFirst
  <1>12. PICK next : next = t[1].end OBVIOUS
  <1>13. PICK ins : ins = insertBytesFromSegment(q, seq, hi - lo) OBVIOUS
  <1>14. /\ ins = [rcv_nxt |-> IF seqGE(base, t[1].begin) THEN next ELSE base, regions |-> t]
         /\ ins.regions = t
         /\ ins.rcv_nxt = IF seqGE(base, t[1].begin) THEN next ELSE base
    BY <1>b, <1>l, <1>3, <1>6, <1>7, <1>12, <1>13 DEF insertBytesFromSegment, Queue
  <1>15. PICK ext : ext = Extract(ins, ins.rcv_nxt) OBVIOUS
  <1>16. /\ err' = "none" => arrived' = grown
         /\ err' # "none" => arrived' = bytes
    BY <1>y, <1>8 DEF Arrive
  <1>17. err = "none" BY DEF Arrive
  <1>18. IF ins.rcv_nxt = base
         THEN q' = ins /\ UNCHANGED <<first, delivered, err>>
         ELSE IF ext.ok
         THEN /\ q' = [ins EXCEPT !.regions = ext.rest]
              /\ delivered' = delivered + ext.octets
              /\ UNCHANGED <<first, err>>
         ELSE err' = "ASSERT(begin<end)" /\ UNCHANGED <<first, q, delivered>>
    BY <1>f, <1>b, <1>2, <1>13, <1>15 DEF Arrive, Text
  <1>19. first' = f BY <1>18, <1>f
  <1>20. t \in Seq(Region) BY <1>9 DEF Shaped
  <1>21. CASE Minus(t[1].begin, base) # 0
    <2>1. ins.rcv_nxt = base BY <1>11, <1>14, <1>21
    <2>2. q' = ins /\ delivered' = d /\ err' = err BY <1>18, <1>d, <2>1
    <2>3. arrived' = grown BY <1>16, <1>17, <2>2
    <2>4. q'.rcv_nxt = base /\ q'.regions = t BY <1>14, <2>1, <2>2
    <2>5. TypeInv'
      <3>1. q' \in [rcv_nxt : SeqNo, regions : Seq(Region)] BY <1>5, <1>14, <1>20, <2>1, <2>2
      <3> QED BY <1>10, <1>19, <2>2, <2>3, <3>1 DEF TypeInv
    <2>6. Ahead(base, t) BY <1>11, <1>21
    <2>7. Canonical' BY <1>1, <1>9, <1>19, <2>2, <2>4, <2>6 DEF Canonical
    <2>8. Accounted' BY <1>9, <2>2, <2>3, <2>4 DEF Accounted
    <2> QED BY <1>5, <1>d, <2>5, <2>7, <2>8 DEF ReceiveInv
  <1>22. CASE Minus(t[1].begin, base) = 0
    <2>1. ins.rcv_nxt = next /\ next # base BY <1>11, <1>12, <1>14, <1>22
    <2>2. PICK x : x = Minus(t[1].end, base) OBVIOUS
    <2>3. PICK rest : rest = SubSeq(t, 2, Len(t)) OBVIOUS
    <2>4. ext.octets = x /\ ext.rest = rest
      <3>1. base \in SeqNo BY <1>5
      <3>2. Shaped(base, t) /\ Len(t) # 0 BY <1>9
      <3>3. ins.regions = t BY <1>14
      <3>4. /\ Extract(ins, t[1].end).octets = x
            /\ Extract(ins, t[1].end).rest = SubSeq(t, 2, Len(t))
        BY <1>22, <2>2, <3>1, <3>2, <3>3, ExtractFirst
      <3> QED BY <1>12, <1>15, <2>1, <2>3, <3>4
    <2>5. /\ x \in Nat /\ 0 < x
          /\ next \in SeqNo /\ Shaped(next, rest) /\ Ahead(next, rest)
          /\ \A y \in Nat : y \in Covered(next, rest) <=> y + x \in Covered(base, t)
          /\ \A y \in Nat : y < x => y \in Covered(base, t)
      <3>1. base \in SeqNo BY <1>5
      <3>2. Shaped(base, t) BY <1>9
      <3>3. Len(t) # 0 BY <1>9
      <3>4. Stays(base, t, x, next, rest)
        BY <1>12, <1>22, <2>2, <2>3, <3>1, <3>2, <3>3, RestShaped
      <3> QED BY <3>4 DEF Stays
    <2>6. Holds(grown, d + x, next, rest)
      <3>1. Holds(grown, d, base, t) BY <1>9
      <3>2. d \in Nat /\ x \in Nat BY <1>0, <2>5
      <3>3. \A y \in Nat : y \in Covered(next, rest) <=> y + x \in Covered(base, t) BY <2>5
      <3>4. \A y \in Nat : y < x => y \in Covered(base, t) BY <2>5
      <3> QED BY <3>1, <3>2, <3>3, <3>4, Moved
    <2>7. d + x \in 0 .. StreamLen
      <3>1. PICK y \in Nat : y = d + x - 1 BY <1>0, <2>5
      <3>2. y < d + x BY <1>0, <2>5, <3>1
      <3>3. y \in grown BY <2>6, <3>2 DEF Holds
      <3>4. y \in 0 .. (StreamLen - 1) BY <1>10, <3>3
      <3> QED BY <1>0, <1>s, <2>5, <3>1, <3>4
    <2>8. next = Plus(f, d + x)
      <3>1. next = Plus(base, x) BY <1>5, <1>12, <2>2, <2>5, PlusMinus
      <3>2. d + x < SeqSpace
        <4>1. SeqSpace = Half + Half /\ StreamLen < Half /\ Half \in Nat
          BY HalfSpace, ReceiveAssumption DEF Half
        <4> QED BY <1>s, <2>7, <4>1
      <3>3. d \in Nat /\ x \in Nat BY <1>0, <2>5
      <3>4. Plus(Plus(f, d), x) = Plus(f, d + x) BY <3>2, <3>3, PlusPlus
      <3> QED BY <1>1, <3>1, <3>4
    <2>9. CASE ext.ok
      <3>1. /\ q' = [ins EXCEPT !.regions = rest] /\ delivered' = d + x /\ err' = err
        BY <1>18, <1>d, <2>1, <2>4, <2>9
      <3>2. arrived' = grown BY <1>16, <1>17, <3>1
      <3>3. q' = [rcv_nxt |-> next, regions |-> rest] BY <1>14, <2>1, <3>1
      <3>4. q'.rcv_nxt = next /\ q'.regions = rest BY <3>3
      <3>5. TypeInv'
        <4>1. rest \in Seq(Region) BY <2>5 DEF Shaped
        <4>2. q' \in [rcv_nxt : SeqNo, regions : Seq(Region)] BY <2>5, <3>3, <4>1
        <4> QED BY <1>10, <1>19, <2>7, <3>1, <3>2, <4>2 DEF TypeInv
      <3>6. Canonical' BY <1>19, <2>5, <2>8, <3>1, <3>4 DEF Canonical
      <3>7. Accounted' BY <2>6, <3>1, <3>2, <3>4 DEF Accounted
      <3> QED BY <1>5, <1>d, <3>5, <3>6, <3>7 DEF ReceiveInv
    <2>10. CASE ~ext.ok
      <3>1. err' = "ASSERT(begin<end)" /\ q' = q /\ delivered' = delivered
        BY <1>18, <2>1, <2>10
      <3>2. arrived' = arrived
        <4>1. err' # "none" BY <3>1
        <4> QED BY <1>16, <1>y, <4>1
      <3>3. first' = first BY <1>19, <1>f
      <3>4. TypeInv' BY <3>1, <3>2, <3>3 DEF ReceiveInv, TypeInv
      <3>5. Canonical' BY <3>1, <3>3 DEF ReceiveInv, Canonical
      <3>6. Accounted' BY <3>1, <3>2 DEF ReceiveInv, Accounted
      <3> QED BY <1>5, <1>d, <3>4, <3>5, <3>6 DEF ReceiveInv
    <2> QED BY <2>9, <2>10
  <1> QED BY <1>21, <1>22

(* The receive queue's invariant holds in every reachable state. *)
LEMMA ReceiveInvHolds == Spec => []ReceiveInv
PROOF
  <1>1. Init => ReceiveInv BY InitReceiveInv
  <1>2. ReceiveInv /\ [Next]_vars => ReceiveInv'
    <2> SUFFICES ASSUME ReceiveInv, [Next]_vars PROVE ReceiveInv' OBVIOUS
    <2>1. CASE Next
      <3>1. PICK lo \in 0 .. StreamLen, hi \in 0 .. StreamLen : Arrive(lo, hi) BY <2>1 DEF Next
      <3> QED BY <3>1, ArriveStep
    <2>2. CASE UNCHANGED vars
      BY <2>2 DEF vars, ReceiveInv, TypeInv, Canonical, Accounted
    <2> QED BY <2>1, <2>2
  <1> QED BY <1>1, <1>2, PTL DEF Spec

-----------------------------------------------------------------------------
(* The region list stays canonical, for every window, stream and size of   *)
(* the sequence number space: what merge, insertBytesFromSegment and       *)
(* extractTo rely on is what they leave behind.                            *)
THEOREM RegionsStayCanonical == Spec => []RegionsCanonical
PROOF
  <1>1. ReceiveInv => RegionsCanonical
    <2> SUFFICES ASSUME ReceiveInv PROVE RegionsCanonical OBVIOUS
    <2>1. /\ q.rcv_nxt = Plus(first, delivered)
          /\ Shaped(q.rcv_nxt, q.regions) /\ Ahead(q.rcv_nxt, q.regions)
          /\ q.regions \in Seq(Region)
      BY DEF ReceiveInv, TypeInv, Canonical
    <2>2. PICK n \in Nat : n = Len(q.regions) BY <2>1
    <2>3. ASSUME NEW i \in 1 .. n
          PROVE  /\ 0 < Minus(q.regions[i].begin, q.rcv_nxt)
                 /\ Minus(q.regions[i].begin, q.rcv_nxt) < Minus(q.regions[i].end, q.rcv_nxt)
                 /\ Minus(q.regions[i].end, q.rcv_nxt) <= RcvWnd
                 /\ i < n => Minus(q.regions[i].end, q.rcv_nxt)
                                < Minus(q.regions[i + 1].begin, q.rcv_nxt)
      <3>1. i < n => i + 1 \in 1 .. n /\ i < i + 1 OBVIOUS
      <3> QED BY <2>1, <2>2, <3>1 DEF Shaped, Ahead
    <2> QED BY <2>1, <2>2, <2>3 DEF RegionsCanonical
  <1> QED BY <1>1, ReceiveInvHolds, PTL

LEMMA DeliveredIsPrefix ==
  ASSUME NEW n \in 0 .. StreamLen, NEW bytes, NEW base, NEW list,
         Holds(bytes, n, base, list),
         base \in SeqNo, Shaped(base, list), Ahead(base, list)
  PROVE  n = Reassembly!Prefix(bytes)
PROOF
  <1>s. StreamLen \in Nat BY ReceiveAssumption
  <1>n. n \in Nat BY <1>s
  <1>1. \A x \in Nat : x \in bytes <=> x < n \/ (n <= x /\ x - n \in Covered(base, list))
    BY DEF Holds
  <1>2. 0 \notin Covered(base, list)
    <2> SUFFICES ASSUME 0 \in Covered(base, list) PROVE FALSE OBVIOUS
    <2>1. PICK k \in 1 .. Len(list) : Inside(base, 0, list[k])
      BY DEF Covered
    <2>2. Minus(list[k].begin, base) <= 0 /\ 0 < Minus(list[k].begin, base)
      BY <2>1 DEF Inside, Ahead
    <2>3. list[k] \in Region BY DEF Shaped
    <2>4. PICK v \in SeqNo : v = Minus(list[k].begin, base) BY <2>3, MinusValue DEF Region
    <2>5. v \in Int /\ v <= 0 /\ 0 < v BY <2>2, <2>4, SeqSpaceAssumption DEF SeqNo
    <2> QED BY <2>5
  <1>3. n \notin bytes
    <2>1. n - n = 0 /\ ~(n < n) BY <1>n
    <2> QED BY <1>1, <1>2, <1>n, <2>1
  <1>4. 0 .. (n - 1) \subseteq bytes BY <1>1, <1>n
  <1> DEFINE P(m) == 0 .. (m - 1) \subseteq bytes /\ m \notin bytes
  <1>5. P(n) BY <1>3, <1>4
  <1>6. ASSUME NEW m \in 0 .. StreamLen, P(m) PROVE m = n
    <2>1. m \in Nat BY <1>s
    <2>2. ~(m < n)
      <3> SUFFICES ASSUME m < n PROVE FALSE OBVIOUS
      <3>1. m \in 0 .. (n - 1) BY <1>n, <2>1
      <3> QED BY <1>4, <1>6, <3>1
    <2>3. ~(n < m)
      <3> SUFFICES ASSUME n < m PROVE FALSE OBVIOUS
      <3>1. n \in 0 .. (m - 1) BY <1>n, <2>1
      <3> QED BY <1>3, <1>6, <3>1
    <2> QED BY <1>n, <2>1, <2>2, <2>3
  <1>7. Reassembly!Prefix(bytes) = CHOOSE m \in 0 .. StreamLen : P(m) BY DEF Reassembly!Prefix
  <1> HIDE DEF P
  <1>8. \E m \in 0 .. StreamLen : P(m) BY <1>5
  <1>9. (CHOOSE m \in 0 .. StreamLen : P(m)) \in 0 .. StreamLen
        /\ P(CHOOSE m \in 0 .. StreamLen : P(m))
    BY <1>8
  <1> QED BY <1>6, <1>7, <1>9

(* The region list implements reassembly: every step of the queue delivers *)
(* exactly the bytes that complete the prefix, or none when it stops at    *)
(* the assertion.                                                          *)
THEOREM QueueReassembles == Spec => ImplementsReassembly
PROOF
  <1>1. Init => Reassembly!AbsInit BY DEF Init, Reassembly!AbsInit
  <1>2. ReceiveInv /\ ReceiveInv' /\ [Next]_vars => [Reassembly!AbsNext]_(Reassembly!absVars)
    <2> SUFFICES ASSUME ReceiveInv, ReceiveInv', [Next]_vars
                 PROVE  [Reassembly!AbsNext]_(Reassembly!absVars)
      OBVIOUS
    <2>1. CASE Next
      <3>1. PICK lo \in 0 .. StreamLen, hi \in 0 .. StreamLen : Arrive(lo, hi) BY <2>1 DEF Next
      <3>2. delivered <= lo /\ lo < hi BY <3>1, ArriveStep DEF Arrive
      <3>3. CASE err' = "none"
        <4>1. arrived' = arrived \cup lo .. (hi - 1) BY <3>1, <3>3 DEF Arrive
        <4>2. delivered' = Reassembly!Prefix(arrived')
          <5>1. PICK n \in 0 .. StreamLen : n = delivered' BY DEF ReceiveInv, TypeInv
          <5>2. PICK bytes : bytes = arrived' OBVIOUS
          <5>3. PICK base : base = q'.rcv_nxt OBVIOUS
          <5>4. PICK list : list = q'.regions OBVIOUS
          <5>5. /\ Holds(bytes, n, base, list)
                /\ base \in SeqNo /\ Shaped(base, list) /\ Ahead(base, list)
            BY <5>1, <5>2, <5>3, <5>4 DEF ReceiveInv, TypeInv, Canonical, Accounted
          <5>6. n = Reassembly!Prefix(bytes) BY <5>5, DeliveredIsPrefix
          <5> QED BY <5>1, <5>2, <5>6
        <4> QED BY <3>2, <4>1, <4>2 DEF Reassembly!AbsNext, Reassembly!Receive
      <3>4. CASE err' # "none"
        <4>1. arrived' = arrived BY <3>1, <3>4 DEF Arrive
        <4>2. delivered' = delivered
          <5>1. err = "none" BY <3>1 DEF Arrive
          <5> QED BY <3>1, <3>4, <5>1 DEF Arrive, Text
        <4> QED BY <4>1, <4>2 DEF Reassembly!absVars
      <3> QED BY <3>3, <3>4
    <2>2. CASE UNCHANGED vars BY <2>2 DEF vars, Reassembly!absVars
    <2> QED BY <2>1, <2>2
  <1> QED BY <1>1, <1>2, ReceiveInvHolds, PTL DEF Spec, ImplementsReassembly, Reassembly!AbsSpec
=============================================================================
