----------------------------- MODULE Dsi_proofs -----------------------------
(***************************************************************************)
(* Proofs about Dsi, for all topologies, traffic and numbers of packets.   *)
(***************************************************************************)
EXTENDS Dsi, Iteration, FiniteSetTheorems, SequenceTheorems

-----------------------------------------------------------------------------
(* Sums and products over rows. *)

Ints(n, f) == f \in [1 .. n -> Int]
Positives(n, f) == f \in [1 .. n -> Nat \ {0}]

LEMMA SumExists ==
  ASSUME NEW n \in Nat, NEW f, Ints(n, f)
  PROVE  \E g \in [0 .. n -> Int] : g = [i \in 0 .. n |-> IF i = 0 THEN 0 ELSE g[i - 1] + f[i]]
PROOF
  <1>1. PICK step : step = [i \in 1 .. n |-> [y \in Int |-> y + f[i]]] OBVIOUS
  <1>2. PICK S : S = Int OBVIOUS
  <1>3. PICK z : z = 0 OBVIOUS
  <1>4. step \in [1 .. n -> [S -> S]] /\ z \in S BY <1>2, <1>1, <1>3 DEF Ints
  <1>5. \A i \in 1 .. n, y \in Int : step[i][y] = y + f[i] BY <1>1
  <1>6. PICK g \in [0 .. n -> S] : g[0] = z /\ \A i \in 1 .. n : g[i] = step[i][g[i - 1]]
    BY <1>4, LoopExists
  <1>7. ASSUME NEW i \in 0 .. n
        PROVE  g[i] = IF i = 0 THEN 0 ELSE g[i - 1] + f[i]
    <2>1. CASE i = 0 BY <1>6, <1>3, <2>1
    <2>2. CASE i # 0
      <3>1. i \in 1 .. n /\ i - 1 \in 0 .. n BY <2>2
      <3> QED BY <1>5, <1>6, <1>2, <2>2, <3>1
    <2> QED BY <2>1, <2>2
  <1> QED BY <1>6, <1>7, <1>2

LEMMA ProductExists ==
  ASSUME NEW n \in Nat, NEW f, Positives(n, f)
  PROVE  \E g \in [0 .. n -> Nat \ {0}] :
            g = [i \in 0 .. n |-> IF i = 0 THEN 1 ELSE g[i - 1] * f[i]]
PROOF
  <1>1. PICK S : S = Nat \ {0} OBVIOUS
  <1>2. PICK step : step = [i \in 1 .. n |-> [y \in S |-> y * f[i]]] OBVIOUS
  <1>3. PICK z : z = 1 OBVIOUS
  <1>4. step \in [1 .. n -> [S -> S]] /\ z \in S
    <2>1. \A i \in 1 .. n, y \in S : y * f[i] \in S
      <3>1. \A y \in S, x \in S : y * x \in S BY <1>1
      <3> QED BY <3>1, <1>1 DEF Positives
    <2> QED BY <2>1, <1>1, <1>2, <1>3
  <1>5. \A i \in 1 .. n, y \in S : step[i][y] = y * f[i] BY <1>2
  <1>6. PICK g \in [0 .. n -> S] : g[0] = z /\ \A i \in 1 .. n : g[i] = step[i][g[i - 1]]
    BY <1>4, LoopExists
  <1>7. ASSUME NEW i \in 0 .. n
        PROVE  g[i] = IF i = 0 THEN 1 ELSE g[i - 1] * f[i]
    <2>1. CASE i = 0 BY <1>6, <1>3, <2>1
    <2>2. CASE i # 0
      <3>1. i \in 1 .. n /\ i - 1 \in 0 .. n BY <2>2
      <3> QED BY <1>5, <1>6, <2>2, <3>1
    <2> QED BY <2>1, <2>2
  <1> QED BY ZenonT(40), <1>6, <1>7, <1>1

LEMMA SumIs ==
  ASSUME NEW n \in Nat, NEW f \in [1 .. n -> Int]
  PROVE  \E g \in [0 .. n -> Int] :
            g[0] = 0 /\ (\A i \in 1 .. n : g[i] = g[i - 1] + f[i]) /\ SumTo(f, n) = g[n]
PROOF
  <1> DEFINE P(g) == g = [i \in 0 .. n |-> IF i = 0 THEN 0 ELSE g[i - 1] + f[i]]
             sum == CHOOSE g : P(g)
  <1>1. SumTo(f, n) = sum[n] BY DEF SumTo
  <1>2. \E g \in [0 .. n -> Int] : P(g) BY SumExists DEF Ints
  <1>3. P(sum) BY <1>2, Zenon
  <1> HIDE DEF sum
  <1>4. DOMAIN sum = 0 .. n /\ sum[0] = 0 /\ \A i \in 1 .. n : sum[i] = sum[i - 1] + f[i]
    BY <1>3
  <1>5. PICK g \in [0 .. n -> Int] : P(g) BY <1>2
  <1>6. g[0] = 0 /\ \A i \in 1 .. n : g[i] = g[i - 1] + f[i] BY <1>5
  <1> DEFINE D == {i \in 0 .. n : sum[i] = g[i]}
  <1>7. \A i \in 0 .. n : i \in D
    <2>1. 0 \in D BY <1>4, <1>6
    <2>2. ASSUME NEW i \in 1 .. n, i - 1 \in D PROVE i \in D BY <2>2, <1>4, <1>6
    <2> HIDE DEF D
    <2> QED BY <2>1, <2>2, UpTo
  <1>8. sum[n] = g[n] BY <1>7
  <1> QED BY <1>1, <1>6, <1>8

LEMMA ProductIs ==
  ASSUME NEW n \in Nat, NEW f \in [1 .. n -> Nat \ {0}]
  PROVE  ProductTo(f, n) \in Nat \ {0}
PROOF
  <1> DEFINE P(g) == g = [i \in 0 .. n |-> IF i = 0 THEN 1 ELSE g[i - 1] * f[i]]
             product == CHOOSE g : P(g)
  <1>1. ProductTo(f, n) = product[n] BY DEF ProductTo
  <1>2. \E g \in [0 .. n -> Nat \ {0}] : P(g) BY ProductExists DEF Positives
  <1>3. P(product) BY <1>2, Zenon
  <1> HIDE DEF product
  <1>4. PICK g \in [0 .. n -> Nat \ {0}] : P(g) BY <1>2
  <1>5. product[0] = 1 /\ g[0] = 1
        /\ \A i \in 1 .. n : product[i] = product[i - 1] * f[i] /\ g[i] = g[i - 1] * f[i]
    BY <1>3, <1>4
  <1> DEFINE D == {i \in 0 .. n : product[i] = g[i]}
  <1>6. \A i \in 0 .. n : i \in D
    <2>1. 0 \in D BY <1>5
    <2>2. ASSUME NEW i \in 1 .. n, i - 1 \in D PROVE i \in D BY <2>2, <1>5
    <2> HIDE DEF D
    <2> QED BY <2>1, <2>2, UpTo
  <1>7. product[n] = g[n] BY <1>6
  <1> QED BY <1>1, <1>4, <1>7

LEMMA SumType ==
  ASSUME NEW n \in Nat, NEW f \in [1 .. n -> Int]
  PROVE  SumTo(f, n) \in Int
PROOF
  <1>1. PICK g \in [0 .. n -> Int] : SumTo(f, n) = g[n] BY SumIs
  <1> QED BY <1>1

(* One more element. *)
LEMMA SumMore ==
  ASSUME NEW n \in Nat, NEW f \in [1 .. n -> Int], NEW h \in [1 .. n + 1 -> Int],
         \A i \in 1 .. n : h[i] = f[i]
  PROVE  SumTo(h, n + 1) = SumTo(f, n) + h[n + 1]
PROOF
  <1>1. PICK g \in [0 .. n -> Int] : g[0] = 0 /\ (\A i \in 1 .. n : g[i] = g[i - 1] + f[i])
                                     /\ SumTo(f, n) = g[n]
    BY SumIs
  <1>2. n + 1 \in Nat OBVIOUS
  <1>3. PICK k \in [0 .. n + 1 -> Int] : k[0] = 0 /\ (\A i \in 1 .. n + 1 : k[i] = k[i - 1] + h[i])
                                         /\ SumTo(h, n + 1) = k[n + 1]
    BY <1>2, SumIs
  <1> DEFINE D == {i \in 0 .. n : k[i] = g[i]}
  <1>4. \A i \in 0 .. n : i \in D
    <2>1. 0 \in D BY <1>1, <1>3
    <2>2. ASSUME NEW i \in 1 .. n, i - 1 \in D PROVE i \in D
      <3>1. i \in 1 .. n + 1 OBVIOUS
      <3> QED BY <2>2, <3>1, <1>1, <1>3
    <2> HIDE DEF D
    <2> QED BY <2>1, <2>2, UpTo
  <1>5. k[n] = g[n] BY <1>4
  <1>6. k[n + 1] = k[n] + h[n + 1] BY <1>3
  <1> QED BY <1>1, <1>3, <1>5, <1>6

(* Another value of one element. *)
LEMMA SumChange ==
  ASSUME NEW n \in Nat, NEW f \in [1 .. n -> Int], NEW h \in [1 .. n -> Int], NEW j \in 1 .. n,
         \A i \in 1 .. n : i # j => h[i] = f[i]
  PROVE  SumTo(h, n) = SumTo(f, n) + h[j] - f[j]
PROOF
  <1>1. PICK g \in [0 .. n -> Int] : g[0] = 0 /\ (\A i \in 1 .. n : g[i] = g[i - 1] + f[i])
                                     /\ SumTo(f, n) = g[n]
    BY SumIs
  <1>2. PICK k \in [0 .. n -> Int] : k[0] = 0 /\ (\A i \in 1 .. n : k[i] = k[i - 1] + h[i])
                                     /\ SumTo(h, n) = k[n]
    BY SumIs
  <1> DEFINE D == {i \in 0 .. n : k[i] = g[i] + (IF i < j THEN 0 ELSE h[j] - f[j])}
  <1>3. \A i \in 0 .. n : i \in D
    <2>1. 0 \in D BY <1>1, <1>2
    <2>2. ASSUME NEW i \in 1 .. n, i - 1 \in D PROVE i \in D
      <3>1. k[i] = k[i - 1] + h[i] /\ g[i] = g[i - 1] + f[i] BY <1>1, <1>2
      <3>2. k[i - 1] = g[i - 1] + (IF i - 1 < j THEN 0 ELSE h[j] - f[j]) BY <2>2
      <3>3. i - 1 \in 0 .. n /\ g[i - 1] \in Int /\ k[i - 1] \in Int /\ f[i] \in Int /\ h[i] \in Int
            /\ f[j] \in Int /\ h[j] \in Int
        OBVIOUS
      <3>4. k[i] = g[i] + (IF i < j THEN 0 ELSE h[j] - f[j])
        <4>1. PICK gi \in Int, ki \in Int, fi \in Int, hi \in Int, fj \in Int, hj \in Int :
                 /\ gi = g[i - 1] /\ ki = k[i - 1] /\ fi = f[i] /\ hi = h[i]
                 /\ fj = f[j] /\ hj = h[j]
          BY <3>3
        <4>2. k[i] = ki + hi /\ g[i] = gi + fi BY <3>1, <4>1
        <4>3. ki = gi + (IF i - 1 < j THEN 0 ELSE hj - fj) BY <3>2, <4>1
        <4>4. CASE i < j
          <5>1. hi = fi /\ i - 1 < j BY <4>1, <4>4
          <5> QED BY <4>2, <4>3, <4>4, <5>1
        <4>5. CASE i = j
          <5>1. hi = hj /\ fi = fj /\ i - 1 < j BY <4>1, <4>5
          <5>2. k[i] = (gi + fi) + (hj - fj) BY <4>2, <4>3, <5>1
          <5> QED BY <4>1, <4>2, <4>5, <5>2
        <4>6. CASE i > j
          <5>1. hi = fi /\ ~(i - 1 < j) BY <4>1, <4>6
          <5>2. k[i] = (gi + fi) + (hj - fj) BY <4>2, <4>3, <5>1
          <5> QED BY <4>1, <4>2, <4>6, <5>2
        <4> QED BY <4>4, <4>5, <4>6
      <3> QED BY <3>4
    <2> HIDE DEF D
    <2> QED BY <2>1, <2>2, UpTo
  <1>4. k[n] = g[n] + (IF n < j THEN 0 ELSE h[j] - f[j]) BY <1>3
  <1> QED BY <1>1, <1>2, <1>4

(* A positive sum has a positive element. *)
LEMMA SumPositive ==
  ASSUME NEW n \in Nat, NEW f \in [1 .. n -> Int], \A i \in 1 .. n : f[i] <= 0
  PROVE  SumTo(f, n) <= 0
PROOF
  <1>1. PICK g \in [0 .. n -> Int] : g[0] = 0 /\ (\A i \in 1 .. n : g[i] = g[i - 1] + f[i])
                                     /\ SumTo(f, n) = g[n]
    BY SumIs
  <1> DEFINE D == {i \in 0 .. n : g[i] <= 0}
  <1>2. \A i \in 0 .. n : i \in D
    <2>1. 0 \in D BY <1>1
    <2>2. ASSUME NEW i \in 1 .. n, i - 1 \in D PROVE i \in D BY <2>2, <1>1
    <2> HIDE DEF D
    <2> QED BY <2>1, <2>2, UpTo
  <1> QED BY <1>1, <1>2

LEMMA SumAtLeast ==
  ASSUME NEW n \in Nat, NEW f \in [1 .. n -> Nat], NEW j \in 1 .. n
  PROVE  f[j] <= SumTo(f, n)
PROOF
  <1>1. f \in [1 .. n -> Int] OBVIOUS
  <1>2. PICK g \in [0 .. n -> Int] : g[0] = 0 /\ (\A i \in 1 .. n : g[i] = g[i - 1] + f[i])
                                     /\ SumTo(f, n) = g[n]
    BY <1>1, SumIs
  <1> DEFINE D == {i \in 0 .. n : g[i] >= 0 /\ (i >= j => g[i] >= f[j])}
  <1>3. \A i \in 0 .. n : i \in D
    <2>1. 0 \in D BY <1>2
    <2>2. ASSUME NEW i \in 1 .. n, i - 1 \in D PROVE i \in D
      <3>1. g[i] = g[i - 1] + f[i] /\ f[i] \in Nat /\ f[j] \in Nat /\ g[i - 1] \in Int /\ g[i] \in Int
            /\ g[i - 1] >= 0 /\ (i - 1 >= j => g[i - 1] >= f[j])
        BY <2>2, <1>2
      <3>2. CASE i = j BY <3>1, <3>2
      <3>3. CASE i # j BY SMTT(30), <3>1, <3>3
      <3> QED BY <3>2, <3>3
    <2> HIDE DEF D
    <2> QED BY <2>1, <2>2, UpTo
  <1> QED BY <1>2, <1>3

-----------------------------------------------------------------------------
(* Rows. *)

Lefts(rs) == [r \in DOMAIN rs |-> rs[r].left]

(* The same routes, and nothing sent along them. *)
SameRoutes(rs, qs) ==
    /\ qs \in Seq(Row) /\ Len(qs) = Len(rs)
    /\ \A r \in 1 .. Len(rs) : qs[r].up = rs[r].up /\ qs[r].sent = rs[r].sent

SameLeft(rs, qs) == \A r \in 1 .. Len(rs) : qs[r].left = rs[r].left

LEMMA RowsAre ==
  ASSUME NEW rs \in Seq(Row)
  PROVE  /\ Len(rs) \in Nat /\ DOMAIN rs = 1 .. Len(rs)
         /\ \A r \in 1 .. Len(rs) : rs[r] \in Row
         /\ Lefts(rs) \in [1 .. Len(rs) -> Int]
         /\ Left(rs) = SumTo(Lefts(rs), Len(rs)) /\ Left(rs) \in Int
PROOF
  <1>1. Len(rs) \in Nat /\ DOMAIN rs = 1 .. Len(rs) OBVIOUS
  <1>2. \A r \in 1 .. Len(rs) : rs[r] \in Row BY <1>1
  <1>3. \A r \in 1 .. Len(rs) : rs[r].left \in Int BY <1>2 DEF Row
  <1>4. Lefts(rs) \in [1 .. Len(rs) -> Int] BY <1>1, <1>3 DEF Lefts
  <1>5. Left(rs) = SumTo(Lefts(rs), Len(rs)) BY DEF Left, Lefts
  <1>6. Left(rs) \in Int BY <1>1, <1>4, <1>5, SumType
  <1> QED BY <1>1, <1>2, <1>4, <1>5, <1>6

LEMMA SameLeftSum ==
  ASSUME NEW rs \in Seq(Row), NEW qs \in Seq(Row), Len(qs) = Len(rs), SameLeft(rs, qs)
  PROVE  Left(qs) = Left(rs)
PROOF
  <1>1. Lefts(qs) = Lefts(rs) BY RowsAre DEF Lefts, SameLeft
  <1> QED BY <1>1, RowsAre

LEMMA PartType ==
  ASSUME NEW rs \in Seq(Row), NEW S, S \subseteq DOMAIN rs, NEW r \in S, NEW n \in Int
  PROVE  Part(rs, S, r, n) \in Int
PROOF
  <1> DEFINE others(j) == [i \in DOMAIN rs |-> IF i \in S \ {j} THEN rs[i].load ELSE 1]
             inverse == [j \in DOMAIN rs |->
                            IF j \in S THEN ProductTo(others(j), Len(rs)) ELSE 0]
             total == SumTo(inverse, Len(rs))
  <1>1. CASE \E i \in S : rs[i].load = 0 BY <1>1 DEF Part
  <1>2. CASE \A i \in S : rs[i].load # 0
    <2>1. Len(rs) \in Nat /\ DOMAIN rs = 1 .. Len(rs) OBVIOUS
    <2>2. \A i \in S : rs[i].load \in Nat \ {0}
      <3>1. \A i \in S : rs[i] \in Row BY RowsAre
      <3> QED BY <1>2, <3>1 DEF Row
    <2>3. ASSUME NEW j \in S PROVE ProductTo(others(j), Len(rs)) \in Nat \ {0}
      <3>1. others(j) \in [1 .. Len(rs) -> Nat \ {0}] BY <2>1, <2>2
      <3> HIDE DEF others
      <3> QED BY <2>1, <3>1, ProductIs
    <2> HIDE DEF others
    <2>4. inverse \in [1 .. Len(rs) -> Nat] /\ inverse[r] \in Nat \ {0} BY <2>1, <2>3
    <2> HIDE DEF inverse
    <2>5. inverse[r] <= total /\ total \in Int
      <3>1. r \in 1 .. Len(rs) BY <2>1
      <3>2. inverse \in [1 .. Len(rs) -> Int] BY <2>4
      <3> QED BY <2>1, <2>4, <3>1, <3>2, SumAtLeast, SumType
    <2> HIDE DEF total
    <2>6. PICK x \in Int, y \in Nat \ {0} : y = 2 * total /\ x = 2 * n * inverse[r] + total
      <3>1. inverse[r] \in Int /\ total \in Nat \ {0} BY <2>4, <2>5
      <3>2. 2 * n * inverse[r] \in Int BY <3>1
      <3>3. 2 * n * inverse[r] + total \in Int BY <3>1, <3>2
      <3>4. 2 * total \in Nat \ {0} BY <3>1
      <3> QED BY <3>3, <3>4
    <2>7. Part(rs, S, r, n) = IF (\E i \in S : rs[i].load = 0) \/ 2 * n * inverse[r] <= total THEN 0
                              ELSE (2 * n * inverse[r] + total) \div (2 * total)
      BY DEF Part, total, inverse, others
    <2>8. x \div y \in Int OBVIOUS
    <2> QED BY <2>6, <2>7, <2>8
  <1> QED BY <1>1, <1>2

(* Rows with a new field. *)
LEMMA RowLeft ==
  ASSUME NEW x \in Row, NEW n \in Int, NEW y, y = [x EXCEPT !.left = n]
  PROVE  y \in Row /\ y.left = n /\ y.up = x.up /\ y.sent = x.sent /\ y.load = x.load
PROOF
  <1>1. y.left = n /\ y.up = x.up /\ y.sent = x.sent /\ y.load = x.load BY DEF Row
  <1>2. y \in Row BY DEF Row
  <1> QED BY <1>1, <1>2

LEMMA RowLoad ==
  ASSUME NEW x \in Row, NEW n \in Nat, NEW y, y = [x EXCEPT !.load = n]
  PROVE  y \in Row /\ y.left = x.left /\ y.up = x.up /\ y.sent = x.sent
PROOF
  <1>1. y.left = x.left /\ y.up = x.up /\ y.sent = x.sent BY DEF Row
  <1>2. y \in Row BY DEF Row
  <1> QED BY <1>1, <1>2

LEMMA RowVia ==
  ASSUME NEW x \in Row, NEW via \in Seq(scenario.asked), NEW y, y = [x EXCEPT !.via = via]
  PROVE  y \in Row /\ y.left = x.left /\ y.up = x.up /\ y.sent = x.sent
PROOF
  <1>1. y.left = x.left /\ y.up = x.up /\ y.sent = x.sent BY DEF Row
  <1>2. y \in Row BY DEF Row
  <1> QED BY <1>1, <1>2

LEMMA RowAssigned ==
  ASSUME NEW x \in Row, NEW n \in Int, NEW y, y = [x EXCEPT !.assigned = n]
  PROVE  y \in Row /\ y.left = x.left /\ y.up = x.up /\ y.sent = x.sent
PROOF
  <1>1. y.left = x.left /\ y.up = x.up /\ y.sent = x.sent BY DEF Row
  <1>2. y \in Row BY DEF Row
  <1> QED BY <1>1, <1>2

LEMMA RowNew ==
  ASSUME NEW up \in Route, NEW via \in Seq(scenario.asked), NEW x, x = NewRow(up, via)
  PROVE  x \in Row /\ x.up = up /\ x.left = 0 /\ x.sent = 0
PROOF
  BY DEF NewRow, Row

(* The rows are routes of R, none of which is there twice. *)
Distinct(rs, R) ==
    /\ \A r \in 1 .. Len(rs) : rs[r].up \in R
    /\ \A r, q \in 1 .. Len(rs) : rs[r].up = rs[q].up => r = q

LEMMA SameDistinct ==
  ASSUME NEW R, NEW rs \in Seq(Row), NEW qs, SameRoutes(rs, qs), Distinct(rs, R)
  PROVE  Distinct(qs, R)
PROOF
  BY DEF SameRoutes, Distinct

LEMMA RowOfIs ==
  ASSUME NEW R, NEW rs \in Seq(Row), Distinct(rs, R), NEW up
  PROVE  \/ RowOf(rs, up) = {} /\ \A r \in 1 .. Len(rs) : rs[r].up # up
         \/ \E k \in 1 .. Len(rs) : rs[k].up = up /\ RowOf(rs, up) = {k}
PROOF
  <1>1. RowOf(rs, up) = {r \in 1 .. Len(rs) : rs[r].up = up} BY RowsAre DEF RowOf
  <1> QED BY <1>1 DEF Distinct

(* A new row. *)
Adds(rs, qs, up, left) ==
    /\ qs \in Seq(Row) /\ Len(qs) = Len(rs) + 1
    /\ \A r \in 1 .. Len(rs) : qs[r] = rs[r]
    /\ qs[Len(rs) + 1].up = up /\ qs[Len(rs) + 1].left = left
    /\ \A r \in 1 .. Len(rs) : rs[r].up # up

LEMMA AddRow ==
  ASSUME NEW rs \in Seq(Row), NEW up \in Route, NEW x \in Row, x.up = up,
         NEW left \in Int, x.left = left,
         \A r \in 1 .. Len(rs) : rs[r].up # up
  PROVE  Adds(rs, Append(rs, x), up, left) /\ Left(Append(rs, x)) = Left(rs) + left
PROOF
  <1>1. PICK qs : qs = Append(rs, x) OBVIOUS
  <1>2. qs \in Seq(Row) /\ Len(qs) = Len(rs) + 1 /\ qs[Len(rs) + 1] = x
        /\ \A r \in 1 .. Len(rs) : qs[r] = rs[r]
    BY <1>1
  <1>3. Adds(rs, qs, up, left) BY <1>2 DEF Adds
  <1>4. PICK n \in Nat : n = Len(rs) OBVIOUS
  <1>5. Lefts(rs) \in [1 .. n -> Int] /\ Lefts(qs) \in [1 .. n + 1 -> Int] BY <1>2, <1>4, RowsAre
  <1>6. \A i \in 1 .. n : Lefts(qs)[i] = Lefts(rs)[i]
    <2>1. DOMAIN qs = 1 .. n + 1 /\ DOMAIN rs = 1 .. n BY <1>2, <1>4, RowsAre
    <2> QED BY <1>2, <1>4, <2>1 DEF Lefts
  <1>7. Lefts(qs)[n + 1] = left BY <1>2, <1>4, RowsAre DEF Lefts
  <1>8. SumTo(Lefts(qs), n + 1) = SumTo(Lefts(rs), n) + left BY <1>5, <1>6, <1>7, SumMore
  <1>9. Left(qs) = SumTo(Lefts(qs), n + 1) /\ Left(rs) = SumTo(Lefts(rs), n)
    BY <1>2, <1>4, RowsAre
  <1> QED BY <1>1, <1>3, <1>8, <1>9

LEMMA AddDistinct ==
  ASSUME NEW R, NEW rs \in Seq(Row), NEW qs, NEW up \in R, NEW left, Adds(rs, qs, up, left),
         Distinct(rs, R)
  PROVE  Distinct(qs, R)
PROOF
  <1>1. PICK n \in Nat : n = Len(rs) OBVIOUS
  <1>2. \A r \in 1 .. n + 1 : r \in 1 .. n \/ r = n + 1 OBVIOUS
  <1> QED BY <1>1, <1>2 DEF Adds, Distinct

(* One row differs in its packets left. *)
LEMMA ChangeOne ==
  ASSUME NEW rs \in Seq(Row), NEW qs \in Seq(Row), Len(qs) = Len(rs), NEW k \in 1 .. Len(rs),
         \A r \in 1 .. Len(rs) : r # k => qs[r].left = rs[r].left
  PROVE  Left(qs) = Left(rs) + qs[k].left - rs[k].left
PROOF
  <1>1. PICK n \in Nat : n = Len(rs) OBVIOUS
  <1>2. Lefts(rs) \in [1 .. n -> Int] /\ Lefts(qs) \in [1 .. n -> Int] BY <1>1, RowsAre
  <1>3. DOMAIN qs = 1 .. n /\ DOMAIN rs = 1 .. n BY <1>1, RowsAre
  <1>4. \A i \in 1 .. n : i # k => Lefts(qs)[i] = Lefts(rs)[i] BY <1>1, <1>3 DEF Lefts
  <1>5. Lefts(qs)[k] = qs[k].left /\ Lefts(rs)[k] = rs[k].left BY <1>1, <1>3 DEF Lefts
  <1>6. SumTo(Lefts(qs), n) = SumTo(Lefts(rs), n) + Lefts(qs)[k] - Lefts(rs)[k]
    BY <1>1, <1>2, <1>4, SumChange
  <1> QED BY <1>1, <1>5, <1>6, RowsAre

LEMMA FillHashIs ==
  ASSUME NEW R, NEW rs \in Seq(Row), Distinct(rs, R), NEW up \in Route, NEW qs, qs = FillHash(rs, up)
  PROVE  /\ Adds(rs, qs, up, -1) \/ SameRoutes(rs, qs)
         /\ \A r \in 1 .. Len(rs) : qs[r].left <= rs[r].left
         /\ qs \in Seq(Row) /\ Left(qs) = Left(rs) - 1
         /\ \A r \in 1 .. Len(rs) : qs[r].sent = rs[r].sent
PROOF
  <1>1. CASE RowOf(rs, up) = {} /\ \A r \in 1 .. Len(rs) : rs[r].up # up
    <2>1. PICK x : x = [NewRow(up, <<>>) EXCEPT !.left = -1] OBVIOUS
    <2>2. x \in Row /\ x.up = up /\ x.left = -1
      <3>1. <<>> \in Seq(scenario.asked) OBVIOUS
      <3>2. PICK y : y = NewRow(up, <<>>) OBVIOUS
      <3>3. y \in Row /\ y.up = up BY <3>1, <3>2, RowNew
      <3>4. x = [y EXCEPT !.left = -1] /\ -1 \in Int BY <2>1, <3>2
      <3> QED BY ZenonT(40), <3>3, <3>4, RowLeft
    <2>3. qs = Append(rs, x) BY <1>1, <2>1 DEF FillHash
    <2>4. Adds(rs, qs, up, -1) /\ Left(qs) = Left(rs) + (-1) BY <1>1, <2>2, <2>3, AddRow
    <2>5. \A r \in 1 .. Len(rs) : rs[r] \in Row /\ rs[r].left \in Int BY RowsAre DEF Row
    <2>6. Left(rs) \in Int BY RowsAre
    <2> QED BY SMTT(30), <2>4, <2>5, <2>6 DEF Adds
  <1>2. CASE \E k \in 1 .. Len(rs) : rs[k].up = up /\ RowOf(rs, up) = {k}
    <2>1. PICK k \in 1 .. Len(rs) : RowOf(rs, up) = {k} BY <1>2
    <2>2. qs = [r \in DOMAIN rs |-> IF r \in {k} THEN [rs[r] EXCEPT !.left = @ - 1] ELSE rs[r]]
      BY <2>1 DEF FillHash
    <2>3. DOMAIN rs = 1 .. Len(rs) /\ Len(rs) \in Nat /\ \A r \in 1 .. Len(rs) : rs[r] \in Row
      BY RowsAre
    <2>4. \A r \in 1 .. Len(rs) : r # k => qs[r] = rs[r] BY <2>2, <2>3
    <2>5. qs[k] = [rs[k] EXCEPT !.left = @ - 1] BY <2>2, <2>3
    <2>6. qs[k] \in Row /\ qs[k].left = rs[k].left - 1 /\ qs[k].up = rs[k].up
          /\ qs[k].sent = rs[k].sent /\ rs[k].left \in Int
      <3>1. rs[k].left - 1 \in Int /\ rs[k].left \in Int /\ rs[k] \in Row BY SMTT(30), <2>3 DEF Row
      <3>2. qs[k] = [rs[k] EXCEPT !.left = rs[k].left - 1] BY <2>5
      <3> QED BY <3>1, <3>2, RowLeft
    <2>7. \A r \in 1 .. Len(rs) : qs[r] \in Row /\ qs[r].up = rs[r].up /\ qs[r].sent = rs[r].sent
      BY <2>3, <2>4, <2>6
    <2>8. qs \in Seq(Row) /\ Len(qs) = Len(rs)
      <3>1. qs \in [1 .. Len(rs) -> Row] BY <2>2, <2>3, <2>7
      <3> QED BY <2>3, <3>1
    <2>9. SameRoutes(rs, qs) BY <2>7, <2>8 DEF SameRoutes
    <2>10. Left(qs) = Left(rs) + qs[k].left - rs[k].left BY <2>4, <2>8, ChangeOne
    <2>11. Left(rs) \in Int BY RowsAre
    <2>12. \A r \in 1 .. Len(rs) : qs[r].left <= rs[r].left
      <3>1. \A r \in 1 .. Len(rs) : rs[r].left \in Int BY <2>3 DEF Row
      <3> QED BY <2>4, <2>6, <3>1
    <2> QED BY <2>6, <2>7, <2>8, <2>9, <2>10, <2>11, <2>12
  <1> QED BY <1>1, <1>2, RowOfIs

LEMMA FillProbeIs ==
  ASSUME NEW R, NEW rs \in Seq(Row), Distinct(rs, R), NEW up \in Route,
         NEW via \in Seq(scenario.asked), NEW qs, qs = FillProbe(rs, up, via)
  PROVE  /\ Adds(rs, qs, up, 0) \/ SameRoutes(rs, qs)
         /\ SameLeft(rs, qs)
         /\ qs \in Seq(Row) /\ Left(qs) = Left(rs)
         /\ \A r \in 1 .. Len(rs) : qs[r].sent = rs[r].sent
PROOF
  <1>1. CASE RowOf(rs, up) = {} /\ \A r \in 1 .. Len(rs) : rs[r].up # up
    <2>1. PICK x : x = NewRow(up, via) OBVIOUS
    <2>2. x \in Row /\ x.up = up /\ x.left = 0 BY <2>1, RowNew
    <2>3. qs = Append(rs, x) BY <1>1, <2>1 DEF FillProbe
    <2>4. Adds(rs, qs, up, 0) /\ Left(qs) = Left(rs) + 0 BY <1>1, <2>2, <2>3, AddRow
    <2>5. Left(rs) \in Int BY RowsAre
    <2> QED BY <2>4, <2>5 DEF Adds, SameLeft
  <1>2. CASE \E k \in 1 .. Len(rs) : rs[k].up = up /\ RowOf(rs, up) = {k}
    <2>1. PICK k \in 1 .. Len(rs) : RowOf(rs, up) = {k} BY <1>2
    <2>2. qs = [r \in DOMAIN rs |-> IF r \in {k} THEN [rs[r] EXCEPT !.via = via] ELSE rs[r]]
      BY <2>1 DEF FillProbe
    <2>3. DOMAIN rs = 1 .. Len(rs) /\ Len(rs) \in Nat /\ \A r \in 1 .. Len(rs) : rs[r] \in Row
      BY RowsAre
    <2>4. \A r \in 1 .. Len(rs) : r # k => qs[r] = rs[r] BY <2>2, <2>3
    <2>5. qs[k] = [rs[k] EXCEPT !.via = via] BY <2>2, <2>3
    <2>6. qs[k] \in Row /\ qs[k].left = rs[k].left /\ qs[k].up = rs[k].up
          /\ qs[k].sent = rs[k].sent
      BY <2>3, <2>5, RowVia
    <2>7. \A r \in 1 .. Len(rs) : qs[r] \in Row /\ qs[r].up = rs[r].up /\ qs[r].sent = rs[r].sent
      BY <2>3, <2>4, <2>6
    <2>8. qs \in Seq(Row) /\ Len(qs) = Len(rs)
      <3>1. qs \in [1 .. Len(rs) -> Row] BY <2>2, <2>3, <2>7
      <3> QED BY <2>3, <3>1
    <2>9. SameRoutes(rs, qs) BY <2>7, <2>8 DEF SameRoutes
    <2>10. SameLeft(rs, qs) BY <2>4, <2>6 DEF SameLeft
    <2> QED BY <2>7, <2>8, <2>9, <2>10, SameLeftSum
  <1> QED BY <1>1, <1>2, RowOfIs

LEMMA RecordLoadIs ==
  ASSUME NEW rs \in Seq(Row), NEW switch, NEW load \in Int, NEW qs,
         qs = RecordLoad(rs, switch, load)
  PROVE  SameRoutes(rs, qs) /\ SameLeft(rs, qs) /\ Left(qs) = Left(rs)
PROOF
  <1>1. DOMAIN rs = 1 .. Len(rs) /\ Len(rs) \in Nat /\ \A r \in 1 .. Len(rs) : rs[r] \in Row
    BY RowsAre
  <1>2. ASSUME NEW r \in 1 .. Len(rs)
        PROVE  qs[r] \in Row /\ qs[r].up = rs[r].up /\ qs[r].sent = rs[r].sent /\ qs[r].left = rs[r].left
    <2>1. qs[r] = rs[r] \/ (qs[r] = [rs[r] EXCEPT !.load = load] /\ rs[r].load <= load)
      BY <1>1 DEF RecordLoad
    <2>2. rs[r] \in Row BY <1>1
    <2>3. rs[r].load <= load => load \in Nat BY <2>2 DEF Row
    <2> QED BY <2>1, <2>2, <2>3, RowLoad
  <1>3. qs \in Seq(Row) /\ Len(qs) = Len(rs)
    <2>1. qs \in [1 .. Len(rs) -> Row] BY <1>1, <1>2 DEF RecordLoad
    <2> QED BY <1>1, <2>1
  <1>4. SameRoutes(rs, qs) /\ SameLeft(rs, qs) BY <1>2, <1>3 DEF SameRoutes, SameLeft
  <1> QED BY <1>3, <1>4, SameLeftSum

(* A row with most packets left, and one with fewest. *)
Most(rs, r, n) == r \in 1 .. n /\ \A q \in 1 .. n :
    rs[r].left > rs[q].left \/ (rs[r].left = rs[q].left /\ r <= q)
Fewest(rs, r, n) == r \in 1 .. n /\ \A q \in 1 .. n :
    rs[r].left < rs[q].left \/ (rs[r].left = rs[q].left /\ r <= q)

LEMMA MostExists ==
  ASSUME NEW rs \in Seq(Row), Len(rs) > 0
  PROVE  \E r : Most(rs, r, Len(rs))
PROOF
  <1>1. PICK n \in Nat : n = Len(rs) OBVIOUS
  <1>2. \A r \in 1 .. n : rs[r].left \in Int BY <1>1, RowsAre DEF Row
  <1> DEFINE D == {i \in 0 .. n : i > 0 => \E r : Most(rs, r, i)}
  <1>3. \A i \in 0 .. n : i \in D
    <2>1. 0 \in D OBVIOUS
    <2>2. ASSUME NEW i \in 1 .. n, i - 1 \in D PROVE i \in D
      <3>1. CASE i = 1
        <4>1. Most(rs, 1, 1) BY <1>2, <3>1 DEF Most
        <4> QED BY <3>1, <4>1
      <3>2. CASE i > 1
        <4>1. PICK r : Most(rs, r, i - 1) BY <2>2, <3>2
        <4>2. r \in 1 .. i - 1 /\ \A q \in 1 .. i - 1 :
                rs[r].left > rs[q].left \/ (rs[r].left = rs[q].left /\ r <= q)
          BY <4>1 DEF Most
        <4>3. \A q \in 1 .. i : q \in 1 .. i - 1 \/ q = i OBVIOUS
        <4>4. CASE rs[r].left >= rs[i].left
          <5>1. Most(rs, r, i) BY <1>2, <4>2, <4>3, <4>4 DEF Most
          <5> QED BY <5>1
        <4>5. CASE rs[r].left < rs[i].left
          <5>1. Most(rs, i, i) BY <1>2, <4>2, <4>3, <4>5 DEF Most
          <5> QED BY <5>1
        <4> QED BY <1>2, <4>2, <4>4, <4>5
      <3> QED BY <3>1, <3>2
    <2> HIDE DEF D
    <2> QED BY <2>1, <2>2, UpTo
  <1> QED BY <1>1, <1>3

LEMMA FewestExists ==
  ASSUME NEW rs \in Seq(Row), Len(rs) > 0
  PROVE  \E r : Fewest(rs, r, Len(rs))
PROOF
  <1>1. PICK n \in Nat : n = Len(rs) OBVIOUS
  <1>2. \A r \in 1 .. n : rs[r].left \in Int BY <1>1, RowsAre DEF Row
  <1> DEFINE D == {i \in 0 .. n : i > 0 => \E r : Fewest(rs, r, i)}
  <1>3. \A i \in 0 .. n : i \in D
    <2>1. 0 \in D OBVIOUS
    <2>2. ASSUME NEW i \in 1 .. n, i - 1 \in D PROVE i \in D
      <3>1. CASE i = 1
        <4>1. Fewest(rs, 1, 1) BY <1>2, <3>1 DEF Fewest
        <4> QED BY <3>1, <4>1
      <3>2. CASE i > 1
        <4>1. PICK r : Fewest(rs, r, i - 1) BY <2>2, <3>2
        <4>2. r \in 1 .. i - 1 /\ \A q \in 1 .. i - 1 :
                rs[r].left < rs[q].left \/ (rs[r].left = rs[q].left /\ r <= q)
          BY <4>1 DEF Fewest
        <4>3. \A q \in 1 .. i : q \in 1 .. i - 1 \/ q = i OBVIOUS
        <4>4. CASE rs[r].left <= rs[i].left
          <5>1. Fewest(rs, r, i) BY <1>2, <4>2, <4>3, <4>4 DEF Fewest
          <5> QED BY <5>1
        <4>5. CASE rs[r].left > rs[i].left
          <5>1. Fewest(rs, i, i) BY <1>2, <4>2, <4>3, <4>5 DEF Fewest
          <5> QED BY <5>1
        <4> QED BY <1>2, <4>2, <4>4, <4>5
      <3> QED BY <3>1, <3>2
    <2> HIDE DEF D
    <2> QED BY <2>1, <2>2, UpTo
  <1> QED BY <1>1, <1>3

LEMMA posi_maxIs ==
  ASSUME NEW rs \in Seq(Row), Len(rs) > 0
  PROVE  posi_max(rs) \in 1 .. Len(rs)
PROOF
  <1>1. DOMAIN rs = 1 .. Len(rs) BY RowsAre
  <1>2. \E r \in DOMAIN rs : \A q \in DOMAIN rs :
            rs[r].left > rs[q].left \/ (rs[r].left = rs[q].left /\ r <= q)
    BY <1>1, MostExists DEF Most
  <1> QED BY <1>1, <1>2, Zenon DEF posi_max

LEMMA posi_minIs ==
  ASSUME NEW rs \in Seq(Row), Len(rs) > 0
  PROVE  posi_min(rs) \in 1 .. Len(rs)
PROOF
  <1>1. DOMAIN rs = 1 .. Len(rs) BY RowsAre
  <1>2. \E r \in DOMAIN rs : \A q \in DOMAIN rs :
            rs[r].left < rs[q].left \/ (rs[r].left = rs[q].left /\ r <= q)
    BY <1>1, FewestExists DEF Fewest
  <1> QED BY <1>1, <1>2, Zenon DEF posi_min

LEMMA DividedIs ==
  ASSUME NEW rs \in Seq(Row), NEW qs, qs = Divided(rs)
  PROVE  SameRoutes(rs, qs)
PROOF
  <1>1. DOMAIN rs = 1 .. Len(rs) /\ Len(rs) \in Nat /\ \A r \in 1 .. Len(rs) : rs[r] \in Row
    BY RowsAre
  <1>2. ASSUME NEW r \in 1 .. Len(rs)
        PROVE  qs[r] \in Row /\ qs[r].up = rs[r].up /\ qs[r].sent = rs[r].sent
    <2>1. PICK n : n = Part(rs, DOMAIN rs, r, NUM_PACKETS) OBVIOUS
    <2>2. n \in Int
      <3>1. NUM_PACKETS \in Int /\ r \in DOMAIN rs BY <1>1, NumPacketsAssumption
      <3> QED BY <2>1, <3>1, PartType
    <2>3. qs[r] = [rs[r] EXCEPT !.left = Share(rs[r], n)] BY <1>1, <2>1 DEF Divided
    <2>4. rs[r] \in Row /\ rs[r].left \in Int BY <1>1 DEF Row
    <2>5. Share(rs[r], n) \in Int BY <2>2, <2>4 DEF Share, AtLeast0
    <2> QED BY <2>3, <2>4, <2>5, RowLeft
  <1>3. qs \in Seq(Row) /\ Len(qs) = Len(rs)
    <2>1. qs \in [1 .. Len(rs) -> Row] BY <1>1, <1>2 DEF Divided
    <2> QED BY <1>1, <2>1
  <1> QED BY <1>2, <1>3 DEF SameRoutes

(* The packets left on row k are changed. *)
LeftSet(rs, k, n, qs) == qs = [rs EXCEPT ![k] = [rs[k] EXCEPT !.left = n]]

LEMMA ChangeLeft ==
  ASSUME NEW rs \in Seq(Row), NEW k \in 1 .. Len(rs), NEW n \in Int, NEW qs, LeftSet(rs, k, n, qs)
  PROVE  /\ SameRoutes(rs, qs) /\ qs[k].left = n
         /\ \A r \in 1 .. Len(rs) : r # k => qs[r] = rs[r]
         /\ Left(qs) = Left(rs) + n - rs[k].left
PROOF
  <1>1. DOMAIN rs = 1 .. Len(rs) /\ Len(rs) \in Nat /\ \A r \in 1 .. Len(rs) : rs[r] \in Row
    BY RowsAre
  <1>2. \A r \in 1 .. Len(rs) : r # k => qs[r] = rs[r] BY <1>1 DEF LeftSet
  <1>3. qs[k] = [rs[k] EXCEPT !.left = n] BY <1>1 DEF LeftSet
  <1>4. qs[k] \in Row /\ qs[k].left = n /\ qs[k].up = rs[k].up /\ qs[k].sent = rs[k].sent
    BY <1>1, <1>3, RowLeft
  <1>5. \A r \in 1 .. Len(rs) : qs[r] \in Row /\ qs[r].up = rs[r].up /\ qs[r].sent = rs[r].sent
    BY <1>1, <1>2, <1>4
  <1>6. qs \in Seq(Row) /\ Len(qs) = Len(rs)
    <2>1. qs \in [1 .. Len(rs) -> Row] BY <1>1, <1>5 DEF LeftSet
    <2> QED BY <1>1, <2>1
  <1>7. SameRoutes(rs, qs) BY <1>5, <1>6 DEF SameRoutes
  <1>8. Left(qs) = Left(rs) + qs[k].left - rs[k].left BY <1>2, <1>6, ChangeOne
  <1> QED BY <1>2, <1>4, <1>7, <1>8

LEMMA CorrectedIs ==
  ASSUME NEW rs \in Seq(Row), Len(rs) > 0, NEW surplus \in Int, NEW qs, qs = Corrected(rs, surplus)
  PROVE  SameRoutes(rs, qs) /\ Left(qs) = Left(rs) - surplus
PROOF
  <1>1. Left(rs) \in Int /\ \A r \in 1 .. Len(rs) : rs[r].left \in Int BY RowsAre DEF Row
  <1>2. ASSUME NEW k \in 1 .. Len(rs), qs = [rs EXCEPT ![k].left = @ - surplus]
        PROVE  SameRoutes(rs, qs) /\ Left(qs) = Left(rs) - surplus
    <2>1. PICK n \in Int : n = rs[k].left - surplus BY <1>1
    <2>2. LeftSet(rs, k, n, qs) BY <1>2, <2>1 DEF LeftSet
    <2>3. SameRoutes(rs, qs) /\ Left(qs) = Left(rs) + n - rs[k].left BY <2>2, ChangeLeft
    <2> QED BY <1>1, <2>1, <2>3
  <1>3. CASE surplus > 0
    <2>1. PICK k : k = posi_max(rs) OBVIOUS
    <2> QED BY <1>2, <1>3, <2>1, posi_maxIs DEF Corrected
  <1>4. CASE surplus < 0
    <2>1. PICK k : k = posi_min(rs) OBVIOUS
    <2>2. k \in 1 .. Len(rs) BY <2>1, posi_minIs
    <2>3. ~(surplus > 0) BY <1>4
    <2>4. qs = [rs EXCEPT ![k].left = @ - surplus] BY <1>4, <2>1, <2>3 DEF Corrected
    <2> QED BY <1>2, <2>2, <2>4
  <1>5. CASE surplus = 0
    <2>1. qs = rs BY <1>5 DEF Corrected
    <2>2. SameRoutes(rs, rs) BY DEF SameRoutes
    <2> QED BY <1>1, <1>5, <2>1, <2>2
  <1> QED BY <1>3, <1>4, <1>5

LEMMA AssignedIs ==
  ASSUME NEW rs \in Seq(Row), NEW qs, qs = Assigned(rs)
  PROVE  SameRoutes(rs, qs) /\ Left(qs) = Left(rs)
PROOF
  <1>1. DOMAIN rs = 1 .. Len(rs) /\ Len(rs) \in Nat /\ \A r \in 1 .. Len(rs) : rs[r] \in Row
    BY RowsAre
  <1>2. ASSUME NEW r \in 1 .. Len(rs)
        PROVE  qs[r] \in Row /\ qs[r].up = rs[r].up /\ qs[r].sent = rs[r].sent /\ qs[r].left = rs[r].left
    <2>1. rs[r] \in Row /\ rs[r].left \in Int BY <1>1 DEF Row
    <2>2. qs[r] = [rs[r] EXCEPT !.assigned = rs[r].left] BY <1>1 DEF Assigned
    <2> QED BY <2>1, <2>2, RowAssigned
  <1>3. qs \in Seq(Row) /\ Len(qs) = Len(rs)
    <2>1. qs \in [1 .. Len(rs) -> Row] BY <1>1, <1>2 DEF Assigned
    <2> QED BY <1>1, <2>1
  <1>4. SameRoutes(rs, qs) /\ SameLeft(rs, qs) BY <1>2, <1>3 DEF SameRoutes, SameLeft
  <1> QED BY <1>3, <1>4, SameLeftSum

LEMMA SameTwice ==
  ASSUME NEW rs, NEW qs, NEW xs, SameRoutes(rs, qs), SameRoutes(qs, xs)
  PROVE  SameRoutes(rs, xs)
PROOF
  BY DEF SameRoutes

(* The distribution adds NUM_PACKETS to what is left, whatever the shares. *)
LEMMA FillIs ==
  ASSUME NEW rs \in Seq(Row), Len(rs) > 0, NEW qs, qs = fill_delay_load_matrix(rs)
  PROVE  SameRoutes(rs, qs) /\ Left(qs) = Left(rs) + NUM_PACKETS
PROOF
  <1>1. PICK ds : ds = Divided(rs) OBVIOUS
  <1>2. PICK surplus : surplus = Left(ds) - Left(rs) - NUM_PACKETS OBVIOUS
  <1>3. PICK cs : cs = Corrected(ds, surplus) OBVIOUS
  <1>4. qs = Assigned(cs) BY <1>1, <1>2, <1>3 DEF fill_delay_load_matrix, CorrectedFor
  <1>5. SameRoutes(rs, ds) BY <1>1, DividedIs
  <1>6. ds \in Seq(Row) /\ Len(ds) > 0 BY <1>5 DEF SameRoutes
  <1>7. Left(ds) \in Int /\ Left(rs) \in Int /\ NUM_PACKETS \in Int
    BY <1>6, RowsAre, NumPacketsAssumption
  <1>8. surplus \in Int BY <1>2, <1>7
  <1>9. SameRoutes(ds, cs) /\ Left(cs) = Left(ds) - surplus BY <1>3, <1>6, <1>8, CorrectedIs
  <1>10. cs \in Seq(Row) BY <1>9 DEF SameRoutes
  <1>11. SameRoutes(cs, qs) /\ Left(qs) = Left(cs) BY <1>4, <1>10, AssignedIs
  <1>12. SameRoutes(rs, qs) BY <1>5, <1>9, <1>11, SameTwice
  <1> QED BY <1>2, <1>7, <1>9, <1>11, <1>12

(* A failed route is closed, and stays closed. *)
LEMMA adjustIs ==
  ASSUME NEW rs \in Seq(Row), NEW k \in 1 .. Len(rs), NEW qs, qs = adjust_packet_count(rs, k)
  PROVE  /\ SameRoutes(rs, qs) /\ qs[k].left = -1
         /\ \A r \in 1 .. Len(rs) : rs[r].left = -1 => qs[r].left = -1
PROOF
  <1>1. DOMAIN rs = 1 .. Len(rs) /\ Len(rs) \in Nat /\ \A r \in 1 .. Len(rs) : rs[r] \in Row
    BY RowsAre
  <1>2. PICK n : n = rs[k].left OBVIOUS
  <1>3. PICK open : open = {r \in DOMAIN rs \ {k} : rs[r].left # -1} OBVIOUS
  <1>4. PICK xs : xs = [rs EXCEPT ![k] = [rs[k] EXCEPT !.left = -1]] OBVIOUS
  <1>5. qs = GiveTo(xs, open, n) BY <1>2, <1>3, <1>4 DEF adjust_packet_count
  <1>6. n \in Int BY <1>1, <1>2 DEF Row
  <1>7. SameRoutes(rs, xs) /\ xs[k].left = -1 /\ \A r \in 1 .. Len(rs) : r # k => xs[r] = rs[r]
    <2>1. -1 \in Int /\ LeftSet(rs, k, -1, xs) BY <1>4 DEF LeftSet
    <2> QED BY <2>1, ChangeLeft
  <1>8. xs \in Seq(Row) /\ Len(xs) = Len(rs) BY <1>7 DEF SameRoutes
  <1>9. DOMAIN xs = 1 .. Len(xs) /\ \A r \in 1 .. Len(xs) : xs[r] \in Row BY <1>8, RowsAre
  <1>10. open \subseteq DOMAIN xs BY <1>1, <1>3, <1>8, <1>9
  <1>11. ASSUME NEW r \in 1 .. Len(xs)
         PROVE  /\ qs[r] \in Row /\ qs[r].up = xs[r].up /\ qs[r].sent = xs[r].sent
                /\ r \notin open => qs[r] = xs[r]
    <2>1. CASE r \in open
      <3>1. PICK m : m = Part(xs, open, r, n) OBVIOUS
      <3>2. m \in Int BY <1>6, <1>8, <1>10, <2>1, <3>1, PartType
      <3>3. qs[r] = IF m # 0 THEN [xs[r] EXCEPT !.left = AtLeast0(@ + m)] ELSE xs[r]
        BY <1>5, <1>9, <2>1, <3>1 DEF GiveTo
      <3>4. xs[r] \in Row /\ xs[r].left \in Int BY <1>9 DEF Row
      <3>5. PICK l \in Int : l = AtLeast0(xs[r].left + m) BY <3>2, <3>4 DEF AtLeast0
      <3>6. qs[r] = xs[r] \/ qs[r] = [xs[r] EXCEPT !.left = l] BY <3>3, <3>5
      <3> QED BY <2>1, <3>4, <3>6, RowLeft
    <2>2. CASE r \notin open BY <1>5, <1>9, <2>2 DEF GiveTo
    <2> QED BY <2>1, <2>2
  <1>12. qs \in Seq(Row) /\ Len(qs) = Len(xs)
    <2>1. DOMAIN qs = 1 .. Len(xs) BY <1>5, <1>9 DEF GiveTo
    <2>2. qs = [r \in 1 .. Len(xs) |-> qs[r]] BY <1>5, <1>9 DEF GiveTo
    <2>3. qs \in [1 .. Len(xs) -> Row] BY <1>11, <2>2
    <2> QED BY <1>8, <2>1, <2>3
  <1>13. SameRoutes(xs, qs) BY <1>11, <1>12 DEF SameRoutes
  <1>14. SameRoutes(rs, qs) BY <1>7, <1>13, SameTwice
  <1>15. qs[k].left = -1 BY <1>3, <1>7, <1>8, <1>11
  <1>16. \A r \in 1 .. Len(rs) : rs[r].left = -1 => qs[r].left = -1
    BY <1>3, <1>7, <1>8, <1>11, <1>15
  <1> QED BY <1>14, <1>15, <1>16

Closed(rs, aggregate) == \A r \in 1 .. Len(rs) : rs[r].up[1] = aggregate => rs[r].left = -1

Closer(rs, aggregate) ==
    [i \in 1 .. Len(rs) |-> [y \in {qs \in Seq(Row) : SameRoutes(rs, qs)} |->
        IF rs[i].up[1] = aggregate THEN adjust_packet_count(y, i) ELSE y]]

LEMMA CloserIs ==
  ASSUME NEW rs \in Seq(Row), NEW aggregate
  PROVE  /\ Closer(rs, aggregate) \in [1 .. Len(rs) -> [{qs \in Seq(Row) : SameRoutes(rs, qs)} ->
                                                         {qs \in Seq(Row) : SameRoutes(rs, qs)}]]
         /\ rs \in {qs \in Seq(Row) : SameRoutes(rs, qs)}
PROOF
  <1>1. ASSUME NEW i \in 1 .. Len(rs), NEW y \in Seq(Row), SameRoutes(rs, y)
        PROVE  adjust_packet_count(y, i) \in {qs \in Seq(Row) : SameRoutes(rs, qs)}
    <2>1. PICK qs : qs = adjust_packet_count(y, i) OBVIOUS
    <2>2. Len(y) = Len(rs) BY <1>1 DEF SameRoutes
    <2>3. SameRoutes(y, qs) BY <2>1, <2>2, adjustIs
    <2>4. SameRoutes(rs, qs) /\ qs \in Seq(Row) BY <1>1, <2>3, SameTwice DEF SameRoutes
    <2> QED BY <2>1, <2>4
  <1>2. SameRoutes(rs, rs) BY DEF SameRoutes
  <1> QED BY <1>1, <1>2 DEF Closer

(* The function CloseRoutes is defined with. *)
Closing(rs, aggregate, g) ==
    g = [r \in 0 .. Len(rs) |->
            IF r = 0 THEN rs
            ELSE IF rs[r].up[1] = aggregate THEN adjust_packet_count(g[r - 1], r)
            ELSE g[r - 1]]

LEMMA CloseExists ==
  ASSUME NEW rs \in Seq(Row), NEW aggregate
  PROVE  \E g : /\ Closing(rs, aggregate, g)
                /\ \A r \in 0 .. Len(rs) : g[r] \in Seq(Row) /\ SameRoutes(rs, g[r])
PROOF
  <1>1. PICK n \in Nat : n = Len(rs) OBVIOUS
  <1>2. PICK S : S = {qs \in Seq(Row) : SameRoutes(rs, qs)} OBVIOUS
  <1>3. PICK step : step = Closer(rs, aggregate) OBVIOUS
  <1>4. step \in [1 .. n -> [S -> S]] /\ rs \in S BY <1>1, <1>2, <1>3, CloserIs
  <1>5. \A i \in 1 .. n, y \in S :
            step[i][y] = IF rs[i].up[1] = aggregate THEN adjust_packet_count(y, i) ELSE y
    BY <1>1, <1>2, <1>3 DEF Closer
  <1>6. PICK g \in [0 .. n -> S] : g[0] = rs /\ \A i \in 1 .. n : g[i] = step[i][g[i - 1]]
    BY SMTT(30), <1>4, LoopExists
  <1>7. ASSUME NEW i \in 0 .. n
        PROVE  g[i] = IF i = 0 THEN rs
                      ELSE IF rs[i].up[1] = aggregate THEN adjust_packet_count(g[i - 1], i)
                      ELSE g[i - 1]
    <2>1. CASE i = 0 BY <1>6, <2>1
    <2>2. CASE i # 0
      <3>1. i \in 1 .. n /\ i - 1 \in 0 .. n BY <2>2
      <3> QED BY <1>5, <1>6, <2>2, <3>1
    <2> QED BY <2>1, <2>2
  <1>8. g = [i \in 0 .. n |-> g[i]] BY <1>6
  <1>9. \A i \in 0 .. n : g[i] \in Seq(Row) /\ SameRoutes(rs, g[i]) BY <1>6, <1>2
  <1>10. Closing(rs, aggregate, g) BY <1>7, <1>8, <1>1 DEF Closing
  <1> QED BY <1>9, <1>10, <1>1

LEMMA CloseIs ==
  ASSUME NEW rs \in Seq(Row), NEW aggregate, NEW qs, qs = CloseRoutes(rs, aggregate)
  PROVE  SameRoutes(rs, qs) /\ Closed(qs, aggregate)
PROOF
  <1> DEFINE close == CHOOSE g : Closing(rs, aggregate, g)
  <1>1. qs = close[Len(rs)] BY DEF CloseRoutes, Closing
  <1>2. \E g : Closing(rs, aggregate, g) BY CloseExists
  <1>3. Closing(rs, aggregate, close) BY <1>2, Zenon
  <1> HIDE DEF close
  <1>4. PICK n \in Nat : n = Len(rs) OBVIOUS
  <1>5. close[0] = rs
        /\ \A i \in 1 .. n : close[i] = IF rs[i].up[1] = aggregate
                                         THEN adjust_packet_count(close[i - 1], i) ELSE close[i - 1]
    <2>1. \A i \in 0 .. n : close[i] = IF i = 0 THEN rs
                            ELSE IF rs[i].up[1] = aggregate THEN adjust_packet_count(close[i - 1], i)
                            ELSE close[i - 1]
      BY <1>3, <1>4, Zenon DEF Closing
    <2>2. close[0] = rs BY <2>1
    <2>3. \A i \in 1 .. n : i \in 0 .. n /\ i # 0 OBVIOUS
    <2> QED BY <2>1, <2>2, <2>3, Zenon
  <1> DEFINE Good(i) == /\ close[i] \in Seq(Row) /\ SameRoutes(rs, close[i])
                        /\ \A r \in 1 .. i : rs[r].up[1] = aggregate => close[i][r].left = -1
             D == {i \in 0 .. n : Good(i)}
  <1>6. \A i \in 0 .. n : i \in D
    <2>1. 0 \in D
      <3>1. SameRoutes(rs, rs) BY DEF SameRoutes
      <3> QED BY <1>5, <3>1
    <2>2. ASSUME NEW i \in 1 .. n, i - 1 \in D PROVE i \in D
      <3>1. PICK x : x = close[i - 1] OBVIOUS
      <3>2. PICK y : y = close[i] OBVIOUS
      <3>3. /\ x \in Seq(Row) /\ SameRoutes(rs, x)
            /\ \A r \in 1 .. i - 1 : rs[r].up[1] = aggregate => x[r].left = -1
        BY <2>2, <3>1
      <3>4. Len(x) = n BY <3>3, <1>4 DEF SameRoutes
      <3>5. \A r \in 1 .. i : r \in 1 .. i - 1 \/ r = i OBVIOUS
      <3>6. CASE rs[i].up[1] = aggregate
        <4>1. y = adjust_packet_count(x, i) BY <1>5, <3>1, <3>2, <3>6, Zenon
        <4>2. SameRoutes(x, y) /\ y[i].left = -1
              /\ \A r \in 1 .. Len(x) : x[r].left = -1 => y[r].left = -1
          BY <3>3, <3>4, <4>1, adjustIs
        <4>3. y \in Seq(Row) /\ SameRoutes(rs, y) BY <3>3, <4>2, SameTwice DEF SameRoutes
        <4>4. \A r \in 1 .. i : rs[r].up[1] = aggregate => y[r].left = -1
          BY <3>3, <3>4, <3>5, <4>2
        <4> QED BY <3>2, <4>3, <4>4
      <3>7. CASE rs[i].up[1] # aggregate
        <4>1. y = x BY <1>5, <3>1, <3>2, <3>7, Zenon
        <4>2. \A r \in 1 .. i : rs[r].up[1] = aggregate => y[r].left = -1 BY <3>3, <3>5, <3>7, <4>1
        <4>3. y \in Seq(Row) /\ SameRoutes(rs, y) BY <3>3, <4>1
        <4> QED BY <3>2, <4>2, <4>3
      <3> QED BY <3>6, <3>7
    <2> HIDE DEF D
    <2> QED BY <2>1, <2>2, UpTo
  <1>7. Good(n) BY <1>6
  <1>8. SameRoutes(rs, qs) /\ \A r \in 1 .. n : rs[r].up[1] = aggregate => qs[r].left = -1
    BY <1>1, <1>4, <1>7
  <1> QED BY <1>4, <1>8 DEF Closed, SameRoutes

-----------------------------------------------------------------------------
(* The routes of the topology, and that there are NumRoutes of them. *)

Routes ==
    IF Down(Up(Edge)[1]) # Nowhere THEN {<<Up(Edge)[i], Dest>> : i \in 1 .. Len(Up(Edge))}
    ELSE UNION {{<<Up(Edge)[i], Up(Up(Edge)[i])[j]>> : j \in 1 .. Len(Up(Up(Edge)[i]))} :
                   i \in 1 .. Len(Up(Edge))}

LEMMA ListCard ==
  ASSUME NEW n \in Nat, NEW f, NEW T, T = {f[j] : j \in 1 .. n}
  PROVE  IsFiniteSet(T) /\ Cardinality(T) <= n
PROOF
  <1>1. PICK g : g = [j \in 1 .. n |-> f[j]] OBVIOUS
  <1>2. g \in Surjection(1 .. n, T) BY <1>1 DEF Surjection
  <1>3. IsFiniteSet(1 .. n) /\ Cardinality(1 .. n) = n
    <2>1. IsFiniteSet(1 .. n) /\ Cardinality(1 .. n) = IF 1 > n THEN 0 ELSE n - 1 + 1
      BY FS_Interval
    <2> QED BY <2>1
  <1>4. IsFiniteSet(T) /\ Cardinality(T) <= Cardinality(1 .. n) BY <1>2, <1>3, FS_Surjection
  <1> QED BY <1>3, <1>4

List(F, L, i) == {F[i][j] : j \in 1 .. L[i]}
Lists(F, L, k) == UNION {List(F, L, i) : i \in 1 .. k}

LEMMA ListsCard ==
  ASSUME NEW n \in Nat, NEW L \in [1 .. n -> Nat], NEW F
  PROVE  IsFiniteSet(Lists(F, L, n)) /\ Cardinality(Lists(F, L, n)) <= SumTo(L, n)
PROOF
  <1>1. L \in [1 .. n -> Int] OBVIOUS
  <1>2. PICK g \in [0 .. n -> Int] : g[0] = 0 /\ (\A i \in 1 .. n : g[i] = g[i - 1] + L[i])
                                     /\ SumTo(L, n) = g[n]
    BY <1>1, SumIs
  <1> DEFINE D == {i \in 0 .. n : IsFiniteSet(Lists(F, L, i)) /\ Cardinality(Lists(F, L, i)) <= g[i]}
  <1>3. \A i \in 0 .. n : i \in D
    <2>1. 0 \in D
      <3>1. Lists(F, L, 0) = {}
        <4>1. 1 .. 0 = {} OBVIOUS
        <4> QED BY <4>1 DEF Lists
      <3>2. IsFiniteSet(Lists(F, L, 0)) /\ Cardinality(Lists(F, L, 0)) = 0 BY <3>1, FS_EmptySet
      <3>3. Cardinality(Lists(F, L, 0)) <= g[0] BY <1>2, <3>2
      <3> QED BY <3>2, <3>3
    <2>2. ASSUME NEW i \in 1 .. n, i - 1 \in D PROVE i \in D
      <3>1. PICK T : T = List(F, L, i) OBVIOUS
      <3>2. PICK f : f = F[i] OBVIOUS
      <3>3. PICK m \in Nat : m = L[i] OBVIOUS
      <3>4. T = {f[j] : j \in 1 .. m} BY <3>1, <3>2, <3>3 DEF List
      <3>5. IsFiniteSet(T) /\ Cardinality(T) <= m BY <3>4, ListCard
      <3>6. PICK S : S = Lists(F, L, i - 1) OBVIOUS
      <3>7. Lists(F, L, i) = S \cup T
        <4>1. \A k : k \in 1 .. i <=> k \in 1 .. i - 1 \/ k = i OBVIOUS
        <4>2. \A x, k : x \in Lists(F, L, k) <=> \E h \in 1 .. k : x \in List(F, L, h) BY DEF Lists
        <4>3. ASSUME NEW x PROVE x \in Lists(F, L, i) <=> x \in S \/ x \in T
          BY <3>1, <3>6, <4>1, <4>2, Zenon
        <4> QED BY <4>3
      <3>8. IsFiniteSet(S) /\ Cardinality(S) <= g[i - 1] BY <2>2, <3>6
      <3>9. IsFiniteSet(S \cup T) /\ Cardinality(S \cup T) = Cardinality(S) + Cardinality(T)
                                                             - Cardinality(S \cap T)
        BY <3>5, <3>8, FS_Union
      <3>10. Cardinality(S) \in Nat /\ Cardinality(T) \in Nat /\ Cardinality(S \cap T) \in Nat
        <4>1. IsFiniteSet(S \cap T) BY <3>8, FS_Intersection
        <4> QED BY <3>5, <3>8, <4>1, FS_CardinalityType
      <3>11. g[i] = g[i - 1] + m /\ g[i - 1] \in Int BY <1>2, <3>3
      <3>12. IsFiniteSet(Lists(F, L, i)) /\ Cardinality(Lists(F, L, i)) <= g[i]
        BY <3>5, <3>7, <3>8, <3>9, <3>10, <3>11
      <3> QED BY <3>12
    <2> HIDE DEF D
    <2> QED BY <2>1, <2>2, UpTo
  <1>4. n \in D BY <1>3
  <1> QED BY <1>2, <1>4

(* What is known of a scenario. *)
LEMMA ScenarioIs ==
  ASSUME scenario \in Scenarios
  PROVE  /\ IsFiniteSet(scenario.asked) /\ scenario.asked \subseteq Switch
         /\ Up(Edge) \in Seq(scenario.asked) /\ Len(Up(Edge)) \in Nat \ {0}
         /\ \A i \in 1 .. Len(Up(Edge)) : Up(Edge)[i] \in scenario.asked
         /\ Range(Up(Edge)) = {Up(Edge)[i] : i \in 1 .. Len(Up(Edge))}
         /\ \A a \in scenario.asked : Down(a) \in scenario.asked \cup {Dest, Nowhere}
         /\ scenario.breaks \subseteq Range(Up(Edge))
         /\ scenario.breaks # {} => Len(Up(Edge)) > 1
         /\ scenario.packets \in [Pair -> Nat] /\ scenario.hash \in [Pair -> Nat]
         /\ scenario.queueLen \in [scenario.asked -> Nat] /\ scenario.ttl \in Nat \ {0}
         /\ OnePod(scenario) \/ AcrossPods(scenario)
         /\ {Edge, Dest, Nowhere, "controller"} \cap scenario.asked = {}
         /\ Dest # Nowhere /\ Nowhere \notin Pair /\ Edge \notin {Dest, Nowhere, "controller"}
PROOF
  <1>1. PICK s : s = scenario OBVIOUS
  <1>2. s \in Scenarios BY <1>1
  <1>3. /\ IsFiniteSet(s.asked)
        /\ s.up[Edge] \in Seq(s.asked) /\ s.up[Edge] # <<>>
        /\ s.down \in [s.asked -> s.asked \cup {Dest, Nowhere}]
        /\ OnePod(s) \/ AcrossPods(s)
        /\ {s.packets, s.hash} \subseteq [Pair -> Nat] /\ s.queueLen \in [s.asked -> Nat]
        /\ s.breaks \subseteq Range(s.up[Edge])
        /\ s.breaks # {} => Len(s.up[Edge]) = 2
        /\ s.ttl \in Nat \ {0}
    BY <1>2, ScenarioAssumption
  <1>4. s.asked \subseteq Switch BY <1>2 DEF Switch
  <1>5. {Edge, Dest, Nowhere, "controller"} \cap s.asked = {} /\ Dest # Nowhere /\ Nowhere \notin Pair
        /\ Edge \notin {Dest, Nowhere, "controller"}
    BY <1>4, ScenarioAssumption
  <1>6. PICK u : u = s.up[Edge] OBVIOUS
  <1>7. u \in Seq(s.asked) /\ u # <<>> BY <1>3, <1>6
  <1>8. Len(u) \in Nat \ {0} /\ DOMAIN u = 1 .. Len(u) /\ \A i \in 1 .. Len(u) : u[i] \in s.asked
    BY <1>7
  <1>9. Range(u) = {u[i] : i \in 1 .. Len(u)} BY <1>8 DEF Range
  <1>10. \A a \in s.asked : s.down[a] \in s.asked \cup {Dest, Nowhere} BY <1>3
  <1>11. s.packets \in [Pair -> Nat] /\ s.hash \in [Pair -> Nat] BY <1>3
  <1>12. s.breaks # {} => Len(u) > 1
    <2>1. s.breaks # {} => Len(u) = 2 BY <1>3, <1>6, Zenon
    <2>2. PICK n : n = Len(u) OBVIOUS
    <2>3. n = 2 => n > 1 OBVIOUS
    <2> QED BY <2>1, <2>2, <2>3, Zenon
  <1> QED BY <1>1, <1>3, <1>4, <1>5, <1>6, <1>7, <1>8, <1>9, <1>10, <1>11, <1>12 DEF Up, Down

LEMMA PodsAre ==
  ASSUME scenario \in Scenarios
  PROVE  \/ /\ \A i \in 1 .. Len(Up(Edge)) : Down(Up(Edge)[i]) = Dest
            /\ Down(Up(Edge)[1]) # Nowhere
         \/ /\ \A i \in 1 .. Len(Up(Edge)) :
                  /\ Down(Up(Edge)[i]) = Nowhere
                  /\ Up(Up(Edge)[i]) \in Seq(scenario.asked)
                  /\ Len(Up(Up(Edge)[i])) \in Nat \ {0}
                  /\ \A j \in 1 .. Len(Up(Up(Edge)[i])) :
                        /\ Up(Up(Edge)[i])[j] \in scenario.asked
                        /\ Down(Up(Up(Edge)[i])[j]) \in scenario.asked
            /\ Down(Up(Edge)[1]) = Nowhere
PROOF
  <1>1. PICK u : u = Up(Edge) OBVIOUS
  <1>2. u \in Seq(scenario.asked) /\ Len(u) \in Nat \ {0} /\ Dest # Nowhere /\ DOMAIN u = 1 .. Len(u)
        /\ 1 \in 1 .. Len(u)
    BY <1>1, ScenarioIs
  <1>3. CASE OnePod(scenario)
    <2>1. \A i \in 1 .. Len(u) : Down(u[i]) = Dest BY <1>1, <1>2, <1>3 DEF OnePod, Up, Down
    <2>2. Down(u[1]) # Nowhere BY <1>2, <2>1
    <2> QED BY <1>1, <2>1, <2>2
  <1>4. CASE AcrossPods(scenario)
    <2>1. ASSUME NEW i \in 1 .. Len(u)
          PROVE  /\ Down(u[i]) = Nowhere
                 /\ Up(u[i]) \in Seq(scenario.asked) /\ Len(Up(u[i])) \in Nat \ {0}
                 /\ \A j \in 1 .. Len(Up(u[i])) : Up(u[i])[j] \in scenario.asked
                                                  /\ Down(Up(u[i])[j]) \in scenario.asked
      <3>1. PICK v : v = Up(u[i]) OBVIOUS
      <3>2. Down(u[i]) = Nowhere /\ v \in Seq(scenario.asked) /\ Len(v) = 2
            /\ \A j \in DOMAIN v : Down(v[j]) \in scenario.asked
        BY <1>1, <1>2, <1>4, <3>1 DEF AcrossPods, Up, Down
      <3>3. Len(v) \in Nat \ {0} /\ DOMAIN v = 1 .. Len(v)
            /\ \A j \in 1 .. Len(v) : v[j] \in scenario.asked
        <4>1. DOMAIN v = 1 .. Len(v) /\ \A j \in 1 .. Len(v) : v[j] \in scenario.asked
          <5>1. v \in Seq(scenario.asked) BY <3>2, Zenon
          <5> QED BY <5>1
        <4>2. 2 \in Nat \ {0} OBVIOUS
        <4>3. Len(v) \in Nat \ {0} BY <3>2, <4>2, Zenon
        <4> QED BY <4>1, <4>3
      <3> QED BY <3>1, <3>2, <3>3
    <2>2. Down(u[1]) = Nowhere BY <1>2, <2>1
    <2> QED BY <1>1, <2>1, <2>2
  <1> QED BY <1>3, <1>4, ScenarioIs

LEMMA RoutesAre ==
  ASSUME scenario \in Scenarios
  PROVE  /\ IsFiniteSet(Routes) /\ Cardinality(Routes) <= NumRoutes /\ NumRoutes \in Nat \ {0}
         /\ Routes \subseteq Route
         /\ \A up \in Routes : up[1] \in Range(Up(Edge))
PROOF
  <1>1. PICK u : u = Up(Edge) OBVIOUS
  <1>2. PICK n \in Nat \ {0} : n = Len(u) BY <1>1, ScenarioIs
  <1>3. \A i \in 1 .. n : u[i] \in scenario.asked /\ u[i] \in Range(u)
    BY <1>1, <1>2, ScenarioIs
  <1>4. DOMAIN u = 1 .. n BY <1>1, <1>2, ScenarioIs
  <1>5. CASE \A i \in 1 .. n : Down(u[i]) = Dest
    <2>1. Down(u[1]) # Nowhere BY <1>2, <1>5, ScenarioIs
    <2>2. NumRoutes = n BY <1>1, <1>2, <2>1 DEF NumRoutes
    <2>3. PICK f : f = [i \in 1 .. n |-> <<u[i], Dest>>] OBVIOUS
    <2>4. Routes = {f[i] : i \in 1 .. n} BY <1>1, <1>2, <2>1, <2>3 DEF Routes
    <2>5. IsFiniteSet(Routes) /\ Cardinality(Routes) <= n BY <2>4, ListCard
    <2>6. \A i \in 1 .. n : f[i] \in Route /\ f[i][1] \in Range(u) BY <1>3, <2>3 DEF Route, Node
    <2> QED BY <1>1, <2>2, <2>4, <2>5, <2>6
  <1>6. CASE /\ \A i \in 1 .. n :
                  /\ Up(u[i]) \in Seq(scenario.asked)
                  /\ Len(Up(u[i])) \in Nat \ {0}
                  /\ \A j \in 1 .. Len(Up(u[i])) : Up(u[i])[j] \in scenario.asked
             /\ Down(u[1]) = Nowhere
    <2>1. PICK L : L = [i \in 1 .. n |-> Len(Up(u[i]))] OBVIOUS
    <2>2. L \in [1 .. n -> Nat] /\ \A i \in 1 .. n : L[i] > 0 BY <1>6, <2>1
    <2>3. NumRoutes = SumTo(L, n)
      <3>1. [i \in DOMAIN u |-> Len(Up(u[i]))] = L BY <1>4, <2>1
      <3> QED BY <1>1, <1>2, <1>6, <3>1 DEF NumRoutes
    <2>4. NumRoutes \in Nat \ {0}
      <3>1. L \in [1 .. n -> Int] /\ 1 \in 1 .. n /\ n \in Nat BY <1>2, <2>2
      <3>2. L[1] <= SumTo(L, n) /\ SumTo(L, n) \in Int BY <2>2, <3>1, SumAtLeast, SumType
      <3> QED BY <2>2, <2>3, <3>1, <3>2
    <2>5. PICK F : F = [i \in 1 .. n |-> [j \in 1 .. Len(Up(u[i])) |-> <<u[i], Up(u[i])[j]>>]] OBVIOUS
    <2>6. Routes = Lists(F, L, n)
      <3>1. Routes = UNION {{<<u[i], Up(u[i])[j]>> : j \in 1 .. Len(Up(u[i]))} : i \in 1 .. n}
        BY <1>1, <1>2, <1>6 DEF Routes
      <3>2. \A i \in 1 .. n : L[i] = Len(Up(u[i])) BY <2>1
      <3>3. \A i \in 1 .. n : \A j \in 1 .. L[i] : F[i][j] = <<u[i], Up(u[i])[j]>> BY <2>5, <3>2
      <3>4. \A i \in 1 .. n : {F[i][j] : j \in 1 .. L[i]}
                              = {<<u[i], Up(u[i])[j]>> : j \in 1 .. Len(Up(u[i]))}
        BY <3>2, <3>3
      <3>5. \A i \in 1 .. n : List(F, L, i) = {<<u[i], Up(u[i])[j]>> : j \in 1 .. Len(Up(u[i]))}
        BY <3>4 DEF List
      <3> QED BY <3>1, <3>5 DEF Lists
    <2>7. IsFiniteSet(Routes) /\ Cardinality(Routes) <= SumTo(L, n) BY <2>2, <2>6, ListsCard
    <2>8. \A i \in 1 .. n : \A j \in 1 .. L[i] : F[i][j] \in Route /\ F[i][j][1] \in Range(u)
      BY <1>3, <1>6, <2>1, <2>5 DEF Route, Node
    <2>9. \A x \in Routes : \E i \in 1 .. n : \E j \in 1 .. L[i] : x = F[i][j]
      <3>1. \A x \in Routes : \E i \in 1 .. n : x \in List(F, L, i) BY <2>6 DEF Lists
      <3> QED BY <3>1 DEF List
    <2> QED BY <1>1, <2>3, <2>4, <2>7, <2>8, <2>9
  <1> QED BY <1>1, <1>2, <1>5, <1>6, PodsAre

(* Distinct routes are no more than there are. *)
LEMMA FewRows ==
  ASSUME scenario \in Scenarios, NEW rs \in Seq(Row), Distinct(rs, Routes)
  PROVE  Len(rs) <= NumRoutes
PROOF
  <1>1. PICK n \in Nat : n = Len(rs) OBVIOUS
  <1>2. PICK f : f = [r \in 1 .. n |-> rs[r].up] OBVIOUS
  <1>3. f \in Injection(1 .. n, Routes) BY <1>1, <1>2 DEF Injection, IsInjective, Distinct
  <1>4. IsFiniteSet(Routes) /\ Cardinality(Routes) <= NumRoutes /\ NumRoutes \in Nat BY RoutesAre
  <1>5. Cardinality(1 .. n) <= Cardinality(Routes) BY <1>3, <1>4, FS_Injection
  <1>6. Cardinality(1 .. n) = n
    <2>1. Cardinality(1 .. n) = IF 1 > n THEN 0 ELSE n - 1 + 1 BY FS_Interval
    <2> QED BY <2>1
  <1>7. Cardinality(Routes) \in Nat BY <1>4, FS_CardinalityType
  <1> QED BY <1>1, <1>4, <1>5, <1>6, <1>7

-----------------------------------------------------------------------------
(* Counting packets on their way and in queues. *)

Network(b) == b \in [DOMAIN b -> Nat \ {0}] /\ IsFiniteSet(DOMAIN b)

CopiesOf(b, m) == {m} \X (1 .. b[m])
CopiesFor(b, S) == UNION {CopiesOf(b, m) : m \in DOMAIN b \cap S}

InBag(b, S) == Cardinality(CopiesFor(b, S))

LEMMA CopiesAre ==
  ASSUME NEW b, NEW S, NEW x
  PROVE  x \in CopiesFor(b, S) <=> \E m \in DOMAIN b \cap S : x \in CopiesOf(b, m)
PROOF
  BY DEF CopiesFor

LEMMA InBagType ==
  ASSUME NEW b, Network(b), NEW S
  PROVE  IsFiniteSet(CopiesFor(b, S)) /\ InBag(b, S) \in Nat
PROOF
  <1>1. PICK C : C = {CopiesOf(b, m) : m \in DOMAIN b \cap S} OBVIOUS
  <1>2. PICK D : D = DOMAIN b \cap S OBVIOUS
  <1>3. IsFiniteSet(D) BY <1>2, FS_Intersection DEF Network
  <1>4. PICK f : f = [m \in D |-> CopiesOf(b, m)] OBVIOUS
  <1>5. f \in Surjection(D, C) BY <1>1, <1>2, <1>4 DEF Surjection
  <1>6. IsFiniteSet(C) BY <1>3, <1>5, FS_Surjection
  <1>7. ASSUME NEW m \in D PROVE IsFiniteSet(CopiesOf(b, m))
    <2>1. PICK n \in Nat : n = b[m] BY <1>2 DEF Network
    <2>2. IsFiniteSet(1 .. n) BY FS_Interval
    <2>3. IsFiniteSet({m}) BY FS_Singleton
    <2>4. IsFiniteSet({m} \X (1 .. n)) BY <2>2, <2>3, FS_Product
    <2> QED BY <2>1, <2>4 DEF CopiesOf
  <1>8. \A T \in C : IsFiniteSet(T) BY <1>1, <1>2, <1>7
  <1>9. IsFiniteSet(UNION C) BY <1>6, <1>8, FS_UNION
  <1>10. IsFiniteSet(CopiesFor(b, S)) BY <1>1, <1>9 DEF CopiesFor
  <1> QED BY <1>10, FS_CardinalityType DEF InBag

IsIn(m, S) == IF m \in S THEN 1 ELSE 0

(* c is b with one more m. *)
OneMore(b, m, c) ==
    /\ DOMAIN c = DOMAIN b \cup {m}
    /\ \A e \in DOMAIN b : e # m => c[e] = b[e]
    /\ c[m] = IF m \in DOMAIN b THEN b[m] + 1 ELSE 1

LEMMA CountMore ==
  ASSUME NEW b, Network(b), NEW m, NEW c, OneMore(b, m, c), NEW S
  PROVE  InBag(c, S) = InBag(b, S) + IsIn(m, S)
PROOF
  <1>1. ASSUME NEW e \in DOMAIN b, e # m PROVE CopiesOf(c, e) = CopiesOf(b, e)
    BY <1>1 DEF OneMore, CopiesOf
  <1>2. IsFiniteSet(CopiesFor(b, S)) /\ InBag(b, S) \in Nat BY InBagType
  <1>3. CASE m \notin S
    <2>1. DOMAIN c \cap S = DOMAIN b \cap S BY <1>3 DEF OneMore
    <2>2. \A e \in DOMAIN b \cap S : CopiesOf(c, e) = CopiesOf(b, e) BY <1>1, <1>3
    <2>3. \A x : x \in CopiesFor(c, S) <=> x \in CopiesFor(b, S) BY <2>1, <2>2, CopiesAre
    <2>4. CopiesFor(c, S) = CopiesFor(b, S) BY <2>3
    <2> QED BY <1>2, <1>3, <2>4 DEF InBag, IsIn
  <1>4. CASE m \in S
    <2>1. PICK k \in Nat : k = IF m \in DOMAIN b THEN b[m] ELSE 0 BY DEF Network
    <2>2. c[m] = k + 1 BY <2>1 DEF OneMore
    <2>3. CopiesOf(c, m) = {m} \X (1 .. k + 1) BY <2>2 DEF CopiesOf
    <2>4. \A x : x \in {m} \X (1 .. k + 1) <=> x \in {m} \X (1 .. k) \/ x = <<m, k + 1>> OBVIOUS
    <2>5. m \in DOMAIN b => CopiesOf(b, m) = {m} \X (1 .. k) BY <2>1 DEF CopiesOf
    <2>6. m \notin DOMAIN b => {m} \X (1 .. k) = {} BY <2>1
    <2>7. \A e : e \in DOMAIN c \cap S <=> e \in DOMAIN b \cap S \/ e = m BY <1>4 DEF OneMore
    <2>8. ASSUME NEW x
          PROVE  x \in CopiesFor(c, S) <=> x \in CopiesFor(b, S) \/ x = <<m, k + 1>>
      <3>1. CASE x \in CopiesFor(c, S)
        <4>1. PICK e \in DOMAIN c \cap S : x \in CopiesOf(c, e) BY <3>1, CopiesAre
        <4>2. CASE e = m BY <1>4, <2>3, <2>4, <2>5, <2>6, <4>1, <4>2, CopiesAre
        <4>3. CASE e # m
          <5>1. e \in DOMAIN b \cap S BY <2>7, <4>3
          <5> QED BY <1>1, <4>1, <4>3, <5>1, CopiesAre
        <4> QED BY <4>2, <4>3
      <3>2. CASE x \in CopiesFor(b, S)
        <4>1. PICK e \in DOMAIN b \cap S : x \in CopiesOf(b, e) BY <3>2, CopiesAre
        <4>2. e \in DOMAIN c \cap S BY <2>7
        <4>3. x \in CopiesOf(c, e)
          <5>1. CASE e = m BY <2>3, <2>4, <2>5, <4>1, <5>1
          <5>2. CASE e # m BY <1>1, <4>1, <5>2
          <5> QED BY <5>1, <5>2
        <4> QED BY <3>2, <4>2, <4>3, CopiesAre, Zenon
      <3>3. CASE x = <<m, k + 1>>
        <4>1. x \in CopiesOf(c, m) BY <2>3, <3>3
        <4>2. m \in DOMAIN c \cap S BY <2>7
        <4> QED BY <3>3, <4>1, <4>2, CopiesAre, Zenon
      <3> QED BY <3>1, <3>2, <3>3
    <2>9. CopiesFor(c, S) = CopiesFor(b, S) \cup {<<m, k + 1>>} BY <2>8
    <2>10. <<m, k + 1>> \notin CopiesFor(b, S)
      <3> SUFFICES ASSUME <<m, k + 1>> \in CopiesFor(b, S) PROVE FALSE OBVIOUS
      <3>1. PICK e \in DOMAIN b \cap S : <<m, k + 1>> \in CopiesOf(b, e) BY CopiesAre
      <3>2. e = m BY <3>1 DEF CopiesOf
      <3>3. <<m, k + 1>> \in {m} \X (1 .. k) BY <2>5, <3>1, <3>2
      <3> QED BY <3>3
    <2>11. Cardinality(CopiesFor(b, S) \cup {<<m, k + 1>>}) = Cardinality(CopiesFor(b, S)) + 1
      BY <1>2, <2>10, FS_AddElement
    <2> QED BY <1>4, <2>9, <2>11 DEF InBag, IsIn
  <1> QED BY <1>3, <1>4

(* c is b and a together; c is b without a. *)
Plus(b, a, c) == c = b (+) a
Minus(b, a, c) == c = b (-) a

Grown(b, m, c) ==
    DOMAIN c = DOMAIN b \cup {m} /\ \A S : InBag(c, S) = InBag(b, S) + IsIn(m, S)

(* One packet is put on its way. *)
LEMMA PlusOne ==
  ASSUME NEW b, Network(b), NEW m, NEW c, Plus(b, One(m), c)
  PROVE  Network(c) /\ Grown(b, m, c)
PROOF
  <1>1. PICK o : o = One(m) OBVIOUS
  <1>2. DOMAIN o = {m} /\ o[m] = 1 BY <1>1 DEF One, SetToBag
  <1>3. c = [e \in DOMAIN b \cup DOMAIN o |-> (IF e \in DOMAIN b THEN b[e] ELSE 0)
                                               + (IF e \in DOMAIN o THEN o[e] ELSE 0)]
    BY <1>1 DEF (+), Plus
  <1>4. \A e \in DOMAIN b : b[e] \in Nat \ {0} BY DEF Network
  <1>5. OneMore(b, m, c) BY <1>2, <1>3, <1>4 DEF OneMore
  <1>6. DOMAIN c = DOMAIN b \cup {m} BY <1>5 DEF OneMore
  <1>7. Network(c)
    <2>1. IsFiniteSet(DOMAIN c) BY <1>6, FS_AddElement DEF Network
    <2>2. \A e \in DOMAIN c : c[e] \in Nat \ {0} BY <1>4, <1>5 DEF OneMore
    <2>3. c = [e \in DOMAIN c |-> c[e]] BY <1>3
    <2> QED BY <2>1, <2>2, <2>3 DEF Network
  <1>8. \A S : InBag(c, S) = InBag(b, S) + IsIn(m, S) BY <1>5, CountMore
  <1> QED BY <1>6, <1>7, <1>8 DEF Grown

(* One packet is taken off. *)
LEMMA MinusOne ==
  ASSUME NEW b, Network(b), NEW m \in DOMAIN b, NEW c, Minus(b, One(m), c)
  PROVE  /\ Network(c) /\ DOMAIN c \subseteq DOMAIN b
         /\ \A S : InBag(c, S) = InBag(b, S) - IsIn(m, S)
PROOF
  <1>1. PICK o : o = One(m) OBVIOUS
  <1>2. DOMAIN o = {m} /\ o[m] = 1 BY <1>1 DEF One, SetToBag
  <1>3. PICK d : d = [e \in DOMAIN b |-> IF e \in DOMAIN o THEN b[e] - o[e] ELSE b[e]] OBVIOUS
  <1>4. c = [e \in {x \in DOMAIN d : d[x] > 0} |-> d[e]] BY <1>1, <1>3 DEF (-), Minus
  <1>5. \A e \in DOMAIN b : b[e] \in Nat \ {0} BY DEF Network
  <1>6. DOMAIN d = DOMAIN b /\ d[m] = b[m] - 1 /\ \A e \in DOMAIN b : e # m => d[e] = b[e]
    BY <1>2, <1>3
  <1>7. DOMAIN c = {x \in DOMAIN b : d[x] > 0} /\ \A e \in DOMAIN c : c[e] = d[e]
    BY <1>4, <1>6
  <1>8. DOMAIN c \subseteq DOMAIN b /\ IsFiniteSet(DOMAIN c)
    <2>1. DOMAIN c \subseteq DOMAIN b BY <1>7
    <2> QED BY <2>1, FS_Subset DEF Network
  <1>9. Network(c)
    <2>1. \A e \in DOMAIN c : c[e] \in Nat \ {0} BY <1>5, <1>6, <1>7
    <2>2. c = [e \in DOMAIN c |-> c[e]] BY <1>4
    <2> QED BY <1>8, <2>1, <2>2 DEF Network
  <1>10. OneMore(c, m, b)
    <2>1. \A e \in DOMAIN b : e # m => e \in DOMAIN c BY <1>5, <1>6, <1>7
    <2>2. DOMAIN b = DOMAIN c \cup {m} BY <1>8, <2>1
    <2>3. \A e \in DOMAIN c : e # m => b[e] = c[e] BY <1>6, <1>7
    <2>4. b[m] = IF m \in DOMAIN c THEN c[m] + 1 ELSE 1 BY <1>5, <1>6, <1>7
    <2> QED BY <2>2, <2>3, <2>4 DEF OneMore
  <1>11. \A S : InBag(b, S) = InBag(c, S) + IsIn(m, S) BY <1>9, <1>10, CountMore
  <1>12. \A S : InBag(c, S) \in Nat BY <1>9, InBagType
  <1> QED BY <1>8, <1>9, <1>11, <1>12 DEF IsIn

(* A bag of others is put on its way. *)
LEMMA PlusOthers ==
  ASSUME NEW b, Network(b), NEW a, Network(a), NEW c, Plus(b, a, c)
  PROVE  /\ Network(c) /\ DOMAIN c = DOMAIN b \cup DOMAIN a
         /\ \A S : DOMAIN a \cap S = {} => InBag(c, S) = InBag(b, S)
PROOF
  <1>1. c = [e \in DOMAIN b \cup DOMAIN a |-> (IF e \in DOMAIN b THEN b[e] ELSE 0)
                                               + (IF e \in DOMAIN a THEN a[e] ELSE 0)]
    BY DEF (+), Plus
  <1>2. (\A e \in DOMAIN b : b[e] \in Nat \ {0}) /\ \A e \in DOMAIN a : a[e] \in Nat \ {0}
    BY DEF Network
  <1>3. DOMAIN c = DOMAIN b \cup DOMAIN a BY <1>1
  <1>4. Network(c)
    <2>1. IsFiniteSet(DOMAIN c)
      <3>1. IsFiniteSet(DOMAIN b) /\ IsFiniteSet(DOMAIN a) BY DEF Network
      <3>2. PICK x, y : x = DOMAIN b /\ y = DOMAIN a OBVIOUS
      <3>3. IsFiniteSet(x \cup y) BY <3>1, <3>2, FS_Union
      <3> QED BY <1>3, <3>2, <3>3
    <2>2. \A e \in DOMAIN c : c[e] \in Nat \ {0} BY <1>1, <1>2
    <2>3. c = [e \in DOMAIN c |-> c[e]] BY <1>1
    <2> QED BY <2>1, <2>2, <2>3 DEF Network
  <1>5. ASSUME NEW S, DOMAIN a \cap S = {} PROVE InBag(c, S) = InBag(b, S)
    <2>1. DOMAIN c \cap S = DOMAIN b \cap S BY <1>3, <1>5
    <2>2. \A e \in DOMAIN b \cap S : c[e] = b[e]
      <3>1. ASSUME NEW e \in DOMAIN b \cap S PROVE c[e] = b[e]
        <4>1. e \notin DOMAIN a BY <1>5
        <4>2. c[e] = b[e] + 0 /\ b[e] \in Nat BY <1>1, <1>2, <4>1
        <4> QED BY <4>2
      <3> QED BY <3>1
    <2>3. \A e \in DOMAIN b \cap S : CopiesOf(c, e) = CopiesOf(b, e) BY <2>2 DEF CopiesOf
    <2>4. \A x : x \in CopiesFor(c, S) <=> x \in CopiesFor(b, S) BY <2>1, <2>3, CopiesAre
    <2>5. CopiesFor(c, S) = CopiesFor(b, S) BY <2>4
    <2> QED BY <2>5 DEF InBag
  <1> QED BY <1>3, <1>4, <1>5

LEMMA EmptyIs == Network(EmptyBag) /\ DOMAIN EmptyBag = {}
PROOF
  <1>1. PICK b : b = EmptyBag OBVIOUS
  <1>2. DOMAIN b = {} BY <1>1 DEF EmptyBag, SetToBag
  <1>3. b = [e \in DOMAIN b |-> b[e]] BY <1>1 DEF EmptyBag, SetToBag
  <1>4. b \in [DOMAIN b -> Nat \ {0}] BY <1>2, <1>3
  <1> QED BY <1>1, <1>2, <1>4, FS_EmptySet DEF Network

LEMMA EachIs ==
  ASSUME NEW T, IsFiniteSet(T)
  PROVE  Network(Each(T)) /\ DOMAIN Each(T) = T
PROOF
  <1>1. DOMAIN Each(T) = T /\ Each(T) \in [T -> Nat \ {0}] BY DEF Each, SetToBag
  <1> QED BY <1>1 DEF Network

LEMMA OneIs ==
  ASSUME NEW m
  PROVE  Network(One(m)) /\ DOMAIN One(m) = {m}
PROOF
  <1>1. One(m) = Each({m}) BY DEF One, Each
  <1>2. IsFiniteSet({m}) BY FS_Singleton
  <1> QED BY <1>1, <1>2, EachIs

(* A packet for every element of A is put on its way, the first of their kind. *)
LEMMA PlusAnswers ==
  ASSUME NEW b, Network(b), NEW S, InBag(b, S) = 0, NEW A, IsFiniteSet(A), NEW f,
         NEW T, T = {f[n] : n \in A}, NEW c, Plus(b, Each(T), c)
  PROVE  InBag(c, S) <= Cardinality(A)
PROOF
  <1>1. PICK a : a = Each(T) OBVIOUS
  <1>2. DOMAIN a = T /\ \A e \in T : a[e] = 1 BY <1>1 DEF Each, SetToBag
  <1>3. c = [e \in DOMAIN b \cup DOMAIN a |-> (IF e \in DOMAIN b THEN b[e] ELSE 0)
                                               + (IF e \in DOMAIN a THEN a[e] ELSE 0)]
    BY <1>1 DEF (+), Plus
  <1>4. \A e \in DOMAIN b : b[e] \in Nat \ {0} BY DEF Network
  <1>5. CopiesFor(b, S) = {} BY InBagType, FS_EmptySet DEF InBag
  <1>6. ASSUME NEW e \in DOMAIN b PROVE e \notin S
    <2> SUFFICES ASSUME e \in S PROVE FALSE OBVIOUS
    <2>1. <<e, 1>> \in CopiesOf(b, e) BY <1>4 DEF CopiesOf
    <2> QED BY <1>5, <2>1, CopiesAre
  <1>7. \A e \in DOMAIN c \cap S : e \in T /\ c[e] = 1 BY <1>2, <1>3, <1>6
  <1>8. PICK B : B = {n \in A : f[n] \in S} OBVIOUS
  <1>9. IsFiniteSet(B) /\ Cardinality(B) <= Cardinality(A)
    <2>1. B \in SUBSET A BY <1>8
    <2> QED BY <2>1, FS_Subset
  <1>10. PICK g : g = [n \in B |-> <<f[n], 1>>] OBVIOUS
  <1>11. ASSUME NEW n \in B PROVE g[n] \in CopiesFor(c, S)
    <2>1. f[n] \in T /\ f[n] \in S /\ g[n] = <<f[n], 1>> BY <1>8, <1>10
    <2>2. f[n] \in DOMAIN c \cap S BY <1>2, <1>3, <2>1
    <2>3. c[f[n]] = 1 BY <1>7, <2>2
    <2>4. g[n] \in CopiesOf(c, f[n]) BY <2>1, <2>3 DEF CopiesOf
    <2> QED BY <2>2, <2>4, CopiesAre
  <1>12. ASSUME NEW x \in CopiesFor(c, S) PROVE \E n \in B : g[n] = x
    <2>1. PICK e \in DOMAIN c \cap S : x \in CopiesOf(c, e) BY CopiesAre
    <2>2. e \in T /\ c[e] = 1 BY <1>7
    <2>3. PICK n \in A : f[n] = e BY <2>2
    <2>4. x = <<e, 1>> BY <2>1, <2>2 DEF CopiesOf
    <2> QED BY <1>8, <1>10, <2>3, <2>4
  <1>13. g \in Surjection(B, CopiesFor(c, S))
    <2>1. g \in [B -> CopiesFor(c, S)] BY <1>10, <1>11
    <2> QED BY <1>12, <2>1 DEF Surjection
  <1>14. IsFiniteSet(CopiesFor(c, S)) /\ Cardinality(CopiesFor(c, S)) <= Cardinality(B)
    BY <1>9, <1>13, FS_Surjection
  <1>15. /\ Cardinality(CopiesFor(c, S)) \in Nat /\ Cardinality(B) \in Nat /\ Cardinality(A) \in Nat
    BY <1>9, <1>14, FS_CardinalityType
  <1> QED BY <1>9, <1>14, <1>15 DEF InBag

(* Places in a queue. *)
Places(q, S) == {i \in 1 .. Len(q) : q[i] \in S}
InQueue(q, S) == Cardinality(Places(q, S))

LEMMA InQueueType ==
  ASSUME NEW M, NEW q \in Seq(M), NEW S
  PROVE  IsFiniteSet(Places(q, S)) /\ InQueue(q, S) \in Nat
PROOF
  <1>1. PICK n \in Nat : n = Len(q) OBVIOUS
  <1>2. IsFiniteSet(1 .. n) BY FS_Interval
  <1>3. Places(q, S) \in SUBSET (1 .. n) BY <1>1 DEF Places
  <1>4. IsFiniteSet(Places(q, S)) BY <1>2, <1>3, FS_Subset
  <1> QED BY <1>4, FS_CardinalityType DEF InQueue

Longer(q, m, c) == c = Append(q, m)

LEMMA QueueAppend ==
  ASSUME NEW M, NEW q \in Seq(M), NEW m \in M, NEW c, Longer(q, m, c), NEW S
  PROVE  InQueue(c, S) = InQueue(q, S) + IsIn(m, S)
PROOF
  <1>1. PICK n \in Nat : n = Len(q) OBVIOUS
  <1>2. Len(c) = n + 1 /\ c[n + 1] = m /\ \A i \in 1 .. n : c[i] = q[i] BY <1>1 DEF Longer
  <1>3. IsFiniteSet(Places(q, S)) /\ InQueue(q, S) \in Nat BY InQueueType
  <1>4. n + 1 \notin Places(q, S) BY <1>1 DEF Places
  <1>5. \A i : i \in 1 .. n + 1 <=> i \in 1 .. n \/ i = n + 1 OBVIOUS
  <1>6. CASE m \in S
    <2>1. Places(c, S) = Places(q, S) \cup {n + 1} BY <1>1, <1>2, <1>5, <1>6 DEF Places
    <2>2. Cardinality(Places(q, S) \cup {n + 1}) = Cardinality(Places(q, S)) + 1
      BY <1>3, <1>4, FS_AddElement
    <2> QED BY <1>6, <2>1, <2>2 DEF InQueue, IsIn
  <1>7. CASE m \notin S
    <2>1. Places(c, S) = Places(q, S) BY <1>1, <1>2, <1>5, <1>7 DEF Places
    <2> QED BY <1>3, <1>7, <2>1 DEF InQueue, IsIn
  <1> QED BY <1>6, <1>7

LEMMA QueueTail ==
  ASSUME NEW M, NEW q \in Seq(M), q # <<>>, NEW c, c = Tail(q), NEW S
  PROVE  InQueue(c, S) = InQueue(q, S) - IsIn(Head(q), S)
PROOF
  <1>1. PICK n \in Nat \ {0} : n = Len(q) OBVIOUS
  <1>2. Len(c) = n - 1 /\ Head(q) = q[1] /\ \A i \in 1 .. n - 1 : c[i] = q[i + 1] BY <1>1
  <1>3. IsFiniteSet(Places(q, S)) /\ InQueue(q, S) \in Nat BY InQueueType
  <1>4. c \in Seq(M) OBVIOUS
  <1>5. IsFiniteSet(Places(c, S)) /\ InQueue(c, S) \in Nat BY <1>4, InQueueType
  <1>6. PICK P : P = Places(q, S) \ {1} OBVIOUS
  <1>7. PICK f : f = [i \in Places(c, S) |-> i + 1] OBVIOUS
  <1>8. \A i \in Places(c, S) : i \in 1 .. n - 1 /\ q[i + 1] \in S BY <1>1, <1>2 DEF Places
  <1>9. \A i \in P : i \in 2 .. n /\ q[i] \in S BY <1>1, <1>6 DEF Places
  <1>10. f \in [Places(c, S) -> P] BY <1>1, <1>6, <1>7, <1>8 DEF Places
  <1>11. \A i \in P : i - 1 \in Places(c, S) /\ f[i - 1] = i
    BY <1>1, <1>2, <1>7, <1>9 DEF Places
  <1>12. \A i, j \in Places(c, S) : f[i] = f[j] => i = j BY <1>7, <1>8
  <1>13. f \in Bijection(Places(c, S), P)
    BY <1>10, <1>11, <1>12 DEF Bijection, Injection, Surjection, IsInjective
  <1>14. Cardinality(P) = Cardinality(Places(c, S))
    <2>1. ExistsBijection(Places(c, S), P) BY <1>13 DEF ExistsBijection
    <2> QED BY <1>5, <2>1, FS_Bijection
  <1>15. Cardinality(P) = IF 1 \in Places(q, S) THEN InQueue(q, S) - 1 ELSE InQueue(q, S)
    BY <1>3, <1>6, FS_RemoveElement DEF InQueue
  <1>16. 1 \in Places(q, S) <=> Head(q) \in S BY <1>1, <1>2 DEF Places
  <1> QED BY <1>3, <1>14, <1>15, <1>16 DEF InQueue, IsIn

Without(t, S) == \A i \in 1 .. Len(t) : t[i] \notin S

Joined(q, t, c) == c = q \o t

LEMMA QueueConcat ==
  ASSUME NEW q \in Seq(Message), NEW t \in Seq(Message), NEW c, Joined(q, t, c), NEW S, Without(t, S)
  PROVE  InQueue(c, S) = InQueue(q, S)
PROOF
  <1>1. PICK n \in Nat : n = Len(q) OBVIOUS
  <1>2. PICK k \in Nat : k = Len(t) OBVIOUS
  <1>3. Len(c) = n + k /\ (\A i \in 1 .. n : c[i] = q[i]) /\ \A i \in 1 .. k : c[n + i] = t[i]
    BY <1>1, <1>2 DEF Joined
  <1>4. \A i \in n + 1 .. n + k : c[i] = t[i - n]
    <2>1. ASSUME NEW i \in n + 1 .. n + k PROVE c[i] = t[i - n]
      <3>1. i - n \in 1 .. k /\ n + (i - n) = i OBVIOUS
      <3> QED BY <1>3, <3>1
    <2> QED BY <2>1
  <1>5. \A i \in n + 1 .. n + k : c[i] \notin S
    <2>1. \A i \in n + 1 .. n + k : i - n \in 1 .. k OBVIOUS
    <2> QED BY <1>2, <1>4, <2>1 DEF Without
  <1>6. \A i : i \in 1 .. n + k <=> i \in 1 .. n \/ i \in n + 1 .. n + k OBVIOUS
  <1>7. Places(c, S) = Places(q, S) BY <1>1, <1>3, <1>5, <1>6 DEF Places
  <1> QED BY <1>7 DEF InQueue

-----------------------------------------------------------------------------
(* Messages. *)

(* The record of a count packet names the edge switch and then the switch  *)
(* the edge switch sends it to.                                            *)
Heads(record) ==
    /\ Len(record) >= 2 /\ 1 \in DOMAIN record /\ 2 \in DOMAIN record
    /\ record[1] = Edge /\ record[2] \in scenario.asked

(* What a packet says is true of the topology, and of the link that broke. *)
MessageOk(m) ==
    /\ m.kind = "hashed" => m.at \in Range(Up(Edge))
    /\ m.kind = "probe" => m.at \in Range(Up(Edge)) \cup {Edge}
    /\ m.kind \in {"found", "hashroute"} => m.up \in Routes
    /\ m.kind = "count" => Heads(m.record)
    /\ m.kind = "linkfailure" => m.aggregate = broken /\ broken # Nowhere

Good(m) == m \in Message /\ MessageOk(m)

HashOf(p) == {m \in Message : m.kind \in {"hashed", "hashroute"} /\ m.pair = p}
RequestOf(p) == {m \in Message : m.kind = "loadrequest" /\ m.pair = p}
AnswerOf(p) == {m \in Message : m.kind \in {"loadquery", "load"} /\ m.pair = p}

(* A packet that none of the counts is about. *)
Other(m) == m.kind \notin {"hashed", "hashroute", "loadrequest", "loadquery", "load"}

LEMMA OtherIs ==
  ASSUME NEW m, Other(m), NEW p
  PROVE  m \notin HashOf(p) /\ m \notin RequestOf(p) /\ m \notin AnswerOf(p)
PROOF
  BY DEF Other, HashOf, RequestOf, AnswerOf

(* The sets Message consists of. *)
ProbeOrHashed == [kind : {"probe", "hashed"}, pair : Pair, at : scenario.asked \cup {Edge}]
FoundMessage == [kind : {"found"}, pair : Pair, at : {Edge}, up : Route, via : Seq(scenario.asked)]
HashRouteMessage == [kind : {"hashroute"}, pair : Pair, at : {Edge}, up : Route]
DataMessage == [kind : {"data"}, at : scenario.asked, core : Node]
RequestMessage == [kind : {"loadrequest"}, pair : Pair, at : {"controller"}]
QueryMessage == [kind : {"loadquery"}, pair : Pair, at : scenario.asked]
LoadMessage == [kind : {"load"}, pair : Pair, at : {Edge}, switch : scenario.asked, load : Int]
CountMessage == [kind : {"count"}, at : Node \cup {Edge}, record : Seq(Node \cup {Edge}), n : Int,
                 ttl : Nat \ {0}]
FailureMessage == [kind : {"linkfailure"}, at : {Edge, "controller"}, aggregate : scenario.asked]

LEMMA MessageUnion ==
  Message = ProbeOrHashed \cup FoundMessage \cup HashRouteMessage \cup DataMessage
            \cup RequestMessage \cup QueryMessage \cup LoadMessage \cup CountMessage
            \cup FailureMessage
PROOF
  BY DEF Message, ProbeOrHashed, FoundMessage, HashRouteMessage, DataMessage, RequestMessage,
         QueryMessage, LoadMessage, CountMessage, FailureMessage

(* The fields of a message of each kind. *)
Fields(m) ==
    /\ m.kind \in {"probe", "hashed"} => m.pair \in Pair /\ m.at \in scenario.asked \cup {Edge}
    /\ m.kind = "found" => m.pair \in Pair /\ m.up \in Route /\ m.via \in Seq(scenario.asked)
    /\ m.kind = "hashroute" => m.pair \in Pair /\ m.up \in Route
    /\ m.kind = "data" => m.at \in scenario.asked /\ m.core \in Node
    /\ m.kind = "loadrequest" => m.pair \in Pair /\ m.at = "controller"
    /\ m.kind = "loadquery" => m.pair \in Pair /\ m.at \in scenario.asked
    /\ m.kind = "load" => m.pair \in Pair /\ m.switch \in scenario.asked /\ m.load \in Int
    /\ m.kind = "count" => /\ m.at \in Node \cup {Edge} /\ m.record \in Seq(Node \cup {Edge})
                           /\ m.n \in Int /\ m.ttl \in Nat \ {0}
    /\ m.kind = "linkfailure" => m.aggregate \in scenario.asked

LEMMA FieldsOf ==
  ASSUME NEW m \in Message
  PROVE  Fields(m)
PROOF
  <1>1. CASE m \in ProbeOrHashed BY <1>1 DEF ProbeOrHashed, Fields
  <1>2. CASE m \in FoundMessage BY <1>2 DEF FoundMessage, Fields
  <1>3. CASE m \in HashRouteMessage BY <1>3 DEF HashRouteMessage, Fields
  <1>4. CASE m \in DataMessage BY <1>4 DEF DataMessage, Fields
  <1>5. CASE m \in RequestMessage BY <1>5 DEF RequestMessage, Fields
  <1>6. CASE m \in QueryMessage BY <1>6 DEF QueryMessage, Fields
  <1>7. CASE m \in LoadMessage BY <1>7 DEF LoadMessage, Fields
  <1>8. CASE m \in CountMessage BY <1>8 DEF CountMessage, Fields
  <1>9. CASE m \in FailureMessage BY <1>9 DEF FailureMessage, Fields
  <1> QED BY <1>1, <1>2, <1>3, <1>4, <1>5, <1>6, <1>7, <1>8, <1>9, MessageUnion

(* The packets that are made. *)
LEMMA ProbeIs ==
  ASSUME NEW p \in Pair, NEW a \in scenario.asked \cup {Edge}, a \in Range(Up(Edge)) \cup {Edge},
         NEW m, m = Probe(p, a)
  PROVE  Good(m) /\ Other(m) /\ m.at = a
PROOF
  <1>1. m.kind = "probe" /\ m.at = a BY DEF Probe
  <1>2. m \in ProbeOrHashed BY DEF Probe, ProbeOrHashed
  <1>3. m \in Message BY <1>2, MessageUnion
  <1> QED BY <1>1, <1>3 DEF Good, MessageOk, Other

LEMMA FoundIs ==
  ASSUME NEW p \in Pair, NEW up \in Route, up \in Routes, NEW via \in Seq(scenario.asked),
         NEW m, m = Found(p, up, via)
  PROVE  Good(m) /\ Other(m)
PROOF
  <1>1. m.kind = "found" /\ m.up = up BY DEF Found
  <1>2. m \in FoundMessage BY DEF Found, FoundMessage
  <1>3. m \in Message BY <1>2, MessageUnion
  <1> QED BY <1>1, <1>3 DEF Good, MessageOk, Other

LEMMA HashedIs ==
  ASSUME NEW p \in Pair, NEW a \in scenario.asked, a \in Range(Up(Edge)), NEW m, m = Hashed(p, a)
  PROVE  /\ Good(m)
         /\ \A q : (m \in HashOf(q) <=> q = p) /\ m \notin RequestOf(q) /\ m \notin AnswerOf(q)
PROOF
  <1>1. m.kind = "hashed" /\ m.at = a /\ m.pair = p BY DEF Hashed
  <1>2. m \in ProbeOrHashed BY DEF Hashed, ProbeOrHashed
  <1>3. m \in Message BY <1>2, MessageUnion
  <1> QED BY <1>1, <1>3 DEF Good, MessageOk, HashOf, RequestOf, AnswerOf

LEMMA HashRouteIs ==
  ASSUME NEW p \in Pair, NEW up \in Route, up \in Routes, NEW m, m = HashRoute(p, up)
  PROVE  /\ Good(m)
         /\ \A q : (m \in HashOf(q) <=> q = p) /\ m \notin RequestOf(q) /\ m \notin AnswerOf(q)
PROOF
  <1>1. m.kind = "hashroute" /\ m.up = up /\ m.pair = p BY DEF HashRoute
  <1>2. m \in HashRouteMessage BY DEF HashRoute, HashRouteMessage
  <1>3. m \in Message BY <1>2, MessageUnion
  <1> QED BY <1>1, <1>3 DEF Good, MessageOk, HashOf, RequestOf, AnswerOf

LEMMA DataIs ==
  ASSUME NEW a \in scenario.asked, NEW core \in Node, NEW m, m = Data(a, core)
  PROVE  Good(m) /\ Other(m)
PROOF
  <1>1. m.kind = "data" BY DEF Data
  <1>2. m \in DataMessage BY DEF Data, DataMessage
  <1>3. m \in Message BY <1>2, MessageUnion
  <1> QED BY <1>1, <1>3 DEF Good, MessageOk, Other

LEMMA LoadRequestIs ==
  ASSUME NEW p \in Pair, NEW m, m = LoadRequest(p)
  PROVE  /\ Good(m)
         /\ \A q : m \notin HashOf(q) /\ (m \in RequestOf(q) <=> q = p) /\ m \notin AnswerOf(q)
PROOF
  <1>1. m.kind = "loadrequest" /\ m.pair = p BY DEF LoadRequest
  <1>2. m \in RequestMessage BY DEF LoadRequest, RequestMessage
  <1>3. m \in Message BY <1>2, MessageUnion
  <1> QED BY <1>1, <1>3 DEF Good, MessageOk, HashOf, RequestOf, AnswerOf

LEMMA LoadQueryIs ==
  ASSUME NEW p \in Pair, NEW a \in scenario.asked, NEW m, m = LoadQuery(p, a)
  PROVE  /\ Good(m)
         /\ \A q : m \notin HashOf(q) /\ m \notin RequestOf(q) /\ (m \in AnswerOf(q) <=> q = p)
PROOF
  <1>1. m.kind = "loadquery" /\ m.pair = p BY DEF LoadQuery
  <1>2. m \in QueryMessage BY DEF LoadQuery, QueryMessage
  <1>3. m \in Message BY <1>2, MessageUnion
  <1> QED BY <1>1, <1>3 DEF Good, MessageOk, HashOf, RequestOf, AnswerOf

LEMMA LoadIs ==
  ASSUME NEW p \in Pair, NEW a \in scenario.asked, NEW l \in Int, NEW m, m = Load(p, a, l)
  PROVE  /\ Good(m)
         /\ \A q : m \notin HashOf(q) /\ m \notin RequestOf(q) /\ (m \in AnswerOf(q) <=> q = p)
PROOF
  <1>1. m.kind = "load" /\ m.pair = p BY DEF Load
  <1>2. m \in LoadMessage BY DEF Load, LoadMessage
  <1>3. m \in Message BY <1>2, MessageUnion
  <1> QED BY <1>1, <1>3 DEF Good, MessageOk, HashOf, RequestOf, AnswerOf

LEMMA CountIs ==
  ASSUME NEW a \in Node \cup {Edge}, NEW record \in Seq(Node \cup {Edge}), Heads(record),
         NEW n \in Int, NEW ttl \in Nat \ {0}, NEW m, m = Count(a, record, n, ttl)
  PROVE  Good(m) /\ Other(m) /\ m.at = a
PROOF
  <1>1. m.kind = "count" /\ m.at = a /\ m.record = record BY DEF Count
  <1>2. m \in CountMessage BY DEF Count, CountMessage
  <1>3. m \in Message BY <1>2, MessageUnion
  <1> QED BY <1>1, <1>3 DEF Good, MessageOk, Other

LEMMA LinkFailureIs ==
  ASSUME NEW at \in {Edge, "controller"}, NEW a \in scenario.asked, a = broken, broken # Nowhere,
         NEW m, m = LinkFailure(at, a)
  PROVE  Good(m) /\ Other(m)
PROOF
  <1>1. m.kind = "linkfailure" /\ m.aggregate = a BY DEF LinkFailure
  <1>2. m \in FailureMessage BY DEF LinkFailure, FailureMessage
  <1>3. m \in Message BY <1>2, MessageUnion
  <1> QED BY <1>1, <1>3 DEF Good, MessageOk, Other

BrokenOk == broken \in scenario.breaks \cup {Nowhere}

LEMMA ThroughIs ==
  ASSUME scenario \in Scenarios, BrokenOk, NEW a \in Range(Up(Edge))
  PROVE  Through(a) \in Range(Up(Edge)) /\ Through(a) \in scenario.asked /\ a \in scenario.asked
PROOF
  <1>1. PICK u : u = Up(Edge) OBVIOUS
  <1>2. PICK n \in Nat \ {0} : n = Len(u) BY <1>1, ScenarioIs
  <1>3. Range(u) = {u[i] : i \in 1 .. n} /\ DOMAIN u = 1 .. n
        /\ \A i \in 1 .. n : u[i] \in scenario.asked
    BY <1>1, <1>2, ScenarioIs
  <1>4. CASE a # broken BY <1>1, <1>3, <1>4 DEF Through
  <1>5. CASE a = broken
    <2>1. n > 1
      <3>1. a # Nowhere BY <1>1, <1>3, ScenarioIs
      <3>2. scenario.breaks # {} BY <1>5, <3>1 DEF BrokenOk
      <3> QED BY <1>1, <1>2, <3>2, ScenarioIs
    <2>2. PICK i : i = CHOOSE j \in DOMAIN u : u[j] = a OBVIOUS
    <2>3. i \in 1 .. n
      <3>1. \E j \in DOMAIN u : u[j] = a BY <1>1, <1>3
      <3> QED BY <1>3, <2>2, <3>1, Zenon
    <2>4. Through(a) = u[IF i = n THEN i - 1 ELSE i + 1]
      <3>1. Through(a) = Detour(a) BY <1>5 DEF Through
      <3> QED BY <1>1, <1>2, <2>2, <3>1 DEF Detour
    <2>5. (IF i = n THEN i - 1 ELSE i + 1) \in 1 .. n BY <2>1, <2>3
    <2> QED BY <1>1, <1>3, <2>4, <2>5
  <1> QED BY <1>4, <1>5

OthersBag(b) == Network(b) /\ \A m \in DOMAIN b : Good(m) /\ Other(m)

LEMMA NoticeIs ==
  ASSUME NEW S, S \subseteq scenario.asked, scenario \in Scenarios, NEW b, b = Notice(S)
  PROVE  OthersBag(b)
PROOF
  <1>1. CASE broken \in S /\ ~told
    <2>1. PICK m : m = LinkFailure("controller", broken) OBVIOUS
    <2>2. b = One(m) BY <1>1, <2>1 DEF Notice
    <2>3. broken \in scenario.asked /\ broken # Nowhere BY <1>1, ScenarioIs
    <2>4. Good(m) /\ Other(m) BY <2>1, <2>3, LinkFailureIs
    <2>5. Network(b) /\ DOMAIN b = {m} BY <2>2, OneIs
    <2> QED BY <2>4, <2>5 DEF OthersBag
  <1>2. CASE ~(broken \in S /\ ~told)
    <2>1. b = EmptyBag BY <1>2 DEF Notice
    <2> QED BY <2>1, EmptyIs DEF OthersBag
  <1> QED BY <1>1, <1>2

LEMMA AboveAre ==
  ASSUME scenario \in Scenarios, NEW a \in Range(Up(Edge))
  PROVE  /\ a \in scenario.asked
         /\ Down(a) # Nowhere => <<a, Dest>> \in Routes /\ <<a, Dest>> \in Route
         /\ Down(a) = Nowhere =>
               /\ Up(a) \in Seq(scenario.asked) /\ Len(Up(a)) \in Nat \ {0}
               /\ Range(Up(a)) = {Up(a)[j] : j \in 1 .. Len(Up(a))}
               /\ \A c \in Range(Up(a)) : /\ c \in scenario.asked /\ Down(c) \in scenario.asked
                                          /\ <<a, c>> \in Routes /\ <<a, c>> \in Route
PROOF
  <1>1. PICK u : u = Up(Edge) OBVIOUS
  <1>2. PICK n \in Nat \ {0} : n = Len(u) BY <1>1, ScenarioIs
  <1>3. PICK i \in 1 .. n : a = u[i] BY <1>1, <1>2, ScenarioIs
  <1>4. a \in scenario.asked BY <1>1, <1>2, <1>3, ScenarioIs
  <1>5. CASE (\A k \in 1 .. n : Down(u[k]) = Dest) /\ Down(u[1]) # Nowhere
    <2>1. Routes = {<<u[k], Dest>> : k \in 1 .. n} BY <1>1, <1>2, <1>5 DEF Routes
    <2>2. <<a, Dest>> \in Routes BY <1>3, <2>1
    <2>3. Down(a) # Nowhere BY <1>3, <1>5, ScenarioIs
    <2> QED BY <1>4, <2>2, <2>3, RoutesAre
  <1>6. CASE /\ \A k \in 1 .. n :
                  /\ Down(u[k]) = Nowhere
                  /\ Up(u[k]) \in Seq(scenario.asked)
                  /\ Len(Up(u[k])) \in Nat \ {0}
                  /\ \A j \in 1 .. Len(Up(u[k])) :
                        /\ Up(u[k])[j] \in scenario.asked
                        /\ Down(Up(u[k])[j]) \in scenario.asked
             /\ Down(u[1]) = Nowhere
    <2>1. PICK v : v = Up(a) OBVIOUS
    <2>2. v \in Seq(scenario.asked) /\ Len(v) \in Nat \ {0}
          /\ \A j \in 1 .. Len(v) : v[j] \in scenario.asked /\ Down(v[j]) \in scenario.asked
      BY <1>3, <1>6, <2>1
    <2>3. Range(v) = {v[j] : j \in 1 .. Len(v)}
      <3>1. DOMAIN v = 1 .. Len(v) BY <2>2
      <3> QED BY <3>1 DEF Range
    <2>4. Down(a) = Nowhere BY <1>3, <1>6
    <2>5. PICK X : X = [k \in 1 .. n |-> {<<u[k], Up(u[k])[j]>> : j \in 1 .. Len(Up(u[k]))}] OBVIOUS
    <2>6. Routes = UNION {X[k] : k \in 1 .. n} BY <1>1, <1>2, <1>6, <2>5 DEF Routes
    <2>7. X[i] = {<<a, v[j]>> : j \in 1 .. Len(v)} BY <1>3, <2>1, <2>5
    <2>8. X[i] \subseteq Routes BY <2>6
    <2>9. \A c \in Range(v) : <<a, c>> \in Routes BY <2>3, <2>7, <2>8
    <2> QED BY <1>4, <2>1, <2>2, <2>3, <2>4, <2>9, RoutesAre
  <1> QED BY <1>1, <1>2, <1>5, <1>6, PodsAre

LEMMA HashRoutingIs ==
  ASSUME scenario \in Scenarios, NEW p \in Pair, NEW a, Len(Up(a)) \in Nat \ {0},
         Range(Up(a)) = {Up(a)[j] : j \in 1 .. Len(Up(a))}
  PROVE  hashRouting(p, a) \in Range(Up(a))
PROOF
  <1>1. PICK n \in Nat \ {0} : n = Len(Up(a)) OBVIOUS
  <1>2. PICK h \in Nat : h = scenario.hash[p] BY ScenarioIs
  <1>3. 1 + (h % n) \in 1 .. n OBVIOUS
  <1>4. hashRouting(p, a) = Up(a)[1 + (h % n)] BY <1>1, <1>2 DEF hashRouting
  <1> QED BY <1>1, <1>3, <1>4

-----------------------------------------------------------------------------
(* What is on its way and in pqueue, and how it is counted. *)

Loaded(b) == Network(b) /\ \A m \in DOMAIN b : Good(m)
Queued(q) == q \in Seq(Message) /\ \A i \in 1 .. Len(q) : Good(q[i]) /\ q[i].at = Edge

Packets == Loaded(net) /\ Queued(pqueue)

Flying(b, q, S) == InBag(b, S) + InQueue(q, S)

Hashes(p) == Flying(net, pqueue, HashOf(p))
Requests(p) == Flying(net, pqueue, RequestOf(p))
Answers(p) == Flying(net, pqueue, AnswerOf(p))

(* The counts of pair p are h, r and a more. *)
Counted(b, q, c, d, p, h, r, a) ==
    /\ Flying(c, d, HashOf(p)) = Flying(b, q, HashOf(p)) + h
    /\ Flying(c, d, RequestOf(p)) = Flying(b, q, RequestOf(p)) + r
    /\ Flying(c, d, AnswerOf(p)) = Flying(b, q, AnswerOf(p)) + a

LEMMA FlyingType ==
  ASSUME NEW b, Loaded(b), NEW q, Queued(q), NEW S
  PROVE  InBag(b, S) \in Nat /\ InQueue(q, S) \in Nat /\ Flying(b, q, S) \in Nat
PROOF
  BY InBagType, InQueueType DEF Loaded, Queued, Flying

(* None of the counts changes; m was taken off; m was served. *)
SameBag(b, c) ==
    \A p : /\ InBag(c, HashOf(p)) = InBag(b, HashOf(p))
           /\ InBag(c, RequestOf(p)) = InBag(b, RequestOf(p))
           /\ InBag(c, AnswerOf(p)) = InBag(b, AnswerOf(p))
SameQueue(q, d) ==
    \A p : /\ InQueue(d, HashOf(p)) = InQueue(q, HashOf(p))
           /\ InQueue(d, RequestOf(p)) = InQueue(q, RequestOf(p))
           /\ InQueue(d, AnswerOf(p)) = InQueue(q, AnswerOf(p))
Shrunk(b, m, c) == \A S : InBag(c, S) = InBag(b, S) - IsIn(m, S)
Served(q, m, d) == \A S : InQueue(d, S) = InQueue(q, S) - IsIn(m, S)

LEMMA SendOthers ==
  ASSUME NEW b, Loaded(b), NEW a, OthersBag(a), NEW c, Plus(b, a, c)
  PROVE  Loaded(c) /\ SameBag(b, c)
PROOF
  <1>1. Network(b) /\ Network(a) BY DEF Loaded, OthersBag
  <1>2. Network(c) /\ DOMAIN c = DOMAIN b \cup DOMAIN a
        /\ \A S : DOMAIN a \cap S = {} => InBag(c, S) = InBag(b, S)
    BY <1>1, PlusOthers
  <1>3. Loaded(c) BY <1>2 DEF Loaded, OthersBag
  <1>4. \A p : DOMAIN a \cap HashOf(p) = {} /\ DOMAIN a \cap RequestOf(p) = {}
               /\ DOMAIN a \cap AnswerOf(p) = {}
    BY OtherIs DEF OthersBag
  <1> QED BY <1>2, <1>3, <1>4 DEF SameBag

LEMMA SendOne ==
  ASSUME NEW b, Loaded(b), NEW m, Good(m), NEW c, Plus(b, One(m), c)
  PROVE  Loaded(c) /\ Grown(b, m, c)
PROOF
  <1>1. Network(b) BY DEF Loaded
  <1>2. Network(c) /\ Grown(b, m, c) BY <1>1, PlusOne
  <1>3. Loaded(c) BY <1>2 DEF Loaded, Grown
  <1> QED BY <1>2, <1>3

LEMMA SendOther ==
  ASSUME NEW b, Loaded(b), NEW m, Good(m), Other(m), NEW c, Plus(b, One(m), c)
  PROVE  Loaded(c) /\ SameBag(b, c)
PROOF
  <1>1. PICK a : a = One(m) OBVIOUS
  <1>2. Network(a) /\ DOMAIN a = {m} BY <1>1, OneIs
  <1>3. OthersBag(a) BY <1>2 DEF OthersBag
  <1>4. Plus(b, a, c) BY <1>1
  <1> QED BY <1>3, <1>4, SendOthers

LEMMA TakeOne ==
  ASSUME NEW b, Loaded(b), NEW m \in DOMAIN b, NEW c, Minus(b, One(m), c)
  PROVE  Loaded(c) /\ Shrunk(b, m, c)
PROOF
  <1>1. Network(b) BY DEF Loaded
  <1>2. Network(c) /\ DOMAIN c \subseteq DOMAIN b
        /\ \A S : InBag(c, S) = InBag(b, S) - IsIn(m, S)
    BY <1>1, MinusOne
  <1>3. Loaded(c) BY <1>2 DEF Loaded
  <1> QED BY <1>2, <1>3 DEF Shrunk

Others(t) == \A i \in 1 .. Len(t) : Good(t[i]) /\ Other(t[i]) /\ t[i].at = Edge

LEMMA QueueOthers ==
  ASSUME NEW q, Queued(q), NEW t \in Seq(Message), Others(t), NEW c, Joined(q, t, c)
  PROVE  Queued(c) /\ SameQueue(q, c)
PROOF
  <1>1. q \in Seq(Message) BY DEF Queued
  <1>2. PICK n \in Nat : n = Len(q) BY <1>1
  <1>3. PICK k \in Nat : k = Len(t) OBVIOUS
  <1>4. c \in Seq(Message) /\ Len(c) = n + k /\ (\A i \in 1 .. n : c[i] = q[i])
        /\ \A i \in 1 .. k : c[n + i] = t[i]
    BY <1>1, <1>2, <1>3 DEF Joined
  <1>5. ASSUME NEW i \in 1 .. n + k PROVE Good(c[i]) /\ c[i].at = Edge
    <2>1. CASE i \in 1 .. n BY <1>2, <1>4, <2>1 DEF Queued
    <2>2. CASE i \notin 1 .. n
      <3>1. i - n \in 1 .. k /\ n + (i - n) = i BY <2>2
      <3>2. c[i] = t[i - n] BY <1>4, <3>1
      <3> QED BY <1>3, <3>1, <3>2 DEF Others
    <2> QED BY <2>1, <2>2
  <1>6. Queued(c) BY <1>4, <1>5 DEF Queued
  <1>7. \A p : Without(t, HashOf(p)) /\ Without(t, RequestOf(p)) /\ Without(t, AnswerOf(p))
    BY OtherIs DEF Without, Others
  <1>8. ASSUME NEW S, Without(t, S) PROVE InQueue(c, S) = InQueue(q, S)
    BY <1>1, <1>8, QueueConcat
  <1> QED BY <1>6, <1>7, <1>8 DEF SameQueue

LEMMA QueueServed ==
  ASSUME NEW q, Queued(q), q # <<>>, NEW m, m = Head(q), NEW c, c = Tail(q)
  PROVE  Queued(c) /\ Good(m) /\ m.at = Edge /\ Served(q, m, c)
PROOF
  <1>1. q \in Seq(Message) BY DEF Queued
  <1>2. PICK n \in Nat \ {0} : n = Len(q) BY <1>1
  <1>3. c \in Seq(Message) /\ Len(c) = n - 1 /\ (\A i \in 1 .. n - 1 : c[i] = q[i + 1]) /\ m = q[1]
    BY <1>1, <1>2
  <1>4. ASSUME NEW i \in 1 .. n - 1 PROVE Good(c[i]) /\ c[i].at = Edge
    <2>1. i + 1 \in 1 .. n /\ c[i] = q[i + 1] BY <1>3
    <2> QED BY <1>2, <2>1 DEF Queued
  <1>5. Queued(c) BY <1>3, <1>4 DEF Queued
  <1>6. Good(m) /\ m.at = Edge
    <2>1. 1 \in 1 .. n OBVIOUS
    <2> QED BY <1>2, <1>3, <2>1 DEF Queued
  <1>7. \A S : InQueue(c, S) = InQueue(q, S) - IsIn(m, S) BY <1>1, QueueTail
  <1> QED BY <1>5, <1>6, <1>7 DEF Served

(* The topology and the broken link stay what they are. *)
Stays == scenario' = scenario /\ broken' = broken

LEMMA FamiliesStay ==
  ASSUME scenario' = scenario, NEW p
  PROVE  HashOf(p)' = HashOf(p) /\ RequestOf(p)' = RequestOf(p) /\ AnswerOf(p)' = AnswerOf(p)
PROOF
  <1>1. Message' = Message BY DEF Message, Node, Route
  <1> QED BY <1>1 DEF HashOf, RequestOf, AnswerOf

LEMMA GoodStays ==
  ASSUME Stays, NEW m
  PROVE  Good(m)' <=> Good(m)
PROOF
  <1>1. Message' = Message BY DEF Stays, Message, Node, Route
  <1>2. Routes' = Routes /\ Up(Edge)' = Up(Edge) /\ scenario.asked' = scenario.asked
    BY DEF Stays, Routes, Up, Down
  <1>3. MessageOk(m)' <=> MessageOk(m) BY <1>2 DEF MessageOk, Heads, Stays
  <1> QED BY <1>1, <1>3 DEF Good

(* The packets after a step, from what net and pqueue become. *)
LEMMA PacketsNext ==
  ASSUME Stays, NEW c, c = net', NEW d, d = pqueue', Loaded(c), Queued(d)
  PROVE  Packets'
PROOF
  <1>1. \A m : Good(m)' <=> Good(m) BY GoodStays
  <1>2. Message' = Message BY DEF Stays, Message, Node, Route
  <1>3. Loaded(net)'
    <2>1. \A m \in DOMAIN net' : Good(m) BY DEF Loaded
    <2>2. \A m \in DOMAIN net' : Good(m)' BY <1>1, <2>1
    <2>3. Network(net)' BY DEF Loaded, Network
    <2> QED BY <2>2, <2>3 DEF Loaded
  <1>4. Queued(pqueue)'
    <2>1. pqueue' \in Seq(Message') /\ \A i \in 1 .. Len(pqueue') : Good(pqueue'[i]) /\ pqueue'[i].at = Edge
      BY <1>2 DEF Queued
    <2>2. \A i \in 1 .. Len(d) : Good(d[i])' BY <1>1, <2>1
    <2>3. \A i \in 1 .. Len(pqueue') : Good(pqueue[i])'
      <3>1. ASSUME NEW i \in 1 .. Len(d) PROVE Good(pqueue[i])'
        <4>1. PICK m : m = d[i] OBVIOUS
        <4>2. Good(m)' /\ m = pqueue'[i] BY <2>2, <4>1
        <4> QED BY <1>2, <4>2 DEF Good, MessageOk, Heads
      <3> QED BY <3>1
    <2> QED BY <2>1, <2>3 DEF Queued
  <1> QED BY <1>3, <1>4 DEF Packets

(* The counts of pair p after the step. *)
Changed(p, h, r, a) ==
    Hashes(p)' = Hashes(p) + h /\ Requests(p)' = Requests(p) + r /\ Answers(p)' = Answers(p) + a

LEMMA CountedNext ==
  ASSUME Stays, NEW c, c = net', NEW d, d = pqueue', NEW p, NEW h, NEW r, NEW a,
         Counted(net, pqueue, c, d, p, h, r, a)
  PROVE  Changed(p, h, r, a)
PROOF
  <1>1. HashOf(p)' = HashOf(p) /\ RequestOf(p)' = RequestOf(p) /\ AnswerOf(p)' = AnswerOf(p)
    BY FamiliesStay DEF Stays
  <1>2. Hashes(p)' = Flying(c, d, HashOf(p)) /\ Requests(p)' = Flying(c, d, RequestOf(p))
        /\ Answers(p)' = Flying(c, d, AnswerOf(p))
    BY <1>1 DEF Hashes, Requests, Answers, Flying, InBag, InQueue, CopiesFor, CopiesOf, Places
  <1> QED BY <1>2 DEF Counted, Changed, Hashes, Requests, Answers

-----------------------------------------------------------------------------
(* Steps that serve a control packet, and steps of the other switches. *)

LEMMA ServeChange ==
  ASSUME Packets, Stays, pqueue # <<>>, NEW m, m = Head(pqueue), pqueue' = Tail(pqueue),
         NEW c, c = net', Loaded(c), SameBag(net, c)
  PROVE  /\ Packets' /\ Good(m) /\ m.at = Edge
         /\ \A p : Changed(p, 0 - IsIn(m, HashOf(p)), 0 - IsIn(m, RequestOf(p)), 0 - IsIn(m, AnswerOf(p)))
PROOF
  <1>1. PICK q : q = pqueue OBVIOUS
  <1>2. PICK d : d = Tail(q) OBVIOUS
  <1>3. Queued(q) /\ q # <<>> /\ m = Head(q) /\ d = pqueue' BY <1>1, <1>2 DEF Packets
  <1>4. Queued(d) /\ Good(m) /\ m.at = Edge /\ Served(q, m, d) BY <1>2, <1>3, QueueServed
  <1>5. Packets' BY <1>3, <1>4, PacketsNext
  <1>6. ASSUME NEW p
        PROVE  Changed(p, 0 - IsIn(m, HashOf(p)), 0 - IsIn(m, RequestOf(p)), 0 - IsIn(m, AnswerOf(p)))
    <2>1. PICK S1, S2, S3 : S1 = HashOf(p) /\ S2 = RequestOf(p) /\ S3 = AnswerOf(p) OBVIOUS
    <2>2. \A S : InBag(net, S) \in Nat /\ InQueue(q, S) \in Nat
      BY <1>3, FlyingType DEF Packets
    <2>3. /\ InBag(c, S1) = InBag(net, S1) /\ InBag(c, S2) = InBag(net, S2)
          /\ InBag(c, S3) = InBag(net, S3)
      BY <2>1 DEF SameBag
    <2>4. \A S : InQueue(d, S) = InQueue(q, S) - IsIn(m, S) BY <1>4 DEF Served
    <2>5. \A S : IsIn(m, S) \in Int BY DEF IsIn
    <2>6. \A S : InBag(c, S) = InBag(net, S) => Flying(c, d, S) = Flying(net, q, S) + (0 - IsIn(m, S))
      BY <2>2, <2>4, <2>5 DEF Flying
    <2>7. Counted(net, q, c, d, p, 0 - IsIn(m, S1), 0 - IsIn(m, S2), 0 - IsIn(m, S3))
      BY <2>1, <2>3, <2>6 DEF Counted
    <2> QED BY <1>1, <1>3, <2>1, <2>7, CountedNext
  <1> QED BY <1>4, <1>5, <1>6

LEMMA OneOther ==
  ASSUME NEW m, Good(m), Other(m)
  PROVE  OthersBag(One(m))
PROOF
  <1>1. PICK a : a = One(m) OBVIOUS
  <1>2. Network(a) /\ DOMAIN a = {m} BY <1>1, OneIs
  <1>3. OthersBag(a) BY <1>2 DEF OthersBag
  <1> QED BY <1>1, <1>3

LEMMA NoneOther == OthersBag(EmptyBag)
PROOF
  BY EmptyIs DEF OthersBag

(* The step takes m off the network and puts a on it. *)
Relays(m, a) == net' = (net (-) One(m)) (+) a

LEMMA RelayOther ==
  ASSUME Packets, Stays, NEW m \in DOMAIN net, Other(m), NEW a, OthersBag(a), Relays(m, a),
         pqueue' = pqueue
  PROVE  Packets' /\ \A p : Changed(p, 0, 0, 0)
PROOF
  <1>1. PICK b : b = net OBVIOUS
  <1>2. PICK b1 : b1 = b (-) One(m) OBVIOUS
  <1>3. PICK c : c = b1 (+) a OBVIOUS
  <1>4. Minus(b, One(m), b1) /\ Plus(b1, a, c) /\ c = net'
    BY <1>1, <1>2, <1>3 DEF Minus, Plus, Relays
  <1>5. Loaded(b) /\ Queued(pqueue) /\ m \in DOMAIN b BY <1>1 DEF Packets
  <1>6. Loaded(b1) /\ Shrunk(b, m, b1) BY <1>4, <1>5, TakeOne
  <1>7. Loaded(c) /\ SameBag(b1, c) BY <1>4, <1>6, SendOthers
  <1>8. Packets' BY <1>4, <1>5, <1>7, PacketsNext
  <1>9. ASSUME NEW p PROVE Changed(p, 0, 0, 0)
    <2>1. PICK q : q = pqueue OBVIOUS
    <2>2. \A S : InBag(b, S) \in Nat /\ InQueue(q, S) \in Nat BY <1>5, <2>1, FlyingType
    <2>3. \A S : m \notin S => InBag(b1, S) = InBag(b, S) BY <1>6, <2>2 DEF Shrunk, IsIn
    <2>4. PICK S1, S2, S3 : S1 = HashOf(p) /\ S2 = RequestOf(p) /\ S3 = AnswerOf(p) OBVIOUS
    <2>5. m \notin S1 /\ m \notin S2 /\ m \notin S3 BY <2>4, OtherIs
    <2>6. /\ InBag(c, S1) = InBag(b1, S1) /\ InBag(c, S2) = InBag(b1, S2)
          /\ InBag(c, S3) = InBag(b1, S3)
      BY <1>7, <2>4 DEF SameBag
    <2>7. /\ InBag(c, S1) = InBag(b, S1) /\ InBag(c, S2) = InBag(b, S2)
          /\ InBag(c, S3) = InBag(b, S3)
      BY <2>3, <2>5, <2>6
    <2>8. \A S : InBag(c, S) = InBag(b, S) => Flying(c, q, S) = Flying(b, q, S) + 0
      BY <2>2 DEF Flying
    <2>9. Counted(b, q, c, q, p, 0, 0, 0) BY <2>4, <2>7, <2>8 DEF Counted
    <2> QED BY <1>1, <1>4, <2>1, <2>9, CountedNext
  <1> QED BY <1>8, <1>9

(* The two are counted alike. *)
Alike(m, x) ==
    \A p : /\ x \in HashOf(p) <=> m \in HashOf(p)
           /\ x \in RequestOf(p) <=> m \in RequestOf(p)
           /\ x \in AnswerOf(p) <=> m \in AnswerOf(p)

LEMMA RelayAlike ==
  ASSUME Packets, Stays, NEW m \in DOMAIN net, NEW x, Good(x), Alike(m, x), Relays(m, One(x)),
         pqueue' = pqueue
  PROVE  Packets' /\ \A p : Changed(p, 0, 0, 0)
PROOF
  <1>1. PICK b : b = net OBVIOUS
  <1>2. PICK b1 : b1 = b (-) One(m) OBVIOUS
  <1>3. PICK c : c = b1 (+) One(x) OBVIOUS
  <1>4. Minus(b, One(m), b1) /\ Plus(b1, One(x), c) /\ c = net'
    BY <1>1, <1>2, <1>3 DEF Minus, Plus, Relays
  <1>5. Loaded(b) /\ Queued(pqueue) /\ m \in DOMAIN b BY <1>1 DEF Packets
  <1>6. Loaded(b1) /\ Shrunk(b, m, b1) BY <1>4, <1>5, TakeOne
  <1>7. Loaded(c) /\ Grown(b1, x, c) BY <1>4, <1>6, SendOne
  <1>8. Packets' BY <1>4, <1>5, <1>7, PacketsNext
  <1>9. ASSUME NEW p PROVE Changed(p, 0, 0, 0)
    <2>1. PICK q : q = pqueue OBVIOUS
    <2>2. \A S : InBag(b, S) \in Nat /\ InBag(b1, S) \in Nat /\ InQueue(q, S) \in Nat
      BY <1>5, <1>6, <2>1, FlyingType
    <2>3. \A S : InBag(b1, S) = InBag(b, S) - IsIn(m, S) BY <1>6 DEF Shrunk
    <2>4. \A S : InBag(c, S) = InBag(b1, S) + IsIn(x, S) BY <1>7 DEF Grown
    <2>5. \A S : (x \in S <=> m \in S) => InBag(c, S) = InBag(b, S)
      BY <2>2, <2>3, <2>4 DEF IsIn
    <2>6. \A S : InBag(c, S) = InBag(b, S) => Flying(c, q, S) = Flying(b, q, S) + 0
      BY <2>2 DEF Flying
    <2>7. Counted(b, q, c, q, p, 0, 0, 0) BY <2>5, <2>6 DEF Counted, Alike
    <2> QED BY <1>1, <1>4, <2>1, <2>7, CountedNext
  <1> QED BY <1>8, <1>9

LEMMA DropOther ==
  ASSUME Packets, Stays, NEW m \in DOMAIN net, Other(m), net' = net (-) One(m), pqueue' = pqueue
  PROVE  Packets' /\ \A p : Changed(p, 0, 0, 0)
PROOF
  <1>1. PICK b : b = net OBVIOUS
  <1>2. PICK c : c = b (-) One(m) OBVIOUS
  <1>3. Minus(b, One(m), c) /\ c = net' BY <1>1, <1>2 DEF Minus
  <1>4. Loaded(b) /\ Queued(pqueue) /\ m \in DOMAIN b BY <1>1 DEF Packets
  <1>5. Loaded(c) /\ Shrunk(b, m, c) BY <1>3, <1>4, TakeOne
  <1>6. Packets' BY <1>3, <1>4, <1>5, PacketsNext
  <1>7. ASSUME NEW p PROVE Changed(p, 0, 0, 0)
    <2>1. PICK q : q = pqueue OBVIOUS
    <2>2. \A S : InBag(b, S) \in Nat /\ InQueue(q, S) \in Nat BY <1>4, <2>1, FlyingType
    <2>3. \A S : m \notin S => InBag(c, S) = InBag(b, S) BY <1>5, <2>2 DEF Shrunk, IsIn
    <2>4. \A S : m \notin S => Flying(c, q, S) = Flying(b, q, S) + 0 BY <2>2, <2>3 DEF Flying
    <2>5. Counted(b, q, c, q, p, 0, 0, 0) BY <2>4, OtherIs DEF Counted
    <2> QED BY <1>1, <1>3, <2>1, <2>5, CountedNext
  <1> QED BY <1>6, <1>7

(* None of the counts changes in the step. *)
Still == \A p : Changed(p, 0, 0, 0)

LEMMA ThreeSeq ==
  ASSUME NEW S, NEW a \in S, NEW b \in S, NEW c \in S
  PROVE  <<a, b, c>> \in Seq(S)
PROOF
  OBVIOUS

LEMMA ProbeRelay ==
  ASSUME scenario \in Scenarios, Packets, Stays, NEW m \in DOMAIN net, m.at # Edge,
         ProbeAtAggregate(m), pqueue' = pqueue
  PROVE  Packets' /\ Still
PROOF
  <1>1. Good(m) /\ m.kind = "probe" BY DEF Packets, Loaded, ProbeAtAggregate
  <1>2. m.pair \in Pair BY <1>1, FieldsOf DEF Good, Fields
  <1>3. PICK p \in Pair : p = m.pair BY <1>2
  <1>4. PICK a : a = m.at OBVIOUS
  <1>5. a \in Range(Up(Edge)) BY <1>1, <1>4 DEF Good, MessageOk
  <1>6. Other(m) BY <1>1 DEF Other
  <1>7. CASE Down(a) # Nowhere
    <2>1. PICK up : up = <<a, Dest>> OBVIOUS
    <2>2. PICK via : via = <<a>> OBVIOUS
    <2>3. PICK x : x = Found(p, up, via) OBVIOUS
    <2>4. up \in Route /\ up \in Routes /\ via \in Seq(scenario.asked)
      BY <1>5, <1>7, <2>1, <2>2, AboveAre
    <2>5. Good(x) /\ Other(x) BY <2>3, <2>4, FoundIs
    <2>6. OthersBag(One(x)) BY <2>5, OneOther
    <2>7. Relays(m, One(x)) BY <1>3, <1>4, <1>7, <2>1, <2>2, <2>3 DEF ProbeAtAggregate, Relays
    <2> QED BY <1>6, <2>6, <2>7, RelayOther DEF Still
  <1>8. CASE Down(a) = Nowhere
    <2>1. PICK n \in Nat : n = Len(Up(a)) BY <1>5, <1>8, AboveAre
    <2>2. PICK R : R = Range(Up(a)) OBVIOUS
    <2>3. R = {Up(a)[j] : j \in 1 .. n} BY <1>5, <1>8, <2>1, <2>2, AboveAre
    <2>4. \A c \in R : /\ c \in scenario.asked /\ Down(c) \in scenario.asked
                       /\ <<a, c>> \in Routes /\ <<a, c>> \in Route
      BY <1>5, <1>8, <2>2, AboveAre
    <2>5. PICK f : f = [j \in 1 .. n |-> Found(p, <<a, Up(a)[j]>>, <<a, Up(a)[j], Down(Up(a)[j])>>)]
      OBVIOUS
    <2>6. PICK T : T = {Found(p, <<a, c>>, <<a, c, Down(c)>>) : c \in R} OBVIOUS
    <2>7. T = {f[j] : j \in 1 .. n} BY <2>3, <2>5, <2>6
    <2>8. IsFiniteSet(T) BY <2>7, ListCard
    <2>9. ASSUME NEW c \in R, NEW x, x = Found(p, <<a, c>>, <<a, c, Down(c)>>)
          PROVE  Good(x) /\ Other(x)
      <3>1. PICK up : up = <<a, c>> OBVIOUS
      <3>2. PICK via : via = <<a, c, Down(c)>> OBVIOUS
      <3>3. a \in scenario.asked BY <1>5, AboveAre
      <3>4. up \in Route /\ up \in Routes /\ via \in Seq(scenario.asked)
        <4>1. PICK d : d = Down(c) OBVIOUS
        <4>2. c \in scenario.asked /\ d \in scenario.asked BY <2>4, <4>1
        <4>3. via = <<a, c, d>> BY <3>2, <4>1
        <4>4. via \in Seq(scenario.asked) BY <3>3, <4>2, <4>3, ThreeSeq
        <4>5. up \in Route /\ up \in Routes BY <2>4, <3>1
        <4> QED BY <4>4, <4>5
      <3>5. x = Found(p, up, via) BY <2>9, <3>1, <3>2
      <3> QED BY <3>4, <3>5, FoundIs
    <2>10. Network(Each(T)) /\ DOMAIN Each(T) = T BY <2>8, EachIs
    <2>11. PICK t : t = Each(T) OBVIOUS
    <2>12. OthersBag(t)
      <3>1. \A x \in T : Good(x) /\ Other(x) BY <2>6, <2>9
      <3> QED BY <2>10, <2>11, <3>1 DEF OthersBag
    <2>13. Relays(m, t)
      <3>1. Each({Found(m.pair, <<m.at, c>>, <<m.at, c, Down(c)>>) : c \in Range(Up(m.at))}) = t
        BY <1>3, <1>4, <2>2, <2>6, <2>11
      <3> QED BY <1>4, <1>8, <3>1 DEF ProbeAtAggregate, Relays
    <2> QED BY <1>6, <2>12, <2>13, RelayOther DEF Still
  <1> QED BY <1>7, <1>8

LEMMA HashRelay ==
  ASSUME scenario \in Scenarios, Packets, Stays, NEW m \in DOMAIN net, m.at # Edge,
         HashAtAggregate(m), pqueue' = pqueue
  PROVE  Packets' /\ Still
PROOF
  <1>1. Good(m) /\ m.kind = "hashed" BY DEF Packets, Loaded, HashAtAggregate
  <1>2. m.pair \in Pair BY <1>1, FieldsOf DEF Good, Fields
  <1>3. PICK p \in Pair : p = m.pair BY <1>2
  <1>4. PICK a : a = m.at OBVIOUS
  <1>5. a \in Range(Up(Edge)) BY <1>1, <1>4 DEF Good, MessageOk
  <1>6. PICK up : up = <<a, IF Down(a) # Nowhere THEN Dest ELSE hashRouting(p, a)>> OBVIOUS
  <1>7. up \in Routes /\ up \in Route
    <2>1. CASE Down(a) # Nowhere BY <1>5, <1>6, <2>1, AboveAre
    <2>2. CASE Down(a) = Nowhere
      <3>1. hashRouting(p, a) \in Range(Up(a)) BY <1>5, <2>2, AboveAre, HashRoutingIs
      <3> QED BY <1>5, <1>6, <2>2, <3>1, AboveAre
    <2> QED BY <2>1, <2>2
  <1>8. PICK x : x = HashRoute(p, up) OBVIOUS
  <1>9. Good(x) /\ \A q : (x \in HashOf(q) <=> q = p) /\ x \notin RequestOf(q) /\ x \notin AnswerOf(q)
    BY <1>7, <1>8, HashRouteIs
  <1>10. \A q : (m \in HashOf(q) <=> q = p) /\ m \notin RequestOf(q) /\ m \notin AnswerOf(q)
    BY <1>1, <1>3 DEF Good, HashOf, RequestOf, AnswerOf
  <1>11. Alike(m, x) BY <1>9, <1>10 DEF Alike
  <1>12. Relays(m, One(x))
    <2>1. HashRoute(m.pair, <<m.at, IF Down(m.at) # Nowhere THEN Dest ELSE hashRouting(m.pair, m.at)>>) = x
      BY <1>3, <1>4, <1>6, <1>8
    <2> QED BY <2>1 DEF HashAtAggregate, Relays
  <1> QED BY <1>9, <1>11, <1>12, RelayAlike DEF Still

LEMMA DataRelay ==
  ASSUME scenario \in Scenarios, Packets, Stays, NEW m \in DOMAIN net, DataAtSwitch(m),
         future \in [Switch -> Int], pqueue' = pqueue
  PROVE  Packets' /\ Still /\ future' \in [Switch -> Int]
PROOF
  <1>1. Good(m) /\ m.kind = "data" BY DEF Packets, Loaded, DataAtSwitch
  <1>2. m.at \in scenario.asked /\ m.core \in Node BY <1>1, FieldsOf DEF Good, Fields
  <1>3. PICK a \in scenario.asked : a = m.at BY <1>2
  <1>4. PICK next : next = IF Down(a) # Nowhere THEN Down(a)
                           ELSE IF m.core \in Range(Up(a)) THEN m.core ELSE Nowhere
    OBVIOUS
  <1>5. next \in Node
    <2>1. Down(a) \in Node BY <1>3, ScenarioIs DEF Node
    <2>2. Nowhere \in Node BY DEF Node
    <2> QED BY <1>2, <1>4, <2>1, <2>2
  <1>6. Other(m) BY <1>1 DEF Other
  <1>7. future' = IF next = Nowhere THEN future ELSE [future EXCEPT ![a] = @ - 1]
    BY <1>3, <1>4 DEF DataAtSwitch
  <1>8. future' \in [Switch -> Int]
    <2>1. a \in Switch BY <1>3, ScenarioIs
    <2> QED BY <1>7, <2>1
  <1>9. PICK t : t = IF next \in {Nowhere, Dest} THEN EmptyBag ELSE One(Data(next, m.core)) OBVIOUS
  <1>10. Relays(m, t) BY <1>3, <1>4, <1>9 DEF DataAtSwitch, Relays
  <1>11. OthersBag(t)
    <2>1. CASE next \in {Nowhere, Dest} BY <1>9, <2>1, NoneOther
    <2>2. CASE next \notin {Nowhere, Dest}
      <3>1. PICK x : x = Data(next, m.core) OBVIOUS
      <3>2. next \in scenario.asked BY <1>5, <2>2 DEF Node
      <3>3. Good(x) /\ Other(x) BY <1>2, <3>1, <3>2, DataIs
      <3> QED BY <1>9, <2>2, <3>1, <3>3, OneOther
    <2> QED BY <2>1, <2>2
  <1> QED BY <1>6, <1>8, <1>10, <1>11, RelayOther DEF Still

LEMMA Unmoved ==
  ASSUME Packets, Stays, net' = net, pqueue' = pqueue
  PROVE  Packets' /\ Still
PROOF
  <1>1. PICK b, q : b = net /\ q = pqueue OBVIOUS
  <1>2. Loaded(b) /\ Queued(q) BY <1>1 DEF Packets
  <1>3. Packets' BY <1>1, <1>2, PacketsNext
  <1>4. ASSUME NEW p PROVE Changed(p, 0, 0, 0)
    <2>1. \A S : Flying(b, q, S) \in Nat BY <1>2, FlyingType
    <2>2. Counted(b, q, b, q, p, 0, 0, 0) BY <2>1 DEF Counted
    <2> QED BY <1>1, <2>2, CountedNext
  <1> QED BY <1>3, <1>4 DEF Still

LEMMA RecordedIs ==
  ASSUME NEW node \in Node \cup {Edge}, NEW old \in Seq(Node \cup {Edge}), Heads(old),
         NEW record, record = Recorded(old, node)
  PROVE  record \in Seq(Node \cup {Edge}) /\ Heads(record)
PROOF
  <1>1. PICK n \in Nat : n = Len(old) OBVIOUS
  <1>2. PICK S : S = Node \cup {Edge} OBVIOUS
  <1>3. CASE n < 6
    <2>1. record = Append(old, node) BY <1>1, <1>3 DEF Recorded
    <2>2. record \in Seq(S) BY <1>2, <2>1
    <2>3. n >= 2 /\ old[1] = Edge /\ old[2] \in scenario.asked BY <1>1 DEF Heads
    <2>4. Len(record) = n + 1 /\ DOMAIN record = 1 .. n + 1
      BY <1>1, <1>2, <2>1
    <2>5. record[1] = old[1] /\ record[2] = old[2] BY <1>1, <1>2, <2>1, <2>3
    <2>6. 1 \in 1 .. n + 1 /\ 2 \in 1 .. n + 1 /\ n + 1 >= 2 BY <2>3
    <2> QED BY <1>2, <2>2, <2>3, <2>4, <2>5, <2>6 DEF Heads
  <1>4. CASE ~(n < 6)
    <2>1. record = old BY <1>1, <1>4 DEF Recorded
    <2> QED BY <2>1
  <1> QED BY <1>3, <1>4

LEMMA SuccessorIs ==
  ASSUME scenario \in Scenarios, NEW record \in Seq(Node \cup {Edge}), Heads(record)
  PROVE  /\ \A node : Successor(record, node) \in Node \cup {Edge}
         /\ Successor(record, Edge) = record[2] /\ record[2] \in scenario.asked
PROOF
  <1>1. PICK n \in Nat : n = Len(record) OBVIOUS
  <1>2. DOMAIN record = 1 .. n /\ \A i \in 1 .. n : record[i] \in Node \cup {Edge} BY <1>1
  <1>3. ASSUME NEW node PROVE Successor(record, node) \in Node \cup {Edge}
    <2>1. PICK k : k = Position(record, node) OBVIOUS
    <2>2. Successor(record, node) = IF k + 1 \in DOMAIN record THEN record[k + 1] ELSE Nowhere
      BY <2>1 DEF Successor
    <2> QED BY <1>2, <2>2 DEF Node
  <1>4. 1 \in 1 .. n /\ 2 \in 1 .. n /\ record[1] = Edge /\ record[2] \in scenario.asked
    BY <1>2 DEF Heads
  <1>5. Position(record, Edge) = 1
    <2>1. PICK k : k = CHOOSE i \in 1 .. n :
                          record[i] = Edge /\ \A j \in 1 .. i - 1 : record[j] # Edge
      OBVIOUS
    <2>2. \E i \in 1 .. n : record[i] = Edge /\ \A j \in 1 .. i - 1 : record[j] # Edge BY <1>4
    <2>3. k \in 1 .. n /\ \A j \in 1 .. k - 1 : record[j] # Edge BY <2>1, <2>2, Zenon
    <2>4. k = 1 BY <1>1, <1>4, <2>3
    <2> QED BY <1>2, <2>1, <2>4 DEF Position
  <1>6. Successor(record, Edge) = record[2] BY <1>2, <1>4, <1>5 DEF Successor
  <1> QED BY <1>3, <1>4, <1>6

LEMMA CountRelay ==
  ASSUME scenario \in Scenarios, Packets, Stays, NEW m \in DOMAIN net, m.at # Edge,
         CountAtSwitch(m), future \in [Switch -> Int], pqueue' = pqueue
  PROVE  /\ Packets' /\ Still /\ future' \in [Switch -> Int]
         /\ err' \in {err, "no_route", "not_an_ICMPMessage"}
PROOF
  <1>1. Good(m) /\ m.kind = "count" BY DEF Packets, Loaded, CountAtSwitch
  <1>2. /\ m.at \in Node \cup {Edge} /\ m.record \in Seq(Node \cup {Edge})
        /\ m.n \in Int /\ m.ttl \in Nat \ {0}
    BY <1>1, FieldsOf DEF Good, Fields
  <1>3. Other(m) BY <1>1 DEF Other
  <1>4. future' \in [Switch -> Int]
    <2>1. future' = [future EXCEPT ![m.at] = @ + m.n] BY DEF CountAtSwitch
    <2>2. PICK a, n : a = m.at /\ n = m.n OBVIOUS
    <2>3. n \in Int BY <1>2, <2>2
    <2>4. future' = [future EXCEPT ![a] = future[a] + n] BY <2>1, <2>2
    <2>5. CASE a \in Switch BY <2>3, <2>4, <2>5
    <2>6. CASE a \notin Switch
      <3>1. future' = future BY <2>4, <2>6
      <3> QED BY <3>1
    <2> QED BY <2>5, <2>6
  <1>5. PICK record : record = Recorded(m.record, m.at) OBVIOUS
  <1>6. record \in Seq(Node \cup {Edge}) /\ Heads(record)
    <2>1. PICK node, old : node = m.at /\ old = m.record OBVIOUS
    <2>2. Heads(old) BY <1>1, <2>1 DEF Good, MessageOk
    <2> QED BY <1>2, <1>5, <2>1, <2>2, RecordedIs
  <1>7. CASE Ends(record, m.at)
    <2>1. net' = net (-) One(m) /\ err' = err BY <1>5, <1>7 DEF CountAtSwitch
    <2>2. Packets' /\ \A p : Changed(p, 0, 0, 0) BY <1>3, <2>1, DropOther
    <2> QED BY <1>4, <2>1, <2>2 DEF Still
  <1>8. CASE ~Ends(record, m.at)
    <2>1. CountSent(m, record) BY <1>5, <1>8 DEF CountAtSwitch
    <2>2. CASE net' = net /\ err' \in {"no_route", "not_an_ICMPMessage"}
      BY <1>4, <2>2, Unmoved
    <2>3. CASE /\ m.ttl > 1 /\ err' = err
               /\ net' = (net (-) One(m))
                            (+) One(Count(Successor(record, m.at), record, m.n, m.ttl - 1))
      <3>1. PICK h : h = Successor(record, m.at) OBVIOUS
      <3>2. h \in Node \cup {Edge} BY <1>6, <3>1, SuccessorIs
      <3>3. PICK n \in Int : n = m.n BY <1>2
      <3>4. PICK t \in Nat \ {0} : t = m.ttl - 1 BY <1>2, <2>3
      <3>5. PICK x : x = Count(h, record, n, t) OBVIOUS
      <3>6. Good(x) /\ Other(x) BY <1>6, <3>2, <3>5, CountIs
      <3>7. OthersBag(One(x)) BY <3>6, OneOther
      <3>8. Relays(m, One(x)) BY <2>3, <3>1, <3>3, <3>4, <3>5 DEF Relays
      <3>9. Packets' /\ \A p : Changed(p, 0, 0, 0) BY <1>3, <3>7, <3>8, RelayOther
      <3> QED BY <1>4, <2>3, <3>9 DEF Still
    <2> QED BY <2>1, <2>2, <2>3 DEF CountSent
  <1> QED BY <1>7, <1>8

LEMMA AnswerRelay ==
  ASSUME scenario \in Scenarios, Packets, Stays, NEW m \in DOMAIN net, AnswerLoad(m),
         future \in [Switch -> Int], pqueue' = pqueue
  PROVE  Packets' /\ Still /\ err' \in {err, "reply_taken_for_request"}
PROOF
  <1>1. Good(m) /\ m.kind = "loadquery" BY DEF Packets, Loaded, AnswerLoad
  <1>2. m.pair \in Pair /\ m.at \in scenario.asked BY <1>1, FieldsOf DEF Good, Fields
  <1>3. PICK p \in Pair, a \in scenario.asked : p = m.pair /\ a = m.at BY <1>2
  <1>4. PICK sum : sum = scenario.queueLen[a] + future[a] OBVIOUS
  <1>5. sum \in Int
    <2>1. scenario.queueLen[a] \in Nat BY ScenarioIs
    <2>2. a \in Switch BY ScenarioIs
    <2> QED BY <1>4, <2>1, <2>2
  <1>6. PICK load \in Int : load = IF sum = 0 THEN 1 ELSE sum BY <1>5
  <1>7. CASE load = -1
    <2>1. net' = net /\ err' = "reply_taken_for_request"
      BY <1>3, <1>4, <1>6, <1>7 DEF AnswerLoad
    <2> QED BY <2>1, Unmoved
  <1>8. CASE load # -1
    <2>1. PICK x : x = Load(p, a, load) OBVIOUS
    <2>2. Relays(m, One(x)) /\ err' = err
      BY <1>3, <1>4, <1>6, <1>8, <2>1 DEF AnswerLoad, Relays
    <2>3. Good(x) /\ \A q : x \notin HashOf(q) /\ x \notin RequestOf(q) /\ (x \in AnswerOf(q) <=> q = p)
      BY <2>1, LoadIs
    <2>4. \A q : m \notin HashOf(q) /\ m \notin RequestOf(q) /\ (m \in AnswerOf(q) <=> q = p)
      BY <1>1, <1>3 DEF Good, HashOf, RequestOf, AnswerOf
    <2>5. Alike(m, x) BY <2>3, <2>4 DEF Alike
    <2>6. Packets' /\ \A q : Changed(q, 0, 0, 0) BY <2>2, <2>3, <2>5, RelayAlike
    <2> QED BY <2>2, <2>6 DEF Still
  <1> QED BY <1>7, <1>8

LEMMA FailureRelay ==
  ASSUME scenario \in Scenarios, Packets, Stays, NEW m \in DOMAIN net, FailureAtController(m),
         pqueue' = pqueue
  PROVE  Packets' /\ Still
PROOF
  <1>1. Good(m) /\ m.kind = "linkfailure" BY DEF Packets, Loaded, FailureAtController
  <1>2. Other(m) BY <1>1 DEF Other
  <1>3. PICK x : x = [m EXCEPT !.at = Edge] OBVIOUS
  <1>4. m \in FailureMessage
    <2>1. m.kind = "linkfailure" /\ m \in Message BY <1>1 DEF Good
    <2> QED BY <2>1, MessageUnion
      DEF ProbeOrHashed, FoundMessage, HashRouteMessage, DataMessage, RequestMessage,
          QueryMessage, LoadMessage, CountMessage, FailureMessage
  <1>5. x \in FailureMessage /\ x.kind = "linkfailure" /\ x.aggregate = m.aggregate
    BY <1>3, <1>4 DEF FailureMessage
  <1>6. x \in Message BY <1>5, MessageUnion
  <1>7. Good(x) /\ Other(x) BY <1>1, <1>5, <1>6 DEF Good, MessageOk, Other
  <1>8. OthersBag(One(x)) BY <1>7, OneOther
  <1>9. Relays(m, One(x)) BY <1>3 DEF FailureAtController, Relays
  <1> QED BY <1>2, <1>8, <1>9, RelayOther DEF Still

LEMMA ImageFinite ==
  ASSUME NEW A, IsFiniteSet(A), NEW f, NEW T, T = {f[n] : n \in A}
  PROVE  IsFiniteSet(T)
PROOF
  <1>1. PICK g : g = [n \in A |-> f[n]] OBVIOUS
  <1>2. g \in Surjection(A, T) BY <1>1 DEF Surjection
  <1> QED BY <1>2, FS_Surjection

LEMMA AskRelay ==
  ASSUME scenario \in Scenarios, Packets, Stays, NEW m \in DOMAIN net, AskLoads(m),
         pqueue' = pqueue, NEW p, p = m.pair, Answers(p) = 0
  PROVE  /\ Packets' /\ p \in Pair
         /\ \A q : q # p => Changed(q, 0, 0, 0)
         /\ \E a \in 0 .. NumLoads : Changed(p, 0, -1, a)
         /\ Requests(p) >= 1
PROOF
  <1>1. Good(m) /\ m.kind = "loadrequest" BY DEF Packets, Loaded, AskLoads
  <1>2. p \in Pair BY <1>1, FieldsOf DEF Good, Fields
  <1>3. PICK A : A = scenario.asked OBVIOUS
  <1>4. IsFiniteSet(A) BY <1>3, ScenarioIs
  <1>5. PICK f : f = [n \in A |-> LoadQuery(p, n)] OBVIOUS
  <1>6. PICK T : T = {LoadQuery(p, n) : n \in A} OBVIOUS
  <1>7. T = {f[n] : n \in A} BY <1>5, <1>6
  <1>8. IsFiniteSet(T) BY <1>4, <1>7, ImageFinite
  <1>9. ASSUME NEW x \in T
        PROVE  /\ Good(x)
               /\ \A q : /\ x \notin HashOf(q) /\ x \notin RequestOf(q)
                         /\ (x \in AnswerOf(q) <=> q = p)
    <2>1. PICK n \in A : x = LoadQuery(p, n) BY <1>6
    <2> QED BY <1>2, <1>3, <2>1, LoadQueryIs
  <1>10. PICK t : t = Each(T) OBVIOUS
  <1>11. Network(t) /\ DOMAIN t = T BY <1>8, <1>10, EachIs
  <1>12. PICK b : b = net OBVIOUS
  <1>13. PICK b1 : b1 = b (-) One(m) OBVIOUS
  <1>14. PICK c : c = b1 (+) t OBVIOUS
  <1>15. Minus(b, One(m), b1) /\ Plus(b1, t, c) /\ Plus(b1, Each(T), c)
    BY <1>10, <1>13, <1>14 DEF Minus, Plus
  <1>16. c = net'
    <2>1. {LoadQuery(m.pair, n) : n \in scenario.asked} = T BY <1>3, <1>6
    <2> QED BY <2>1, <1>10, <1>12, <1>13, <1>14 DEF AskLoads
  <1>17. Loaded(b) /\ Queued(pqueue) /\ m \in DOMAIN b BY <1>12 DEF Packets
  <1>18. Loaded(b1) /\ Shrunk(b, m, b1) BY <1>15, <1>17, TakeOne
  <1>19. Network(b1) BY <1>18 DEF Loaded
  <1>20. Network(c) /\ DOMAIN c = DOMAIN b1 \cup DOMAIN t
         /\ \A S : DOMAIN t \cap S = {} => InBag(c, S) = InBag(b1, S)
    BY SMTT(30), <1>11, <1>15, <1>19, PlusOthers
  <1>21. Loaded(c) BY <1>9, <1>11, <1>18, <1>20 DEF Loaded
  <1>22. Packets' BY <1>16, <1>17, <1>21, PacketsNext
  <1>23. PICK d : d = pqueue OBVIOUS
  <1>24. \A S : InBag(b, S) \in Nat /\ InBag(b1, S) \in Nat /\ InBag(c, S) \in Nat
                /\ InQueue(d, S) \in Nat
    BY <1>17, <1>18, <1>21, <1>23, FlyingType
  <1>25. \A S : InBag(b1, S) = InBag(b, S) - IsIn(m, S) BY <1>18 DEF Shrunk
  <1>26. \A q : (m \in RequestOf(q) <=> q = p) /\ m \notin HashOf(q) /\ m \notin AnswerOf(q)
    BY <1>1 DEF Good, HashOf, RequestOf, AnswerOf
  <1>27. \A S : DOMAIN t \cap S = {} => Flying(c, d, S) = Flying(b, d, S) - IsIn(m, S)
    BY <1>20, <1>24, <1>25 DEF Flying, IsIn
  <1>28. \A q : DOMAIN t \cap HashOf(q) = {} /\ DOMAIN t \cap RequestOf(q) = {}
                /\ (q # p => DOMAIN t \cap AnswerOf(q) = {})
    BY <1>9, <1>11
  <1>29. \A S : Flying(b, d, S) \in Nat /\ Flying(c, d, S) \in Nat BY <1>24 DEF Flying
  <1>30. ASSUME NEW q, q # p PROVE Changed(q, 0, 0, 0)
    <2>1. PICK S1, S2, S3 : S1 = HashOf(q) /\ S2 = RequestOf(q) /\ S3 = AnswerOf(q) OBVIOUS
    <2>2. DOMAIN t \cap S1 = {} /\ DOMAIN t \cap S2 = {} /\ DOMAIN t \cap S3 = {}
      BY <1>28, <1>30, <2>1
    <2>3. IsIn(m, S1) = 0 /\ IsIn(m, S2) = 0 /\ IsIn(m, S3) = 0
      BY <1>26, <1>30, <2>1 DEF IsIn
    <2>4. /\ Flying(c, d, S1) = Flying(b, d, S1) - 0 /\ Flying(c, d, S2) = Flying(b, d, S2) - 0
          /\ Flying(c, d, S3) = Flying(b, d, S3) - 0
      BY <1>27, <2>2, <2>3
    <2>5. Counted(b, d, c, d, q, 0, 0, 0) BY <1>29, <2>1, <2>4 DEF Counted
    <2> QED BY <1>12, <1>16, <1>23, <2>5, CountedNext
  <1>31. PICK S1, S2, S3 : S1 = HashOf(p) /\ S2 = RequestOf(p) /\ S3 = AnswerOf(p) OBVIOUS
  <1>32. InBag(b, S3) = 0 /\ InQueue(d, S3) = 0
    <2>1. Flying(b, d, S3) = 0 BY <1>12, <1>23, <1>31 DEF Answers
    <2> QED BY <1>24, <2>1 DEF Flying
  <1>33. InBag(b1, S3) = 0
    <2>1. IsIn(m, S3) = 0 BY <1>26, <1>31 DEF IsIn
    <2> QED BY <1>24, <1>25, <1>32, <2>1
  <1>34. PICK a : a = InBag(c, S3) OBVIOUS
  <1>35. a \in Nat /\ a <= Cardinality(A)
    <2>1. InBag(c, S3) <= Cardinality(A) BY <1>4, <1>7, <1>15, <1>19, <1>33, PlusAnswers
    <2> QED BY <1>24, <1>34, <2>1
  <1>36. a \in 0 .. NumLoads
    <2>1. NumLoads = Cardinality(A) BY <1>3 DEF NumLoads
    <2>2. Cardinality(A) \in Nat BY <1>4, FS_CardinalityType
    <2> QED BY <1>35, <2>1, <2>2
  <1>37. Counted(b, d, c, d, p, 0, -1, a)
    <2>1. Flying(b, d, S3) = 0 /\ Flying(c, d, S3) = a BY <1>24, <1>32, <1>34 DEF Flying
    <2>2. IsIn(m, S1) = 0 /\ IsIn(m, S2) = 1 BY <1>26, <1>31 DEF IsIn
    <2>3. DOMAIN t \cap S1 = {} /\ DOMAIN t \cap S2 = {} BY <1>28, <1>31
    <2>4. Flying(c, d, S1) = Flying(b, d, S1) - 0 /\ Flying(c, d, S2) = Flying(b, d, S2) - 1
      BY <1>27, <2>2, <2>3
    <2> QED BY <1>29, <1>31, <1>35, <2>1, <2>4 DEF Counted
  <1>38. Changed(p, 0, -1, a) BY <1>12, <1>16, <1>23, <1>37, CountedNext
  <1>39. Requests(p) >= 1
    <2>1. IsIn(m, S2) = 1 BY <1>26, <1>31 DEF IsIn
    <2>2. InBag(b, S2) >= 1 BY <1>24, <1>25, <2>1
    <2>3. Requests(p) = InBag(b, S2) + InQueue(d, S2) BY <1>12, <1>23, <1>31 DEF Requests, Flying
    <2> QED BY <1>24, <2>2, <2>3
  <1> QED BY <1>2, <1>22, <1>30, <1>36, <1>38, <1>39

LEMMA SomeRequest ==
  ASSUME Packets, NEW m \in DOMAIN net, AskLoads(m), NEW p, p = m.pair
  PROVE  Requests(p) >= 1
PROOF
  <1>1. Good(m) /\ m.kind = "loadrequest" BY DEF Packets, Loaded, AskLoads
  <1>2. PICK b : b = net OBVIOUS
  <1>3. PICK b1 : b1 = b (-) One(m) OBVIOUS
  <1>4. Minus(b, One(m), b1) BY <1>3 DEF Minus
  <1>5. Loaded(b) /\ Queued(pqueue) /\ m \in DOMAIN b BY <1>2 DEF Packets
  <1>6. Loaded(b1) /\ Shrunk(b, m, b1) BY <1>4, <1>5, TakeOne
  <1>7. PICK S : S = RequestOf(p) OBVIOUS
  <1>8. PICK d : d = pqueue OBVIOUS
  <1>9. InBag(b, S) \in Nat /\ InBag(b1, S) \in Nat /\ InQueue(d, S) \in Nat
    BY <1>5, <1>6, <1>8, FlyingType
  <1>10. m \in S BY <1>1, <1>7 DEF Good, RequestOf
  <1>11. InBag(b1, S) = InBag(b, S) - 1 BY <1>6, <1>10 DEF Shrunk, IsIn
  <1>12. Requests(p) = InBag(b, S) + InQueue(d, S) BY <1>2, <1>7, <1>8 DEF Requests, Flying
  <1> QED BY <1>9, <1>11, <1>12

Lengthened(q, m, d) == \A S : InQueue(d, S) = InQueue(q, S) + IsIn(m, S)

LEMMA QueueLonger ==
  ASSUME NEW q \in Seq(Message), NEW m \in Message, NEW d, d = Append(q, m)
  PROVE  Lengthened(q, m, d)
PROOF
  <1>1. Longer(q, m, d) BY DEF Longer
  <1>2. \A S : InQueue(d, S) = InQueue(q, S) + IsIn(m, S) BY <1>1, QueueAppend
  <1> QED BY <1>2 DEF Lengthened

LEMMA ControlStep ==
  ASSUME Packets, ControlArrives
  PROVE  Packets' /\ Still
PROOF
  <1>1. Stays BY DEF ControlArrives, Stays
  <1>2. PICK m \in DOMAIN net :
          m.at = Edge /\ net' = net (-) One(m) /\ pqueue' = Append(pqueue, m)
    BY DEF ControlArrives, BagToSet
  <1>3. PICK b, q : b = net /\ q = pqueue OBVIOUS
  <1>4. PICK c : c = b (-) One(m) OBVIOUS
  <1>5. Minus(b, One(m), c) /\ c = net' BY <1>2, <1>3, <1>4 DEF Minus
  <1>6. Loaded(b) /\ Queued(q) /\ m \in DOMAIN b BY <1>3 DEF Packets
  <1>7. Loaded(c) /\ Shrunk(b, m, c) BY <1>5, <1>6, TakeOne
  <1>8. Good(m) BY <1>6 DEF Loaded
  <1>9. PICK d : d = Append(q, m) OBVIOUS
  <1>10. q \in Seq(Message) /\ m \in Message BY <1>6, <1>8 DEF Queued, Good
  <1>11. Queued(d)
    <2>1. PICK n \in Nat : n = Len(q) BY <1>10
    <2>2. d \in Seq(Message) /\ Len(d) = n + 1 /\ d[n + 1] = m /\ \A i \in 1 .. n : d[i] = q[i]
      BY <1>9, <1>10, <2>1
    <2>3. \A i \in 1 .. n + 1 : i \in 1 .. n \/ i = n + 1 OBVIOUS
    <2>4. \A i \in 1 .. n : Good(q[i]) /\ q[i].at = Edge BY <1>6, <2>1 DEF Queued
    <2>5. \A i \in 1 .. n + 1 : Good(d[i]) /\ d[i].at = Edge BY <1>2, <1>8, <2>2, <2>3, <2>4
    <2> QED BY <2>2, <2>5 DEF Queued
  <1>12. d = pqueue' BY <1>2, <1>3, <1>9
  <1>13. Packets' BY <1>1, <1>5, <1>7, <1>11, <1>12, PacketsNext
  <1>14. Lengthened(q, m, d) BY <1>9, <1>10, QueueLonger
  <1>15. \A S : InBag(b, S) \in Nat /\ InBag(c, S) \in Nat /\ InQueue(q, S) \in Nat
    BY <1>6, <1>7, FlyingType
  <1>16. \A S : Flying(c, d, S) = Flying(b, q, S) + 0
    BY <1>7, <1>14, <1>15 DEF Shrunk, Lengthened, Flying, IsIn
  <1>17. ASSUME NEW p PROVE Changed(p, 0, 0, 0)
    <2>1. Counted(b, q, c, d, p, 0, 0, 0) BY <1>16 DEF Counted
    <2> QED BY <1>1, <1>3, <1>5, <1>12, <2>1, CountedNext
  <1> QED BY <1>13, <1>17 DEF Still

LEMMA ProbesAre ==
  ASSUME scenario \in Scenarios, BrokenOk, NEW p \in Pair, NEW b, b = Probes(p)
  PROVE  OthersBag(b)
PROOF
  <1>1. PICK u : u = Up(Edge) OBVIOUS
  <1>2. PICK n \in Nat \ {0} : n = Len(u) BY <1>1, ScenarioIs
  <1>3. Range(u) = {u[i] : i \in 1 .. n} /\ DOMAIN u = 1 .. n BY <1>1, <1>2, ScenarioIs
  <1>4. PICK f : f = [i \in 1 .. n |-> Probe(p, Through(u[i]))] OBVIOUS
  <1>5. PICK D : D = {Probe(p, Through(a)) : a \in Range(u)} OBVIOUS
  <1>6. D = {f[i] : i \in 1 .. n} BY <1>3, <1>4, <1>5
  <1>7. IsFiniteSet(D) BY <1>6, ListCard
  <1>8. PICK C : C = [m \in D |-> {i \in 1 .. n : f[i] = m}] OBVIOUS
  <1>9. b = [m \in D |-> Cardinality(C[m])]
    <2>1. \A i \in 1 .. n : \A m : f[i] = m <=> Probe(p, Through(Up(Edge)[i])) = m BY <1>1, <1>4
    <2>2. ASSUME NEW m \in D PROVE C[m] = {i \in DOMAIN Up(Edge) : Probe(p, Through(Up(Edge)[i])) = m}
      BY <1>1, <1>3, <1>8, <2>1
    <2>3. Probes(p) = [m \in D |->
             Cardinality({i \in DOMAIN Up(Edge) : Probe(p, Through(Up(Edge)[i])) = m})]
      BY <1>1, <1>5 DEF Probes
    <2> QED BY <2>2, <2>3
  <1>10. ASSUME NEW m \in D PROVE Cardinality(C[m]) \in Nat \ {0}
    <2>1. C[m] \in SUBSET (1 .. n) BY <1>8
    <2>2. IsFiniteSet(1 .. n) BY FS_Interval
    <2>3. IsFiniteSet(C[m]) BY <2>1, <2>2, FS_Subset
    <2>4. C[m] # {} BY <1>6, <1>8
    <2>5. Cardinality(C[m]) \in Nat BY <2>3, FS_CardinalityType
    <2>6. Cardinality(C[m]) # 0 BY <2>3, <2>4, FS_EmptySet
    <2> QED BY <2>5, <2>6
  <1>11. Network(b) /\ DOMAIN b = D BY <1>7, <1>9, <1>10 DEF Network
  <1>12. ASSUME NEW m \in D PROVE Good(m) /\ Other(m)
    <2>1. PICK a \in Range(u) : m = Probe(p, Through(a)) BY <1>5
    <2>2. PICK t : t = Through(a) OBVIOUS
    <2>3. t \in Range(Up(Edge)) /\ t \in scenario.asked BY <1>1, <2>2, ThroughIs
    <2>4. m = Probe(p, t) BY <2>1, <2>2
    <2> QED BY <2>3, <2>4, ProbeIs
  <1> QED BY <1>11, <1>12 DEF OthersBag

LEMMA HeadConcat ==
  ASSUME NEW S, NEW s \in Seq(S), s # <<>>, NEW t \in Seq(S), NEW v, v = s \o t
  PROVE  v \in Seq(S) /\ v # <<>> /\ Head(v) = Head(s)
PROOF
  <1>1. PICK n \in Nat \ {0} : n = Len(s) OBVIOUS
  <1>2. PICK k \in Nat : k = Len(t) OBVIOUS
  <1>3. v \in Seq(S) /\ Len(v) = n + k /\ v[1] = s[1] BY <1>1, <1>2
  <1> QED BY <1>1, <1>2, <1>3

(* The switches a count packet is sent to. *)
Announced(up, via) ==
    IF Down(up[1]) # Nowhere THEN <<up[1]>>
    ELSE IF via = <<>> THEN up \o <<Nowhere>> ELSE via

LEMMA AnnouncedIs ==
  ASSUME scenario \in Scenarios, NEW up \in Route, NEW via \in Seq(scenario.asked),
         NEW v, v = Announced(up, via)
  PROVE  v \in Seq(Node) /\ v # <<>> /\ Head(v) \in scenario.asked
PROOF
  <1>1. PICK a, x : up = <<a, x>> /\ a \in scenario.asked /\ x \in Node BY DEF Route
  <1>2. a \in Node /\ Nowhere \in Node /\ scenario.asked \subseteq Node BY <1>1 DEF Node
  <1>3. CASE Down(a) # Nowhere
    <2>1. v = <<a>>
      <3>1. up[1] = a BY <1>1
      <3> QED BY <1>3, <3>1 DEF Announced
    <2>2. PICK z : z = <<a>> OBVIOUS
    <2>3. z \in Seq(Node) BY <1>2, <2>2
    <2>4. z # <<>> /\ Head(z) = a BY <2>2
    <2> QED BY <1>1, <2>1, <2>2, <2>3, <2>4
  <1>4. CASE Down(a) = Nowhere /\ via = <<>>
    <2>1. PICK z : z = <<Nowhere>> OBVIOUS
    <2>2. v = up \o z BY <1>1, <1>4, <2>1 DEF Announced
    <2>3. up \in Seq(Node) /\ up # <<>> /\ Head(up) = a /\ z \in Seq(Node)
      BY <1>1, <1>2, <2>1
    <2> QED BY <1>1, <2>2, <2>3, HeadConcat
  <1>5. CASE Down(a) = Nowhere /\ via # <<>>
    <2>1. v = via BY <1>1, <1>5 DEF Announced
    <2> QED BY <1>2, <1>5, <2>1
  <1> QED BY <1>3, <1>4, <1>5

(* The record of a count packet before the edge switch has handled it. *)
LEMMA RecordIs ==
  ASSUME NEW v \in Seq(Node), v # <<>>, Head(v) \in scenario.asked, NEW w, w = <<Edge>> \o v
  PROVE  w \in Seq(Node \cup {Edge}) /\ Heads(w)
PROOF
  <1>1. PICK n \in Nat \ {0} : n = Len(v) OBVIOUS
  <1>2. PICK e, S : e = <<Edge>> /\ S = Node \cup {Edge} OBVIOUS
  <1>3. e \in Seq(S) /\ Len(e) = 1 /\ e[1] = Edge BY <1>2
  <1>4. v \in Seq(S) /\ v[1] \in scenario.asked BY <1>1, <1>2
  <1>5. w = e \o v BY <1>2
  <1>6. w \in Seq(S) /\ Len(w) = n + 1 /\ DOMAIN w = 1 .. n + 1 BY <1>1, <1>3, <1>4, <1>5
  <1>7. w[1] = e[1] /\ w[2] = v[1] BY <1>1, <1>3, <1>4, <1>5
  <1>8. 1 \in 1 .. n + 1 /\ 2 \in 1 .. n + 1 /\ n + 1 >= 2 OBVIOUS
  <1> QED BY <1>2, <1>3, <1>4, <1>6, <1>7, <1>8 DEF Heads

LEMMA FutureCounts ==
  ASSUME scenario \in Scenarios, NEW rs \in Seq(Row), NEW t, t = send_future_packet_count(rs)
  PROVE  t \in Seq(Message) /\ Others(t)
PROOF
  <1>1. PICK n \in Nat : n = Len(rs) OBVIOUS
  <1>2. \A r \in 1 .. n : /\ rs[r].up \in Route /\ rs[r].via \in Seq(scenario.asked)
                          /\ rs[r].left \in Int
    <2>1. \A r \in 1 .. n : rs[r] \in Row BY <1>1, RowsAre
    <2> QED BY <2>1 DEF Row
  <1>3. PICK record : record = [r \in 1 .. n |-> <<Edge>> \o Announced(rs[r].up, rs[r].via)] OBVIOUS
  <1>4. t = [r \in 1 .. n |-> Count(Edge, record[r], rs[r].left, scenario.ttl)]
    <2>1. \A r \in 1 .. n : record[r] = <<Edge>> \o Announced(rs[r].up, rs[r].via) BY <1>3
    <2>2. DOMAIN rs = 1 .. n BY <1>1
    <2>3. t = [r \in 1 .. n |-> Count(Edge, <<Edge>> \o Announced(rs[r].up, rs[r].via),
                                       rs[r].left, scenario.ttl)]
      BY <2>2 DEF send_future_packet_count, Announced
    <2> QED BY <2>1, <2>3
  <1>5. ASSUME NEW r \in 1 .. n
        PROVE  record[r] \in Seq(Node \cup {Edge}) /\ Heads(record[r])
    <2>1. PICK up, via : up = rs[r].up /\ via = rs[r].via OBVIOUS
    <2>2. PICK v, w : v = Announced(up, via) /\ w = <<Edge>> \o v OBVIOUS
    <2>3. up \in Route /\ via \in Seq(scenario.asked) BY <1>2, <2>1
    <2>4. v \in Seq(Node) /\ v # <<>> /\ Head(v) \in scenario.asked BY <2>2, <2>3, AnnouncedIs
    <2>5. w \in Seq(Node \cup {Edge}) /\ Heads(w) BY <2>2, <2>4, RecordIs
    <2>6. record[r] = w BY <1>3, <2>1, <2>2
    <2> QED BY <2>5, <2>6
  <1>6. ASSUME NEW r \in 1 .. n PROVE Good(t[r]) /\ Other(t[r]) /\ t[r].at = Edge
    <2>1. PICK v, l, ttl : v = record[r] /\ l = rs[r].left /\ ttl = scenario.ttl OBVIOUS
    <2>2. v \in Seq(Node \cup {Edge}) /\ l \in Int /\ Heads(v) /\ ttl \in Nat \ {0}
          /\ Edge \in Node \cup {Edge}
      BY <1>2, <1>5, <2>1, ScenarioIs
    <2>3. PICK m : m = Count(Edge, v, l, ttl) OBVIOUS
    <2>4. m = t[r] BY <1>4, <2>1, <2>3
    <2>5. Good(m) /\ Other(m) /\ m.at = Edge BY <2>2, <2>3, CountIs
    <2> QED BY <2>4, <2>5
  <1>7. t \in Seq(Message)
    <2>1. \A r \in 1 .. n : t[r] \in Message BY <1>6 DEF Good
    <2>2. t = [r \in 1 .. n |-> t[r]] BY <1>4
    <2> QED BY <2>1, <2>2
  <1>8. Len(t) = n BY <1>4
  <1> QED BY <1>6, <1>7, <1>8 DEF Others

(* The counts of pair p in a bag are h, r and a more. *)
BagChange(b, c, p, h, r, a) ==
    /\ InBag(c, HashOf(p)) = InBag(b, HashOf(p)) + h
    /\ InBag(c, RequestOf(p)) = InBag(b, RequestOf(p)) + r
    /\ InBag(c, AnswerOf(p)) = InBag(b, AnswerOf(p)) + a

(* Packets are sent and others put into pqueue. *)
LEMMA JoinPackets ==
  ASSUME Packets, Stays, NEW t \in Seq(Message), Others(t), NEW d, d = pqueue', Joined(pqueue, t, d),
         NEW c, c = net', Loaded(c)
  PROVE  /\ Packets'
         /\ \A p : \A h, r, a \in Int : BagChange(net, c, p, h, r, a) => Changed(p, h, r, a)
PROOF
  <1>1. PICK b, q : b = net /\ q = pqueue OBVIOUS
  <1>2. Loaded(b) /\ Queued(q) /\ Joined(q, t, d) BY <1>1 DEF Packets
  <1>3. Queued(d) /\ SameQueue(q, d) BY <1>2, QueueOthers
  <1>4. Packets' BY <1>3, PacketsNext
  <1>5. \A S : InBag(b, S) \in Nat /\ InBag(c, S) \in Nat /\ InQueue(q, S) \in Nat
    BY <1>2, FlyingType
  <1>6. ASSUME NEW p, NEW h \in Int, NEW r \in Int, NEW a \in Int, BagChange(b, c, p, h, r, a)
        PROVE  Changed(p, h, r, a)
    <2>1. PICK S1, S2, S3 : S1 = HashOf(p) /\ S2 = RequestOf(p) /\ S3 = AnswerOf(p) OBVIOUS
    <2>2. InQueue(d, S1) = InQueue(q, S1) /\ InQueue(d, S2) = InQueue(q, S2)
          /\ InQueue(d, S3) = InQueue(q, S3)
      BY <1>3, <2>1 DEF SameQueue
    <2>3. InBag(c, S1) = InBag(b, S1) + h /\ InBag(c, S2) = InBag(b, S2) + r
          /\ InBag(c, S3) = InBag(b, S3) + a
      BY <1>6, <2>1 DEF BagChange
    <2>4. Flying(c, d, S1) = Flying(b, q, S1) + h /\ Flying(c, d, S2) = Flying(b, q, S2) + r
          /\ Flying(c, d, S3) = Flying(b, q, S3) + a
      <3>1. ASSUME NEW S, NEW k \in Int, InQueue(d, S) = InQueue(q, S), InBag(c, S) = InBag(b, S) + k
            PROVE  Flying(c, d, S) = Flying(b, q, S) + k
        <4>1. PICK x \in Nat, y \in Nat : x = InBag(b, S) /\ y = InQueue(q, S) BY <1>5
        <4>2. InBag(c, S) = x + k /\ InQueue(d, S) = y BY <3>1, <4>1
        <4>3. (x + k) + y = (x + y) + k OBVIOUS
        <4> QED BY <4>1, <4>2, <4>3 DEF Flying
      <3> QED BY <2>2, <2>3, <3>1
    <2>5. Counted(b, q, c, d, p, h, r, a) BY <2>1, <2>4 DEF Counted
    <2> QED BY <1>1, <2>5, CountedNext
  <1> QED BY <1>1, <1>4, <1>6

LEMMA FirstProbeIs ==
  ASSUME NEW p \in Pair, NEW t, t = FirstProbe(p)
  PROVE  t \in Seq(Message) /\ Others(t)
PROOF
  <1>1. CASE forwarded[p] = 0
    <2>1. PICK m : m = Probe(p, Edge) OBVIOUS
    <2>2. Good(m) /\ Other(m) /\ m.at = Edge BY <2>1, ProbeIs
    <2>3. t = <<m>> BY <1>1, <2>1 DEF FirstProbe
    <2>4. t \in Seq(Message) /\ Len(t) = 1 /\ t[1] = m BY <2>2, <2>3 DEF Good
    <2> QED BY <2>2, <2>4 DEF Others
  <1>2. CASE forwarded[p] # 0
    <2>1. t = <<>> BY <1>2 DEF FirstProbe
    <2> QED BY <2>1 DEF Others
  <1> QED BY <1>1, <1>2

LEMMA HashPackets ==
  ASSUME scenario \in Scenarios, BrokenOk, Packets, Stays, NEW p \in Pair, HashStep(p)
  PROVE  /\ Packets'
         /\ \A q : q # p => Changed(q, 0, 0, 0)
         /\ Changed(p, 1, IF AsksLoad(p) THEN 1 ELSE 0, 0)
PROOF
  <1>1. PICK a : a = hashRouting(p, Edge) OBVIOUS
  <1>2. a \in Range(Up(Edge)) BY <1>1, ScenarioIs, HashRoutingIs
  <1>3. PICK t : t = Through(a) OBVIOUS
  <1>4. t \in Range(Up(Edge)) /\ t \in scenario.asked /\ a \in scenario.asked
    BY <1>2, <1>3, ThroughIs
  <1>5. PICK x : x = Hashed(p, t) OBVIOUS
  <1>6. /\ Good(x)
        /\ \A q : (x \in HashOf(q) <=> q = p) /\ x \notin RequestOf(q) /\ x \notin AnswerOf(q)
    BY <1>4, <1>5, HashedIs
  <1>7. PICK y : y = LoadRequest(p) OBVIOUS
  <1>8. /\ Good(y)
        /\ \A q : y \notin HashOf(q) /\ (y \in RequestOf(q) <=> q = p) /\ y \notin AnswerOf(q)
    BY <1>7, LoadRequestIs
  <1>9. PICK n : n = Notice({a}) OBVIOUS
  <1>10. OthersBag(n)
    <2>1. {a} \subseteq scenario.asked BY <1>4
    <2> QED BY <1>9, <2>1, NoticeIs
  <1>11. PICK b : b = net OBVIOUS
  <1>12. PICK b1 : b1 = b (+) One(x) OBVIOUS
  <1>13. PICK b2 : b2 = b1 (+) n OBVIOUS
  <1>14. PICK k : k = IF AsksLoad(p) THEN 1 ELSE 0 OBVIOUS
  <1>15. PICK c : c = b2 (+) (IF AsksLoad(p) THEN One(y) ELSE EmptyBag) OBVIOUS
  <1>16. c = net' BY <1>1, <1>3, <1>5, <1>7, <1>9, <1>11, <1>12, <1>13, <1>15 DEF HashStep
  <1>17. Plus(b, One(x), b1) /\ Plus(b1, n, b2) BY <1>12, <1>13 DEF Plus
  <1>18. Loaded(b) /\ Queued(pqueue) BY <1>11 DEF Packets
  <1>19. Loaded(b1) /\ Grown(b, x, b1) BY <1>6, <1>17, <1>18, SendOne
  <1>20. Loaded(b2) /\ SameBag(b1, b2) BY <1>10, <1>17, <1>19, SendOthers
  <1>21. \A S : InBag(b, S) \in Nat /\ InBag(b1, S) \in Nat /\ InBag(b2, S) \in Nat
    BY <1>18, <1>19, <1>20, FlyingType
  <1>22. \A q : BagChange(b, b2, q, IF q = p THEN 1 ELSE 0, 0, 0)
    <2>1. \A S : InBag(b1, S) = InBag(b, S) + IsIn(x, S) BY <1>19 DEF Grown
    <2>2. ASSUME NEW q PROVE BagChange(b, b2, q, IF q = p THEN 1 ELSE 0, 0, 0)
      <3>1. PICK S1, S2, S3 : S1 = HashOf(q) /\ S2 = RequestOf(q) /\ S3 = AnswerOf(q) OBVIOUS
      <3>2. /\ InBag(b2, S1) = InBag(b1, S1) /\ InBag(b2, S2) = InBag(b1, S2)
            /\ InBag(b2, S3) = InBag(b1, S3)
        BY <1>20, <3>1 DEF SameBag
      <3>3. /\ IsIn(x, S1) = (IF q = p THEN 1 ELSE 0) /\ IsIn(x, S2) = 0 /\ IsIn(x, S3) = 0
        BY <1>6, <3>1 DEF IsIn
      <3> QED BY <2>1, <3>1, <3>2, <3>3 DEF BagChange
    <2> QED BY <2>2
  <1>23. Loaded(c) /\ \A q : BagChange(b, c, q, IF q = p THEN 1 ELSE 0, IF q = p THEN k ELSE 0, 0)
    <2>1. CASE AsksLoad(p)
      <3>1. Plus(b2, One(y), c) BY <1>15, <2>1 DEF Plus
      <3>2. Loaded(c) /\ Grown(b2, y, c) BY <1>8, <1>20, <3>1, SendOne
      <3>3. \A S : InBag(c, S) = InBag(b2, S) + IsIn(y, S) BY <3>2 DEF Grown
      <3>4. ASSUME NEW q
            PROVE  BagChange(b, c, q, IF q = p THEN 1 ELSE 0, IF q = p THEN k ELSE 0, 0)
        <4>1. PICK S1, S2, S3 : S1 = HashOf(q) /\ S2 = RequestOf(q) /\ S3 = AnswerOf(q) OBVIOUS
        <4>2. PICK h \in Nat : h = IF q = p THEN 1 ELSE 0 OBVIOUS
        <4>3. BagChange(b, b2, q, h, 0, 0) BY <1>22, <4>2
        <4>4. /\ InBag(b2, S1) = InBag(b, S1) + h /\ InBag(b2, S2) = InBag(b, S2) + 0
              /\ InBag(b2, S3) = InBag(b, S3) + 0
          BY <4>1, <4>3 DEF BagChange
        <4>5. /\ IsIn(y, S1) = 0 /\ IsIn(y, S2) = (IF q = p THEN k ELSE 0) /\ IsIn(y, S3) = 0
          BY <1>8, <1>14, <2>1, <4>1 DEF IsIn
        <4>6. /\ InBag(c, S1) = InBag(b, S1) + h
              /\ InBag(c, S2) = InBag(b, S2) + (IF q = p THEN k ELSE 0)
              /\ InBag(c, S3) = InBag(b, S3) + 0
          BY <1>14, <1>21, <2>1, <3>3, <4>4, <4>5
        <4> QED BY <4>1, <4>2, <4>6 DEF BagChange
      <3> QED BY <3>2, <3>4
    <2>2. CASE ~AsksLoad(p)
      <3>1. PICK e : e = EmptyBag OBVIOUS
      <3>2. OthersBag(e) BY <3>1, NoneOther
      <3>3. Plus(b2, e, c) BY <1>15, <2>2, <3>1 DEF Plus
      <3>4. Loaded(c) /\ SameBag(b2, c) BY <1>20, <3>2, <3>3, SendOthers
      <3>5. k = 0 BY <1>14, <2>2
      <3>6. ASSUME NEW q
            PROVE  BagChange(b, c, q, IF q = p THEN 1 ELSE 0, IF q = p THEN k ELSE 0, 0)
        <4>1. PICK S1, S2, S3 : S1 = HashOf(q) /\ S2 = RequestOf(q) /\ S3 = AnswerOf(q) OBVIOUS
        <4>2. PICK h : h = IF q = p THEN 1 ELSE 0 OBVIOUS
        <4>3. BagChange(b, b2, q, h, 0, 0) BY <1>22, <4>2
        <4>4. /\ InBag(c, S1) = InBag(b2, S1) /\ InBag(c, S2) = InBag(b2, S2)
              /\ InBag(c, S3) = InBag(b2, S3)
          BY <3>4, <4>1 DEF SameBag
        <4>5. BagChange(b, c, q, h, 0, 0) BY <4>1, <4>3, <4>4 DEF BagChange
        <4>6. (IF q = p THEN k ELSE 0) = 0 BY <3>5
        <4> QED BY <4>2, <4>5, <4>6
      <3> QED BY <3>4, <3>6
    <2> QED BY <2>1, <2>2
  <1>24. PICK f : f = FirstProbe(p) OBVIOUS
  <1>25. f \in Seq(Message) /\ Others(f) BY <1>24, FirstProbeIs
  <1>26. PICK d : d = pqueue' OBVIOUS
  <1>27. Joined(pqueue, f, d) BY <1>24, <1>26 DEF HashStep, Joined
  <1>28. Packets' /\ \A q : \A h, r, z \in Int : BagChange(net, c, q, h, r, z) => Changed(q, h, r, z)
    BY <1>16, <1>23, <1>25, <1>26, <1>27, JoinPackets
  <1>29. \A q : q # p => Changed(q, 0, 0, 0)
    <2>1. \A q : q # p => BagChange(net, c, q, 0, 0, 0) BY <1>11, <1>23
    <2>2. 0 \in Int OBVIOUS
    <2> QED BY <1>28, <2>1, <2>2
  <1>30. Changed(p, 1, k, 0)
    <2>1. BagChange(net, c, p, 1, k, 0) BY <1>11, <1>23
    <2>2. 0 \in Int /\ 1 \in Int /\ k \in Int BY <1>14
    <2> QED BY <1>28, <2>1, <2>2
  <1> QED BY <1>14, <1>28, <1>29, <1>30

(* A packet is sent along the chosen route. *)
Takes(p, rs, r) ==
    LET a == rs[r].up[1] IN
    /\ net' = net (+) One(Data(Through(a), rs[r].up[2])) (+) Notice({a})
    /\ pqueue' = pqueue \o (IF Fills(p) THEN send_future_packet_count(rs) ELSE <<>>)

LEMMA TakesPackets ==
  ASSUME scenario \in Scenarios, BrokenOk, Packets, Stays, NEW p \in Pair, NEW rs \in Seq(Row),
         Distinct(rs, Routes), NEW r \in 1 .. Len(rs), Takes(p, rs, r)
  PROVE  Packets' /\ Still
PROOF
  <1>1. PICK up : up = rs[r].up OBVIOUS
  <1>2. up \in Routes BY <1>1 DEF Distinct
  <1>3. up \in Route /\ up[1] \in Range(Up(Edge)) BY <1>2, RoutesAre
  <1>4. PICK a, core : a = up[1] /\ core = up[2] OBVIOUS
  <1>5. core \in Node BY <1>3, <1>4 DEF Route
  <1>6. PICK t : t = Through(a) OBVIOUS
  <1>7. t \in scenario.asked /\ a \in scenario.asked BY <1>3, <1>4, <1>6, ThroughIs
  <1>8. PICK x : x = Data(t, core) OBVIOUS
  <1>9. Good(x) /\ Other(x) BY <1>5, <1>7, <1>8, DataIs
  <1>10. PICK n : n = Notice({a}) OBVIOUS
  <1>11. OthersBag(n)
    <2>1. {a} \subseteq scenario.asked BY <1>7
    <2> QED BY <1>10, <2>1, NoticeIs
  <1>12. PICK b : b = net OBVIOUS
  <1>13. PICK b1 : b1 = b (+) One(x) OBVIOUS
  <1>14. PICK c : c = b1 (+) n OBVIOUS
  <1>15. Plus(b, One(x), b1) /\ Plus(b1, n, c) BY <1>13, <1>14 DEF Plus
  <1>16. c = net' BY <1>1, <1>4, <1>6, <1>8, <1>10, <1>12, <1>13, <1>14 DEF Takes
  <1>17. Loaded(b) BY <1>12 DEF Packets
  <1>18. Loaded(b1) /\ SameBag(b, b1) BY <1>9, <1>15, <1>17, SendOther
  <1>19. Loaded(c) /\ SameBag(b1, c) BY <1>11, <1>15, <1>18, SendOthers
  <1>20. \A S : InBag(b, S) \in Nat BY <1>17, InBagType DEF Loaded
  <1>21. \A q : BagChange(b, c, q, 0, 0, 0)
    BY <1>18, <1>19, <1>20 DEF SameBag, BagChange
  <1>22. PICK f : f = IF Fills(p) THEN send_future_packet_count(rs) ELSE <<>> OBVIOUS
  <1>23. f \in Seq(Message) /\ Others(f)
    <2>1. CASE Fills(p) BY <1>22, <2>1, FutureCounts
    <2>2. CASE ~Fills(p)
      <3>1. f = <<>> BY <1>22, <2>2
      <3> QED BY <3>1 DEF Others
    <2> QED BY <2>1, <2>2
  <1>24. PICK d : d = pqueue' OBVIOUS
  <1>25. Joined(pqueue, f, d) BY <1>22, <1>24 DEF Takes, Joined
  <1>26. Packets' /\ \A q : \A h, k, z \in Int : BagChange(net, c, q, h, k, z) => Changed(q, h, k, z)
    BY <1>16, <1>19, <1>23, <1>24, <1>25, JoinPackets
  <1>27. 0 \in Int OBVIOUS
  <1> QED BY <1>12, <1>21, <1>26, <1>27 DEF Still

(* The edge switch serves control packet m. *)
Serves(m) == pqueue # <<>> /\ m = Head(pqueue) /\ pqueue' = Tail(pqueue)

LEMMA ServedIs ==
  ASSUME Packets, NEW m, Serves(m)
  PROVE  Good(m) /\ m.at = Edge
PROOF
  <1>1. PICK q : q = pqueue OBVIOUS
  <1>2. PICK d : d = Tail(q) OBVIOUS
  <1>3. Queued(q) /\ q # <<>> /\ m = Head(q) BY <1>1 DEF Packets, Serves
  <1> QED BY <1>2, <1>3, QueueServed

LEMMA ServeOther ==
  ASSUME Packets, Stays, NEW m, Serves(m), Other(m), NEW c, c = net', Loaded(c), SameBag(net, c)
  PROVE  Packets' /\ Still
PROOF
  <1>1. /\ Packets'
        /\ \A p : Changed(p, 0 - IsIn(m, HashOf(p)), 0 - IsIn(m, RequestOf(p)), 0 - IsIn(m, AnswerOf(p)))
    BY ServeChange DEF Serves
  <1>2. ASSUME NEW p PROVE Changed(p, 0, 0, 0)
    <2>1. IsIn(m, HashOf(p)) = 0 /\ IsIn(m, RequestOf(p)) = 0 /\ IsIn(m, AnswerOf(p)) = 0
      BY OtherIs DEF IsIn
    <2>2. 0 - 0 = 0 OBVIOUS
    <2>3. Changed(p, 0 - 0, 0 - 0, 0 - 0) BY <1>1, <2>1
    <2> QED BY <2>2, <2>3
  <1> QED BY <1>1, <1>2 DEF Still

(* Others are sent. *)
Sends(x, n) == net' = net (+) x (+) n

LEMMA ServeSends ==
  ASSUME Packets, Stays, NEW m, Serves(m), Other(m), NEW x, NEW n, OthersBag(x), OthersBag(n),
         Sends(x, n)
  PROVE  Packets' /\ Still
PROOF
  <1>1. PICK b : b = net OBVIOUS
  <1>2. PICK b1 : b1 = b (+) x OBVIOUS
  <1>3. PICK c : c = b1 (+) n OBVIOUS
  <1>4. Plus(b, x, b1) /\ Plus(b1, n, c) BY <1>2, <1>3 DEF Plus
  <1>5. c = net' BY <1>1, <1>2, <1>3 DEF Sends
  <1>6. Loaded(b) BY <1>1 DEF Packets
  <1>7. Loaded(b1) /\ SameBag(b, b1) BY <1>4, <1>6, SendOthers
  <1>8. Loaded(c) /\ SameBag(b1, c) BY <1>4, <1>7, SendOthers
  <1>9. SameBag(net, c) BY <1>1, <1>7, <1>8 DEF SameBag
  <1> QED BY <1>5, <1>8, <1>9, ServeOther

LEMMA SendProbePackets ==
  ASSUME scenario \in Scenarios, BrokenOk, Packets, Stays, NEW m, Serves(m), SendProbe(m)
  PROVE  Packets' /\ Still
PROOF
  <1>1. Good(m) /\ m.kind = "probe" BY ServedIs DEF SendProbe
  <1>2. m.pair \in Pair BY <1>1, FieldsOf DEF Good, Fields
  <1>3. PICK p \in Pair : p = m.pair BY <1>2
  <1>4. PICK x : x = Probes(p) OBVIOUS
  <1>5. OthersBag(x) BY <1>4, ProbesAre
  <1>6. PICK n : n = Notice(Range(Up(Edge))) OBVIOUS
  <1>7. OthersBag(n)
    <2>1. Range(Up(Edge)) \subseteq scenario.asked BY AboveAre
    <2> QED BY <1>6, <2>1, NoticeIs
  <1>8. Sends(x, n) BY <1>3, <1>4, <1>6 DEF SendProbe, Sends
  <1>9. Other(m) BY <1>1 DEF Other
  <1> QED BY <1>5, <1>7, <1>8, <1>9, ServeSends

LEMMA SendCountPackets ==
  ASSUME scenario \in Scenarios, BrokenOk, Packets, Stays, NEW m, Serves(m), SendCount(m)
  PROVE  Packets' /\ Still /\ err' \in {err, "not_an_ICMPMessage"}
PROOF
  <1>1. Good(m) /\ m.at = Edge /\ m.kind = "count" BY ServedIs DEF SendCount
  <1>2. m.record \in Seq(Node \cup {Edge}) /\ m.n \in Int /\ m.ttl \in Nat \ {0}
    BY <1>1, FieldsOf DEF Good, Fields
  <1>3. PICK record : record = Recorded(m.record, Edge) OBVIOUS
  <1>4. record \in Seq(Node \cup {Edge}) /\ Heads(record)
    <2>1. PICK old : old = m.record OBVIOUS
    <2>2. Heads(old) BY <1>1, <2>1 DEF Good, MessageOk
    <2> QED BY <1>2, <1>3, <2>1, <2>2, RecordedIs
  <1>5. PICK a : a = Successor(record, Edge) OBVIOUS
  <1>6. a \in scenario.asked BY <1>4, <1>5, SuccessorIs
  <1>7. Other(m) BY <1>1 DEF Other
  <1>8. CASE net' = net /\ err' \in {err, "not_an_ICMPMessage"}
    <2>1. PICK c : c = net' OBVIOUS
    <2>2. Loaded(c) /\ SameBag(net, c) BY <1>8, <2>1 DEF Packets, SameBag
    <2>3. Packets' /\ Still BY <1>7, <2>1, <2>2, ServeOther
    <2> QED BY <1>8, <2>3
  <1>9. CASE /\ m.ttl > 1 /\ err' = err
             /\ net' = net (+) Notice({a}) (+) One(Count(Through(a), record, m.n, m.ttl - 1))
    <2>1. PICK n : n = Notice({a}) OBVIOUS
    <2>2. OthersBag(n)
      <3>1. {a} \subseteq scenario.asked BY <1>6
      <3> QED BY <2>1, <3>1, NoticeIs
    <2>3. PICK t, k, l : t = Through(a) /\ k = m.n /\ l = m.ttl - 1 OBVIOUS
    <2>4. k \in Int /\ l \in Nat \ {0} BY <1>2, <1>9, <2>3
    <2>5. t \in Node \cup {Edge}
      <3>1. CASE a = broken
        <4>1. a # Nowhere BY <1>6, ScenarioIs
        <4>2. a \in Range(Up(Edge)) BY <3>1, <4>1, ScenarioIs DEF BrokenOk
        <4>3. t \in scenario.asked BY <2>3, <4>2, ThroughIs
        <4> QED BY <4>3 DEF Node
      <3>2. CASE a # broken
        <4>1. t = a BY <2>3, <3>2 DEF Through
        <4> QED BY <1>6, <4>1 DEF Node
      <3> QED BY <3>1, <3>2
    <2>6. PICK x : x = Count(t, record, k, l) OBVIOUS
    <2>7. Good(x) /\ Other(x) BY <1>4, <2>4, <2>5, <2>6, CountIs
    <2>8. OthersBag(One(x)) BY <2>7, OneOther
    <2>9. Sends(n, One(x)) BY <1>9, <2>1, <2>3, <2>6 DEF Sends
    <2>10. Packets' /\ Still BY <1>7, <2>2, <2>8, <2>9, ServeSends
    <2> QED BY <1>9, <2>10
  <1> QED BY <1>3, <1>5, <1>8, <1>9 DEF SendCount

(* Nothing is sent: m is taken off the counts of its pair. *)
LEMMA ServeKept ==
  ASSUME Packets, Stays, NEW m, Serves(m), net' = net
  PROVE  /\ Packets'
         /\ m.kind \in {"found", "linkfailure"} => Still
         /\ m.kind \in {"hashroute", "load"} => \A q : q # m.pair => Changed(q, 0, 0, 0)
         /\ m.kind = "hashroute" => Changed(m.pair, -1, 0, 0)
         /\ m.kind = "load" => Changed(m.pair, 0, 0, -1)
PROOF
  <1>1. PICK c : c = net OBVIOUS
  <1>2. Loaded(c) /\ SameBag(net, c) /\ c = net' BY <1>1 DEF Packets, SameBag
  <1>3. /\ Packets'
        /\ \A p : Changed(p, 0 - IsIn(m, HashOf(p)), 0 - IsIn(m, RequestOf(p)), 0 - IsIn(m, AnswerOf(p)))
    BY <1>2, ServeChange DEF Serves
  <1>4. Good(m) BY ServedIs
  <1>5. ASSUME m.kind \in {"found", "linkfailure"} PROVE Still
    <2>1. Other(m) BY <1>5 DEF Other
    <2> QED BY <1>2, <2>1, ServeOther
  <1>6. 0 - 0 = 0 /\ 0 - 1 = -1 OBVIOUS
  <1>7. ASSUME m.kind \in {"hashroute", "load"}, NEW q, q # m.pair PROVE Changed(q, 0, 0, 0)
    <2>1. IsIn(m, HashOf(q)) = 0 /\ IsIn(m, RequestOf(q)) = 0 /\ IsIn(m, AnswerOf(q)) = 0
      BY <1>7 DEF IsIn, HashOf, RequestOf, AnswerOf
    <2>2. Changed(q, 0 - 0, 0 - 0, 0 - 0) BY <1>3, <2>1
    <2> QED BY <1>6, <2>2
  <1>8. ASSUME m.kind = "hashroute" PROVE Changed(m.pair, -1, 0, 0)
    <2>1. IsIn(m, HashOf(m.pair)) = 1 /\ IsIn(m, RequestOf(m.pair)) = 0
          /\ IsIn(m, AnswerOf(m.pair)) = 0
      BY <1>4, <1>8 DEF IsIn, HashOf, RequestOf, AnswerOf, Good
    <2>2. Changed(m.pair, 0 - 1, 0 - 0, 0 - 0) BY <1>3, <2>1
    <2> QED BY <1>6, <2>2
  <1>9. ASSUME m.kind = "load" PROVE Changed(m.pair, 0, 0, -1)
    <2>1. IsIn(m, HashOf(m.pair)) = 0 /\ IsIn(m, RequestOf(m.pair)) = 0
          /\ IsIn(m, AnswerOf(m.pair)) = 1
      BY <1>4, <1>9 DEF IsIn, HashOf, RequestOf, AnswerOf, Good
    <2>2. Changed(m.pair, 0 - 0, 0 - 0, 0 - 1) BY <1>3, <2>1
    <2> QED BY <1>6, <2>2
  <1> QED BY <1>3, <1>5, <1>7, <1>8, <1>9

-----------------------------------------------------------------------------
(* The inductive invariant. *)

LEMMA CountsType ==
  ASSUME Packets, NEW p
  PROVE  Hashes(p) \in Nat /\ Requests(p) \in Nat /\ Answers(p) \in Nat
PROOF
  <1>1. PICK b, q : b = net /\ q = pqueue OBVIOUS
  <1>2. Loaded(b) /\ Queued(q) BY <1>1 DEF Packets
  <1>3. \A S : Flying(b, q, S) \in Nat BY <1>2, FlyingType
  <1> QED BY <1>1, <1>3 DEF Hashes, Requests, Answers

LEMMA CountsNext ==
  ASSUME Packets', NEW p
  PROVE  Hashes(p)' \in Nat /\ Requests(p)' \in Nat /\ Answers(p)' \in Nat
PROOF
  <1>1. PICK b, q, M : b = net' /\ q = pqueue' /\ M = Message' OBVIOUS
  <1>2. Network(b) /\ q \in Seq(M) BY <1>1 DEF Packets, Loaded, Queued, Network
  <1>3. \A S : InBag(b, S) \in Nat BY <1>2, InBagType
  <1>4. \A S : InQueue(q, S) \in Nat BY <1>2, InQueueType
  <1>5. \A S : Flying(b, q, S) \in Nat BY <1>3, <1>4 DEF Flying
  <1>6. PICK S1, S2, S3 : S1 = HashOf(p)' /\ S2 = RequestOf(p)' /\ S3 = AnswerOf(p)' OBVIOUS
  <1>7. Hashes(p)' = Flying(b, q, S1) /\ Requests(p)' = Flying(b, q, S2)
        /\ Answers(p)' = Flying(b, q, S3)
    BY <1>1, <1>6
    DEF Hashes, Requests, Answers, Flying, InBag, InQueue, CopiesFor, CopiesOf, Places
  <1> QED BY <1>5, <1>7

Typed ==
    /\ scenario \in Scenarios /\ BrokenOk
    /\ toSend \in [Pair -> Nat] /\ forwarded \in [Pair -> Nat]
    /\ serving \in Pair \cup {Nowhere} /\ queue \in Seq(Pair)
    /\ rows \in [Pair -> Seq(Row)] /\ loads \in [Pair -> Int] /\ dynamic \in [Pair -> BOOLEAN]
    /\ future \in [Switch -> Int]
    /\ probeTimer \in BOOLEAN /\ told \in BOOLEAN /\ learned \subseteq Pair

RoutesOk(p) == Distinct(rows[p], Routes)

(* The switches are asked for their load once, and each answers once. *)
LoadsOk(p) ==
    /\ loads[p] >= -1 /\ Requests(p) <= 1
    /\ loads[p] = -1 => Requests(p) = 0 /\ Answers(p) = 0
    /\ Requests(p) = 1 => loads[p] = 0 /\ Answers(p) = 0
    /\ loads[p] >= 0 => loads[p] + Answers(p) <= NumLoads

BudgetOk(p) ==
    scenario.breaks = {} =>
        Left(rows[p]) = (IF dynamic[p] THEN NUM_PACKETS ELSE 0) - forwarded[p] + Hashes(p)

LearnedOk(p) ==
    p \in learned =>
        /\ dynamic[p] /\ broken # Nowhere
        /\ \A r \in 1 .. Len(rows[p]) : rows[p][r].up[1] = broken => rows[p][r].left <= 0

(* What a host has sent has been forwarded or is at the edge switch. *)
SentOk(p) ==
    forwarded[p] + toSend[p] + InQueue(queue, {p}) + (IF serving = p THEN 1 ELSE 0)
        = scenario.packets[p]

PairOk(p) == RoutesOk(p) /\ LoadsOk(p) /\ BudgetOk(p) /\ LearnedOk(p)

IInv == Typed /\ Packets /\ (\A p \in Pair : PairOk(p) /\ SentOk(p)) /\ RouteAvailable

LEMMA StaysSame ==
  ASSUME Stays
  PROVE  Routes' = Routes /\ NumLoads' = NumLoads /\ Row' = Row /\ NumRoutes' = NumRoutes
PROOF
  BY DEF Stays, Routes, NumLoads, Row, Route, Node, NumRoutes, Up, Down

(* A step that has nothing to do with pair p. *)
Spares(p) ==
    /\ rows'[p] = rows[p] /\ loads'[p] = loads[p] /\ dynamic'[p] = dynamic[p]
    /\ forwarded'[p] = forwarded[p] /\ Changed(p, 0, 0, 0)

LEMMA PairSpared ==
  ASSUME Packets, Stays, NEW p, PairOk(p), Spares(p), learned' = learned
  PROVE  PairOk(p)'
PROOF
  <1>1. Hashes(p) \in Nat /\ Requests(p) \in Nat /\ Answers(p) \in Nat BY CountsType
  <1>2. Hashes(p)' = Hashes(p) /\ Requests(p)' = Requests(p) /\ Answers(p)' = Answers(p)
    BY <1>1 DEF Spares, Changed
  <1>3. RoutesOk(p)' BY StaysSame DEF PairOk, RoutesOk, Spares, Distinct
  <1>4. LoadsOk(p)' BY <1>2, StaysSame DEF PairOk, LoadsOk, Spares
  <1>5. BudgetOk(p)'
    <2>1. PICK rs : rs = rows[p] OBVIOUS
    <2>2. Left(rows[p])' = Left(rs) BY <2>1 DEF Spares, Left
    <2> QED BY <1>2, <2>1, <2>2 DEF PairOk, BudgetOk, Spares, Stays
  <1>6. LearnedOk(p)' BY DEF PairOk, LearnedOk, Spares, Stays
  <1> QED BY <1>3, <1>4, <1>5, <1>6 DEF PairOk

LEMMA SentSpared ==
  ASSUME NEW p, SentOk(p), forwarded'[p] = forwarded[p], toSend'[p] = toSend[p], queue' = queue,
         serving' = serving, scenario' = scenario
  PROVE  SentOk(p)'
PROOF
  BY DEF SentOk, InQueue, Places

(* What stays in a step of the network. *)
Kept == /\ UNCHANGED <<scenario, toSend, serving, queue, rows, dynamic, loads, forwarded, broken,
                       learned>>
        /\ Still

LEMMA KeptOk ==
  ASSUME IInv, Kept
  PROVE  Stays /\ \A p \in Pair : PairOk(p)' /\ SentOk(p)'
PROOF
  <1>1. Stays BY DEF Kept, Stays
  <1>2. ASSUME NEW p \in Pair PROVE PairOk(p)' /\ SentOk(p)'
    <2>1. PairOk(p) /\ SentOk(p) /\ Packets BY DEF IInv
    <2>2. Spares(p) /\ learned' = learned BY DEF Kept, Still, Spares
    <2>3. PairOk(p)' BY <1>1, <2>1, <2>2, PairSpared
    <2>4. SentOk(p)' BY <2>1, SentSpared DEF Kept
    <2> QED BY <2>3, <2>4
  <1> QED BY <1>1, <1>2

LEMMA NothingIs ==
  /\ Loaded(EmptyBag) /\ Queued(<<>>)
  /\ \A S : InBag(EmptyBag, S) = 0 /\ InQueue(<<>>, S) = 0
  /\ <<>> \in Seq(Row) /\ Left(<<>>) = 0 /\ Distinct(<<>>, Routes)
PROOF
  <1>1. PICK b, q : b = EmptyBag /\ q = <<>> OBVIOUS
  <1>2. Network(b) /\ DOMAIN b = {} BY <1>1, EmptyIs
  <1>3. Loaded(b) BY <1>2 DEF Loaded
  <1>4. q \in Seq(Message) /\ Len(q) = 0 /\ q \in Seq(Row) BY <1>1
  <1>5. Queued(q) BY <1>4 DEF Queued
  <1>6. ASSUME NEW S PROVE InBag(b, S) = 0 /\ InQueue(q, S) = 0
    <2>1. CopiesFor(b, S) = {} BY <1>2 DEF CopiesFor
    <2>2. Places(q, S) = {} BY <1>4 DEF Places
    <2> QED BY <2>1, <2>2, FS_EmptySet DEF InBag, InQueue
  <1>7. Left(q) = 0
    <2>1. Lefts(q) \in [1 .. 0 -> Int] /\ Left(q) = SumTo(Lefts(q), 0) BY <1>4, RowsAre
    <2>2. PICK f \in [1 .. 0 -> Int] : Left(q) = SumTo(f, 0) BY <2>1
    <2>3. PICK g \in [0 .. 0 -> Int] : g[0] = 0 /\ SumTo(f, 0) = g[0]
      <3>1. 0 \in Nat OBVIOUS
      <3> QED BY <2>2, <3>1, SumIs
    <2> QED BY <2>2, <2>3
  <1>8. Distinct(q, Routes) BY <1>4 DEF Distinct
  <1> QED BY <1>1, <1>3, <1>4, <1>5, <1>6, <1>7, <1>8

LEMMA InitOk == Init => IInv
PROOF
  <1> SUFFICES ASSUME Init PROVE IInv OBVIOUS
  <1> USE DEF Init
  <1>1. Typed
    <2>1. scenario \in Scenarios OBVIOUS
    <2>2. scenario.packets \in [Pair -> Nat] BY <2>1, ScenarioIs
    <2>3. PICK e : e = <<>> OBVIOUS
    <2>4. e \in Seq(Row) /\ e \in Seq(Pair) BY <2>3
    <2>5. rows = [p \in Pair |-> e] /\ queue = e BY <2>3
    <2>6. rows \in [Pair -> Seq(Row)] /\ queue \in Seq(Pair) BY <2>4, <2>5
    <2>7. loads \in [Pair -> Int] /\ dynamic \in [Pair -> BOOLEAN] /\ future \in [Switch -> Int]
          /\ forwarded \in [Pair -> Nat] /\ toSend \in [Pair -> Nat]
      BY <2>2
    <2> QED BY <2>1, <2>6, <2>7 DEF Typed, BrokenOk
  <1>2. Packets BY NothingIs DEF Packets
  <1>3. ASSUME NEW p \in Pair PROVE PairOk(p) /\ SentOk(p)
    <2>1. Hashes(p) = 0 /\ Requests(p) = 0 /\ Answers(p) = 0
      BY NothingIs DEF Hashes, Requests, Answers, Flying
    <2>2. rows[p] = <<>> /\ loads[p] = -1 /\ ~dynamic[p] /\ forwarded[p] = 0 OBVIOUS
    <2>3. RoutesOk(p) BY <2>2, NothingIs DEF RoutesOk
    <2>4. LoadsOk(p) BY <2>1, <2>2 DEF LoadsOk
    <2>5. BudgetOk(p)
      <3>1. Left(rows[p]) = 0 BY <2>2, NothingIs
      <3> QED BY <2>1, <2>2, <3>1 DEF BudgetOk
    <2>6. LearnedOk(p) BY DEF LearnedOk
    <2>7. SentOk(p)
      <3>1. InQueue(queue, {p}) = 0 BY NothingIs
      <3>2. scenario.packets[p] \in Nat /\ Nowhere # p BY ScenarioIs
      <3> QED BY <2>2, <3>1, <3>2 DEF SentOk
    <2> QED BY <2>3, <2>4, <2>5, <2>6, <2>7 DEF PairOk
  <1>4. RouteAvailable BY DEF RouteAvailable
  <1> QED BY <1>1, <1>2, <1>3, <1>4 DEF IInv

LEMMA AvailableStays ==
  ASSUME RouteAvailable, scenario' = scenario,
         err' \in {err, "no_route", "not_an_ICMPMessage", "reply_taken_for_request"}
  PROVE  RouteAvailable'
PROOF
  BY DEF RouteAvailable

LEMMA HostSendsOk ==
  ASSUME IInv, NEW h \in Pair, HostSends(h)
  PROVE  IInv'
PROOF
  <1> USE DEF HostSends
  <1>1. Typed /\ Packets /\ RouteAvailable BY DEF IInv
  <1>2. Stays BY DEF Stays
  <1>3. Packets' /\ Still BY <1>1, <1>2, Unmoved
  <1>4. h # Nowhere BY <1>1, ScenarioIs DEF Typed
  <1>5. Typed'
    <2>1. toSend' \in [Pair -> Nat]
      <3>1. toSend \in [Pair -> Nat] /\ toSend[h] > 0 BY <1>1 DEF Typed
      <3>2. PICK n : n = toSend[h] - 1 OBVIOUS
      <3>3. n \in Nat BY <3>1, <3>2
      <3>4. toSend' = [toSend EXCEPT ![h] = n] BY <3>2
      <3> QED BY <3>1, <3>3, <3>4
    <2>2. serving' \in Pair \cup {Nowhere} BY <1>1 DEF Typed
    <2>3. queue' \in Seq(Pair)
      <3>1. PICK q \in Seq(Pair) : q = queue BY <1>1 DEF Typed
      <3>2. Append(q, h) \in Seq(Pair) OBVIOUS
      <3>3. queue' = q \/ queue' = Append(q, h) BY <3>1
      <3> QED BY <3>2, <3>3
    <2> QED BY <1>1, <1>2, <2>1, <2>2, <2>3, StaysSame DEF Typed, BrokenOk
  <1>6. ASSUME NEW p \in Pair PROVE PairOk(p)' /\ SentOk(p)'
    <2>1. PairOk(p) /\ SentOk(p) BY DEF IInv
    <2>2. Spares(p) /\ learned' = learned BY <1>3 DEF Still, Spares
    <2>3. PairOk(p)' BY <1>1, <1>2, <2>1, <2>2, PairSpared
    <2>4. PICK q, S : q = queue /\ S = {p} OBVIOUS
    <2>5. q \in Seq(Pair) BY <1>1, <2>4 DEF Typed
    <2>6. InQueue(q, S) \in Nat BY <2>5, InQueueType
    <2>7. toSend'[p] = toSend[p] - (IF p = h THEN 1 ELSE 0) /\ toSend[p] \in Nat
      BY <1>1 DEF Typed
    <2>8. forwarded'[p] = forwarded[p] /\ forwarded[p] \in Nat BY <1>1 DEF Typed
    <2>9. SentOk(p)'
      <3>1. CASE serving = Nowhere
        <4>1. serving' = h /\ queue' = queue BY <3>1
        <4>2. InQueue(queue, {p})' = InQueue(q, S) BY <2>4, <4>1 DEF InQueue, Places
        <4>3. serving # p BY <1>1, <3>1, ScenarioIs DEF Typed
        <4> QED BY <2>1, <2>4, <2>6, <2>7, <2>8, <4>1, <4>2, <4>3 DEF SentOk
      <3>2. CASE serving # Nowhere
        <4>1. serving' = serving /\ queue' = Append(queue, h) BY <3>2
        <4>2. PICK d : d = queue' OBVIOUS
        <4>3. Longer(q, h, d) BY <2>4, <4>1, <4>2 DEF Longer
        <4>4. InQueue(d, S) = InQueue(q, S) + IsIn(h, S) BY <2>5, <4>3, QueueAppend
        <4>5. InQueue(queue, {p})' = InQueue(d, S) BY <2>4, <4>2 DEF InQueue, Places
        <4>6. IsIn(h, S) = IF p = h THEN 1 ELSE 0 BY <2>4 DEF IsIn
        <4> QED BY <2>1, <2>4, <2>6, <2>7, <2>8, <4>1, <4>4, <4>5, <4>6 DEF SentOk
      <3> QED BY <3>1, <3>2
    <2> QED BY <2>3, <2>9
  <1>7. RouteAvailable' BY <1>1, <1>2, AvailableStays DEF Stays
  <1> QED BY <1>3, <1>5, <1>6, <1>7 DEF IInv

LEMMA ControlOk ==
  ASSUME IInv, ControlArrives
  PROVE  IInv'
PROOF
  <1>1. Typed /\ Packets /\ RouteAvailable BY DEF IInv
  <1>2. Packets' /\ Still BY <1>1, ControlStep
  <1>3. Kept BY <1>2 DEF ControlArrives, Kept
  <1>4. Stays /\ \A p \in Pair : PairOk(p)' /\ SentOk(p)' BY <1>3, KeptOk
  <1>5. Typed' BY <1>1, <1>4, StaysSame DEF Typed, BrokenOk, ControlArrives
  <1>6. RouteAvailable' BY <1>1, AvailableStays DEF ControlArrives
  <1> QED BY <1>2, <1>4, <1>5, <1>6 DEF IInv

LEMMA SwitchOk ==
  ASSUME IInv, SwitchStep
  PROVE  IInv'
PROOF
  <1>1. Typed /\ Packets /\ RouteAvailable /\ scenario \in Scenarios /\ future \in [Switch -> Int]
    BY DEF IInv, Typed
  <1>2. PICK m \in DOMAIN net :
          /\ m.at # Edge
          /\ \/ ProbeAtAggregate(m) \/ HashAtAggregate(m) \/ DataAtSwitch(m) \/ CountAtSwitch(m)
             \/ AskLoads(m) \/ AnswerLoad(m) \/ FailureAtController(m)
    BY DEF SwitchStep, BagToSet
  <1>3. UNCHANGED <<scenario, toSend, serving, queue, pqueue, probeTimer, rows, dynamic, loads,
                    forwarded, broken, told, learned>>
    BY DEF SwitchStep
  <1>4. Stays /\ pqueue' = pqueue BY <1>3 DEF Stays
  <1>5. CASE Packets' /\ Still /\ future' \in [Switch -> Int]
             /\ err' \in {err, "no_route", "not_an_ICMPMessage", "reply_taken_for_request"}
    <2>1. Kept BY <1>3, <1>5 DEF Kept
    <2>2. \A p \in Pair : PairOk(p)' /\ SentOk(p)' BY <2>1, KeptOk
    <2>3. Typed' BY <1>1, <1>3, <1>4, <1>5, StaysSame DEF Typed, BrokenOk
    <2>4. RouteAvailable' BY <1>1, <1>3, <1>5, AvailableStays
    <2> QED BY <1>5, <2>2, <2>3, <2>4 DEF IInv
  <1>6. CASE ProbeAtAggregate(m)
    <2>1. Packets' /\ Still BY <1>1, <1>2, <1>4, <1>6, ProbeRelay
    <2> QED BY <1>1, <1>5, <1>6, <2>1 DEF ProbeAtAggregate
  <1>7. CASE HashAtAggregate(m)
    <2>1. Packets' /\ Still BY <1>1, <1>2, <1>4, <1>7, HashRelay
    <2> QED BY <1>1, <1>5, <1>7, <2>1 DEF HashAtAggregate
  <1>8. CASE DataAtSwitch(m)
    <2>1. Packets' /\ Still /\ future' \in [Switch -> Int] BY <1>1, <1>2, <1>4, <1>8, DataRelay
    <2> QED BY <1>5, <1>8, <2>1 DEF DataAtSwitch
  <1>9. CASE CountAtSwitch(m)
    <2>1. /\ Packets' /\ Still /\ future' \in [Switch -> Int]
          /\ err' \in {err, "no_route", "not_an_ICMPMessage"}
      BY <1>1, <1>2, <1>4, <1>9, CountRelay
    <2> QED BY <1>5, <2>1
  <1>10. CASE AnswerLoad(m)
    <2>1. Packets' /\ Still /\ err' \in {err, "reply_taken_for_request"}
      BY <1>1, <1>2, <1>4, <1>10, AnswerRelay
    <2> QED BY <1>1, <1>5, <1>10, <2>1 DEF AnswerLoad
  <1>11. CASE FailureAtController(m)
    <2>1. Packets' /\ Still BY <1>1, <1>2, <1>4, <1>11, FailureRelay
    <2> QED BY <1>1, <1>5, <1>11, <2>1 DEF FailureAtController
  <1>12. CASE AskLoads(m)
    <2>1. PICK p : p = m.pair OBVIOUS
    <2>2. Requests(p) >= 1 BY <1>1, <1>12, <2>1, SomeRequest
    <2>3. p \in Pair
      <3>1. Good(m) /\ m.kind = "loadrequest" BY <1>1, <1>12 DEF Packets, Loaded, AskLoads
      <3> QED BY <2>1, <3>1, FieldsOf DEF Good, Fields
    <2>4. PairOk(p) /\ SentOk(p) BY <2>3 DEF IInv
    <2>5. Hashes(p) \in Nat /\ Requests(p) \in Nat /\ Answers(p) \in Nat BY <1>1, CountsType
    <2>6. Requests(p) = 1 /\ loads[p] = 0 /\ Answers(p) = 0
      BY <2>2, <2>4, <2>5 DEF PairOk, LoadsOk
    <2>7. /\ Packets'
          /\ \A q : q # p => Changed(q, 0, 0, 0)
          /\ \E a \in 0 .. NumLoads : Changed(p, 0, -1, a)
      BY <1>1, <1>4, <1>12, <2>1, <2>6, AskRelay
    <2>8. PICK a \in 0 .. NumLoads : Changed(p, 0, -1, a) BY <2>7
    <2>9. Hashes(p)' = Hashes(p) /\ Requests(p)' = 0 /\ Answers(p)' = a
      BY <2>5, <2>6, <2>8 DEF Changed
    <2>10. PairOk(p)'
      <3>1. RoutesOk(p)' BY <1>3, <1>4, <2>4, StaysSame DEF PairOk, RoutesOk, Distinct
      <3>2. LoadsOk(p)'
        <4>1. NumLoads \in Nat
          <5>1. IsFiniteSet(scenario.asked) BY <1>1, ScenarioIs
          <5> QED BY <5>1, FS_CardinalityType DEF NumLoads
        <4>2. loads'[p] = 0 /\ NumLoads' = NumLoads BY <1>3, <1>4, <2>6, StaysSame
        <4> QED BY <2>8, <2>9, <4>1, <4>2 DEF LoadsOk
      <3>3. BudgetOk(p)' BY <1>3, <2>4, <2>9 DEF PairOk, BudgetOk, Left
      <3>4. LearnedOk(p)' BY <1>3, <2>4 DEF PairOk, LearnedOk
      <3> QED BY <3>1, <3>2, <3>3, <3>4 DEF PairOk
    <2>11. ASSUME NEW q \in Pair PROVE PairOk(q)' /\ SentOk(q)'
      <3>1. PairOk(q) /\ SentOk(q) BY DEF IInv
      <3>2. SentOk(q)' BY <1>3, <3>1, SentSpared
      <3>3. CASE q # p
        <4>1. Spares(q) BY <1>3, <2>7, <3>3 DEF Spares
        <4> QED BY <1>1, <1>3, <1>4, <3>1, <3>2, <4>1, PairSpared
      <3> QED BY <2>10, <3>2, <3>3
    <2>12. Typed' BY <1>1, <1>3, <1>4, <1>12, StaysSame DEF Typed, BrokenOk, AskLoads
    <2>13. RouteAvailable' BY <1>1, <1>3, <1>12, AvailableStays DEF AskLoads
    <2> QED BY <2>7, <2>11, <2>12, <2>13 DEF IInv
  <1> QED BY <1>2, <1>6, <1>7, <1>8, <1>9, <1>10, <1>11, <1>12

LEMMA BreakOk ==
  ASSUME IInv, LinkBreaks
  PROVE  IInv'
PROOF
  <1> USE DEF LinkBreaks
  <1>1. Typed /\ Packets /\ RouteAvailable BY DEF IInv
  <1>2. scenario' = scenario /\ broken = Nowhere /\ broken' \in scenario.breaks OBVIOUS
  <1>3. /\ Message' = Message /\ Routes' = Routes /\ Up(Edge)' = Up(Edge)
        /\ NumLoads' = NumLoads /\ Row' = Row
    BY DEF Message, Node, Route, Routes, Up, Down, NumLoads, Row
  <1>4. ASSUME NEW m, Good(m) PROVE Good(m)'
    <2>1. m.kind # "linkfailure" BY <1>2, <1>4 DEF Good, MessageOk
    <2>2. MessageOk(m)' BY <1>3, <1>4, <2>1 DEF Good, MessageOk, Heads
    <2> QED BY <1>3, <1>4, <2>2 DEF Good
  <1>5. Packets'
    <2>1. Loaded(net)'
      <3>1. Network(net)' BY <1>1 DEF Packets, Loaded, Network
      <3>2. \A m \in DOMAIN net : Good(m)' BY <1>1, <1>4 DEF Packets, Loaded
      <3> QED BY <3>1, <3>2 DEF Loaded
    <2>2. Queued(pqueue)'
      <3>1. \A i \in 1 .. Len(pqueue) : Good(pqueue[i]) BY <1>1 DEF Packets, Queued
      <3>2. ASSUME NEW i \in 1 .. Len(pqueue) PROVE Good(pqueue[i])'
        <4>1. PICK m : m = pqueue[i] OBVIOUS
        <4>2. Good(m)' /\ m = pqueue'[i] BY <1>4, <3>1, <4>1
        <4> QED BY <1>3, <4>2 DEF Good, MessageOk, Heads
      <3> QED BY <1>1, <1>3, <3>2 DEF Packets, Queued
    <2> QED BY <2>1, <2>2 DEF Packets
  <1>6. Typed' BY <1>1, <1>2, <1>3 DEF Typed, BrokenOk
  <1>7. ASSUME NEW p \in Pair PROVE PairOk(p)' /\ SentOk(p)'
    <2>1. PairOk(p) /\ SentOk(p) BY DEF IInv
    <2>2. HashOf(p)' = HashOf(p) /\ RequestOf(p)' = RequestOf(p) /\ AnswerOf(p)' = AnswerOf(p)
      BY <1>2, FamiliesStay
    <2>3. Hashes(p)' = Hashes(p) /\ Requests(p)' = Requests(p) /\ Answers(p)' = Answers(p)
      BY <2>2 DEF Hashes, Requests, Answers, Flying, InBag, InQueue, CopiesFor, CopiesOf, Places
    <2>4. RoutesOk(p)' BY <1>3, <2>1 DEF PairOk, RoutesOk, Distinct
    <2>5. LoadsOk(p)' BY <1>3, <2>1, <2>3 DEF PairOk, LoadsOk
    <2>6. BudgetOk(p)' BY <1>2 DEF BudgetOk
    <2>7. LearnedOk(p)' BY <1>2, <2>1 DEF PairOk, LearnedOk
    <2>8. SentOk(p)' BY <2>1, SentSpared
    <2> QED BY <2>4, <2>5, <2>6, <2>7, <2>8 DEF PairOk
  <1>8. RouteAvailable' BY <1>1, AvailableStays
  <1> QED BY <1>5, <1>6, <1>7, <1>8 DEF IInv

(* The packet of pair h that is in service is forwarded. *)
Forwards(h) ==
    /\ serving = h /\ NextServed /\ forwarded' = [forwarded EXCEPT ![h] = @ + 1]
    /\ toSend' = toSend /\ scenario' = scenario

LEMMA ForwardsOk ==
  ASSUME Typed, NEW h \in Pair, Forwards(h)
  PROVE  /\ serving' \in Pair \cup {Nowhere} /\ queue' \in Seq(Pair)
         /\ forwarded' \in [Pair -> Nat] /\ forwarded'[h] = forwarded[h] + 1
         /\ \A p \in Pair : p # h => forwarded'[p] = forwarded[p]
         /\ \A p \in Pair : SentOk(p) => SentOk(p)'
PROOF
  <1>1. PICK q \in Seq(Pair) : q = queue BY DEF Typed
  <1>2. \A p \in Pair : forwarded[p] \in Nat /\ toSend[p] \in Nat BY DEF Typed
  <1>3. /\ forwarded' \in [Pair -> Nat] /\ forwarded'[h] = forwarded[h] + 1
        /\ \A p \in Pair : p # h => forwarded'[p] = forwarded[p]
    <2>1. PICK n \in Nat : n = forwarded[h] + 1 BY <1>2
    <2>2. forwarded' = [forwarded EXCEPT ![h] = n] BY <2>1 DEF Forwards
    <2> QED BY <2>1, <2>2 DEF Typed
  <1>4. Nowhere \notin Pair BY ScenarioIs DEF Typed
  <1>5. CASE q = <<>>
    <2>1. serving' = Nowhere /\ queue' = queue BY <1>1, <1>5 DEF Forwards, NextServed
    <2>2. ASSUME NEW p \in Pair, SentOk(p) PROVE SentOk(p)'
      <3>1. PICK k : k = InQueue(q, {p}) OBVIOUS
      <3>2. k \in Nat BY <3>1, InQueueType
      <3>3. InQueue(queue, {p})' = k BY <1>1, <2>1, <3>1 DEF InQueue, Places
      <3>4. forwarded[p] + toSend[p] + k + (IF h = p THEN 1 ELSE 0) = scenario.packets[p]
        BY <1>1, <2>2, <3>1 DEF SentOk, Forwards
      <3>5. forwarded'[p] = forwarded[p] + (IF h = p THEN 1 ELSE 0) BY <1>2, <1>3
      <3>6. forwarded'[p] + toSend[p] + k + 0 = scenario.packets[p]
        <4>1. PICK f \in Nat, t \in Nat : f = forwarded[p] /\ t = toSend[p] BY <1>2
        <4>2. PICK g : g = forwarded'[p] OBVIOUS
        <4>3. g = f + (IF h = p THEN 1 ELSE 0) BY <3>5, <4>1, <4>2
        <4>4. f + t + k + (IF h = p THEN 1 ELSE 0) = scenario.packets[p] BY <3>4, <4>1
        <4>5. g + t + k + 0 = scenario.packets[p] BY <3>2, <4>3, <4>4
        <4> QED BY <4>1, <4>2, <4>5
      <3>7. serving' # p BY <1>4, <2>1
      <3> QED BY <3>3, <3>6, <3>7 DEF SentOk, Forwards
    <2> QED BY <1>1, <1>3, <2>1, <2>2
  <1>6. CASE q # <<>>
    <2>1. PICK d, x : d = Tail(q) /\ x = Head(q) OBVIOUS
    <2>2. serving' = x /\ queue' = d BY <1>1, <1>6, <2>1 DEF Forwards, NextServed
    <2>3. d \in Seq(Pair) /\ x \in Pair BY <1>6, <2>1
    <2>4. ASSUME NEW p \in Pair, SentOk(p) PROVE SentOk(p)'
      <3>1. PICK k, j : k = InQueue(q, {p}) /\ j = InQueue(d, {p}) OBVIOUS
      <3>2. k \in Nat /\ j \in Nat BY <2>3, <3>1, InQueueType
      <3>3. j = k - IsIn(x, {p})
        <4>1. \A S : InQueue(d, S) = InQueue(q, S) - IsIn(Head(q), S) BY <1>6, <2>1, QueueTail
        <4> QED BY <2>1, <3>1, <4>1
      <3>4. InQueue(queue, {p})' = j BY <2>2, <3>1 DEF InQueue, Places
      <3>5. forwarded[p] + toSend[p] + k + (IF h = p THEN 1 ELSE 0) = scenario.packets[p]
        BY <1>1, <2>4, <3>1 DEF SentOk, Forwards
      <3>6. forwarded'[p] = forwarded[p] + (IF h = p THEN 1 ELSE 0) BY <1>2, <1>3
      <3>7. IsIn(x, {p}) = IF x = p THEN 1 ELSE 0 BY DEF IsIn
      <3>8. forwarded'[p] + toSend[p] + j + (IF x = p THEN 1 ELSE 0) = scenario.packets[p]
        <4>1. PICK f \in Nat, t \in Nat : f = forwarded[p] /\ t = toSend[p] BY <1>2
        <4>2. PICK g : g = forwarded'[p] OBVIOUS
        <4>3. g = f + (IF h = p THEN 1 ELSE 0) BY <3>6, <4>1, <4>2
        <4>4. f + t + k + (IF h = p THEN 1 ELSE 0) = scenario.packets[p] BY <3>5, <4>1
        <4>5. PICK i \in 0 .. 1 : i = IsIn(x, {p}) BY <3>7
        <4>6. j = k - i /\ i = IF x = p THEN 1 ELSE 0 BY <3>3, <3>7, <4>5
        <4>7. g + t + j + i = scenario.packets[p] BY <3>2, <4>3, <4>4, <4>6
        <4> QED BY <4>1, <4>2, <4>6, <4>7
      <3> QED BY <2>2, <3>4, <3>8 DEF SentOk, Forwards
    <2> QED BY <1>3, <2>2, <2>3, <2>4
  <1> QED BY <1>5, <1>6

(* What else stays when a data packet is served. *)
EndKeeps == UNCHANGED <<scenario, toSend, probeTimer, future, broken, learned>>

LEMMA HashOk ==
  ASSUME IInv, NEW h \in Pair, HashStep(h), EndKeeps
  PROVE  IInv'
PROOF
  <1>1. Typed /\ Packets /\ RouteAvailable BY DEF IInv
  <1>2. Stays BY DEF EndKeeps, Stays
  <1>3. PICK k : k = IF AsksLoad(h) THEN 1 ELSE 0 OBVIOUS
  <1>4. Packets' /\ (\A q : q # h => Changed(q, 0, 0, 0)) /\ Changed(h, 1, k, 0)
    BY <1>1, <1>2, <1>3, HashPackets DEF Typed
  <1>5. Forwards(h) BY DEF HashStep, EndKeeps, Forwards
  <1>6. /\ serving' \in Pair \cup {Nowhere} /\ queue' \in Seq(Pair)
        /\ forwarded' \in [Pair -> Nat] /\ forwarded'[h] = forwarded[h] + 1
        /\ \A p \in Pair : p # h => forwarded'[p] = forwarded[p]
        /\ \A p \in Pair : SentOk(p) => SentOk(p)'
    BY <1>1, <1>5, ForwardsOk
  <1>7. rows' = rows /\ dynamic' = dynamic /\ err' = err /\ told' \in BOOLEAN
        /\ loads' = IF AsksLoad(h) THEN [loads EXCEPT ![h] = 0] ELSE loads
    BY <1>1 DEF HashStep, Typed
  <1>8. loads \in [Pair -> Int] BY <1>1 DEF Typed
  <1>9. loads' \in [Pair -> Int] BY <1>7, <1>8
  <1>10. Typed' BY <1>1, <1>2, <1>6, <1>7, <1>9, StaysSame DEF Typed, BrokenOk, EndKeeps
  <1>11. PairOk(h)'
    <2>1. PairOk(h) BY DEF IInv
    <2>2. Hashes(h) \in Nat /\ Requests(h) \in Nat /\ Answers(h) \in Nat BY <1>1, CountsType
    <2>3. Hashes(h)' = Hashes(h) + 1 /\ Requests(h)' = Requests(h) + k /\ Answers(h)' = Answers(h)
      BY <1>4, <2>2 DEF Changed
    <2>4. RoutesOk(h)' BY <1>2, <1>7, <2>1, StaysSame DEF PairOk, RoutesOk, Distinct
    <2>5. LoadsOk(h)'
      <3>1. NumLoads \in Nat /\ NumLoads' = NumLoads
        <4>1. IsFiniteSet(scenario.asked) BY <1>1, ScenarioIs DEF Typed
        <4> QED BY <1>2, <4>1, StaysSame, FS_CardinalityType DEF NumLoads
      <3>2. LoadsOk(h) BY <2>1 DEF PairOk
      <3>3. CASE AsksLoad(h)
        <4>1. loads[h] = -1 /\ loads'[h] = 0 /\ k = 1 BY <1>3, <1>7, <1>8, <3>3 DEF AsksLoad
        <4> QED BY <2>2, <2>3, <3>1, <3>2, <4>1 DEF LoadsOk
      <3>4. CASE ~AsksLoad(h)
        <4>1. loads'[h] = loads[h] /\ k = 0 BY <1>3, <1>7, <3>4
        <4>2. Requests(h)' = Requests(h) BY <2>2, <2>3, <4>1
        <4> QED BY <2>3, <3>1, <3>2, <4>1, <4>2 DEF LoadsOk
      <3> QED BY <3>3, <3>4
    <2>6. BudgetOk(h)'
      <3>1. PICK l, f, c : l = Left(rows[h]) /\ f = forwarded[h] /\ c = Hashes(h) OBVIOUS
      <3>2. Left(rows[h])' = l BY <1>7, <3>1 DEF Left
      <3>3. f \in Nat BY <1>1, <3>1 DEF Typed
      <3>4. PICK n \in Int : n = IF dynamic[h] THEN NUM_PACKETS ELSE 0 BY NumPacketsAssumption
      <3>5. scenario.breaks = {} => l = n - f + c BY <2>1, <3>1, <3>4 DEF PairOk, BudgetOk
      <3>6. l = n - f + c => l = n - (f + 1) + (c + 1) BY <2>2, <3>1, <3>3, <3>4
      <3>7. scenario.breaks = {} => l = n - forwarded'[h] + Hashes(h)'
        BY <1>6, <2>3, <3>1, <3>5, <3>6
      <3> QED BY <1>2, <1>7, <3>2, <3>4, <3>7 DEF BudgetOk, Stays
    <2>7. LearnedOk(h)' BY <1>7, <2>1 DEF PairOk, LearnedOk, EndKeeps
    <2> QED BY <2>4, <2>5, <2>6, <2>7 DEF PairOk
  <1>12. ASSUME NEW p \in Pair PROVE PairOk(p)' /\ SentOk(p)'
    <2>1. PairOk(p) /\ SentOk(p) BY DEF IInv
    <2>2. SentOk(p)' BY <1>6, <2>1
    <2>3. CASE p # h
      <3>1. Spares(p) /\ learned' = learned BY <1>4, <1>6, <1>7, <1>8, <2>3 DEF Spares, EndKeeps
      <3>2. PairOk(p)' BY <1>1, <1>2, <2>1, <3>1, PairSpared
      <3> QED BY <2>2, <3>2
    <2> QED BY <1>11, <2>2, <2>3
  <1>13. RouteAvailable' BY <1>1, <1>7, AvailableStays DEF EndKeeps
  <1> QED BY <1>4, <1>10, <1>12, <1>13 DEF IInv

(* A packet is taken off the packets left on route r. *)
Along(rs, r, qs) == qs = [rs EXCEPT ![r].left = @ - 1, ![r].sent = @ + 1]

LEMMA SendAlong ==
  ASSUME NEW rs \in Seq(Row), NEW r \in 1 .. Len(rs), NEW qs,
         Along(rs, r, qs)
  PROVE  /\ qs \in Seq(Row) /\ Len(qs) = Len(rs) /\ Left(qs) = Left(rs) - 1
         /\ \A i \in 1 .. Len(rs) : qs[i].up = rs[i].up /\ (i # r => qs[i] = rs[i])
         /\ qs[r].left = rs[r].left - 1
PROOF
  <1>1. PICK n \in Nat : n = Len(rs) OBVIOUS
  <1>2. DOMAIN rs = 1 .. n /\ \A i \in 1 .. n : rs[i] \in Row BY <1>1, RowsAre
  <1>3. PICK x : x = rs[r] OBVIOUS
  <1>4. x \in Row BY <1>1, <1>2, <1>3
  <1>5. x.left \in Int /\ x.sent \in Nat BY <1>4 DEF Row
  <1>6. PICK l, s : l = x.left - 1 /\ s = x.sent + 1 OBVIOUS
  <1>7. l \in Int /\ s \in Nat BY <1>5, <1>6
  <1>8. PICK y : y = [x EXCEPT !.left = l, !.sent = s] OBVIOUS
  <1>9. y \in Row BY <1>4, <1>7, <1>8 DEF Row
  <1>10. y.left = l /\ y.up = x.up BY <1>4, <1>8 DEF Row
  <1>11. qs = [rs EXCEPT ![r] = y] BY <1>1, <1>2, <1>3, <1>6, <1>8 DEF Along
  <1>12. qs \in Seq(Row) /\ Len(qs) = n BY <1>1, <1>9, <1>11
  <1>13. \A i \in 1 .. n : (i # r => qs[i] = rs[i]) /\ (i = r => qs[i] = y)
    <2>1. ASSUME NEW i \in 1 .. n, i # r PROVE qs[i] = rs[i] BY <1>2, <1>11, <2>1
    <2>2. qs[r] = y BY <1>1, <1>2, <1>11
    <2> QED BY <2>1, <2>2
  <1>14. Left(qs) = Left(rs) + qs[r].left - rs[r].left
    <2>1. \A i \in 1 .. Len(rs) : i # r => qs[i].left = rs[i].left BY <1>1, <1>13
    <2>2. qs \in Seq(Row) /\ Len(qs) = Len(rs) BY <1>1, <1>12
    <2> QED BY <2>1, <2>2, ChangeOne
  <1>15. Left(rs) \in Int BY RowsAre
  <1>16. qs[r].left = x.left - 1 BY <1>1, <1>6, <1>10, <1>13
  <1>17. Left(qs) = Left(rs) - 1 BY <1>3, <1>5, <1>14, <1>15, <1>16
  <1>18. \A i \in 1 .. n : qs[i].up = rs[i].up BY <1>3, <1>10, <1>13
  <1> QED BY <1>1, <1>3, <1>12, <1>13, <1>16, <1>17, <1>18

(* The rows from which the route of a packet is chosen. *)
Chosen(p) == IF Fills(p) THEN fill_delay_load_matrix(rows[p]) ELSE rows[p]

LEMMA ChosenIs ==
  ASSUME IInv, NEW h \in Pair, UseRoutes(h), NEW rs, rs = Chosen(h)
  PROVE  /\ rs \in Seq(Row) /\ Distinct(rs, Routes)
         /\ (dynamic[h] <=> ~Fills(h)) /\ (dynamic[h] => rs = rows[h])
         /\ Left(rs) = Left(rows[h]) + (IF Fills(h) THEN NUM_PACKETS ELSE 0)
PROOF
  <1>1. Typed /\ Packets /\ PairOk(h) BY DEF IInv
  <1>2. rows[h] \in Seq(Row) /\ dynamic[h] \in BOOLEAN /\ loads[h] \in Int BY <1>1 DEF Typed
  <1>3. PICK qs \in Seq(Row) : qs = rows[h] BY <1>2
  <1>4. Distinct(qs, Routes) /\ LoadsOk(h) BY <1>1, <1>3 DEF PairOk, RoutesOk
  <1>5. Answers(h) \in Nat BY <1>1, CountsType
  <1>6. NumLoads \in Nat
    <2>1. IsFiniteSet(scenario.asked) BY <1>1, ScenarioIs DEF Typed
    <2> QED BY <2>1, FS_CardinalityType DEF NumLoads
  <1>7. loads[h] >= NumLoads BY DEF UseRoutes
  <1>8. loads[h] = NumLoads BY <1>2, <1>4, <1>5, <1>6, <1>7 DEF LoadsOk
  <1>9. Fills(h) <=> ~dynamic[h] BY <1>8 DEF UseRoutes, Fills
  <1>10. CASE Fills(h)
    <2>1. rs = fill_delay_load_matrix(qs) BY <1>3, <1>10 DEF Chosen
    <2>2. Len(qs) > 0
      <3>1. Len(qs) = NumRoutes BY <1>3 DEF UseRoutes
      <3>2. NumRoutes \in Nat \ {0} BY <1>1, RoutesAre DEF Typed
      <3> QED BY <3>1, <3>2
    <2>3. SameRoutes(qs, rs) /\ Left(rs) = Left(qs) + NUM_PACKETS BY <2>1, <2>2, FillIs
    <2>4. Distinct(rs, Routes) BY <1>4, <2>3, SameDistinct
    <2> QED BY <1>3, <1>9, <1>10, <2>3, <2>4 DEF SameRoutes
  <1>11. CASE ~Fills(h)
    <2>1. rs = qs BY <1>3, <1>11 DEF Chosen
    <2>2. Left(qs) \in Int BY RowsAre
    <2> QED BY <1>2, <1>3, <1>4, <1>9, <1>11, <2>1, <2>2
  <1> QED BY <1>10, <1>11

LEMMA RouteOk ==
  ASSUME IInv, NEW h \in Pair, RouteStep(h), EndKeeps
  PROVE  IInv'
PROOF
  <1>1. Typed /\ Packets /\ RouteAvailable /\ PairOk(h) /\ SentOk(h) BY DEF IInv
  <1>2. Stays BY DEF EndKeeps, Stays
  <1>3. PICK rs : rs = Chosen(h) OBVIOUS
  <1>4. serving = h /\ UseRoutes(h) BY DEF RouteStep
  <1>5. /\ rs \in Seq(Row) /\ Distinct(rs, Routes)
        /\ (dynamic[h] <=> ~Fills(h)) /\ (dynamic[h] => rs = rows[h])
        /\ Left(rs) = Left(rows[h]) + (IF Fills(h) THEN NUM_PACKETS ELSE 0)
    BY <1>3, <1>4, ChosenIs
  <1>6. DOMAIN rs = 1 .. Len(rs) /\ Left(rs) \in Int BY <1>5, RowsAre
  <1>7. CASE Usable(rs) = {}
    <2>1. /\ err' = "path_to_be_taken"
          /\ UNCHANGED <<serving, queue, pqueue, rows, dynamic, loads, forwarded, net, told>>
      BY <1>3, <1>7 DEF RouteStep, Chosen
    <2>2. Packets' /\ Still BY <1>1, <1>2, <2>1, Unmoved
    <2>3. Kept BY <2>1, <2>2 DEF Kept, EndKeeps
    <2>4. \A p \in Pair : PairOk(p)' /\ SentOk(p)' BY <2>3, KeptOk
    <2>5. Typed' BY <1>1, <1>2, <2>1, StaysSame DEF Typed, BrokenOk, EndKeeps
    <2>6. ~(scenario.breaks = {} /\ \A p \in Pair : scenario.packets[p] <= NUM_PACKETS)
      <3> SUFFICES ASSUME scenario.breaks = {}, scenario.packets[h] <= NUM_PACKETS PROVE FALSE
        OBVIOUS
      <3>1. PICK n \in Nat : n = Len(rs) BY <1>5
      <3>2. Lefts(rs) \in [1 .. n -> Int] /\ Left(rs) = SumTo(Lefts(rs), n)
        BY <1>5, <3>1, RowsAre
      <3>3. \A i \in 1 .. n : Lefts(rs)[i] <= 0
        <4>1. \A i \in 1 .. n : ~(rs[i].left > 0) BY <1>6, <1>7, <3>1 DEF Usable
        <4>2. \A i \in 1 .. n : Lefts(rs)[i] = rs[i].left BY <1>6, <3>1 DEF Lefts
        <4>3. \A i \in 1 .. n : Lefts(rs)[i] \in Int BY <3>2
        <4> QED BY <4>1, <4>2, <4>3
      <3>4. Left(rs) <= 0 BY <3>2, <3>3, SumPositive
      <3>5. PICK f, c : f = forwarded[h] /\ c = Hashes(h) OBVIOUS
      <3>6. f \in Nat /\ c \in Nat /\ toSend[h] \in Nat BY <1>1, <3>5, CountsType DEF Typed
      <3>7. PICK l : l = Left(rows[h]) OBVIOUS
      <3>8. l = (IF dynamic[h] THEN NUM_PACKETS ELSE 0) - f + c
        BY <1>1, <3>5, <3>7 DEF PairOk, BudgetOk
      <3>9. NUM_PACKETS \in Nat BY NumPacketsAssumption
      <3>10. Left(rs) = NUM_PACKETS - f + c
        <4>1. CASE Fills(h) BY <1>5, <3>6, <3>7, <3>8, <3>9, <4>1
        <4>2. CASE ~Fills(h) BY <1>5, <3>7, <3>8, <4>2
        <4> QED BY <4>1, <4>2
      <3>11. f + 1 <= scenario.packets[h]
        <4>1. PICK q : q = InQueue(queue, {h}) OBVIOUS
        <4>2. q \in Nat BY <1>1, <4>1, InQueueType DEF Typed
        <4>3. f + toSend[h] + q + 1 = scenario.packets[h] BY <1>1, <1>4, <3>5, <4>1 DEF SentOk
        <4> QED BY <3>6, <4>2, <4>3
      <3>12. scenario.packets[h] \in Nat BY <1>1, ScenarioIs DEF Typed
      <3> QED BY <3>4, <3>5, <3>6, <3>9, <3>10, <3>11, <3>12
    <2>7. RouteAvailable' BY <2>6 DEF RouteAvailable, EndKeeps
    <2> QED BY <2>2, <2>4, <2>5, <2>7 DEF IInv
  <1>8. CASE Usable(rs) # {}
    <2>1. PICK r \in Usable(rs) :
            /\ rows' = [rows EXCEPT ![h] = [rs EXCEPT ![r].left = @ - 1, ![r].sent = @ + 1]]
            /\ net' = net (+) One(Data(Through(rs[r].up[1]), rs[r].up[2])) (+) Notice({rs[r].up[1]})
            /\ told' = (told \/ rs[r].up[1] = broken)
      BY ZenonT(40), <1>3, <1>8 DEF RouteStep, Chosen
    <2>2. /\ dynamic' = [dynamic EXCEPT ![h] = @ \/ Fills(h)]
          /\ pqueue' = pqueue \o (IF Fills(h) THEN send_future_packet_count(rs) ELSE <<>>)
          /\ forwarded' = [forwarded EXCEPT ![h] = @ + 1]
          /\ NextServed
          /\ UNCHANGED <<loads, err>>
      BY <1>3, <1>8 DEF RouteStep, Chosen
    <2>3. r \in 1 .. Len(rs) /\ rs[r].left > 0 BY <1>6 DEF Usable
    <2>4. PICK qs : Along(rs, r, qs) BY DEF Along
    <2>5. /\ qs \in Seq(Row) /\ Len(qs) = Len(rs) /\ Left(qs) = Left(rs) - 1
          /\ \A i \in 1 .. Len(rs) : qs[i].up = rs[i].up /\ (i # r => qs[i] = rs[i])
          /\ qs[r].left = rs[r].left - 1
      BY <1>5, <2>3, <2>4, SendAlong
    <2>6. Takes(h, rs, r) BY <2>1, <2>2 DEF Takes
    <2>7. Packets' /\ Still BY <1>1, <1>2, <1>5, <2>3, <2>6, TakesPackets DEF Typed
    <2>8. Forwards(h) BY <1>4, <2>2 DEF EndKeeps, Forwards
    <2>9. /\ serving' \in Pair \cup {Nowhere} /\ queue' \in Seq(Pair)
          /\ forwarded' \in [Pair -> Nat] /\ forwarded'[h] = forwarded[h] + 1
          /\ \A p \in Pair : p # h => forwarded'[p] = forwarded[p]
          /\ \A p \in Pair : SentOk(p) => SentOk(p)'
      BY <1>1, <2>8, ForwardsOk
    <2>10. rows' = [rows EXCEPT ![h] = qs] BY <2>1, <2>4 DEF Along
    <2>11. rows' \in [Pair -> Seq(Row)] /\ rows'[h] = qs /\ \A p \in Pair : p # h => rows'[p] = rows[p]
      BY <1>1, <2>5, <2>10 DEF Typed
    <2>12. dynamic' \in [Pair -> BOOLEAN] /\ dynamic'[h] = TRUE
           /\ \A p \in Pair : p # h => dynamic'[p] = dynamic[p]
      <3>1. dynamic \in [Pair -> BOOLEAN] BY <1>1 DEF Typed
      <3>2. dynamic' = [dynamic EXCEPT ![h] = TRUE]
        <4>1. (dynamic[h] \/ Fills(h)) = TRUE BY <1>5, <3>1
        <4> QED BY <2>2, <4>1
      <3> QED BY <3>1, <3>2
    <2>13. told' \in BOOLEAN BY <1>1, <2>1 DEF Typed
    <2>14. Typed'
      BY <1>1, <1>2, <2>2, <2>9, <2>11, <2>12, <2>13, StaysSame DEF Typed, BrokenOk, EndKeeps
    <2>15. PairOk(h)'
      <3>1. Hashes(h) \in Nat /\ Requests(h) \in Nat /\ Answers(h) \in Nat BY <1>1, CountsType
      <3>2. Hashes(h)' = Hashes(h) /\ Requests(h)' = Requests(h) /\ Answers(h)' = Answers(h)
        BY <2>7, <3>1 DEF Still, Changed
      <3>3. RoutesOk(h)'
        <4>1. Distinct(qs, Routes) BY <1>5, <2>5 DEF Distinct
        <4> QED BY <1>2, <2>11, <4>1, StaysSame DEF RoutesOk
      <3>4. LoadsOk(h)' BY <1>1, <1>2, <2>2, <3>2, StaysSame DEF PairOk, LoadsOk
      <3>5. BudgetOk(h)'
        <4>1. PICK f, c : f = forwarded[h] /\ c = Hashes(h) OBVIOUS
        <4>2. f \in Nat /\ c \in Nat BY <1>1, <3>1, <4>1 DEF Typed
        <4>3. PICK l \in Int : l = Left(rows[h]) BY <1>1, RowsAre DEF Typed
        <4>4. PICK k : k = Left(qs) OBVIOUS
        <4>5. Left(rows[h])' = k BY <2>11, <4>4 DEF Left
        <4>6. scenario.breaks = {} => l = (IF dynamic[h] THEN NUM_PACKETS ELSE 0) - f + c
          BY <1>1, <4>1, <4>3 DEF PairOk, BudgetOk
        <4>7. NUM_PACKETS \in Nat BY NumPacketsAssumption
        <4>8. k = l + (IF Fills(h) THEN NUM_PACKETS ELSE 0) - 1
          <5>1. PICK g \in Int : g = Left(rs) BY <1>6
          <5>2. g = l + (IF Fills(h) THEN NUM_PACKETS ELSE 0) BY <1>5, <4>3, <5>1
          <5>3. k = g - 1 BY <2>5, <4>4, <5>1
          <5> QED BY <4>7, <5>2, <5>3
        <4>9. scenario.breaks = {} => k = NUM_PACKETS - (f + 1) + c
          <5>1. CASE Fills(h)
            <6>1. ~dynamic[h] BY <1>5, <5>1
            <6>2. scenario.breaks = {} => l = 0 - f + c BY <4>6, <6>1
            <6>3. k = l + NUM_PACKETS - 1 BY <4>8, <5>1
            <6> QED BY <4>2, <4>3, <4>7, <6>2, <6>3
          <5>2. CASE ~Fills(h) BY <1>5, <4>2, <4>6, <4>7, <4>8, <5>2
          <5> QED BY <5>1, <5>2
        <4>10. scenario.breaks = {} => k = NUM_PACKETS - forwarded'[h] + Hashes(h)'
          BY <2>9, <3>2, <4>1, <4>9
        <4> QED BY <1>2, <2>12, <4>5, <4>10 DEF BudgetOk, Stays
      <3>6. LearnedOk(h)'
        <4> SUFFICES ASSUME h \in learned'
                     PROVE  /\ dynamic'[h] /\ broken' # Nowhere
                            /\ \A i \in 1 .. Len(rows'[h]) :
                                  rows'[h][i].up[1] = broken' => rows'[h][i].left <= 0
          BY DEF LearnedOk
        <4>1. h \in learned /\ broken' = broken BY DEF EndKeeps
        <4>2. dynamic[h] /\ broken # Nowhere BY <1>1, <4>1 DEF PairOk, LearnedOk
        <4>3. rs = rows[h] BY <1>5, <4>2
        <4>4. \A i \in 1 .. Len(rs) : rs[i].up[1] = broken => rs[i].left <= 0
          BY <1>1, <4>1, <4>3 DEF PairOk, LearnedOk
        <4>5. rs[r].up[1] # broken
          <5>1. rs[r] \in Row BY <1>5, <2>3, RowsAre
          <5>2. rs[r].left \in Int BY <5>1 DEF Row
          <5> QED BY <2>3, <4>4, <5>2
        <4>6. \A i \in 1 .. Len(qs) : qs[i].up[1] = broken => qs[i].left <= 0
          BY <2>5, <4>4, <4>5
        <4> QED BY <2>11, <2>12, <4>1, <4>2, <4>6
      <3> QED BY <3>3, <3>4, <3>5, <3>6 DEF PairOk
    <2>16. ASSUME NEW p \in Pair PROVE PairOk(p)' /\ SentOk(p)'
      <3>1. PairOk(p) /\ SentOk(p) BY DEF IInv
      <3>2. SentOk(p)' BY <2>9, <3>1
      <3>3. CASE p # h
        <4>1. Changed(p, 0, 0, 0) BY <2>7 DEF Still
        <4>2. Spares(p) /\ learned' = learned
          BY <2>2, <2>9, <2>11, <2>12, <3>3, <4>1 DEF Spares, EndKeeps
        <4>3. PairOk(p)' BY <1>1, <1>2, <3>1, <4>2, PairSpared
        <4> QED BY <3>2, <4>3
      <3> QED BY <2>15, <3>2, <3>3
    <2>17. RouteAvailable' BY <1>1, <2>2, AvailableStays DEF EndKeeps
    <2> QED BY <2>7, <2>14, <2>16, <2>17 DEF IInv
  <1> QED BY <1>7, <1>8

LEMMA EndServiceOk ==
  ASSUME IInv, EndService
  PROVE  IInv'
PROOF
  <1>1. EndKeeps BY DEF EndService, EndKeeps
  <1>2. PICK h \in Pair : HashStep(h) \/ RouteStep(h) BY DEF EndService
  <1> QED BY <1>1, <1>2, HashOk, RouteOk

(* No row of qs has packets left that rs has not. *)
Covered(rs, qs) ==
    \A i \in 1 .. Len(qs) :
        \/ qs[i].left <= 0
        \/ i \in 1 .. Len(rs) /\ qs[i].up = rs[i].up /\ qs[i].left <= rs[i].left

LEMMA AddsCovered ==
  ASSUME NEW R, NEW rs \in Seq(Row), NEW qs \in Seq(Row), NEW up \in R, NEW left \in Int, left <= 0,
         Adds(rs, qs, up, left) \/ SameRoutes(rs, qs), Distinct(rs, R),
         \A r \in 1 .. Len(rs) : qs[r].left <= rs[r].left
  PROVE  Distinct(qs, R) /\ Covered(rs, qs)
PROOF
  <1>1. PICK n \in Nat : n = Len(rs) OBVIOUS
  <1>2. CASE Adds(rs, qs, up, left)
    <2>1. Distinct(qs, R) BY <1>2, AddDistinct
    <2>2. \A i \in 1 .. n + 1 : i \in 1 .. n \/ i = n + 1 OBVIOUS
    <2>3. Len(qs) = n + 1 /\ qs[n + 1].left = left /\ \A i \in 1 .. n : qs[i] = rs[i]
      BY <1>1, <1>2 DEF Adds
    <2>4. Covered(rs, qs) BY <1>1, <2>2, <2>3 DEF Covered
    <2> QED BY <2>1, <2>4
  <1>3. CASE SameRoutes(rs, qs)
    <2>1. Distinct(qs, R) BY <1>3, SameDistinct
    <2>2. Covered(rs, qs) BY <1>3 DEF SameRoutes, Covered
    <2> QED BY <2>1, <2>2
  <1> QED BY <1>2, <1>3

(* What stays when a control packet is served that changes rows. *)
RowsKeep ==
    UNCHANGED <<scenario, toSend, serving, queue, dynamic, forwarded, future, broken, err, net,
                probeTimer, told>>

LEMMA RowChanged ==
  ASSUME IInv, RowsKeep, Packets', NEW p \in Pair, NEW qs \in Seq(Row),
         rows' = [rows EXCEPT ![p] = qs], PairOk(p)', learned' = learned,
         loads' \in [Pair -> Int],
         \A q \in Pair : q # p => loads'[q] = loads[q] /\ Changed(q, 0, 0, 0)
  PROVE  IInv'
PROOF
  <1>1. Typed /\ Packets /\ RouteAvailable BY DEF IInv
  <1>2. Stays BY DEF RowsKeep, Stays
  <1>3. rows' \in [Pair -> Seq(Row)] /\ \A q \in Pair : q # p => rows'[q] = rows[q]
    BY <1>1 DEF Typed
  <1>4. Typed' BY <1>1, <1>2, <1>3, StaysSame DEF Typed, BrokenOk, RowsKeep
  <1>5. ASSUME NEW q \in Pair PROVE PairOk(q)' /\ SentOk(q)'
    <2>1. PairOk(q) /\ SentOk(q) BY DEF IInv
    <2>2. SentOk(q)' BY <2>1, SentSpared DEF RowsKeep
    <2>3. CASE q # p
      <3>1. Spares(q) BY <1>3, <2>3 DEF Spares, RowsKeep
      <3>2. PairOk(q)' BY <1>1, <1>2, <2>1, <3>1, PairSpared
      <3> QED BY <2>2, <3>2
    <2> QED BY <2>2, <2>3
  <1>6. RouteAvailable' BY <1>1, AvailableStays DEF RowsKeep
  <1> QED BY <1>4, <1>5, <1>6 DEF IInv

LEMMA LeftNext ==
  ASSUME NEW p, NEW qs, rows'[p] = qs
  PROVE  Left(rows[p])' = Left(qs)
PROOF
  <1>1. PICK k : k = Left(qs) OBVIOUS
  <1>2. Left(rows[p])' = k BY <1>1 DEF Left
  <1> QED BY <1>1, <1>2

LEMMA RowPair ==
  ASSUME IInv, RowsKeep, NEW p \in Pair, NEW qs \in Seq(Row), rows' = [rows EXCEPT ![p] = qs],
         learned' = learned, Distinct(qs, Routes), Covered(rows[p], qs),
         Hashes(p)' \in Nat, Left(qs) = Left(rows[p]) + Hashes(p)' - Hashes(p), LoadsOk(p)'
  PROVE  PairOk(p)'
PROOF
  <1>1. Typed /\ Packets /\ PairOk(p) BY DEF IInv
  <1>2. Stays BY DEF RowsKeep, Stays
  <1>3. rows'[p] = qs BY <1>1 DEF Typed
  <1>4. RoutesOk(p)' BY <1>2, <1>3, StaysSame DEF RoutesOk
  <1>5. BudgetOk(p)'
    <2>1. PICK l \in Int : l = Left(rows[p]) BY <1>1, RowsAre DEF Typed
    <2>2. PICK c \in Nat : c = Hashes(p) BY <1>1, CountsType
    <2>3. PICK d \in Nat : d = Hashes(p)' OBVIOUS
    <2>4. PICK f \in Nat : f = forwarded[p] BY <1>1 DEF Typed
    <2>5. PICK n \in Int : n = IF dynamic[p] THEN NUM_PACKETS ELSE 0 BY NumPacketsAssumption
    <2>6. scenario.breaks = {} => l = n - f + c
      BY <1>1, <2>1, <2>2, <2>4, <2>5 DEF PairOk, BudgetOk
    <2>7. Left(qs) = l + d - c BY <2>1, <2>2, <2>3
    <2>8. scenario.breaks = {} => Left(qs) = n - f + d BY <2>6, <2>7
    <2>9. Left(rows[p])' = Left(qs) BY <1>3, LeftNext
    <2> QED BY <2>3, <2>4, <2>5, <2>8, <2>9 DEF BudgetOk, RowsKeep
  <1>6. LearnedOk(p)'
    <2> SUFFICES ASSUME p \in learned
                 PROVE  /\ dynamic[p] /\ broken # Nowhere
                        /\ \A i \in 1 .. Len(qs) : qs[i].up[1] = broken => qs[i].left <= 0
      BY <1>3 DEF LearnedOk, RowsKeep
    <2>1. PICK rs \in Seq(Row) : rs = rows[p] BY <1>1 DEF Typed
    <2>2. dynamic[p] /\ broken # Nowhere BY <1>1 DEF PairOk, LearnedOk
    <2>3. \A i \in 1 .. Len(rs) : rs[i].up[1] = broken => rs[i].left <= 0
      BY <1>1, <2>1 DEF PairOk, LearnedOk
    <2>4. \A i \in 1 .. Len(qs) : qs[i].left \in Int
      <3>1. \A i \in 1 .. Len(qs) : qs[i] \in Row BY RowsAre
      <3> QED BY <3>1 DEF Row
    <2>5. \A i \in 1 .. Len(rs) : rs[i].left \in Int
      <3>1. \A i \in 1 .. Len(rs) : rs[i] \in Row BY RowsAre
      <3> QED BY <3>1 DEF Row
    <2>6. ASSUME NEW i \in 1 .. Len(qs), qs[i].up[1] = broken PROVE qs[i].left <= 0
      <3>1. CASE i \in 1 .. Len(rs) /\ qs[i].up = rs[i].up /\ qs[i].left <= rs[i].left
        <4>1. rs[i].left <= 0 BY <2>3, <2>6, <3>1
        <4> QED BY <2>4, <2>5, <3>1, <4>1
      <3> QED BY <2>1, <3>1 DEF Covered
    <2> QED BY <2>2, <2>6
  <1> QED BY <1>4, <1>5, <1>6 DEF PairOk

LEMMA LoadsStay ==
  ASSUME IInv, Stays, NEW p \in Pair, loads'[p] = loads[p],
         Requests(p)' = Requests(p), Answers(p)' = Answers(p)
  PROVE  LoadsOk(p)'
PROOF
  BY StaysSame DEF IInv, PairOk, LoadsOk

(* A probe or the answer to a hash routed packet has come back. *)
LEMMA RecordRouteOk ==
  ASSUME IInv, RowsKeep, NEW m, Serves(m), RecordRoute(m)
  PROVE  IInv'
PROOF
  <1>1. Typed /\ Packets /\ Stays BY DEF IInv, RowsKeep, Stays
  <1>2. Good(m) BY <1>1, ServedIs
  <1>3. net' = net BY DEF RowsKeep
  <1>4. m.pair \in Pair /\ m.up \in Route /\ m.up \in Routes
        /\ (m.kind = "found" => m.via \in Seq(scenario.asked))
    BY <1>2, FieldsOf DEF Good, Fields, MessageOk, RecordRoute
  <1>5. PICK p \in Pair, up \in Route : p = m.pair /\ up = m.up BY <1>4
  <1>6. PICK rs \in Seq(Row) : rs = rows[p] BY <1>1 DEF Typed
  <1>7. Distinct(rs, Routes) /\ up \in Routes BY <1>4, <1>5, <1>6 DEF IInv, PairOk, RoutesOk
  <1>8. loads' = loads /\ learned' = learned BY DEF RecordRoute
  <1>9. loads' \in [Pair -> Int] BY <1>1, <1>8 DEF Typed
  <1>10. Hashes(p) \in Nat /\ Requests(p) \in Nat /\ Answers(p) \in Nat BY <1>1, CountsType
  <1>11. Left(rs) \in Int BY RowsAre
  <1>12. CASE m.kind = "found"
    <2>1. PICK via \in Seq(scenario.asked) : via = m.via BY <1>4, <1>12
    <2>2. PICK qs : qs = FillProbe(rs, up, via) OBVIOUS
    <2>3. /\ Adds(rs, qs, up, 0) \/ SameRoutes(rs, qs)
          /\ SameLeft(rs, qs)
          /\ qs \in Seq(Row) /\ Left(qs) = Left(rs)
      BY <1>7, <2>2, FillProbeIs
    <2>4. rows' = [rows EXCEPT ![p] = qs] BY <1>5, <1>6, <1>12, <2>1, <2>2 DEF RecordRoute
    <2>5. \A r \in 1 .. Len(rs) : qs[r].left <= rs[r].left
      <3>1. \A r \in 1 .. Len(rs) : rs[r] \in Row BY RowsAre
      <3>2. \A r \in 1 .. Len(rs) : rs[r].left \in Int BY <3>1 DEF Row
      <3> QED BY <2>3, <3>2 DEF SameLeft
    <2>6. Distinct(qs, Routes) /\ Covered(rs, qs)
      <3>1. PICK z \in Int : z = 0 OBVIOUS
      <3>2. z <= 0 /\ (Adds(rs, qs, up, z) \/ SameRoutes(rs, qs)) BY <2>3, <3>1
      <3> QED BY <1>7, <2>3, <2>5, <3>2, AddsCovered
    <2>7. Packets' /\ Still BY <1>1, <1>3, <1>12, ServeKept
    <2>8. Hashes(p)' = Hashes(p) /\ Requests(p)' = Requests(p) /\ Answers(p)' = Answers(p)
      BY <1>10, <2>7 DEF Still, Changed
    <2>9. LoadsOk(p)' BY <1>1, <1>8, <2>8, LoadsStay
    <2>10. Left(qs) = Left(rows[p]) + Hashes(p)' - Hashes(p) BY <1>6, <1>10, <1>11, <2>3, <2>8
    <2>11. PairOk(p)' BY <1>6, <1>8, <1>10, <2>3, <2>4, <2>6, <2>8, <2>9, <2>10, RowPair
    <2>12. \A q \in Pair : q # p => loads'[q] = loads[q] /\ Changed(q, 0, 0, 0)
      BY <1>8, <2>7 DEF Still
    <2> QED BY <1>8, <1>9, <2>3, <2>4, <2>7, <2>11, <2>12, RowChanged
  <1>13. CASE m.kind = "hashroute"
    <2>1. PICK qs : qs = FillHash(rs, up) OBVIOUS
    <2>2. /\ Adds(rs, qs, up, -1) \/ SameRoutes(rs, qs)
          /\ \A r \in 1 .. Len(rs) : qs[r].left <= rs[r].left
          /\ qs \in Seq(Row) /\ Left(qs) = Left(rs) - 1
      BY <1>7, <2>1, FillHashIs
    <2>3. rows' = [rows EXCEPT ![p] = qs] BY <1>5, <1>6, <1>13, <2>1 DEF RecordRoute
    <2>4. Distinct(qs, Routes) /\ Covered(rs, qs)
      <3>1. PICK z \in Int : z = -1 OBVIOUS
      <3>2. z <= 0 /\ (Adds(rs, qs, up, z) \/ SameRoutes(rs, qs)) BY <2>2, <3>1
      <3> QED BY <1>7, <2>2, <3>2, AddsCovered
    <2>5. Packets' /\ (\A q : q # p => Changed(q, 0, 0, 0)) /\ Changed(p, -1, 0, 0)
      BY <1>1, <1>3, <1>5, <1>13, ServeKept
    <2>6. Hashes(p)' = Hashes(p) - 1 /\ Requests(p)' = Requests(p) /\ Answers(p)' = Answers(p)
      BY <1>10, <2>5 DEF Changed
    <2>7. LoadsOk(p)' BY <1>1, <1>8, <2>6, LoadsStay
    <2>8. Hashes(p)' \in Nat BY <2>5, CountsNext
    <2>9. Left(qs) = Left(rows[p]) + Hashes(p)' - Hashes(p) BY <1>6, <1>10, <1>11, <2>2, <2>6
    <2>10. PairOk(p)' BY <1>6, <1>8, <2>2, <2>3, <2>4, <2>7, <2>8, <2>9, RowPair
    <2>11. \A q \in Pair : q # p => loads'[q] = loads[q] /\ Changed(q, 0, 0, 0) BY <1>8, <2>5
    <2> QED BY <1>8, <1>9, <2>2, <2>3, <2>5, <2>10, <2>11, RowChanged
  <1> QED BY <1>12, <1>13 DEF RecordRoute

LEMMA ReceiveLoadOk ==
  ASSUME IInv, RowsKeep, NEW m, Serves(m), ReceiveLoad(m)
  PROVE  IInv'
PROOF
  <1>1. Typed /\ Packets /\ Stays BY DEF IInv, RowsKeep, Stays
  <1>2. Good(m) BY <1>1, ServedIs
  <1>3. net' = net /\ m.kind = "load" BY DEF RowsKeep, ReceiveLoad
  <1>4. m.pair \in Pair /\ m.load \in Int BY <1>2, <1>3, FieldsOf DEF Good, Fields
  <1>5. PICK p \in Pair, l \in Int : p = m.pair /\ l = m.load BY <1>4
  <1>6. PICK n : n = m.switch OBVIOUS
  <1>7. PICK rs \in Seq(Row) : rs = rows[p] BY <1>1 DEF Typed
  <1>8. Distinct(rs, Routes) /\ LoadsOk(p) BY <1>7 DEF IInv, PairOk, RoutesOk
  <1>9. learned' = learned /\ loads' = [loads EXCEPT ![p] = @ + 1] BY <1>5 DEF ReceiveLoad
  <1>10. PICK qs : qs = RecordLoad(rs, n, l) OBVIOUS
  <1>11. SameRoutes(rs, qs) /\ SameLeft(rs, qs) /\ Left(qs) = Left(rs) BY <1>10, RecordLoadIs
  <1>12. qs \in Seq(Row) /\ Left(rs) \in Int BY <1>11, RowsAre DEF SameRoutes
  <1>13. rows' = [rows EXCEPT ![p] = qs] BY <1>5, <1>7, <1>10, <1>6 DEF ReceiveLoad
  <1>14. Distinct(qs, Routes) /\ Covered(rs, qs)
    <2>1. Distinct(qs, Routes) BY <1>8, <1>11, SameDistinct
    <2>2. \A r \in 1 .. Len(rs) : rs[r] \in Row BY RowsAre
    <2>3. \A r \in 1 .. Len(rs) : rs[r].left \in Int BY <2>2 DEF Row
    <2>4. Covered(rs, qs) BY <1>11, <2>3 DEF Covered, SameRoutes, SameLeft
    <2> QED BY <2>1, <2>4
  <1>15. Hashes(p) \in Nat /\ Requests(p) \in Nat /\ Answers(p) \in Nat BY <1>1, CountsType
  <1>16. Packets' /\ (\A q : q # p => Changed(q, 0, 0, 0)) /\ Changed(p, 0, 0, -1)
    BY <1>1, <1>3, <1>5, ServeKept
  <1>17. Hashes(p)' = Hashes(p) /\ Requests(p)' = Requests(p) /\ Answers(p)' = Answers(p) - 1
    BY <1>15, <1>16 DEF Changed
  <1>18. Answers(p)' \in Nat BY <1>16, CountsNext
  <1>19. loads' \in [Pair -> Int] /\ loads'[p] = loads[p] + 1
         /\ \A q \in Pair : q # p => loads'[q] = loads[q]
    <2>1. loads \in [Pair -> Int] BY <1>1 DEF Typed
    <2>2. PICK k \in Int : k = loads[p] + 1 BY <2>1
    <2>3. loads' = [loads EXCEPT ![p] = k] BY <1>9, <2>2
    <2> QED BY <2>1, <2>2, <2>3
  <1>20. LoadsOk(p)'
    <2>1. NumLoads' = NumLoads /\ NumLoads \in Nat
      <3>1. IsFiniteSet(scenario.asked) BY <1>1, ScenarioIs DEF Typed
      <3> QED BY <1>1, <3>1, StaysSame, FS_CardinalityType DEF NumLoads
    <2>2. loads[p] \in Int BY <1>1 DEF Typed
    <2> QED BY SMTT(30), <1>8, <1>15, <1>17, <1>18, <1>19, <2>1, <2>2 DEF LoadsOk
  <1>21. Left(qs) = Left(rows[p]) + Hashes(p)' - Hashes(p) BY <1>7, <1>11, <1>12, <1>15, <1>17
  <1>22. PairOk(p)' BY <1>7, <1>9, <1>12, <1>13, <1>14, <1>15, <1>17, <1>20, <1>21, RowPair
  <1> QED BY <1>9, <1>12, <1>13, <1>16, <1>19, <1>22, RowChanged

(* The link to the aggregate switch a is broken: no packets are left for a. *)
LEMMA LinkFailureOk ==
  ASSUME IInv, RowsKeep, NEW m, Serves(m), route_link_failure_packet(m)
  PROVE  IInv'
PROOF
  <1>1. Typed /\ Packets /\ Stays BY DEF IInv, RowsKeep, Stays
  <1>2. Good(m) BY <1>1, ServedIs
  <1>3. net' = net /\ m.kind = "linkfailure" /\ loads' = loads /\ learned' = {p \in Pair : dynamic[p]}
    BY DEF RowsKeep, route_link_failure_packet
  <1>4. m.aggregate = broken /\ broken # Nowhere BY <1>2, <1>3 DEF Good, MessageOk
  <1>5. scenario.breaks # {} BY <1>1, <1>4 DEF Typed, BrokenOk
  <1>6. Packets' /\ Still BY <1>1, <1>3, ServeKept
  <1>7. ASSUME NEW p \in Pair
        PROVE  rows'[p] \in Seq(Row) /\ PairOk(p)' /\ SentOk(p)'
    <2>1. PairOk(p) /\ SentOk(p) BY DEF IInv
    <2>2. PICK rs \in Seq(Row) : rs = rows[p] BY <1>1 DEF Typed
    <2>3. PICK qs : qs = CloseRoutes(rs, broken) OBVIOUS
    <2>4. SameRoutes(rs, qs) /\ Closed(qs, broken) BY <2>3, CloseIs
    <2>5. qs \in Seq(Row) BY <2>4 DEF SameRoutes
    <2>6. rows'[p] = qs BY <1>4, <2>2, <2>3 DEF route_link_failure_packet
    <2>7. Hashes(p) \in Nat /\ Requests(p) \in Nat /\ Answers(p) \in Nat BY <1>1, CountsType
    <2>8. Changed(p, 0, 0, 0) BY <1>6 DEF Still
    <2>9. Hashes(p)' = Hashes(p) /\ Requests(p)' = Requests(p) /\ Answers(p)' = Answers(p)
      BY <2>7, <2>8 DEF Changed
    <2>10. RoutesOk(p)'
      <3>1. Distinct(rs, Routes) BY <2>1, <2>2 DEF PairOk, RoutesOk
      <3>2. Distinct(qs, Routes) BY <2>4, <3>1, SameDistinct
      <3> QED BY <1>1, <2>6, <3>2, StaysSame DEF RoutesOk
    <2>11. loads'[p] = loads[p] BY <1>3
    <2>12. LoadsOk(p)' BY <1>1, <2>9, <2>11, LoadsStay
    <2>13. BudgetOk(p)' BY <1>1, <1>5 DEF BudgetOk, Stays
    <2>14. LearnedOk(p)'
      <3> SUFFICES ASSUME p \in learned'
                   PROVE  /\ dynamic[p] /\ broken # Nowhere
                          /\ \A i \in 1 .. Len(qs) : qs[i].up[1] = broken => qs[i].left <= 0
        BY <2>6 DEF LearnedOk, RowsKeep
      <3>1. dynamic[p] BY <1>3
      <3>2. \A i \in 1 .. Len(qs) : qs[i].up[1] = broken => qs[i].left = -1 BY <2>4 DEF Closed
      <3> QED BY <1>4, <3>1, <3>2
    <2>15. SentOk(p)' BY <2>1, SentSpared DEF RowsKeep
    <2> QED BY <2>5, <2>6, <2>10, <2>12, <2>13, <2>14, <2>15 DEF PairOk
  <1>8. Typed'
    <2>1. rows' = [p \in Pair |-> CloseRoutes(rows[p], m.aggregate)]
      BY DEF route_link_failure_packet
    <2>2. rows' \in [Pair -> Seq(Row)] BY <1>7, <2>1
    <2>3. learned' \subseteq Pair BY <1>3
    <2>4. loads' \in [Pair -> Int] BY <1>1, <1>3 DEF Typed
    <2> QED BY <1>1, <2>2, <2>3, <2>4, StaysSame DEF Typed, BrokenOk, RowsKeep
  <1>9. RouteAvailable' BY AvailableStays DEF IInv, RowsKeep
  <1> QED BY <1>6, <1>7, <1>8, <1>9 DEF IInv

LEMMA ServeOk ==
  ASSUME IInv, doProbeEndService
  PROVE  IInv'
PROOF
  <1> USE DEF doProbeEndService
  <1>1. Typed /\ Packets /\ RouteAvailable BY DEF IInv
  <1>2. Stays BY DEF Stays
  <1>3. ASSUME Packets', Still, UNCHANGED <<rows, loads, learned>>, probeTimer' \in BOOLEAN,
               told' \in BOOLEAN, err' \in {err, "not_an_ICMPMessage"}
        PROVE  IInv'
    <2>1. Kept BY <1>3 DEF Kept
    <2>2. \A p \in Pair : PairOk(p)' /\ SentOk(p)' BY <2>1, KeptOk
    <2>3. Typed' BY <1>1, <1>2, <1>3, StaysSame DEF Typed, BrokenOk
    <2>4. RouteAvailable' BY <1>1, <1>3, AvailableStays
    <2> QED BY <1>3, <2>2, <2>3, <2>4 DEF IInv
  <1>4. CASE pqueue = <<>>
    <2>1. probeTimer' = FALSE /\ UNCHANGED <<pqueue, net, told, rows, loads, learned, err>> BY <1>4
    <2>2. Packets' /\ Still BY <1>1, <1>2, <2>1, Unmoved
    <2>3. told' \in BOOLEAN BY <1>1, <2>1 DEF Typed
    <2> QED BY <1>3, <2>1, <2>2, <2>3
  <1>5. CASE pqueue # <<>>
    <2>1. PICK m : m = Head(pqueue) OBVIOUS
    <2>2. Serves(m) BY <1>5, <2>1 DEF Serves
    <2>3. probeTimer' = probeTimer
          /\ \/ SendProbe(m) \/ RecordRoute(m) \/ ReceiveLoad(m) \/ SendCount(m)
             \/ route_link_failure_packet(m)
      BY <1>5, <2>1
    <2>4. probeTimer' \in BOOLEAN BY <1>1, <2>3 DEF Typed
    <2>5. CASE SendProbe(m)
      <3>1. Packets' /\ Still BY <1>1, <1>2, <2>2, <2>5, SendProbePackets DEF Typed
      <3>2. told' \in BOOLEAN BY <1>1, <2>5 DEF SendProbe, Typed
      <3>3. UNCHANGED <<rows, loads, learned, err>> BY <2>5 DEF SendProbe
      <3> QED BY <1>3, <2>4, <3>1, <3>2, <3>3
    <2>6. CASE SendCount(m)
      <3>1. Packets' /\ Still /\ err' \in {err, "not_an_ICMPMessage"}
        BY <1>1, <1>2, <2>2, <2>6, SendCountPackets DEF Typed
      <3>2. told' \in BOOLEAN BY <1>1, <2>6 DEF SendCount, Typed
      <3>3. UNCHANGED <<rows, loads, learned>> BY <2>6 DEF SendCount
      <3> QED BY <1>3, <2>4, <3>1, <3>2, <3>3
    <2>7. CASE RecordRoute(m)
      <3>1. RowsKeep BY <2>3, <2>7 DEF RowsKeep, RecordRoute
      <3> QED BY <2>2, <2>7, <3>1, RecordRouteOk
    <2>8. CASE ReceiveLoad(m)
      <3>1. RowsKeep BY <2>3, <2>8 DEF RowsKeep, ReceiveLoad
      <3> QED BY <2>2, <2>8, <3>1, ReceiveLoadOk
    <2>9. CASE route_link_failure_packet(m)
      <3>1. RowsKeep BY <2>3, <2>9 DEF RowsKeep, route_link_failure_packet
      <3> QED BY <2>2, <2>9, <3>1, LinkFailureOk
    <2> QED BY <2>3, <2>5, <2>6, <2>7, <2>8, <2>9
  <1> QED BY <1>4, <1>5

LEMMA StutterOk ==
  ASSUME IInv, vars' = vars
  PROVE  IInv'
PROOF
  <1> USE DEF vars
  <1>1. Typed /\ Packets /\ RouteAvailable BY DEF IInv
  <1>2. Stays BY DEF Stays
  <1>3. Packets' /\ Still BY <1>1, <1>2, Unmoved
  <1>4. Kept BY <1>3 DEF Kept
  <1>5. \A p \in Pair : PairOk(p)' /\ SentOk(p)' BY <1>4, KeptOk
  <1>6. Typed' BY <1>1, <1>2, StaysSame DEF Typed, BrokenOk
  <1>7. RouteAvailable' BY <1>1, AvailableStays
  <1> QED BY <1>3, <1>5, <1>6, <1>7 DEF IInv

LEMMA StepOk == IInv /\ [Next]_vars => IInv'
PROOF
  <1> SUFFICES ASSUME IInv, [Next]_vars PROVE IInv' OBVIOUS
  <1>1. CASE \E p \in Pair : HostSends(p) BY <1>1, HostSendsOk
  <1>2. CASE ControlArrives BY <1>2, ControlOk
  <1>3. CASE EndService BY <1>3, EndServiceOk
  <1>4. CASE doProbeEndService BY <1>4, ServeOk
  <1>5. CASE SwitchStep BY <1>5, SwitchOk
  <1>6. CASE LinkBreaks BY <1>6, BreakOk
  <1>7. CASE vars' = vars BY <1>7, StutterOk
  <1> QED BY <1>1, <1>2, <1>3, <1>4, <1>5, <1>6, <1>7 DEF Next

-----------------------------------------------------------------------------
(* What the invariant implies. *)

LEMMA DistinctHolds == IInv => RoutesDistinct
PROOF
  <1> SUFFICES ASSUME IInv PROVE RoutesDistinct OBVIOUS
  <1>1. Typed /\ Packets /\ scenario \in Scenarios BY DEF IInv, Typed
  <1>2. NumLoads \in Nat
    <2>1. IsFiniteSet(scenario.asked) BY <1>1, ScenarioIs
    <2> QED BY <2>1, FS_CardinalityType DEF NumLoads
  <1>3. \A p \in Pair : loads[p] \in -1 .. NumLoads
    <2> SUFFICES ASSUME NEW p \in Pair PROVE loads[p] \in -1 .. NumLoads OBVIOUS
    <2>1. LoadsOk(p) /\ loads[p] \in Int BY <1>1 DEF IInv, PairOk, Typed
    <2>2. Answers(p) \in Nat BY <1>1, CountsType
    <2>3. PICK l \in Int, n \in Nat, a \in Nat : l = loads[p] /\ n = NumLoads /\ a = Answers(p)
      BY <1>2, <2>1, <2>2
    <2>4. l >= -1 /\ (l >= 0 => l + a <= n) BY <2>1, <2>3 DEF LoadsOk
    <2>5. l \in -1 .. n BY <2>3, <2>4
    <2> QED BY <2>3, <2>5
  <1>4. loads \in [Pair -> -1 .. NumLoads] BY <1>1, <1>3 DEF Typed
  <1>5. pqueue \in Seq(Message) /\ DOMAIN net \subseteq Message
        /\ net \in [DOMAIN net -> Nat \ {0}]
    BY <1>1 DEF Packets, Loaded, Queued, Network, Good
  <1>6. broken \in scenario.asked \cup {Nowhere}
    <2>1. Range(Up(Edge)) \subseteq scenario.asked BY <1>1, AboveAre
    <2>2. scenario.breaks \subseteq Range(Up(Edge)) BY <1>1, ScenarioIs
    <2> QED BY <1>1, <2>1, <2>2 DEF Typed, BrokenOk
  <1>7. TypeOK BY <1>1, <1>4, <1>5, <1>6 DEF TypeOK, Typed
  <1>8. ASSUME NEW p \in Pair
        PROVE  /\ \A r \in DOMAIN rows[p] : RowOf(rows[p], rows[p][r].up) = {r}
               /\ Len(rows[p]) <= NumRoutes
               /\ \A r \in DOMAIN rows[p] : rows[p][r].up[1] \in Range(Up(Edge))
    <2>1. PICK rs \in Seq(Row) : rs = rows[p] BY <1>1 DEF Typed
    <2>2. Distinct(rs, Routes) BY <2>1 DEF IInv, PairOk, RoutesOk
    <2>3. Len(rs) <= NumRoutes BY <1>1, <2>2, FewRows
    <2>4. DOMAIN rs = 1 .. Len(rs) BY RowsAre
    <2>5. \A r \in 1 .. Len(rs) : RowOf(rs, rs[r].up) = {r} BY <2>2, <2>4 DEF RowOf, Distinct
    <2>6. \A up \in Routes : up[1] \in Range(Up(Edge)) BY <1>1, RoutesAre
    <2>7. \A r \in 1 .. Len(rs) : rs[r].up[1] \in Range(Up(Edge)) BY <2>2, <2>6 DEF Distinct
    <2> QED BY <2>1, <2>3, <2>4, <2>5, <2>7
  <1> QED BY <1>7, <1>8 DEF RoutesDistinct

LEMMA UncountedIs ==
  ASSUME IInv, NEW p
  PROVE  Uncounted(p) = Hashes(p)
PROOF
  <1>1. Packets /\ scenario \in Scenarios BY DEF IInv, Typed
  <1>2. PICK H : H = {m \in InNet({"hashed", "hashroute"}) : m.pair = p} OBVIOUS
  <1>3. Copies(H) = CopiesFor(net, HashOf(p))
    <2>1. BagToSet(net) = DOMAIN net BY DEF BagToSet
    <2>2. DOMAIN net \subseteq Message BY <1>1 DEF Packets, Loaded, Good
    <2>3. H = DOMAIN net \cap HashOf(p) BY <1>2, <2>1, <2>2 DEF InNet, HashOf
    <2> QED BY <2>3 DEF Copies, CopiesFor, CopiesOf
  <1>4. PICK P : P = {i \in InPqueue({"hashroute"}) : pqueue[i].pair = p} OBVIOUS
  <1>5. P = Places(pqueue, HashOf(p))
    <2>1. PICK q : q = pqueue OBVIOUS
    <2>2. q \in Seq(Message) /\ \A i \in 1 .. Len(q) : Good(q[i]) /\ q[i].at = Edge
      BY <1>1, <2>1 DEF Packets, Queued
    <2>3. DOMAIN q = 1 .. Len(q) BY <2>2
    <2>4. ASSUME NEW i \in 1 .. Len(q) PROVE q[i] \in Message /\ q[i].kind # "hashed"
      <3>1. Good(q[i]) /\ q[i].at = Edge BY <2>2
      <3>2. q[i].kind = "hashed" => q[i].at \in Range(Up(Edge)) BY <3>1 DEF Good, MessageOk
      <3>3. Edge \notin Range(Up(Edge)) BY <1>1, ScenarioIs
      <3> QED BY <3>1, <3>2, <3>3 DEF Good
    <2> QED BY <1>4, <2>1, <2>3, <2>4 DEF InPqueue, Places, HashOf
  <1> QED BY <1>2, <1>3, <1>4, <1>5 DEF Uncounted, Hashes, Flying, InBag, InQueue

LEMMA BudgetHolds == IInv => BudgetConserved
PROOF
  <1> SUFFICES ASSUME IInv, scenario.breaks = {}, NEW p \in Pair
               PROVE  Left(rows[p]) = (IF dynamic[p] THEN NUM_PACKETS ELSE 0)
                                         - forwarded[p] + Uncounted(p)
    BY DEF BudgetConserved
  <1>1. BudgetOk(p) BY DEF IInv, PairOk
  <1>2. Uncounted(p) = Hashes(p) BY UncountedIs
  <1> QED BY <1>1, <1>2 DEF BudgetOk

(* Nothing is sent along a route of rs. *)
NoneSent(rs, qs) == \A r \in 1 .. Len(rs) : qs[r].sent = rs[r].sent

LEMMA OnlySent ==
  ASSUME IInv, [Next]_vars, NEW p \in learned, NEW r \in DOMAIN rows[p],
         rows'[p][r].sent # rows[p][r].sent
  PROVE  rows[p][r].up[1] # broken
PROOF
  <1>1. Typed /\ Packets BY DEF IInv
  <1>2. p \in Pair BY <1>1 DEF Typed
  <1>3. PICK rs \in Seq(Row) : rs = rows[p] BY <1>1, <1>2 DEF Typed
  <1>4. DOMAIN rs = 1 .. Len(rs) /\ \A i \in 1 .. Len(rs) : rs[i] \in Row BY RowsAre
  <1>5. rows' # rows /\ ~NoneSent(rs, rows'[p]) BY <1>3, <1>4 DEF NoneSent
  <1>6. EndService \/ doProbeEndService
    BY <1>5 DEF Next, vars, HostSends, ControlArrives, SwitchStep, LinkBreaks
  <1>7. rows[p] # rows'[p] BY <1>3
  <1>8. Distinct(rs, Routes) /\ LearnedOk(p) BY <1>2, <1>3 DEF IInv, PairOk, RoutesOk
  <1>9. CASE EndService
    <2>1. PICK h \in Pair : HashStep(h) \/ RouteStep(h) BY <1>9 DEF EndService
    <2>2. RouteStep(h) BY <1>5, <2>1 DEF HashStep
    <2>3. PICK qs : qs = Chosen(h) OBVIOUS
    <2>4. PICK k \in Usable(qs) :
             rows' = [rows EXCEPT ![h] = [qs EXCEPT ![k].left = @ - 1, ![k].sent = @ + 1]]
      <3>1. CASE Usable(qs) = {} BY <1>5, <2>2, <2>3, <3>1 DEF RouteStep, Chosen
      <3>2. CASE Usable(qs) # {}
        <4>1. PICK k \in Usable(qs) :
              /\ rows' = [rows EXCEPT ![h] = [qs EXCEPT ![k].left = @ - 1, ![k].sent = @ + 1]]
              /\ net' = net (+) One(Data(Through(qs[k].up[1]), qs[k].up[2])) (+) Notice({qs[k].up[1]})
              /\ told' = (told \/ qs[k].up[1] = broken)
          BY ZenonT(40), <2>2, <2>3, <3>2 DEF RouteStep, Chosen
        <4> QED BY <4>1
      <3> QED BY <3>1, <3>2
    <2>5. UseRoutes(h) BY <2>2 DEF RouteStep
    <2>6. rows \in [Pair -> Seq(Row)] BY <1>1 DEF Typed
    <2>7. h = p BY <1>2, <1>7, <2>4, <2>6
    <2>8. dynamic[p] /\ \A i \in 1 .. Len(rs) : rs[i].up[1] = broken => rs[i].left <= 0
      BY <1>3, <1>8 DEF LearnedOk
    <2>9. qs = rs BY <1>3, <2>3, <2>5, <2>7, <2>8, ChosenIs
    <2>10. k \in 1 .. Len(rs) /\ rs[k].left > 0 BY <1>4, <2>9 DEF Usable
    <2>11. PICK ts : Along(rs, k, ts) BY DEF Along
    <2>12. rows'[p] = ts BY <1>2, <2>4, <2>6, <2>7, <2>9, <2>11 DEF Along
    <2>13. \A i \in 1 .. Len(rs) : i # k => ts[i] = rs[i] BY <2>10, <2>11, SendAlong
    <2>14. r = k BY <1>3, <1>4, <2>12, <2>13
    <2>15. rs[k].left \in Int BY <1>4, <2>10 DEF Row
    <2> QED BY <1>3, <2>8, <2>10, <2>14, <2>15
  <1>10. CASE doProbeEndService
    <2>1. PICK m : m = Head(pqueue) OBVIOUS
    <2>2. pqueue # <<>> /\ pqueue' = Tail(pqueue)
          /\ (RecordRoute(m) \/ ReceiveLoad(m) \/ route_link_failure_packet(m))
      BY <1>5, <1>10, <2>1 DEF doProbeEndService, SendProbe, SendCount
    <2>3. Serves(m) BY <2>1, <2>2 DEF Serves
    <2>4. Good(m) BY <1>1, <2>3, ServedIs
    <2>5. CASE RecordRoute(m)
      <3>1. m.pair = p
        <4>1. \E x : rows' = [rows EXCEPT ![m.pair] = x] BY <2>5 DEF RecordRoute
        <4> QED BY <1>1, <1>2, <1>7, <4>1 DEF Typed
      <3>2. m.up \in Route /\ (m.kind = "found" => m.via \in Seq(scenario.asked))
        BY <2>4, <2>5, FieldsOf DEF Good, Fields, RecordRoute
      <3>3. PICK up \in Route : up = m.up BY <3>2
      <3>4. CASE m.kind = "found"
        <4>1. PICK via \in Seq(scenario.asked) : via = m.via BY <3>2, <3>4
        <4>2. PICK qs : qs = FillProbe(rs, up, via) OBVIOUS
        <4>3. rows'[p] = qs
          BY <1>1, <1>2, <1>3, <2>5, <3>1, <3>3, <3>4, <4>1, <4>2 DEF RecordRoute, Typed
        <4>4. NoneSent(rs, qs) BY <1>8, <4>2, FillProbeIs DEF NoneSent
        <4> QED BY <1>5, <4>3, <4>4
      <3>5. CASE m.kind # "found"
        <4>1. PICK qs : qs = FillHash(rs, up) OBVIOUS
        <4>2. rows'[p] = qs BY <1>1, <1>2, <1>3, <2>5, <3>1, <3>3, <3>5, <4>1 DEF RecordRoute, Typed
        <4>3. NoneSent(rs, qs) BY <1>8, <4>1, FillHashIs DEF NoneSent
        <4> QED BY <1>5, <4>2, <4>3
      <3> QED BY <3>4, <3>5
    <2>6. CASE ReceiveLoad(m)
      <3>1. PICK l \in Int : l = m.load BY <2>4, <2>6, FieldsOf DEF Good, Fields, ReceiveLoad
      <3>2. PICK n : n = m.switch OBVIOUS
      <3>3. PICK qs : qs = RecordLoad(rs, n, l) OBVIOUS
      <3>4. SameRoutes(rs, qs) BY <3>3, RecordLoadIs
      <3>5. m.pair = p
        <4>1. \E x : rows' = [rows EXCEPT ![m.pair] = x] BY <2>6 DEF ReceiveLoad
        <4> QED BY <1>1, <1>2, <1>7, <4>1 DEF Typed
      <3>6. rows'[p] = qs BY <1>1, <1>2, <1>3, <2>6, <3>1, <3>2, <3>3, <3>5 DEF ReceiveLoad, Typed
      <3>7. NoneSent(rs, qs) BY <3>4 DEF NoneSent, SameRoutes
      <3> QED BY <1>5, <3>6, <3>7
    <2>7. CASE route_link_failure_packet(m)
      <3>1. PICK a : a = m.aggregate OBVIOUS
      <3>2. PICK qs : qs = CloseRoutes(rs, a) OBVIOUS
      <3>3. rows'[p] = qs BY <1>2, <1>3, <2>7, <3>1, <3>2 DEF route_link_failure_packet
      <3>4. SameRoutes(rs, qs) BY <3>2, CloseIs
      <3>5. NoneSent(rs, qs) BY <3>4 DEF NoneSent, SameRoutes
      <3> QED BY <1>5, <3>3, <3>5
    <2> QED BY <2>2, <2>5, <2>6, <2>7
  <1> QED BY <1>6, <1>9, <1>10

-----------------------------------------------------------------------------

LEMMA Invariant == Spec => []IInv
PROOF
  <1> QED BY InitOk, StepOk, PTL DEF Spec

(* fill_routes_in_delay_load_matrix keeps the routes of a pair distinct,   *)
(* whatever order the probes and the answers to hash routed packets come   *)
(* in: there are never more than routePacket waits for. *)
THEOREM RowsAreRoutes == Spec => []RoutesDistinct
PROOF
  <1> QED BY Invariant, DistinctHolds, PTL

(* fill_delay_load_matrix and routePacket neither lose nor invent a packet *)
(* in column 6, however a flow is divided, rounded and corrected. *)
THEOREM NoPacketLost == Spec => []BudgetConserved
PROOF
  <1> QED BY Invariant, BudgetHolds, PTL

(* routePacket finds a route with packets left for each packet of a pair   *)
(* that sends no more than NUM_PACKETS: path_to_be_taken is assigned. *)
THEOREM PathIsTaken == Spec => []RouteAvailable
PROOF
  <1>1. IInv => RouteAvailable BY DEF IInv
  <1> QED BY <1>1, Invariant, PTL

(* After route_link_failure_packet no flow distributed by then is sent     *)
(* along a route through the broken link. *)
THEOREM BrokenLinkAvoided == Spec => AvoidsBrokenLink
PROOF
  <1>1. IInv /\ [Next]_vars =>
          [\A p \in learned : \A r \in DOMAIN rows[p] :
              rows'[p][r].sent # rows[p][r].sent => rows[p][r].up[1] # broken]_vars
    BY OnlySent
  <1> QED BY <1>1, Invariant, PTL DEF Spec, AvoidsBrokenLink
=============================================================================
