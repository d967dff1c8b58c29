----------------------------- MODULE Iteration -----------------------------
(***************************************************************************)
(* Lemmas about loops: functions on 0 .. n defined from their value before *)
(* the last step.  A loop that takes every element of a set S to one of S  *)
(* ends in S; the set is what an invariant of the loop is stated as.       *)
(***************************************************************************)
EXTENDS Integers, Sequences, WellFoundedInduction, TLAPS

(* Induction up to a bound, over a set. *)
LEMMA UpTo ==
  ASSUME NEW n \in Nat, NEW D, 0 \in D,
         \A i \in 1 .. n : i - 1 \in D => i \in D
  PROVE  \A i \in 0 .. n : i \in D
PROOF
  <1> DEFINE R == {ss \in Nat \X Nat : ss[1] < ss[2]}
             Out == {i \in 0 .. n : i \notin D}
  <1> SUFFICES ASSUME Out # {} PROVE FALSE
    OBVIOUS
  <1>1. IsWellFoundedOn(R, Nat)
    BY NatLessThanWellFounded, Zenon DEF OpToRel
  <1>2. PICK m \in Out : \A i \in Out : ~(<<i, m>> \in R)
    <2>1. Out \subseteq Nat /\ Out # {} OBVIOUS
    <2> HIDE DEF Out, R
    <2> QED BY <1>1, <2>1, WFMin
  <1>3. m \in 1 .. n /\ m - 1 \in 0 .. n
    <2>1. m \in 0 .. n /\ m \notin D OBVIOUS
    <2> QED BY <2>1
  <1>4. m - 1 \notin Out
    <2>1. <<m - 1, m>> \in R BY <1>3
    <2> HIDE DEF Out, R
    <2> QED BY <1>2, <2>1
  <1> QED BY <1>3, <1>4

(* A loop has values: step[i] is what its i-th turn does. *)
LEMMA LoopExists ==
  ASSUME NEW S, NEW start \in S, NEW n \in Nat, NEW step \in [1 .. n -> [S -> S]]
  PROVE  \E f \in [0 .. n -> S] : f[0] = start /\ \A i \in 1 .. n : f[i] = step[i][f[i - 1]]
PROOF
  <1> DEFINE Values(m, g) == g \in [0 .. m -> S] /\ g[0] = start
                             /\ \A i \in 1 .. m : g[i] = step[i][g[i - 1]]
             D == {m \in 0 .. n : \E g : Values(m, g)}
  <1>1. 0 \in D
    <2>1. PICK g : g = [i \in 0 .. 0 |-> start] OBVIOUS
    <2>2. Values(0, g) BY <2>1
    <2> HIDE DEF Values
    <2> QED BY <2>2
  <1>2. ASSUME NEW m \in 1 .. n, m - 1 \in D
        PROVE  m \in D
    <2>1. PICK g : Values(m - 1, g) BY <1>2
    <2> DEFINE h == [i \in 0 .. m |-> IF i = m THEN step[m][g[m - 1]] ELSE g[i]]
    <2>2. step[m] \in [S -> S] /\ g[m - 1] \in S BY <2>1
    <2>3. h \in [0 .. m -> S]
      <3> SUFFICES ASSUME NEW i \in 0 .. m PROVE h[i] \in S OBVIOUS
      <3>1. CASE i = m BY <2>2, <3>1
      <3>2. CASE i # m BY <2>1, <3>2
      <3> QED BY <3>1, <3>2
    <2>4. h[0] = start BY <2>1
    <2>5. ASSUME NEW i \in 1 .. m PROVE h[i] = step[i][h[i - 1]]
      <3>1. h[i - 1] = g[i - 1] OBVIOUS
      <3>2. CASE i = m BY <3>1, <3>2
      <3>3. CASE i # m
        <4>1. h[i] = g[i] /\ i \in 1 .. m - 1 BY <3>3
        <4> QED BY <2>1, <3>1, <4>1
      <3> QED BY <3>2, <3>3
    <2>6. Values(m, h)
      <3> HIDE DEF h
      <3> QED BY <2>3, <2>4, <2>5
    <2> HIDE DEF Values
    <2> QED BY <2>6
  <1>3. n \in D
    <2>1. \A i \in 1 .. n : i - 1 \in D => i \in D BY <1>2
    <2> HIDE DEF D
    <2>2. \A i \in 0 .. n : i \in D BY <1>1, <2>1, UpTo
    <2> QED BY <2>2
  <1> QED BY <1>3
=============================================================================
