------------------------------- MODULE Loops --------------------------------
(***************************************************************************)
(* Induction and recursion over the naturals, in terms of sets and         *)
(* functions, not of operators, so that the provers can use them: what the *)
(* proofs about the program's loops rest on.                               *)
(***************************************************************************)
EXTENDS Integers, WellFoundedInduction, TLAPS

(* A set with 0 and the successor of each of its members has them all.     *)
LEMMA SetInduction ==
    ASSUME NEW S, 0 \in S, \A n \in Nat : n \in S => n + 1 \in S
    PROVE  \A n \in Nat : n \in S
<1> DEFINE R == OpToRel(<, Nat)
           T == Nat \ S
<1>1. IsWellFoundedOn(R, Nat)
  BY NatLessThanWellFounded
<1>2. \A x, y \in Nat : y < x => <<y, x>> \in R
  BY DEF OpToRel
<1> HIDE DEF R
<1> SUFFICES ASSUME T # {} PROVE FALSE
  OBVIOUS
<1>3. PICK x \in T : \A y \in T : ~(<<y, x>> \in R)
  BY <1>1, WFMin
<1>4. x \in Nat /\ x # 0 /\ x - 1 \in Nat /\ x - 1 < x
  BY <1>3
<1>5. x - 1 \in S
  BY <1>2, <1>3, <1>4
<1>6. (x - 1) + 1 \in S
  BY <1>4, <1>5
<1> QED BY <1>3, <1>4, <1>6

(* The first n steps of a loop from a base.                                 *)
Iterates(g, n, base, step) ==
    g[0] = base /\ \A i \in 0..(n - 1) : g[i + 1] = step[i][g[i]]

(* Two runs of the iteration agree as far as both go.                      *)
LEMMA IteratesAgree ==
    ASSUME NEW base, NEW step, NEW g, NEW h, NEW n \in Nat, NEW m \in Nat,
           Iterates(g, n, base, step), Iterates(h, m, base, step), n <= m
    PROVE  \A i \in 0..n : g[i] = h[i]
<1> DEFINE S == {i \in Nat : i <= n => g[i] = h[i]}
<1>1. 0 \in S
  BY DEF Iterates
<1>2. ASSUME NEW i \in Nat, i \in S PROVE i + 1 \in S
  <2> SUFFICES ASSUME i + 1 <= n PROVE g[i + 1] = h[i + 1]
    OBVIOUS
  <2>1. i \in 0..(n - 1) /\ i \in 0..(m - 1) /\ g[i] = h[i]
    BY <1>2
  <2> QED BY <2>1 DEF Iterates
<1> HIDE DEF S
<1>3. \A i \in Nat : i \in S
  BY <1>1, <1>2, SetInduction
<1> QED BY <1>3 DEF S

(* A start and a step, which may depend on how far the loop is, define a   *)
(* function.                                                               *)
LEMMA RecursionExists ==
    \A S : \A base \in S, step \in [Nat -> [S -> S]] :
        \E f \in [Nat -> S] : f[0] = base /\ \A i \in Nat : f[i + 1] = step[i][f[i]]
<1> TAKE S
<1> TAKE base \in S, step \in [Nat -> [S -> S]]
<1> DEFINE Ok(g, n) == Iterates(g, n, base, step)
           A == {n \in Nat : \E g \in [0..n -> S] : Ok(g, n)}
<1>1. 0 \in A
  <2> DEFINE g == [i \in 0..0 |-> base]
  <2>1. g \in [0..0 -> S] /\ Ok(g, 0)
    BY DEF Iterates
  <2> QED BY <2>1
<1>2. ASSUME NEW n \in Nat, n \in A PROVE n + 1 \in A
  <2>1. PICK g \in [0..n -> S] : Ok(g, n)
    BY <1>2
  <2> DEFINE h == [i \in 0..(n + 1) |-> IF i <= n THEN g[i] ELSE step[n][g[n]]]
  <2>2. h \in [0..(n + 1) -> S]
    <3>1. \A i \in 0..(n + 1) : i <= n => i \in 0..n
      OBVIOUS
    <3>2. n \in 0..n
      OBVIOUS
    <3> QED BY <3>1, <3>2
  <2>3. Ok(h, n + 1)
    <3>1. h[0] = base
      BY <2>1 DEF Iterates
    <3>2. ASSUME NEW i \in 0..n PROVE h[i + 1] = step[i][h[i]]
      <4>1. i \in 0..(n + 1) /\ i + 1 \in 0..(n + 1) /\ h[i] = g[i]
        OBVIOUS
      <4>2. CASE i = n
        BY <4>1, <4>2
      <4>3. CASE i # n
        <5>1. i \in 0..(n - 1) /\ i + 1 <= n
          BY <4>3
        <5>2. g[i + 1] = step[i][g[i]]
          BY <2>1, <5>1 DEF Iterates
        <5> QED BY <4>1, <5>1, <5>2
      <4> QED BY <4>2, <4>3
    <3> HIDE DEF h
    <3>3. (n + 1) - 1 = n
      OBVIOUS
    <3> QED BY <3>1, <3>2, <3>3 DEF Iterates
  <2> QED BY <2>2, <2>3
<1> HIDE DEF A
<1>3. \A n \in Nat : n \in A
  BY <1>1, <1>2, SetInduction
<1> DEFINE run == [n \in Nat |-> CHOOSE g \in [0..n -> S] : Ok(g, n)]
           f == [n \in Nat |-> run[n][n]]
<1>4. \A n \in Nat : run[n] \in [0..n -> S] /\ Ok(run[n], n)
  BY <1>3 DEF A
<1> HIDE DEF run
<1>5. f \in [Nat -> S]
  BY <1>4
<1>6. f[0] = base
  BY <1>4 DEF Iterates
<1>7. ASSUME NEW i \in Nat PROVE f[i + 1] = step[i][f[i]]
  <2>1. Ok(run[i], i) /\ Ok(run[i + 1], i + 1) /\ i <= i + 1 /\ i \in 0..i
    BY <1>4
  <2> HIDE DEF Ok
  <2>2. run[i][i] = run[i + 1][i]
    BY <2>1, IteratesAgree DEF Ok
  <2>3. i \in 0..((i + 1) - 1)
    OBVIOUS
  <2>4. run[i + 1][i + 1] = step[i][run[i + 1][i]]
    BY <2>1, <2>3 DEF Ok, Iterates
  <2> QED BY <2>2, <2>4
<1> QED BY <1>5, <1>6, <1>7

(* The same for a loop that counts.                                        *)
LEMMA NatLoopExists ==
    \A base \in Nat, step \in [Nat -> [Nat -> Nat]] :
        \E f \in [Nat -> Nat] : f[0] = base /\ \A i \in Nat : f[i + 1] = step[i][f[i]]
<1> DEFINE Value == Nat
<1> HIDE DEF Value
<1>1. \A base \in Value, step \in [Nat -> [Value -> Value]] :
         \E f \in [Nat -> Value] : f[0] = base /\ \A i \in Nat : f[i + 1] = step[i][f[i]]
  BY RecursionExists
<1> QED BY <1>1 DEF Value

(* A loop that looks for the first number that fits finds it.              *)
LEMMA LeastExists ==
    ASSUME NEW I, I \subseteq Nat, I # {}
    PROVE  \E x \in I : \A y \in I : x <= y
<1> DEFINE R == OpToRel(<, Nat)
<1>1. IsWellFoundedOn(R, Nat)
  BY NatLessThanWellFounded
<1>2. \A x, y \in Nat : y < x => <<y, x>> \in R
  BY DEF OpToRel
<1> HIDE DEF R
<1>3. PICK x \in I : \A y \in I : ~(<<y, x>> \in R)
  BY <1>1, WFMin
<1>4. x \in Nat /\ \A y \in I : y \in Nat /\ ~(y < x)
  BY <1>2, <1>3
<1>5. \A y \in I : x <= y
  BY <1>4
<1> QED BY <1>5

=============================================================================
