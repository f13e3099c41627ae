---------------------------- MODULE NatInduction -----------------------------
(***************************************************************************)
(* Induction over the natural numbers, stated with a set where it is       *)
(* usually stated with an operator: the form that the provers can use.     *)
(***************************************************************************)
EXTENDS Integers, WellFoundedInduction, TLAPS

(* A set of natural numbers that is not empty has a least element.         *)
LEMMA LeastNumber ==
    ASSUME NEW T \in SUBSET Nat, T # {}
    PROVE  \E m \in T : \A n \in T : m <= n
<1> DEFINE R == {p \in Nat \X Nat : p[1] < p[2]}
<1>1. IsWellFoundedOn(R, Nat)
  BY NatLessThanWellFounded DEF OpToRel
<1>2. PICK m \in T : \A n \in T : <<n, m>> \notin R
  <2> HIDE DEF R
  <2> QED
    BY <1>1, WFMin
<1>3. ASSUME NEW n \in T PROVE m <= n
  <2>1. <<n, m>> \in Nat \X Nat
    OBVIOUS
  <2>2. ~(n < m)
    BY <1>2, <2>1
  <2> QED
    BY <2>2
<1> QED
  BY <1>3

(* What holds of 0, and of n + 1 whenever it holds of n, holds of every    *)
(* natural number.                                                         *)
LEMMA Induction ==
    ASSUME NEW T \in SUBSET Nat, 0 \in T, \A n \in T : n + 1 \in T
    PROVE  T = Nat
<1> SUFFICES ASSUME Nat \ T # {} PROVE FALSE
  OBVIOUS
<1>1. PICK m \in Nat \ T : \A n \in Nat \ T : m <= n
  BY LeastNumber
<1>2. m - 1 \in Nat
  <2>1. m # 0
    OBVIOUS
  <2> QED
    BY <2>1
<1>3. m - 1 \in T
  BY <1>1, <1>2
<1>4. (m - 1) + 1 \in T
  BY <1>3
<1> QED
  BY <1>4


(* A function that is defined by recursion over 0..N exists: its value at  *)
(* n is what step makes of n and the value before.                         *)
IsDefined(N, S, first, step) ==
    \E g \in [0..N -> S] : g[0] = first /\ \A n \in 1..N : g[n] = step[<<n, g[n - 1]>>]

LEMMA Recursion ==
    ASSUME NEW N \in Nat, NEW S, NEW first \in S, NEW step \in [(1..N) \X S -> S]
    PROVE  IsDefined(N, S, first, step)
<1> DEFINE Upto(g, n) == \A m \in 0..n : g[m] = IF m = 0 THEN first ELSE step[<<m, g[m - 1]>>]
           T == {n \in Nat : n <= N => \E g \in [0..n -> S] : Upto(g, n)}
<1>1. 0 \in T
  <2> DEFINE g == [m \in 0..0 |-> first]
  <2>1. g \in [0..0 -> S] /\ Upto(g, 0)
    OBVIOUS
  <2> QED
    BY <2>1
<1>2. ASSUME NEW n \in T PROVE n + 1 \in T
  <2> HIDE DEF Upto
  <2>0. n \in Nat /\ (n <= N => \E g \in [0..n -> S] : Upto(g, n))
    OBVIOUS
  <2> SUFFICES ASSUME n + 1 <= N PROVE \E h \in [0..(n + 1) -> S] : Upto(h, n + 1)
    BY <2>0
  <2>1. PICK g \in [0..n -> S] : Upto(g, n)
    BY <2>0
  <2> USE DEF Upto
  <2> DEFINE next == step[<<n + 1, g[n]>>]
             h == [m \in 0..(n + 1) |-> IF m = n + 1 THEN next ELSE g[m]]
  <2>2. next \in S
    <3>1. g[n] \in S /\ n + 1 \in 1..N
      BY <2>0
    <3> QED
      BY <3>1
  <2>3. h \in [0..(n + 1) -> S]
    BY <2>2
  <2>4. \A m \in 0..n : h[m] = g[m]
    BY <2>0
  <2>5. ASSUME NEW m \in 0..(n + 1)
        PROVE  h[m] = IF m = 0 THEN first ELSE step[<<m, h[m - 1]>>]
    <3>1. CASE m = n + 1
      <4>1. h[m - 1] = g[n] /\ m # 0 /\ h[m] = next
        BY <3>1, <2>0, <2>4
      <4> QED
        BY <3>1, <4>1
    <3>2. CASE m \in 0..n
      <4>1. m # 0 => m - 1 \in 0..n
        BY <3>2
      <4> QED
        BY <2>1, <2>4, <3>2, <4>1
    <3> QED
      BY <3>1, <3>2
  <2> QED
    BY <2>3, <2>5
<1>3. T = Nat
  <2> HIDE DEF T
  <2>1. T \in SUBSET Nat
    BY DEF T
  <2> QED
    BY <1>1, <1>2, <2>1, Induction
<1>4. PICK g \in [0..N -> S] : Upto(g, N)
  <2> HIDE DEF Upto
  <2>1. N \in T
    BY <1>3
  <2> QED
    BY <2>1
<1>5. g[0] = first
  <2>1. 0 \in 0..N
    OBVIOUS
  <2> QED
    BY <1>4, <2>1
<1>6. ASSUME NEW n \in 1..N PROVE g[n] = step[<<n, g[n - 1]>>]
  <2>1. n \in 0..N /\ n # 0
    OBVIOUS
  <2> QED
    BY <1>4, <2>1
<1> QED
  BY <1>5, <1>6 DEF IsDefined

(* What holds of 0 and is handed on by every step up to N holds up to N.   *)
LEMMA BoundedInduction ==
    ASSUME NEW N \in Nat, NEW T \in SUBSET (0..N), 0 \in T,
           \A n \in 1..N : n - 1 \in T => n \in T
    PROVE  T = 0..N
<1> SUFFICES ASSUME (0..N) \ T # {} PROVE FALSE
  OBVIOUS
<1>1. PICK m \in (0..N) \ T : \A n \in (0..N) \ T : m <= n
  <2>1. (0..N) \ T \in SUBSET Nat
    OBVIOUS
  <2> QED
    BY <2>1, LeastNumber
<1>2. m \in 1..N
  OBVIOUS
<1>3. m - 1 \in 0..N /\ ~(m <= m - 1)
  BY <1>2
<1>4. m - 1 \in T
  BY <1>1, <1>3
<1> QED
  BY <1>1, <1>2, <1>4

=============================================================================
