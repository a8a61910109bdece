----------------------------- MODULE WellOrders -----------------------------
(***************************************************************************)
(* That a nonempty set of natural numbers, or of pairs of them, has a      *)
(* least element: what the definitions that choose the closest, the first  *)
(* or the newest of several things rest on.  And what follows from it:     *)
(* that numbers can be counted up to, and that the recursion by which a    *)
(* fold from the left is defined has a solution.                           *)
(***************************************************************************)
EXTENDS Naturals, TLAPS, WellFoundedInduction

NatLess == {p \in Nat \X Nat : p[1] < p[2]}

\* The order of the natural numbers is well founded.
LEMMA NatLessWellFounded == IsWellFoundedOn(NatLess, Nat)
<1>1. OpToRel(<, Nat) = NatLess
  BY DEF OpToRel, NatLess
<1> QED BY <1>1, NatLessThanWellFounded

\* A nonempty set of natural numbers has a least element.
LEMMA LeastNatural ==
  ASSUME NEW S \in SUBSET Nat, S # {}
  PROVE \E m \in S : \A n \in S : m <= n
<1>1. PICK x \in S : \A y \in S : ~ (<<y, x>> \in NatLess)
  BY NatLessWellFounded, WFMin
<1>2. ASSUME NEW n \in S PROVE x <= n
  <2>1. <<n, x>> \notin NatLess /\ n \in Nat /\ x \in Nat
    BY <1>1
  <2>2. ~(n < x)
    BY <2>1 DEF NatLess
  <2> QED BY <2>1, <2>2
<1> QED BY <1>2

\* A nonempty set of pairs has a least one in the lexicographic order.
LEMMA LeastPair ==
  ASSUME NEW S \in SUBSET (Nat \X Nat), S # {}
  PROVE \E p \in S : \A q \in S : p[1] < q[1] \/ (p[1] = q[1] /\ p[2] <= q[2])
<1>1. PICK k \in {p[1] : p \in S} : \A q \in {p[1] : p \in S} : k <= q
  <2>1. {p[1] : p \in S} \in SUBSET Nat /\ {p[1] : p \in S} # {}
    OBVIOUS
  <2> QED BY <2>1, LeastNatural
<1> DEFINE T == {n \in Nat : <<k, n>> \in S}
<1>2. T # {}
  <2>1. PICK p \in S : p[1] = k
    BY <1>1
  <2>2. p = <<k, p[2]>> /\ p[2] \in Nat
    BY <2>1
  <2> QED BY <2>1, <2>2
<1>3. PICK n \in T : \A m \in T : n <= m
  <2> HIDE DEF T
  <2>1. T \in SUBSET Nat
    BY DEF T
  <2> QED BY <1>2, <2>1, LeastNatural
<1>4. ASSUME NEW q \in S PROVE k < q[1] \/ (k = q[1] /\ n <= q[2])
  <2>1. k <= q[1] /\ k \in Nat /\ q[1] \in Nat
    BY <1>1
  <2>2. k = q[1] => q[2] \in T
    <3>1. q = <<q[1], q[2]>> /\ q[2] \in Nat
      OBVIOUS
    <3> QED BY <3>1
  <2> QED BY <2>1, <2>2, <1>3
<1>5. <<k, n>> \in S
  BY <1>3
<1> QED BY <1>4, <1>5

-----------------------------------------------------------------------------
(* Folds                                                                    *)

\* What holds of 0, and of n + 1 if it holds of n, holds up to N.
LEMMA InductionUpTo ==
  ASSUME NEW N \in Nat, NEW S, 0 \in S, \A n \in 0 .. N : n \in S /\ n < N => n + 1 \in S
  PROVE  \A n \in 0 .. N : n \in S
<1> SUFFICES ASSUME (0 .. N) \ S # {} PROVE FALSE
  OBVIOUS
<1>1. PICK m \in (0 .. N) \ S : \A n \in (0 .. N) \ S : m <= n
  <2>1. (0 .. N) \ S \in SUBSET Nat
    OBVIOUS
  <2> QED BY <2>1, LeastNatural
<1>2. m # 0 /\ m - 1 \in 0 .. N /\ m - 1 < N /\ m - 1 + 1 = m
  OBVIOUS
<1>3. m - 1 \in S
  BY <1>1, <1>2
<1> QED BY <1>2, <1>3

Greatest(S) == CHOOSE x \in S : \A y \in S : x >= y

\* The greatest of 1 .. n is n.
LEMMA GreatestOfPrefix ==
  ASSUME NEW n \in Nat, n # 0
  PROVE  Greatest(1 .. n) = n /\ (1 .. n) \ {n} = 1 .. n - 1
<1>1. n \in 1 .. n /\ \A y \in 1 .. n : n >= y
  OBVIOUS
<1>2. \A x \in 1 .. n : (\A y \in 1 .. n : x >= y) => x = n
  BY <1>1
<1>3. Greatest(1 .. n) = n
  BY <1>1, <1>2 DEF Greatest
<1> QED BY <1>3

\* A set of numbers up to n + 1 that has n + 1 has it as the greatest.
LEMMA GreatestIsLast ==
  ASSUME NEW n \in Nat, NEW s \in SUBSET (1 .. n + 1), n + 1 \in s
  PROVE  Greatest(s) = n + 1 /\ s \ {n + 1} \in SUBSET (1 .. n)
<1>1. \A y \in s : n + 1 >= y
  OBVIOUS
<1>2. \A x \in s : (\A y \in s : x >= y) => x = n + 1
  BY <1>1
<1>3. Greatest(s) = n + 1
  BY <1>1, <1>2 DEF Greatest
<1> QED BY <1>3

\* The greatest of a set of numbers up to n.
LEMMA GreatestBelow ==
  ASSUME NEW n \in Nat, NEW s \in SUBSET (1 .. n), s # {}
  PROVE  Greatest(s) \in s
<1> DEFINE T == {n - x : x \in s}
<1>1. T \in SUBSET Nat /\ T # {}
  <2>1. ASSUME NEW x \in s PROVE n - x \in Nat /\ n - x \in T
    <3>1. x \in 1 .. n
      OBVIOUS
    <3> QED BY <3>1
  <2> QED BY <2>1
<1>2. PICK m \in T : \A k \in T : m <= k
  <2> HIDE DEF T
  <2> QED BY <1>1, LeastNatural
<1>3. PICK x \in s : m = n - x
  BY <1>2
<1>4. \A y \in s : x >= y
  <2> SUFFICES ASSUME NEW y \in s PROVE x >= y
    OBVIOUS
  <2>1. n - y \in T
    OBVIOUS
  <2>2. n - x <= n - y
    BY <1>2, <1>3, <2>1
  <2> QED BY <2>2
<1> QED BY <1>4 DEF Greatest

\* g has the values of the recursion that takes the steps of a set of places in turn.
FoldsBy(g, N, T, base, step) ==
  /\ g \in [SUBSET (1 .. N) -> T]
  /\ \A s \in SUBSET (1 .. N) :
       g[s] = IF s = {} THEN base ELSE step[Greatest(s)][g[s \ {Greatest(s)}]]

\* The recursion of a fold from the left has a solution.
LEMMA FoldExists ==
  ASSUME NEW N \in Nat, NEW T, NEW base \in T, NEW step \in [1 .. N -> [T -> T]]
  PROVE  \E g : FoldsBy(g, N, T, base, step)
<1> DEFINE Solves(n, g) == \A s \in SUBSET (1 .. n) :
             g[s] = IF s = {} THEN base ELSE step[Greatest(s)][g[s \ {Greatest(s)}]]
           S == {n \in 0 .. N : \E g \in [SUBSET (1 .. n) -> T] : Solves(n, g)}
<1>1. 0 \in S
  <2> DEFINE g == [s \in SUBSET (1 .. 0) |-> base]
  <2>1. SUBSET (1 .. 0) = {{}}
    OBVIOUS
  <2>2. g \in [SUBSET (1 .. 0) -> T] /\ Solves(0, g)
    BY <2>1
  <2>3. 0 \in 0 .. N
    OBVIOUS
  <2> HIDE DEF Solves, g
  <2> QED BY <2>2, <2>3
<1>2. ASSUME NEW n \in 0 .. N, n \in S, n < N PROVE n + 1 \in S
  <2>0. n \in Nat /\ n + 1 \in 0 .. N /\ n + 1 \in 1 .. N
    <3> HIDE DEF S
    <3> QED BY <1>2
  <2>1. PICK g \in [SUBSET (1 .. n) -> T] : Solves(n, g)
    BY <1>2
  <2> DEFINE h == [s \in SUBSET (1 .. n + 1) |->
                     IF n + 1 \in s THEN step[n + 1][g[s \ {n + 1}]] ELSE g[s]]
  <2>2. ASSUME NEW s \in SUBSET (1 .. n + 1)
        PROVE  /\ h[s] \in T
               /\ h[s] = IF s = {} THEN base ELSE step[Greatest(s)][h[s \ {Greatest(s)}]]
    <3>1. CASE n + 1 \in s
      <4>1. Greatest(s) = n + 1 /\ s \ {n + 1} \in SUBSET (1 .. n)
        BY <2>0, <3>1, GreatestIsLast
      <4>2. h[s \ {n + 1}] = g[s \ {n + 1}]
        <5>1. s \ {n + 1} \in SUBSET (1 .. n + 1) /\ n + 1 \notin s \ {n + 1}
          OBVIOUS
        <5> QED BY <5>1
      <4>3. g[s \ {n + 1}] \in T /\ n + 1 \in 1 .. N
        BY <2>0, <4>1
      <4>4. h[s] = step[n + 1][g[s \ {n + 1}]] /\ s # {}
        BY <3>1
      <4>5. step[n + 1][g[s \ {n + 1}]] \in T
        BY <4>3
      <4> QED BY <4>1, <4>2, <4>4, <4>5
    <3>2. CASE n + 1 \notin s
      <4>1. s \in SUBSET (1 .. n)
        BY <3>2
      <4>2. h[s] = g[s] /\ g[s] \in T
        BY <3>2, <4>1
      <4>3. s # {} => Greatest(s) \in s
        BY <2>0, <4>1, GreatestBelow
      <4>4. s # {} => h[s \ {Greatest(s)}] = g[s \ {Greatest(s)}]
        <5>1. s \ {Greatest(s)} \in SUBSET (1 .. n + 1) /\ n + 1 \notin s \ {Greatest(s)}
          BY <3>2
        <5> QED BY <5>1
      <4> QED BY <2>1, <4>1, <4>2, <4>4
    <3> QED BY <3>1, <3>2
  <2>3. h \in [SUBSET (1 .. n + 1) -> T]
    <3>1. \A s \in SUBSET (1 .. n + 1) : h[s] \in T
      <4> HIDE DEF h, Solves
      <4> QED BY <2>2
    <3> HIDE DEF Solves
    <3> QED BY <3>1
  <2>4. Solves(n + 1, h)
    <3> HIDE DEF h
    <3> QED BY <2>2
  <2> HIDE DEF Solves, h
  <2> QED BY <2>0, <2>3, <2>4
<1>3. N \in S
  <2>1. N \in 0 .. N
    OBVIOUS
  <2> HIDE DEF S
  <2> QED BY <1>1, <1>2, <2>1, InductionUpTo
<1>4. PICK g \in [SUBSET (1 .. N) -> T] : Solves(N, g)
  BY <1>3
<1> QED BY <1>4 DEF FoldsBy
=============================================================================
