------------------------------ MODULE SetFacts ------------------------------
(***************************************************************************)
(* Facts about maxima, induction and folds that the proofs of several      *)
(* components rest on.                                                     *)
(***************************************************************************)
EXTENDS Integers, FiniteSetsExt, WellFoundedInduction, TLAPS

(* A non-empty set of naturals with an upper bound has a maximum.          *)
LEMMA MaxOfBounded ==
    ASSUME NEW S, S \subseteq Nat, S # {}, NEW b \in Nat, \A x \in S : x <= b
    PROVE  Max(S) \in S /\ \A x \in S : x <= Max(S)
<1> DEFINE Bounds == {m \in Nat : \A x \in S : x <= m}
           Less   == {ss \in Nat \X Nat : ss[1] < ss[2]}
<1>1. PICK m \in Bounds : \A k \in Bounds : ~(<<k, m>> \in Less)
  <2>1. IsWellFoundedOn(Less, Nat)
    BY NatLessThanWellFounded DEF OpToRel
  <2>2. Bounds \subseteq Nat /\ Bounds # {}
    OBVIOUS
  <2> HIDE DEF Bounds, Less
  <2>3. QED
    BY <2>1, <2>2, WFMin
<1>2. \A k \in Bounds : ~(k < m)
  BY <1>1
<1>3. m \in S
  <2>1. SUFFICES ASSUME m \notin S PROVE FALSE
    OBVIOUS
  <2>2. PICK x \in S : TRUE
    OBVIOUS
  <2>3. x < m
    BY <2>1, <2>2
  <2>4. m - 1 \in Bounds
    BY <2>1, <2>3
  <2>5. QED
    BY <1>2, <2>4
<1>4. QED
  BY <1>3, <1>1 DEF Max

(* Induction, with a set in the place of the predicate.                    *)
LEMMA EveryNatural ==
    ASSUME NEW S, S \subseteq Nat, 0 \in S, \A n \in S : n + 1 \in S
    PROVE  S = Nat
<1> DEFINE Rest == Nat \ S
           Less == {ss \in Nat \X Nat : ss[1] < ss[2]}
<1> SUFFICES ASSUME Rest # {} PROVE FALSE
  OBVIOUS
<1>1. PICK m \in Rest : \A k \in Rest : ~(<<k, m>> \in Less)
  <2>1. IsWellFoundedOn(Less, Nat)
    BY NatLessThanWellFounded DEF OpToRel
  <2>2. Rest \subseteq Nat
    OBVIOUS
  <2> HIDE DEF Rest, Less
  <2>3. QED
    BY <2>1, <2>2, WFMin
<1>2. \A k \in Rest : ~(k < m)
  BY <1>1
<1>3. m # 0 /\ m - 1 \in Nat /\ m - 1 < m
  OBVIOUS
<1>4. m - 1 \in S
  BY <1>2, <1>3
<1>5. QED
  BY <1>3, <1>4

(* Sets of indices, taken apart at their maximum.                          *)
LEMMA MaxOfIndices ==
    ASSUME NEW k \in Nat, NEW s, s \subseteq 1..(k + 1), s # {}
    PROVE  /\ Max(s) \in s
           /\ k + 1 \in s => Max(s) = k + 1
           /\ k + 1 \notin s => s \subseteq 1..k
           /\ s \ {Max(s)} \subseteq 1..k
           /\ k + 1 \notin s \ {Max(s)}
<1>1. Max(s) \in s /\ \A x \in s : x <= Max(s)
  <2>1. s \subseteq Nat /\ (\A x \in s : x <= k + 1) /\ k + 1 \in Nat
    OBVIOUS
  <2>2. QED
    BY <2>1, MaxOfBounded
<1>2. Max(s) \in 1..(k + 1)
  BY <1>1
<1>3. k + 1 \in s => Max(s) = k + 1
  BY <1>1, <1>2
<1>4. k + 1 \notin s => s \subseteq 1..k
  OBVIOUS
<1>5. s \ {Max(s)} \subseteq 1..k
  <2>1. ASSUME NEW x \in s, x # Max(s) PROVE x \in 1..k
    <3>1. x \in 1..(k + 1) /\ x <= Max(s)
      BY <1>1
    <3>2. QED
      BY <1>2, <2>1, <3>1
  <2>2. QED
    BY <2>1
<1>6. k + 1 \notin 1..k
  OBVIOUS
<1>7. QED
  BY <1>1, <1>3, <1>4, <1>5, <1>6

(* The first k indices.                                                    *)
LEMMA FirstIndices ==
    ASSUME NEW n \in Nat, NEW k \in 1..n
    PROVE  /\ k - 1 \in 0..n /\ k \in 0..n
           /\ 1..k # {} /\ 1..k \in SUBSET (1..n)
           /\ Max(1..k) = k /\ (1..k) \ {k} = 1..(k - 1)
<1>1. k - 1 \in Nat /\ (k - 1) + 1 = k /\ k \in 1..k /\ 1..k \subseteq 1..n
  OBVIOUS
<1>2. Max(1..k) = k
  <2>1. 1..k \subseteq 1..((k - 1) + 1) /\ (k - 1) + 1 \in 1..k /\ 1..k # {}
    BY <1>1
  <2>2. Max(1..k) = (k - 1) + 1
    BY <1>1, <2>1, MaxOfIndices
  <2>3. QED
    BY <1>1, <2>2
<1>3. \A x : x \in (1..k) \ {k} <=> x \in 1..(k - 1)
  OBVIOUS
<1>4. QED
  BY <1>1, <1>2, <1>3

(* Induction up to a bound.                                                *)
LEMMA UpToBound ==
    ASSUME NEW n \in Nat, NEW S, 0 \in S, \A k \in 1..n : k - 1 \in S => k \in S
    PROVE  0..n \subseteq S
<1> DEFINE Good == {k \in Nat : k <= n => k \in S}
<1>1. 0 \in Good
  OBVIOUS
<1>2. ASSUME NEW k \in Good PROVE k + 1 \in Good
  <2>1. k + 1 \in Nat /\ (k + 1) - 1 = k /\ (k + 1 <= n => k \in S /\ k + 1 \in 1..n)
    OBVIOUS
  <2>2. k + 1 <= n => k + 1 \in S
    BY <2>1
  <2>3. QED
    BY <2>1, <2>2
<1>3. Good = Nat
  <2> HIDE DEF Good
  <2>1. Good \subseteq Nat
    BY DEF Good
  <2>2. QED
    BY <1>1, <1>2, <2>1, EveryNatural
<1>4. QED
  <2>1. ASSUME NEW k \in 0..n PROVE k \in S
    <3>1. k \in Good /\ k <= n
      BY <1>3
    <3>2. QED
      BY <3>1
  <2>2. QED
    BY <2>1

(* f is what a fold over the indices in 1..n iterates: from base, steps[i]  *)
(* at each index i, the largest one last.                                  *)
Folds(f, n, base, steps) ==
    \A s \in SUBSET (1..n) :
        f[s] = IF s = {} THEN base ELSE steps[Max(s)][f[s \ {Max(s)}]]

(* Such a function exists, if the steps stay among the values A.            *)
LEMMA FoldExists ==
    ASSUME NEW n \in Nat, NEW A, NEW base \in A, NEW steps \in [1..n -> [A -> A]]
    PROVE  \E f \in [SUBSET (1..n) -> A] : Folds(f, n, base, steps)
<1> DEFINE At(f, s)   == IF s = {} THEN base ELSE steps[Max(s)][f[s \ {Max(s)}]]
           Fold(k, f) == /\ f \in [SUBSET (1..k) -> A]
                         /\ \A s \in SUBSET (1..k) : f[s] = At(f, s)
           Good == {k \in Nat : k <= n => \E f : Fold(k, f)}
<1>1. 0 \in Good
  <2> DEFINE f == [s \in SUBSET (1..0) |-> base]
  <2>1. SUBSET (1..0) = {{}}
    OBVIOUS
  <2>2. Fold(0, f)
    BY <2>1
  <2>3. QED
    <3> HIDE DEF Fold, f
    <3>1. QED
      BY <2>2
<1>2. ASSUME NEW k \in Good PROVE k + 1 \in Good
  <2>1. k \in Nat /\ k + 1 \in Nat
    OBVIOUS
  <2>2. SUFFICES ASSUME k + 1 <= n PROVE \E f : Fold(k + 1, f)
    <3> HIDE DEF Fold
    <3>1. QED
      BY <2>1
  <2>3. PICK f : Fold(k, f)
    <3>1. k <= n
      BY <2>1, <2>2
    <3> HIDE DEF Fold
    <3>2. QED
      BY <3>1
  <2> DEFINE g == [s \in SUBSET (1..(k + 1)) |->
                     IF k + 1 \in s THEN steps[k + 1][f[s \ {k + 1}]] ELSE f[s]]
  <2>4. ASSUME NEW s \in SUBSET (1..(k + 1))
        PROVE  g[s] \in A /\ g[s] = At(g, s)
    <3>1. CASE s = {}
      BY <2>3, <3>1
    <3>2. CASE k + 1 \in s
      <4>1. /\ Max(s) = k + 1 /\ s \ {k + 1} \in SUBSET (1..k)
            /\ s \ {k + 1} \in SUBSET (1..(k + 1)) /\ k + 1 \notin s \ {k + 1}
        BY <3>2, MaxOfIndices
      <4>2. g[s] = steps[k + 1][f[s \ {k + 1}]] /\ k + 1 \in 1..n
        BY <2>2, <3>2
      <4>3. f[s \ {k + 1}] \in A /\ g[s \ {k + 1}] = f[s \ {k + 1}]
        BY <2>3, <4>1
      <4>4. QED
        BY <3>2, <4>1, <4>2, <4>3
    <3>3. CASE s # {} /\ k + 1 \notin s
      <4>1. /\ s \in SUBSET (1..k) /\ s \ {Max(s)} \in SUBSET (1..(k + 1))
            /\ k + 1 \notin s \ {Max(s)}
        BY <3>3, MaxOfIndices
      <4>2. g[s] = f[s] /\ g[s \ {Max(s)}] = f[s \ {Max(s)}]
        BY <3>3, <4>1
      <4>3. f[s] \in A /\ f[s] = At(f, s)
        BY <2>3, <4>1
      <4>4. QED
        BY <3>3, <4>2, <4>3
    <3>4. QED
      BY <3>1, <3>2, <3>3
  <2>5. g \in [SUBSET (1..(k + 1)) -> A]
    BY <2>4
  <2>6. Fold(k + 1, g)
    BY <2>4, <2>5, Zenon
  <2>7. QED
    <3> HIDE DEF Fold, g
    <3>1. QED
      BY <2>6
<1>3. n \in Good
  <2> HIDE DEF Good
  <2>1. Good \subseteq Nat
    BY DEF Good
  <2>2. QED
    BY <1>1, <1>2, <2>1, EveryNatural
<1>4. PICK f : Fold(n, f)
  <2> HIDE DEF Fold
  <2>1. QED
    BY <1>3
<1>5. QED
  BY <1>4 DEF Folds

=============================================================================
