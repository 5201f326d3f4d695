------------------------ MODULE RateLimiterTheorems ------------------------
(***************************************************************************)
(* Proofs about RateLimiter: the inductive invariant LimiterInv, and the   *)
(* bounds that the limiters keep for any number of concurrent logins, any  *)
(* limit and any window.                                                   *)
(***************************************************************************)
EXTENDS RateLimiter, SetFacts, FiniteSetTheorems, SequenceTheorems

USE LimiterAssumption DEF LimiterAssumption

-----------------------------------------------------------------------------
(* Counting the logins of a window.                                        *)

LEMMA CountedFinite ==
    ASSUME NEW count \in [Time -> Nat], NEW t \in Int
    PROVE  /\ IsFiniteSet(Counted(count, t)) /\ InWindow(count, t) \in Nat
           /\ \A x : x \in Counted(count, t) <=>
                 \E u \in WindowOf(t) : \E k \in 1..count[u] : x = <<u, k>>
<1> DEFINE slots == [u \in WindowOf(t) |-> {u} \X (1..count[u])]
           S     == {slots[u] : u \in WindowOf(t)}
<1>1. WindowOf(t) \in SUBSET Time /\ IsFiniteSet(WindowOf(t))
  <2>1. 0 \in Int /\ MaxClock \in Int
    OBVIOUS
  <2>2. IsFiniteSet(Time)
    BY <2>1, FS_Interval DEF Time
  <2>3. WindowOf(t) \in SUBSET Time
    BY DEF WindowOf
  <2>4. QED
    BY <2>2, <2>3, FS_Subset
<1>2. \A s \in S : IsFiniteSet(s)
  <2>1. ASSUME NEW u \in WindowOf(t) PROVE IsFiniteSet(slots[u])
    <3>1. count[u] \in Nat /\ 1 \in Int /\ count[u] \in Int
      BY <1>1
    <3>2. IsFiniteSet({u})
      BY FS_Singleton
    <3>3. IsFiniteSet(1..count[u])
      BY <3>1, FS_Interval
    <3>4. QED
      BY <3>2, <3>3, FS_Product
  <2>2. QED
    BY <2>1
<1>3. IsFiniteSet(S)
  <2>1. slots \in Surjection(WindowOf(t), S)
    BY DEF Surjection
  <2>2. QED
    BY <1>1, <2>1, FS_Surjection
<1>4. UNION S = Counted(count, t)
  BY DEF Counted
<1>5. IsFiniteSet(Counted(count, t))
  BY <1>2, <1>3, <1>4, FS_UNION
<1>6. InWindow(count, t) \in Nat
  BY <1>5, FS_CardinalityType DEF InWindow
<1>7. ASSUME NEW x
      PROVE  x \in Counted(count, t) <=>
                 \E u \in WindowOf(t) : \E k \in 1..count[u] : x = <<u, k>>
  BY DEF Counted
<1>8. QED
  BY <1>5, <1>6, <1>7

(* The more logins, the more a window contains.                            *)
LEMMA CountedMore ==
    ASSUME NEW count \in [Time -> Nat], NEW more \in [Time -> Nat], NEW t \in Int,
           \A u \in WindowOf(t) : count[u] <= more[u]
    PROVE  InWindow(count, t) <= InWindow(more, t)
<1>1. Counted(count, t) \in SUBSET Counted(more, t)
  <2>1. ASSUME NEW x \in Counted(count, t) PROVE x \in Counted(more, t)
    <3>1. PICK u \in WindowOf(t) : \E k \in 1..count[u] : x = <<u, k>>
      BY CountedFinite
    <3>2. PICK k \in 1..count[u] : x = <<u, k>>
      BY <3>1
    <3>3. u \in Time /\ count[u] \in Nat /\ more[u] \in Nat /\ count[u] <= more[u]
      BY DEF WindowOf
    <3>4. k \in 1..more[u]
      BY <3>3
    <3>5. QED
      BY <3>2, <3>4, CountedFinite
  <2>2. QED
    BY <2>1
<1>2. IsFiniteSet(Counted(more, t))
  BY CountedFinite
<1>3. QED
  BY <1>1, <1>2, FS_Subset DEF InWindow

LEMMA CountedSame ==
    ASSUME NEW count \in [Time -> Nat], NEW same \in [Time -> Nat], NEW t \in Int,
           \A u \in WindowOf(t) : count[u] = same[u]
    PROVE  InWindow(count, t) = InWindow(same, t)
<1>1. Counted(count, t) = Counted(same, t)
  BY DEF Counted
<1>2. QED
  BY <1>1 DEF InWindow

LEMMA CountedNone ==
    ASSUME NEW count \in [Time -> Nat], NEW t \in Int,
           \A u \in WindowOf(t) : count[u] = 0
    PROVE  InWindow(count, t) = 0
<1>1. Counted(count, t) = {}
  <2>1. \A u \in WindowOf(t) : ~\E k : k \in 1..count[u]
    OBVIOUS
  <2>2. QED
    BY <2>1, CountedFinite
<1>2. QED
  BY <1>1, FS_EmptySet DEF InWindow

(* One more login at u.                                                    *)
LEMMA CountedOne ==
    ASSUME NEW count \in [Time -> Nat], NEW more \in [Time -> Nat],
           NEW t \in Int, NEW u \in Time, more[u] = count[u] + 1,
           \A v \in Time : v # u => more[v] = count[v]
    PROVE  /\ u \in WindowOf(t) => InWindow(more, t) = InWindow(count, t) + 1
           /\ u \notin WindowOf(t) => InWindow(more, t) = InWindow(count, t)
<1>1. /\ more \in [Time -> Nat] /\ count[u] \in Nat /\ more[u] = count[u] + 1
      /\ \A v \in Time : v # u => more[v] = count[v]
  OBVIOUS
<1>2. CASE u \in WindowOf(t)
  <2> DEFINE new == <<u, count[u] + 1>>
  <2>1. Counted(more, t) = Counted(count, t) \cup {new}
    <3>1. ASSUME NEW x
          PROVE  x \in Counted(more, t) <=> x \in Counted(count, t) \/ x = new
      <4>1. 1..more[u] = 1..count[u] \cup {count[u] + 1}
        BY <1>1
      <4>2. \A v \in WindowOf(t) : v # u => 1..more[v] = 1..count[v]
        BY <1>1 DEF WindowOf
      <4>3. x \in Counted(more, t) <=>
              \E v \in WindowOf(t) : \E k \in 1..more[v] : x = <<v, k>>
        BY <1>1, CountedFinite
      <4>4. x \in Counted(count, t) <=>
              \E v \in WindowOf(t) : \E k \in 1..count[v] : x = <<v, k>>
        BY CountedFinite
      <4>5. ASSUME x \in Counted(more, t) PROVE x \in Counted(count, t) \/ x = new
        <5>1. PICK v \in WindowOf(t) : \E k \in 1..more[v] : x = <<v, k>>
          BY <4>3, <4>5
        <5>2. CASE v = u
          BY <4>1, <4>4, <5>1, <5>2
        <5>3. CASE v # u
          BY <4>2, <4>4, <5>1, <5>3
        <5>4. QED
          BY <5>2, <5>3
      <4>6. ASSUME x \in Counted(count, t) \/ x = new PROVE x \in Counted(more, t)
        <5>1. CASE x = new
          BY <1>2, <4>1, <4>3, <5>1
        <5>2. CASE x \in Counted(count, t)
          <6>1. PICK v \in WindowOf(t) : \E k \in 1..count[v] : x = <<v, k>>
            BY <4>4, <5>2
          <6>2. CASE v = u
            BY <4>1, <4>3, <6>1, <6>2
          <6>3. CASE v # u
            BY <4>2, <4>3, <6>1, <6>3
          <6>4. QED
            BY <6>2, <6>3
        <5>3. QED
          BY <4>6, <5>1, <5>2
      <4>7. QED
        BY <4>5, <4>6
    <3>2. QED
      BY <3>1
  <2>2. new \notin Counted(count, t)
    <3>1. SUFFICES ASSUME new \in Counted(count, t) PROVE FALSE
      OBVIOUS
    <3>2. PICK v \in WindowOf(t) : \E k \in 1..count[v] : new = <<v, k>>
      BY <3>1, CountedFinite
    <3>3. count[u] + 1 \in 1..count[u]
      BY <3>2
    <3>4. QED
      BY <1>1, <3>3
  <2>3. IsFiniteSet(Counted(count, t))
    BY CountedFinite
  <2>4. QED
    <3>1. Cardinality(Counted(more, t)) = Cardinality(Counted(count, t)) + 1
      <4> HIDE DEF new
      <4>1. QED
        BY <2>1, <2>2, <2>3, FS_AddElement
    <3>2. InWindow(more, t) = InWindow(count, t) + 1
      BY <3>1 DEF InWindow
    <3>3. QED
      BY <1>1, <1>2, <3>2
<1>3. CASE u \notin WindowOf(t)
  <2>1. InWindow(more, t) = InWindow(count, t)
    <3>1. \A v \in WindowOf(t) : more[v] = count[v]
      BY <1>1, <1>3 DEF WindowOf
    <3>2. QED
      BY <1>1, <3>1, CountedSame
  <2>2. QED
    BY <1>1, <1>3, <2>1
<1>4. QED
  BY <1>2, <1>3

-----------------------------------------------------------------------------
(* Counting the times of an entry that a window holds.                     *)

LEMMA HeldFinite ==
    ASSUME NEW entry \in Seq(Time), NEW t
    PROVE  /\ IsFiniteSet(Held(entry, t)) /\ Cardinality(Held(entry, t)) \in Nat
           /\ Cardinality(Held(entry, t)) <= Len(entry)
           /\ Held(entry, t) \subseteq 1..Len(entry)
<1>1. Len(entry) \in Nat /\ DOMAIN entry = 1..Len(entry)
  OBVIOUS
<1>2. IsFiniteSet(1..Len(entry)) /\ Cardinality(1..Len(entry)) = Len(entry)
  <2> DEFINE n == Len(entry)
  <2> HIDE DEF n
  <2>1. n \in Nat
    BY <1>1 DEF n
  <2>2. IsFiniteSet(1..n) /\ Cardinality(1..n) = IF 1 > n THEN 0 ELSE n - 1 + 1
    BY <2>1, FS_Interval
  <2>3. IsFiniteSet(1..n) /\ Cardinality(1..n) = n
    BY <2>1, <2>2
  <2>4. QED
    BY <2>3 DEF n
<1>3. Held(entry, t) \in SUBSET (1..Len(entry))
  BY <1>1 DEF Held
<1>4. QED
  BY <1>2, <1>3, FS_Subset, FS_CardinalityType

LEMMA HeldAppend ==
    ASSUME NEW entry \in Seq(Time), NEW u \in Time, NEW t \in Int
    PROVE  LET held == Cardinality(Held(entry, t))
               after == Cardinality(Held(Append(entry, u), t))
           IN  /\ t - u < WINDOW => after = held + 1
               /\ ~(t - u < WINDOW) => after = held
<1> DEFINE n == Len(entry)
           more == Append(entry, u)
<1>1. /\ n \in Nat /\ DOMAIN entry = 1..n /\ DOMAIN more = 1..(n + 1)
      /\ more[n + 1] = u /\ \A i \in 1..n : more[i] = entry[i]
  OBVIOUS
<1>2. 1..(n + 1) = 1..n \cup {n + 1} /\ n + 1 \notin 1..n
  BY <1>1
<1>3. IsFiniteSet(Held(entry, t)) /\ n + 1 \notin Held(entry, t)
  BY <1>1, <1>2, HeldFinite DEF Held
<1>4. CASE t - u < WINDOW
  <2>1. Held(more, t) = Held(entry, t) \cup {n + 1}
    <3> HIDE DEF more, n
    <3>1. QED
      BY <1>1, <1>2, <1>4 DEF Held
  <2>2. QED
    BY <1>3, <1>4, <2>1, FS_AddElement
<1>5. CASE ~(t - u < WINDOW)
  <2>1. Held(more, t) = Held(entry, t)
    <3> HIDE DEF more, n
    <3>1. QED
      BY <1>1, <1>2, <1>5 DEF Held
  <2>2. QED
    BY <1>5, <2>1
<1>6. QED
  BY <1>4, <1>5

LEMMA HeldFront ==
    ASSUME NEW entry \in Seq(Time), entry # <<>>, NEW t \in Int
    PROVE  LET held == Cardinality(Held(entry, t))
               after == Cardinality(Held(Front(entry), t))
           IN  /\ Front(entry) \in Seq(Time) /\ Len(Front(entry)) = Len(entry) - 1
               /\ \A i \in 1..(Len(entry) - 1) : Front(entry)[i] = entry[i]
               /\ Last(entry) \in Time
               /\ t - Last(entry) < WINDOW => after = held - 1
               /\ ~(t - Last(entry) < WINDOW) => after = held
<1> DEFINE n == Len(entry)
           less == Front(entry)
<1>1. /\ n \in Nat \ {0} /\ DOMAIN entry = 1..n
      /\ Last(entry) = entry[n] /\ entry[n] \in Time
  BY DEF Last
<1>2. /\ less \in Seq(Time) /\ Len(less) = n - 1 /\ DOMAIN less = 1..(n - 1)
      /\ \A i \in 1..(n - 1) : less[i] = entry[i]
  BY <1>1 DEF Front
<1>3. 1..n = 1..(n - 1) \cup {n} /\ n \notin 1..(n - 1)
  BY <1>1
<1>4. IsFiniteSet(Held(entry, t))
  BY HeldFinite
<1>5. ASSUME t - Last(entry) < WINDOW
      PROVE  Cardinality(Held(less, t)) = Cardinality(Held(entry, t)) - 1
  <2>1. Held(less, t) = Held(entry, t) \ {n} /\ n \in Held(entry, t)
    <3> HIDE DEF less, n
    <3>1. QED
      BY <1>1, <1>2, <1>3, <1>5 DEF Held
  <2> HIDE DEF less, n
  <2>2. QED
    BY <1>4, <2>1, FS_RemoveElement
<1>6. ASSUME ~(t - Last(entry) < WINDOW)
      PROVE  Cardinality(Held(less, t)) = Cardinality(Held(entry, t))
  <2>1. Held(less, t) = Held(entry, t)
    <3> HIDE DEF less, n
    <3>1. QED
      BY <1>1, <1>2, <1>3, <1>6 DEF Held
  <2>2. QED
    BY <2>1
<1>7. QED
  BY <1>1, <1>2, <1>5, <1>6

(* Retain goes through the entry once; kept[k] is what it has kept of the  *)
(* first k times.                                                          *)
Fresh(kept, u) == IF clock - u < WINDOW THEN Append(kept, u) ELSE kept

LEMMA RetainSteps ==
    ASSUME NEW entry \in Seq(Time)
    PROVE  \E kept \in [0..Len(entry) -> Seq(Time)] :
              /\ kept[0] = <<>>
              /\ \A k \in 1..Len(entry) : kept[k] = Fresh(kept[k - 1], entry[k])
              /\ Retain(entry) = kept[Len(entry)]
<1> DEFINE n == Len(entry)
           Fold(f) == f = [s \in SUBSET (1..n) |->
                             IF s = {} THEN <<>>
                             ELSE Fresh(f[s \ {Max(s)}], entry[Max(s)])]
           f == CHOOSE f : Fold(f)
<1>1. n \in Nat /\ DOMAIN entry = 1..n /\ \A k \in 1..n : entry[k] \in Time
  OBVIOUS
<1>2. \A x \in Seq(Time), u \in Time : Fresh(x, u) \in Seq(Time)
  BY DEF Fresh
<1>3. PICK g \in [SUBSET (1..n) -> Seq(Time)] :
        \A s \in SUBSET (1..n) :
            g[s] = IF s = {} THEN <<>> ELSE Fresh(g[s \ {Max(s)}], entry[Max(s)])
  <2> DEFINE steps == [i \in 1..n |-> [x \in Seq(Time) |-> Fresh(x, entry[i])]]
  <2>1. steps \in [1..n -> [Seq(Time) -> Seq(Time)]] /\ <<>> \in Seq(Time)
    BY <1>1, <1>2
  <2>2. PICK g \in [SUBSET (1..n) -> Seq(Time)] : Folds(g, n, <<>>, steps)
    <3>1. n \in Nat
      BY <1>1
    <3> HIDE DEF steps, n
    <3>2. QED
      BY <2>1, <3>1, FoldExists
  <2>3. ASSUME NEW s \in SUBSET (1..n)
        PROVE  g[s] = IF s = {} THEN <<>> ELSE Fresh(g[s \ {Max(s)}], entry[Max(s)])
    <3>1. CASE s # {}
      <4>1. Max(s) \in 1..n /\ s \ {Max(s)} \in SUBSET (1..n)
        <5>1. s \subseteq Nat /\ \A x \in s : x <= n
          BY <1>1
        <5>2. QED
          BY <1>1, <3>1, <5>1, MaxOfBounded
      <4>2. QED
        BY <2>2, <3>1, <4>1 DEF Folds
    <3>2. QED
      BY <2>2, <3>1 DEF Folds
  <2>4. QED
    BY <2>3
<1>4. Fold(f)
  <2>1. Fold(g)
    <3>1. g = [s \in SUBSET (1..n) |-> g[s]]
      BY <1>3
    <3>2. QED
      BY <1>3, <3>1, Zenon
  <2> HIDE DEF Fold
  <2>2. QED
    BY <2>1
<1>5. Retain(entry) = f[1..n]
  BY <1>1, Zenon DEF Retain, FoldLeft, MapThenFoldSet, Fresh
<1> HIDE DEF f
<1> DEFINE kept == [k \in 0..n |-> f[1..k]]
<1>6. f[{}] = <<>>
  BY <1>4
<1>7. ASSUME NEW k \in 1..n PROVE kept[k] = Fresh(kept[k - 1], entry[k])
  <2>1. n \in Nat
    BY <1>1
  <2> HIDE DEF n
  <2>2. /\ k - 1 \in 0..n /\ k \in 0..n /\ 1..k # {} /\ 1..k \in SUBSET (1..n)
        /\ Max(1..k) = k /\ (1..k) \ {k} = 1..(k - 1)
    BY <2>1, FirstIndices
  <2>3. f[1..k] = Fresh(f[(1..k) \ {k}], entry[k])
    BY <1>4, <2>2
  <2>4. QED
    BY <2>2, <2>3
<1>8. kept[0] = <<>>
  BY <1>1, <1>6
<1>9. kept \in [0..n -> Seq(Time)]
  <2> DEFINE Good == {k \in 0..n : kept[k] \in Seq(Time)}
  <2>1. 0 \in Good
    <3>1. 0 \in 0..n /\ <<>> \in Seq(Time)
      BY <1>1
    <3> HIDE DEF kept
    <3>2. QED
      BY <1>8, <3>1
  <2>2. ASSUME NEW k \in 1..n, k - 1 \in Good PROVE k \in Good
    <3> HIDE DEF kept
    <3>1. kept[k - 1] \in Seq(Time) /\ entry[k] \in Time /\ k \in 0..n
      BY <1>1, <2>2
    <3>2. QED
      BY <1>2, <1>7, <3>1
  <2>3. 0..n \subseteq Good
    <3> HIDE DEF Good, n
    <3>1. QED
      BY <1>1, <2>1, <2>2, UpToBound
  <2>4. \A k \in 0..n : kept[k] \in Seq(Time)
    <3> HIDE DEF kept, n
    <3>1. QED
      BY <2>3
  <2>5. QED
    BY <2>4
<1>10. kept[n] = Retain(entry)
  BY <1>1, <1>5
<1>11. QED
  <2> HIDE DEF kept
  <2>1. QED
    BY <1>7, <1>8, <1>9, <1>10

(* The times among the first k of an entry that a window holds.            *)
HeldOf(entry, k, t) == {i \in 1..k : t - entry[i] < WINDOW}

(* What holds of the first k times once Retain has gone through them.      *)
Keeping(entry, kept, k) ==
    /\ Len(kept) <= k
    /\ \A i \in 1..Len(kept) : clock - kept[i] < WINDOW
    /\ \A i \in 1..Len(kept) : \E j \in 1..k : kept[i] = entry[j]
    /\ InOrder(entry) => InOrder(kept)
    /\ \A t \in Time : t >= clock =>
          Cardinality(Held(kept, t)) = Cardinality(HeldOf(entry, k, t))

LEMMA HeldOfOne ==
    ASSUME NEW entry \in Seq(Time), NEW k \in 1..Len(entry), NEW t \in Int
    PROVE  LET held == Cardinality(HeldOf(entry, k - 1, t))
               after == Cardinality(HeldOf(entry, k, t))
           IN  /\ t - entry[k] < WINDOW => after = held + 1
               /\ ~(t - entry[k] < WINDOW) => after = held
<1>1. 1..k = 1..(k - 1) \cup {k} /\ k \notin 1..(k - 1)
  OBVIOUS
<1>2. IsFiniteSet(HeldOf(entry, k - 1, t)) /\ k \notin HeldOf(entry, k - 1, t)
  <2>1. IsFiniteSet(1..(k - 1))
    BY FS_Interval
  <2>2. HeldOf(entry, k - 1, t) \in SUBSET (1..(k - 1))
    BY DEF HeldOf
  <2>3. QED
    BY <1>1, <2>1, <2>2, FS_Subset
<1>3. CASE t - entry[k] < WINDOW
  <2>1. HeldOf(entry, k, t) = HeldOf(entry, k - 1, t) \cup {k}
    BY <1>1, <1>3 DEF HeldOf
  <2>2. QED
    BY <1>2, <1>3, <2>1, FS_AddElement
<1>4. CASE ~(t - entry[k] < WINDOW)
  <2>1. HeldOf(entry, k, t) = HeldOf(entry, k - 1, t)
    BY <1>1, <1>4 DEF HeldOf
  <2>2. QED
    BY <1>4, <2>1
<1>5. QED
  BY <1>3, <1>4

LEMMA KeepOne ==
    ASSUME clock \in Time, NEW entry \in Seq(Time), NEW kept \in Seq(Time),
           NEW k \in 1..Len(entry), Keeping(entry, kept, k - 1)
    PROVE  Keeping(entry, Fresh(kept, entry[k]), k)
<1> DEFINE u == entry[k]
           m == Len(kept)
<1>1. /\ u \in Time /\ Time \subseteq Int /\ clock \in Int /\ m \in Nat /\ k \in Nat
      /\ DOMAIN kept = 1..m /\ DOMAIN entry = 1..Len(entry)
      /\ 1..(k - 1) \subseteq 1..k /\ k \in 1..k /\ 1..k \subseteq DOMAIN entry
  BY DEF Time
<1>2. /\ m <= k - 1
      /\ \A i \in 1..m : clock - kept[i] < WINDOW
      /\ \A i \in 1..m : \E j \in 1..(k - 1) : kept[i] = entry[j]
      /\ InOrder(entry) => InOrder(kept)
      /\ \A t \in Time : t >= clock =>
            Cardinality(Held(kept, t)) = Cardinality(HeldOf(entry, k - 1, t))
  BY DEF Keeping
<1>3. CASE clock - u < WINDOW
  <2> DEFINE more == Append(kept, u)
  <2>1. /\ Fresh(kept, u) = more /\ more \in Seq(Time) /\ Len(more) = m + 1
        /\ more[m + 1] = u /\ \A i \in 1..m : more[i] = kept[i]
        /\ DOMAIN more = 1..(m + 1)
        /\ \A i \in 1..(m + 1) : i \in 1..m \/ i = m + 1
    BY <1>1, <1>3 DEF Fresh
  <2> HIDE DEF more, u, m
  <2>2. Len(more) <= k
    BY <1>1, <1>2, <2>1
  <2>3. \A i \in 1..Len(more) : clock - more[i] < WINDOW
    BY <1>2, <1>3, <2>1
  <2>4. \A i \in 1..Len(more) : \E j \in 1..k : more[i] = entry[j]
    BY <1>1, <1>2, <2>1 DEF u
  <2>5. ASSUME InOrder(entry) PROVE InOrder(more)
    <3>1. InOrder(kept)
      BY <1>2, <2>5
    <3>2. \A i \in 1..m : kept[i] <= u
      <4>1. ASSUME NEW i \in 1..m PROVE kept[i] <= u
        <5>1. PICK j \in 1..(k - 1) : kept[i] = entry[j]
          BY <1>2
        <5>2. j \in DOMAIN entry /\ k \in DOMAIN entry /\ j < k
          BY <1>1
        <5>3. QED
          BY <2>5, <5>1, <5>2 DEF InOrder, u
      <4>2. QED
        BY <4>1
    <3>3. u <= clock
      BY <1>1, <2>5 DEF InOrder, u
    <3>4. \A i \in DOMAIN more : more[i] <= clock
      BY <1>1, <2>1, <3>1, <3>3 DEF InOrder
    <3>5. ASSUME NEW i \in DOMAIN more, NEW j \in DOMAIN more, i < j
          PROVE  more[i] <= more[j]
      <4>1. i \in 1..m
        BY <1>1, <2>1, <3>5
      <4>2. CASE j \in 1..m
        BY <1>1, <2>1, <3>1, <3>5, <4>1, <4>2 DEF InOrder
      <4>3. CASE j = m + 1
        BY <2>1, <3>2, <4>1, <4>3
      <4>4. QED
        BY <2>1, <4>2, <4>3
    <3>6. QED
      BY <3>4, <3>5 DEF InOrder
  <2>6. ASSUME NEW t \in Time, t >= clock
        PROVE  Cardinality(Held(more, t)) = Cardinality(HeldOf(entry, k, t))
    <3>1. t \in Int
      BY <1>1
    <3>2. CASE t - u < WINDOW
      <4>1. Cardinality(Held(more, t)) = Cardinality(Held(kept, t)) + 1
        BY <1>1, <3>1, <3>2, HeldAppend DEF more
      <4>2. Cardinality(HeldOf(entry, k, t)) = Cardinality(HeldOf(entry, k - 1, t)) + 1
        BY <3>1, <3>2, HeldOfOne DEF u
      <4>3. QED
        BY <1>2, <2>6, <4>1, <4>2
    <3>3. CASE ~(t - u < WINDOW)
      <4>1. Cardinality(Held(more, t)) = Cardinality(Held(kept, t))
        BY <1>1, <3>1, <3>3, HeldAppend DEF more
      <4>2. Cardinality(HeldOf(entry, k, t)) = Cardinality(HeldOf(entry, k - 1, t))
        BY <3>1, <3>3, HeldOfOne DEF u
      <4>3. QED
        BY <1>2, <2>6, <4>1, <4>2
    <3>4. QED
      BY <3>2, <3>3
  <2>7. Keeping(entry, more, k)
    BY <2>2, <2>3, <2>4, <2>5, <2>6 DEF Keeping
  <2>8. QED
    BY <2>1, <2>7 DEF u
<1>4. CASE ~(clock - u < WINDOW)
  <2>1. Fresh(kept, u) = kept
    BY <1>4 DEF Fresh
  <2>2. ASSUME NEW t \in Time, t >= clock
        PROVE  Cardinality(HeldOf(entry, k, t)) = Cardinality(HeldOf(entry, k - 1, t))
    <3>1. t \in Int /\ u \in Int /\ WINDOW \in Int
      BY DEF Time
    <3>2. ~(t - u < WINDOW)
      <4> HIDE DEF u
      <4>1. QED
        BY <1>1, <1>4, <2>2, <3>1
    <3>3. QED
      BY <3>1, <3>2, HeldOfOne
  <2>3. Len(kept) <= k
    BY <1>1, <1>2
  <2>4. \A i \in 1..m : \E j \in 1..k : kept[i] = entry[j]
    BY <1>1, <1>2
  <2>5. Keeping(entry, kept, k)
    BY <1>2, <2>2, <2>3, <2>4 DEF Keeping
  <2>6. QED
    BY <2>1, <2>5
<1>5. QED
  BY <1>3, <1>4

(* What check() retains: what any window that is still open can hold, in   *)
(* order, and nothing else.                                                *)
LEMMA RetainKeeps ==
    ASSUME clock \in Time, NEW entry \in Seq(Time)
    PROVE  /\ Retain(entry) \in Seq(Time) /\ Len(Retain(entry)) <= Len(entry)
           /\ Len(Retain(entry)) = Cardinality(Held(entry, clock))
           /\ InOrder(entry) => InOrder(Retain(entry))
           /\ \A t \in Time : t >= clock =>
                 Cardinality(Held(Retain(entry), t)) = Cardinality(Held(entry, t))
<1> DEFINE n == Len(entry)
<1>1. PICK kept \in [0..n -> Seq(Time)] :
         /\ kept[0] = <<>>
         /\ \A k \in 1..n : kept[k] = Fresh(kept[k - 1], entry[k])
         /\ Retain(entry) = kept[n]
  BY RetainSteps
<1>2. n \in Nat /\ n \in 0..n /\ 0 \in 0..n /\ DOMAIN entry = 1..n
  OBVIOUS
<1> DEFINE Good == {k \in 0..n : Keeping(entry, kept[k], k)}
<1>3. 0 \in Good
  <2>1. \A t : Held(<<>>, t) = {} /\ HeldOf(entry, 0, t) = {}
    BY DEF Held, HeldOf
  <2>2. Len(<<>>) = 0 /\ InOrder(<<>>) /\ ~\E i : i \in 1..0
    BY DEF InOrder
  <2>3. Keeping(entry, <<>>, 0)
    BY <2>1, <2>2 DEF Keeping
  <2>4. QED
    BY <1>1, <1>2, <2>3
<1>4. ASSUME NEW k \in 1..n, k - 1 \in Good PROVE k \in Good
  <2>1. /\ Keeping(entry, kept[k - 1], k - 1) /\ kept[k - 1] \in Seq(Time)
        /\ k \in 0..n /\ kept[k] = Fresh(kept[k - 1], entry[k])
    BY <1>1, <1>4
  <2>2. QED
    BY <2>1, KeepOne
<1>5. 0..n \subseteq Good
  <2> HIDE DEF Good, n
  <2>1. QED
    BY <1>2, <1>3, <1>4, UpToBound
<1>6. Keeping(entry, Retain(entry), n) /\ Retain(entry) \in Seq(Time)
  BY <1>1, <1>2, <1>5
<1>7. \A t : HeldOf(entry, n, t) = Held(entry, t)
  BY <1>2 DEF Held, HeldOf
<1>8. Held(Retain(entry), clock) = 1..Len(Retain(entry))
  BY <1>6 DEF Keeping, Held
<1>9. Len(Retain(entry)) = Cardinality(Held(entry, clock))
  <2> DEFINE len == Len(Retain(entry))
  <2>1. len \in Nat
    BY <1>6
  <2>2. Cardinality(1..len) = len
    <3> HIDE DEF len
    <3>1. 1 \in Int /\ len \in Int
      BY <2>1
    <3>2. Cardinality(1..len) = IF 1 > len THEN 0 ELSE len - 1 + 1
      BY <3>1, FS_Interval
    <3>3. QED
      BY <2>1, <3>2
  <2>3. clock >= clock
    BY DEF Time
  <2>4. QED
    BY <1>6, <1>7, <1>8, <2>2, <2>3 DEF Keeping
<1>10. QED
  BY <1>6, <1>7, <1>9 DEF Keeping

-----------------------------------------------------------------------------
(* What check() and refund() do to an entry.                               *)

LEMMA PushKeeps ==
    ASSUME clock \in Time, NEW entry \in Seq(Time), NEW limit \in Nat
    PROVE  /\ Push(entry) \in Seq(Time)
           /\ ~Full(entry, limit) => Len(Push(entry)) <= limit
           /\ InOrder(entry) => InOrder(Push(entry))
           /\ \A t \in Time : t >= clock =>
                 LET held == Cardinality(Held(entry, t))
                     after == Cardinality(Held(Push(entry), t))
                 IN  /\ t - clock < WINDOW => after = held + 1
                     /\ ~(t - clock < WINDOW) => after = held
<1> DEFINE r == Retain(entry)
           n == Len(r)
           p == Append(r, clock)
<1>1. /\ r \in Seq(Time) /\ n <= Len(entry)
      /\ InOrder(entry) => InOrder(r)
      /\ \A t \in Time : t >= clock =>
            Cardinality(Held(r, t)) = Cardinality(Held(entry, t))
  BY RetainKeeps
<1>2. Push(entry) = p
  BY DEF Push
<1> HIDE DEF r
<1>3. /\ n \in Nat /\ p \in Seq(Time) /\ Len(p) = n + 1 /\ DOMAIN p = 1..(n + 1)
      /\ DOMAIN r = 1..n /\ p[n + 1] = clock /\ \A i \in 1..n : p[i] = r[i]
  BY <1>1
<1>4. ~Full(entry, limit) => Len(p) <= limit
  BY <1>3 DEF Full, r
<1>5. ASSUME InOrder(entry) PROVE InOrder(p)
  <2>1. InOrder(r)
    BY <1>1, <1>5
  <2>2. clock \in Int /\ \A i \in 1..(n + 1) : i \in 1..n \/ i = n + 1
    BY <1>3 DEF Time
  <2> HIDE DEF p, n
  <2>3. \A i \in DOMAIN p : p[i] <= clock
    BY <1>3, <2>1, <2>2 DEF InOrder
  <2>4. ASSUME NEW i \in DOMAIN p, NEW j \in DOMAIN p, i < j PROVE p[i] <= p[j]
    <3>1. i \in 1..n
      BY <1>3, <2>4
    <3>2. CASE j \in 1..n
      BY <1>3, <2>1, <2>4, <3>1, <3>2 DEF InOrder
    <3>3. CASE j = n + 1
      BY <1>3, <2>3, <3>3
    <3>4. QED
      BY <1>3, <2>2, <3>2, <3>3
  <2>5. QED
    BY <2>3, <2>4 DEF InOrder
<1>6. ASSUME NEW t \in Time, t >= clock
      PROVE  LET held == Cardinality(Held(entry, t))
                 after == Cardinality(Held(p, t))
             IN  /\ t - clock < WINDOW => after = held + 1
                 /\ ~(t - clock < WINDOW) => after = held
  <2>1. t \in Int
    BY DEF Time
  <2>2. Cardinality(Held(r, t)) = Cardinality(Held(entry, t))
    BY <1>1, <1>6
  <2>3. QED
    BY <1>1, <2>1, <2>2, HeldAppend
<1>7. QED
  BY <1>2, <1>3, <1>4, <1>5, <1>6

(* The newest time of an entry in order is the last to leave a window.     *)
LEMMA LastIsNewest ==
    ASSUME clock \in Time, NEW entry \in Seq(Time), entry # <<>>, InOrder(entry),
           NEW t \in Int, ~(t - Last(entry) < WINDOW)
    PROVE  Cardinality(Held(entry, t)) = 0
<1> DEFINE n == Len(entry)
<1>1. /\ n \in Nat \ {0} /\ DOMAIN entry = 1..n /\ n \in 1..n
      /\ Last(entry) = entry[n] /\ \A i \in 1..n : entry[i] \in Int
  BY DEF Last, Time
<1> HIDE DEF n
<1>2. ASSUME NEW i \in 1..n PROVE entry[i] <= entry[n]
  <2>1. CASE i = n
    BY <1>1, <2>1
  <2>2. CASE i < n
    BY <1>1, <2>2 DEF InOrder
  <2>3. QED
    BY <1>1, <2>1, <2>2
<1>3. Held(entry, t) = {}
  <2>1. ASSUME NEW i \in 1..n PROVE ~(t - entry[i] < WINDOW)
    <3>1. entry[i] \in Int /\ entry[n] \in Int /\ WINDOW \in Int
      BY <1>1
    <3>2. QED
      BY <1>1, <1>2, <3>1
  <2>2. QED
    BY <1>1, <2>1 DEF Held
<1>4. QED
  BY <1>3, FS_EmptySet

LEMMA PopKeeps ==
    ASSUME clock \in Time, NEW entry \in Seq(Time), InOrder(entry)
    PROVE  /\ Pop(entry) \in Seq(Time) /\ Len(Pop(entry)) <= Len(entry)
           /\ InOrder(Pop(entry))
           /\ \A t \in Int :
                 LET held == Cardinality(Held(entry, t))
                     after == Cardinality(Held(Pop(entry), t))
                 IN  \/ held = 0 /\ after = 0
                     \/ /\ entry # <<>> /\ t - Last(entry) < WINDOW
                        /\ after = held - 1
<1>1. CASE entry = <<>>
  <2>1. Pop(entry) = entry
    BY <1>1 DEF Pop
  <2>2. \A t \in Int : Cardinality(Held(entry, t)) = 0
    <3>1. \A t \in Int : Held(entry, t) = {}
      BY <1>1 DEF Held
    <3>2. QED
      BY <3>1, FS_EmptySet
  <2>3. Len(entry) <= Len(entry)
    OBVIOUS
  <2>4. QED
    BY <2>1, <2>2, <2>3
<1>2. CASE entry # <<>>
  <2>1. Pop(entry) = Front(entry)
    BY <1>2 DEF Pop
  <2>2. /\ Pop(entry) \in Seq(Time) /\ Len(Pop(entry)) = Len(entry) - 1
        /\ \A i \in 1..(Len(entry) - 1) : Pop(entry)[i] = entry[i]
    BY <1>2, <2>1, HeldFront, 0 \in Int
  <2>3. /\ Len(entry) \in Nat /\ DOMAIN entry = 1..Len(entry)
        /\ DOMAIN Pop(entry) = 1..(Len(entry) - 1)
        /\ 1..(Len(entry) - 1) \subseteq 1..Len(entry)
    BY <2>2
  <2>4. InOrder(Pop(entry))
    BY <2>2, <2>3 DEF InOrder
  <2>5. ASSUME NEW t \in Int
        PROVE  LET held == Cardinality(Held(entry, t))
                   after == Cardinality(Held(Pop(entry), t))
               IN  \/ held = 0 /\ after = 0
                   \/ /\ entry # <<>> /\ t - Last(entry) < WINDOW
                      /\ after = held - 1
    <3>1. CASE t - Last(entry) < WINDOW
      BY <1>2, <2>1, <3>1, HeldFront
    <3>2. CASE ~(t - Last(entry) < WINDOW)
      <4>1. Cardinality(Held(entry, t)) = 0
        BY <1>2, <3>2, LastIsNewest
      <4>2. Cardinality(Held(Pop(entry), t)) = Cardinality(Held(entry, t))
        BY <1>2, <2>1, <3>2, HeldFront
      <4>3. QED
        BY <4>1, <4>2
    <3>3. QED
      BY <3>1, <3>2
  <2>6. QED
    BY <2>2, <2>3, <2>4, <2>5
<1>3. QED
  BY <1>1, <1>2

-----------------------------------------------------------------------------
(* The logins being verified.                                              *)

LEMMA FlightFinite ==
    ASSUME NEW t
    PROVE  /\ IsFiniteSet(InFlight) /\ IsFiniteSet(Pending(t)) /\ IsFiniteSet(Early(t))
           /\ Cardinality(InFlight) \in Nat /\ Cardinality(Attempt) \in Nat
           /\ Cardinality(Pending(t)) \in Nat /\ Cardinality(Early(t)) \in Nat
           /\ Cardinality(Pending(t)) <= Cardinality(InFlight)
<1>1. /\ InFlight \in SUBSET Attempt
      /\ Pending(t) \in SUBSET InFlight /\ Early(t) \in SUBSET InFlight
  BY DEF InFlight, Pending, Early
<1>2. IsFiniteSet(InFlight) /\ IsFiniteSet(Attempt)
  BY <1>1, FS_Subset
<1>3. QED
  BY <1>1, <1>2, FS_Subset, FS_CardinalityType

LEMMA OwedType ==
    ASSUME TypeOK, NEW t \in Int
    PROVE  /\ Owed(t) \in Nat /\ InWindow(failed, t) \in Nat
           /\ Owed(t) = InWindow(failed, t) + Cardinality(Pending(t))
<1>1. InWindow(failed, t) \in Nat
  BY CountedFinite DEF TypeOK
<1>2. QED
  BY <1>1, FlightFinite DEF Owed

(* A slot that is not being verified is not among the early ones.          *)
LEMMA EarlySpares ==
    ASSUME NEW a \in Attempt, login[a].pc # "verify", NEW t
    PROVE  Cardinality(Early(t)) < Cardinality(Attempt)
<1>1. Early(t) \in SUBSET (Attempt \ {a})
  BY DEF Early, InFlight
<1>2. /\ IsFiniteSet(Attempt \ {a})
      /\ Cardinality(Attempt \ {a}) = Cardinality(Attempt) - 1
  BY FS_RemoveElement
<1>3. Cardinality(Early(t)) <= Cardinality(Attempt \ {a})
  BY <1>1, <1>2, FS_Subset
<1>4. QED
  BY <1>2, <1>3, FlightFinite

(* Login a begins at the present time.                                     *)
LEMMA Begins ==
    ASSUME TypeOK, NEW a \in Attempt, login[a].pc # "verify", NEW t \in Int,
           login' = [login EXCEPT ![a] = [pc |-> "verify", began |-> clock]]
    PROVE  /\ clock \in WindowOf(t) =>
                 Cardinality(Pending(t)') = Cardinality(Pending(t)) + 1
           /\ clock \notin WindowOf(t) => Pending(t)' = Pending(t)
           /\ ~(clock <= t - WINDOW) => Early(t)' = Early(t)
<1>1. /\ login'[a].pc = "verify" /\ login'[a].began = clock
      /\ \A b \in Attempt : b # a => login'[b] = login[b]
  BY DEF TypeOK
<1>2. a \notin Pending(t) /\ a \notin Early(t) /\ IsFiniteSet(Pending(t))
  BY FlightFinite DEF Pending, Early, InFlight
<1>3. ASSUME clock \in WindowOf(t)
      PROVE  Cardinality(Pending(t)') = Cardinality(Pending(t)) + 1
  <2>1. Pending(t)' = Pending(t) \cup {a}
    BY <1>1, <1>3 DEF Pending, InFlight, WindowOf
  <2>2. QED
    BY <1>2, <2>1, FS_AddElement
<1>4. ASSUME clock \notin WindowOf(t) PROVE Pending(t)' = Pending(t)
  BY <1>1, <1>2, <1>4 DEF Pending, InFlight, WindowOf
<1>5. ASSUME ~(clock <= t - WINDOW) PROVE Early(t)' = Early(t)
  BY <1>1, <1>2, <1>5 DEF Early, InFlight
<1>6. QED
  BY <1>3, <1>4, <1>5

(* The verification of login a ends.                                       *)
LEMMA Ends ==
    ASSUME TypeOK, NEW a \in Attempt, login[a].pc = "verify", NEW t \in Int,
           login' \in [Attempt -> [pc : {"idle", "verify", "verified"}, began : Time]],
           login'[a].pc # "verify",
           \A b \in Attempt : b # a => login'[b] = login[b]
    PROVE  /\ login[a].began \in WindowOf(t) =>
                 /\ Cardinality(Pending(t)') = Cardinality(Pending(t)) - 1
                 /\ Early(t)' = Early(t)
           /\ login[a].began \notin WindowOf(t) => Pending(t)' = Pending(t)
           /\ login[a].began <= t - WINDOW =>
                 Cardinality(Early(t)') = Cardinality(Early(t)) - 1
<1>1. IsFiniteSet(Pending(t)) /\ IsFiniteSet(Early(t))
  BY FlightFinite
<1>2. /\ Pending(t)' = Pending(t) \ {a} /\ Early(t)' = Early(t) \ {a}
      /\ a \in Pending(t) <=> login[a].began \in WindowOf(t)
      /\ a \in Early(t) <=> login[a].began <= t - WINDOW
  BY DEF Pending, Early, InFlight, WindowOf
<1>3. login[a].began \in WindowOf(t) => ~(login[a].began <= t - WINDOW)
  BY DEF WindowOf, Time
<1>4. /\ login[a].began \in WindowOf(t) =>
            Cardinality(Pending(t)') = Cardinality(Pending(t)) - 1
      /\ login[a].began <= t - WINDOW =>
            Cardinality(Early(t)') = Cardinality(Early(t)) - 1
  BY <1>1, <1>2, FS_RemoveElement
<1>5. /\ login[a].began \in WindowOf(t) => Early(t)' = Early(t)
      /\ login[a].began \notin WindowOf(t) => Pending(t)' = Pending(t)
  BY <1>2, <1>3
<1>6. QED
  BY <1>4, <1>5

-----------------------------------------------------------------------------
(* OpenInv and ClosedInv, one window at a time.                            *)

OpenAt(t) ==
    LET held == Cardinality(Held(hits, t))
    IN  /\ InWindow(issued, t) <= Cardinality(Held(successes, t))
        /\ held <= Owed(t)
        /\ swapped \/ Owed(t) <= held
        /\ Owed(t) # 0 =>
              Owed(t) + Cardinality(Early(t)) < held + Cardinality(Attempt)

ClosedAt(t) ==
    /\ InWindow(issued, t) <= SUCCESS_LIMIT
    /\ swapped \/ Owed(t) <= LIMIT
    /\ Owed(t) < LIMIT + Cardinality(Attempt)

(* While a window is open, the entries bound what it contains.             *)
LEMMA OpenBounds ==
    ASSUME TypeOK, NEW t \in Time, OpenAt(t)
    PROVE  ClosedAt(t)
<1> DEFINE held == Cardinality(Held(hits, t))
           kept == Cardinality(Held(successes, t))
           early == Cardinality(Early(t))
           all == Cardinality(Attempt)
           owed == Owed(t)
           through == InWindow(issued, t)
<1>1. t \in Int
  BY DEF Time
<1>2. /\ held \in Nat /\ held <= Len(hits) /\ Len(hits) <= LIMIT /\ Len(hits) \in Nat
      /\ kept \in Nat /\ kept <= Len(successes) /\ Len(successes) <= SUCCESS_LIMIT
      /\ Len(successes) \in Nat
  BY <1>1, HeldFinite DEF TypeOK
<1>3. /\ owed \in Nat /\ early \in Nat /\ all \in Nat /\ through \in Nat
      /\ swapped \in BOOLEAN
  BY <1>1, OwedType, FlightFinite, CountedFinite DEF TypeOK
<1>4. /\ through <= kept
      /\ swapped \/ owed <= held
      /\ owed # 0 => owed + early < held + all
  BY DEF OpenAt
<1> HIDE DEF held, kept, early, all, owed, through
<1>5. /\ through <= SUCCESS_LIMIT
      /\ owed <= held => owed <= LIMIT
      /\ owed < LIMIT + all
  BY <1>2, <1>3, <1>4
<1>6. QED
  BY <1>4, <1>5 DEF ClosedAt, owed, through, all

(* A window that has not begun owes nothing.                               *)
LEMMA FutureOwesNothing ==
    ASSUME TypeOK, PastInv, NEW t \in Time, ~(t - clock < WINDOW)
    PROVE  Owed(t) = 0
<1>1. /\ t \in Int /\ clock \in Int /\ WINDOW \in Int
      /\ \A u \in Time : u \in Int
  BY DEF Time, TypeOK
<1>2. \A u \in WindowOf(t) : u \in Time /\ u > clock
  BY <1>1 DEF WindowOf
<1>3. InWindow(failed, t) = 0
  <2>1. \A u \in WindowOf(t) : failed[u] = 0
    BY <1>2 DEF PastInv
  <2>2. QED
    BY <1>1, <2>1, CountedNone DEF TypeOK
<1>4. Pending(t) = {}
  <2>1. ASSUME NEW a \in Pending(t) PROVE FALSE
    <3>1. a \in Attempt /\ login[a].began \in WindowOf(t)
      BY DEF Pending, InFlight
    <3>2. login[a].began \in Time /\ login[a].began > clock /\ login[a].began <= clock
      BY <1>2, <3>1 DEF PastInv
    <3>3. login[a].began \in Int
      BY <1>1, <3>2
    <3>4. QED
      BY <1>1, <3>2, <3>3
  <2>2. QED
    BY <2>1
<1>5. QED
  BY <1>3, <1>4, FS_EmptySet DEF Owed

-----------------------------------------------------------------------------
(* The steps of the time line: a window is open or closed; what a step of  *)
(* one login does to either.                                               *)

Moves(t) ==
    /\ OpenAt(t) /\ t >= clock => OpenAt(t)'
    /\ ClosedAt(t) /\ t < clock => ClosedAt(t)'

LEMMA Moving ==
    ASSUME LimiterInv, clock' = clock, \A t \in Time : Moves(t)
    PROVE  OpenInv' /\ ClosedInv'
<1>1. ASSUME NEW t \in Time, t >= clock PROVE OpenAt(t)'
  <2>1. OpenAt(t)
    BY <1>1 DEF LimiterInv, OpenInv, OpenAt
  <2>2. QED
    BY <1>1, <2>1 DEF Moves
<1>2. ASSUME NEW t \in Time, t < clock PROVE ClosedAt(t)'
  <2>1. ClosedAt(t)
    BY <1>2 DEF LimiterInv, ClosedInv, ClosedAt
  <2>2. QED
    BY <1>2, <2>1 DEF Moves
<1>3. OpenInv'
  BY <1>1 DEF OpenInv, OpenAt
<1>4. ClosedInv'
  BY <1>2 DEF ClosedInv, ClosedAt
<1>5. QED
  BY <1>3, <1>4

LEMMA ReserveMoves ==
    ASSUME LimiterInv, NEW a \in Attempt, Reserve(a), NEW t \in Time
    PROVE  Moves(t)
<1>1. /\ TypeOK /\ PastInv /\ clock \in Time /\ clock \in Int /\ t \in Int
      /\ WINDOW \in Int /\ hits \in Seq(Time)
  BY DEF LimiterInv, TypeOK, Time
<1>2. /\ login[a].pc # "verify" /\ hits' = Push(hits) /\ clock' = clock
      /\ login' = [login EXCEPT ![a] = [pc |-> "verify", began |-> clock]]
      /\ successes' = successes /\ failed' = failed /\ issued' = issued
      /\ swapped' = swapped
  BY DEF Reserve, Idle
<1> DEFINE held == Cardinality(Held(hits, t))
           held2 == Cardinality(Held(hits', t))
           early == Cardinality(Early(t))
           all == Cardinality(Attempt)
           owed == Owed(t)
           owed2 == Owed(t)'
<1>3. /\ held \in Nat /\ early \in Nat /\ all \in Nat /\ owed \in Nat /\ early < all
      /\ Cardinality(Pending(t)) \in Nat /\ InWindow(failed, t) \in Nat
      /\ owed = InWindow(failed, t) + Cardinality(Pending(t))
  BY <1>1, <1>2, HeldFinite, FlightFinite, OwedType, EarlySpares
<1>4. /\ owed2 = InWindow(failed, t) + Cardinality(Pending(t)')
      /\ InWindow(issued, t)' = InWindow(issued, t)
      /\ Held(successes, t)' = Held(successes, t) /\ Held(hits, t)' = Held(hits', t)
  BY <1>2 DEF Owed, InWindow, Counted, WindowOf, Held
<1>5. ASSUME OpenAt(t), t >= clock PROVE OpenAt(t)'
  <2>1. /\ t - clock < WINDOW => held2 = held + 1
        /\ ~(t - clock < WINDOW) => held2 = held
    BY <1>1, <1>2, <1>5, PushKeeps
  <2>2. /\ held <= owed /\ (swapped \/ owed <= held)
        /\ owed # 0 => owed + early < held + all
        /\ InWindow(issued, t) <= Cardinality(Held(successes, t))
    BY <1>5 DEF OpenAt
  <2>3. CASE t - clock < WINDOW
    <3>1. clock \in WindowOf(t) /\ ~(clock <= t - WINDOW)
      BY <1>1, <1>5, <2>3 DEF WindowOf
    <3>2. Cardinality(Pending(t)') = Cardinality(Pending(t)) + 1 /\ Early(t)' = Early(t)
      BY <1>1, <1>2, <3>1, Begins
    <3>3. owed2 = owed + 1 /\ held2 = held + 1
      BY <1>3, <1>4, <2>1, <2>3, <3>2
    <3> HIDE DEF held, held2, early, all, owed, owed2
    <3>4. /\ held2 <= owed2 /\ (swapped \/ owed2 <= held2)
          /\ owed2 + early < held2 + all
      BY <1>3, <2>2, <3>3
    <3>5. QED
      BY <1>2, <1>4, <2>2, <3>2, <3>4 DEF OpenAt, held2, early, all, owed2
  <2>4. CASE ~(t - clock < WINDOW)
    <3>1. owed = 0 /\ clock \notin WindowOf(t)
      BY <1>1, <1>5, <2>4, FutureOwesNothing DEF WindowOf
    <3>2. Cardinality(Pending(t)') = Cardinality(Pending(t))
      BY <1>1, <1>2, <3>1, Begins
    <3>3. owed2 = owed /\ held2 = held
      BY <1>3, <1>4, <2>1, <2>4, <3>2
    <3> HIDE DEF held, held2, early, all, owed, owed2
    <3>4. held2 <= owed2 /\ (swapped \/ owed2 <= held2) /\ owed2 = 0
      BY <2>2, <3>1, <3>3
    <3>5. QED
      BY <1>2, <1>4, <2>2, <3>4 DEF OpenAt, held2, owed2
  <2>5. QED
    BY <2>3, <2>4
<1>6. ASSUME ClosedAt(t), t < clock PROVE ClosedAt(t)'
  <2>1. clock \notin WindowOf(t)
    BY <1>1, <1>6 DEF WindowOf
  <2>2. Pending(t)' = Pending(t)
    BY <1>1, <1>2, <2>1, Begins
  <2>3. owed2 = owed
    BY <1>3, <1>4, <2>2
  <2>4. QED
    BY <1>2, <1>6, <2>3 DEF ClosedAt, InWindow, Counted, WindowOf
<1>7. QED
  BY <1>5, <1>6 DEF Moves

LEMMA ReserveStep ==
    ASSUME LimiterInv, NEW a \in Attempt, Reserve(a)
    PROVE  LimiterInv'
<1>1. TypeOK /\ PastInv /\ clock \in Time /\ hits \in Seq(Time) /\ LIMIT \in Nat
  BY DEF LimiterInv, TypeOK
<1>2. /\ ~Full(hits, LIMIT) /\ hits' = Push(hits) /\ clock' = clock
      /\ login' = [login EXCEPT ![a] = [pc |-> "verify", began |-> clock]]
      /\ successes' = successes /\ failed' = failed /\ issued' = issued
      /\ swapped' = swapped
  BY DEF Reserve
<1>3. hits' \in Seq(Time) /\ Len(hits') <= LIMIT /\ InOrder(hits')
  BY <1>1, <1>2, PushKeeps DEF PastInv
<1>4. TypeOK'
  BY <1>1, <1>2, <1>3 DEF TypeOK
<1>5. PastInv'
  <2>1. \A b \in Attempt : login'[b].began <= clock
    <3>1. clock <= clock
      BY <1>1 DEF Time
    <3>2. QED
      BY <1>1, <1>2, <3>1 DEF PastInv, TypeOK
  <2>2. QED
    BY <1>1, <1>2, <1>3, <2>1 DEF PastInv, InOrder
<1>6. \A u \in Time : Moves(u)
  BY ReserveMoves
<1>7. QED
  BY <1>2, <1>4, <1>5, <1>6, Moving DEF LimiterInv

LEMMA RefuseStep ==
    ASSUME LimiterInv, NEW a \in Attempt, Refuse(a)
    PROVE  LimiterInv'
<1>1. TypeOK /\ PastInv /\ clock \in Time /\ hits \in Seq(Time)
  BY DEF LimiterInv, TypeOK
<1>2. /\ hits' = Retain(hits) /\ clock' = clock /\ login' = login
      /\ successes' = successes /\ failed' = failed /\ issued' = issued
      /\ swapped' = swapped
  BY DEF Refuse
<1>3. /\ hits' \in Seq(Time) /\ Len(hits') <= Len(hits) /\ InOrder(hits')
      /\ \A t \in Time : t >= clock =>
            Cardinality(Held(hits', t)) = Cardinality(Held(hits, t))
  BY <1>1, <1>2, RetainKeeps DEF PastInv
<1>4. TypeOK'
  <2>1. Len(hits) \in Nat /\ Len(hits') \in Nat /\ Len(hits) <= LIMIT
    BY <1>1, <1>3 DEF TypeOK
  <2>2. Len(hits') <= LIMIT
    BY <1>3, <2>1
  <2>3. QED
    BY <1>1, <1>2, <1>3, <2>2 DEF TypeOK
<1>5. PastInv'
  BY <1>1, <1>2, <1>3 DEF PastInv, InOrder
<1>6. ASSUME NEW t \in Time PROVE Moves(t)
  <2>1. Owed(t)' = Owed(t) /\ Early(t)' = Early(t)
    BY <1>2 DEF Owed, InWindow, Counted, WindowOf, Pending, Early, InFlight
  <2>2. QED
    BY <1>2, <1>3, <2>1 DEF Moves, OpenAt, ClosedAt, InWindow, Counted, WindowOf
<1>7. QED
  BY <1>2, <1>4, <1>5, <1>6, Moving DEF LimiterInv

LEMMA FailStep ==
    ASSUME LimiterInv, NEW a \in Attempt, Fail(a)
    PROVE  LimiterInv'
<1> DEFINE b == login[a].began
<1>1. /\ TypeOK /\ PastInv /\ clock \in Time /\ clock \in Int /\ WINDOW \in Int
      /\ failed \in [Time -> Nat] /\ Idle.pc = "idle" /\ Idle.began = 0
      /\ b \in Time /\ b \in Int /\ b <= clock
  <2>1. /\ TypeOK /\ PastInv /\ clock \in Time /\ failed \in [Time -> Nat]
        /\ b \in Time /\ b <= clock
    BY DEF LimiterInv, TypeOK, PastInv
  <2>2. b \in Int /\ clock \in Int /\ WINDOW \in Int
    BY <2>1 DEF Time
  <2>3. QED
    BY <2>1, <2>2 DEF Idle
<1>2. /\ login[a].pc = "verify" /\ login' = [login EXCEPT ![a] = Idle]
      /\ failed' = [failed EXCEPT ![b] = @ + 1]
      /\ clock' = clock /\ hits' = hits /\ successes' = successes
      /\ issued' = issued /\ swapped' = swapped
  BY DEF Fail
<1>3. TypeOK'
  <2>1. Idle \in [pc : {"idle", "verify", "verified"}, began : Time]
    BY DEF Idle, Time
  <2>2. failed' \in [Time -> Nat]
    BY <1>1, <1>2
  <2>3. QED
    BY <1>1, <1>2, <2>1, <2>2 DEF TypeOK
<1>4. /\ login'[a].pc = "idle" /\ login'[a].began = 0
      /\ \A o \in Attempt : o # a => login'[o] = login[o]
  BY <1>1, <1>2 DEF TypeOK
<1>5. PastInv'
  <2>1. \A u \in Time : u > clock => failed'[u] = 0
    BY <1>1, <1>2 DEF PastInv
  <2>2. 0 <= clock
    BY <1>1 DEF Time
  <2>3. QED
    BY <1>1, <1>2, <1>4, <2>1, <2>2 DEF PastInv, InOrder
<1>6. ASSUME NEW t \in Time PROVE Moves(t)
  <2> DEFINE early == Cardinality(Early(t))
             early2 == Cardinality(Early(t)')
  <2>1. t \in Int
    BY DEF Time
  <2>2. /\ b \in WindowOf(t) =>
             /\ Cardinality(Pending(t)') = Cardinality(Pending(t)) - 1
             /\ Early(t)' = Early(t)
        /\ b \notin WindowOf(t) => Pending(t)' = Pending(t)
        /\ b <= t - WINDOW => early2 = early - 1
    BY <1>1, <1>2, <1>3, <1>4, <2>1, Ends DEF TypeOK
  <2>3. /\ b \in WindowOf(t) => InWindow(failed', t) = InWindow(failed, t) + 1
        /\ b \notin WindowOf(t) => InWindow(failed', t) = InWindow(failed, t)
    <3>1. /\ failed' \in [Time -> Nat] /\ failed'[b] = failed[b] + 1
          /\ \A u \in Time : u # b => failed'[u] = failed[u]
      BY <1>1, <1>2
    <3> HIDE DEF b
    <3>2. QED
      BY <1>1, <2>1, <3>1, CountedOne
  <2>4. /\ Owed(t)' = InWindow(failed', t) + Cardinality(Pending(t)')
        /\ InWindow(issued, t)' = InWindow(issued, t)
        /\ Held(successes, t)' = Held(successes, t) /\ Held(hits, t)' = Held(hits, t)
    BY <1>2 DEF Owed, InWindow, Counted, WindowOf, Held
  <2>5. /\ Owed(t) = InWindow(failed, t) + Cardinality(Pending(t))
        /\ Owed(t) \in Nat /\ InWindow(failed, t) \in Nat
        /\ Cardinality(Pending(t)) \in Nat /\ early \in Nat
    BY <1>1, <2>1, OwedType, FlightFinite
  <2>6. Owed(t)' = Owed(t)
    BY <2>2, <2>3, <2>4, <2>5
  <2>7. ASSUME OpenAt(t), t >= clock PROVE OpenAt(t)'
    <3>1. b \in WindowOf(t) \/ b <= t - WINDOW
      BY <1>1, <2>1, <2>7 DEF WindowOf
    <3>2. early2 <= early /\ early2 \in Int
      BY <2>2, <2>5, <3>1
    <3> DEFINE held == Cardinality(Held(hits, t))
               all == Cardinality(Attempt)
               owed == Owed(t)
    <3>3. /\ owed # 0 => owed + early < held + all
          /\ held \in Nat /\ all \in Nat /\ owed \in Nat
      BY <1>1, <2>5, <2>7, HeldFinite, FlightFinite DEF OpenAt, TypeOK
    <3>4. owed # 0 => owed + early2 < held + all
      <4> HIDE DEF early, early2, held, all, owed
      <4>1. QED
        BY <2>5, <3>2, <3>3
    <3>5. QED
      BY <1>2, <2>4, <2>6, <2>7, <3>4 DEF OpenAt
  <2>8. ASSUME ClosedAt(t) PROVE ClosedAt(t)'
    BY <1>2, <2>4, <2>6, <2>8 DEF ClosedAt
  <2>9. QED
    BY <2>7, <2>8 DEF Moves
<1>7. QED
  BY <1>2, <1>3, <1>5, <1>6, Moving DEF LimiterInv

LEMMA RefundMoves ==
    ASSUME LimiterInv, NEW a \in Attempt, Refund(a), NEW t \in Time
    PROVE  Moves(t)
<1> DEFINE b == login[a].began
           held == Cardinality(Held(hits, t))
           held2 == Cardinality(Held(hits', t))
           early == Cardinality(Early(t))
           early2 == Cardinality(Early(t)')
           all == Cardinality(Attempt)
           owed == Owed(t)
           owed2 == Owed(t)'
<1>1. /\ TypeOK /\ PastInv /\ clock \in Time /\ clock \in Int /\ WINDOW \in Int
      /\ t \in Int /\ hits \in Seq(Time) /\ swapped \in BOOLEAN
      /\ b \in Time /\ b \in Int /\ b <= clock /\ InOrder(hits)
  <2>1. /\ TypeOK /\ PastInv /\ clock \in Time /\ hits \in Seq(Time)
        /\ swapped \in BOOLEAN /\ b \in Time /\ b <= clock /\ InOrder(hits)
    BY DEF LimiterInv, TypeOK, PastInv
  <2>2. t \in Int /\ b \in Int /\ clock \in Int /\ WINDOW \in Int
    BY <2>1 DEF Time
  <2>3. QED
    BY <2>1, <2>2
<1>2. /\ login[a].pc = "verify" /\ login' = [login EXCEPT ![a].pc = "verified"]
      /\ hits' = Pop(hits) /\ clock' = clock /\ successes' = successes
      /\ failed' = failed /\ issued' = issued
      /\ swapped' = (swapped \/ (hits # <<>> /\ Last(hits) # b))
  BY DEF Refund
<1>3. /\ b \in WindowOf(t) =>
           /\ Cardinality(Pending(t)') = Cardinality(Pending(t)) - 1
           /\ early2 = early
      /\ b \notin WindowOf(t) => Pending(t)' = Pending(t)
      /\ b <= t - WINDOW => early2 = early - 1
  <2>1. login' \in [Attempt -> [pc : {"idle", "verify", "verified"}, began : Time]]
    BY <1>1, <1>2 DEF TypeOK
  <2>2. login'[a].pc = "verified" /\ \A o \in Attempt : o # a => login'[o] = login[o]
    BY <1>1, <1>2 DEF TypeOK
  <2>3. login'[a].pc # "verify"
    BY <2>2
  <2>4. QED
    BY <1>1, <1>2, <2>1, <2>2, <2>3, Ends
<1>4. /\ owed2 = InWindow(failed, t) + Cardinality(Pending(t)')
      /\ InWindow(issued, t)' = InWindow(issued, t)
      /\ Held(successes, t)' = Held(successes, t) /\ Held(hits, t)' = Held(hits', t)
  BY <1>2 DEF Owed, InWindow, Counted, WindowOf, Held
<1>5. /\ owed = InWindow(failed, t) + Cardinality(Pending(t))
      /\ owed \in Nat /\ InWindow(failed, t) \in Nat /\ held \in Nat /\ all \in Nat
      /\ Cardinality(Pending(t)) \in Nat /\ early \in Nat
  BY <1>1, OwedType, FlightFinite, HeldFinite
<1>6. /\ b \in WindowOf(t) => owed2 = owed - 1 /\ early2 = early /\ owed # 0
      /\ b \notin WindowOf(t) => owed2 = owed
  <2>1. ASSUME b \in WindowOf(t) PROVE Cardinality(Pending(t)) # 0
    <3>1. a \in Pending(t) /\ IsFiniteSet(Pending(t))
      BY <1>2, <2>1, FlightFinite DEF Pending, InFlight
    <3>2. QED
      BY <3>1, FS_EmptySet
  <2>2. QED
    BY <1>3, <1>4, <1>5, <2>1
<1>7. ASSUME OpenAt(t), t >= clock PROVE OpenAt(t)'
  <2>1. \/ held = 0 /\ held2 = 0
        \/ /\ hits # <<>> /\ t - Last(hits) < WINDOW
           /\ held2 = held - 1
    BY <1>1, <1>2, PopKeeps
  <2>2. /\ held <= owed /\ (swapped \/ owed <= held)
        /\ owed # 0 => owed + early < held + all
        /\ InWindow(issued, t) <= Cardinality(Held(successes, t))
    BY <1>7 DEF OpenAt
  <2>3. b \notin WindowOf(t) => b <= t - WINDOW /\ ~(t - b < WINDOW)
    BY <1>1, <1>7 DEF WindowOf
  <2>4. CASE b \in WindowOf(t)
    <3>1. owed2 = owed - 1 /\ early2 = early /\ owed # 0 /\ owed2 \in Nat
      BY <1>5, <1>6, <2>4
    <3>2. (held = 0 /\ held2 = 0) \/ held2 = held - 1
      BY <2>1
    <3>3. swapped' \/ owed <= held
      BY <1>2, <2>2
    <3> HIDE DEF b, held, held2, early, early2, all, owed, owed2
    <3>4. held2 <= owed2 /\ (owed <= held => owed2 <= held2)
          /\ owed2 + early2 < held2 + all
      BY <1>5, <2>2, <3>1, <3>2
    <3>5. QED
      BY <1>4, <2>2, <3>3, <3>4 DEF OpenAt, held2, early2, all, owed2
  <2>5. CASE b \notin WindowOf(t)
    <3>1. owed2 = owed /\ early2 = early - 1 /\ ~(t - b < WINDOW)
      BY <1>3, <1>6, <2>3, <2>5
    <3>2. (held = 0 /\ held2 = 0) \/ held2 = held - 1
      BY <2>1
    <3>3. swapped' \/ (owed <= held /\ held2 = held)
      <4>1. swapped \/ owed <= held
        BY <2>2
      <4>2. CASE ~swapped /\ (hits = <<>> \/ Last(hits) = b)
        <5>1. held2 = held
          BY <2>1, <3>1, <4>2
        <5>2. QED
          BY <4>1, <4>2, <5>1
      <4>3. CASE swapped \/ (hits # <<>> /\ Last(hits) # b)
        BY <1>2, <4>3
      <4>4. QED
        BY <4>2, <4>3
    <3> HIDE DEF b, held, held2, early, early2, all, owed, owed2
    <3>4. /\ held2 <= owed2
          /\ owed <= held /\ held2 = held => owed2 <= held2
          /\ owed2 # 0 => owed2 + early2 < held2 + all
      BY <1>5, <2>2, <3>1, <3>2
    <3>5. QED
      BY <1>4, <2>2, <3>3, <3>4 DEF OpenAt, held2, early2, all, owed2
  <2>6. QED
    BY <2>4, <2>5
<1>8. ASSUME ClosedAt(t) PROVE ClosedAt(t)'
  <2>1. owed2 <= owed /\ owed2 \in Int
    BY <1>5, <1>6
  <2>2. swapped' \/ owed <= LIMIT
    BY <1>2, <1>8 DEF ClosedAt
  <2>3. owed < LIMIT + all
    BY <1>8 DEF ClosedAt
  <2> HIDE DEF owed, owed2, all
  <2>4. (owed <= LIMIT => owed2 <= LIMIT) /\ owed2 < LIMIT + all
    BY <1>5, <2>1, <2>3
  <2>5. QED
    BY <1>4, <1>8, <2>2, <2>4 DEF ClosedAt, owed2, all
<1>9. QED
  BY <1>7, <1>8 DEF Moves

LEMMA RefundStep ==
    ASSUME LimiterInv, NEW a \in Attempt, Refund(a)
    PROVE  LimiterInv'
<1>1. /\ TypeOK /\ PastInv /\ clock \in Time /\ hits \in Seq(Time)
      /\ swapped \in BOOLEAN /\ Len(hits) <= LIMIT
  BY DEF LimiterInv, TypeOK
<1>2. /\ login' = [login EXCEPT ![a].pc = "verified"]
      /\ hits' = Pop(hits) /\ clock' = clock /\ successes' = successes
      /\ failed' = failed /\ issued' = issued
      /\ swapped' = (swapped \/ (hits # <<>> /\ Last(hits) # login[a].began))
  BY DEF Refund
<1>3. hits' \in Seq(Time) /\ Len(hits') <= Len(hits) /\ InOrder(hits')
  BY <1>1, <1>2, PopKeeps DEF PastInv
<1>4. TypeOK'
  <2>1. Len(hits) \in Nat /\ Len(hits') \in Nat
    BY <1>1, <1>3
  <2>2. Len(hits') <= LIMIT
    BY <1>1, <1>3, <2>1
  <2>3. swapped' \in BOOLEAN
    BY <1>1, <1>2
  <2>4. login' \in [Attempt -> [pc : {"idle", "verify", "verified"}, began : Time]]
    BY <1>1, <1>2 DEF TypeOK
  <2>5. QED
    BY <1>1, <1>2, <1>3, <2>2, <2>3, <2>4 DEF TypeOK
<1>5. PastInv'
  <2>1. \A o \in Attempt : login'[o].began = login[o].began
    BY <1>1, <1>2 DEF TypeOK
  <2>2. QED
    BY <1>1, <1>2, <1>3, <2>1 DEF PastInv, InOrder
<1>6. \A t \in Time : Moves(t)
  BY RefundMoves
<1>7. QED
  BY <1>2, <1>4, <1>5, <1>6, Moving DEF LimiterInv

LEMMA AdmitStep ==
    ASSUME LimiterInv, NEW a \in Attempt, Admit(a)
    PROVE  LimiterInv'
<1>1. /\ TypeOK /\ PastInv /\ clock \in Time /\ successes \in Seq(Time)
      /\ SUCCESS_LIMIT \in Nat /\ issued \in [Time -> Nat]
  BY DEF LimiterInv, TypeOK
<1>2. /\ login[a].pc = "verified" /\ ~Full(successes, SUCCESS_LIMIT)
      /\ successes' = Push(successes) /\ issued' = [issued EXCEPT ![clock] = @ + 1]
      /\ login' = [login EXCEPT ![a] = Idle] /\ clock' = clock /\ hits' = hits
      /\ failed' = failed /\ swapped' = swapped
  BY DEF Admit
<1>3. /\ issued' \in [Time -> Nat] /\ issued'[clock] = issued[clock] + 1
      /\ \A u \in Time : u # clock => issued'[u] = issued[u]
  BY <1>1, <1>2
<1>4. /\ successes' \in Seq(Time) /\ Len(successes') <= SUCCESS_LIMIT
      /\ InOrder(successes')
      /\ \A t \in Time : t >= clock =>
            LET held == Cardinality(Held(successes, t))
                after == Cardinality(Held(successes', t))
            IN  /\ t - clock < WINDOW => after = held + 1
                /\ ~(t - clock < WINDOW) => after = held
  BY <1>1, <1>2, PushKeeps DEF PastInv
<1>5. /\ login'[a].pc = "idle" /\ login'[a].began = 0
      /\ \A o \in Attempt : o # a => login'[o] = login[o]
      /\ login' \in [Attempt -> [pc : {"idle", "verify", "verified"}, began : Time]]
  <2>1. /\ Idle \in [pc : {"idle", "verify", "verified"}, began : Time]
        /\ Idle.pc = "idle" /\ Idle.began = 0
    BY DEF Idle, Time
  <2>2. QED
    BY <1>1, <1>2, <2>1 DEF TypeOK
<1>6. TypeOK'
  BY <1>1, <1>2, <1>3, <1>4, <1>5 DEF TypeOK
<1>7. PastInv'
  <2>1. 0 <= clock /\ ~(clock > clock)
    BY <1>1 DEF Time
  <2>2. QED
    BY <1>1, <1>2, <1>3, <1>4, <1>5, <2>1 DEF PastInv, InOrder
<1>8. ASSUME NEW t \in Time PROVE Moves(t)
  <2>1. t \in Int /\ clock \in Int /\ WINDOW \in Int
    BY <1>1 DEF Time
  <2>2. Pending(t)' = Pending(t) /\ Early(t)' = Early(t)
    BY <1>2, <1>5 DEF Pending, Early, InFlight, WindowOf
  <2>3. /\ Owed(t)' = Owed(t) /\ Held(hits, t)' = Held(hits, t)
        /\ InWindow(issued, t)' = InWindow(issued', t)
        /\ Held(successes, t)' = Held(successes', t)
    BY <1>2, <2>2 DEF Owed, InWindow, Counted, WindowOf, Held
  <2>4. /\ clock \in WindowOf(t) => InWindow(issued', t) = InWindow(issued, t) + 1
        /\ clock \notin WindowOf(t) => InWindow(issued', t) = InWindow(issued, t)
    BY <1>1, <1>3, <2>1, CountedOne
  <2>5. ASSUME OpenAt(t), t >= clock PROVE OpenAt(t)'
    <3>1. clock \in WindowOf(t) <=> t - clock < WINDOW
      BY <1>1, <2>1, <2>5 DEF WindowOf
    <3>2. /\ InWindow(issued, t) \in Nat /\ Cardinality(Held(successes, t)) \in Nat
          /\ InWindow(issued, t) <= Cardinality(Held(successes, t))
      BY <1>1, <2>1, <2>5, CountedFinite, HeldFinite DEF OpenAt
    <3>3. InWindow(issued', t) <= Cardinality(Held(successes', t))
      <4>1. CASE t - clock < WINDOW
        <5>1. /\ InWindow(issued', t) = InWindow(issued, t) + 1
              /\ Cardinality(Held(successes', t)) = Cardinality(Held(successes, t)) + 1
          BY <1>4, <2>4, <2>5, <3>1, <4>1
        <5>2. QED
          BY <3>2, <5>1
      <4>2. CASE ~(t - clock < WINDOW)
        <5>1. /\ InWindow(issued', t) = InWindow(issued, t)
              /\ Cardinality(Held(successes', t)) = Cardinality(Held(successes, t))
          BY <1>4, <2>4, <2>5, <3>1, <4>2
        <5>2. QED
          BY <3>2, <5>1
      <4>3. QED
        BY <4>1, <4>2
    <3>4. QED
      BY <1>2, <2>2, <2>3, <2>5, <3>3 DEF OpenAt
  <2>6. ASSUME ClosedAt(t), t < clock PROVE ClosedAt(t)'
    <3>1. clock \notin WindowOf(t)
      BY <2>1, <2>6 DEF WindowOf
    <3>2. QED
      BY <1>2, <2>3, <2>4, <2>6, <3>1 DEF ClosedAt
  <2>7. QED
    BY <2>5, <2>6 DEF Moves
<1>9. QED
  BY <1>2, <1>6, <1>7, <1>8, Moving DEF LimiterInv

LEMMA ThrottleStep ==
    ASSUME LimiterInv, NEW a \in Attempt, Throttle(a)
    PROVE  LimiterInv'
<1>1. TypeOK /\ PastInv /\ clock \in Time /\ successes \in Seq(Time)
  BY DEF LimiterInv, TypeOK
<1>2. /\ login[a].pc = "verified" /\ successes' = Retain(successes)
      /\ login' = [login EXCEPT ![a] = Idle] /\ clock' = clock /\ hits' = hits
      /\ failed' = failed /\ issued' = issued /\ swapped' = swapped
  BY DEF Throttle
<1>3. /\ successes' \in Seq(Time) /\ Len(successes') <= Len(successes)
      /\ InOrder(successes')
      /\ \A t \in Time : t >= clock =>
            Cardinality(Held(successes', t)) = Cardinality(Held(successes, t))
  BY <1>1, <1>2, RetainKeeps DEF PastInv
<1>4. /\ login'[a].pc = "idle" /\ login'[a].began = 0
      /\ \A o \in Attempt : o # a => login'[o] = login[o]
      /\ login' \in [Attempt -> [pc : {"idle", "verify", "verified"}, began : Time]]
  <2>1. /\ Idle \in [pc : {"idle", "verify", "verified"}, began : Time]
        /\ Idle.pc = "idle" /\ Idle.began = 0
    BY DEF Idle, Time
  <2>2. QED
    BY <1>1, <1>2, <2>1 DEF TypeOK
<1>5. TypeOK'
  <2>1. Len(successes) \in Nat /\ Len(successes') \in Nat /\ Len(successes) <= SUCCESS_LIMIT
    BY <1>1, <1>3 DEF TypeOK
  <2>2. Len(successes') <= SUCCESS_LIMIT
    BY <1>3, <2>1
  <2>3. QED
    BY <1>1, <1>2, <1>3, <1>4, <2>2 DEF TypeOK
<1>6. PastInv'
  <2>1. 0 <= clock
    BY <1>1 DEF Time
  <2>2. QED
    BY <1>1, <1>2, <1>3, <1>4, <2>1 DEF PastInv, InOrder
<1>7. ASSUME NEW t \in Time PROVE Moves(t)
  <2>1. Pending(t)' = Pending(t) /\ Early(t)' = Early(t)
    BY <1>2, <1>4 DEF Pending, Early, InFlight, WindowOf
  <2>2. /\ Owed(t)' = Owed(t) /\ Held(hits, t)' = Held(hits, t)
        /\ InWindow(issued, t)' = InWindow(issued, t)
        /\ Held(successes, t)' = Held(successes', t)
    BY <1>2, <2>1 DEF Owed, InWindow, Counted, WindowOf, Held
  <2>3. QED
    BY <1>2, <1>3, <2>1, <2>2 DEF Moves, OpenAt, ClosedAt
<1>8. QED
  BY <1>2, <1>5, <1>6, <1>7, Moving DEF LimiterInv

(* Time closes the window that ends now; what the histories forget is in   *)
(* none that is open.                                                      *)
LEMMA TickStep ==
    ASSUME LimiterInv, Tick
    PROVE  LimiterInv'
<1>1. /\ TypeOK /\ PastInv /\ OpenInv /\ ClosedInv /\ clock \in Time
      /\ failed \in [Time -> Nat] /\ issued \in [Time -> Nat]
      /\ hits \in Seq(Time) /\ successes \in Seq(Time)
  BY DEF LimiterInv, TypeOK
<1>2. /\ clock < MaxClock /\ clock' = clock + 1
      /\ failed' = Recent(failed) /\ issued' = Recent(issued)
      /\ hits' = hits /\ successes' = successes /\ login' = login /\ swapped' = swapped
  BY DEF Tick
<1>3. /\ clock \in Int /\ WINDOW \in Int /\ MaxVerify \in Nat
      /\ clock' \in Time /\ clock <= clock'
      /\ \A u \in Time : u \in Int
  BY <1>1, <1>2 DEF Time
<1>4. /\ failed' \in [Time -> Nat] /\ issued' \in [Time -> Nat]
      /\ \A u \in Time : failed'[u] <= failed[u] /\ issued'[u] <= issued[u]
      /\ \A u \in Time : clock - u < WINDOW + MaxVerify => failed'[u] = failed[u]
  BY <1>1, <1>2 DEF Recent
<1>5. TypeOK'
  BY <1>1, <1>2, <1>3, <1>4 DEF TypeOK
<1>6. PastInv'
  <2>1. \A n \in Int : n <= clock => n <= clock'
    BY <1>2, <1>3
  <2>2. \A n \in Int : n > clock' => n > clock
    BY <1>2, <1>3
  <2>3. ASSUME NEW entry \in Seq(Time), InOrder(entry)
        PROVE  \A i \in DOMAIN entry : entry[i] <= clock'
    <3>1. \A i \in DOMAIN entry : entry[i] \in Int
      BY <1>3
    <3>2. QED
      BY <2>1, <2>3, <3>1 DEF InOrder
  <2>4. InOrder(hits)' /\ InOrder(successes)'
    BY <1>1, <1>2, <2>3 DEF PastInv, InOrder
  <2>5. \A a \in Attempt : login'[a].began <= clock'
    <3>1. \A a \in Attempt : login[a].began \in Int
      BY <1>1, <1>3 DEF TypeOK
    <3>2. QED
      BY <1>1, <1>2, <2>1, <3>1 DEF PastInv
  <2>6. ASSUME NEW u \in Time, u > clock' PROVE failed'[u] = 0 /\ issued'[u] = 0
    <3>1. failed[u] = 0 /\ issued[u] = 0
      BY <1>1, <1>3, <2>2, <2>6 DEF PastInv
    <3>2. QED
      BY <1>1, <1>2, <3>1 DEF Recent
  <2>7. QED
    BY <2>4, <2>5, <2>6 DEF PastInv
<1>7. ASSUME NEW t \in Time
      PROVE  /\ t \in Int
             /\ Pending(t)' = Pending(t) /\ Early(t)' = Early(t)
             /\ Held(hits, t)' = Held(hits, t) /\ Held(successes, t)' = Held(successes, t)
             /\ InWindow(issued, t)' = InWindow(issued', t)
             /\ InWindow(issued', t) \in Nat /\ InWindow(issued', t) <= InWindow(issued, t)
             /\ InWindow(issued, t) \in Nat
             /\ Owed(t)' = InWindow(failed', t) + Cardinality(Pending(t))
             /\ InWindow(failed', t) \in Nat /\ InWindow(failed', t) <= InWindow(failed, t)
             /\ Owed(t) = InWindow(failed, t) + Cardinality(Pending(t))
             /\ InWindow(failed, t) \in Nat /\ Cardinality(Pending(t)) \in Nat
  <2>1. t \in Int
    BY DEF Time
  <2>2. Pending(t)' = Pending(t) /\ Early(t)' = Early(t)
    BY <1>2 DEF Pending, Early, InFlight, WindowOf
  <2>3. /\ Held(hits, t)' = Held(hits, t) /\ Held(successes, t)' = Held(successes, t)
        /\ InWindow(issued, t)' = InWindow(issued', t)
        /\ Owed(t)' = InWindow(failed', t) + Cardinality(Pending(t))
    BY <1>2, <2>2 DEF Owed, InWindow, Counted, WindowOf, Held
  <2>4. \A u \in WindowOf(t) : u \in Time
    BY DEF WindowOf
  <2>5. /\ InWindow(issued', t) <= InWindow(issued, t)
        /\ InWindow(failed', t) <= InWindow(failed, t)
    BY <1>1, <1>4, <2>1, <2>4, CountedMore
  <2>6. /\ InWindow(issued', t) \in Nat /\ InWindow(issued, t) \in Nat
        /\ InWindow(failed', t) \in Nat /\ InWindow(failed, t) \in Nat
    BY <1>1, <1>4, <2>1, CountedFinite
  <2>7. QED
    BY <2>1, <2>2, <2>3, <2>5, <2>6, FlightFinite DEF Owed
<1>8. ASSUME NEW t \in Time, t >= clock' PROVE OpenAt(t)'
  <2>1. t \in Int /\ t >= clock
    BY <1>2, <1>3, <1>7, <1>8
  <2>2. OpenAt(t)
    BY <1>1, <2>1 DEF OpenInv, OpenAt
  <2>3. InWindow(failed', t) = InWindow(failed, t)
    <3>1. \A u \in WindowOf(t) : u \in Time /\ clock - u < WINDOW + MaxVerify
      BY <1>2, <1>3, <1>8, <2>1 DEF WindowOf
    <3>2. \A u \in WindowOf(t) : failed'[u] = failed[u]
      BY <1>4, <3>1
    <3>3. QED
      BY <1>1, <1>4, <2>1, <3>2, CountedSame
  <2>4. Owed(t)' = Owed(t)
    BY <1>7, <2>3
  <2>5. InWindow(issued', t) <= Cardinality(Held(successes, t))
    <3>1. Cardinality(Held(successes, t)) \in Nat
      BY <1>1, HeldFinite
    <3>2. InWindow(issued, t) <= Cardinality(Held(successes, t))
      BY <2>2 DEF OpenAt
    <3>3. QED
      BY <1>7, <3>1, <3>2
  <2>6. QED
    BY <1>2, <1>7, <2>2, <2>4, <2>5 DEF OpenAt
<1>9. ASSUME NEW t \in Time, t < clock' PROVE ClosedAt(t)'
  <2>1. ClosedAt(t)
    <3>1. t < clock \/ t >= clock
      BY <1>3
    <3>2. CASE t < clock
      BY <1>1, <3>2 DEF ClosedInv, ClosedAt
    <3>3. CASE t >= clock
      <4>1. OpenAt(t)
        BY <1>1, <3>3 DEF OpenInv, OpenAt
      <4>2. QED
        BY <1>1, <4>1, OpenBounds
    <3>4. QED
      BY <3>1, <3>2, <3>3
  <2> DEFINE owed == Owed(t)
             owed2 == Owed(t)'
             all == Cardinality(Attempt)
             through == InWindow(issued, t)
             through2 == InWindow(issued', t)
  <2>2. /\ owed2 <= owed /\ owed2 \in Int /\ owed \in Int /\ all \in Nat
        /\ through2 <= through /\ through2 \in Int /\ through \in Int
        /\ LIMIT \in Int /\ SUCCESS_LIMIT \in Int
    BY <1>7, FlightFinite
  <2>3. /\ through <= SUCCESS_LIMIT
        /\ swapped \/ owed <= LIMIT
        /\ owed < LIMIT + all
    BY <2>1 DEF ClosedAt
  <2> HIDE DEF owed, owed2, all, through, through2
  <2>4. /\ through2 <= SUCCESS_LIMIT
        /\ owed <= LIMIT => owed2 <= LIMIT
        /\ owed2 < LIMIT + all
    BY <2>2, <2>3
  <2>5. QED
    BY <1>2, <1>7, <2>3, <2>4 DEF ClosedAt, owed2, all, through2
<1>10. OpenInv' /\ ClosedInv'
  <2>1. OpenInv'
    BY <1>8 DEF OpenInv, OpenAt
  <2>2. ClosedInv'
    BY <1>9 DEF ClosedInv, ClosedAt
  <2>3. QED
    BY <2>1, <2>2
<1>11. QED
  BY <1>5, <1>6, <1>10 DEF LimiterInv

-----------------------------------------------------------------------------
LEMMA LimiterInit ==
    ASSUME Init
    PROVE  LimiterInv
<1>1. 0 \in Time /\ clock = 0 /\ hits = <<>> /\ successes = <<>> /\ swapped = FALSE
  BY DEF Init, Time
<1>2. /\ \A a \in Attempt : login[a].pc = "idle" /\ login[a].began = 0
      /\ login \in [Attempt -> [pc : {"idle", "verify", "verified"}, began : Time]]
      /\ failed \in [Time -> Nat] /\ issued \in [Time -> Nat]
      /\ \A u \in Time : failed[u] = 0 /\ issued[u] = 0
  BY <1>1 DEF Init, Idle
<1>3. TypeOK
  <2>1. <<>> \in Seq(Time) /\ Len(<<>>) = 0 /\ 0 <= LIMIT /\ 0 <= SUCCESS_LIMIT
    OBVIOUS
  <2>2. QED
    BY <1>1, <1>2, <2>1 DEF TypeOK
<1>4. PastInv
  <2>1. DOMAIN <<>> = {} /\ 0 <= 0
    OBVIOUS
  <2>2. QED
    BY <1>1, <1>2, <2>1 DEF PastInv, InOrder
<1>5. ASSUME NEW t \in Time PROVE OpenAt(t)
  <2>1. \A u \in WindowOf(t) : u \in Time
    BY DEF WindowOf
  <2>2. t \in Int
    BY DEF Time
  <2>3. InWindow(failed, t) = 0 /\ InWindow(issued, t) = 0
    BY <1>2, <2>1, <2>2, CountedNone
  <2>4. Pending(t) = {}
    BY <1>2 DEF Pending, InFlight
  <2>5. Owed(t) = 0
    BY <2>3, <2>4, FS_EmptySet DEF Owed
  <2>6. Held(hits, t) = {} /\ Held(successes, t) = {}
    BY <1>1 DEF Held
  <2>7. QED
    BY <2>3, <2>5, <2>6, FS_EmptySet DEF OpenAt
<1>6. OpenInv
  BY <1>5 DEF OpenInv, OpenAt
<1>7. ClosedInv
  <2>1. \A t \in Time : ~(t < clock)
    BY <1>1 DEF Time
  <2>2. QED
    BY <2>1 DEF ClosedInv
<1>8. QED
  BY <1>3, <1>4, <1>6, <1>7 DEF LimiterInv

LEMMA LimiterStep ==
    ASSUME LimiterInv, [Next]_vars
    PROVE  LimiterInv'
<1>1. CASE Tick
  BY <1>1, TickStep
<1>2. ASSUME NEW a \in Attempt, Step(a) PROVE LimiterInv'
  BY <1>2, ReserveStep, RefuseStep, FailStep, RefundStep, AdmitStep, ThrottleStep DEF Step
<1>3. CASE UNCHANGED vars
  <2>1. /\ clock' = clock /\ hits' = hits /\ successes' = successes /\ login' = login
        /\ failed' = failed /\ issued' = issued /\ swapped' = swapped
    BY <1>3 DEF vars
  <2>2. ASSUME NEW t \in Time PROVE Moves(t)
    <3>1. /\ InWindow(issued, t)' = InWindow(issued, t) /\ Owed(t)' = Owed(t)
          /\ Held(hits, t)' = Held(hits, t) /\ Held(successes, t)' = Held(successes, t)
          /\ Early(t)' = Early(t)
      BY <2>1 DEF InWindow, Counted, WindowOf, Owed, Held, Pending, Early, InFlight
    <3>2. QED
      BY <2>1, <3>1 DEF Moves, OpenAt, ClosedAt
  <2>3. TypeOK' /\ PastInv'
    BY <2>1 DEF LimiterInv, TypeOK, PastInv, InOrder
  <2>4. QED
    BY <2>1, <2>2, <2>3, Moving DEF LimiterInv
<1>4. QED
  BY <1>1, <1>2, <1>3 DEF Next

(* ratelimit.rs under POST /login: the inductive invariant of the limiter. *)
THEOREM LimiterInductive == Spec => []LimiterInv
<1>1. Init => LimiterInv
  BY LimiterInit
<1>2. LimiterInv /\ [Next]_vars => LimiterInv'
  BY LimiterStep
<1>3. QED
  BY <1>1, <1>2, PTL DEF Spec

(* Every window, open or closed.                                           *)
LEMMA EveryWindow ==
    ASSUME LimiterInv, NEW t \in Time
    PROVE  ClosedAt(t) /\ Owed(t) \in Nat /\ InWindow(failed, t) \in Nat
           /\ InWindow(failed, t) <= Owed(t)
<1>1. TypeOK /\ OpenInv /\ ClosedInv /\ clock \in Int /\ t \in Int
  BY DEF LimiterInv, TypeOK, Time
<1>2. CASE t >= clock
  <2>1. OpenAt(t)
    BY <1>1, <1>2 DEF OpenInv, OpenAt
  <2>2. QED
    BY <1>1, <2>1, OpenBounds, OwedType, FlightFinite
<1>3. CASE t < clock
  <2>1. ClosedAt(t)
    BY <1>1, <1>3 DEF ClosedInv, ClosedAt
  <2>2. QED
    BY <1>1, <2>1, OwedType, FlightFinite
<1>4. QED
  BY <1>1, <1>2, <1>3

(* Type correctness; the entries never exceed their limits.                *)
THEOREM LimiterTypeCorrect == Spec => []TypeOK
<1>1. LimiterInv => TypeOK
  BY DEF LimiterInv
<1>2. QED
  BY <1>1, LimiterInductive, PTL

(* check() alone: no window of any length, wherever it ends, lets through  *)
(* more than the limit.                                                    *)
THEOREM LimiterSuccesses == Spec => []SuccessesBounded
<1>1. LimiterInv => SuccessesBounded
  BY EveryWindow DEF ClosedAt, SuccessesBounded
<1>2. QED
  BY <1>1, LimiterInductive, PTL

(* check() and refund(): the limit on failures is exact unless a refund    *)
(* removed another login's time.                                           *)
THEOREM LimiterFailures == Spec => []FailuresBoundedUnlessSwapped
<1>1. ASSUME LimiterInv, ~swapped, NEW t \in Time PROVE InWindow(failed, t) <= LIMIT
  <2>1. Owed(t) <= LIMIT /\ Owed(t) \in Nat /\ InWindow(failed, t) \in Nat
        /\ InWindow(failed, t) <= Owed(t)
    BY <1>1, EveryWindow DEF ClosedAt
  <2>2. QED
    BY <2>1
<1>2. LimiterInv => FailuresBoundedUnlessSwapped
  BY <1>1 DEF FailuresBoundedUnlessSwapped, FailuresBounded
<1>3. QED
  BY <1>2, LimiterInductive, PTL

(* However refunds swap times: failures over the limit are fewer than the  *)
(* logins of the address that can run at once.                             *)
THEOREM LimiterOverlap == Spec => []FailuresBoundedByOverlap
<1>1. ASSUME LimiterInv, NEW t \in Time
      PROVE  InWindow(failed, t) < LIMIT + Cardinality(Attempt)
  <2>1. Owed(t) < LIMIT + Cardinality(Attempt) /\ Owed(t) \in Nat
        /\ InWindow(failed, t) \in Nat /\ InWindow(failed, t) <= Owed(t)
        /\ Cardinality(Attempt) \in Nat
    BY <1>1, EveryWindow, FlightFinite DEF ClosedAt
  <2>2. QED
    BY <2>1
<1>2. LimiterInv => FailuresBoundedByOverlap
  BY <1>1 DEF FailuresBoundedByOverlap
<1>3. QED
  BY <1>2, LimiterInductive, PTL

(* A refused login is owed to failures of the last window and to logins    *)
(* still being verified, never to successful ones.                         *)
THEOREM LimiterRefusals == Spec => []RefusalJustified
<1>1. ASSUME LimiterInv, Full(hits, LIMIT)
      PROVE  InWindow(failed, clock) + Cardinality(InFlight) >= LIMIT
  <2>1. TypeOK /\ OpenInv /\ clock \in Time /\ clock \in Int /\ hits \in Seq(Time)
    BY <1>1 DEF LimiterInv, TypeOK, Time
  <2>2. LIMIT <= Cardinality(Held(hits, clock)) /\ Cardinality(Held(hits, clock)) \in Nat
    BY <1>1, <2>1, RetainKeeps, HeldFinite DEF Full
  <2>3. Cardinality(Held(hits, clock)) <= Owed(clock)
    <3>1. clock >= clock
      BY <2>1
    <3>2. QED
      BY <2>1, <3>1 DEF OpenInv
  <2>4. /\ Owed(clock) = InWindow(failed, clock) + Cardinality(Pending(clock))
        /\ InWindow(failed, clock) \in Nat /\ Cardinality(Pending(clock)) \in Nat
        /\ Cardinality(Pending(clock)) <= Cardinality(InFlight)
        /\ Cardinality(InFlight) \in Nat
    BY <2>1, OwedType, FlightFinite
  <2>5. QED
    BY <2>2, <2>3, <2>4
<1>2. LimiterInv => RefusalJustified
  BY <1>1 DEF RefusalJustified
<1>3. QED
  BY <1>2, LimiterInductive, PTL

=============================================================================
