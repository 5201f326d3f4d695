-------------------------- MODULE ProvisionTheorems --------------------------
(***************************************************************************)
(* Proofs about VersionRules and Provision.  The first part takes the two  *)
(* folds of VersionRules apart, for lists of any length: FoldExists says   *)
(* that the function a fold iterates exists, UpToBound is the induction    *)
(* along the list.  The second part is the inductive invariant of Play.    *)
(***************************************************************************)
EXTENDS Provision, SetFacts

(* merge as a loop over the libraries of both files: what is collected     *)
(* after each of them.                                                     *)
LEMMA MergeSteps ==
    ASSUME NEW S, NEW libs \in Seq(S)
    PROVE  \E m \in [0..Len(libs) -> Seq(S)] :
              /\ m[0] = <<>>
              /\ \A k \in 1..Len(libs) : m[k] = AddLibrary(m[k - 1], libs[k])
              /\ FoldLeft(AddLibrary, <<>>, libs) = m[Len(libs)]
<1> DEFINE n == Len(libs)
           Fold(f) == f = [s \in SUBSET (1..n) |->
                             IF s = {} THEN <<>>
                             ELSE AddLibrary(f[s \ {Max(s)}], libs[Max(s)])]
           f == CHOOSE f : Fold(f)
<1>1. n \in Nat /\ DOMAIN libs = 1..n /\ \A k \in 1..n : libs[k] \in S
  OBVIOUS
<1>2. \A x \in Seq(S), lib \in S : AddLibrary(x, lib) \in Seq(S)
  BY DEF AddLibrary
<1>3. \E g : Fold(g)
  <2> DEFINE steps == [i \in 1..n |-> [x \in Seq(S) |-> AddLibrary(x, libs[i])]]
  <2>1. steps \in [1..n -> [Seq(S) -> Seq(S)]] /\ <<>> \in Seq(S)
    BY <1>1, <1>2
  <2>2. PICK g \in [SUBSET (1..n) -> Seq(S)] : Folds(g, n, <<>>, steps)
    <3>1. n \in Nat
      BY <1>1
    <3> HIDE DEF steps, n
    <3>2. QED
      BY <2>1, <3>1, FoldExists
  <2>3. ASSUME NEW s \in SUBSET (1..n)
        PROVE  g[s] = IF s = {} THEN <<>>
                      ELSE AddLibrary(g[s \ {Max(s)}], libs[Max(s)])
    <3>1. CASE s # {}
      <4>1. Max(s) \in 1..n /\ s \ {Max(s)} \in SUBSET (1..n)
        <5>1. s \subseteq Nat /\ \A x \in s : x <= n
          BY <1>1
        <5>2. QED
          BY <1>1, <3>1, <5>1, MaxOfBounded
      <4>2. QED
        BY <2>2, <3>1, <4>1 DEF Folds
    <3>2. QED
      BY <2>2, <3>1 DEF Folds
  <2>4. Fold(g)
    <3>1. g = [s \in SUBSET (1..n) |-> g[s]]
      BY <2>2
    <3>2. QED
      BY <2>3, <3>1, Zenon
  <2>5. QED
    <3> HIDE DEF Fold
    <3>1. QED
      BY <2>4
<1>4. Fold(f)
  <2> HIDE DEF Fold
  <2>1. QED
    BY <1>3
<1>5. FoldLeft(AddLibrary, <<>>, libs) = f[1..n]
  BY <1>1 DEF FoldLeft, MapThenFoldSet
<1> HIDE DEF f
<1> DEFINE m == [k \in 0..n |-> f[1..k]]
<1>6. f[{}] = <<>>
  BY <1>4
<1>7. ASSUME NEW k \in 1..n PROVE m[k] = AddLibrary(m[k - 1], libs[k])
  <2>1. n \in Nat
    BY <1>1
  <2> HIDE DEF n
  <2>2. /\ k - 1 \in 0..n /\ k \in 0..n /\ 1..k # {} /\ 1..k \in SUBSET (1..n)
        /\ Max(1..k) = k /\ (1..k) \ {k} = 1..(k - 1)
    BY <2>1, FirstIndices
  <2>3. f[1..k] = AddLibrary(f[(1..k) \ {k}], libs[k])
    BY <1>4, <2>2
  <2>4. QED
    BY <2>2, <2>3
<1>8. m[0] = <<>>
  BY <1>1, <1>6
<1>9. m \in [0..n -> Seq(S)]
  <2> DEFINE Good == {k \in 0..n : m[k] \in Seq(S)}
  <2>1. 0 \in Good
    <3>1. 0 \in 0..n /\ <<>> \in Seq(S)
      BY <1>1
    <3> HIDE DEF m
    <3>2. QED
      BY <1>8, <3>1
  <2>2. ASSUME NEW k \in 1..n, k - 1 \in Good PROVE k \in Good
    <3> HIDE DEF m
    <3>1. m[k - 1] \in Seq(S) /\ libs[k] \in S /\ k \in 0..n
      BY <1>1, <2>2
    <3>2. QED
      BY <1>2, <1>7, <3>1
  <2>3. 0..n \subseteq Good
    <3> HIDE DEF Good, n
    <3>1. QED
      BY <1>1, <2>1, <2>2, UpToBound
  <2>4. \A k \in 0..n : m[k] \in Seq(S)
    <3> HIDE DEF m, n
    <3>1. QED
      BY <2>3
  <2>5. QED
    BY <2>4
<1>10. m[n] = f[1..n]
  BY <1>1
<1>11. QED
  <2> HIDE DEF m
  <2>1. QED
    BY <1>5, <1>7, <1>8, <1>9, <1>10

(* Where a name is mentioned first.                                        *)
FirstOf(libs, x) ==
    CHOOSE i \in DOMAIN libs :
        libs[i].name = x /\ \A j \in 1..(i - 1) : libs[j].name # x

LEMMA FirstMention ==
    ASSUME NEW libs, NEW n \in Nat, DOMAIN libs = 1..n, NEW i \in 1..n,
           \A j \in 1..(i - 1) : libs[j].name # libs[i].name
    PROVE  FirstOf(libs, libs[i].name) = i
<1> DEFINE x == libs[i].name
           P(k) == libs[k].name = x /\ \A j \in 1..(k - 1) : libs[j].name # x
<1>1. i \in DOMAIN libs /\ P(i)
  OBVIOUS
<1>2. ASSUME NEW k \in DOMAIN libs, P(k) PROVE k = i
  <2>1. k \in Nat /\ i \in Nat /\ ~(k \in 1..(i - 1)) /\ ~(i \in 1..(k - 1))
    BY <1>1, <1>2
  <2>2. 1 <= k /\ 1 <= i
    OBVIOUS
  <2>3. QED
    BY <2>1, <2>2
<1>3. QED
  BY <1>1, <1>2 DEF FirstOf

(* What has been collected after k libraries: every name so far once, in   *)
(* the order and with the library of its first mention.                    *)
Collected(kept, libs, k) ==
    /\ {kept[i].name : i \in 1..Len(kept)} = {libs[i].name : i \in 1..k}
    /\ \A i \in 1..Len(kept) :
          /\ FirstOf(libs, kept[i].name) \in 1..k
          /\ kept[i] = libs[FirstOf(libs, kept[i].name)]
    /\ \A i \in 1..Len(kept) : \A j \in 1..(i - 1) :
          FirstOf(libs, kept[j].name) < FirstOf(libs, kept[i].name)

LEMMA CollectOne ==
    ASSUME NEW S, NEW libs \in Seq(S), NEW k \in 1..Len(libs),
           NEW kept \in Seq(S), Collected(kept, libs, k - 1)
    PROVE  Collected(AddLibrary(kept, libs[k]), libs, k)
<1> DEFINE lib == libs[k]
<1>1. /\ k \in Nat /\ DOMAIN kept = 1..Len(kept) /\ Len(kept) \in Nat
      /\ lib \in S /\ DOMAIN libs = 1..Len(libs) /\ Len(libs) \in Nat
      /\ \A i : i \in 1..k <=> i \in 1..(k - 1) \/ i = k
  OBVIOUS
<1>2. CASE \E i \in DOMAIN kept : kept[i].name = lib.name
  <2>1. AddLibrary(kept, lib) = kept
    BY <1>2 DEF AddLibrary
  <2>2. lib.name \in {libs[i].name : i \in 1..(k - 1)}
    BY <1>1, <1>2 DEF Collected
  <2>3. {libs[i].name : i \in 1..k} = {libs[i].name : i \in 1..(k - 1)}
    BY <1>1, <2>2
  <2>4. Collected(kept, libs, k)
    <3>1. {kept[i].name : i \in 1..Len(kept)} = {libs[i].name : i \in 1..k}
      BY <2>3 DEF Collected
    <3>2. 1..(k - 1) \subseteq 1..k
      BY <1>1
    <3>3. QED
      BY <3>1, <3>2 DEF Collected
  <2>5. QED
    BY <2>1, <2>4
<1>3. CASE ~ \E i \in DOMAIN kept : kept[i].name = lib.name
  <2> DEFINE more == Append(kept, lib)
  <2>1. /\ AddLibrary(kept, lib) = more /\ Len(more) = Len(kept) + 1
        /\ more[Len(kept) + 1] = lib
        /\ \A i \in 1..Len(kept) : more[i] = kept[i]
        /\ \A i : i \in 1..Len(more) <=> i \in 1..Len(kept) \/ i = Len(kept) + 1
    BY <1>1, <1>3 DEF AddLibrary
  <2> HIDE DEF more
  <2>2. \A j \in 1..(k - 1) : libs[j].name # lib.name
    <3>1. lib.name \notin {kept[i].name : i \in 1..Len(kept)}
      BY <1>1, <1>3
    <3>2. lib.name \notin {libs[i].name : i \in 1..(k - 1)}
      BY <3>1 DEF Collected
    <3>3. QED
      BY <3>2
  <2>3. FirstOf(libs, lib.name) = k
    BY <1>1, <2>2, FirstMention
  <2>4. {more[i].name : i \in 1..Len(more)} = {libs[i].name : i \in 1..k}
    <3>1. {more[i].name : i \in 1..Len(more)}
            = {kept[i].name : i \in 1..Len(kept)} \cup {lib.name}
      BY <2>1
    <3>2. {libs[i].name : i \in 1..k}
            = {libs[i].name : i \in 1..(k - 1)} \cup {lib.name}
      BY <1>1
    <3>3. QED
      BY <3>1, <3>2 DEF Collected
  <2>5. ASSUME NEW i \in 1..Len(more)
        PROVE  /\ FirstOf(libs, more[i].name) \in 1..k
               /\ more[i] = libs[FirstOf(libs, more[i].name)]
    <3>1. CASE i \in 1..Len(kept)
      BY <1>1, <2>1, <3>1 DEF Collected
    <3>2. CASE i = Len(kept) + 1
      BY <1>1, <2>1, <2>3, <3>2
    <3>3. QED
      BY <2>1, <3>1, <3>2
  <2>6. ASSUME NEW i \in 1..Len(more), NEW j \in 1..(i - 1)
        PROVE  FirstOf(libs, more[j].name) < FirstOf(libs, more[i].name)
    <3>1. j \in 1..Len(kept)
      BY <1>1, <2>1
    <3>2. CASE i \in 1..Len(kept)
      BY <2>1, <3>1, <3>2 DEF Collected
    <3>3. CASE i = Len(kept) + 1
      <4>1. FirstOf(libs, kept[j].name) \in 1..(k - 1)
        BY <3>1 DEF Collected
      <4>2. QED
        BY <1>1, <2>1, <2>3, <3>1, <3>3, <4>1
    <3>4. QED
      BY <2>1, <3>2, <3>3
  <2>7. QED
    BY <2>1, <2>4, <2>5, <2>6 DEF Collected
<1>4. QED
  BY <1>2, <1>3

LEMMA MergeCollects ==
    ASSUME NEW S, NEW child \in Seq(S), NEW parent \in Seq(S)
    PROVE  /\ Merge(child, parent) \in Seq(S)
           /\ Collected(Merge(child, parent), child \o parent,
                        Len(child \o parent))
<1> DEFINE libs == child \o parent
           n    == Len(libs)
<1>1. libs \in Seq(S) /\ n \in Nat
  OBVIOUS
<1>2. PICK m \in [0..n -> Seq(S)] :
         /\ m[0] = <<>>
         /\ \A k \in 1..n : m[k] = AddLibrary(m[k - 1], libs[k])
         /\ FoldLeft(AddLibrary, <<>>, libs) = m[n]
  <2> HIDE DEF libs
  <2>1. QED
    BY <1>1, MergeSteps
<1> HIDE DEF libs
<1> DEFINE Good == {k \in 0..n : Collected(m[k], libs, k)}
<1>3. 0 \in Good
  <2>1. Collected(<<>>, libs, 0)
    BY DEF Collected
  <2>2. 0 \in 0..n
    BY <1>1
  <2>3. QED
    BY <1>2, <2>1, <2>2
<1>4. ASSUME NEW k \in 1..n, k - 1 \in Good PROVE k \in Good
  <2>1. m[k - 1] \in Seq(S) /\ k \in 0..n /\ Collected(m[k - 1], libs, k - 1)
    BY <1>1, <1>2, <1>4
  <2>2. Collected(AddLibrary(m[k - 1], libs[k]), libs, k)
    BY <1>1, <2>1, CollectOne
  <2>3. QED
    BY <1>2, <2>1, <2>2
<1>5. 0..n \subseteq Good
  <2> HIDE DEF Good, n
  <2>1. QED
    BY <1>1, <1>3, <1>4, UpToBound
<1>6. n \in 0..n /\ Merge(child, parent) = m[n]
  BY <1>1, <1>2 DEF Merge, libs
<1>7. QED
  <2>1. n \in Good /\ m[n] \in Seq(S)
    BY <1>2, <1>5, <1>6
  <2>2. Collected(m[n], libs, n)
    BY <2>1
  <2>3. QED
    BY <1>6, <2>1, <2>2 DEF libs

LEMMA BoundedSeqIsSeq ==
    ASSUME NEW S, NEW n \in Nat, NEW x \in BoundedSeq(S, n)
    PROVE  x \in Seq(S)
<1>1. ASSUME NEW m \in 0..n, x \in [1..m -> S] PROVE x \in Seq(S)
  <2>1. m \in Nat
    OBVIOUS
  <2>2. QED
    BY <1>1, <2>1
<1>2. QED
  BY <1>1 DEF BoundedSeq, SeqOf

(* merge, for lists of any length.                                         *)
THEOREM MergeKeepsFirst == \A lib : \A n \in Nat : MergeShadowsOn(lib, n)
<1> SUFFICES ASSUME NEW lib, NEW n \in Nat,
                    NEW child \in BoundedSeq(lib, n),
                    NEW parent \in BoundedSeq(lib, n)
             PROVE  LET all      == child \o parent
                        merged   == Merge(child, parent)
                        First(x) == CHOOSE i \in DOMAIN all :
                                      /\ all[i].name = x
                                      /\ \A j \in 1..(i - 1) : all[j].name # x
                    IN  /\ {l.name : l \in Range(merged)} = {l.name : l \in Range(all)}
                        /\ \A i \in DOMAIN merged :
                              /\ merged[i] = all[First(merged[i].name)]
                              /\ \A j \in 1..(i - 1) :
                                    First(merged[j].name) < First(merged[i].name)
  BY DEF MergeShadowsOn
<1> DEFINE all    == child \o parent
           merged == Merge(child, parent)
<1>1. child \in Seq(lib) /\ parent \in Seq(lib)
  BY BoundedSeqIsSeq
<1>2. merged \in Seq(lib) /\ all \in Seq(lib) /\ Collected(merged, all, Len(all))
  BY <1>1, MergeCollects
<1>3. DOMAIN merged = 1..Len(merged) /\ DOMAIN all = 1..Len(all)
  BY <1>2
<1> HIDE DEF all, merged
<1>4. {l.name : l \in Range(merged)} = {l.name : l \in Range(all)}
  <2>1. {l.name : l \in Range(merged)} = {merged[i].name : i \in 1..Len(merged)}
    BY <1>3 DEF Range
  <2>2. {l.name : l \in Range(all)} = {all[i].name : i \in 1..Len(all)}
    BY <1>3 DEF Range
  <2>3. QED
    BY <1>2, <2>1, <2>2 DEF Collected
<1>5. \A i \in DOMAIN merged :
         /\ merged[i] = all[FirstOf(all, merged[i].name)]
         /\ \A j \in 1..(i - 1) :
               FirstOf(all, merged[j].name) < FirstOf(all, merged[i].name)
  BY <1>2, <1>3 DEF Collected
<1>6. QED
  BY <1>4, <1>5 DEF all, merged, FirstOf

(* rule_allows as a loop: what is decided after each rule.                 *)
Decide(allowed, rule) ==
    IF Applies(rule) THEN rule.action = "allow" ELSE allowed

LEMMA RuleSteps ==
    ASSUME NEW S, NEW rules \in Seq(S)
    PROVE  \E m \in [0..Len(rules) -> BOOLEAN] :
              /\ m[0] = FALSE
              /\ \A k \in 1..Len(rules) : m[k] = Decide(m[k - 1], rules[k])
              /\ FoldLeft(LAMBDA allowed, rule :
                              IF Applies(rule) THEN rule.action = "allow" ELSE allowed,
                          FALSE, rules) = m[Len(rules)]
<1> DEFINE n == Len(rules)
           Fold(f) == f = [s \in SUBSET (1..n) |->
                             IF s = {} THEN FALSE
                             ELSE Decide(f[s \ {Max(s)}], rules[Max(s)])]
           f == CHOOSE f : Fold(f)
<1>1. n \in Nat /\ DOMAIN rules = 1..n /\ \A k \in 1..n : rules[k] \in S
  OBVIOUS
<1>2. \A x \in BOOLEAN, rule \in S : Decide(x, rule) \in BOOLEAN
  BY DEF Decide
<1>3. \E g : Fold(g)
  <2> DEFINE steps == [i \in 1..n |-> [x \in BOOLEAN |-> Decide(x, rules[i])]]
  <2>1. steps \in [1..n -> [BOOLEAN -> BOOLEAN]] /\ FALSE \in BOOLEAN
    BY <1>1, <1>2
  <2>2. PICK g \in [SUBSET (1..n) -> BOOLEAN] : Folds(g, n, FALSE, steps)
    <3>1. n \in Nat
      BY <1>1
    <3> HIDE DEF steps, n
    <3>2. QED
      BY <2>1, <3>1, FoldExists
  <2>3. ASSUME NEW s \in SUBSET (1..n)
        PROVE  g[s] = IF s = {} THEN FALSE
                      ELSE Decide(g[s \ {Max(s)}], rules[Max(s)])
    <3>1. CASE s # {}
      <4>1. Max(s) \in 1..n /\ s \ {Max(s)} \in SUBSET (1..n)
        <5>1. s \subseteq Nat /\ \A x \in s : x <= n
          BY <1>1
        <5>2. QED
          BY <1>1, <3>1, <5>1, MaxOfBounded
      <4>2. QED
        BY <2>2, <3>1, <4>1 DEF Folds
    <3>2. QED
      BY <2>2, <3>1 DEF Folds
  <2>4. Fold(g)
    <3>1. g = [s \in SUBSET (1..n) |-> g[s]]
      BY <2>2
    <3>2. QED
      BY <2>3, <3>1, Zenon
  <2>5. QED
    <3> HIDE DEF Fold
    <3>1. QED
      BY <2>4
<1>4. Fold(f)
  <2> HIDE DEF Fold
  <2>1. QED
    BY <1>3
<1>5. FoldLeft(LAMBDA allowed, rule :
                              IF Applies(rule) THEN rule.action = "allow" ELSE allowed,
                          FALSE, rules) = f[1..n]
  BY <1>1, Zenon DEF FoldLeft, MapThenFoldSet, Decide
<1> HIDE DEF f
<1> DEFINE m == [k \in 0..n |-> f[1..k]]
<1>6. f[{}] = FALSE
  BY <1>4
<1>7. ASSUME NEW k \in 1..n PROVE m[k] = Decide(m[k - 1], rules[k])
  <2>1. n \in Nat
    BY <1>1
  <2> HIDE DEF n
  <2>2. /\ k - 1 \in 0..n /\ k \in 0..n /\ 1..k # {} /\ 1..k \in SUBSET (1..n)
        /\ Max(1..k) = k /\ (1..k) \ {k} = 1..(k - 1)
    BY <2>1, FirstIndices
  <2>3. f[1..k] = Decide(f[(1..k) \ {k}], rules[k])
    BY <1>4, <2>2
  <2>4. QED
    BY <2>2, <2>3
<1>8. m[0] = FALSE
  BY <1>1, <1>6
<1>9. m \in [0..n -> BOOLEAN]
  <2> DEFINE Good == {k \in 0..n : m[k] \in BOOLEAN}
  <2>1. 0 \in Good
    <3>1. 0 \in 0..n /\ FALSE \in BOOLEAN
      BY <1>1
    <3> HIDE DEF m
    <3>2. QED
      BY <1>8, <3>1
  <2>2. ASSUME NEW k \in 1..n, k - 1 \in Good PROVE k \in Good
    <3> HIDE DEF m
    <3>1. m[k - 1] \in BOOLEAN /\ rules[k] \in S /\ k \in 0..n
      BY <1>1, <2>2
    <3>2. QED
      BY <1>2, <1>7, <3>1
  <2>3. 0..n \subseteq Good
    <3> HIDE DEF Good, n
    <3>1. QED
      BY <1>1, <2>1, <2>2, UpToBound
  <2>4. \A k \in 0..n : m[k] \in BOOLEAN
    <3> HIDE DEF m, n
    <3>1. QED
      BY <2>3
  <2>5. QED
    BY <2>4
<1>10. m[n] = f[1..n]
  BY <1>1
<1>11. QED
  <2> HIDE DEF m
  <2>1. QED
    BY <1>5, <1>7, <1>8, <1>9, <1>10

(* The last of the first k rules that applies allows.                      *)
Decided(rules, k) ==
    \E i \in 1..k :
        /\ Applies(rules[i]) /\ rules[i].action = "allow"
        /\ \A j \in 1..k : Applies(rules[j]) => j <= i

LEMMA DecideOne ==
    ASSUME NEW rules, NEW k \in Nat \ {0}
    PROVE  Decided(rules, k) <=> IF Applies(rules[k]) THEN rules[k].action = "allow"
                                 ELSE Decided(rules, k - 1)
<1>1. /\ \A i \in 1..k : i \in Nat /\ i <= k
      /\ \A i : i \in 1..k <=> i \in 1..(k - 1) \/ i = k
      /\ \A i \in 1..(k - 1) : ~(k <= i)
      /\ k \in 1..k /\ k \in Nat
  OBVIOUS
<1>2. CASE Applies(rules[k])
  <2>1. ASSUME Decided(rules, k) PROVE rules[k].action = "allow"
    <3>1. PICK i \in 1..k :
             /\ Applies(rules[i]) /\ rules[i].action = "allow"
             /\ \A j \in 1..k : Applies(rules[j]) => j <= i
      BY <2>1 DEF Decided
    <3>2. k <= i
      BY <1>1, <1>2, <3>1
    <3>3. i = k
      BY <1>1, <3>2
    <3>4. QED
      BY <3>1, <3>3
  <2>2. ASSUME rules[k].action = "allow" PROVE Decided(rules, k)
    BY <1>1, <1>2, <2>2 DEF Decided
  <2>3. QED
    BY <1>2, <2>1, <2>2
<1>3. CASE ~Applies(rules[k])
  <2>1. Decided(rules, k) <=> Decided(rules, k - 1)
    BY <1>1, <1>3 DEF Decided
  <2>2. QED
    BY <1>3, <2>1
<1>4. QED
  BY <1>2, <1>3

(* rule_allows, for lists of any length: the last rule that applies        *)
(* decides, and a library without rules is allowed (mojang.rs:192).        *)
THEOREM LastRuleDecides == \A rule : \A n \in Nat : RulesAgreeOn(rule, n)
<1> SUFFICES ASSUME NEW rule, NEW n \in Nat, NEW rules \in BoundedSeq(rule, n)
             PROVE  RuleAllows(rules) <=>
                      \/ rules = <<>>
                      \/ \E i \in DOMAIN rules :
                            /\ Applies(rules[i]) /\ rules[i].action = "allow"
                            /\ \A j \in DOMAIN rules : Applies(rules[j]) => j <= i
  BY DEF RulesAgreeOn
<1> DEFINE len == Len(rules)
<1>1. rules \in Seq(rule) /\ len \in Nat /\ DOMAIN rules = 1..len
  <2>1. rules \in Seq(rule)
    BY BoundedSeqIsSeq
  <2>2. QED
    BY <2>1
<1>2. PICK m \in [0..len -> BOOLEAN] :
         /\ m[0] = FALSE
         /\ \A k \in 1..len : m[k] = Decide(m[k - 1], rules[k])
         /\ FoldLeft(LAMBDA allowed, r :
                         IF Applies(r) THEN r.action = "allow" ELSE allowed,
                     FALSE, rules) = m[len]
  BY <1>1, RuleSteps, Zenon
<1> HIDE DEF len
<1> DEFINE Good == {k \in 0..len : m[k] <=> Decided(rules, k)}
<1>3. 0 \in Good
  <2>1. ~Decided(rules, 0) /\ 0 \in 0..len
    BY <1>1 DEF Decided
  <2>2. m[0] <=> Decided(rules, 0)
    BY <1>2, <2>1, Zenon
  <2>3. QED
    BY <2>1, <2>2, Zenon
<1>4. ASSUME NEW k \in 1..len, k - 1 \in Good PROVE k \in Good
  <2>1. k \in 0..len /\ k \in Nat \ {0}
    BY <1>1
  <2>2. m[k - 1] <=> Decided(rules, k - 1)
    BY <1>4
  <2>3. m[k] <=> IF Applies(rules[k]) THEN rules[k].action = "allow" ELSE m[k - 1]
    BY <1>2, Zenon DEF Decide
  <2>4. m[k] <=> Decided(rules, k)
    BY <2>1, <2>2, <2>3, DecideOne, Zenon
  <2>5. QED
    BY <2>1, <2>4, Zenon
<1>5. m[len] <=> Decided(rules, len)
  <2>1. 0..len \subseteq Good
    <3> HIDE DEF Good
    <3>1. QED
      BY <1>1, <1>3, <1>4, UpToBound
  <2>2. len \in Good
    BY <1>1, <2>1
  <2>3. QED
    BY <2>2
<1>6. RuleAllows(rules) <=> rules = <<>> \/ m[len]
  BY <1>2, Zenon DEF RuleAllows
<1>7. QED
  BY <1>1, <1>5, <1>6 DEF Decided

-----------------------------------------------------------------------------
(* What the constants say of the files.                                     *)
LEMMA FileFacts ==
    /\ {Client, Asset, Json} \cup Batch \cup Forge \subseteq Files
    /\ Vanilla = {Client, Asset} \cup Batch
    /\ Json \notin Vanilla \cup Forge /\ None \notin Forge \cup {Json}
    /\ OpenAL \in Unpacked /\ Own \subseteq Forge \ Vanilla
    /\ Files \cap Unpacked = {} /\ Batch \subseteq Files
    /\ Java # Cache /\ Java \notin Files \cup Unpacked
    /\ Cache \notin Files \cup Unpacked
    /\ Things = Files \cup Unpacked \cup {Java, Cache}
    /\ MaxTrouble \in Nat
  BY ProvisionAssumption DEF Files, Vanilla, Forge, Jars, Things

(* The natives of the merged libraries are among those Play downloads.      *)
LEMMA NativesDownloaded == Natives(Merged) \subseteq Batch
<1> DEFINE S == Range(Child) \cup Range(Parent)
<1>1. Child \in Seq(S) /\ Parent \in Seq(S)
  <2>1. \A libs \in {Child, Parent} : libs \in Seq(Range(libs))
    BY ProvisionAssumption
  <2>2. ASSUME NEW T, NEW libs \in Seq(T), T \subseteq S PROVE libs \in Seq(S)
    BY <2>2
  <2> HIDE DEF S
  <2>3. Range(Child) \subseteq S /\ Range(Parent) \subseteq S
    BY DEF S
  <2>4. QED
    BY <2>1, <2>2, <2>3
<1>2. Merged \in Seq(S)
  <2> HIDE DEF S
  <2>1. QED
    BY <1>1, MergeCollects DEF Merged
<1>3. Range(Merged) \subseteq S
  <2> HIDE DEF S
  <2>1. \A i \in DOMAIN Merged : Merged[i] \in S
    BY <1>2
  <2>2. QED
    BY <2>1 DEF Range
<1>4. Natives(Merged) \subseteq Natives(Child) \cup Natives(Parent)
  BY <1>3 DEF Natives, Allowed
<1>5. QED
  BY <1>4, ProvisionAssumption DEF Batch

(* A step of Play that only goes to another stage.                          *)
Moves(stage) ==
    /\ play' \in Playing /\ play'.pc = stage
    /\ play'.todo = play.todo /\ play'.failed = play.failed
    /\ play'.ran = play.ran /\ play'.soft = play.soft

LEMMA Moving ==
    ASSUME TypeOK, NEW stage \in Stages \cup {"idle", "started", "failed"},
           GoTo(stage)
    PROVE  Moves(stage)
  BY DEF TypeOK, Playing, GoTo, Moves

-----------------------------------------------------------------------------
(* One lemma per step of the launcher.                                      *)
LEMMA ClickStep == ProvisionInv /\ Click => ProvisionInv'
<1> SUFFICES ASSUME ProvisionInv, Click PROVE ProvisionInv'
  OBVIOUS
<1>1. /\ play.pc = "idle" /\ play'.pc = "java" /\ play'.soft = FALSE
      /\ play' \in Playing /\ play'.ran = FALSE /\ hurt' = {}
      /\ UNCHANGED <<disk, java, natives, openal, installers, left, trouble>>
  BY DEF Click, NoPlay, Playing, Stages
<1>2. TypeOK'
  BY <1>1 DEF ProvisionInv, TypeOK, Moves
<1>3. LeftInv'
  BY <1>1 DEF ProvisionInv, LeftInv, Moves
<1>4. VanillaInv'
  BY <1>1 DEF ProvisionInv, VanillaInv, Moves, AfterBatch, AfterForge, Stages
<1>5. ForgeInv'
  BY <1>1 DEF ProvisionInv, ForgeInv, InHands, Moves, AfterForge
<1>6. NativesInv'
  BY <1>1 DEF ProvisionInv, NativesInv, Moves
<1>7. SoftInv'
  BY <1>1 DEF ProvisionInv, SoftInv, Moves
<1>8. QED
  BY <1>2, <1>3, <1>4, <1>5, <1>6, <1>7 DEF ProvisionInv

(* A runtime that is installed where there was none.                        *)
LEMMA Installing ==
    ASSUME ProvisionInv, RuntimeInstalled
    PROVE  /\ java' \in {"bad", "headless", "good"} /\ UNCHANGED trouble
           /\ left' \subseteq left /\ hurt' \subseteq left' /\ hurt' \subseteq hurt
           /\ \A x \in Files \cup Unpacked \cup {Cache} :
                 /\ (x \in left') <=> (x \in left)
                 /\ (x \in hurt') <=> (x \in hurt)
           /\ {Client, Asset, Json, OpenAL} \cup Batch \cup Forge \cup Own
                 \subseteq Files \cup Unpacked
           /\ \/ java' = "good"
              \/ UNCHANGED <<java, left, hurt>>
  BY FileFacts DEF RuntimeInstalled, Right, ProvisionInv, TypeOK

LEMMA EnsureJavaStep == ProvisionInv /\ EnsureJava => ProvisionInv'
<1> SUFFICES ASSUME ProvisionInv, EnsureJava PROVE ProvisionInv'
  OBVIOUS
<1>1. /\ play.pc = "java" /\ UNCHANGED <<disk, natives, openal, installers>>
      /\ \/ java = "headless" /\ Moves("failed")
         \/ java # "headless" /\ Moves("client")
      /\ RuntimeInstalled
  <2>1. /\ GoTo("failed") => Moves("failed")
        /\ GoTo("client") => Moves("client")
    BY Moving DEF ProvisionInv, Stages
  <2>2. QED
    BY <2>1 DEF EnsureJava
<1>2. TypeOK'
  BY <1>1, FileFacts, Installing DEF ProvisionInv, TypeOK, Moves
<1>3. LeftInv'
  BY <1>1, FileFacts, Installing DEF ProvisionInv, LeftInv, Moves
<1>4. VanillaInv'
  BY <1>1, FileFacts, Installing DEF ProvisionInv, VanillaInv, Moves, AfterBatch, AfterForge, Stages
<1>5. ForgeInv'
  BY <1>1, FileFacts, Installing DEF ProvisionInv, ForgeInv, InHands, Moves, AfterForge
<1>6. NativesInv'
  BY <1>1, FileFacts, Installing DEF ProvisionInv, NativesInv, Moves
<1>7. SoftInv'
  BY <1>1, FileFacts, Installing DEF ProvisionInv, SoftInv, Moves
<1>8. QED
  BY <1>2, <1>3, <1>4, <1>5, <1>6, <1>7 DEF ProvisionInv

(* A file that was fetched, or was there with its hash.                     *)
LEMMA Fetching ==
    ASSUME ProvisionInv, NEW f \in {Client, Asset} \cup Batch, Fetched(f)
    PROVE  /\ disk' \in [Files -> {"absent", "bad", "good"}]
           /\ disk'[f] = "good" /\ UNCHANGED trouble
           /\ \A g \in Files : g # f => disk'[g] = disk[g]
           /\ left' = left \ {f} /\ hurt' = hurt \ {f}
           /\ f \in Files /\ f \notin Unpacked /\ f \notin Own
           /\ f \notin {Json, Java, Cache, OpenAL}
           /\ Json \in Files /\ Own \cup Forge \cup Batch \subseteq Files
           /\ Client \in Files
<1>1. f \in Files /\ f # Json /\ Json \in Files
  BY FileFacts
<1>2. disk \in [Files -> {"absent", "bad", "good"}]
  BY DEF ProvisionInv, TypeOK
<1>3. QED
  BY <1>1, <1>2, FileFacts DEF Fetched, Right

(* What Forge and the natives are is not changed by a fetch.                *)
LEMMA FetchKeeps ==
    ASSUME ProvisionInv, NEW f \in {Client, Asset} \cup Batch, Fetched(f),
           UNCHANGED <<java, natives, openal, installers>>, play' \in Playing,
           play'.soft = play.soft, play'.ran = play.ran,
           play.pc \in {"client", "libs", "assets"},
           play'.pc \in {"libs", "forge"}
    PROVE  TypeOK' /\ LeftInv' /\ ForgeInv' /\ NativesInv' /\ SoftInv'
<1>1. TypeOK'
  BY Fetching DEF ProvisionInv, TypeOK
<1>2. LeftInv'
  BY Fetching DEF ProvisionInv, LeftInv
<1>3. ForgeInv'
  BY Fetching DEF ProvisionInv, ForgeInv, InHands, AfterForge
<1>4. NativesInv'
  BY Fetching DEF ProvisionInv, NativesInv
<1>5. SoftInv'
  BY DEF SoftInv
<1>6. QED
  BY <1>1, <1>2, <1>3, <1>4, <1>5

LEMMA FetchClientStep == ProvisionInv /\ FetchClient => ProvisionInv'
<1> SUFFICES ASSUME ProvisionInv, FetchClient PROVE ProvisionInv'
  OBVIOUS
<1>1. /\ play.pc = "client" /\ play'.pc = "libs" /\ play'.todo = Batch
      /\ play' \in Playing /\ play'.soft = play.soft
      /\ play'.ran = play.ran /\ Fetched(Client)
      /\ UNCHANGED <<java, natives, openal, installers>>
  <2>1. play' = [play EXCEPT !.pc = "libs", !.todo = Batch] /\ play \in Playing
    BY DEF FetchClient, ProvisionInv, TypeOK
  <2>2. play' \in Playing /\ play'.pc = "libs" /\ play'.todo = Batch /\ play'.soft = play.soft /\ play'.ran = play.ran
    BY <2>1 DEF Playing, Stages
  <2>3. QED
    BY <2>2 DEF FetchClient
<1>2. VanillaInv'
  BY <1>1, Fetching, FileFacts DEF ProvisionInv, VanillaInv, AfterBatch, AfterForge, Stages
<1>3. QED
  BY <1>1, <1>2, FetchKeeps DEF ProvisionInv

LEMMA FetchLibraryStep ==
    ASSUME NEW f \in Batch, ProvisionInv, FetchLibrary(f)
    PROVE  ProvisionInv'
<1>1. /\ play.pc = "libs" /\ play'.pc = "libs" /\ play'.todo = play.todo \ {f}
      /\ play' \in Playing /\ play'.failed = play.failed /\ play'.soft = play.soft
      /\ play'.ran = play.ran /\ Fetched(f)
      /\ UNCHANGED <<java, natives, openal, installers>>
  <2>1. play' = [play EXCEPT !.todo = play.todo \ {f}] /\ play \in Playing
    BY DEF FetchLibrary, ProvisionInv, TypeOK
  <2>2. /\ play' \in Playing /\ play'.pc = play.pc /\ play'.todo = play.todo \ {f}
        /\ play'.failed = play.failed /\ play'.soft = play.soft
        /\ play'.ran = play.ran
    BY <2>1 DEF Playing
  <2>3. QED
    BY <2>2 DEF FetchLibrary
<1>2. VanillaInv'
  BY <1>1, Fetching, FileFacts DEF ProvisionInv, VanillaInv, AfterBatch, AfterForge, Stages
<1>3. QED
  BY <1>1, <1>2, FetchKeeps DEF ProvisionInv

LEMMA FetchFailsStep ==
    ASSUME NEW f \in Batch, ProvisionInv, FetchFails(f)
    PROVE  ProvisionInv'
<1>1. /\ play.pc = "libs" /\ play'.pc = "libs" /\ play'.failed = TRUE
      /\ play' \in Playing /\ play'.soft = play.soft /\ play'.ran = play.ran
      /\ UNCHANGED <<disk, java, natives, openal, installers, left, hurt>>
      /\ trouble' \in 0..MaxTrouble
  <2>1. /\ play' = [play EXCEPT !.todo = play.todo \ {f}, !.failed = TRUE]
        /\ play \in Playing /\ trouble \in 0..MaxTrouble
    BY DEF FetchFails, ProvisionInv, TypeOK
  <2>2. /\ play' \in Playing /\ play'.pc = play.pc /\ play'.failed = TRUE
        /\ play'.soft = play.soft /\ play'.ran = play.ran
    BY <2>1 DEF Playing
  <2>3. QED
    BY <2>1, <2>2, FileFacts DEF FetchFails
<1>2. TypeOK'
  BY <1>1 DEF ProvisionInv, TypeOK, Moves
<1>3. LeftInv'
  BY <1>1 DEF ProvisionInv, LeftInv, Moves
<1>4. VanillaInv'
  BY <1>1 DEF ProvisionInv, VanillaInv, Moves, AfterBatch, AfterForge, Stages
<1>5. ForgeInv'
  BY <1>1 DEF ProvisionInv, ForgeInv, InHands, Moves, AfterForge
<1>6. NativesInv'
  BY <1>1 DEF ProvisionInv, NativesInv, Moves
<1>7. SoftInv'
  BY <1>1 DEF ProvisionInv, SoftInv, Moves
<1>8. QED
  BY <1>2, <1>3, <1>4, <1>5, <1>6, <1>7 DEF ProvisionInv

LEMMA EndBatchStep == ProvisionInv /\ EndBatch => ProvisionInv'
<1> SUFFICES ASSUME ProvisionInv, EndBatch PROVE ProvisionInv'
  OBVIOUS
<1>1. /\ play.pc = "libs" /\ play.todo = {}
      /\ UNCHANGED <<disk, java, natives, openal, installers, left, hurt, trouble>>
      /\ \/ play.failed /\ Moves("failed")
         \/ ~play.failed /\ Moves("assets")
  <2>1. /\ GoTo("failed") => Moves("failed")
        /\ GoTo("assets") => Moves("assets")
    BY Moving DEF ProvisionInv, Stages
  <2>2. QED
    BY <2>1 DEF EndBatch, Kept, ProvisionInv, TypeOK, Playing
<1>2. TypeOK'
  BY <1>1 DEF ProvisionInv, TypeOK, Moves
<1>3. LeftInv'
  BY <1>1 DEF ProvisionInv, LeftInv, Moves
<1>4. VanillaInv'
  BY <1>1 DEF ProvisionInv, VanillaInv, Moves, AfterBatch, AfterForge, Stages
<1>5. ForgeInv'
  BY <1>1 DEF ProvisionInv, ForgeInv, InHands, Moves, AfterForge
<1>6. NativesInv'
  BY <1>1 DEF ProvisionInv, NativesInv, Moves
<1>7. SoftInv'
  BY <1>1 DEF ProvisionInv, SoftInv, Moves
<1>8. QED
  BY <1>2, <1>3, <1>4, <1>5, <1>6, <1>7 DEF ProvisionInv

LEMMA FetchAssetsStep == ProvisionInv /\ FetchAssets => ProvisionInv'
<1> SUFFICES ASSUME ProvisionInv, FetchAssets PROVE ProvisionInv'
  OBVIOUS
<1>1. /\ play.pc = "assets" /\ Moves("forge") /\ Fetched(Asset)
      /\ UNCHANGED <<java, natives, openal, installers>>
  BY Moving DEF FetchAssets, ProvisionInv, Stages
<1>2. VanillaInv'
  BY <1>1, Fetching, FileFacts
     DEF ProvisionInv, VanillaInv, AfterBatch, AfterForge, Moves, Stages
<1>3. QED
  BY <1>1, <1>2, FetchKeeps DEF ProvisionInv, Moves

LEMMA ForgePresentStep == ProvisionInv /\ ForgePresent => ProvisionInv'
<1> SUFFICES ASSUME ProvisionInv, ForgePresent PROVE ProvisionInv'
  OBVIOUS
<1>1. /\ play.pc = "forge"
      /\ UNCHANGED <<disk, java, natives, openal, installers, left, hurt, trouble>>
      /\ \/ disk[Json] = "good" /\ ~play.ran /\ Moves("openal")
         \/ Moves("install")
  <2>1. /\ GoTo("openal") => Moves("openal")
        /\ GoTo("install") => Moves("install")
    BY Moving DEF ProvisionInv, Stages
  <2>2. ~play.ran
    BY DEF ForgePresent, ProvisionInv, ForgeInv, AfterForge
  <2>3. QED
    BY <2>1, <2>2 DEF ForgePresent, Installed, Kept
<1>2. TypeOK'
  BY <1>1 DEF ProvisionInv, TypeOK, Moves
<1>3. LeftInv'
  BY <1>1 DEF ProvisionInv, LeftInv, Moves
<1>4. VanillaInv'
  BY <1>1 DEF ProvisionInv, VanillaInv, Moves, AfterBatch, AfterForge, Stages
<1>5. ForgeInv'
  BY <1>1 DEF ProvisionInv, ForgeInv, InHands, Moves, AfterForge
<1>6. NativesInv'
  BY <1>1 DEF ProvisionInv, NativesInv, Moves
<1>7. SoftInv'
  BY <1>1 DEF ProvisionInv, SoftInv, Moves
<1>8. QED
  BY <1>2, <1>3, <1>4, <1>5, <1>6, <1>7 DEF ProvisionInv

LEMMA CheckStep == ProvisionInv /\ Check => ProvisionInv'
<1> SUFFICES ASSUME ProvisionInv, Check PROVE ProvisionInv'
  OBVIOUS
<1>1. /\ play.pc = "check"
      /\ UNCHANGED <<disk, java, natives, openal, installers, left, hurt, trouble>>
      /\ \/ /\ disk[Json] = "good" /\ \A f \in Own : disk[f] = "good"
            /\ Moves("openal")
         \/ Moves("failed")
  <2>1. /\ GoTo("openal") => Moves("openal")
        /\ GoTo("failed") => Moves("failed")
    BY Moving DEF ProvisionInv, Stages
  <2>2. QED
    BY <2>1 DEF Check, Kept
<1>2. TypeOK'
  BY <1>1 DEF ProvisionInv, TypeOK, Moves
<1>3. LeftInv'
  BY <1>1 DEF ProvisionInv, LeftInv, Moves
<1>4. VanillaInv'
  BY <1>1 DEF ProvisionInv, VanillaInv, Moves, AfterBatch, AfterForge, Stages
<1>5. ForgeInv'
  BY <1>1 DEF ProvisionInv, ForgeInv, InHands, Moves, AfterForge
<1>6. NativesInv'
  BY <1>1 DEF ProvisionInv, NativesInv, Moves
<1>7. SoftInv'
  BY <1>1 DEF ProvisionInv, SoftInv, Moves
<1>8. QED
  BY <1>2, <1>3, <1>4, <1>5, <1>6, <1>7 DEF ProvisionInv

LEMMA EnsureOpenALStep == ProvisionInv /\ EnsureOpenAL => ProvisionInv'
<1> SUFFICES ASSUME ProvisionInv, EnsureOpenAL PROVE ProvisionInv'
  OBVIOUS
<1>1. /\ play.pc = "openal" /\ play'.pc = "natives" /\ play' \in Playing
      /\ play'.ran = play.ran /\ UNCHANGED <<disk, java, natives, installers, trouble>>
      /\ \/ openal = "absent" /\ openal' = "good" /\ left' = left \ {Cache} /\ hurt' = hurt \ {Cache}
         \/ openal # "absent" /\ UNCHANGED <<openal, left, hurt>>
  <2>1. play' = [play EXCEPT !.pc = "natives", !.soft = TRUE] /\ play \in Playing
    BY DEF EnsureOpenAL, ProvisionInv, TypeOK
  <2>2. play' \in Playing /\ play'.pc = "natives" /\ play'.ran = play.ran
    BY <2>1 DEF Playing, Stages
  <2>3. QED
    BY <2>2 DEF EnsureOpenAL, Right
<1>2. TypeOK'
  BY <1>1, FileFacts DEF LeftInv, ProvisionInv, TypeOK, Moves
<1>3. LeftInv'
  BY <1>1, FileFacts DEF ProvisionInv, LeftInv, Moves
<1>4. VanillaInv'
  BY <1>1, FileFacts DEF ProvisionInv, VanillaInv, Moves, AfterBatch, AfterForge, Stages
<1>5. ForgeInv'
  BY <1>1, FileFacts DEF ProvisionInv, ForgeInv, InHands, Moves, AfterForge
<1>6. NativesInv'
  BY <1>1, FileFacts DEF ProvisionInv, NativesInv, Moves
<1>7. SoftInv'
  BY <1>1, FileFacts DEF ProvisionInv, SoftInv, Moves
<1>8. QED
  BY <1>2, <1>3, <1>4, <1>5, <1>6, <1>7 DEF ProvisionInv

LEMMA SkipOpenALStep == ProvisionInv /\ SkipOpenAL => ProvisionInv'
<1> SUFFICES ASSUME ProvisionInv, SkipOpenAL PROVE ProvisionInv'
  OBVIOUS
<1>1. /\ play.pc = "openal" /\ Moves("natives")
      /\ UNCHANGED <<disk, java, natives, openal, installers, left, hurt>>
      /\ trouble' \in 0..MaxTrouble
  <2>1. trouble \in 0..MaxTrouble
    BY DEF ProvisionInv, TypeOK
  <2>2. QED
    BY <2>1, Moving, FileFacts DEF SkipOpenAL, ProvisionInv, Stages
<1>2. TypeOK'
  BY <1>1 DEF ProvisionInv, TypeOK, Moves
<1>3. LeftInv'
  BY <1>1 DEF ProvisionInv, LeftInv, Moves
<1>4. VanillaInv'
  BY <1>1 DEF ProvisionInv, VanillaInv, Moves, AfterBatch, AfterForge, Stages
<1>5. ForgeInv'
  BY <1>1 DEF ProvisionInv, ForgeInv, InHands, Moves, AfterForge
<1>6. NativesInv'
  BY <1>1 DEF ProvisionInv, NativesInv, Moves
<1>7. SoftInv'
  BY <1>1 DEF ProvisionInv, SoftInv, Moves
<1>8. QED
  BY <1>2, <1>3, <1>4, <1>5, <1>6, <1>7 DEF ProvisionInv

LEMMA BeginNativesStep == ProvisionInv /\ BeginNatives => ProvisionInv'
<1> SUFFICES ASSUME ProvisionInv, BeginNatives PROVE ProvisionInv'
  OBVIOUS
<1>1. /\ play.pc = "natives" /\ play' \in Playing
      /\ play'.ran = play.ran /\ play'.soft = play.soft
      /\ UNCHANGED <<disk, java, natives, openal, installers, left, hurt, trouble>>
      /\ \/ /\ \E e \in Unpacked : natives[e] # "absent"
            /\ play'.pc = IF play.soft THEN "override" ELSE "classpath"
         \/ play'.pc = "extract" /\ play'.todo = Unpacked
  <2>1. CASE GoTo(AfterNatives) /\ \E e \in Unpacked : natives[e] # "absent"
    <3>1. Moves(IF play.soft THEN "override" ELSE "classpath")
      BY <2>1, Moving DEF AfterNatives, ProvisionInv, Stages
    <3>2. QED
      BY <2>1, <3>1 DEF BeginNatives, Kept, Moves
  <2>2. CASE play' = [play EXCEPT !.pc = "extract", !.todo = Unpacked]
    <3>1. play \in Playing
      BY DEF ProvisionInv, TypeOK
    <3>2. /\ play' \in Playing /\ play'.pc = "extract" /\ play'.todo = Unpacked
          /\ play'.ran = play.ran /\ play'.soft = play.soft
      BY <2>2, <3>1 DEF Playing, Stages
    <3>3. QED
      BY <3>2 DEF BeginNatives, Kept
  <2>3. QED
    BY <2>1, <2>2 DEF BeginNatives
<1>2. TypeOK'
  BY <1>1 DEF ProvisionInv, TypeOK, Moves
<1>3. LeftInv'
  BY <1>1 DEF ProvisionInv, LeftInv, Moves
<1>4. VanillaInv'
  BY <1>1 DEF ProvisionInv, VanillaInv, Moves, AfterBatch, AfterForge, Stages
<1>5. ForgeInv'
  BY <1>1 DEF ProvisionInv, ForgeInv, InHands, Moves, AfterForge
<1>6. NativesInv'
  BY <1>1 DEF ProvisionInv, NativesInv, Moves
<1>7. SoftInv'
  BY <1>1 DEF ProvisionInv, SoftInv, Moves
<1>8. QED
  BY <1>2, <1>3, <1>4, <1>5, <1>6, <1>7 DEF ProvisionInv

LEMMA UnpackStep ==
    ASSUME NEW e \in Unpacked, ProvisionInv, Unpack(e)
    PROVE  ProvisionInv'
<1>1. /\ play.pc = "extract" /\ play'.pc = "extract" /\ play' \in Playing
      /\ play'.todo = play.todo \ {e} /\ play'.ran = play.ran
      /\ play'.soft = play.soft
      /\ UNCHANGED <<disk, java, openal, installers, trouble>>
      /\ natives' \in [Unpacked -> {"absent", "bad", "good", "soft"}]
      /\ \A x \in Unpacked : x # e => natives'[x] = natives[x]
      /\ \/ natives'[e] = "good" /\ left' = left \ {e}
         \/ left' = left \cup {e}
      /\ hurt' = hurt \ {e}
      /\ e \in Things /\ e \notin Files /\ e # Java /\ e # Cache
  <2>1. play' = [play EXCEPT !.todo = play.todo \ {e}] /\ play \in Playing
    BY DEF Unpack, ProvisionInv, TypeOK
  <2>2. /\ play' \in Playing /\ play'.pc = play.pc /\ play'.todo = play.todo \ {e}
        /\ play'.ran = play.ran /\ play'.soft = play.soft
    BY <2>1 DEF Playing
  <2>3. PICK a \in Natives(Merged) :
           /\ disk[a] # "absent" /\ natives' = [natives EXCEPT ![e] = disk[a]]
           /\ left' = IF disk[a] = "good" THEN left \ {e} ELSE left \cup {e}
    BY DEF Unpack
  <2>4. disk[a] \in {"bad", "good"}
    BY <2>3, NativesDownloaded, FileFacts DEF ProvisionInv, TypeOK
  <2>5. natives \in [Unpacked -> {"absent", "bad", "good", "soft"}]
    BY DEF ProvisionInv, TypeOK
  <2>6. /\ natives' \in [Unpacked -> {"absent", "bad", "good", "soft"}]
        /\ \A x \in Unpacked : x # e => natives'[x] = natives[x]
        /\ natives'[e] = disk[a]
    BY <2>3, <2>4, <2>5
  <2>7. QED
    BY <2>2, <2>3, <2>6, FileFacts DEF Unpack
<1>2. TypeOK'
  BY <1>1, FileFacts DEF ProvisionInv, TypeOK, Moves
<1>3. LeftInv'
  BY <1>1, FileFacts DEF ProvisionInv, LeftInv, Moves
<1>4. VanillaInv'
  BY <1>1, FileFacts DEF ProvisionInv, VanillaInv, Moves, AfterBatch, AfterForge, Stages
<1>5. ForgeInv'
  BY <1>1, FileFacts DEF ProvisionInv, ForgeInv, InHands, Moves, AfterForge
<1>6. NativesInv'
  BY <1>1, FileFacts DEF ProvisionInv, NativesInv, Moves
<1>7. SoftInv'
  BY <1>1, FileFacts DEF ProvisionInv, SoftInv, Moves
<1>8. QED
  BY <1>2, <1>3, <1>4, <1>5, <1>6, <1>7 DEF ProvisionInv

LEMMA EndUnpackStep == ProvisionInv /\ EndUnpack => ProvisionInv'
<1> SUFFICES ASSUME ProvisionInv, EndUnpack PROVE ProvisionInv'
  OBVIOUS
<1>1. /\ play.pc = "extract"
      /\ UNCHANGED <<disk, java, natives, openal, installers, hurt, trouble>>
      /\ left' = left \cup play.todo
      /\ \/ play.soft /\ Moves("override")
         \/ ~play.soft /\ Moves("classpath")
      /\ play.todo \subseteq Unpacked /\ Unpacked \subseteq Things
      /\ \A f \in Files : f \notin play.todo
  <2>1. /\ GoTo("override") => Moves("override")
        /\ GoTo("classpath") => Moves("classpath")
    BY Moving DEF ProvisionInv, Stages
  <2>2. play.todo \subseteq Unpacked
    BY DEF EndUnpack, ProvisionInv, NativesInv
  <2>3. QED
    BY <2>1, <2>2, FileFacts DEF EndUnpack, AfterNatives, ProvisionInv, TypeOK, Playing
<1>2. TypeOK'
  BY <1>1, FileFacts DEF ProvisionInv, TypeOK, Moves
<1>3. LeftInv'
  BY <1>1, FileFacts DEF ProvisionInv, LeftInv, Moves
<1>4. VanillaInv'
  BY <1>1, FileFacts DEF ProvisionInv, VanillaInv, Moves, AfterBatch, AfterForge, Stages
<1>5. ForgeInv'
  BY <1>1, FileFacts DEF ProvisionInv, ForgeInv, InHands, Moves, AfterForge
<1>6. NativesInv'
  BY <1>1, FileFacts DEF ProvisionInv, NativesInv, Moves
<1>7. SoftInv'
  BY <1>1, FileFacts DEF ProvisionInv, SoftInv, Moves
<1>8. QED
  BY <1>2, <1>3, <1>4, <1>5, <1>6, <1>7 DEF ProvisionInv

LEMMA OverrideStep == ProvisionInv /\ Override => ProvisionInv'
<1> SUFFICES ASSUME ProvisionInv, Override PROVE ProvisionInv'
  OBVIOUS
<1>1. /\ play.pc = "override" /\ Moves("classpath")
      /\ UNCHANGED <<disk, java, openal, installers, trouble>>
      /\ natives' \in [Unpacked -> {"absent", "bad", "good", "soft"}]
      /\ \A e \in Unpacked \ {OpenAL} : natives'[e] = natives[e]
      /\ \/ natives'[OpenAL] = "soft" /\ left' = left \ {OpenAL}
         \/ openal = "bad" /\ left' = left \cup {OpenAL}
      /\ hurt' = hurt \ {OpenAL}
  <2>1. Moves("classpath")
    BY Moving DEF Override, ProvisionInv, Stages
  <2>2. /\ natives \in [Unpacked -> {"absent", "bad", "good", "soft"}]
        /\ openal \in {"absent", "bad", "good"}
    BY DEF ProvisionInv, TypeOK
  <2>3. /\ natives' \in [Unpacked -> {"absent", "bad", "good", "soft"}]
        /\ \A e \in Unpacked \ {OpenAL} : natives'[e] = natives[e]
        /\ natives'[OpenAL] = IF openal = "good" THEN "soft" ELSE "bad"
    BY <2>2, FileFacts DEF Override
  <2>4. QED
    BY <2>1, <2>2, <2>3 DEF Override
<1>2. TypeOK'
  BY <1>1, FileFacts DEF ProvisionInv, TypeOK, Moves
<1>3. LeftInv'
  BY <1>1, FileFacts DEF ProvisionInv, LeftInv, Moves
<1>4. VanillaInv'
  BY <1>1, FileFacts DEF ProvisionInv, VanillaInv, Moves, AfterBatch, AfterForge, Stages
<1>5. ForgeInv'
  BY <1>1, FileFacts DEF ProvisionInv, ForgeInv, InHands, Moves, AfterForge
<1>6. NativesInv'
  BY <1>1, FileFacts DEF ProvisionInv, NativesInv, Moves
<1>7. SoftInv'
  BY <1>1, FileFacts DEF LeftInv, ProvisionInv, SoftInv, Moves
<1>8. QED
  BY <1>2, <1>3, <1>4, <1>5, <1>6, <1>7 DEF ProvisionInv

(* What a stopped launcher leaves behind in the natives directory.          *)
LEMMA Cutting ==
    ASSUME ProvisionInv, Cut
    PROVE  /\ natives' \in [Unpacked -> {"absent", "bad", "good", "soft"}]
           /\ left \subseteq left' /\ left' \subseteq left \cup Unpacked
           /\ \A e \in Unpacked : natives'[e] = natives[e] \/ e \in left'
           /\ play.pc = "extract" => play.todo \subseteq left'
           /\ play.pc \notin {"extract", "override"} => UNCHANGED <<natives, left>>
           /\ \A f \in Files : f \in left' => f \in left
<1>1. /\ natives \in [Unpacked -> {"absent", "bad", "good", "soft"}]
      /\ OpenAL \in Unpacked /\ Files \cap Unpacked = {}
  BY FileFacts DEF ProvisionInv, TypeOK
<1>2. play.pc = "extract" => play.todo \subseteq Unpacked
  BY DEF ProvisionInv, NativesInv
<1>3. QED
  BY <1>1, <1>2 DEF Cut

(* A stopped launcher: the histories and the natives are as Cutting says,   *)
(* the rest of the files is untouched.                                      *)
LEMMA Stopping ==
    ASSUME ProvisionInv, Cut,
           UNCHANGED <<disk, java, openal, hurt>>,
           play' \in Playing, play'.pc \in {"failed", "idle"},
           play'.soft => play.soft, play'.ran => play'.pc = "failed"
    PROVE  LeftInv' /\ VanillaInv' /\ NativesInv' /\ SoftInv'
<1>1. LeftInv'
  BY Cutting DEF ProvisionInv, LeftInv
<1>2. VanillaInv'
  BY DEF VanillaInv, AfterBatch, AfterForge, Stages
<1>3. NativesInv'
  BY Cutting DEF ProvisionInv, NativesInv
<1>4. SoftInv'
  BY DEF SoftInv
<1>5. QED
  BY <1>1, <1>2, <1>3, <1>4

LEMMA FaultStep == ProvisionInv /\ (Fault \/ Unreadable) => ProvisionInv'
<1> SUFFICES ASSUME ProvisionInv, Fault \/ Unreadable PROVE ProvisionInv'
  OBVIOUS
<1>1. /\ Moves("failed") /\ play.pc \in Stages \ {"wait"} /\ trouble' \in 0..MaxTrouble
      /\ UNCHANGED <<disk, java, openal, installers, hurt>>
      /\ Cut \/ UNCHANGED <<natives, left>>
  <2>1. Moves("failed") /\ trouble \in 0..MaxTrouble
    BY Moving DEF Fault, Unreadable, ProvisionInv, TypeOK
  <2>2. QED
    BY <2>1, FileFacts DEF Fault, Unreadable, Stages
<1>2. CASE Cut
  <2>1. LeftInv' /\ VanillaInv' /\ NativesInv' /\ SoftInv'
    BY <1>1, <1>2, Stopping DEF Moves
  <2>2. TypeOK'
    BY <1>1, <1>2, Cutting, FileFacts DEF ProvisionInv, TypeOK, Moves
  <2>3. ForgeInv'
    BY <1>1, <1>2, Cutting, FileFacts DEF ProvisionInv, ForgeInv, InHands, Moves, AfterForge
  <2>4. QED
    BY <2>1, <2>2, <2>3 DEF ProvisionInv
<1>3. CASE UNCHANGED <<natives, left>> /\ play.pc # "extract"
  BY <1>1, <1>3 DEF ProvisionInv, TypeOK, LeftInv, VanillaInv, ForgeInv, NativesInv,
                    SoftInv, InHands, Moves, AfterBatch, AfterForge, Stages
<1>4. QED
  BY <1>1, <1>2, <1>3 DEF Fault, Unreadable

LEMMA SpawnStep == ProvisionInv /\ Spawn => ProvisionInv'
<1> SUFFICES ASSUME ProvisionInv, Spawn PROVE ProvisionInv'
  OBVIOUS
<1>1. /\ play.pc = "classpath"
      /\ UNCHANGED <<disk, java, natives, openal, installers, left, hurt, trouble>>
      /\ Moves("started") \/ Moves("failed")
  <2>1. /\ GoTo("started") => Moves("started")
        /\ GoTo("failed") => Moves("failed")
    BY Moving DEF ProvisionInv, Stages
  <2>2. QED
    BY <2>1 DEF Spawn, Kept
<1>2. TypeOK'
  BY <1>1 DEF ProvisionInv, TypeOK, Moves
<1>3. LeftInv'
  BY <1>1 DEF ProvisionInv, LeftInv, Moves
<1>4. VanillaInv'
  BY <1>1 DEF ProvisionInv, VanillaInv, Moves, AfterBatch, AfterForge, Stages
<1>5. ForgeInv'
  BY <1>1 DEF ProvisionInv, ForgeInv, InHands, Moves, AfterForge
<1>6. NativesInv'
  BY <1>1 DEF ProvisionInv, NativesInv, Moves
<1>7. SoftInv'
  BY <1>1 DEF ProvisionInv, SoftInv, Moves
<1>8. QED
  BY <1>2, <1>3, <1>4, <1>5, <1>6, <1>7 DEF ProvisionInv

LEMMA EndPlayStep == ProvisionInv /\ EndPlay => ProvisionInv'
<1> SUFFICES ASSUME ProvisionInv, EndPlay PROVE ProvisionInv'
  OBVIOUS
<1>1. /\ play.pc \in {"started", "failed"} /\ play' \in Playing
      /\ play'.pc = "idle" /\ play'.soft = FALSE /\ play'.ran = FALSE
      /\ UNCHANGED <<disk, java, natives, openal, installers, left, hurt, trouble>>
  BY DEF EndPlay, Kept, NoPlay, Playing
<1>2. TypeOK'
  BY <1>1 DEF ProvisionInv, TypeOK, Moves
<1>3. LeftInv'
  BY <1>1 DEF ProvisionInv, LeftInv, Moves
<1>4. VanillaInv'
  BY <1>1 DEF ProvisionInv, VanillaInv, Moves, AfterBatch, AfterForge, Stages
<1>5. ForgeInv'
  BY <1>1 DEF ProvisionInv, ForgeInv, InHands, Moves, AfterForge
<1>6. NativesInv'
  BY <1>1 DEF ProvisionInv, NativesInv, Moves
<1>7. SoftInv'
  BY <1>1 DEF ProvisionInv, SoftInv, Moves
<1>8. QED
  BY <1>2, <1>3, <1>4, <1>5, <1>6, <1>7 DEF ProvisionInv

-----------------------------------------------------------------------------
(* The Forge installers.                                                    *)
LEMMA StartInstallerStep == ProvisionInv /\ StartInstaller => ProvisionInv'
<1> SUFFICES ASSUME ProvisionInv, StartInstaller PROVE ProvisionInv'
  OBVIOUS
<1> DEFINE new == [of |-> "play", left |-> Forge \cup {Json}, open |-> None]
<1>1. /\ play.pc = "install" /\ play' \in Playing /\ RuntimeInstalled
      /\ play'.soft = play.soft /\ UNCHANGED <<disk, natives, openal>>
      /\ \/ /\ java # "headless" /\ installers' = installers \cup {new}
            /\ play'.pc = "wait"
         \/ /\ UNCHANGED installers /\ play'.pc = "failed"
  <2>1. GoTo("failed") => Moves("failed")
    BY Moving DEF ProvisionInv
  <2>2. ASSUME play' = [play EXCEPT !.pc = "wait", !.ran = TRUE]
        PROVE  play' \in Playing /\ play'.pc = "wait" /\ play'.soft = play.soft
    BY <2>2 DEF ProvisionInv, TypeOK, Playing, Stages
  <2>3. QED
    BY <2>1, <2>2 DEF StartInstaller, Moves
<1>2. /\ new \in Installer /\ new.of = "play"
      /\ \A f \in Forge \cup {Json} : f \in new.left
  BY DEF Installer
<1> HIDE DEF new
<1>3. TypeOK'
  BY <1>1, <1>2, FileFacts, Installing DEF ProvisionInv, TypeOK
<1>4. LeftInv'
  BY <1>1, FileFacts, Installing DEF ProvisionInv, LeftInv
<1>5. VanillaInv'
  BY <1>1, FileFacts, Installing DEF ProvisionInv, VanillaInv, AfterBatch, AfterForge, Stages
<1>6. ForgeInv'
  BY <1>1, <1>2, FileFacts, Installing DEF ProvisionInv, ForgeInv, InHands, AfterForge
<1>7. NativesInv'
  BY <1>1, FileFacts, Installing DEF ProvisionInv, NativesInv
<1>8. SoftInv'
  BY <1>1 DEF ProvisionInv, SoftInv
<1>9. QED
  BY <1>3, <1>4, <1>5, <1>6, <1>7, <1>8 DEF ProvisionInv

(* An installer that goes on: j is i a little later, and only f of the      *)
(* files has changed.                                                       *)
LEMMA InstallerMoves ==
    ASSUME ProvisionInv, NEW i \in installers, NEW j \in Installer,
           j.of = i.of, Replace(i, j), NEW f \in Forge \cup {Json},
           f \in i.left \cup {i.open},
           disk' \in [Files -> {"absent", "bad", "good"}],
           \A g \in Files : g # f => disk'[g] = disk[g],
           f # Json /\ disk[f] = "good" => disk'[f] = "good",
           disk'[f] = "good" \/ InHands(f)',
           \A g \in i.left \cup {i.open} : g # f =>
              g \in j.left \cup {j.open} \/ g \notin Forge \cup {Json},
           left' = IF disk'[f] = "good" THEN left \ {f} ELSE left,
           hurt' = IF disk'[f] = "good" THEN hurt \ {f} ELSE hurt,
           UNCHANGED <<java, natives, openal, play, trouble>>
    PROVE  ProvisionInv'
<1>1. installers' = (installers \ {i}) \cup {j}
  BY DEF Replace
<1>2. /\ f \in Files /\ f \notin Unpacked /\ f # Java /\ f # Cache
      /\ left' \subseteq left /\ hurt' \subseteq left' /\ hurt' \subseteq hurt
      /\ \A x : x # f => ((x \in left') <=> (x \in left)) /\ ((x \in hurt') <=> (x \in hurt))
  BY FileFacts DEF ProvisionInv, TypeOK
<1>3. TypeOK'
  BY <1>1, <1>2 DEF ProvisionInv, TypeOK
<1>4. LeftInv'
  BY <1>2 DEF ProvisionInv, LeftInv
<1>5. \A g \in Vanilla \cup Own : disk[g] = "good" \/ g \in hurt => disk'[g] = "good" \/ g \in hurt'
  BY <1>2, FileFacts
<1>6. VanillaInv'
  BY <1>5, FileFacts DEF ProvisionInv, VanillaInv
<1>7. ForgeInv'
  <2>1. \A g \in Forge \cup {Json} : InHands(g) => g = f \/ InHands(g)'
    BY <1>1 DEF InHands
  <2>2. ASSUME NEW g \in Forge \cup {Json},
               disk[g] = "good" \/ g \in left \/ InHands(g)
        PROVE  disk'[g] = "good" \/ g \in left' \/ InHands(g)'
    BY <1>2, <2>1, <2>2, FileFacts
  <2>3. \A g \in Forge \cup {Json} :
           disk'[g] = "good" \/ g \in left' \/ InHands(g)'
    BY <2>2 DEF ProvisionInv, ForgeInv
  <2>4. play.pc \in AfterForge =>
           disk'[Json] = "good" \/ Json \in hurt' \/ InHands(Json)'
    BY <1>2, <2>1, FileFacts DEF ProvisionInv, ForgeInv
  <2>5. QED
    BY <1>5, <2>3, <2>4 DEF ProvisionInv, ForgeInv
<1>8. NativesInv' /\ SoftInv'
  BY <1>2, FileFacts DEF ProvisionInv, NativesInv, SoftInv
<1>9. QED
  BY <1>3, <1>4, <1>6, <1>7, <1>8 DEF ProvisionInv

LEMMA InstallerOpensStep ==
    ASSUME ProvisionInv, NEW i \in installers, NEW f \in i.left,
           InstallerOpens(i, f)
    PROVE  ProvisionInv'
<1> DEFINE next == IF f # Json /\ disk[f] = "good" THEN None ELSE f
           j    == [i EXCEPT !.left = i.left \ {f}, !.open = next]
<1>1. i \in Installer /\ f \in Forge \cup {Json} /\ i.open = None
  BY DEF InstallerOpens, ProvisionInv, TypeOK, Installer
<1>2. next \in Forge \cup {Json, None}
  BY <1>1
<1>3. /\ j \in Installer /\ j.of = i.of /\ j.left = i.left \ {f} /\ j.open = next
      /\ Replace(i, j)
      /\ UNCHANGED <<java, natives, openal, play, left, hurt, trouble>>
  <2>1. /\ Replace(i, j)
        /\ UNCHANGED <<java, natives, openal, play, left, hurt, trouble>>
    BY DEF InstallerOpens, Kept
  <2>2. QED
    <3> HIDE DEF next
    <3>1. /\ j \in Installer /\ j.of = i.of /\ j.left = i.left \ {f}
          /\ j.open = next
      BY <1>1, <1>2 DEF Installer
    <3>2. QED
      BY <2>1, <3>1
<1> HIDE DEF j
<1>4. /\ f \in Files /\ disk \in [Files -> {"absent", "bad", "good"}]
      /\ Json \in Files /\ None \notin Forge \cup {Json}
  BY <1>1, FileFacts DEF ProvisionInv, TypeOK
<1>5. disk' = [disk EXCEPT ![f] = IF f # Json /\ disk[f] = "good" THEN "good" ELSE "bad"]
  BY DEF InstallerOpens
<1>6. /\ disk' \in [Files -> {"absent", "bad", "good"}]
      /\ \A g \in Files : g # f => disk'[g] = disk[g]
      /\ f # Json /\ disk[f] = "good" => disk'[f] = "good"
      /\ ~(f # Json /\ disk[f] = "good") => disk'[f] = "bad"
  BY <1>4, <1>5
<1>7. disk'[f] = "good" \/ InHands(f)'
  BY <1>3, <1>6 DEF InHands, Replace
<1>8. f # Json /\ disk[f] = "good" => f \notin left /\ f \notin hurt
  BY <1>4 DEF ProvisionInv, LeftInv, TypeOK
<1>9. /\ left' = IF disk'[f] = "good" THEN left \ {f} ELSE left
      /\ hurt' = IF disk'[f] = "good" THEN hurt \ {f} ELSE hurt
  BY <1>3, <1>6, <1>8
<1>10. \A g \in i.left \cup {i.open} : g # f =>
          g \in j.left \cup {j.open} \/ g \notin Forge \cup {Json}
  BY <1>1, <1>3, <1>4
<1>11. QED
  BY <1>1, <1>3, <1>6, <1>7, <1>9, <1>10, InstallerMoves

LEMMA InstallerClosesStep ==
    ASSUME ProvisionInv, NEW i \in installers, InstallerCloses(i)
    PROVE  ProvisionInv'
<1> DEFINE j == [i EXCEPT !.open = None]
           f == i.open
<1>1. i \in Installer /\ f \in Forge \cup {Json}
  BY DEF InstallerCloses, ProvisionInv, TypeOK, Installer
<1>2. /\ j \in Installer /\ j.of = i.of /\ j.left = i.left /\ j.open = None
      /\ Replace(i, j) /\ UNCHANGED <<java, natives, openal, play>>
  BY <1>1 DEF InstallerCloses, Installer
<1> HIDE DEF j
<1>3. /\ f \in Files /\ disk \in [Files -> {"absent", "bad", "good"}]
  BY <1>1, FileFacts DEF ProvisionInv, TypeOK
<1>4. disk[f] = "good" => f \notin left /\ f \notin hurt
  BY <1>3 DEF ProvisionInv, LeftInv, TypeOK
<1>5. CASE \E k \in installers \ {i} : k.open = f
  <2>1. UNCHANGED <<disk, left, hurt, trouble>>
    BY <1>5 DEF InstallerCloses, Kept
  <2>2. InHands(f)'
    BY <1>2, <1>5 DEF InHands, Replace
  <2>3. \A g \in i.left \cup {i.open} : g # f => g \in j.left \cup {j.open}
    BY <1>2
  <2>4. QED
    BY <1>1, <1>2, <1>3, <1>4, <2>1, <2>2, <2>3, InstallerMoves
<1>6. CASE ~ \E k \in installers \ {i} : k.open = f
  <2>1. disk' = [disk EXCEPT ![f] = "good"] /\ Right({f})
    BY <1>6 DEF InstallerCloses
  <2>2. /\ disk' \in [Files -> {"absent", "bad", "good"}]
        /\ \A g \in Files : g # f => disk'[g] = disk[g]
        /\ disk'[f] = "good" /\ left' = left \ {f} /\ hurt' = hurt \ {f}
        /\ UNCHANGED trouble
    BY <1>3, <2>1 DEF Right
  <2>3. \A g \in i.left \cup {i.open} : g # f => g \in j.left \cup {j.open}
    BY <1>2
  <2>4. QED
    BY <1>1, <1>2, <2>2, <2>3, InstallerMoves
<1>7. QED
  BY <1>5, <1>6

(* An installer that is no more: it is done, or what it has given up is     *)
(* marked.                                                                  *)
LEMMA InstallerExits ==
    ASSUME ProvisionInv, NEW i \in installers, InstallerEnds(i) \/ InstallerFails(i)
    PROVE  ProvisionInv'
<1> DEFINE given == {f \in i.left \cup ({i.open} \ {None}) : disk[f] # "good"}
<1>1. i \in Installer
  BY DEF ProvisionInv, TypeOK
<1>2. /\ installers' = installers \ {i} /\ UNCHANGED <<disk, java, natives, openal>>
      /\ trouble' \in 0..MaxTrouble
      /\ left \subseteq left' /\ hurt \subseteq hurt' /\ hurt' \subseteq left'
      /\ left' \subseteq left \cup given
      /\ \A f \in i.left \cup {i.open} :
            f # None => disk[f] = "good" \/ (f \in left' /\ f \in hurt')
  <2>1. trouble \in 0..MaxTrouble /\ hurt \subseteq left
    BY DEF ProvisionInv, TypeOK
  <2>2. CASE InstallerEnds(i)
    BY <2>1, <2>2 DEF InstallerEnds, Exit, Kept
  <2>3. CASE InstallerFails(i)
    BY <2>1, <2>3, FileFacts DEF InstallerFails, Exit, Altered
  <2>4. QED
    BY <2>2, <2>3
<1>3. /\ given \subseteq Files /\ \A f \in given : disk[f] # "good"
      /\ given \subseteq Things
  BY <1>1, FileFacts DEF Installer
<1> HIDE DEF given
<1>4. \/ i.of = "play" /\ play.pc = "wait" /\ Moves("check")
      \/ i.of = "nobody" /\ UNCHANGED play
  <2>1. i.of = "play" => play.pc = "wait"
    BY DEF ProvisionInv, TypeOK
  <2>2. GoTo("check") => Moves("check")
    BY Moving DEF ProvisionInv, Stages
  <2>3. QED
    BY <1>1, <2>1, <2>2 DEF InstallerEnds, InstallerFails, Exit, Installer
<1>5. TypeOK'
  BY <1>2, <1>3, <1>4 DEF ProvisionInv, TypeOK, Moves
<1>6. LeftInv'
  BY <1>2, <1>3 DEF ProvisionInv, LeftInv
<1>7. VanillaInv'
  BY <1>2, <1>4 DEF ProvisionInv, VanillaInv, Moves, AfterBatch, AfterForge, Stages
<1>8. ForgeInv'
  <2>1. \A f : InHands(f) => InHands(f)' \/ f \in i.left \cup {i.open}
    BY <1>2 DEF InHands
  <2>2. \A f \in Forge \cup {Json} : disk[f] = "good" \/ f \in left \/ InHands(f)
    BY <1>2 DEF ProvisionInv, ForgeInv
  <2>3. \A f \in Forge \cup {Json} :
           disk'[f] = "good" \/ f \in left' \/ InHands(f)'
    BY <1>2, <2>1, <2>2, FileFacts
  <2>4. play.pc \in AfterForge =>
           disk'[Json] = "good" \/ Json \in hurt' \/ InHands(Json)'
    BY <1>2, <2>1, FileFacts DEF ProvisionInv, ForgeInv
  <2>5. QED
    BY <1>2, <1>4, <2>3, <2>4 DEF ProvisionInv, ForgeInv, Moves, AfterForge
<1>9. NativesInv'
  BY <1>2, <1>4 DEF ProvisionInv, NativesInv, Moves
<1>10. SoftInv'
  BY <1>2, <1>4 DEF ProvisionInv, SoftInv, Moves
<1>11. QED
  BY <1>5, <1>6, <1>7, <1>8, <1>9, <1>10 DEF ProvisionInv
-----------------------------------------------------------------------------
(* What happens to the launcher.                                            *)
LEMMA CloseStep == ProvisionInv /\ Close => ProvisionInv'
<1> SUFFICES ASSUME ProvisionInv, Close PROVE ProvisionInv'
  OBVIOUS
<1> DEFINE Orphan(i) == [i EXCEPT !.of = "nobody"]
<1>1. /\ play.pc \in Stages /\ play' = NoPlay /\ Cut
      /\ installers' = {Orphan(i) : i \in installers}
      /\ UNCHANGED <<disk, java, openal, hurt>>
  BY DEF Close
<1>2. \A i \in installers : /\ i \in Installer /\ Orphan(i) \in Installer
                            /\ Orphan(i).of = "nobody" /\ Orphan(i).left = i.left
                            /\ Orphan(i).open = i.open
  BY DEF ProvisionInv, TypeOK, Installer
<1>3. \A i, j \in installers : i = j
  <2>1. play.pc = "wait" => \A i \in installers : i.of = "play"
    BY <1>2 DEF Close, Installer
  <2>2. play.pc # "wait" => \A i \in installers : i.of = "nobody"
    BY <1>2 DEF ProvisionInv, TypeOK, Installer
  <2>3. QED
    BY <2>1, <2>2 DEF ProvisionInv, TypeOK
<1>4. trouble' \in 0..MaxTrouble
  BY FileFacts DEF Close, ProvisionInv, TypeOK
<1>5. play' \in Playing /\ play'.pc = "idle" /\ play'.soft = FALSE /\ play'.ran = FALSE
  BY <1>1 DEF NoPlay, Playing
<1> HIDE DEF Orphan
<1>6. LeftInv' /\ VanillaInv' /\ NativesInv' /\ SoftInv'
  BY <1>1, <1>5, Stopping
<1>7. TypeOK'
  BY <1>1, <1>2, <1>3, <1>4, <1>5, Cutting, FileFacts DEF ProvisionInv, TypeOK
<1>8. ForgeInv'
  <2>1. \A f : InHands(f) => InHands(f)'
    BY <1>1, <1>2 DEF InHands
  <2>2. Json \notin left => Json \notin left'
    BY <1>1, Cutting, FileFacts
  <2>3. installers = {} => installers' = {}
    BY <1>1
  <2>4. QED
    BY <1>1, <1>5, <2>1, <2>2, <2>3, Cutting DEF ProvisionInv, ForgeInv, AfterForge
<1>9. QED
  BY <1>6, <1>7, <1>8 DEF ProvisionInv

(* A thing that is altered: everything but t is as it was, and t is marked. *)
LEMMA Altering ==
    ASSUME ProvisionInv, NEW t \in Things, Altered({t}), trouble < MaxTrouble,
           UNCHANGED <<installers, play>>,
           disk' \in [Files -> {"absent", "bad", "good"}],
           natives' \in [Unpacked -> {"absent", "bad", "good", "soft"}],
           java' \in {"absent", "headless", "bad", "good"},
           openal' \in {"absent", "bad", "good"},
           \A f \in Files : disk'[f] = disk[f] \/ f = t,
           \A e \in Unpacked : natives'[e] = natives[e] \/ e = t,
           java' = java \/ t = Java, openal' = openal \/ t = Cache,
           t \in Unpacked => natives[t] # "absent",
           t \in Files => disk[t] # "absent" /\ disk'[t] # "good"
    PROVE  ProvisionInv'
<1>1. /\ left' = left \cup {t} /\ hurt' = hurt \cup {t} /\ trouble' \in 0..MaxTrouble
  BY FileFacts DEF Altered, ProvisionInv, TypeOK
<1>2. TypeOK'
  BY <1>1 DEF ProvisionInv, TypeOK
<1>3. LeftInv'
  BY <1>1, FileFacts DEF ProvisionInv, TypeOK, LeftInv
<1>4. VanillaInv'
  BY <1>1, FileFacts DEF ProvisionInv, VanillaInv
<1>5. ForgeInv'
  BY <1>1, FileFacts DEF ProvisionInv, ForgeInv, InHands
<1>6. NativesInv'
  BY <1>1 DEF ProvisionInv, NativesInv
<1>7. SoftInv'
  BY <1>1, FileFacts DEF ProvisionInv, SoftInv
<1>8. QED
  BY <1>2, <1>3, <1>4, <1>5, <1>6, <1>7 DEF ProvisionInv

LEMMA DamageStep == ProvisionInv /\ Damage => ProvisionInv'
<1> SUFFICES ASSUME ProvisionInv, Damage PROVE ProvisionInv'
  OBVIOUS
<1>1. /\ disk \in [Files -> {"absent", "bad", "good"}]
      /\ natives \in [Unpacked -> {"absent", "bad", "good", "soft"}]
      /\ java \in {"absent", "headless", "bad", "good"}
      /\ openal \in {"absent", "bad", "good"}
      /\ trouble < MaxTrouble /\ UNCHANGED <<installers, play>>
  BY DEF Damage, ProvisionInv, TypeOK
<1>2. \A x : Worse(x) \subseteq {"absent", "bad"} /\ Worse("absent") = {}
  BY DEF Worse
<1>3. ASSUME NEW f \in Files, DamageFile(f) PROVE ProvisionInv'
  BY <1>1, <1>2, <1>3, FileFacts, Altering DEF DamageFile
<1>4. ASSUME NEW e \in Unpacked, DamageNative(e) PROVE ProvisionInv'
  BY <1>1, <1>2, <1>4, FileFacts, Altering DEF DamageNative
<1>5. CASE DamageJava
  BY <1>1, <1>5, FileFacts, Altering DEF DamageJava
<1>6. CASE DamageCache
  BY <1>1, <1>2, <1>6, FileFacts, Altering DEF DamageCache
<1>7. QED
  BY <1>3, <1>4, <1>5, <1>6 DEF Damage
-----------------------------------------------------------------------------
LEMMA ProvisionInit == Init => ProvisionInv
<1> SUFFICES ASSUME Init PROVE ProvisionInv
  OBVIOUS
<1>1. /\ play \in Playing /\ play.pc = "idle" /\ play.soft = FALSE
      /\ play.ran = FALSE
      /\ installers = {} /\ left = {} /\ hurt = {} /\ trouble = 0
      /\ java = "absent" /\ openal = "absent"
      /\ \A e \in Unpacked : natives[e] = "absent"
      /\ disk[Json] = "absent"
  BY FileFacts DEF Init, NoPlay, Playing
<1>2. TypeOK
  BY <1>1, FileFacts DEF Init, TypeOK
<1>3. LeftInv /\ VanillaInv /\ ForgeInv /\ NativesInv /\ SoftInv
  BY <1>1 DEF LeftInv, VanillaInv, ForgeInv, NativesInv, SoftInv, AfterBatch,
              AfterForge, Stages
<1>4. QED
  BY <1>2, <1>3 DEF ProvisionInv

LEMMA ProvisionStep == ProvisionInv /\ [Next]_vars => ProvisionInv'
<1> SUFFICES ASSUME ProvisionInv, [Next]_vars PROVE ProvisionInv'
  OBVIOUS
<1>1. CASE PlayStep
  BY <1>1, EnsureJavaStep, FetchClientStep, EndBatchStep, FetchAssetsStep,
     FetchLibraryStep, ForgePresentStep, StartInstallerStep, CheckStep,
     EnsureOpenALStep, BeginNativesStep, EndUnpackStep, OverrideStep,
     FaultStep, SpawnStep, EndPlayStep, UnpackStep DEF PlayStep
<1>2. CASE InstallerStep("play") \/ InstallerStep("nobody")
  BY <1>2, InstallerOpensStep, InstallerClosesStep, InstallerExits
     DEF InstallerStep
<1>3. CASE \/ Click \/ SkipOpenAL \/ Fault \/ Close \/ Damage
           \/ \E f \in Batch : FetchFails(f)
           \/ \E i \in installers : InstallerFails(i)
  BY <1>3, ClickStep, SkipOpenALStep, FaultStep, CloseStep, DamageStep,
     FetchFailsStep, InstallerExits
<1>4. CASE UNCHANGED vars
  BY <1>4 DEF vars, ProvisionInv, TypeOK, LeftInv, VanillaInv, ForgeInv, InHands,
              NativesInv, SoftInv
<1>5. QED
  BY <1>1, <1>2, <1>3, <1>4 DEF Next

(* The inductive invariant of Play.                                         *)
THEOREM ProvisionInductive == Spec => []ProvisionInv
  BY ProvisionInit, ProvisionStep, PTL DEF Spec

(* Types of disk, runtime, natives, installers and Play.                    *)
THEOREM ProvisionTypeCorrect == Spec => []TypeOK
<1>1. ProvisionInv => TypeOK
  BY DEF ProvisionInv
<1>2. QED
  BY <1>1, ProvisionInductive, PTL

(* The game is started with Java, every vanilla file, Forge's libraries and *)
(* the natives in place, each but for what altered it or left it unfinished *)
(* itself.                                                                  *)
THEOREM ProvisionStartsComplete == Spec => []StartedComplete
<1>1. ProvisionInv => StartedComplete
  <2> SUFFICES ASSUME ProvisionInv, play.pc = "started" PROVE StartedComplete
    BY DEF StartedComplete
  <2>1. java \in {"good", "bad"} \/ Java \in hurt
    BY DEF ProvisionInv, VanillaInv, TypeOK
  <2>2. java = "good" \/ Java \in left
    BY <2>1 DEF ProvisionInv, LeftInv, TypeOK
  <2>3. \A f \in Vanilla : disk[f] = "good" \/ f \in hurt
    BY FileFacts DEF ProvisionInv, VanillaInv, AfterBatch, AfterForge
  <2>4. /\ disk[Json] = "good" \/ Json \in hurt \/ InHands(Json)
        /\ play.ran => \A f \in Own : disk[f] = "good" \/ f \in hurt
    BY DEF ProvisionInv, ForgeInv, AfterForge
  <2>5. \A f \in Forge : disk[f] = "good" \/ f \in left \/ InHands(f)
    <3>1. ~(disk[Json] = "absent" /\ Json \notin left /\ installers = {})
      BY <2>4 DEF InHands, ProvisionInv, TypeOK
    <3>2. QED
      BY <3>1 DEF ProvisionInv, ForgeInv
  <2>6. \A e \in Unpacked : natives[e] \in {"good", "soft"} \/ e \in left
    BY DEF ProvisionInv, NativesInv
  <2>7. play.soft => natives[OpenAL] = "soft" \/ OpenAL \in hurt \/ Cache \in left
    BY DEF ProvisionInv, SoftInv
  <2>8. QED
    BY <2>1, <2>2, <2>3, <2>4, <2>5, <2>6, <2>7 DEF StartedComplete
<1>2. QED
  BY <1>1, ProvisionInductive, PTL

(* The rules of every library are decided by the last one that applies.     *)
THEOREM ProvisionRulesAgree == Spec => []RulesAgree
<1>1. RulesAgree
  BY LastRuleDecides, ProvisionAssumption DEF RulesAgree, EveryRuleList
<1>2. QED
  BY <1>1, PTL

(* Every library once, as its first mention says, Forge's before vanilla's. *)
THEOREM ProvisionMergeShadows == Spec => []MergeShadows
<1>1. MergeShadows
  BY MergeKeepsFirst, ProvisionAssumption DEF MergeShadows, EveryLibraryList
<1>2. QED
  BY <1>1, PTL

=============================================================================
