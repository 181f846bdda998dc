----------------------------- MODULE LoopProofs -----------------------------
(***************************************************************************)
(* What other proofs need of numbers, and of a loop over a slice that      *)
(* keeps some of its elements, in their order: Hub.flush's over the topics *)
(* (LiveHub.NewsOf) and Capture.Clear's over what is held                  *)
(* (Recordings.HeldBut).  Such a loop is a function of how far it has      *)
(* gone; what it computes is shown by the least number that would refute   *)
(* it.  So is what a fold over a finite set comes to, of which the sums of *)
(* rows and the replay of a limit (Limits) are made; that a sum may be     *)
(* taken in any order, and a class at a time (UsageLog); and that a finite *)
(* set can be put in any order that is one (UsageLog.OrderBy).             *)
(***************************************************************************)
EXTENDS Naturals, Sequences, Functions, SequenceTheorems, FiniteSetTheorems, WellFoundedInduction, TLAPS

LEMMA LeastNumber ==
  ASSUME NEW S \in SUBSET Nat, S # {}
  PROVE  \E n \in S : \A k \in S : n <= k
<1> DEFINE less == OpToRel(<, Nat)
<1>1. IsWellFoundedOn(less, Nat)
  BY NatLessThanWellFounded
<1>2. \E n \in S : \A k \in S : ~ (<<k, n>> \in less)
  <2> HIDE DEF less
  <2>1. S \subseteq Nat
    OBVIOUS
  <2>2. QED
    BY <1>1, <2>1, WFMin
<1>3. PICK n \in S : \A k \in S : ~ (<<k, n>> \in OpToRel(<, Nat))
  BY <1>2
<1>4. \A k, m \in Nat : k < m => <<k, m>> \in OpToRel(<, Nat)
  BY DEF OpToRel
<1>5. \A k \in S : k \in Nat
  OBVIOUS
<1>6. \A k \in S : ~ (k < n)
  BY <1>3, <1>4, <1>5
<1>7. \A k \in S : n <= k
  BY <1>5, <1>6
<1>8. QED
  BY <1>7

---------------------------------------------------------------------------

\* What the loop over s has kept once it has gone through the n-th element,
\* given what it had before it: those in xs.
Further(s, xs, so, n) == IF s[n] \in xs THEN Append(so, s[n]) ELSE so

Loop(s, xs, f) ==
  f = [n \in 0..Len(s) |-> IF n = 0 THEN <<>> ELSE Further(s, xs, f[n - 1], n)]

\* g follows the loop through the first m elements.
Follows(s, xs, g, m) ==
  /\ g[0] = <<>>
  /\ \A n \in 1..m : g[n] = Further(s, xs, g[n - 1], n)

\* The loop ends: the number of steps it could be followed least far would be
\* one more than one it can.
LEMMA LoopRuns ==
  ASSUME NEW S, NEW s \in Seq(S), NEW xs
  PROVE  \E f : Loop(s, xs, f)
<1>1. Len(s) \in Nat
  OBVIOUS
<1> DEFINE Stuck == {m \in 0..Len(s) : ~ \E g : Follows(s, xs, g, m)}
<1>2. Stuck = {}
  <2>1. SUFFICES ASSUME Stuck # {} PROVE FALSE
    OBVIOUS
  <2>2. Stuck \in SUBSET Nat
    BY <1>1
  <2>3. PICK m \in Stuck : \A k \in Stuck : m <= k
    <3> HIDE DEF Stuck
    <3>1. QED
      BY <2>1, <2>2, LeastNumber
  <2>4. m \in Nat /\ m \in 0..Len(s) /\ ~ \E g : Follows(s, xs, g, m)
    BY <1>1, <2>3
  <2>5. CASE m = 0
    <3> DEFINE g == [n \in 0..0 |-> <<>>]
    <3>1. Follows(s, xs, g, 0)
      BY DEF Follows
    <3>2. QED
      BY <2>4, <2>5, <3>1
  <2>6. CASE m # 0
    <3>1. m - 1 \in 0..Len(s) /\ m - 1 \notin Stuck
      BY <1>1, <2>3, <2>4, <2>6
    <3>2. PICK g : Follows(s, xs, g, m - 1)
      BY <3>1
    <3> DEFINE h == [n \in 0..m |-> IF n < m THEN g[n] ELSE Further(s, xs, g[m - 1], m)]
    <3>3. h[0] = <<>>
      BY <2>4, <2>6, <3>2 DEF Follows
    <3>4. ASSUME NEW n \in 1..m PROVE h[n] = Further(s, xs, h[n - 1], n)
      <4>1. h[n - 1] = g[n - 1]
        BY <2>4, <2>6
      <4>2. CASE n = m
        BY <2>4, <4>1, <4>2
      <4>3. CASE n # m
        <5>1. n \in 1..(m - 1) /\ h[n] = g[n]
          BY <2>4, <4>3
        <5>2. QED
          BY <3>2, <4>1, <5>1 DEF Follows
      <4>4. QED
        BY <4>2, <4>3
    <3>5. Follows(s, xs, h, m)
      <4> HIDE DEF h
      <4>1. QED
        BY <3>3, <3>4 DEF Follows
    <3>6. QED
      BY <2>4, <3>5
  <2>7. QED
    BY <2>5, <2>6
<1>3. PICK g : Follows(s, xs, g, Len(s))
  BY <1>1, <1>2
<1> DEFINE f == [n \in 0..Len(s) |-> g[n]]
<1>4. ASSUME NEW n \in 0..Len(s)
      PROVE  f[n] = (IF n = 0 THEN <<>> ELSE Further(s, xs, f[n - 1], n))
  <2>1. CASE n = 0
    BY <1>1, <1>3, <2>1 DEF Follows
  <2>2. CASE n # 0
    <3>1. n \in 1..Len(s) /\ n - 1 \in 0..Len(s)
      BY <1>1, <2>2
    <3>2. f[n] = g[n] /\ f[n - 1] = g[n - 1]
      BY <3>1
    <3>3. QED
      BY <1>3, <2>2, <3>1, <3>2 DEF Follows
  <2>3. QED
    BY <2>1, <2>2
<1>5. f = [n \in 0..Len(s) |-> f[n]]
  OBVIOUS
<1>6. Loop(s, xs, f)
  <2> HIDE DEF f
  <2>1. QED
    BY <1>4, <1>5 DEF Loop
<1>7. QED
  BY <1>6

Distinct(s) == \A i, j \in 1..Len(s) : s[i] = s[j] => i = j

\* After m elements, so is what is kept of them: those in xs, each once if each
\* is there once.
Picks(S, s, xs, so, m) ==
  /\ so \in Seq(S) /\ Len(so) <= m
  /\ \A j \in 1..Len(so) : \E i \in 1..m : so[j] = s[i] /\ s[i] \in xs
  /\ \A i \in 1..m : s[i] \in xs => \E j \in 1..Len(so) : so[j] = s[i]
  /\ Distinct(s) => Distinct(so)

LEMMA PicksOn ==
  ASSUME NEW S, NEW s \in Seq(S), NEW xs, NEW m \in 1..Len(s), NEW so,
         Picks(S, s, xs, so, m - 1)
  PROVE  Picks(S, s, xs, Further(s, xs, so, m), m)
<1> DEFINE more == Further(s, xs, so, m)
<1>1. /\ m \in Nat /\ m <= Len(s) /\ s[m] \in S /\ Len(s) \in Nat
      /\ so \in Seq(S) /\ Len(so) \in Nat /\ Len(so) <= m - 1
  BY DEF Picks
<1>2. /\ \A j \in 1..Len(so) : \E i \in 1..(m - 1) : so[j] = s[i] /\ s[i] \in xs
      /\ \A i \in 1..(m - 1) : s[i] \in xs => \E j \in 1..Len(so) : so[j] = s[i]
      /\ Distinct(s) => Distinct(so)
  BY DEF Picks
<1>3. CASE s[m] \notin xs
  <2>1. more = so
    BY <1>3 DEF Further
  <2>2. \A i \in 1..(m - 1) : i \in 1..m
    BY <1>1
  <2>3. \A i \in 1..m : i = m \/ i \in 1..(m - 1)
    BY <1>1
  <2>4. /\ \A j \in 1..Len(so) : \E i \in 1..m : so[j] = s[i] /\ s[i] \in xs
        /\ \A i \in 1..m : s[i] \in xs => \E j \in 1..Len(so) : so[j] = s[i]
    BY <1>2, <1>3, <2>2, <2>3
  <2>5. Len(so) <= m
    BY <1>1
  <2>6. QED
    BY <1>1, <1>2, <2>1, <2>4, <2>5 DEF Picks
<1>4. CASE s[m] \in xs
  <2>1. /\ more \in Seq(S) /\ Len(more) = Len(so) + 1
        /\ \A j \in 1..Len(so) : more[j] = so[j]
        /\ more[Len(so) + 1] = s[m]
    <3>1. more = Append(so, s[m])
      BY <1>4 DEF Further
    <3> HIDE DEF more
    <3>2. QED
      BY <1>1, <3>1, AppendProperties
  <2> HIDE DEF more
  <2>2. \A j \in 1..Len(more) : j = Len(so) + 1 \/ j \in 1..Len(so)
    BY <1>1, <2>1
  <2>3. ASSUME NEW j \in 1..Len(more) PROVE \E i \in 1..m : more[j] = s[i] /\ s[i] \in xs
    <3>1. CASE j = Len(so) + 1
      BY <1>1, <1>4, <2>1, <3>1
    <3>2. CASE j \in 1..Len(so)
      <4>1. PICK i \in 1..(m - 1) : so[j] = s[i] /\ s[i] \in xs
        BY <1>2, <3>2
      <4>2. i \in 1..m /\ more[j] = so[j]
        BY <1>1, <2>1, <3>2
      <4>3. QED
        BY <4>1, <4>2
    <3>3. QED
      BY <2>2, <3>1, <3>2
  <2>4. ASSUME NEW i \in 1..m, s[i] \in xs PROVE \E j \in 1..Len(more) : more[j] = s[i]
    <3>1. CASE i = m
      BY <1>1, <2>1, <3>1
    <3>2. CASE i # m
      <4>1. i \in 1..(m - 1)
        BY <1>1, <3>2
      <4>2. PICK j \in 1..Len(so) : so[j] = s[i]
        BY <1>2, <2>4, <4>1
      <4>3. j \in 1..Len(more) /\ more[j] = so[j]
        BY <1>1, <2>1
      <4>4. QED
        BY <4>2, <4>3
    <3>3. QED
      BY <3>1, <3>2
  <2>5. ASSUME Distinct(s), NEW j \in 1..Len(more), NEW k \in 1..Len(more),
               more[j] = more[k], j < k
        PROVE  FALSE
    <3>1. CASE k \in 1..Len(so)
      <4>1. j \in 1..Len(so)
        BY <1>1, <2>5, <3>1
      <4>2. so[j] = so[k] /\ Distinct(so)
        BY <1>2, <2>1, <2>5, <3>1, <4>1
      <4>3. j = k
        BY <3>1, <4>1, <4>2 DEF Distinct
      <4>4. QED
        BY <1>1, <2>5, <3>1, <4>3
    <3>2. CASE k = Len(so) + 1
      <4>1. j \in 1..Len(so)
        BY <1>1, <2>5, <3>2
      <4>2. PICK i \in 1..(m - 1) : so[j] = s[i]
        BY <1>2, <4>1
      <4>3. s[i] = s[m]
        BY <2>1, <2>5, <3>2, <4>1, <4>2
      <4>4. i \in 1..Len(s) /\ m \in 1..Len(s) /\ i # m
        BY <1>1
      <4>5. QED
        BY <2>5, <4>3, <4>4 DEF Distinct
    <3>3. QED
      BY <2>2, <3>1, <3>2
  <2>6. Distinct(s) => Distinct(more)
    <3>1. SUFFICES ASSUME Distinct(s), NEW j \in 1..Len(more), NEW k \in 1..Len(more),
                          more[j] = more[k], j # k
                   PROVE  FALSE
      BY DEF Distinct
    <3>2. j < k \/ k < j
      BY <1>1, <2>1, <3>1
    <3>3. QED
      BY <2>5, <3>1, <3>2
  <2>7. Len(more) <= m
    BY <1>1, <2>1
  <2>8. QED
    BY <2>1, <2>3, <2>4, <2>6, <2>7 DEF Picks, more
<1>5. QED
  BY <1>3, <1>4

\* What the whole loop keeps.
LEMMA LoopPicks ==
  ASSUME NEW S, NEW s \in Seq(S), NEW xs, NEW f, Loop(s, xs, f)
  PROVE  Picks(S, s, xs, f[Len(s)], Len(s))
<1>1. Len(s) \in Nat
  OBVIOUS
<1>2. /\ f[0] = <<>>
      /\ \A n \in 1..Len(s) : f[n] = Further(s, xs, f[n - 1], n)
  BY <1>1 DEF Loop
<1> DEFINE Not == {m \in 0..Len(s) : ~ Picks(S, s, xs, f[m], m)}
<1>3. SUFFICES ASSUME Not # {} PROVE FALSE
  BY <1>1
<1>4. Not \in SUBSET Nat
  BY <1>1
<1>5. PICK m \in Not : \A k \in Not : m <= k
  <2> HIDE DEF Not
  <2>1. QED
    BY <1>3, <1>4, LeastNumber
<1>6. m \in Nat /\ m \in 0..Len(s) /\ ~ Picks(S, s, xs, f[m], m)
  BY <1>1, <1>5
<1>7. CASE m = 0
  <2>1. Picks(S, s, xs, <<>>, 0)
    BY EmptySeq DEF Picks, Distinct
  <2>2. QED
    BY <1>2, <1>6, <1>7, <2>1
<1>8. CASE m # 0
  <2>1. m \in 1..Len(s) /\ m - 1 \in 0..Len(s) /\ m - 1 \notin Not
    BY <1>1, <1>5, <1>6, <1>8
  <2>2. Picks(S, s, xs, f[m - 1], m - 1)
    BY <2>1
  <2>3. Picks(S, s, xs, Further(s, xs, f[m - 1], m), m)
    BY <2>1, <2>2, PicksOn
  <2>4. QED
    BY <1>2, <1>6, <2>1, <2>3
<1>9. QED
  BY <1>7, <1>8

---------------------------------------------------------------------------
(* Folds over a finite set *)

\* What a fold has made of the set s, once it has of every smaller one.
Folded(base, G, pick, it, s) == IF s = {} THEN base ELSE G[pick[s]][it[s \ {pick[s]}]]

\* A fold over the subsets of S: of values in V, and so made.
Folds(S, V, base, G, pick, it) ==
  it \in [SUBSET S -> V] /\ \A s \in SUBSET S : it[s] = Folded(base, G, pick, it, s)

\* Picks one of every set.
Picker(S, pick) == \A s \in (SUBSET S) \ {{}} : pick[s] \in s

LEMMA OneLess ==
  ASSUME NEW s, IsFiniteSet(s), NEW x \in s
  PROVE  Cardinality(s \ {x}) \in Nat /\ Cardinality(s) = Cardinality(s \ {x}) + 1 /\ IsFiniteSet(s \ {x})
<1>1. Cardinality(s \ {x}) = Cardinality(s) - 1 /\ IsFiniteSet(s \ {x})
  BY FS_RemoveElement
<1>2. Cardinality(s) \in Nat /\ Cardinality(s \ {x}) \in Nat
  BY <1>1, FS_CardinalityType
<1>3. QED
  BY <1>1, <1>2

LEMMA FoldRuns ==
  ASSUME NEW S, IsFiniteSet(S), NEW V, NEW base \in V, NEW G \in [S -> [V -> V]],
         NEW pick, Picker(S, pick)
  PROVE  \E it : Folds(S, V, base, G, pick, it)
<1> DEFINE Upto(it, n) == \A s \in SUBSET S : Cardinality(s) <= n => it[s] = Folded(base, G, pick, it, s)
           Stuck == {n \in Nat : ~ \E it \in [SUBSET S -> V] : Upto(it, n)}
<1>1. \A s \in SUBSET S : IsFiniteSet(s) /\ Cardinality(s) \in Nat
  BY FS_Subset, FS_CardinalityType
<1>2. ASSUME Stuck # {} PROVE FALSE
  <2>1. PICK n \in Stuck : \A k \in Stuck : n <= k
    <3>1. Stuck \in SUBSET Nat
      OBVIOUS
    <3> HIDE DEF Stuck
    <3>2. QED
      BY <1>2, <3>1, LeastNumber
  <2>2. n \in Nat /\ ~ \E it \in [SUBSET S -> V] : Upto(it, n)
    OBVIOUS
  <2>3. CASE n = 0
    <3> DEFINE it == [s \in SUBSET S |-> base]
    <3>1. it \in [SUBSET S -> V]
      OBVIOUS
    <3>2. ASSUME NEW s \in SUBSET S, Cardinality(s) <= 0 PROVE s = {}
      BY <1>1, <3>2, FS_EmptySet
    <3>3. Upto(it, 0)
      BY <3>2 DEF Folded
    <3>4. QED
      BY <2>2, <2>3, <3>1, <3>3
  <2>4. CASE n # 0
    <3>1. n - 1 \in Nat /\ n - 1 \notin Stuck
      <4>1. n - 1 \in Nat /\ ~ (n <= n - 1)
        BY <2>2, <2>4
      <4> HIDE DEF Stuck
      <4>2. QED
        BY <2>1, <4>1
    <3>2. PICK it \in [SUBSET S -> V] : Upto(it, n - 1)
      BY <3>1
    <3> DEFINE next == [s \in SUBSET S |-> IF Cardinality(s) <= n - 1 THEN it[s] ELSE Folded(base, G, pick, it, s)]
    <3>3. ASSUME NEW s \in SUBSET S PROVE Folded(base, G, pick, it, s) \in V
      <4>1. CASE s = {}
        BY <4>1 DEF Folded
      <4>2. CASE s # {}
        <5>1. pick[s] \in S /\ s \ {pick[s]} \in SUBSET S
          BY <4>2 DEF Picker
        <5>2. it[s \ {pick[s]}] \in V
          BY <5>1
        <5>3. G[pick[s]][it[s \ {pick[s]}]] \in V
          BY <5>1, <5>2
        <5>4. QED
          BY <4>2, <5>3 DEF Folded
      <4>3. QED
        BY <4>1, <4>2
    <3>4. next \in [SUBSET S -> V]
      <4> HIDE DEF Folded
      <4>1. QED
        BY <3>3
    <3>5. ASSUME NEW s \in SUBSET S, Cardinality(s) <= n
          PROVE  next[s] = Folded(base, G, pick, next, s)
      <4>1. next[s] = Folded(base, G, pick, it, s)
        BY <3>2
      <4>2. CASE s = {}
        BY <4>1, <4>2 DEF Folded
      <4>3. CASE s # {}
        <5>1. pick[s] \in s
          BY <4>3 DEF Picker
        <5>2. s \ {pick[s]} \in SUBSET S /\ Cardinality(s \ {pick[s]}) <= n - 1
          BY <1>1, <2>2, <3>5, <5>1, OneLess
        <5>3. next[s \ {pick[s]}] = it[s \ {pick[s]}]
          BY <5>2
        <5> HIDE DEF next
        <5>4. QED
          BY <4>1, <4>3, <5>3 DEF Folded
      <4>4. QED
        BY <4>2, <4>3
    <3>6. Upto(next, n)
      <4> HIDE DEF next
      <4>1. QED
        BY <3>5
    <3>7. QED
      <4> HIDE DEF next, Upto
      <4>1. QED
        BY <2>2, <3>4, <3>6
  <2>5. QED
    BY <2>3, <2>4
<1>3. Cardinality(S) \in Nat /\ Cardinality(S) \notin Stuck
  BY <1>1, <1>2
<1>4. PICK it \in [SUBSET S -> V] : Upto(it, Cardinality(S))
  BY <1>3
<1>5. \A s \in SUBSET S : Cardinality(s) <= Cardinality(S)
  BY FS_Subset
<1>6. Folds(S, V, base, G, pick, it)
  BY <1>4, <1>5 DEF Folds
<1>7. QED
  BY <1>6

\* Two folds over one set come to the same for its every subset where they do
\* once one more is in it.
Alike(S, it, jt) ==
  /\ it[{}] = jt[{}]
  /\ \A s \in (SUBSET S) \ {{}} : \E x \in s : it[s \ {x}] = jt[s \ {x}] => it[s] = jt[s]

SameOn(S, it, jt) == \A s \in SUBSET S : it[s] = jt[s]

LEMMA FoldsAgree ==
  ASSUME NEW S, IsFiniteSet(S), NEW it, NEW jt, Alike(S, it, jt)
  PROVE  SameOn(S, it, jt)
<1> DEFINE Apart == {s \in SUBSET S : it[s] # jt[s]}
           Sizes == {Cardinality(s) : s \in Apart}
<1>1. \A s \in SUBSET S : IsFiniteSet(s) /\ Cardinality(s) \in Nat
  BY FS_Subset, FS_CardinalityType
<1>2. ASSUME Apart # {} PROVE FALSE
  <2>1. Sizes \in SUBSET Nat /\ Sizes # {}
    BY <1>1, <1>2
  <2>2. PICK n \in Sizes : \A k \in Sizes : n <= k
    <3> HIDE DEF Sizes
    <3>1. QED
      BY <2>1, LeastNumber
  <2>3. PICK s \in Apart : n = Cardinality(s)
    OBVIOUS
  <2>4. s # {}
    BY DEF Alike
  <2>5. PICK x \in s : it[s \ {x}] = jt[s \ {x}] => it[s] = jt[s]
    BY <2>4 DEF Alike
  <2>6. s \ {x} \in Apart
    BY <2>5
  <2>7. n <= Cardinality(s \ {x})
    BY <2>2, <2>6
  <2>8. QED
    BY <1>1, <2>3, <2>7, OneLess
<1>3. QED
  BY <1>2 DEF SameOn

---------------------------------------------------------------------------
(* A sum over a finite set *)

AnyOf(s) == CHOOSE x \in s : TRUE
Totalled(w, f) ==
  f = [s \in SUBSET DOMAIN w |-> IF s = {} THEN 0 ELSE w[AnyOf(s)] + f[s \ {AnyOf(s)}]]

LEMMA AnyIsIn ==
  ASSUME NEW S, NEW s \in SUBSET S, s # {}
  PROVE  AnyOf(s) \in s /\ AnyOf(s) \in S /\ s \ {AnyOf(s)} \in SUBSET S
BY DEF AnyOf

LEMMA TotalRuns ==
  ASSUME NEW S, IsFiniteSet(S), NEW w \in [S -> Nat]
  PROVE  \E f \in [SUBSET S -> Nat] : Totalled(w, f)
<1> DEFINE picks == [s \in SUBSET S |-> AnyOf(s)]
           adds == [x \in S |-> [n \in Nat |-> w[x] + n]]
<1>1. Picker(S, picks)
  BY AnyIsIn DEF Picker
<1>2. adds \in [S -> [Nat -> Nat]]
  <2>1. \A x \in S : [n \in Nat |-> w[x] + n] \in [Nat -> Nat]
    OBVIOUS
  <2>2. QED
    BY <2>1
<1>3. PICK f : Folds(S, Nat, 0, adds, picks, f)
  <2> HIDE DEF adds, picks
  <2>1. 0 \in Nat
    OBVIOUS
  <2>2. QED
    BY <1>1, <1>2, <2>1, FoldRuns, Zenon
<1>4. ASSUME NEW s \in SUBSET S
      PROVE  f[s] = IF s = {} THEN 0 ELSE w[AnyOf(s)] + f[s \ {AnyOf(s)}]
  <2>1. CASE s = {}
    BY <1>3, <2>1 DEF Folded, Folds
  <2>2. CASE s # {}
    <3>1. picks[s] = AnyOf(s) /\ AnyOf(s) \in S /\ f[s \ {AnyOf(s)}] \in Nat
      BY <1>3, <2>2, AnyIsIn DEF Folds
    <3>2. f[s] = adds[AnyOf(s)][f[s \ {AnyOf(s)}]]
      <4> HIDE DEF picks, adds
      <4>1. QED
        BY <1>3, <2>2, <3>1 DEF Folded, Folds
    <3>3. QED
      BY <2>2, <3>1, <3>2
  <2>3. QED
    BY <2>1, <2>2
<1>5. Totalled(w, f) /\ f \in [SUBSET S -> Nat]
  BY <1>3, <1>4 DEF Totalled, Folds
<1>6. QED
  BY <1>5

\* The sum of some of the elements is what the recursion over more of them
\* comes to there.
LEMMA TotalsAgree ==
  ASSUME NEW S, IsFiniteSet(S), NEW w \in [S -> Nat], NEW ss \in SUBSET S, NEW v \in [ss -> Nat],
         \A x \in ss : v[x] = w[x], NEW f, NEW g, Totalled(w, f), Totalled(v, g)
  PROVE  f[ss] = g[ss]
<1>1. IsFiniteSet(ss)
  BY FS_Subset
<1>2. f[{}] = g[{}]
  BY DEF Totalled
<1>3. ASSUME NEW s \in (SUBSET ss) \ {{}} PROVE \E x \in s : f[s \ {x}] = g[s \ {x}] => f[s] = g[s]
  <2>1. AnyOf(s) \in s /\ AnyOf(s) \in ss
    BY AnyIsIn
  <2>2. f[s] = w[AnyOf(s)] + f[s \ {AnyOf(s)}] /\ g[s] = v[AnyOf(s)] + g[s \ {AnyOf(s)}]
    BY DEF Totalled
  <2>3. QED
    BY <2>1, <2>2
<1>4. Alike(ss, f, g)
  BY <1>2, <1>3 DEF Alike
<1>5. SameOn(ss, f, g)
  BY <1>1, <1>4, FoldsAgree, Zenon
<1>6. QED
  BY <1>5 DEF SameOn

LEMMA SumIsTotal ==
  ASSUME NEW S, IsFiniteSet(S), NEW w \in [S -> Nat], NEW f, Totalled(w, f), NEW ss \in SUBSET S,
         NEW v \in [ss -> Nat], \A x \in ss : v[x] = w[x]
  PROVE  SumFunction(v) = f[ss]
<1> DEFINE iter == CHOOSE iter : iter = [s \in SUBSET DOMAIN v |-> IF s = {} THEN 0
                                           ELSE v[CHOOSE x \in s : TRUE] + iter[s \ {CHOOSE x \in s : TRUE}]]
<1>1. SumFunction(v) = iter[DOMAIN v]
  BY DEF SumFunction, SumFunctionOnSet, FoldFunctionOnSet, MapThenFoldSet
<1>2. IsFiniteSet(ss) /\ DOMAIN v = ss
  BY FS_Subset
<1>3. \E g : Totalled(v, g)
  BY <1>2, TotalRuns
<1>4. Totalled(v, iter)
  BY <1>3 DEF Totalled, AnyOf
<1>5. QED
  <2> HIDE DEF iter
  <2>1. QED
    BY <1>1, <1>2, <1>4, TotalsAgree

LEMMA SumIsNatural ==
  ASSUME NEW S, IsFiniteSet(S), NEW w \in [S -> Nat]
  PROVE  SumFunction(w) \in Nat
<1>1. PICK f \in [SUBSET S -> Nat] : Totalled(w, f)
  BY TotalRuns
<1>2. SumFunction(w) = f[S]
  BY <1>1, SumIsTotal
<1>3. QED
  BY <1>2

Without(w, x) == [y \in DOMAIN w \ {x} |-> w[y]]

LEMMA WithoutIs ==
  ASSUME NEW S, NEW w \in [S -> Nat], NEW r \in S
  PROVE  Without(w, r) \in [S \ {r} -> Nat] /\ \A x \in S \ {r} : Without(w, r)[x] = w[x]
BY DEF Without

\* Whichever element is taken first.
LEMMA SumTakesAny ==
  ASSUME NEW S, IsFiniteSet(S), NEW w \in [S -> Nat], NEW r \in S
  PROVE  SumFunction(w) = w[r] + SumFunction(Without(w, r))
<1>1. PICK f \in [SUBSET S -> Nat] : Totalled(w, f)
  BY TotalRuns
<1> DEFINE Odd == {s \in SUBSET S : \E x \in s : f[s] # w[x] + f[s \ {x}]}
           Sizes == {Cardinality(s) : s \in Odd}
<1>2. \A s \in SUBSET S : IsFiniteSet(s) /\ Cardinality(s) \in Nat
  BY FS_Subset, FS_CardinalityType
<1>3. ASSUME Odd # {} PROVE FALSE
  <2>1. Sizes \in SUBSET Nat /\ Sizes # {}
    BY <1>2, <1>3
  <2>2. PICK n \in Sizes : \A k \in Sizes : n <= k
    <3> HIDE DEF Sizes
    <3>1. QED
      BY <2>1, LeastNumber
  <2>3. PICK s \in Odd : n = Cardinality(s)
    OBVIOUS
  <2>4. PICK x \in s : f[s] # w[x] + f[s \ {x}]
    OBVIOUS
  <2> DEFINE y == AnyOf(s)
  <2>5. y \in s /\ f[s] = w[y] + f[s \ {y}] /\ s \in SUBSET S /\ x # y
    BY <1>1, <2>4, AnyIsIn DEF Totalled
  <2>6. ASSUME NEW z \in s, NEW u \in s \ {z} PROVE f[s \ {z}] = w[u] + f[(s \ {z}) \ {u}]
    <3>1. Cardinality(s \ {z}) < n
      BY <1>2, <2>3, OneLess
    <3>2. s \ {z} \notin Odd
      <4>1. n \in Nat /\ Cardinality(s \ {z}) \in Nat /\ ~ (n <= Cardinality(s \ {z}))
        BY <1>2, <2>3, <3>1
      <4>2. \A t \in Odd : n <= Cardinality(t)
        BY <2>2
      <4> HIDE DEF Odd
      <4>3. QED
        BY <4>1, <4>2
    <3>3. QED
      BY <3>2
  <2> HIDE DEF y
  <2>7. f[s \ {y}] = w[x] + f[(s \ {y}) \ {x}] /\ f[s \ {x}] = w[y] + f[(s \ {x}) \ {y}]
    BY <2>5, <2>6
  <2>8. (s \ {y}) \ {x} = (s \ {x}) \ {y}
    OBVIOUS
  <2>9. w[x] \in Nat /\ w[y] \in Nat /\ f[(s \ {x}) \ {y}] \in Nat
    BY <2>5
  <2>10. \A c, d, e \in Nat : d + (c + e) = c + (d + e)
    OBVIOUS
  <2>11. f[(s \ {y}) \ {x}] = f[(s \ {x}) \ {y}]
    BY <2>8
  <2>12. f[s] = w[y] + (w[x] + f[(s \ {x}) \ {y}])
    BY <2>5, <2>7, <2>11
  <2>13. f[s] = w[x] + (w[y] + f[(s \ {x}) \ {y}])
    BY <2>9, <2>10, <2>12
  <2>14. QED
    BY <2>4, <2>7, <2>13
<1>4. f[S] = w[r] + f[S \ {r}]
  BY <1>3
<1>5. Without(w, r) \in [S \ {r} -> Nat] /\ \A x \in S \ {r} : Without(w, r)[x] = w[x]
  BY DEF Without
<1>6. SumFunction(w) = f[S]
  BY <1>1, SumIsTotal
<1>7. SumFunction(Without(w, r)) = f[S \ {r}]
  <2>1. S \ {r} \in SUBSET S
    OBVIOUS
  <2>2. QED
    BY <1>1, <1>5, <2>1, SumIsTotal
<1>8. QED
  BY <1>4, <1>5, <1>6, <1>7

\* What is shown of one sum from that of an element less, for every set.
Grows(S, it) == \A s \in SUBSET S : s # {} => \E x \in s : it[s \ {x}] => it[s]
LEMMA SumGrows ==
  ASSUME NEW S, IsFiniteSet(S), NEW it \in [SUBSET S -> BOOLEAN], it[{}], Grows(S, it)
  PROVE  it[S]
<1> DEFINE all == [s \in SUBSET S |-> TRUE]
<1>1. all[{}] = it[{}]
  OBVIOUS
<1>2. ASSUME NEW s \in (SUBSET S) \ {{}}
      PROVE  \E x \in s : it[s \ {x}] = all[s \ {x}] => it[s] = all[s]
  <2>1. PICK x \in s : it[s \ {x}] => it[s]
    BY DEF Grows
  <2>2. it[s] \in BOOLEAN /\ it[s \ {x}] \in BOOLEAN /\ all[s] = TRUE /\ all[s \ {x}] = TRUE
    OBVIOUS
  <2>3. QED
    BY <2>1, <2>2
<1>3. Alike(S, it, all)
  BY <1>1, <1>2 DEF Alike
<1>4. SameOn(S, it, all)
  <2> HIDE DEF all
  <2>1. QED
    BY <1>3, FoldsAgree
<1>5. QED
  BY <1>4 DEF SameOn

\* A sum of zeros.
LEMMA ZerosSum ==
  ASSUME NEW S, IsFiniteSet(S), NEW w \in [S -> Nat], \A x \in S : w[x] = 0
  PROVE  SumFunction(w) = 0
<1> DEFINE f == [s \in SUBSET S |-> 0]
<1>1. Totalled(w, f)
  <2>1. \A s \in SUBSET S : s # {} => w[AnyOf(s)] = 0 /\ f[s \ {AnyOf(s)}] = 0
    BY AnyIsIn
  <2>2. ASSUME NEW s \in SUBSET S PROVE f[s] = IF s = {} THEN 0 ELSE w[AnyOf(s)] + f[s \ {AnyOf(s)}]
    <3>1. f[s] = 0 /\ 0 + 0 = 0
      OBVIOUS
    <3> HIDE DEF f
    <3>2. QED
      BY <2>1, <3>1
  <2>3. QED
    BY <2>2 DEF Totalled
<1>2. SumFunction(w) = f[S]
  <2> HIDE DEF f
  <2>1. QED
    BY <1>1, SumIsTotal
<1>3. QED
  BY <1>2

LEMMA NothingSums ==
  ASSUME NEW S, S = {}, NEW w \in [S -> Nat]
  PROVE  SumFunction(w) = 0
<1>1. IsFiniteSet(S) /\ \A x \in S : w[x] = 0
  BY FS_EmptySet
<1>2. QED
  BY <1>1, ZerosSum

\* The sum of each class of a set, over the classes, is that of the set.
OfClass(w, p, s, k) == [x \in {y \in s : p[y] = k} |-> w[x]]
OfClasses(w, p, s, K) == [k \in K |-> SumFunction(OfClass(w, p, s, k))]
Some(w, s) == [x \in s |-> w[x]]

LEMMA ClassIs ==
  ASSUME NEW S, IsFiniteSet(S), NEW w \in [S -> Nat], NEW K, NEW p \in [S -> K], NEW s \in SUBSET S
  PROVE  /\ IsFiniteSet(s) /\ Some(w, s) \in [s -> Nat] /\ SumFunction(Some(w, s)) \in Nat
         /\ \A k \in K : SumFunction(OfClass(w, p, s, k)) \in Nat
         /\ OfClasses(w, p, s, K) \in [K -> Nat]
<1>1. IsFiniteSet(s) /\ Some(w, s) \in [s -> Nat]
  BY FS_Subset DEF Some
<1>2. ASSUME NEW k \in K PROVE SumFunction(OfClass(w, p, s, k)) \in Nat
  <2> DEFINE class == {y \in s : p[y] = k}
  <2>1. OfClass(w, p, s, k) \in [class -> Nat] /\ IsFiniteSet(class)
    BY <1>1, FS_Subset DEF OfClass
  <2> HIDE DEF class
  <2>2. QED
    BY <2>1, SumIsNatural
<1>3. SumFunction(Some(w, s)) \in Nat
  BY <1>1, SumIsNatural
<1>4. QED
  BY <1>1, <1>2, <1>3 DEF OfClasses

LEMMA ClassTakesAny ==
  ASSUME NEW S, IsFiniteSet(S), NEW w \in [S -> Nat], NEW K, IsFiniteSet(K), NEW p \in [S -> K],
         NEW s \in SUBSET S, NEW x \in s
  PROVE  SumFunction(OfClasses(w, p, s, K)) = w[x] + SumFunction(OfClasses(w, p, s \ {x}, K))
<1> DEFINE a == OfClasses(w, p, s, K)
           b == OfClasses(w, p, s \ {x}, K)
           h == p[x]
<1>1. h \in K /\ s \ {x} \in SUBSET S /\ w[x] \in Nat
  OBVIOUS
<1>2. a \in [K -> Nat] /\ b \in [K -> Nat]
  BY <1>1, ClassIs
<1>3. a[h] = w[x] + b[h]
  <2> DEFINE class == {y \in s : p[y] = h}
             v == OfClass(w, p, s, h)
  <2>1. v \in [class -> Nat] /\ IsFiniteSet(class) /\ x \in class /\ v[x] = w[x]
    BY ClassIs, FS_Subset DEF OfClass
  <2>2. Without(v, x) = OfClass(w, p, s \ {x}, h)
    <3>1. DOMAIN v \ {x} = {y \in s \ {x} : p[y] = h}
      BY DEF OfClass
    <3>2. \A y \in DOMAIN v \ {x} : v[y] = w[y]
      BY DEF OfClass
    <3> HIDE DEF v
    <3>3. QED
      BY <3>1, <3>2 DEF OfClass, Without
  <2>3. SumFunction(v) = v[x] + SumFunction(Without(v, x))
    <3> HIDE DEF v, class
    <3>1. QED
      BY <2>1, SumTakesAny
  <2>4. a[h] = SumFunction(v) /\ b[h] = SumFunction(OfClass(w, p, s \ {x}, h))
    BY <1>1 DEF OfClasses
  <2> HIDE DEF a, b, v, class, h
  <2>5. QED
    BY <2>1, <2>2, <2>3, <2>4
<1>4. Without(a, h) = Without(b, h)
  <2>1. ASSUME NEW k \in K \ {h} PROVE a[k] = b[k]
    <3>1. {y \in s : p[y] = k} = {y \in s \ {x} : p[y] = k}
      BY <2>1
    <3>2. OfClass(w, p, s, k) = OfClass(w, p, s \ {x}, k)
      BY <3>1 DEF OfClass
    <3>3. QED
      BY <3>2 DEF OfClasses
  <2>2. DOMAIN a = K /\ DOMAIN b = K
    BY DEF OfClasses
  <2> HIDE DEF a, b, h
  <2>3. QED
    BY <2>1, <2>2 DEF Without
<1> HIDE DEF a, b, h
<1>5. /\ SumFunction(a) = a[h] + SumFunction(Without(a, h))
      /\ SumFunction(b) = b[h] + SumFunction(Without(b, h))
      /\ Without(b, h) \in [K \ {h} -> Nat] /\ IsFiniteSet(K \ {h})
  BY <1>1, <1>2, SumTakesAny, WithoutIs, FS_Subset
<1>6. SumFunction(Without(b, h)) \in Nat /\ b[h] \in Nat
  BY <1>1, <1>2, <1>5, SumIsNatural
<1>7. SumFunction(a) = w[x] + SumFunction(b)
  BY <1>1, <1>3, <1>4, <1>5, <1>6
<1>8. QED
  BY <1>7 DEF a, b

LEMMA ClassesSum ==
  ASSUME NEW S, IsFiniteSet(S), NEW w \in [S -> Nat], NEW K, IsFiniteSet(K), NEW p \in [S -> K]
  PROVE  SumFunction(OfClasses(w, p, S, K)) = SumFunction(w)
<1> DEFINE it == [s \in SUBSET S |-> SumFunction(OfClasses(w, p, s, K)) = SumFunction(Some(w, s))]
<1>1. it \in [SUBSET S -> BOOLEAN]
  OBVIOUS
<1>2. it[{}]
  <2> DEFINE none == {s \in SUBSET S : s = {}}
  <2>1. ASSUME NEW s \in none PROVE SumFunction(OfClasses(w, p, s, K)) = SumFunction(Some(w, s))
    <3>1. s \in SUBSET S /\ s = {}
      OBVIOUS
    <3>2. SumFunction(Some(w, s)) = 0
      BY <3>1, ClassIs, NothingSums
    <3>3. ASSUME NEW k \in K PROVE OfClasses(w, p, s, K)[k] = 0
      <4> DEFINE class == {y \in s : p[y] = k}
      <4>1. class = {} /\ OfClass(w, p, s, k) \in [class -> Nat]
        BY <3>1 DEF OfClass
      <4> HIDE DEF class
      <4>2. SumFunction(OfClass(w, p, s, k)) = 0
        BY <4>1, NothingSums
      <4>3. QED
        BY <4>2 DEF OfClasses
    <3>4. QED
      BY <3>1, <3>2, <3>3, ClassIs, ZerosSum
  <2>2. QED
    BY <2>1
<1>3. ASSUME NEW s \in SUBSET S, s # {} PROVE \E x \in s : it[s \ {x}] => it[s]
  <2>1. PICK x \in s : TRUE
    BY <1>3
  <2>2. SumFunction(OfClasses(w, p, s, K)) = w[x] + SumFunction(OfClasses(w, p, s \ {x}, K))
    BY ClassTakesAny
  <2>3. SumFunction(Some(w, s)) = Some(w, s)[x] + SumFunction(Without(Some(w, s), x))
    <3>1. IsFiniteSet(s) /\ Some(w, s) \in [s -> Nat]
      BY ClassIs
    <3>2. QED
      BY <3>1, SumTakesAny
  <2>4. Some(w, s)[x] = w[x] /\ Without(Some(w, s), x) = Some(w, s \ {x})
    BY DEF Some, Without
  <2>5. s \ {x} \in SUBSET S
    OBVIOUS
  <2>6. QED
    BY <2>2, <2>3, <2>4, <2>5
<1> HIDE DEF it
<1>4. it[S]
  BY <1>1, <1>2, <1>3, SumGrows DEF Grows
<1>5. Some(w, S) = w
  BY DEF Some
<1>6. QED
  BY <1>4, <1>5 DEF it


\* A set is as large as the sum of ones over it, and so is the part of it that
\* is marked.
LEMMA OnesCount ==
  ASSUME NEW S, IsFiniteSet(S), NEW e \in [S -> BOOLEAN],
         NEW w \in [S -> Nat], \A x \in S : w[x] = IF e[x] THEN 1 ELSE 0
  PROVE  SumFunction(w) = Cardinality({x \in S : e[x]})
<1> DEFINE marked(s) == {x \in s : e[x]}
           it == [s \in SUBSET S |-> SumFunction(Some(w, s)) = Cardinality(marked(s))]
<1>1. it \in [SUBSET S -> BOOLEAN]
  OBVIOUS
<1>2. ASSUME NEW s \in SUBSET S PROVE /\ IsFiniteSet(s) /\ Some(w, s) \in [s -> Nat]
                                      /\ IsFiniteSet(marked(s)) /\ Cardinality(marked(s)) \in Nat
  <2>1. IsFiniteSet(s) /\ IsFiniteSet(marked(s))
    BY FS_Subset
  <2>2. QED
    BY <2>1, FS_CardinalityType DEF Some
<1>3. it[{}]
  <2>1. ASSUME NEW s \in SUBSET S, s = {} PROVE SumFunction(Some(w, s)) = Cardinality(marked(s))
    <3>1. marked(s) = {}
      BY <2>1
    <3>2. SumFunction(Some(w, s)) = 0
      BY <1>2, <2>1, NothingSums
    <3>3. QED
      BY <3>1, <3>2, FS_EmptySet
  <2>2. QED
    BY <2>1
<1>4. ASSUME NEW s \in SUBSET S, s # {} PROVE \E x \in s : it[s \ {x}] => it[s]
  <2>1. PICK x \in s : TRUE
    BY <1>4
  <2>2. s \ {x} \in SUBSET S /\ w[x] = IF e[x] THEN 1 ELSE 0
    OBVIOUS
  <2>3. SumFunction(Some(w, s)) = w[x] + SumFunction(Some(w, s \ {x}))
    <3>1. Some(w, s)[x] = w[x] /\ Without(Some(w, s), x) = Some(w, s \ {x})
      BY DEF Some, Without
    <3>2. IsFiniteSet(s) /\ Some(w, s) \in [s -> Nat]
      BY <1>2
    <3>3. QED
      BY <3>1, <3>2, SumTakesAny
  <2>4. Cardinality(marked(s)) = w[x] + Cardinality(marked(s \ {x}))
    <3>1. CASE e[x]
      <4>1. marked(s \ {x}) = marked(s) \ {x} /\ x \in marked(s) /\ w[x] = 1
        BY <2>2, <3>1
      <4>2. IsFiniteSet(marked(s))
        BY <1>2
      <4> HIDE DEF marked
      <4>3. Cardinality(marked(s)) = Cardinality(marked(s) \ {x}) + 1 /\ Cardinality(marked(s) \ {x}) \in Nat
        BY <4>1, <4>2, OneLess
      <4>4. Cardinality(marked(s \ {x})) = Cardinality(marked(s) \ {x}) /\ w[x] = 1
        BY <4>1, Zenon
      <4>5. QED
        BY <4>3, <4>4
    <3>2. CASE ~ e[x]
      <4>1. marked(s \ {x}) = marked(s) /\ w[x] = 0
        BY <2>2, <3>2
      <4>2. Cardinality(marked(s)) \in Nat
        BY <1>2
      <4> HIDE DEF marked
      <4>3. QED
        BY <4>1, <4>2
    <3>3. QED
      BY <3>1, <3>2
  <2> HIDE DEF marked
  <2>5. QED
    BY <2>2, <2>3, <2>4
<1> HIDE DEF it, marked
<1>5. it[S]
  BY <1>1, <1>3, <1>4, SumGrows DEF Grows
<1>6. Some(w, S) = w
  BY DEF Some
<1>7. QED
  BY <1>5, <1>6 DEF it, marked

---------------------------------------------------------------------------
(* Sorting a finite set *)

\* A strict order in which any two are one before the other.
Orders(R, S) ==
  /\ \A x, y \in S : x # y => <<x, y>> \in R \/ <<y, x>> \in R
  /\ \A x \in S : <<x, x>> \notin R
  /\ \A x, y, z \in S : <<x, y>> \in R /\ <<y, z>> \in R => <<x, z>> \in R

Sorts(R, S, s) == s \in [1 .. Cardinality(S) -> S] /\ \A i, j \in DOMAIN s : i < j => <<s[i], s[j]>> \in R

LEMMA HasLast ==
  ASSUME NEW S, IsFiniteSet(S), S # {}, NEW R, Orders(R, S)
  PROVE  \E m \in S : \A x \in S : x # m => <<x, m>> \in R
<1> DEFINE it == [s \in SUBSET S |-> s # {} => \E m \in s : \A x \in s : x # m => <<x, m>> \in R]
<1>1. it \in [SUBSET S -> BOOLEAN]
  OBVIOUS
<1>2. it[{}]
  OBVIOUS
<1>3. ASSUME NEW s \in SUBSET S, s # {} PROVE \E x \in s : it[s \ {x}] => it[s]
  <2>1. PICK x \in s : TRUE
    BY <1>3
  <2>2. s \ {x} \in SUBSET S
    OBVIOUS
  <2>3. CASE s \ {x} = {}
    <3>1. \A y \in s : y = x
      BY <2>3
    <3>2. QED
      BY <2>1, <3>1
  <2>4. CASE s \ {x} # {}
    <3>1. SUFFICES ASSUME it[s \ {x}] PROVE it[s]
      BY <2>1
    <3>2. PICK m \in s \ {x} : \A y \in s \ {x} : y # m => <<y, m>> \in R
      BY <2>2, <2>4, <3>1
    <3>3. CASE <<x, m>> \in R
      <4>1. \A y \in s : y # m => <<y, m>> \in R
        BY <3>2, <3>3
      <4>2. QED
        BY <3>2, <4>1
    <3>4. CASE <<m, x>> \in R
      <4>1. ASSUME NEW y \in s, y # x PROVE <<y, x>> \in R
        <5>1. CASE y = m
          BY <3>4, <5>1
        <5>2. CASE y # m
          <6>1. <<y, m>> \in R
            BY <3>2, <4>1, <5>2
          <6>2. QED
            BY <3>2, <3>4, <6>1 DEF Orders
        <5>3. QED
          BY <5>1, <5>2
      <4>2. QED
        BY <4>1
    <3>5. QED
      BY <3>2, <3>3, <3>4 DEF Orders
  <2>5. QED
    BY <2>3, <2>4
<1> HIDE DEF it
<1>4. it[S]
  BY <1>1, <1>2, <1>3, SumGrows DEF Grows
<1>5. QED
  BY <1>4 DEF it

LEMMA Sorted ==
  ASSUME NEW S, IsFiniteSet(S), NEW R, Orders(R, S)
  PROVE  \E s : Sorts(R, S, s)
<1> DEFINE Unsorted == {c \in SUBSET S : ~ \E s : Sorts(R, c, s)}
           Sizes == {Cardinality(c) : c \in Unsorted}
<1>1. \A c \in SUBSET S : IsFiniteSet(c) /\ Cardinality(c) \in Nat /\ Orders(R, c)
  BY FS_Subset, FS_CardinalityType DEF Orders
<1>2. ASSUME Unsorted # {} PROVE FALSE
  <2>1. Sizes \in SUBSET Nat /\ Sizes # {}
    BY <1>1, <1>2
  <2>2. PICK n \in Sizes : \A k \in Sizes : n <= k
    <3> HIDE DEF Sizes
    <3>1. QED
      BY <2>1, LeastNumber
  <2>3. PICK c \in Unsorted : n = Cardinality(c)
    OBVIOUS
  <2>4. n \in Nat /\ c \in SUBSET S /\ ~ \E s : Sorts(R, c, s)
    BY <1>1, <2>3
  <2>5. CASE c = {}
    <3> DEFINE s == [i \in 1 .. Cardinality(c) |-> i]
    <3>1. Cardinality(c) = 0
      BY <2>5, FS_EmptySet
    <3>2. s \in [1 .. Cardinality(c) -> c] /\ DOMAIN s = {}
      BY <3>1
    <3> HIDE DEF s
    <3>3. Sorts(R, c, s)
      BY <3>2 DEF Sorts
    <3>4. QED
      BY <2>4, <3>3
  <2>6. CASE c # {}
    <3>1. PICK m \in c : \A x \in c : x # m => <<x, m>> \in R
      BY <1>1, <2>4, <2>6, HasLast
    <3>2. Cardinality(c \ {m}) \in Nat /\ Cardinality(c) = Cardinality(c \ {m}) + 1
      BY <1>1, <2>4, OneLess
    <3>3. c \ {m} \notin Unsorted
      <4>1. ~ (n <= Cardinality(c \ {m}))
        BY <2>3, <2>4, <3>2
      <4>2. \A t \in Unsorted : n <= Cardinality(t)
        BY <2>2
      <4> HIDE DEF Unsorted
      <4>3. QED
        BY <4>1, <4>2
    <3>4. PICK s : Sorts(R, c \ {m}, s)
      BY <2>4, <3>3
    <3> DEFINE k == Cardinality(c \ {m})
               t == [i \in 1 .. k + 1 |-> IF i = k + 1 THEN m ELSE s[i]]
    <3>5. \A i \in 1 .. k : s[i] \in c /\ s[i] # m /\ \A j \in 1 .. k : i < j => <<s[i], s[j]>> \in R
      BY <3>4 DEF Sorts
    <3>6. t \in [1 .. Cardinality(c) -> c]
      <4>1. \A i \in 1 .. k + 1 : i # k + 1 => i \in 1 .. k
        BY <3>2
      <4>2. \A i \in 1 .. k + 1 : t[i] \in c
        BY <3>5, <4>1
      <4>3. QED
        BY <3>2, <4>2
    <3>7. ASSUME NEW i \in 1 .. k + 1, NEW j \in 1 .. k + 1, i < j PROVE <<t[i], t[j]>> \in R
      <4>1. i \in 1 .. k /\ t[i] = s[i]
        BY <3>2, <3>7
      <4>2. CASE j = k + 1
        BY <3>1, <3>5, <4>1, <4>2
      <4>3. CASE j # k + 1
        <5>1. j \in 1 .. k /\ t[j] = s[j]
          BY <3>2, <4>3
        <5>2. QED
          BY <3>5, <3>7, <4>1, <5>1
      <4>4. QED
        BY <4>2, <4>3
    <3>8. Sorts(R, c, t)
      <4>1. DOMAIN t = 1 .. k + 1
        OBVIOUS
      <4> HIDE DEF t, k
      <4>2. QED
        BY <3>6, <3>7, <4>1 DEF Sorts
    <3>9. QED
      BY <2>4, <3>8
  <2>7. QED
    BY <2>5, <2>6
<1>3. QED
  BY <1>2

\* Everything that is sorted is somewhere, once.
LEMMA SortedWhole ==
  ASSUME NEW S, IsFiniteSet(S), NEW R, Orders(R, S), NEW s, Sorts(R, S, s)
  PROVE  /\ \A x \in S : \E i \in 1 .. Cardinality(S) : s[i] = x
         /\ \A i, j \in 1 .. Cardinality(S) : <<s[i], s[j]>> \in R => i < j
<1> DEFINE n == Cardinality(S)
<1>1. n \in Nat /\ s \in [1 .. n -> S] /\ DOMAIN s = 1 .. n
  BY FS_CardinalityType DEF Sorts
<1>2. \A i, j \in 1 .. n : i < j => <<s[i], s[j]>> \in R
  BY <1>1 DEF Sorts
<1>3. \A i, j \in 1 .. n : i # j => s[i] # s[j]
  <2>1. SUFFICES ASSUME NEW i \in 1 .. n, NEW j \in 1 .. n, i < j, s[i] = s[j] PROVE FALSE
    BY <1>1
  <2>2. <<s[i], s[i]>> \in R /\ s[i] \in S
    BY <1>1, <1>2, <2>1
  <2>3. QED
    BY <2>2 DEF Orders
<1>4. \A x \in S : \E i \in 1 .. n : s[i] = x
  <2>1. s \in Injection(1 .. n, S)
    BY <1>1, <1>3 DEF Injection, IsInjective
  <2>2. IsFiniteSet(1 .. n) /\ Cardinality(1 .. n) = n
    BY <1>1, FS_Interval
  <2>3. s \in Surjection(1 .. n, S)
    BY <2>1, <2>2, FS_Injection
  <2>4. QED
    BY <2>3 DEF Surjection
<1>5. ASSUME NEW i \in 1 .. n, NEW j \in 1 .. n, <<s[i], s[j]>> \in R PROVE i < j
  <2>1. CASE j < i
    <3>1. <<s[j], s[i]>> \in R /\ s[i] \in S /\ s[j] \in S
      BY <1>1, <1>2, <2>1
    <3>2. <<s[i], s[i]>> \in R
      BY <1>5, <3>1 DEF Orders
    <3>3. QED
      BY <3>1, <3>2 DEF Orders
  <2>2. CASE i = j
    BY <1>1, <1>5, <2>2 DEF Orders
  <2>3. QED
    BY <1>1, <2>1, <2>2
<1>6. QED
  BY <1>4, <1>5
=============================================================================
