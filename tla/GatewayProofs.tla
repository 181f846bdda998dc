--------------------------- MODULE GatewayProofs ---------------------------
(***************************************************************************)
(* What the gateway keeps on the way of a request.  The limits of its key, *)
(* for any number of requests at once and any counts and periods, and the  *)
(* figures that go with them: what a key has spent, for any costs and      *)
(* rows, and what an operator is shown of a limit; then the relay of what  *)
(* was let in, for any accounts, any number of attempts and any lengths of *)
(* the hold, its pauses and the keepalive.                                 *)
(***************************************************************************)
EXTENDS Limits, RelayAttempts, LoopProofs, SequenceTheorems, FiniteSetTheorems, TLAPS

---------------------------------------------------------------------------
(* The rate of a key *)

Bucket == [tokens : Nat, last : Nat, there : BOOLEAN]
Use == [at : Nat, in : BOOLEAN]

RateTypes ==
  /\ tick \in Nat \ {0}
  /\ buckets \in [Limited -> Bucket]
  /\ uses \in Seq(Use) /\ spares \in Seq(Nat)
  /\ drops \in SUBSET Nat /\ IsFiniteSet(drops)
  /\ \A b \in Limited : buckets[b].last <= tick /\ buckets[b].tokens <= Count(b) * Period

\* What a bucket holds now.
Level == Refilled(buckets["key"], KeyCount, tick)

LEMMA Distributed ==
  /\ \A x, y \in Nat : x * y \in Nat /\ (x + 1) * y = x * y + y /\ 1 * y = y /\ 0 * y = 0
  /\ \A x, y, z \in Nat : x <= y => x * z <= y * z
<1>1. \A x, y \in Nat : x * y \in Nat /\ (x + 1) * y = x * y + y /\ 1 * y = y /\ 0 * y = 0
  BY SMT
<1>2. ASSUME NEW x \in Nat, NEW y \in Nat, NEW z \in Nat, x <= y PROVE x * z <= y * z
  <2> DEFINE d == y - x
  <2>1. d \in Nat /\ y = x + d
    BY <1>2
  <2>2. d * z \in Nat
    BY <2>1, <1>1
  <2> HIDE DEF d
  <2>3. y * z = x * z + d * z
    BY <2>1, SMT
  <2>4. x * z \in Nat
    BY <1>1
  <2>5. QED
    BY <2>2, <2>3, <2>4
<1>3. QED
  BY <1>1, <1>2

LEMMA Sums ==
  /\ \A x, y \in Nat : \A z \in Int : x + y <= z => x <= z
  /\ \A n, m, k, x, y \in Nat : \A z \in Int :
        n + x <= z /\ m = n + k /\ y + k = x => m + y <= z
  /\ \A n, f, g, k, x, y \in Nat : n + x <= f + g /\ y <= x + k => n + y <= f + (g + k)
OBVIOUS

\* Min of two.
LEMMA Smaller ==
  ASSUME NEW x \in Nat, NEW y \in Nat
  PROVE  Min({x, y}) = IF x <= y THEN x ELSE y
<1> DEFINE m == IF x <= y THEN x ELSE y
<1>1. m \in {x, y} /\ \A z \in {x, y} : m <= z
  OBVIOUS
<1>2. \A n \in {x, y} : (\A z \in {x, y} : n <= z) => n = m
  OBVIOUS
<1> HIDE DEF m
<1>3. (CHOOSE n \in {x, y} : \A z \in {x, y} : n <= z) = m
  BY <1>1, <1>2
<1>4. Min({x, y}) = m
  BY <1>3 DEF Min
<1>5. QED
  BY <1>4 DEF m

\* What a refill makes of a bucket.
LEMMA Refills ==
  ASSUME NEW b \in Bucket, NEW n \in Nat \ {0}, NEW t \in Nat, b.last <= t
  PROVE  /\ Refilled(b, n, t) \in Nat /\ Refilled(b, n, t) <= n * Period
         /\ ~b.there => Refilled(b, n, t) = n * Period
         /\ b.there => LET more == b.tokens + (t - b.last) * n
                       IN  Refilled(b, n, t) = IF n * Period <= more THEN n * Period ELSE more
         /\ (t - b.last) * n \in Nat /\ n * Period \in Nat
<1> DEFINE full == n * Period
           gained == (t - b.last) * n
<1>1. full \in Nat /\ gained \in Nat /\ b.tokens + gained \in Nat /\ b.there \in BOOLEAN
  <2>1. t - b.last \in Nat /\ b.tokens \in Nat /\ Period \in Nat /\ n \in Nat /\ b.there \in BOOLEAN
    BY CountsAreNumbers DEF Bucket
  <2>2. QED
    BY <2>1, Distributed
<1>2. Refilled(b, n, t) = IF ~b.there THEN full ELSE Min({full, b.tokens + gained})
  BY DEF Refilled
<1> HIDE DEF full, gained
<1>3. Min({full, b.tokens + gained}) = IF full <= b.tokens + gained THEN full ELSE b.tokens + gained
  BY <1>1, Smaller
<1>4. QED
  BY <1>1, <1>2, <1>3 DEF full, gained

\* A tick brings at most a count more, and takes nothing.
LEMMA TickBrings ==
  ASSUME NEW b \in Bucket, NEW n \in Nat \ {0}, NEW t \in Nat, b.last <= t
  PROVE  /\ Refilled(b, n, t + 1) <= Refilled(b, n, t) + n
         /\ Refilled(b, n, t) <= Refilled(b, n, t + 1)
<1> DEFINE full == n * Period
           gained == (t - b.last) * n
           later == ((t + 1) - b.last) * n
<1>1. gained \in Nat /\ full \in Nat /\ b.tokens \in Nat /\ b.last <= t + 1
  BY Refills DEF Bucket
<1>2. later = gained + n
  <2>1. t - b.last \in Nat /\ (t + 1) - b.last = (t - b.last) + 1 /\ n \in Nat
    BY DEF Bucket
  <2>2. QED
    BY <2>1, Distributed
<1>3. b.there => Refilled(b, n, t) = IF full <= b.tokens + gained THEN full ELSE b.tokens + gained
  BY Refills
<1>4. /\ b.there => Refilled(b, n, t + 1) = IF full <= b.tokens + later THEN full ELSE b.tokens + later
      /\ ~b.there => Refilled(b, n, t + 1) = full
  <2> DEFINE u == t + 1
  <2>1. u \in Nat /\ b.last <= u
    BY <1>1
  <2> HIDE DEF u
  <2>2. /\ b.there => Refilled(b, n, u) = IF full <= b.tokens + (u - b.last) * n THEN full
                                          ELSE b.tokens + (u - b.last) * n
        /\ ~b.there => Refilled(b, n, u) = full
    BY <2>1, Refills
  <2>3. (u - b.last) * n = later
    BY <1>1, Zenon DEF u
  <2> HIDE DEF later
  <2>4. /\ b.there => Refilled(b, n, u) = IF full <= b.tokens + later THEN full ELSE b.tokens + later
        /\ ~b.there => Refilled(b, n, u) = full
    BY <2>2, <2>3
  <2>5. QED
    BY <2>4, Zenon DEF u
<1>5. ~b.there => Refilled(b, n, t) = full
  BY Refills
<1> HIDE DEF full, gained, later
<1>6. QED
  BY <1>1, <1>2, <1>3, <1>4, <1>5

\* Taking takes a token, or nothing, from what is there.
LEMMA TakesOne ==
  ASSUME NEW b \in Bucket, NEW n \in Nat \ {0}, NEW t \in Nat, b.last <= t, b.tokens <= n * Period,
         NEW need \in Nat \ {0}, NEW spend \in BOOLEAN
  PROVE  LET c == Taken(b, n, t, need, spend)
         IN  /\ c \in Bucket /\ c.last <= t /\ c.tokens <= n * Period
             /\ spend /\ Enough(b, n, t, need) =>
                  Period <= Refilled(b, n, t) /\ Refilled(c, n, t) = Refilled(b, n, t) - Period
             /\ ~(spend /\ Enough(b, n, t, need)) => Refilled(c, n, t) = Refilled(b, n, t)
             /\ c = b \/ c.last = t
<1> DEFINE level == Refilled(b, n, t)
           full == n * Period
           spent == IF spend /\ Enough(b, n, t, need) THEN Period ELSE 0
           c == Taken(b, n, t, need, spend)
<1>1. level \in Nat /\ level <= full /\ full \in Nat /\ Period \in Nat /\ need \in Nat /\ need >= 1
  BY Refills, CountsAreNumbers
<1>2. Enough(b, n, t, need) <=> level >= need * Period
  BY DEF Enough
<1>3. Period <= need * Period /\ need * Period \in Nat
  <2>1. 1 * Period <= need * Period /\ need * Period \in Nat /\ 1 * Period = Period
    BY <1>1, Distributed
  <2>2. QED
    BY <2>1
<1>4. spent \in Nat /\ spent <= level
  <2>1. Enough(b, n, t, need) => Period <= level
    BY <1>1, <1>2, <1>3
  <2>2. QED
    BY <1>1, <2>1
<1>5. c = IF ~b.there /\ spent = 0 THEN b
          ELSE [tokens |-> level - spent, last |-> t, there |-> TRUE]
  BY DEF Taken
<1>6. b.there \in BOOLEAN
  BY DEF Bucket
<1> HIDE DEF level, full, c, spent
<1>7. c \in Bucket /\ c.last <= t /\ c.tokens <= full
  <2>1. CASE ~b.there /\ spent = 0
    BY <1>5, <2>1 DEF full
  <2>2. CASE ~(~b.there /\ spent = 0)
    <3>1. c = [tokens |-> level - spent, last |-> t, there |-> TRUE]
      BY <1>5, <2>2
    <3>2. level - spent \in Nat /\ level - spent <= full
      BY <1>1, <1>4
    <3>3. QED
      BY <3>1, <3>2 DEF Bucket
  <2>3. QED
    BY <2>1, <2>2
<1>8. Refilled(c, n, t) = level - spent
  <2>1. CASE ~b.there /\ spent = 0
    <3>1. c = b /\ level - spent = level
      BY <1>1, <1>5, <2>1
    <3>2. QED
      BY <3>1 DEF level
  <2>2. CASE ~(~b.there /\ spent = 0)
    <3>1. c.tokens = level - spent /\ c.last = t /\ c.there = TRUE
      BY <1>5, <2>2
    <3>2. (t - c.last) * n = 0
      <4>1. t - c.last = 0 /\ n \in Nat
        BY <3>1
      <4>2. QED
        BY <4>1, Distributed
    <3>3. LET more == c.tokens + (t - c.last) * n
          IN  Refilled(c, n, t) = IF full <= more THEN full ELSE more
      BY <1>7, <3>1, Refills DEF full
    <3>4. c.tokens + (t - c.last) * n = level - spent
      BY <1>1, <1>4, <3>1, <3>2
    <3>5. QED
      BY <1>1, <1>4, <3>3, <3>4
  <2>3. QED
    BY <2>1, <2>2
<1>9. c = b \/ c.last = t
  BY <1>5
<1>10. QED
  BY <1>1, <1>4, <1>7, <1>8, <1>9 DEF level, full, c, spent

\* A bucket idle for a period is full: dropping it gives nothing away.
LEMMA IdleIsFull ==
  ASSUME NEW b \in Bucket, NEW n \in Nat \ {0}, NEW t \in Nat,
         b.last + SweepAfter < t, Period <= SweepAfter + 1
  PROVE  Refilled(b, n, t) = n * Period
<1> DEFINE full == n * Period
           gained == (t - b.last) * n
<1>1. b.last \in Nat /\ b.tokens \in Nat /\ b.last <= t /\ Period <= t - b.last /\ t - b.last \in Nat
      /\ Period \in Nat /\ n \in Nat
  BY CountsAreNumbers DEF Bucket
<1>2. full \in Nat /\ gained \in Nat /\ full <= gained
  <2>1. Period * n <= (t - b.last) * n /\ n * Period = Period * n
    BY <1>1, Distributed, SMT
  <2>2. QED
    BY <1>1, <2>1, Refills
<1>3. b.there => Refilled(b, n, t) = IF full <= b.tokens + gained THEN full ELSE b.tokens + gained
  BY <1>1, Refills
<1>4. ~b.there => Refilled(b, n, t) = full
  BY <1>1, Refills
<1>5. b.there \in BOOLEAN
  BY DEF Bucket
<1> HIDE DEF full, gained
<1>6. Refilled(b, n, t) = full
  BY <1>1, <1>2, <1>3, <1>4, <1>5
<1>7. QED
  BY <1>6 DEF full

LEMMA Counts ==
  /\ Limited = {"address", "key"} /\ Count("key") = KeyCount
  /\ \A b \in Limited : Count(b) \in Nat \ {0}
BY CountsAreNumbers DEF Limited, Count

LEMMA TakeKept ==
  ASSUME RateTypes, NEW name \in Limited, NEW need \in Nat \ {0}, NEW spend \in BOOLEAN,
         Take(name, need, spend), tick' = tick
  PROVE  /\ buckets' \in [Limited -> Bucket]
         /\ \A b \in Limited : buckets'[b].last <= tick' /\ buckets'[b].tokens <= Count(b) * Period
         /\ name = "address" => Level' = Level
         /\ name = "key" => IF spend /\ Has("key", need) THEN Period <= Level /\ Level' = Level - Period
                                                         ELSE Level' = Level
         /\ buckets'["key"] = buckets["key"] \/ buckets'["key"].last = tick
<1> DEFINE c == Taken(buckets[name], Count(name), tick, need, spend)
<1>1. buckets[name] \in Bucket /\ buckets[name].last <= tick /\ tick \in Nat
      /\ buckets[name].tokens <= Count(name) * Period /\ Count(name) \in Nat \ {0}
  BY Counts DEF RateTypes
<1>2. /\ c \in Bucket /\ c.last <= tick /\ c.tokens <= Count(name) * Period
      /\ spend /\ Enough(buckets[name], Count(name), tick, need) =>
           /\ Period <= Refilled(buckets[name], Count(name), tick)
           /\ Refilled(c, Count(name), tick) = Refilled(buckets[name], Count(name), tick) - Period
      /\ ~(spend /\ Enough(buckets[name], Count(name), tick, need)) =>
           Refilled(c, Count(name), tick) = Refilled(buckets[name], Count(name), tick)
      /\ c = buckets[name] \/ c.last = tick
  <2> DEFINE b == buckets[name]
             n == Count(name)
  <2>1. b \in Bucket /\ b.last <= tick /\ tick \in Nat /\ b.tokens <= n * Period /\ n \in Nat \ {0}
    BY <1>1
  <2>2. c = Taken(b, n, tick, need, spend)
    OBVIOUS
  <2> HIDE DEF b, n, c
  <2>3. /\ c \in Bucket /\ c.last <= tick /\ c.tokens <= n * Period
        /\ spend /\ Enough(b, n, tick, need) =>
             Period <= Refilled(b, n, tick) /\ Refilled(c, n, tick) = Refilled(b, n, tick) - Period
        /\ ~(spend /\ Enough(b, n, tick, need)) => Refilled(c, n, tick) = Refilled(b, n, tick)
        /\ c = b \/ c.last = tick
    BY <2>1, <2>2, TakesOne
  <2>4. QED
    BY <2>3 DEF b, n
<1>3. buckets' = [buckets EXCEPT ![name] = c]
  BY DEF Take
<1> HIDE DEF c
<1>4. buckets' \in [Limited -> Bucket]
      /\ \A b \in Limited : buckets'[b] = IF b = name THEN c ELSE buckets[b]
  BY <1>2, <1>3 DEF RateTypes
<1>5. \A b \in Limited : buckets'[b].last <= tick' /\ buckets'[b].tokens <= Count(b) * Period
  BY <1>2, <1>4 DEF RateTypes
<1>6. name = "address" => Level' = Level
  <2>1. name = "address" => buckets'["key"] = buckets["key"]
    BY <1>4, Counts
  <2>2. QED
    BY <2>1 DEF Level
<1>7. name = "key" => IF spend /\ Has("key", need) THEN Period <= Level /\ Level' = Level - Period
                                                   ELSE Level' = Level
  <2>1. name = "key" => buckets'["key"] = c
    BY <1>4, Counts
  <2>2. QED
    BY <1>2, <2>1, Counts DEF Level, Has
<1>8. buckets'["key"] = buckets["key"] \/ buckets'["key"].last = tick
  BY <1>2, <1>4, Counts
<1>9. QED
  BY <1>4, <1>5, <1>6, <1>7, <1>8

---------------------------------------------------------------------------
\* Counting who was let in.

LEMMA InFinite ==
  ASSUME RateTypes, NEW a, NEW b
  PROVE  /\ IsFiniteSet(ClientsIn(a, b)) /\ IsFiniteSet(SparesIn(a, b))
         /\ Cardinality(ClientsIn(a, b)) \in Nat /\ Cardinality(SparesIn(a, b)) \in Nat
         /\ LetInDuring(a, b) \in Nat
<1>1. Len(uses) \in Nat /\ Len(spares) \in Nat /\ DOMAIN uses = 1..Len(uses) /\ DOMAIN spares = 1..Len(spares)
  BY DEF RateTypes
<1>2. IsFiniteSet(1..Len(uses)) /\ IsFiniteSet(1..Len(spares))
  BY <1>1, FS_Interval
<1>3. IsFiniteSet(ClientsIn(a, b))
  <2>1. ClientsIn(a, b) \in SUBSET (1..Len(uses))
    BY <1>1 DEF ClientsIn
  <2>2. QED
    BY <1>2, <2>1, FS_Subset
<1>4. IsFiniteSet(SparesIn(a, b))
  <2>1. SparesIn(a, b) \in SUBSET (1..Len(spares))
    BY <1>1 DEF SparesIn
  <2>2. QED
    BY <1>2, <2>1, FS_Subset
<1>5. Cardinality(ClientsIn(a, b)) \in Nat /\ Cardinality(SparesIn(a, b)) \in Nat
  BY <1>3, <1>4, FS_CardinalityType
<1>6. QED
  BY <1>3, <1>4, <1>5 DEF LetInDuring

LEMMA OneMoreClient ==
  ASSUME RateTypes, NEW u \in Use, uses' = Append(uses, u), NEW a, NEW b
  PROVE  Cardinality(ClientsIn(a, b)') = Cardinality(ClientsIn(a, b)) + IF u.in /\ u.at \in a..b THEN 1 ELSE 0
<1> DEFINE n == Len(uses) + 1
<1>1. uses \in Seq(Use) /\ Len(uses) \in Nat /\ DOMAIN uses = 1..Len(uses)
  BY DEF RateTypes
<1>2. /\ DOMAIN uses' = 1..n /\ uses'[n] = u /\ n \notin 1..Len(uses)
      /\ 1..n = (1..Len(uses)) \cup {n}
      /\ \A i \in 1..Len(uses) : uses'[i] = uses[i]
  BY <1>1
<1> HIDE DEF n
<1>3. ClientsIn(a, b)' = ClientsIn(a, b) \cup {i \in {n} : u.in /\ u.at \in a..b}
  <2>1. ClientsIn(a, b)' = {i \in DOMAIN uses' : uses'[i].in /\ uses'[i].at \in a..b}
    BY DEF ClientsIn
  <2>2. QED
    BY <1>1, <1>2, <2>1 DEF ClientsIn
<1>4. n \notin ClientsIn(a, b) /\ IsFiniteSet(ClientsIn(a, b)) /\ Cardinality(ClientsIn(a, b)) \in Nat
  <2>1. n \notin ClientsIn(a, b)
    BY <1>1, <1>2 DEF ClientsIn
  <2>2. QED
    BY <2>1, InFinite
<1>5. CASE u.in /\ u.at \in a..b
  <2>1. ClientsIn(a, b)' = ClientsIn(a, b) \cup {n}
    BY <1>3, <1>5
  <2>2. Cardinality(ClientsIn(a, b) \cup {n}) = Cardinality(ClientsIn(a, b)) + 1
    BY <1>4, FS_AddElement
  <2>3. QED
    BY <1>5, <2>1, <2>2
<1>6. CASE ~(u.in /\ u.at \in a..b)
  <2>1. ClientsIn(a, b)' = ClientsIn(a, b)
    BY <1>3, <1>6
  <2>2. QED
    BY <1>4, <1>6, <2>1
<1>7. QED
  BY <1>5, <1>6

LEMMA OneMoreSpare ==
  ASSUME RateTypes, spares' = Append(spares, tick), NEW a, NEW b
  PROVE  Cardinality(SparesIn(a, b)') = Cardinality(SparesIn(a, b)) + IF tick \in a..b THEN 1 ELSE 0
<1> DEFINE n == Len(spares) + 1
<1>1. spares \in Seq(Nat) /\ tick \in Nat /\ Len(spares) \in Nat /\ DOMAIN spares = 1..Len(spares)
  BY DEF RateTypes
<1>2. /\ DOMAIN spares' = 1..n /\ spares'[n] = tick /\ n \notin 1..Len(spares)
      /\ 1..n = (1..Len(spares)) \cup {n}
      /\ \A i \in 1..Len(spares) : spares'[i] = spares[i]
  BY <1>1
<1> HIDE DEF n
<1>3. SparesIn(a, b)' = SparesIn(a, b) \cup {i \in {n} : tick \in a..b}
  <2>1. SparesIn(a, b)' = {i \in DOMAIN spares' : spares'[i] \in a..b}
    BY DEF SparesIn
  <2>2. QED
    BY <1>1, <1>2, <2>1 DEF SparesIn
<1>4. n \notin SparesIn(a, b) /\ IsFiniteSet(SparesIn(a, b)) /\ Cardinality(SparesIn(a, b)) \in Nat
  <2>1. n \notin SparesIn(a, b)
    BY <1>1, <1>2 DEF SparesIn
  <2>2. QED
    BY <2>1, InFinite
<1>5. CASE tick \in a..b
  <2>1. SparesIn(a, b)' = SparesIn(a, b) \cup {n}
    BY <1>3, <1>5
  <2>2. Cardinality(SparesIn(a, b) \cup {n}) = Cardinality(SparesIn(a, b)) + 1
    BY <1>4, FS_AddElement
  <2>3. QED
    BY <1>5, <2>1, <2>2
<1>6. CASE tick \notin a..b
  <2>1. SparesIn(a, b)' = SparesIn(a, b)
    BY <1>3, <1>6
  <2>2. QED
    BY <1>4, <1>6, <2>1
<1>7. QED
  BY <1>5, <1>6

---------------------------------------------------------------------------
\* Whoever comes now, the bucket and what was let in since some tick make up at
\* most the burst and what that time has brought.
Rated(a) == LetInDuring(a, tick) * Period + Level <= Bursts(a, tick) + (tick - a) * KeyCount

Dated ==
  /\ \A i \in DOMAIN uses : uses[i].at <= tick
  /\ \A i \in DOMAIN spares : spares[i] <= tick
  /\ \A d \in drops : d <= tick

Rates == Dated /\ WithinRate /\ \A a \in 1..tick : Rated(a)

LEMMA HistoryIs ==
  RateTypes => /\ \A i \in DOMAIN uses : uses[i] \in Use /\ uses[i].at \in Nat
               /\ \A i \in DOMAIN spares : spares[i] \in Nat
<1> SUFFICES ASSUME RateTypes
    PROVE  /\ \A i \in DOMAIN uses : uses[i] \in Use /\ uses[i].at \in Nat
           /\ \A i \in DOMAIN spares : spares[i] \in Nat
  OBVIOUS
<1>1. uses \in Seq(Use) /\ spares \in Seq(Nat)
  BY DEF RateTypes
<1>2. \A i \in DOMAIN uses : uses[i] \in Use
  BY <1>1
<1>3. \A i \in DOMAIN spares : spares[i] \in Nat
  BY <1>1
<1>4. QED
  BY <1>2, <1>3 DEF Use

LEMMA LevelIs == RateTypes => Level \in Nat /\ Level <= KeyCount * Period /\ KeyCount * Period \in Nat
<1> SUFFICES ASSUME RateTypes PROVE Level \in Nat /\ Level <= KeyCount * Period /\ KeyCount * Period \in Nat
  OBVIOUS
<1>1. buckets["key"] \in Bucket /\ buckets["key"].last <= tick /\ tick \in Nat
  BY Counts DEF RateTypes
<1>2. QED
  BY <1>1, Refills, CountsAreNumbers DEF Level

\* The bursts are a number of them, one at least.
LEMMA BurstsAre ==
  ASSUME RateTypes, NEW a, NEW b
  PROVE  /\ IsFiniteSet(drops \cap a..b) /\ Cardinality(drops \cap a..b) \in Nat
         /\ Bursts(a, b) \in Nat /\ KeyCount * Period <= Bursts(a, b)
<1>1. IsFiniteSet(drops \cap a..b)
  <2>1. IsFiniteSet(drops) /\ drops \cap a..b \in SUBSET drops
    BY DEF RateTypes
  <2>2. QED
    BY <2>1, FS_Subset
<1> DEFINE n == Cardinality(drops \cap a..b)
           full == KeyCount * Period
<1>2. n \in Nat /\ full \in Nat
  BY <1>1, FS_CardinalityType, LevelIs
<1>3. Bursts(a, b) = (1 + n) * full
  BY DEF Bursts
<1> HIDE DEF n, full
<1>4. (1 + n) * full = n * full + full /\ n * full \in Nat
  <2>1. (n + 1) * full = n * full + full /\ n * full \in Nat /\ n + 1 = 1 + n
    BY <1>2, Distributed
  <2>2. QED
    BY <2>1
<1>5. Bursts(a, b) \in Nat /\ full <= Bursts(a, b)
  BY <1>2, <1>3, <1>4
<1>6. QED
  BY <1>1, <1>2, <1>5 DEF n, full

\* A key with a bucket has come since it was last forgotten.
SinceDrop == buckets["key"].there => \A d \in drops : d <= buckets["key"].last

LEMMA SinceKept ==
  ASSUME Dated, SinceDrop, DropsApart, drops' = drops,
         \/ buckets'["key"] = buckets["key"] \/ buckets'["key"].last = tick
         \/ ~buckets'["key"].there
  PROVE  SinceDrop' /\ DropsApart'
<1>1. CASE buckets'["key"] = buckets["key"]
  BY <1>1 DEF SinceDrop, DropsApart
<1>2. CASE buckets'["key"].last = tick
  BY <1>2 DEF SinceDrop, DropsApart, Dated
<1>3. CASE ~buckets'["key"].there
  BY <1>3 DEF SinceDrop, DropsApart
<1>4. QED
  BY <1>1, <1>2, <1>3

LEMMA WithinTick ==
  ASSUME RateTypes, RateTypes', WithinRate, \A a \in 1..tick : Rated(a), tick' = tick, drops' = drops,
         NEW k \in {0, 1},
         \A a, b \in 1..tick : LetInDuring(a, b)' = LetInDuring(a, b) + IF tick \in a..b THEN k ELSE 0,
         Level' + k * Period = Level
  PROVE  WithinRate' /\ (\A a \in 1..tick : Rated(a))'
<1>1. tick \in Nat \ {0} /\ Level \in Nat /\ Level' \in Nat /\ KeyCount * Period \in Nat /\ Period \in Nat
      /\ KeyCount \in Nat /\ k \in Nat
  <2>1. (RateTypes => Level \in Nat /\ Level <= KeyCount * Period /\ KeyCount * Period \in Nat)'
    BY LevelIs, PTL
  <2>2. QED
    BY <2>1, LevelIs, CountsAreNumbers DEF RateTypes
<1>2. ASSUME NEW a \in 1..tick
      PROVE  LetInDuring(a, tick)' * Period + Level' <= Bursts(a, tick) + (tick - a) * KeyCount
  <2> DEFINE n == LetInDuring(a, tick)
             m == LetInDuring(a, tick)'
             bound == Bursts(a, tick) + (tick - a) * KeyCount
  <2>1. n \in Nat /\ tick \in a..tick /\ tick \in 1..tick
    BY <1>1, <1>2, InFinite
  <2>2. m = n + k
    BY <1>2, <2>1
  <2>3. n * Period + Level <= bound
    BY <1>2 DEF Rated
  <2>4. bound \in Int /\ n * Period \in Nat /\ k * Period \in Nat
    <3>1. tick - a \in Nat
      BY <1>1, <1>2
    <3>2. Bursts(a, tick) \in Nat
      BY BurstsAre
    <3>3. QED
      BY <1>1, <2>1, <3>1, <3>2, Distributed
  <2> HIDE DEF n, m, bound
  <2>5. m * Period = n * Period + k * Period
    <3>1. CASE k = 0
      BY <1>1, <2>1, <2>2, <2>4, <3>1, Distributed
    <3>2. CASE k = 1
      BY <1>1, <2>1, <2>2, <2>4, <3>2, Distributed
    <3>3. QED
      BY <3>1, <3>2
  <2>6. m * Period + Level' <= bound
    <3>1. Level \in Nat /\ Level' \in Nat /\ n * Period \in Nat /\ k * Period \in Nat
          /\ m * Period \in Nat /\ bound \in Int
      BY <1>1, <2>4, <2>5
    <3>2. n * Period + Level <= bound /\ m * Period = n * Period + k * Period
          /\ Level' + k * Period = Level
      BY <2>3, <2>5
    <3>3. QED
      BY <3>1, <3>2, Sums
  <2>7. QED
    BY <2>6 DEF m, bound
<1>3. ASSUME NEW a \in 1..tick, NEW b \in a..tick
      PROVE  LetInDuring(a, b)' * Period <= Bursts(a, b) + (b - a) * KeyCount
  <2>1. CASE b = tick
    <3> DEFINE all == LetInDuring(a, tick)' * Period
               bound == Bursts(a, tick) + (tick - a) * KeyCount
    <3>1. all + Level' <= bound
      BY <1>2
    <3>2. all \in Nat /\ bound \in Int /\ Level' \in Nat
      <4>1. LetInDuring(a, tick)' \in Nat
        <5>1. LetInDuring(a, tick) \in Nat /\ tick \in a..tick /\ tick \in 1..tick
          BY <1>1, <1>3, InFinite
        <5>2. QED
          BY <1>1, <1>3, <5>1
      <4>2. tick - a \in Nat
        BY <1>1, <1>3
      <4>3. Bursts(a, tick) \in Nat
        BY BurstsAre
      <4>4. QED
        BY <1>1, <4>1, <4>2, <4>3, Distributed
    <3> HIDE DEF all, bound
    <3>3. all <= bound
      BY <3>1, <3>2, Sums
    <3>4. QED
      BY <2>1, <3>3 DEF all, bound
  <2>2. CASE b # tick
    <3>1. b \in 1..tick /\ tick \notin a..b
      BY <1>1, <1>3, <2>2
    <3>2. LetInDuring(a, b)' = LetInDuring(a, b) + 0 /\ LetInDuring(a, b) \in Nat
      BY <1>3, <3>1, InFinite
    <3>3. QED
      BY <1>3, <3>2 DEF WithinRate
  <2>3. QED
    BY <2>1, <2>2
<1>4. \A a, b : Bursts(a, b)' = Bursts(a, b)
  BY DEF Bursts
<1>5. QED
  BY <1>2, <1>3, <1>4 DEF WithinRate, Rated

LEMMA NextTickRates ==
  ASSUME RateTypes, RateTypes', Rates, tick' = tick + 1, UNCHANGED <<buckets, uses, spares, drops>>
  PROVE  Rates'
<1>1. tick \in Nat \ {0} /\ Level \in Nat /\ KeyCount * Period \in Nat /\ Period \in Nat /\ KeyCount \in Nat
  BY LevelIs, CountsAreNumbers DEF RateTypes
<1>2. Level' \in Nat /\ Level' <= KeyCount * Period
  <2>1. (RateTypes => Level \in Nat /\ Level <= KeyCount * Period /\ KeyCount * Period \in Nat)'
    BY LevelIs, PTL
  <2>2. QED
    BY <2>1
<1>3. Level' <= Level + KeyCount
  <2>1. buckets["key"] \in Bucket /\ buckets["key"].last <= tick
    BY Counts DEF RateTypes
  <2>2. Refilled(buckets["key"], KeyCount, tick + 1) <= Refilled(buckets["key"], KeyCount, tick) + KeyCount
    BY <1>1, <2>1, TickBrings, CountsAreNumbers
  <2>3. QED
    BY <2>2 DEF Level
<1>4. Dated'
  <2>1. /\ \A i \in DOMAIN uses : uses[i].at \in Nat
        /\ \A i \in DOMAIN spares : spares[i] \in Nat
    BY HistoryIs
  <2>2. /\ \A i \in DOMAIN uses : uses[i].at <= tick
        /\ \A i \in DOMAIN spares : spares[i] <= tick
        /\ \A d \in drops : d \in Nat /\ d <= tick
    BY DEF Rates, Dated, RateTypes
  <2>3. QED
    BY <1>1, <2>1, <2>2 DEF Dated
<1>5. /\ \A a, b \in Nat : LetInDuring(a, b)' = LetInDuring(a, b) /\ Bursts(a, b)' = Bursts(a, b)
      /\ \A a \in Nat : /\ LetInDuring(a, tick)' = LetInDuring(a, tick + 1)
                        /\ Bursts(a, tick)' = Bursts(a, tick + 1)
  BY DEF LetInDuring, ClientsIn, SparesIn, Bursts
<1>6. ASSUME NEW a \in 1..tick
      PROVE  LetInDuring(a, tick + 1) = LetInDuring(a, tick) /\ Bursts(a, tick + 1) = Bursts(a, tick)
  <2>1. \A i \in DOMAIN uses : uses[i].at \in a..(tick + 1) <=> uses[i].at \in a..tick
    BY <1>1 DEF Rates, Dated, RateTypes, Use
  <2>2. \A i \in DOMAIN spares : spares[i] \in a..(tick + 1) <=> spares[i] \in a..tick
    BY <1>1 DEF Rates, Dated, RateTypes
  <2>3. ClientsIn(a, tick + 1) = ClientsIn(a, tick) /\ SparesIn(a, tick + 1) = SparesIn(a, tick)
    BY <2>1, <2>2, Zenon DEF ClientsIn, SparesIn
  <2>4. drops \cap a..(tick + 1) = drops \cap a..tick
    BY <1>1, <1>6 DEF Rates, Dated, RateTypes
  <2>5. QED
    BY <2>3, <2>4 DEF LetInDuring, Bursts
<1>7. LetInDuring(tick + 1, tick + 1) = 0
  <2>1. ClientsIn(tick + 1, tick + 1) = {} /\ SparesIn(tick + 1, tick + 1) = {}
    BY <1>1 DEF Rates, Dated, RateTypes, Use, ClientsIn, SparesIn
  <2>2. QED
    BY <2>1, FS_EmptySet DEF LetInDuring
<1>8. ASSUME NEW a \in 1..(tick + 1)
      PROVE  LetInDuring(a, tick + 1) * Period + Level' <= Bursts(a, tick + 1) + ((tick + 1) - a) * KeyCount
  <2>1. CASE a = tick + 1
    <3>1. LetInDuring(a, tick + 1) = 0 /\ (tick + 1) - a = 0
      BY <1>1, <1>7, <2>1
    <3>2. LetInDuring(a, tick + 1) * Period = 0 /\ ((tick + 1) - a) * KeyCount = 0
      BY <1>1, <3>1, Distributed
    <3>3. Bursts(a, tick + 1) \in Nat /\ KeyCount * Period <= Bursts(a, tick + 1)
      BY BurstsAre
    <3> DEFINE burst == Bursts(a, tick + 1)
    <3> HIDE DEF burst
    <3>4. QED
      BY <1>1, <1>2, <3>2, <3>3 DEF burst
  <2>2. CASE a # tick + 1
    <3>1. a \in 1..tick /\ tick - a \in Nat /\ (tick + 1) - a = (tick - a) + 1
      BY <1>1, <1>8, <2>2
    <3>2. /\ LetInDuring(a, tick + 1) = LetInDuring(a, tick) /\ LetInDuring(a, tick) \in Nat
          /\ Bursts(a, tick + 1) = Bursts(a, tick) /\ Bursts(a, tick) \in Nat
      BY <1>6, <3>1, InFinite, BurstsAre
    <3> DEFINE before == LetInDuring(a, tick) * Period
               brought == (tick - a) * KeyCount
               full == Bursts(a, tick)
    <3>3. before \in Nat /\ brought \in Nat /\ ((tick + 1) - a) * KeyCount = brought + KeyCount
      BY <1>1, <3>1, <3>2, Distributed
    <3>4. before + Level <= full + brought
      BY <3>1 DEF Rates, Rated
    <3>5. LetInDuring(a, tick + 1) * Period = before /\ full \in Nat
      BY <1>1, <3>2
    <3> HIDE DEF before, brought, full
    <3>6. before + Level' <= full + (brought + KeyCount)
      BY <1>1, <1>2, <1>3, <3>3, <3>4, <3>5, Sums
    <3>7. QED
      BY <3>2, <3>3, <3>5, <3>6 DEF full
  <2>3. QED
    BY <2>1, <2>2
<1>9. ASSUME NEW a \in 1..(tick + 1), NEW b \in a..(tick + 1)
      PROVE  LetInDuring(a, b) * Period <= Bursts(a, b) + (b - a) * KeyCount
  <2>1. CASE b = tick + 1
    <3> DEFINE all == LetInDuring(a, tick + 1) * Period
               bound == Bursts(a, tick + 1) + ((tick + 1) - a) * KeyCount
    <3>1. all + Level' <= bound
      BY <1>8
    <3>2. all \in Nat /\ bound \in Int /\ Level' \in Nat
      <4>1. LetInDuring(a, tick + 1) \in Nat /\ (tick + 1) - a \in Nat /\ Bursts(a, tick + 1) \in Nat
        <5>1. (tick + 1) - a \in Nat
          BY <1>1, <1>9
        <5>2. LetInDuring(a, tick + 1) \in Nat
          BY InFinite
        <5>3. Bursts(a, tick + 1) \in Nat
          BY BurstsAre
        <5>4. QED
          BY <5>1, <5>2, <5>3
      <4>2. QED
        BY <1>1, <1>2, <4>1, Distributed
    <3> HIDE DEF all, bound
    <3>3. all <= bound
      BY <3>1, <3>2, Sums
    <3>4. QED
      BY <2>1, <3>3 DEF all, bound
  <2>2. CASE b # tick + 1
    <3>1. a \in 1..tick /\ b \in a..tick
      BY <1>1, <1>9, <2>2
    <3>2. QED
      BY <3>1 DEF Rates, WithinRate
  <2>3. QED
    BY <2>1, <2>2
<1>10. \A a \in 1..(tick + 1) : a \in Nat /\ \A b \in a..(tick + 1) : b \in Nat
  BY <1>1
<1>11. WithinRate'
  BY <1>5, <1>9, <1>10 DEF WithinRate
<1>12. (\A a \in 1..tick : Rated(a))'
  BY <1>5, <1>8, <1>10 DEF Rated
<1>13. QED
  BY <1>4, <1>11, <1>12 DEF Rates

---------------------------------------------------------------------------
(* The steps *)

\* Where a request can be.
Asked == [pc : {"none", "lookup", "rate", "spare", "admitted", "serving"}, cred : {"none", "key"}]

RateInv ==
  /\ RateTypes /\ Rates /\ SinceDrop /\ DropsApart
  /\ lastTaker = "gateway" => Period <= Level
  /\ NeverRobbed
  /\ asks \in [Request -> Asked] /\ CountedTrue

\* The requests being served, when one of them moves.
LEMMA OneMoves ==
  ASSUME asks \in [Request -> Asked], NEW q \in Request, NEW v \in Asked, asks' = [asks EXCEPT ![q] = v]
  PROVE  /\ asks' \in [Request -> Asked] /\ Cardinality(Serving) \in Nat
         /\ (asks[q].pc = "serving" <=> v.pc = "serving") => Cardinality(Serving') = Cardinality(Serving)
         /\ asks[q].pc # "serving" /\ v.pc = "serving" => Cardinality(Serving') = Cardinality(Serving) + 1
         /\ asks[q].pc = "serving" /\ v.pc # "serving" => Cardinality(Serving') = Cardinality(Serving) - 1
<1>1. IsFiniteSet(Serving)
  <2>1. Serving \in SUBSET Request
    BY DEF Serving
  <2>2. QED
    BY <2>1, RequestsAreFinite, FS_Subset
<1>2. asks' \in [Request -> Asked] /\ \A p \in Request : asks'[p] = IF p = q THEN v ELSE asks[p]
  OBVIOUS
<1>3. Serving' = IF v.pc = "serving" THEN Serving \cup {q} ELSE Serving \ {q}
  BY <1>2 DEF Serving
<1>4. q \in Serving <=> asks[q].pc = "serving"
  BY DEF Serving
<1>5. Cardinality(Serving) \in Nat
  BY <1>1, FS_CardinalityType
<1>6. q \in Serving => Serving \cup {q} = Serving
  OBVIOUS
<1>7. q \notin Serving => Serving \ {q} = Serving
  OBVIOUS
<1>8. q \notin Serving => Cardinality(Serving \cup {q}) = Cardinality(Serving) + 1
  BY <1>1, FS_AddElement
<1>9. q \in Serving => Cardinality(Serving \ {q}) = Cardinality(Serving) - 1
  BY <1>1, FS_RemoveElement
<1> HIDE DEF Serving
<1>10. QED
  BY <1>2, <1>3, <1>4, <1>5, <1>6, <1>7, <1>8, <1>9

LEMMA ServingCounts == Cardinality(Serving) \in Nat /\ (CountedTrue => inFlight \in Nat)
<1>1. Serving \in SUBSET Request
  BY DEF Serving
<1>2. Cardinality(Serving) \in Nat
  BY <1>1, RequestsAreFinite, FS_Subset, FS_CardinalityType
<1>3. QED
  BY <1>2 DEF CountedTrue

\* Answering one, and sending one on.
LEMMA AskAnswered ==
  ASSUME asks \in [Request -> Asked], CountedTrue, NEW q \in Request, AnswerGiven(q),
         inFlight' = inFlight - IF asks[q].pc = "serving" THEN 1 ELSE 0
  PROVE  asks' \in [Request -> Asked] /\ CountedTrue'
<1>1. NotAsking \in Asked /\ NotAsking.pc = "none"
  BY DEF NotAsking, Asked
<1>2. asks' = [asks EXCEPT ![q] = NotAsking]
  BY DEF AnswerGiven
<1>3. /\ asks' \in [Request -> Asked] /\ Cardinality(Serving) \in Nat
      /\ asks[q].pc # "serving" => Cardinality(Serving') = Cardinality(Serving)
      /\ asks[q].pc = "serving" => Cardinality(Serving') = Cardinality(Serving) - 1
  BY <1>1, <1>2, OneMoves
<1>4. QED
  BY <1>3 DEF CountedTrue

LEMMA SentOn ==
  ASSUME asks \in [Request -> Asked], CountedTrue, NEW q \in Request,
         NEW place \in {"none", "lookup", "rate", "spare", "admitted", "serving"}, To(q, place),
         inFlight' = (inFlight - IF asks[q].pc = "serving" THEN 1 ELSE 0) + IF place = "serving" THEN 1 ELSE 0
  PROVE  asks' \in [Request -> Asked] /\ CountedTrue'
<1> DEFINE v == [asks[q] EXCEPT !.pc = place]
<1>1. v \in Asked /\ v.pc = place
  BY DEF Asked
<1>2. asks' = [asks EXCEPT ![q] = v]
  BY DEF To
<1> HIDE DEF v
<1>3. /\ asks' \in [Request -> Asked] /\ Cardinality(Serving) \in Nat
      /\ (asks[q].pc = "serving" <=> v.pc = "serving") => Cardinality(Serving') = Cardinality(Serving)
      /\ asks[q].pc # "serving" /\ v.pc = "serving" => Cardinality(Serving') = Cardinality(Serving) + 1
      /\ asks[q].pc = "serving" /\ v.pc # "serving" => Cardinality(Serving') = Cardinality(Serving) - 1
  BY <1>1, <1>2, OneMoves
<1>4. QED
  BY <1>1, <1>3 DEF CountedTrue

\* A step that leaves the key's bucket as full as it was.
LEMMA NothingTaken ==
  ASSUME RateInv, UNCHANGED <<tick, keyHistory>>, Level' = Level,
         \/ buckets'["key"] = buckets["key"] \/ buckets'["key"].last = tick
         \/ ~buckets'["key"].there,
         buckets' \in [Limited -> Bucket],
         \A b \in Limited : buckets'[b].last <= tick' /\ buckets'[b].tokens <= Count(b) * Period,
         asks' \in [Request -> Asked], CountedTrue'
  PROVE  RateInv'
<1>1. RateTypes'
  BY DEF RateInv, RateTypes, keyHistory, Count
<1>2. Dated'
  BY DEF RateInv, Rates, Dated, keyHistory
<1>3. \A a, b : LetInDuring(a, b)' = LetInDuring(a, b) /\ Bursts(a, b)' = Bursts(a, b)
  BY DEF LetInDuring, ClientsIn, SparesIn, Bursts, keyHistory
<1>4. WithinRate' /\ (\A a \in 1..tick : Rated(a))'
  <2>1. tick' = tick
    OBVIOUS
  <2>2. WithinRate'
    BY <1>3, <2>1 DEF RateInv, Rates, WithinRate
  <2>3. (\A a \in 1..tick : Rated(a))'
    <3>1. \A a \in 1..tick : LetInDuring(a, tick) * Period + Level <= Bursts(a, tick) + (tick - a) * KeyCount
      BY DEF RateInv, Rates, Rated
    <3>2. \A a : LetInDuring(a, tick)' = LetInDuring(a, tick) /\ Bursts(a, tick)' = Bursts(a, tick)
      BY <1>3, <2>1 DEF LetInDuring, ClientsIn, SparesIn, Bursts, keyHistory
    <3>3. QED
      BY <2>1, <3>1, <3>2 DEF Rated
  <2>4. QED
    BY <2>2, <2>3
<1>5. (lastTaker = "gateway" => Period <= Level)' /\ NeverRobbed'
  BY DEF RateInv, NeverRobbed, keyHistory
<1>6. SinceDrop' /\ DropsApart'
  <2>1. drops' = drops
    BY DEF keyHistory
  <2>2. QED
    BY <2>1, SinceKept DEF RateInv, Rates
<1>7. QED
  BY <1>1, <1>2, <1>4, <1>5, <1>6 DEF RateInv, Rates

\* The same, of a step that touches no bucket.
LEMMA NoBucketTouched ==
  ASSUME RateInv, UNCHANGED <<tick, buckets, keyHistory>>, asks' \in [Request -> Asked], CountedTrue'
  PROVE  RateInv'
<1>1. Level' = Level
  BY DEF Level
<1>2. /\ buckets' \in [Limited -> Bucket]
      /\ \A b \in Limited : buckets'[b].last <= tick' /\ buckets'[b].tokens <= Count(b) * Period
  BY DEF RateInv, RateTypes
<1>3. QED
  BY <1>1, <1>2, NothingTaken

LEMMA Has1 ==
  ASSUME RateTypes
  PROVE  /\ Has("key", 1) <=> Period <= Level
         /\ Has("key", 2) => 2 * Period <= Level
<1>1. Has("key", 1) <=> Level >= 1 * Period
  BY Counts DEF Has, Enough, Level
<1>2. Has("key", 2) <=> Level >= 2 * Period
  BY Counts DEF Has, Enough, Level
<1>3. Level \in Nat /\ Period \in Nat
  BY LevelIs, CountsAreNumbers
<1>4. QED
  BY <1>1, <1>2, <1>3

LEMMA AllowRates ==
  ASSUME RateInv, NEW q \in Request, Allow(q)
  PROVE  RateInv'
<1> DEFINE u == [at |-> tick, in |-> Has("key", 1)]
           k == IF Has("key", 1) THEN 1 ELSE 0
<1>1. /\ RateTypes /\ Rates /\ tick' = tick /\ spares' = spares /\ drops' = drops
      /\ inFlight' = inFlight /\ Take("key", 1, TRUE)
      /\ uses' = Append(uses, u) /\ asks[q].pc = "rate" /\ lastTaker # "robbed"
      /\ asks \in [Request -> Asked] /\ CountedTrue /\ (lastTaker = "gateway" => Period <= Level)
  BY DEF Allow, RateInv, NeverRobbed
<1>2. u \in Use /\ u.in = Has("key", 1) /\ u.at = tick /\ tick \in Nat \ {0}
  BY <1>1 DEF Use, RateTypes, Has, Enough
<1>3. /\ buckets' \in [Limited -> Bucket]
      /\ \A b \in Limited : buckets'[b].last <= tick' /\ buckets'[b].tokens <= Count(b) * Period
      /\ IF Has("key", 1) THEN Period <= Level /\ Level' = Level - Period ELSE Level' = Level
      /\ buckets'["key"] = buckets["key"] \/ buckets'["key"].last = tick
  <2>1. "key" \in Limited /\ 1 \in Nat \ {0} /\ TRUE \in BOOLEAN
    BY Counts
  <2> HIDE DEF u, k
  <2>2. /\ buckets' \in [Limited -> Bucket]
        /\ \A b \in Limited : buckets'[b].last <= tick' /\ buckets'[b].tokens <= Count(b) * Period
        /\ IF TRUE /\ Has("key", 1) THEN Period <= Level /\ Level' = Level - Period ELSE Level' = Level
        /\ buckets'["key"] = buckets["key"] \/ buckets'["key"].last = tick
    BY <1>1, <2>1, TakeKept
  <2>3. QED
    BY <2>2
<1>4. Level \in Nat /\ Period \in Nat
  BY <1>1, LevelIs, CountsAreNumbers
<1> HIDE DEF u
<1>5. RateTypes'
  <2>1. uses' \in Seq(Use)
    BY <1>1, <1>2 DEF RateTypes
  <2>2. QED
    BY <1>1, <1>3, <2>1 DEF RateTypes, Count
<1>6. \A a, b \in 1..tick : LetInDuring(a, b)' = LetInDuring(a, b) + IF tick \in a..b THEN k ELSE 0
  <2>1. TAKE a, b \in 1..tick
  <2>2. Cardinality(ClientsIn(a, b)') = Cardinality(ClientsIn(a, b)) + IF u.in /\ u.at \in a..b THEN 1 ELSE 0
    BY <1>1, <1>2, OneMoreClient
  <2>3. SparesIn(a, b)' = SparesIn(a, b)
    BY <1>1 DEF SparesIn
  <2>4. Cardinality(ClientsIn(a, b)) \in Nat /\ Cardinality(SparesIn(a, b)) \in Nat
    BY <1>1, InFinite
  <2>5. QED
    BY <1>2, <2>2, <2>3, <2>4 DEF LetInDuring
<1>7. k \in {0, 1} /\ Level' + k * Period = Level
  BY <1>3, <1>4
<1> HIDE DEF k
<1>8. WithinRate' /\ (\A a \in 1..tick : Rated(a))'
  <2>1. WithinRate /\ \A a \in 1..tick : Rated(a)
    BY <1>1 DEF Rates
  <2>2. QED
    BY <1>1, <1>5, <1>6, <1>7, <2>1, WithinTick
<1>9. Dated'
  <2>1. /\ \A i \in DOMAIN uses : uses[i].at <= tick
        /\ \A i \in DOMAIN spares : spares[i] <= tick
        /\ \A d \in drops : d <= tick
    BY <1>1 DEF Rates, Dated
  <2>2. \A i \in DOMAIN uses' : uses'[i] = IF i \in DOMAIN uses THEN uses[i] ELSE u
    BY <1>1 DEF RateTypes
  <2>3. \A i \in DOMAIN uses' : uses'[i].at <= tick
    BY <1>2, <2>1, <2>2
  <2>4. QED
    BY <1>1, <2>1, <2>3 DEF Dated
<1>10. Has("key", 1) <=> Period <= Level
  BY <1>1, Has1
<1>11. lastTaker' \notin {"gateway", "robbed"}
  BY <1>1, <1>10 DEF Allow
<1>12. asks' \in [Request -> Asked] /\ CountedTrue'
  <2>1. To(q, "admitted") \/ AnswerGiven(q)
    BY DEF Allow
  <2>2. inFlight' = inFlight /\ inFlight - 0 = inFlight /\ inFlight - 0 + 0 = inFlight
    <3>1. inFlight \in Nat
      BY <1>1, ServingCounts
    <3>2. QED
      BY <1>1, <3>1
  <2>3. QED
    BY <1>1, <2>1, <2>2, AskAnswered, SentOn
<1>13. SinceDrop' /\ DropsApart'
  BY <1>1, <1>3, SinceKept DEF RateInv, Rates
<1>14. QED
  BY <1>5, <1>8, <1>9, <1>11, <1>12, <1>13 DEF RateInv, Rates, NeverRobbed

\* The gateway's own: it leaves the client a token.
LEMMA SpareRates ==
  ASSUME RateInv, NEW q \in Request, LetInSpare(q), KeyCount >= 2
  PROVE  RateInv'
<1> DEFINE k == IF Has("key", 2) THEN 1 ELSE 0
<1>1. /\ RateTypes /\ Rates /\ tick' = tick /\ uses' = uses /\ drops' = drops
      /\ inFlight' = inFlight /\ Take("key", 2, TRUE)
      /\ asks[q].pc = "spare" /\ AnswerGiven(q)
      /\ asks \in [Request -> Asked] /\ CountedTrue /\ (lastTaker = "gateway" => Period <= Level)
      /\ lastTaker # "robbed"
      /\ IF Has("key", 2) THEN spares' = Append(spares, tick) /\ lastTaker' = "gateway"
                          ELSE UNCHANGED <<spares, lastTaker>>
  BY DEF LetInSpare, RateInv, NeverRobbed
<1>2. tick \in Nat \ {0}
  BY <1>1 DEF RateTypes
<1>3. /\ buckets' \in [Limited -> Bucket]
      /\ \A b \in Limited : buckets'[b].last <= tick' /\ buckets'[b].tokens <= Count(b) * Period
      /\ IF Has("key", 2) THEN Period <= Level /\ Level' = Level - Period ELSE Level' = Level
      /\ buckets'["key"] = buckets["key"] \/ buckets'["key"].last = tick
  <2>1. "key" \in Limited /\ 2 \in Nat \ {0} /\ TRUE \in BOOLEAN
    BY Counts
  <2> HIDE DEF k
  <2>2. /\ buckets' \in [Limited -> Bucket]
        /\ \A b \in Limited : buckets'[b].last <= tick' /\ buckets'[b].tokens <= Count(b) * Period
        /\ IF TRUE /\ Has("key", 2) THEN Period <= Level /\ Level' = Level - Period ELSE Level' = Level
        /\ buckets'["key"] = buckets["key"] \/ buckets'["key"].last = tick
    BY <1>1, <2>1, TakeKept
  <2>3. QED
    BY <2>2
<1>4. Level \in Nat /\ Period \in Nat
  BY <1>1, LevelIs, CountsAreNumbers
<1>5. RateTypes'
  <2>1. spares' \in Seq(Nat)
    <3>1. spares \in Seq(Nat) /\ tick \in Nat
      BY <1>1, <1>2 DEF RateTypes
    <3>2. Append(spares, tick) \in Seq(Nat)
      BY <3>1
    <3>3. spares' = Append(spares, tick) \/ spares' = spares
      BY <1>1, Zenon
    <3>4. QED
      BY <3>1, <3>2, <3>3
  <2>2. QED
    BY <1>1, <1>3, <2>1 DEF RateTypes, Count
<1>6. \A a, b \in 1..tick : LetInDuring(a, b)' = LetInDuring(a, b) + IF tick \in a..b THEN k ELSE 0
  <2>1. TAKE a, b \in 1..tick
  <2>2. ClientsIn(a, b)' = ClientsIn(a, b)
    BY <1>1 DEF ClientsIn
  <2>3. Cardinality(ClientsIn(a, b)) \in Nat /\ Cardinality(SparesIn(a, b)) \in Nat
    BY <1>1, InFinite
  <2>4. CASE Has("key", 2)
    <3>1. Cardinality(SparesIn(a, b)') = Cardinality(SparesIn(a, b)) + IF tick \in a..b THEN 1 ELSE 0
      BY <1>1, <2>4, OneMoreSpare
    <3>2. QED
      BY <2>2, <2>3, <2>4, <3>1 DEF LetInDuring
  <2>5. CASE ~Has("key", 2)
    <3>1. SparesIn(a, b)' = SparesIn(a, b)
      BY <1>1, <2>5 DEF SparesIn
    <3>2. QED
      BY <2>2, <2>3, <2>5, <3>1 DEF LetInDuring
  <2>6. QED
    BY <2>4, <2>5
<1>7. k \in {0, 1} /\ Level' + k * Period = Level
  BY <1>3, <1>4
<1>8. WithinRate' /\ (\A a \in 1..tick : Rated(a))'
  <2> HIDE DEF k
  <2>1. WithinRate /\ \A a \in 1..tick : Rated(a)
    BY <1>1 DEF Rates
  <2>2. QED
    BY <1>1, <1>5, <1>6, <1>7, <2>1, WithinTick
<1>9. Dated'
  <2>1. /\ \A i \in DOMAIN uses : uses[i].at <= tick
        /\ \A i \in DOMAIN spares : spares[i] <= tick
        /\ \A d \in drops : d <= tick
    BY <1>1 DEF Rates, Dated
  <2>2. \A i \in DOMAIN spares' : spares'[i] = IF i \in DOMAIN spares THEN spares[i] ELSE tick
    <3>1. spares \in Seq(Nat)
      BY <1>1 DEF RateTypes
    <3>2. spares' = Append(spares, tick) \/ spares' = spares
      BY <1>1, Zenon
    <3>3. QED
      BY <3>1, <3>2
  <2>3. \A i \in DOMAIN spares' : spares'[i] <= tick
    BY <1>2, <2>1, <2>2
  <2>4. QED
    BY <1>1, <2>1, <2>3 DEF Dated
<1>10. (lastTaker = "gateway" => Period <= Level)'
  <2>1. CASE Has("key", 2)
    <3>1. 2 * Period <= Level
      BY <1>1, <2>1, Has1
    <3>2. Level' = Level - Period
      BY <1>3, <2>1
    <3>3. Period <= Level'
      BY <1>4, <3>1, <3>2
    <3>4. QED
      BY <3>3
  <2>2. CASE ~Has("key", 2)
    <3>1. lastTaker' = lastTaker /\ Level' = Level
      BY <1>1, <1>3, <2>2
    <3>2. QED
      BY <1>1, <3>1
  <2>3. QED
    BY <2>1, <2>2
<1>11. lastTaker' # "robbed"
  BY <1>1
<1>12. asks' \in [Request -> Asked] /\ CountedTrue'
  <2>1. inFlight' = inFlight - 0
    <3>1. inFlight \in Nat
      BY <1>1, ServingCounts
    <3>2. QED
      BY <1>1, <3>1
  <2>2. QED
    BY <1>1, <2>1, AskAnswered
<1>13. SinceDrop' /\ DropsApart'
  BY <1>1, <1>3, SinceKept DEF RateInv, Rates
<1>14. QED
  BY <1>5, <1>8, <1>9, <1>10, <1>11, <1>12, <1>13 DEF RateInv, Rates, NeverRobbed

\* The sweep leaves the key as it was, or full: and it is a burst more when it
\* was not full, long since the last time.
LEMMA SweepRates ==
  ASSUME RateInv, Sweep
  PROVE  RateInv'
<1> DEFINE b == buckets["key"]
           full == KeyCount * Period
<1>1. /\ RateTypes /\ Rates /\ tick' = tick /\ asks' = asks /\ inFlight' = inFlight
      /\ UNCHANGED <<uses, spares, lastTaker>> /\ GivenAway
      /\ asks \in [Request -> Asked] /\ CountedTrue
      /\ buckets' = [c \in Limited |->
           IF buckets[c].last + SweepAfter < tick THEN NoBucket ELSE buckets[c]]
  BY Zenon DEF Sweep, RateInv
<1>2. \A c \in Limited : buckets'[c] = IF buckets[c].last + SweepAfter < tick THEN NoBucket ELSE buckets[c]
  BY <1>1
<1>3. NoBucket \in Bucket /\ NoBucket.last = 0 /\ NoBucket.tokens = 0 /\ ~NoBucket.there
  BY DEF NoBucket, Bucket
<1>4. tick \in Nat \ {0} /\ \A c \in Limited : Count(c) * Period \in Nat
  <2>1. \A c \in Limited : Count(c) \in Nat /\ Period \in Nat
    BY Counts, CountsAreNumbers
  <2>2. QED
    BY <1>1, <2>1, Distributed DEF RateTypes
<1>5. buckets' \in [Limited -> Bucket]
  <2>1. \A c \in Limited : (IF buckets[c].last + SweepAfter < tick THEN NoBucket ELSE buckets[c]) \in Bucket
    BY <1>1, <1>3 DEF RateTypes
  <2>2. QED
    BY <1>1, <2>1
<1>6. \A c \in Limited : buckets'[c].last <= tick' /\ buckets'[c].tokens <= Count(c) * Period
  <2>1. TAKE c \in Limited
  <2>2. buckets[c].last <= tick /\ buckets[c].tokens <= Count(c) * Period
    BY <1>1 DEF RateTypes
  <2>3. CASE buckets[c].last + SweepAfter < tick
    BY <1>1, <1>3, <1>4, <1>2, <2>3
  <2>4. CASE ~(buckets[c].last + SweepAfter < tick)
    BY <1>1, <1>2, <2>2, <2>4
  <2>5. QED
    BY <2>3, <2>4
<1>7. Level \in Nat /\ Level <= full /\ full \in Nat /\ Period \in Nat /\ KeyCount \in Nat
  BY <1>1, LevelIs, CountsAreNumbers
<1>8. CountedTrue'
  BY <1>1 DEF CountedTrue, Serving
<1>9. ~buckets'["key"].there => Level' = full
  BY Counts DEF Level, Refilled
<1>10. CASE ~(~buckets'["key"].there /\ Level < full)
  <2>1. drops' = drops
    BY <1>1, <1>10 DEF GivenAway, Level
  <2>2. Level' = Level /\ (buckets'["key"] = buckets["key"] \/ ~buckets'["key"].there)
    <3>1. CASE buckets'["key"] = buckets["key"]
      BY <1>1, <3>1 DEF Level
    <3>2. CASE buckets'["key"] # buckets["key"]
      <4>1. buckets'["key"] = NoBucket
        BY <1>2, <3>2, Counts
      <4>2. Level' = full /\ Level = full
        BY <1>3, <1>7, <1>9, <1>10, <4>1
      <4>3. QED
        BY <1>3, <4>1, <4>2
    <3>3. QED
      BY <3>1, <3>2
  <2>3. UNCHANGED <<tick, keyHistory>>
    BY <1>1, <2>1 DEF keyHistory
  <2>4. QED
    BY <1>1, <1>5, <1>6, <1>8, <2>2, <2>3, NothingTaken
<1>11. CASE ~buckets'["key"].there /\ Level < full
  <2>1. drops' = drops \cup {tick} /\ Level' = full
    BY <1>1, <1>9, <1>11 DEF GivenAway, Level
  <2>2. b.there /\ b.last + SweepAfter < tick
    <3>1. ~b.there => Level = full
      BY Counts DEF Level, Refilled
    <3>2. b.there
      BY <1>7, <1>11, <3>1
    <3>3. buckets'["key"] # b
      BY <1>11, <3>2
    <3>4. QED
      BY <1>2, <3>2, <3>3, Counts
  <2>3. b.last \in Nat /\ SweepAfter \in Nat /\ drops \in SUBSET Nat /\ IsFiniteSet(drops)
    BY <1>1, Counts, CountsAreNumbers DEF RateTypes, Bucket
  <2>4. \A d \in drops : d + SweepAfter < tick /\ d < tick
    <3> DEFINE then == b.last
    <3>1. \A d \in drops : d <= then /\ d \in Nat
      BY <2>2, <2>3 DEF RateInv, SinceDrop
    <3>2. then \in Nat /\ then + SweepAfter < tick
      BY <2>2, <2>3
    <3> HIDE DEF then
    <3>3. \A d \in drops : d \in Nat /\ d <= then
      BY <3>1
    <3>4. QED
      BY <1>4, <2>3, <3>2, <3>3
  <2>5. RateTypes'
    <3>1. drops' \in SUBSET Nat /\ IsFiniteSet(drops')
      BY <1>4, <2>1, <2>3, FS_AddElement
    <3>2. QED
      BY <1>1, <1>5, <1>6, <3>1 DEF RateTypes, Count
  <2>6. Dated'
    BY <1>1, <1>4, <2>1 DEF Rates, Dated
  <2>7. SinceDrop' /\ DropsApart'
    <3>1. SinceDrop'
      BY <1>11 DEF SinceDrop
    <3>2. \A s, t \in drops' : s < t => s + SweepAfter < t
      <4>1. TAKE s, t \in drops'
      <4>2. CASE t = tick
        BY <1>4, <2>1, <2>3, <2>4, <4>2
      <4>3. CASE t # tick /\ s # tick
        BY <2>1, <4>3 DEF RateInv, DropsApart
      <4>4. CASE t # tick /\ s = tick
        <5>1. t \in Nat /\ t < tick
          BY <2>1, <2>3, <2>4, <4>4
        <5>2. QED
          BY <1>4, <4>4, <5>1
      <4>5. QED
        BY <4>2, <4>3, <4>4
    <3>3. QED
      BY <3>1, <3>2 DEF DropsApart
  <2>8. \A a, c : LetInDuring(a, c)' = LetInDuring(a, c)
    BY <1>1 DEF LetInDuring, ClientsIn, SparesIn
  <2>9. ASSUME NEW a \in 1..tick
        PROVE  Bursts(a, tick)' = Bursts(a, tick) + full /\ Bursts(a, tick) \in Nat
    <3> DEFINE part == drops \cap a..tick
               n == Cardinality(part)
    <3>1. drops' \cap a..tick = part \cup {tick} /\ tick \notin part
      BY <1>4, <2>1, <2>4, <2>9
    <3>2. IsFiniteSet(part) /\ n \in Nat /\ Bursts(a, tick) \in Nat
      BY <1>1, BurstsAre
    <3> HIDE DEF part
    <3>3. Cardinality(part \cup {tick}) = n + 1
      BY <3>1, <3>2, FS_AddElement
    <3>4. Bursts(a, tick) = (1 + n) * full
      BY DEF Bursts, part
    <3>5. Bursts(a, tick)' = (1 + (n + 1)) * full
      BY <1>1, <3>1, <3>3 DEF Bursts
    <3> HIDE DEF n, full
    <3>6. (1 + (n + 1)) * full = (1 + n) * full + full
      <4>1. 1 + n \in Nat /\ 1 + (n + 1) = (1 + n) + 1
        BY <3>2
      <4>2. full \in Nat
        BY <1>7
      <4>3. QED
        BY <4>1, <4>2, Distributed
    <3>7. QED
      BY <3>2, <3>4, <3>5, <3>6
  <2>10. ASSUME NEW a \in 1..tick
         PROVE  LetInDuring(a, tick) * Period + full <= Bursts(a, tick)' + (tick - a) * KeyCount
    <3> DEFINE all == LetInDuring(a, tick) * Period
               brought == (tick - a) * KeyCount
               burst == Bursts(a, tick)
    <3>1. all \in Nat /\ brought \in Nat /\ burst \in Nat
      <4>1. LetInDuring(a, tick) \in Nat /\ tick - a \in Nat
        BY <1>1, <1>4, <2>10, InFinite
      <4>2. QED
        BY <1>7, <2>9, <2>10, <4>1, Distributed
    <3>2. all + Level <= burst + brought
      BY <1>1, <2>10 DEF Rates, Rated
    <3>3. Bursts(a, tick)' = burst + full
      BY <2>9, <2>10
    <3> HIDE DEF all, brought, burst, full
    <3>4. all + full <= (burst + full) + brought
      BY <1>7, <3>1, <3>2
    <3>5. QED
      BY <3>3, <3>4 DEF all, brought
  <2>11. ASSUME NEW a \in 1..tick, NEW c \in a..tick
         PROVE  LetInDuring(a, c) * Period <= Bursts(a, c)' + (c - a) * KeyCount
    <3>1. CASE c = tick
      <4> DEFINE all == LetInDuring(a, tick) * Period
                 bound == Bursts(a, tick)' + (tick - a) * KeyCount
      <4>0. Bursts(a, c)' = Bursts(a, tick)'
        BY <1>1, <3>1 DEF Bursts
      <4>1. all + full <= bound
        BY <2>10, <2>11
      <4>2. all \in Nat /\ bound \in Int
        <5>1. LetInDuring(a, tick) \in Nat /\ tick - a \in Nat
          BY <1>1, <1>4, <2>11, InFinite
        <5>2. Bursts(a, tick)' \in Nat
          BY <1>7, <2>9, <2>11
        <5>3. QED
          BY <1>7, <5>1, <5>2, Distributed
      <4> HIDE DEF all, bound, full
      <4>3. all <= bound
        BY <1>7, <4>1, <4>2, Sums
      <4>4. LetInDuring(a, tick) * Period <= Bursts(a, tick)' + (tick - a) * KeyCount
        BY <4>3 DEF all, bound
      <4>5. LetInDuring(a, c) * Period = LetInDuring(a, tick) * Period /\ (c - a) * KeyCount = (tick - a) * KeyCount
        BY <3>1
      <4>6. QED
        BY <4>0, <4>4, <4>5, Zenon
    <3>2. CASE c # tick
      <4>1. drops' \cap a..c = drops \cap a..c
        BY <1>4, <2>1, <2>11, <3>2
      <4>2. Bursts(a, c)' = Bursts(a, c)
        BY <1>1, <4>1 DEF Bursts
      <4>3. QED
        BY <1>1, <2>11, <4>2 DEF Rates, WithinRate
    <3>3. QED
      BY <3>1, <3>2
  <2>12. Rates'
    <3>1. WithinRate'
      BY <1>1, <2>8, <2>11 DEF WithinRate
    <3>2. (\A a \in 1..tick : Rated(a))'
      <4>1. \A a : LetInDuring(a, tick)' = LetInDuring(a, tick)
        BY <1>1 DEF LetInDuring, ClientsIn, SparesIn
      <4>2. QED
        BY <1>1, <2>1, <2>10, <4>1 DEF Rated
    <3>3. QED
      BY <2>6, <3>1, <3>2 DEF Rates
  <2>13. (lastTaker = "gateway" => Period <= Level)' /\ NeverRobbed'
    <3>1. Period <= Level => Period <= full
      BY <1>7
    <3>2. QED
      BY <1>1, <2>1, <3>1 DEF RateInv, NeverRobbed
  <2>14. QED
    BY <1>1, <1>8, <2>5, <2>7, <2>12, <2>13 DEF RateInv
<1>12. QED
  BY <1>10, <1>11

LEMMA TickRates ==
  ASSUME RateInv, AdmissionTick
  PROVE  RateInv'
<1>1. /\ RateTypes /\ Rates /\ tick' = tick + 1 /\ UNCHANGED <<buckets, keyHistory, asks, inFlight>>
      /\ asks \in [Request -> Asked] /\ CountedTrue /\ NeverRobbed
      /\ UNCHANGED <<uses, spares, lastTaker, drops>>
  BY DEF AdmissionTick, RateInv, keyHistory
<1>2. RateTypes'
  <2>1. tick \in Nat \ {0} /\ \A b \in Limited : buckets[b].last \in Nat /\ buckets[b].last <= tick
    BY <1>1 DEF RateTypes, Bucket
  <2>2. tick + 1 \in Nat \ {0} /\ \A b \in Limited : buckets[b].last <= tick + 1
    BY <2>1
  <2>3. QED
    BY <1>1, <2>2 DEF RateTypes, Count
<1>3. Rates'
  BY <1>1, <1>2, NextTickRates
<1>4. (lastTaker = "gateway" => Period <= Level)'
  <2>1. buckets["key"] \in Bucket /\ buckets["key"].last <= tick /\ tick \in Nat
    BY <1>1, Counts DEF RateTypes
  <2>2. Refilled(buckets["key"], KeyCount, tick) <= Refilled(buckets["key"], KeyCount, tick + 1)
    BY <2>1, TickBrings, CountsAreNumbers
  <2>3. Level <= Level'
    BY <1>1, <2>2 DEF Level
  <2>4. Level \in Nat /\ Level' \in Nat /\ Period \in Nat
    <3>1. (RateTypes => Level \in Nat /\ Level <= KeyCount * Period /\ KeyCount * Period \in Nat)'
      BY LevelIs, PTL
    <3>2. QED
      BY <1>1, <1>2, <3>1, LevelIs, CountsAreNumbers
  <2>5. Period <= Level => Period <= Level'
    BY <2>3, <2>4
  <2>6. QED
    BY <1>1, <2>5 DEF RateInv
<1>5. NeverRobbed' /\ CountedTrue'
  BY <1>1 DEF NeverRobbed, CountedTrue, Serving
<1>6. SinceDrop' /\ DropsApart'
  BY <1>1 DEF RateInv, SinceDrop, DropsApart
<1>7. QED
  BY <1>1, <1>2, <1>3, <1>4, <1>5, <1>6 DEF RateInv

\* The steps of requireAPIKey before the key's bucket, and of inference.
LEMMA AddressRates ==
  ASSUME RateInv, NEW spend \in BOOLEAN, Take("address", 1, spend), UNCHANGED <<tick, keyHistory>>,
         asks' \in [Request -> Asked], CountedTrue'
  PROVE  RateInv'
<1>1. "address" \in Limited /\ 1 \in Nat \ {0} /\ RateTypes /\ tick' = tick
  BY Counts DEF RateInv
<1>2. /\ buckets' \in [Limited -> Bucket]
      /\ \A b \in Limited : buckets'[b].last <= tick' /\ buckets'[b].tokens <= Count(b) * Period
      /\ "address" = "address" => Level' = Level
      /\ buckets'["key"] = buckets["key"] \/ buckets'["key"].last = tick
  BY <1>1, TakeKept
<1>3. QED
  BY <1>2, NothingTaken

LEMMA RequestRates ==
  ASSUME RateInv, NEW q \in Request,
         \/ \E cred \in {"none", "key"} : Peek(q, cred)
         \/ ChargeStranger(q) \/ Authenticate(q) \/ (LetInSpare(q) /\ ~(KeyCount >= 2))
         \/ BeginServing(q) \/ EndServing(q)
  PROVE  RateInv'
<1>1. asks \in [Request -> Asked] /\ CountedTrue /\ inFlight \in Nat
  BY ServingCounts DEF RateInv
<1>2. inFlight - 0 = inFlight /\ (inFlight - 0) + 0 = inFlight /\ (inFlight - 0) + 1 = inFlight + 1
      /\ (inFlight - 1) + 0 = inFlight - 1
  BY <1>1
<1>3. ASSUME NEW cred \in {"none", "key"}, Peek(q, cred) PROVE RateInv'
  <2> DEFINE v == [pc |-> "lookup", cred |-> cred]
  <2>1. v \in Asked /\ v.pc # "serving"
    BY DEF Asked
  <2>2. asks[q].pc = "none" /\ inFlight' = inFlight
        /\ (asks' = [asks EXCEPT ![q] = v] \/ asks' = asks)
    BY <1>3 DEF Peek
  <2> HIDE DEF v
  <2>3. asks' \in [Request -> Asked] /\ CountedTrue'
    <3>1. CASE asks' = asks
      BY <1>1, <2>2, <3>1 DEF CountedTrue, Serving
    <3>2. CASE asks' = [asks EXCEPT ![q] = v]
      <4>1. asks' \in [Request -> Asked] /\ Cardinality(Serving') = Cardinality(Serving)
        BY <1>1, <2>1, <2>2, <3>2, OneMoves
      <4>2. QED
        BY <1>1, <2>2, <4>1 DEF CountedTrue
    <3>3. QED
      BY <2>2, <3>1, <3>2
  <2>4. Take("address", 1, FALSE) /\ UNCHANGED <<tick, keyHistory>>
    BY <1>3 DEF Peek
  <2>5. QED
    BY <2>3, <2>4, AddressRates
<1>4. CASE ChargeStranger(q)
  <2>1. AnswerGiven(q) /\ asks[q].pc = "lookup" /\ inFlight' = inFlight
        /\ Take("address", 1, TRUE) /\ UNCHANGED <<tick, keyHistory>>
    BY <1>4 DEF ChargeStranger
  <2>2. asks' \in [Request -> Asked] /\ CountedTrue'
    BY <1>1, <1>2, <2>1, AskAnswered
  <2>3. QED
    BY <2>1, <2>2, AddressRates
<1>5. CASE Authenticate(q)
  <2>1. (AnswerGiven(q) \/ To(q, "rate")) /\ asks[q].pc = "lookup" /\ inFlight' = inFlight
        /\ UNCHANGED <<tick, buckets, keyHistory>>
    BY <1>5 DEF Authenticate
  <2>2. asks' \in [Request -> Asked] /\ CountedTrue'
    BY <1>1, <1>2, <2>1, AskAnswered, SentOn
  <2>3. QED
    BY <2>1, <2>2, NoBucketTouched
<1>6. CASE LetInSpare(q) /\ ~(KeyCount >= 2)
  <2>1. AnswerGiven(q) /\ asks[q].pc = "spare" /\ inFlight' = inFlight
        /\ UNCHANGED <<tick, buckets, keyHistory>>
    BY <1>6 DEF LetInSpare, keyHistory
  <2>2. asks' \in [Request -> Asked] /\ CountedTrue'
    BY <1>1, <1>2, <2>1, AskAnswered
  <2>3. QED
    BY <2>1, <2>2, NoBucketTouched
<1>7. CASE BeginServing(q)
  <2>1. To(q, "serving") /\ asks[q].pc = "admitted" /\ inFlight' = inFlight + 1
        /\ UNCHANGED <<tick, buckets, keyHistory>>
    BY <1>7 DEF BeginServing
  <2>2. asks' \in [Request -> Asked] /\ CountedTrue'
    BY <1>1, <1>2, <2>1, SentOn
  <2>3. QED
    BY <2>1, <2>2, NoBucketTouched
<1>8. CASE EndServing(q)
  <2>1. (AnswerGiven(q) \/ To(q, "spare")) /\ asks[q].pc = "serving" /\ inFlight' = inFlight - 1
        /\ UNCHANGED <<tick, buckets, keyHistory>>
    BY <1>8 DEF EndServing
  <2>2. asks' \in [Request -> Asked] /\ CountedTrue'
    BY <1>1, <1>2, <2>1, AskAnswered, SentOn
  <2>3. QED
    BY <2>1, <2>2, NoBucketTouched
<1>9. QED
  BY <1>3, <1>4, <1>5, <1>6, <1>7, <1>8

LEMMA RatesBegin == AdmissionInit => RateInv
<1> SUFFICES ASSUME AdmissionInit PROVE RateInv
  OBVIOUS
<1>1. /\ tick = 1 /\ buckets = [b \in Limited |-> NoBucket] /\ asks = [q \in Request |-> NotAsking]
      /\ inFlight = 0 /\ uses = <<>> /\ spares = <<>> /\ lastTaker = "nobody" /\ drops = {}
  BY DEF AdmissionInit
<1>2. NoBucket \in Bucket /\ NoBucket.last = 0 /\ NoBucket.tokens = 0 /\ ~NoBucket.there
      /\ NotAsking \in Asked /\ NotAsking.pc = "none"
  BY DEF NoBucket, Bucket, NotAsking, Asked
<1>3. \A b \in Limited : Count(b) * Period \in Nat
  <2>1. \A b \in Limited : Count(b) \in Nat /\ Period \in Nat
    BY Counts, CountsAreNumbers
  <2>2. QED
    BY <2>1, Distributed
<1>4. RateTypes
  BY <1>1, <1>2, <1>3, FS_EmptySet DEF RateTypes
<1>5. Dated /\ SinceDrop /\ DropsApart
  BY <1>1 DEF Dated, SinceDrop, DropsApart
<1>6. LetInDuring(1, 1) = 0
  <2>1. ClientsIn(1, 1) = {} /\ SparesIn(1, 1) = {}
    BY <1>1 DEF ClientsIn, SparesIn
  <2>2. QED
    BY <2>1, FS_EmptySet DEF LetInDuring
<1>7. Level = KeyCount * Period /\ Level \in Nat
  BY <1>1, <1>2, <1>4, LevelIs, Counts DEF Level, Refilled
<1>8. KeyCount \in Nat /\ Period \in Nat /\ 0 * Period = 0 /\ 0 * KeyCount = 0
  BY CountsAreNumbers, Distributed
<1>9. WithinRate /\ \A a \in 1..tick : Rated(a)
  <2>1. \A a \in 1..tick : a = 1 /\ \A b \in a..tick : b = 1
    BY <1>1
  <2>2. 1 - 1 = 0
    OBVIOUS
  <2> DEFINE burst == Bursts(1, 1)
  <2>0. burst \in Nat /\ KeyCount * Period <= burst
    BY <1>4, BurstsAre
  <2> HIDE DEF burst
  <2>3. LetInDuring(1, 1) * Period <= Bursts(1, 1) + (1 - 1) * KeyCount
    BY <1>6, <1>7, <1>8, <2>0, <2>2 DEF burst
  <2>4. LetInDuring(1, tick) * Period + Level <= Bursts(1, tick) + (tick - 1) * KeyCount
    BY <1>1, <1>6, <1>7, <1>8, <2>0, <2>2 DEF burst
  <2>5. QED
    BY <2>1, <2>3, <2>4 DEF WithinRate, Rated
<1>10. asks \in [Request -> Asked]
  BY <1>1, <1>2
<1>11. CountedTrue
  <2>1. Serving = {}
    BY <1>1, <1>2 DEF Serving
  <2>2. QED
    BY <1>1, <2>1, FS_EmptySet DEF CountedTrue
<1>12. QED
  BY <1>1, <1>4, <1>5, <1>9, <1>10, <1>11 DEF RateInv, Rates, NeverRobbed

LEMMA RatesStep ==
  ASSUME RateInv, [AdmissionNext]_admissionVars
  PROVE  RateInv'
<1>1. ASSUME NEW q \in Request, Allow(q) PROVE RateInv'
  BY <1>1, AllowRates
<1>2. ASSUME NEW q \in Request, LetInSpare(q), KeyCount >= 2 PROVE RateInv'
  BY <1>2, SpareRates
<1>3. ASSUME NEW q \in Request,
             \/ \E cred \in {"none", "key"} : Peek(q, cred)
             \/ ChargeStranger(q) \/ Authenticate(q) \/ (LetInSpare(q) /\ ~(KeyCount >= 2))
             \/ BeginServing(q) \/ EndServing(q)
      PROVE  RateInv'
  BY <1>3, RequestRates
<1>4. CASE Sweep
  BY <1>4, SweepRates
<1>5. CASE AdmissionTick
  BY <1>5, TickRates
<1>6. ASSUME NEW off \in BOOLEAN, SetDisabled(off) PROVE RateInv'
  <2>1. UNCHANGED <<tick, buckets, keyHistory, asks, inFlight>>
    BY <1>6 DEF SetDisabled
  <2>2. asks' \in [Request -> Asked] /\ CountedTrue'
    BY <2>1 DEF RateInv, CountedTrue, Serving
  <2>3. QED
    BY <2>1, <2>2, NoBucketTouched
<1>7. CASE UNCHANGED admissionVars
  <2>1. UNCHANGED <<tick, buckets, keyHistory, asks, inFlight>>
    BY <1>7 DEF admissionVars, keyHistory
  <2>2. asks' \in [Request -> Asked] /\ CountedTrue'
    BY <2>1 DEF RateInv, CountedTrue, Serving
  <2>3. QED
    BY <2>1, <2>2, NoBucketTouched
<1>8. QED
  BY <1>1, <1>2, <1>3, <1>4, <1>5, <1>6, <1>7 DEF AdmissionNext

\* A key is let in no more than its count in a burst and its count a period
\* after that, the gateway's own requests for it included, and a burst more for
\* every time the sweeper forgot it before it was full again, which it does no
\* oftener than it lets a bucket be idle; the gateway never takes the token the
\* client's next request needs; and the requests a client's page shows under way
\* are those that are: for any number of requests, any counts, any period and
\* any patience of the sweeper's (limiter.go).
THEOREM LimitsKeptHolds == AdmissionSpec => []LimitsKept
<1>1. RateInv /\ [AdmissionNext]_admissionVars => RateInv'
  BY RatesStep
<1>2. RateInv => LimitsKept
  BY DEF RateInv, Rates, LimitsKept
<1>3. QED
  BY <1>1, <1>2, RatesBegin, PTL DEF AdmissionSpec

\* Of a key whose period is no longer than the sweeper's patience a sweep gives
\* nothing away: such a key has its one burst and its rate (limiter.go, Sweep).
THEOREM NothingGivenAwayHolds ==
  ASSUME Period <= SweepAfter + 1
  PROVE  AdmissionSpec => []NothingGivenAway
<1>1. RateInv /\ NothingGivenAway /\ [AdmissionNext]_admissionVars => NothingGivenAway'
  <2> SUFFICES ASSUME RateInv, NothingGivenAway, [AdmissionNext]_admissionVars
               PROVE  NothingGivenAway'
    OBVIOUS
  <2>1. drops' = drops \/ (Sweep /\ drops' # drops)
    BY DEF AdmissionNext, admissionVars, keyHistory, Peek, ChargeStranger, Authenticate, Allow,
           LetInSpare, BeginServing, EndServing, AdmissionTick, SetDisabled
  <2>2. CASE Sweep /\ drops' # drops
    <3> DEFINE b == buckets["key"]
    <3>1. b \in Bucket /\ b.last <= tick /\ tick \in Nat /\ KeyCount \in Nat \ {0}
      BY Counts, CountsAreNumbers DEF RateInv, RateTypes
    <3>2. ~buckets'["key"].there /\ Refilled(b, KeyCount, tick) < KeyCount * Period
      BY <2>2, Zenon DEF Sweep, GivenAway
    <3>3. Refilled(b, KeyCount, tick) \in Nat /\ KeyCount * Period \in Nat
          /\ (~b.there => Refilled(b, KeyCount, tick) = KeyCount * Period)
      BY <3>1, Refills
    <3>4. b.there
      BY <3>2, <3>3
    <3>5. buckets'["key"] = IF b.last + SweepAfter < tick THEN NoBucket ELSE b
      BY <2>2, Counts DEF Sweep
    <3>6. b.last + SweepAfter < tick
      BY <3>2, <3>4, <3>5
    <3>7. Refilled(b, KeyCount, tick) = KeyCount * Period
      BY <3>1, <3>6, IdleIsFull
    <3>8. QED
      BY <3>2, <3>3, <3>7
  <2>3. QED
    BY <2>1, <2>2 DEF NothingGivenAway
<1>2. AdmissionInit => NothingGivenAway
  BY DEF AdmissionInit, NothingGivenAway
<1>3. RateInv /\ [AdmissionNext]_admissionVars => RateInv'
  BY RatesStep
<1>4. QED
  BY <1>1, <1>2, <1>3, RatesBegin, PTL DEF AdmissionSpec

---------------------------------------------------------------------------
(* What rows come to *)

Costing(rs) == \A r \in rs : r.cost \in Nat

OneOf(rs) == CHOOSE r \in rs : TRUE
Summed(rs, f) == f = [s \in SUBSET rs |-> IF s = {} THEN 0 ELSE OneOf(s).cost + f[s \ {OneOf(s)}]]

LEMMA OneIsIn ==
  ASSUME NEW rs, NEW s \in SUBSET rs, s # {}
  PROVE  OneOf(s) \in s /\ OneOf(s) \in rs /\ s \ {OneOf(s)} \in SUBSET rs
BY DEF OneOf

LEMMA SumRuns ==
  ASSUME NEW rs, IsFiniteSet(rs), Costing(rs)
  PROVE  \E f \in [SUBSET rs -> Nat] : Summed(rs, f)
<1> DEFINE picks == [s \in SUBSET rs |-> OneOf(s)]
           adds == [r \in rs |-> [n \in Nat |-> r.cost + n]]
<1>1. Picker(rs, picks)
  BY OneIsIn DEF Picker
<1>2. adds \in [rs -> [Nat -> Nat]]
  <2>1. \A r \in rs : [n \in Nat |-> r.cost + n] \in [Nat -> Nat]
    BY DEF Costing
  <2>2. QED
    BY <2>1
<1>3. PICK f : Folds(rs, Nat, 0, adds, picks, f)
  <2> HIDE DEF adds, picks
  <2>1. 0 \in Nat
    OBVIOUS
  <2>2. QED
    BY <1>1, <1>2, <2>1, FoldRuns, Zenon
<1>4. ASSUME NEW s \in SUBSET rs
      PROVE  f[s] = IF s = {} THEN 0 ELSE OneOf(s).cost + f[s \ {OneOf(s)}]
  <2>1. CASE s = {}
    BY <1>3, <2>1 DEF Folded, Folds
  <2>2. CASE s # {}
    <3>1. picks[s] = OneOf(s) /\ OneOf(s) \in rs /\ f[s \ {OneOf(s)}] \in Nat
      BY <1>3, <2>2, OneIsIn DEF Folds
    <3>2. f[s] = adds[OneOf(s)][f[s \ {OneOf(s)}]]
      <4> HIDE DEF picks, adds
      <4>1. QED
        BY <1>3, <2>2, <3>1 DEF Folded, Folds
    <3>3. QED
      BY <2>2, <3>1, <3>2
  <2>3. QED
    BY <2>1, <2>2
<1>5. Summed(rs, f) /\ f \in [SUBSET rs -> Nat]
  BY <1>3, <1>4 DEF Summed, Folds
<1>6. QED
  BY <1>5

LEMMA SumsAgree ==
  ASSUME NEW rs, IsFiniteSet(rs), NEW ss \in SUBSET rs, NEW f, NEW g, Summed(rs, f), Summed(ss, g)
  PROVE  f[ss] = g[ss]
<1>1. IsFiniteSet(ss)
  BY FS_Subset
<1>2. f[{}] = g[{}]
  BY DEF Summed
<1>3. ASSUME NEW s \in (SUBSET ss) \ {{}} PROVE \E x \in s : f[s \ {x}] = g[s \ {x}] => f[s] = g[s]
  <2>1. f[s] = OneOf(s).cost + f[s \ {OneOf(s)}] /\ g[s] = OneOf(s).cost + g[s \ {OneOf(s)}]
    BY DEF Summed
  <2>2. OneOf(s) \in s
    BY OneIsIn
  <2>3. QED
    BY <2>1, <2>2
<1>4. Alike(ss, f, g)
  BY <1>2, <1>3 DEF Alike
<1>5. SameOn(ss, f, g)
  BY <1>1, <1>4, FoldsAgree, Zenon
<1>6. QED
  BY <1>5 DEF SameOn

LEMMA SumIs ==
  ASSUME NEW rs, IsFiniteSet(rs), Costing(rs), NEW f, Summed(rs, f), NEW ss \in SUBSET rs
  PROVE  SumOf(ss) = f[ss]
<1> DEFINE iter == CHOOSE iter : iter = [s \in SUBSET ss |-> IF s = {} THEN 0
                                           ELSE (CHOOSE x \in s : TRUE).cost + iter[s \ {CHOOSE x \in s : TRUE}]]
<1>1. SumOf(ss) = iter[ss]
  BY DEF SumOf, FoldSet, MapThenFoldSet
<1>2. IsFiniteSet(ss) /\ Costing(ss)
  BY FS_Subset DEF Costing
<1>3. \E g : Summed(ss, g)
  BY <1>2, SumRuns
<1>4. Summed(ss, iter)
  BY <1>3 DEF Summed, OneOf
<1>5. QED
  <2> HIDE DEF iter
  <2>1. QED
    BY <1>1, <1>4, SumsAgree

LEMMA SumNat ==
  ASSUME NEW rs, IsFiniteSet(rs), Costing(rs)
  PROVE  SumOf(rs) \in Nat
<1>1. PICK f \in [SUBSET rs -> Nat] : Summed(rs, f)
  BY SumRuns
<1>2. SumOf(rs) = f[rs]
  BY <1>1, SumIs
<1>3. QED
  BY <1>2

LEMMA SumNone == SumOf({}) = 0
<1>1. IsFiniteSet({}) /\ Costing({})
  BY FS_EmptySet DEF Costing
<1>2. PICK f \in [SUBSET {} -> Nat] : Summed({}, f)
  BY <1>1, SumRuns
<1>3. SumOf({}) = f[{}]
  BY <1>1, <1>2, SumIs
<1>4. QED
  BY <1>2, <1>3 DEF Summed

\* Whichever row is taken first.
LEMMA SumWithout ==
  ASSUME NEW rs, IsFiniteSet(rs), Costing(rs), NEW r \in rs
  PROVE  SumOf(rs) = r.cost + SumOf(rs \ {r})
<1>1. PICK f \in [SUBSET rs -> Nat] : Summed(rs, f)
  BY SumRuns
<1> DEFINE Odd == {s \in SUBSET rs : \E x \in s : f[s] # x.cost + f[s \ {x}]}
           Sizes == {Cardinality(s) : s \in Odd}
<1>2. \A s \in SUBSET rs : IsFiniteSet(s) /\ Cardinality(s) \in Nat
  BY FS_Subset, FS_CardinalityType
<1>3. ASSUME Odd # {} PROVE FALSE
  <2>1. Sizes \in SUBSET Nat /\ Sizes # {}
    BY <1>2, <1>3
  <2>2. PICK n \in Sizes : \A k \in Sizes : n <= k
    <3> HIDE DEF Sizes
    <3>1. QED
      BY <2>1, LeastNumber
  <2>3. PICK s \in Odd : n = Cardinality(s)
    OBVIOUS
  <2>4. PICK x \in s : f[s] # x.cost + f[s \ {x}]
    OBVIOUS
  <2> DEFINE y == OneOf(s)
  <2>5. y \in s /\ f[s] = y.cost + f[s \ {y}] /\ s \in SUBSET rs /\ x # y
    BY <1>1, <2>4, OneIsIn DEF Summed
  <2>6. ASSUME NEW z \in s, NEW w \in s \ {z} PROVE f[s \ {z}] = w.cost + f[(s \ {z}) \ {w}]
    <3>1. Cardinality(s \ {z}) < n
      BY <1>2, <2>3, OneLess
    <3>2. s \ {z} \notin Odd
      <4>1. n \in Nat /\ Cardinality(s \ {z}) \in Nat /\ ~ (n <= Cardinality(s \ {z}))
        BY <1>2, <2>3, <3>1
      <4>2. \A t \in Odd : n <= Cardinality(t)
        BY <2>2
      <4> HIDE DEF Odd
      <4>3. QED
        BY <4>1, <4>2
    <3>3. QED
      BY <3>2
  <2> HIDE DEF y
  <2>7. f[s \ {y}] = x.cost + f[(s \ {y}) \ {x}] /\ f[s \ {x}] = y.cost + f[(s \ {x}) \ {y}]
    BY <2>5, <2>6
  <2>8. (s \ {y}) \ {x} = (s \ {x}) \ {y}
    OBVIOUS
  <2>9. x.cost \in Nat /\ y.cost \in Nat /\ f[(s \ {x}) \ {y}] \in Nat
    BY <2>5 DEF Costing
  <2>10. \A c, d, e \in Nat : d + (c + e) = c + (d + e)
    OBVIOUS
  <2>11. f[(s \ {y}) \ {x}] = f[(s \ {x}) \ {y}]
    BY <2>8
  <2>12. f[s] = y.cost + (x.cost + f[(s \ {x}) \ {y}])
    BY <2>5, <2>7, <2>11
  <2>13. f[s] = x.cost + (y.cost + f[(s \ {x}) \ {y}])
    BY <2>9, <2>10, <2>12
  <2>14. QED
    BY <2>4, <2>7, <2>13
<1>4. f[rs] = r.cost + f[rs \ {r}]
  BY <1>3
<1>5. SumOf(rs) = f[rs] /\ SumOf(rs \ {r}) = f[rs \ {r}]
  BY <1>1, SumIs
<1>6. QED
  BY <1>4, <1>5

LEMMA SumOfFewer ==
  ASSUME NEW rs, IsFiniteSet(rs), Costing(rs), NEW ss \in SUBSET rs
  PROVE  SumOf(ss) <= SumOf(rs)
<1> DEFINE Odd == {s \in SUBSET rs : ss \subseteq s /\ ~ SumOf(ss) <= SumOf(s)}
           Sizes == {Cardinality(s) : s \in Odd}
<1>1. \A s \in SUBSET rs : IsFiniteSet(s) /\ Cardinality(s) \in Nat /\ Costing(s) /\ SumOf(s) \in Nat
  BY FS_Subset, FS_CardinalityType, SumNat DEF Costing
<1>2. ASSUME Odd # {} PROVE FALSE
  <2>1. Sizes \in SUBSET Nat /\ Sizes # {}
    BY <1>1, <1>2
  <2>2. PICK n \in Sizes : \A k \in Sizes : n <= k
    <3> HIDE DEF Sizes
    <3>1. QED
      BY <2>1, LeastNumber
  <2>3. PICK s \in Odd : n = Cardinality(s)
    OBVIOUS
  <2>4. s \in SUBSET rs /\ ss \subseteq s /\ ~ SumOf(ss) <= SumOf(s)
    OBVIOUS
  <2>5. PICK x \in s : x \notin ss
    <3>1. SumOf(ss) <= SumOf(ss)
      BY <1>1
    <3>2. QED
      BY <2>4, <3>1
  <2>6. Cardinality(s \ {x}) < n
    BY <1>1, <2>3, OneLess
  <2>7. SumOf(ss) <= SumOf(s \ {x})
    <3>1. s \ {x} \notin Odd
      BY <1>1, <2>2, <2>3, <2>6
    <3>2. QED
      BY <2>4, <2>5, <3>1
  <2>8. SumOf(s) = x.cost + SumOf(s \ {x}) /\ x.cost \in Nat
    BY <1>1, <2>4, SumWithout DEF Costing
  <2>9. SumOf(ss) \in Nat /\ SumOf(s \ {x}) \in Nat
    BY <1>1, <2>4
  <2>10. QED
    BY <2>4, <2>7, <2>8, <2>9
<1>3. QED
  BY <1>2

LEMMA SumWith ==
  ASSUME NEW rs, IsFiniteSet(rs), Costing(rs), NEW r, r.cost \in Nat
  PROVE  SumOf(rs \cup {r}) <= SumOf(rs) + r.cost
<1>1. SumOf(rs) \in Nat
  BY SumNat
<1>2. CASE r \in rs
  <2>1. rs \cup {r} = rs
    BY <1>2
  <2>2. SumOf(rs \cup {r}) = SumOf(rs)
    BY <2>1
  <2>3. \A m, n \in Nat : m <= m + n
    OBVIOUS
  <2>4. QED
    BY <1>1, <2>2, <2>3
<1>3. CASE r \notin rs
  <2>1. IsFiniteSet(rs \cup {r}) /\ Costing(rs \cup {r}) /\ (rs \cup {r}) \ {r} = rs
    BY <1>3, FS_AddElement DEF Costing
  <2>2. SumOf(rs \cup {r}) = r.cost + SumOf(rs)
    BY <2>1, SumWithout
  <2>3. \A m, n \in Nat : m + n <= n + m
    OBVIOUS
  <2>4. QED
    BY <1>1, <2>2, <2>3
<1>4. QED
  BY <1>2, <1>3

\* A row in place of another that cost the same.
LEMMA SumSwapped ==
  ASSUME NEW rs, IsFiniteSet(rs), Costing(rs), NEW r \in rs, NEW s, s \notin rs \ {r}, s.cost = r.cost
  PROVE  SumOf((rs \ {r}) \cup {s}) = SumOf(rs)
<1> DEFINE rest == rs \ {r}
<1>0. IsFiniteSet(rest) /\ s \notin rest
  BY FS_Subset
<1>1. IsFiniteSet(rest \cup {s}) /\ Costing(rest \cup {s}) /\ (rest \cup {s}) \ {s} = rest
  <2>1. IsFiniteSet(rest \cup {s})
    BY <1>0, FS_AddElement
  <2>2. Costing(rest \cup {s})
    BY DEF Costing
  <2>3. QED
    BY <1>0, <2>1, <2>2
<1>2. SumOf(rest \cup {s}) = s.cost + SumOf(rest)
  <2> HIDE DEF rest
  <2>1. s \in rest \cup {s}
    OBVIOUS
  <2>2. QED
    BY <1>1, <2>1, SumWithout
<1>3. SumOf(rs) = r.cost + SumOf(rest)
  BY SumWithout
<1>4. QED
  BY <1>2, <1>3
---------------------------------------------------------------------------
(* What a key has spent *)

Row == [start : Nat, cost : Nat, done : Nat, n : Nat, credited : BOOLEAN]
Entry == [tokens : Nat, refreshed : Nat, missed : Nat]
Spend == [pc : {"none", "query", "store", "serving", "failedOpen", "credit"}, start : Nat,
          figure : Nat, cost : Nat, missed : Nat, own : BOOLEAN]

\* The rows a figure read at t has seen, those a request that came at t has been
\* told of, and those the figure was kept up with.
Before(rs, t) == {r \in rs : InWindow(r, t) /\ r.done < t}
Noticed(rs, t) == {r \in rs : InWindow(r, t) /\ r.done + Fresh <= t}
KeptUp(rs, t) == {r \in rs : r.credited /\ InWindow(r, t)}

\* Rows are numbered as they are written.
RowsStand(rs) ==
  /\ rs \subseteq Row /\ IsFiniteSet(rs)
  /\ \A r \in rs : r.n < Cardinality(rs)
  /\ \A r, s \in rs : r.n = s.n => r = s

\* The key's figure has seen what was written before it was read, and was kept
\* up with what was credited since.
EntryStands(e, rs, d) ==
  /\ e \in Entry /\ e.refreshed <= d
  /\ e.refreshed # 0 => /\ SumOf(Before(rs, e.refreshed)) <= e.tokens
                        /\ SumOf(KeptUp(rs, d)) <= e.tokens + e.missed

\* So has the one a request has read and is to store; a request to be credited
\* has its row; and one being served was let in by a figure that was not late.
SpendStands(s, rs, d) ==
  /\ s \in Spend /\ s.start <= d
  /\ s.pc = "store" => /\ SumOf(Before(rs, s.start)) <= s.figure
                       /\ SumOf(KeptUp(rs, d)) <= s.figure + s.missed
  /\ s.pc = "credit" => \E r \in rs : r.n = s.figure /\ r.cost = s.cost
  /\ s.pc = "serving" => SumOf(Noticed(rs, s.start)) < TokenBudget

BudgetStands ==
  /\ day \in Nat /\ RowsStand(rows) /\ EntryStands(entry, rows, day)
  /\ DOMAIN spends = Spender /\ \A q \in Spender : SpendStands(spends[q], rows, day)

LEMMA SomeOfRows ==
  ASSUME NEW rs, RowsStand(rs), NEW ss \in SUBSET rs
  PROVE  IsFiniteSet(ss) /\ Costing(ss) /\ SumOf(ss) \in Nat
<1>1. IsFiniteSet(ss) /\ Costing(ss)
  BY FS_Subset DEF RowsStand, Costing, Row
<1>2. QED
  BY <1>1, SumNat

LEMMA FewerRows ==
  ASSUME NEW rs, RowsStand(rs), NEW ss \in SUBSET rs, NEW ts \in SUBSET ss
  PROVE  SumOf(ts) <= SumOf(ss) /\ SumOf(ts) \in Nat /\ SumOf(ss) \in Nat
<1>1. IsFiniteSet(ss) /\ Costing(ss) /\ SumOf(ss) \in Nat
  BY SomeOfRows
<1>2. SumOf(ts) <= SumOf(ss)
  BY <1>1, SumOfFewer
<1>3. ts \in SUBSET rs
  OBVIOUS
<1>4. SumOf(ts) \in Nat
  BY <1>3, SomeOfRows
<1>5. QED
  BY <1>1, <1>2, <1>4

\* A day later, fewer are in the window.
LEMMA DayLater ==
  ASSUME NEW rs, RowsStand(rs), NEW d \in Nat
  PROVE  /\ \A e : EntryStands(e, rs, d) => EntryStands(e, rs, d + 1)
         /\ \A s : SpendStands(s, rs, d) => SpendStands(s, rs, d + 1)
<1>1. KeptUp(rs, d) \in SUBSET rs /\ KeptUp(rs, d + 1) \in SUBSET KeptUp(rs, d)
  BY WindowIsLonger DEF KeptUp, InWindow, RowsStand, Row
<1>2. /\ SumOf(KeptUp(rs, d + 1)) <= SumOf(KeptUp(rs, d))
      /\ SumOf(KeptUp(rs, d)) \in Nat /\ SumOf(KeptUp(rs, d + 1)) \in Nat
  BY <1>1, FewerRows
<1>3. ASSUME NEW e, EntryStands(e, rs, d) PROVE EntryStands(e, rs, d + 1)
  <2>1. e.tokens \in Nat /\ e.missed \in Nat /\ e.refreshed \in Nat /\ e.refreshed <= d + 1
    BY <1>3 DEF EntryStands, Entry
  <2>2. QED
    BY <1>2, <1>3, <2>1 DEF EntryStands
<1>4. ASSUME NEW s, SpendStands(s, rs, d) PROVE SpendStands(s, rs, d + 1)
  <2>1. s.figure \in Nat /\ s.missed \in Nat /\ s.start \in Nat /\ s.start <= d + 1
    BY <1>4 DEF SpendStands, Spend
  <2>2. QED
    BY <1>2, <1>4, <2>1 DEF SpendStands
<1>5. QED
  BY <1>3, <1>4

\* A row that is written now was seen by no figure so far, and is credited later.
LEMMA RowWritten ==
  ASSUME NEW rs, RowsStand(rs), NEW d \in Nat, NEW r \in Row,
         r.done = d, r.credited = FALSE, r.n = Cardinality(rs)
  PROVE  /\ RowsStand(rs \cup {r})
         /\ \A e : EntryStands(e, rs, d) => EntryStands(e, rs \cup {r}, d)
         /\ \A s : SpendStands(s, rs, d) => SpendStands(s, rs \cup {r}, d)
<1> DEFINE more == rs \cup {r}
<1>1. RowsStand(more)
  <2>1. r \notin rs /\ \A s \in rs : s.n \in Nat /\ s.n < r.n
    BY DEF RowsStand, Row
  <2>2. IsFiniteSet(more) /\ Cardinality(more) = Cardinality(rs) + 1 /\ Cardinality(rs) \in Nat
    BY <2>1, FS_AddElement, FS_CardinalityType DEF RowsStand
  <2>3. \A s \in more : s.n < Cardinality(more)
    BY <2>1, <2>2
  <2>4. \A s, t \in more : s.n = t.n => s = t
    BY <2>1 DEF RowsStand
  <2>5. more \subseteq Row
    BY DEF RowsStand
  <2> HIDE DEF more
  <2>6. QED
    BY <2>2, <2>3, <2>4, <2>5 DEF RowsStand
<1>2. ASSUME NEW t \in Nat, t <= d PROVE Before(more, t) = Before(rs, t) /\ Noticed(more, t) = Noticed(rs, t)
  <2>1. ~ (r.done < t) /\ ~ (r.done + Fresh <= t)
    BY <1>2, WindowIsLonger
  <2>2. QED
    BY <2>1 DEF Before, Noticed
<1>3. KeptUp(more, d) = KeptUp(rs, d)
  BY DEF KeptUp
<1>4. ASSUME NEW e, EntryStands(e, rs, d) PROVE EntryStands(e, more, d)
  <2>1. e.refreshed \in Nat /\ e.refreshed <= d
    BY <1>4 DEF EntryStands, Entry
  <2>2. Before(more, e.refreshed) = Before(rs, e.refreshed)
    BY <1>2, <2>1
  <2> HIDE DEF more
  <2>3. QED
    BY <1>3, <1>4, <2>2 DEF EntryStands
<1>5. ASSUME NEW s, SpendStands(s, rs, d) PROVE SpendStands(s, more, d)
  <2>1. s.start \in Nat /\ s.start <= d
    BY <1>5 DEF SpendStands, Spend
  <2>2. Before(more, s.start) = Before(rs, s.start) /\ Noticed(more, s.start) = Noticed(rs, s.start)
    BY <1>2, <2>1
  <2>3. s.pc = "credit" => \E x \in more : x.n = s.figure /\ x.cost = s.cost
    BY <1>5 DEF SpendStands
  <2> HIDE DEF more
  <2>4. QED
    BY <1>3, <1>5, <2>2, <2>3 DEF SpendStands
<1>6. QED
  BY <1>1, <1>4, <1>5

\* Of the rows, the k-th is credited.
Crediting(rs, k) == {[r EXCEPT !.credited = @ \/ r.n = k] : r \in rs}

LEMMA CreditedOne ==
  ASSUME NEW rs, RowsStand(rs), NEW c \in rs
  PROVE  \E x \in Row : /\ x.start = c.start /\ x.cost = c.cost /\ x.done = c.done /\ x.n = c.n /\ x.credited
                        /\ Crediting(rs, c.n) = (rs \ {c}) \cup {x}
                        /\ x \notin rs \ {c}
<1> DEFINE x == [c EXCEPT !.credited = @ \/ c.n = c.n]
<1>1. c \in Row
  BY DEF RowsStand
<1>2. /\ x \in Row /\ x.start = c.start /\ x.cost = c.cost /\ x.done = c.done /\ x.n = c.n /\ x.credited
  BY <1>1 DEF Row
<1>3. ASSUME NEW r \in rs \ {c} PROVE [r EXCEPT !.credited = @ \/ r.n = c.n] = r
  <2>1. r \in Row /\ r.n # c.n
    BY DEF RowsStand
  <2>2. (r.credited \/ r.n = c.n) = r.credited
    BY <2>1 DEF Row
  <2>3. [r EXCEPT !.credited = r.credited] = r
    BY <2>1 DEF Row
  <2>4. QED
    BY <2>2, <2>3
<1>4. Crediting(rs, c.n) = (rs \ {c}) \cup {x}
  BY <1>3 DEF Crediting
<1>5. x \notin rs \ {c}
  BY <1>2 DEF RowsStand
<1> HIDE DEF x
<1>6. QED
  BY <1>2, <1>4, <1>5

LEMMA CreditedRows ==
  ASSUME NEW rs, RowsStand(rs), NEW c \in rs
  PROVE  /\ RowsStand(Crediting(rs, c.n))
         /\ \A t : /\ SumOf(Before(Crediting(rs, c.n), t)) = SumOf(Before(rs, t))
                   /\ SumOf(Noticed(Crediting(rs, c.n), t)) = SumOf(Noticed(rs, t))
                   /\ SumOf(KeptUp(Crediting(rs, c.n), t)) <= SumOf(KeptUp(rs, t)) + c.cost
<1> DEFINE new == Crediting(rs, c.n)
           rest == rs \ {c}
<1>1. PICK x \in Row : /\ x.start = c.start /\ x.cost = c.cost /\ x.done = c.done /\ x.n = c.n /\ x.credited
                       /\ new = rest \cup {x} /\ x \notin rest
  BY CreditedOne
<1>2. c \in Row /\ c.cost \in Nat
  BY DEF RowsStand, Row
<1>3. RowsStand(new)
  <2>1. IsFiniteSet(rest) /\ Cardinality(rest) = Cardinality(rs) - 1 /\ Cardinality(rs) \in Nat
    BY FS_RemoveElement, FS_CardinalityType DEF RowsStand
  <2>2. IsFiniteSet(new) /\ Cardinality(new) = Cardinality(rs)
    <3>1. IsFiniteSet(rest \cup {x}) /\ Cardinality(rest \cup {x}) = Cardinality(rest) + 1
      <4> HIDE DEF rest
      <4>1. QED
        BY <1>1, <2>1, FS_AddElement
    <3>2. Cardinality(rest) \in Nat /\ (Cardinality(rs) - 1) + 1 = Cardinality(rs)
      BY <2>1, FS_CardinalityType
    <3> HIDE DEF rest, new
    <3>3. QED
      BY <1>1, <2>1, <3>1, <3>2
  <2>3. new \subseteq Row
    BY <1>1 DEF RowsStand
  <2>4. \A r \in new : r.n < Cardinality(new)
    BY <1>1, <2>2 DEF RowsStand
  <2>5. \A r, s \in new : r.n = s.n => r = s
    BY <1>1 DEF RowsStand
  <2> HIDE DEF new
  <2>6. QED
    BY <2>2, <2>3, <2>4, <2>5 DEF RowsStand
<1>4. ASSUME NEW ss \in SUBSET rs
      PROVE  /\ c \in ss => SumOf((ss \ {c}) \cup {x}) = SumOf(ss)
             /\ SumOf((ss \ {c}) \cup {x}) <= SumOf(ss) + c.cost
             /\ SumOf(ss) \in Nat
  <2>1. IsFiniteSet(ss) /\ Costing(ss) /\ SumOf(ss) \in Nat
    BY SomeOfRows
  <2>2. ASSUME c \in ss PROVE SumOf((ss \ {c}) \cup {x}) = SumOf(ss)
    <3>1. x \notin ss \ {c}
      BY <1>1
    <3>2. QED
      BY <1>1, <2>1, <2>2, <3>1, SumSwapped
  <2>3. SumOf((ss \ {c}) \cup {x}) <= SumOf(ss) + c.cost
    <3>1. \A m, n \in Nat : m <= m + n
      OBVIOUS
    <3>2. CASE c \in ss
      BY <1>2, <2>1, <2>2, <3>1, <3>2
    <3>3. CASE c \notin ss
      <4>1. ss \ {c} = ss
        BY <3>3
      <4>2. x.cost \in Nat
        BY <1>1, <1>2
      <4>3. SumOf(ss \cup {x}) <= SumOf(ss) + x.cost
        BY <2>1, <4>2, SumWith
      <4>4. QED
        BY <1>1, <4>1, <4>3
    <3>4. QED
      BY <3>2, <3>3
  <2>4. QED
    BY <2>1, <2>2, <2>3
<1> HIDE DEF new
<1>5. ASSUME NEW t
      PROVE  /\ SumOf(Before(new, t)) = SumOf(Before(rs, t))
             /\ SumOf(Noticed(new, t)) = SumOf(Noticed(rs, t))
             /\ SumOf(KeptUp(new, t)) <= SumOf(KeptUp(rs, t)) + c.cost
  <2>1. InWindow(x, t) = InWindow(c, t)
    BY <1>1 DEF InWindow
  <2>2. Before(new, t) = IF c \in Before(rs, t) THEN (Before(rs, t) \ {c}) \cup {x} ELSE Before(rs, t)
    BY <1>1, <2>1 DEF Before
  <2>3. Noticed(new, t) = IF c \in Noticed(rs, t) THEN (Noticed(rs, t) \ {c}) \cup {x} ELSE Noticed(rs, t)
    BY <1>1, <2>1 DEF Noticed
  <2>4. KeptUp(new, t) = IF InWindow(c, t) THEN (KeptUp(rs, t) \ {c}) \cup {x} ELSE KeptUp(rs, t)
    BY <1>1, <2>1 DEF KeptUp
  <2>5. Before(rs, t) \in SUBSET rs /\ Noticed(rs, t) \in SUBSET rs /\ KeptUp(rs, t) \in SUBSET rs
    BY DEF Before, Noticed, KeptUp
  <2>6. SumOf(Before(new, t)) = SumOf(Before(rs, t))
    BY <1>4, <2>2, <2>5
  <2>7. SumOf(Noticed(new, t)) = SumOf(Noticed(rs, t))
    BY <1>4, <2>3, <2>5
  <2>8. SumOf(KeptUp(new, t)) <= SumOf(KeptUp(rs, t)) + c.cost
    <3>1. \A m, n \in Nat : m <= m + n
      OBVIOUS
    <3>2. QED
      BY <1>2, <1>4, <2>4, <2>5, <3>1
  <2>9. QED
    BY <2>6, <2>7, <2>8
<1>6. QED
  BY <1>3, <1>5 DEF new

\* What is credited is added to the figure, or missed by the one to be stored.
LEMMA CreditKept ==
  ASSUME NEW rs, RowsStand(rs), NEW c \in rs, NEW d \in Nat
  PROVE  /\ RowsStand(Crediting(rs, c.n))
         /\ \A e : EntryStands(e, rs, d) =>
              EntryStands(IF e.refreshed = 0 THEN e ELSE [e EXCEPT !.tokens = @ + c.cost], Crediting(rs, c.n), d)
         /\ \A s : SpendStands(s, rs, d) =>
              SpendStands(IF s.pc = "store" THEN [s EXCEPT !.missed = @ + c.cost] ELSE s, Crediting(rs, c.n), d)
<1> DEFINE new == Crediting(rs, c.n)
<1>1. c.cost \in Nat
  BY DEF RowsStand, Row
<1>2. RowsStand(new)
  BY CreditedRows
<1>3. ASSUME NEW t PROVE /\ SumOf(Before(new, t)) = SumOf(Before(rs, t))
                         /\ SumOf(Noticed(new, t)) = SumOf(Noticed(rs, t))
  BY CreditedRows
<1>4. /\ SumOf(KeptUp(new, d)) <= SumOf(KeptUp(rs, d)) + c.cost
      /\ SumOf(KeptUp(rs, d)) \in Nat /\ SumOf(KeptUp(new, d)) \in Nat
  <2>1. KeptUp(rs, d) \in SUBSET rs /\ KeptUp(new, d) \in SUBSET new
    BY DEF KeptUp
  <2> HIDE DEF new
  <2>2. SumOf(KeptUp(rs, d)) \in Nat /\ SumOf(KeptUp(new, d)) \in Nat
    BY <1>2, <2>1, SomeOfRows
  <2>3. SumOf(KeptUp(new, d)) <= SumOf(KeptUp(rs, d)) + c.cost
    BY CreditedRows DEF new
  <2>4. QED
    BY <2>2, <2>3
<1>5. \A k, m, n, p \in Nat : m <= n + p /\ k <= m + c.cost => k <= (n + c.cost) + p /\ k <= n + (p + c.cost)
  BY <1>1
<1>6. ASSUME NEW r \in rs PROVE \E x \in new : x.n = r.n /\ x.cost = r.cost
  <2> DEFINE x == [r EXCEPT !.credited = @ \/ r.n = c.n]
  <2>1. r \in Row
    BY DEF RowsStand
  <2>2. x.n = r.n /\ x.cost = r.cost
    BY <2>1 DEF Row
  <2>3. x \in new
    BY DEF Crediting
  <2> HIDE DEF x, new
  <2>4. QED
    BY <2>2, <2>3
<1> HIDE DEF new
<1>7. ASSUME NEW e, EntryStands(e, rs, d)
      PROVE  EntryStands(IF e.refreshed = 0 THEN e ELSE [e EXCEPT !.tokens = @ + c.cost], new, d)
  <2>1. e \in Entry /\ e.tokens \in Nat /\ e.missed \in Nat /\ e.refreshed \in Nat /\ e.refreshed <= d
    BY <1>7 DEF EntryStands, Entry
  <2>2. CASE e.refreshed = 0
    BY <1>7, <2>2 DEF EntryStands
  <2>3. CASE e.refreshed # 0
    <3> DEFINE f == [e EXCEPT !.tokens = @ + c.cost]
    <3>1. f \in Entry /\ f.tokens = e.tokens + c.cost /\ f.refreshed = e.refreshed /\ f.missed = e.missed
      BY <1>1, <2>1 DEF Entry
    <3>2. SumOf(Before(rs, e.refreshed)) <= e.tokens /\ SumOf(KeptUp(rs, d)) <= e.tokens + e.missed
      BY <1>7, <2>3 DEF EntryStands
    <3>3. SumOf(KeptUp(new, d)) <= (e.tokens + c.cost) + e.missed
      BY <1>4, <1>5, <2>1, <3>2
    <3>4. SumOf(Before(rs, e.refreshed)) \in Nat
      BY SomeOfRows DEF Before
    <3>5. SumOf(Before(new, e.refreshed)) <= e.tokens + c.cost
      BY <1>1, <1>3, <2>1, <3>2, <3>4
    <3> HIDE DEF f
    <3>6. EntryStands(f, new, d)
      BY <2>1, <3>1, <3>3, <3>5 DEF EntryStands
    <3>7. QED
      BY <2>3, <3>6 DEF f
  <2>4. QED
    BY <2>2, <2>3
<1>8. ASSUME NEW s, SpendStands(s, rs, d)
      PROVE  SpendStands(IF s.pc = "store" THEN [s EXCEPT !.missed = @ + c.cost] ELSE s, new, d)
  <2>1. s \in Spend /\ s.figure \in Nat /\ s.missed \in Nat /\ s.start <= d
    BY <1>8 DEF SpendStands, Spend
  <2>2. CASE s.pc = "store"
    <3> DEFINE u == [s EXCEPT !.missed = @ + c.cost]
    <3>1. u \in Spend /\ u.pc = "store" /\ u.start = s.start /\ u.figure = s.figure /\ u.missed = s.missed + c.cost
      BY <1>1, <2>1, <2>2 DEF Spend
    <3>2. SumOf(Before(rs, s.start)) <= s.figure /\ SumOf(KeptUp(rs, d)) <= s.figure + s.missed
      BY <1>8, <2>2 DEF SpendStands
    <3>3. SumOf(KeptUp(new, d)) <= s.figure + (s.missed + c.cost)
      BY <1>4, <1>5, <2>1, <3>2
    <3> HIDE DEF u
    <3>4. SpendStands(u, new, d)
      BY <1>3, <2>1, <3>1, <3>2, <3>3 DEF SpendStands
    <3>5. QED
      BY <2>2, <3>4 DEF u
  <2>3. CASE s.pc # "store"
    <3>1. s.pc = "credit" => \E x \in new : x.n = s.figure /\ x.cost = s.cost
      BY <1>6, <1>8 DEF SpendStands
    <3>2. s.pc = "serving" => SumOf(Noticed(new, s.start)) < TokenBudget
      BY <1>3, <1>8 DEF SpendStands
    <3>3. SpendStands(s, new, d)
      BY <2>1, <2>3, <3>1, <3>2 DEF SpendStands
    <3>4. QED
      BY <2>3, <3>3
  <2>4. QED
    BY <2>2, <2>3
<1>9. QED
  BY <1>2, <1>7, <1>8 DEF new

---------------------------------------------------------------------------
\* Requests and rows keep to that through every step.

LEMMA BudgetBegins == BudgetInit => BudgetStands
<1> SUFFICES ASSUME BudgetInit PROVE BudgetStands
  OBVIOUS
<1>1. day = 1 /\ rows = {} /\ entry = NoEntry /\ spends = [q \in Spender |-> NoSpend]
  BY DEF BudgetInit
<1>2. RowsStand({})
  BY FS_EmptySet DEF RowsStand
<1>3. EntryStands(NoEntry, {}, 1)
  BY DEF EntryStands, Entry, NoEntry
<1>4. SpendStands(NoSpend, {}, 1)
  BY DEF SpendStands, Spend, NoSpend
<1>5. QED
  BY <1>1, <1>2, <1>3, <1>4 DEF BudgetStands

LEMMA NoSpendStands ==
  ASSUME NEW rs, NEW d \in Nat
  PROVE  SpendStands(NoSpend, rs, d)
BY DEF SpendStands, Spend, NoSpend

LEMMA NoEntryStands ==
  ASSUME NEW rs, NEW d \in Nat
  PROVE  EntryStands(NoEntry, rs, d)
BY DEF EntryStands, Entry, NoEntry

\* One request moves, and nothing else.
LEMMA OneSpendMoves ==
  ASSUME BudgetStands, NEW q \in Spender, NEW s, SpendStands(s, rows, day), Put(q, s),
         UNCHANGED <<day, rows>>, EntryStands(entry', rows, day)
  PROVE  BudgetStands'
<1>1. DOMAIN spends' = Spender /\ \A p \in Spender : spends'[p] = IF p = q THEN s ELSE spends[p]
  BY DEF Put, BudgetStands
<1>2. \A p \in Spender : SpendStands(spends'[p], rows, day)
  BY <1>1 DEF BudgetStands
<1>3. day' = day /\ rows' = rows
  OBVIOUS
<1>4. QED
  BY <1>1, <1>2, <1>3 DEF BudgetStands

\* What a request is, by the figure it is decided by.
Decided(start, figure) ==
  IF figure < TokenBudget THEN [NoSpend EXCEPT !.pc = "serving", !.start = start] ELSE NoSpend

\* A request is let in by a figure that is not late.
LEMMA LetInByFigure ==
  ASSUME RowsStand(rows), NEW start \in Nat, start <= day, day \in Nat, NEW figure \in Nat,
         SumOf(Noticed(rows, start)) <= figure
  PROVE  SpendStands(Decided(start, figure), rows, day)
<1> DEFINE s == [NoSpend EXCEPT !.pc = "serving", !.start = start]
<1>1. s \in Spend /\ s.pc = "serving" /\ s.start = start
  BY DEF NoSpend, Spend
<1>2. SumOf(Noticed(rows, start)) \in Nat
  BY SomeOfRows DEF Noticed
<1>3. ASSUME figure < TokenBudget PROVE SpendStands(s, rows, day)
  <2>1. SumOf(Noticed(rows, start)) < TokenBudget
    BY <1>2, <1>3, WindowIsLonger
  <2> HIDE DEF s
  <2>2. QED
    BY <1>1, <2>1 DEF SpendStands
<1>4. SpendStands(NoSpend, rows, day)
  BY NoSpendStands
<1>5. QED
  BY <1>3, <1>4 DEF Decided

LEMMA NoticedBefore ==
  ASSUME RowsStand(rows), NEW t \in Nat, NEW u \in Nat, t <= u, u < t + Fresh
  PROVE  SumOf(Noticed(rows, u)) <= SumOf(Before(rows, t)) /\ SumOf(Noticed(rows, u)) \in Nat
         /\ SumOf(Before(rows, t)) \in Nat
<1>1. Noticed(rows, u) \subseteq Before(rows, t)
  <2> SUFFICES ASSUME NEW r \in rows, r.start + Window >= u, r.done + Fresh <= u
               PROVE  r.start + Window >= t /\ r.done < t
    BY DEF Noticed, Before, InWindow
  <2>1. r.start \in Nat /\ r.done \in Nat
    BY DEF RowsStand, Row
  <2>2. QED
    BY <2>1, WindowIsLonger
<1>2. Before(rows, t) \in SUBSET rows
  BY DEF Before
<1>3. QED
  BY <1>1, <1>2, FewerRows

LEMMA AskStands ==
  ASSUME BudgetStands, NEW q \in Spender, NEW own \in BOOLEAN, Ask(q, own)
  PROVE  BudgetStands'
<1>1. day \in Nat /\ RowsStand(rows) /\ EntryStands(entry, rows, day) /\ entry' = entry
      /\ UNCHANGED <<day, rows>> /\ entry.refreshed \in Nat /\ entry.tokens \in Nat /\ entry.refreshed <= day
  BY DEF Ask, BudgetStands, EntryStands, Entry
<1>2. CASE IsFresh
  <2>1. entry.refreshed # 0 /\ day < entry.refreshed + Fresh
    BY <1>1, <1>2, WindowIsLonger DEF IsFresh
  <2>2. SumOf(Noticed(rows, day)) <= entry.tokens
    <3>1. SumOf(Before(rows, entry.refreshed)) <= entry.tokens
      BY <1>1, <2>1 DEF EntryStands
    <3>2. SumOf(Noticed(rows, day)) <= SumOf(Before(rows, entry.refreshed))
          /\ SumOf(Noticed(rows, day)) \in Nat /\ SumOf(Before(rows, entry.refreshed)) \in Nat
      BY <1>1, <2>1, NoticedBefore
    <3>3. QED
      BY <1>1, <3>1, <3>2
  <2> DEFINE s == Decided(day, entry.tokens)
  <2>3. SpendStands(s, rows, day)
    <3>1. day <= day
      BY <1>1
    <3>2. QED
      BY <1>1, <2>2, <3>1, LetInByFigure
  <2>4. Put(q, s)
    BY <1>2 DEF Ask, WithinBudget, Decided
  <2> HIDE DEF s
  <2>5. QED
    BY <1>1, <2>3, <2>4, OneSpendMoves
<1>3. CASE ~ IsFresh
  <2> DEFINE s == [NoSpend EXCEPT !.pc = "query", !.start = day, !.own = own]
  <2>1. SpendStands(s, rows, day)
    <3>1. s \in Spend /\ s.pc = "query" /\ s.start = day
      BY <1>1 DEF Spend, NoSpend
    <3>2. day <= day
      BY <1>1
    <3> HIDE DEF s
    <3>3. QED
      BY <3>1, <3>2 DEF SpendStands
  <2>2. Put(q, s)
    BY <1>3 DEF Ask
  <2> HIDE DEF s
  <2>3. QED
    BY <1>1, <2>1, <2>2, OneSpendMoves
<1>4. QED
  BY <1>2, <1>3

LEMMA ReadStands ==
  ASSUME BudgetStands, NEW q \in Spender, ReadSpend(q)
  PROVE  BudgetStands'
<1> DEFINE old == spends[q]
           figure == KeySpend(old.start)
           s == [old EXCEPT !.pc = "store", !.figure = figure]
<1>1. day \in Nat /\ RowsStand(rows) /\ EntryStands(entry', rows, day) /\ UNCHANGED <<day, rows>>
      /\ Put(q, s) /\ SpendStands(old, rows, day)
  BY DEF ReadSpend, BudgetStands
<1>2. old \in Spend /\ old.start \in Nat /\ old.start <= day /\ old.missed \in Nat
  BY <1>1 DEF SpendStands, Spend
<1> DEFINE seen == {r \in rows : r.start + Window >= old.start}
<1>3. figure = SumOf(seen)
  BY DEF KeySpend
<1>4. Before(rows, old.start) \subseteq seen /\ KeptUp(rows, day) \subseteq seen /\ seen \in SUBSET rows
  <2>1. \A r \in rows : r.start + Window >= day => r.start + Window >= old.start
    BY <1>1, <1>2, WindowIsLonger DEF RowsStand, Row
  <2>2. QED
    BY <2>1 DEF Before, KeptUp, InWindow
<1>5. /\ SumOf(Before(rows, old.start)) <= figure /\ SumOf(KeptUp(rows, day)) <= figure
      /\ figure \in Nat /\ SumOf(KeptUp(rows, day)) \in Nat
  <2> HIDE DEF seen, figure
  <2>1. QED
    BY <1>1, <1>3, <1>4, FewerRows
<1>6. SumOf(KeptUp(rows, day)) <= figure + old.missed
  <2> HIDE DEF figure, old
  <2>1. QED
    BY <1>2, <1>5
<1> HIDE DEF figure
<1>7. s \in Spend /\ s.pc = "store" /\ s.start = old.start /\ s.figure = figure /\ s.missed = old.missed
  BY <1>2, <1>5 DEF Spend
<1> HIDE DEF s, old
<1>8. SpendStands(s, rows, day)
  BY <1>2, <1>5, <1>6, <1>7 DEF SpendStands
<1>9. QED
  BY <1>1, <1>8, OneSpendMoves

LEMMA StoreStands ==
  ASSUME BudgetStands, NEW q \in Spender, StoreSpend(q)
  PROVE  BudgetStands'
<1> DEFINE old == spends[q]
           e == [tokens |-> old.figure, refreshed |-> old.start, missed |-> old.missed]
           s == Decided(old.start, old.figure)
<1>1. day \in Nat /\ RowsStand(rows) /\ UNCHANGED <<day, rows>> /\ entry' = e
      /\ Put(q, s) /\ SpendStands(old, rows, day) /\ old.pc = "store"
  BY DEF StoreSpend, BudgetStands, WithinBudget, Is, Decided
<1>2. old.start \in Nat /\ old.start <= day /\ old.missed \in Nat /\ old.figure \in Nat
      /\ SumOf(Before(rows, old.start)) <= old.figure /\ SumOf(KeptUp(rows, day)) <= old.figure + old.missed
  BY <1>1 DEF SpendStands, Spend
<1>3. EntryStands(e, rows, day)
  <2>1. e \in Entry /\ e.tokens = old.figure /\ e.refreshed = old.start /\ e.missed = old.missed
    BY <1>2 DEF Entry
  <2> HIDE DEF e, old
  <2>2. QED
    BY <1>2, <2>1 DEF EntryStands
<1>4. SumOf(Noticed(rows, old.start)) <= old.figure
  <2>1. SumOf(Noticed(rows, old.start)) <= SumOf(Before(rows, old.start))
        /\ SumOf(Noticed(rows, old.start)) \in Nat /\ SumOf(Before(rows, old.start)) \in Nat
    <3>1. old.start < old.start + Fresh /\ old.start <= old.start
      BY <1>2, WindowIsLonger
    <3>2. QED
      BY <1>1, <1>2, <3>1, NoticedBefore
  <2> HIDE DEF old
  <2>2. QED
    BY <1>2, <2>1
<1>5. SpendStands(s, rows, day)
  <2> HIDE DEF old
  <2>1. QED
    BY <1>1, <1>2, <1>4, LetInByFigure DEF s
<1> HIDE DEF s, old, e
<1>6. QED
  BY <1>1, <1>3, <1>5, OneSpendMoves

LEMMA RecordStands ==
  ASSUME BudgetStands, NEW q \in Spender, NEW cost \in Costs, RecordRow(q, cost)
  PROVE  BudgetStands'
<1> DEFINE r == [start |-> spends[q].start, cost |-> cost, done |-> day,
                 n |-> Cardinality(rows), credited |-> FALSE]
           s == [NoSpend EXCEPT !.pc = "credit", !.cost = cost, !.figure = Cardinality(rows)]
           more == rows \cup {r}
<1>1. day \in Nat /\ RowsStand(rows) /\ EntryStands(entry, rows, day) /\ SpendStands(spends[q], rows, day)
      /\ day' = day /\ entry' = entry /\ rows' = more /\ Put(q, s)
  BY DEF BudgetStands, RecordRow
<1>2. Cardinality(rows) \in Nat /\ cost \in Nat /\ spends[q].start \in Nat
  BY <1>1, FS_CardinalityType, WindowIsLonger DEF RowsStand, SpendStands, Spend
<1>3. r \in Row /\ r.done = day /\ r.credited = FALSE /\ r.n = Cardinality(rows) /\ r.cost = cost
  BY <1>1, <1>2 DEF Row
<1>4. s \in Spend /\ s.pc = "credit" /\ s.start = 0 /\ s.figure = Cardinality(rows) /\ s.cost = cost
  BY <1>2 DEF Spend, NoSpend
<1> HIDE DEF r, s
<1>5. /\ RowsStand(more) /\ EntryStands(entry, more, day)
      /\ \A p \in Spender : SpendStands(spends[p], more, day)
  BY <1>1, <1>3, RowWritten DEF BudgetStands
<1>6. SpendStands(s, more, day)
  BY <1>1, <1>3, <1>4 DEF SpendStands
<1>7. DOMAIN spends' = Spender /\ \A p \in Spender : spends'[p] = IF p = q THEN s ELSE spends[p]
  BY <1>1 DEF Put, BudgetStands
<1> HIDE DEF more
<1>8. QED
  BY <1>1, <1>5, <1>6, <1>7 DEF BudgetStands

LEMMA AddStands ==
  ASSUME BudgetStands, NEW q \in Spender, Add(q)
  PROVE  BudgetStands'
<1>1. day \in Nat /\ RowsStand(rows) /\ EntryStands(entry, rows, day) /\ SpendStands(spends[q], rows, day)
      /\ day' = day /\ spends[q].pc = "credit" /\ rows' = Crediting(rows, spends[q].figure)
      /\ spends' = Credit(q)
      /\ entry' = IF entry.refreshed = 0 THEN entry ELSE [entry EXCEPT !.tokens = @ + spends[q].cost]
  BY DEF BudgetStands, Add, Is, Crediting
<1>2. PICK c \in rows : c.n = spends[q].figure /\ c.cost = spends[q].cost
  BY <1>1 DEF SpendStands
<1>3. /\ RowsStand(rows') /\ EntryStands(entry', rows', day)
      /\ \A s : SpendStands(s, rows, day) =>
           SpendStands(IF s.pc = "store" THEN [s EXCEPT !.missed = @ + c.cost] ELSE s, rows', day)
  BY <1>1, <1>2, CreditKept
<1>4. DOMAIN spends' = Spender
      /\ \A p \in Spender : spends'[p] = IF p = q THEN NoSpend
                                         ELSE IF spends[p].pc = "store" THEN [spends[p] EXCEPT !.missed = @ + c.cost]
                                         ELSE spends[p]
  BY <1>1, <1>2 DEF Credit, Is
<1>5. ASSUME NEW p \in Spender PROVE SpendStands(spends'[p], rows', day)
  <2>1. CASE p = q
    BY <1>1, <1>4, <2>1, NoSpendStands
  <2>2. CASE p # q
    <3>1. SpendStands(spends[p], rows, day)
      BY DEF BudgetStands
    <3>2. QED
      BY <1>3, <1>4, <2>2, <3>1
  <2>3. QED
    BY <2>1, <2>2
<1>6. QED
  BY <1>1, <1>3, <1>4, <1>5 DEF BudgetStands

LEMMA BudgetStep ==
  ASSUME BudgetStands, [BudgetNext]_budgetVars
  PROVE  BudgetStands'
<1>0. day \in Nat /\ RowsStand(rows) /\ EntryStands(entry, rows, day)
  BY DEF BudgetStands
<1>1. CASE UNCHANGED budgetVars
  BY <1>1 DEF budgetVars, BudgetStands
<1>2. ASSUME NEW q \in Spender, NEW own \in BOOLEAN, Ask(q, own) PROVE BudgetStands'
  BY <1>2, AskStands
<1>3. ASSUME NEW q \in Spender, ReadSpend(q) PROVE BudgetStands'
  BY <1>3, ReadStands
<1>4. ASSUME NEW q \in Spender, ReadFails(q) PROVE BudgetStands'
  <2> DEFINE s == [NoSpend EXCEPT !.pc = "failedOpen", !.start = spends[q].start]
  <2>1. SpendStands(s, rows, day) /\ SpendStands(NoSpend, rows, day)
    BY <1>0, NoSpendStands DEF BudgetStands, SpendStands, Spend, NoSpend
  <2>2. (Put(q, s) \/ Put(q, NoSpend)) /\ UNCHANGED <<day, rows>> /\ entry' = entry
    BY <1>4 DEF ReadFails
  <2> HIDE DEF s
  <2>3. QED
    BY <1>0, <2>1, <2>2, OneSpendMoves
<1>5. ASSUME NEW q \in Spender, StoreSpend(q) PROVE BudgetStands'
  BY <1>5, StoreStands
<1>6. ASSUME NEW q \in Spender, NEW cost \in Costs, RecordRow(q, cost) PROVE BudgetStands'
  BY <1>6, RecordStands
<1>7. ASSUME NEW q \in Spender, RecordFails(q) PROVE BudgetStands'
  <2>1. Put(q, NoSpend) /\ UNCHANGED <<day, rows>> /\ entry' = entry /\ SpendStands(NoSpend, rows, day)
    BY <1>0, <1>7, NoSpendStands DEF RecordFails
  <2>2. QED
    BY <1>0, <2>1, OneSpendMoves
<1>8. ASSUME NEW q \in Spender, Add(q) PROVE BudgetStands'
  BY <1>8, AddStands
<1>9. CASE Forget
  <2>1. day' = day /\ rows' = rows /\ spends' = spends /\ entry' = NoEntry
    BY <1>9 DEF Forget
  <2>2. QED
    BY <1>0, <2>1, NoEntryStands DEF BudgetStands
<1>10. CASE BudgetTick
  <2>1. day' = day + 1 /\ rows' = rows /\ spends' = spends /\ entry' = entry
    BY <1>10 DEF BudgetTick
  <2>2. QED
    BY <1>0, <2>1, DayLater DEF BudgetStands
<1>11. QED
  BY <1>1, <1>2, <1>3, <1>4, <1>5, <1>6, <1>7, <1>8, <1>9, <1>10 DEF BudgetNext

LEMMA FiguresHold == BudgetSpec => [](NoticesInTime /\ KeepsUp)
<1>1. BudgetStands => NoticesInTime
  <2> SUFFICES ASSUME BudgetStands, NEW q \in Spender, Is(q, "serving")
               PROVE  SumOf(Noticed(rows, spends[q].start)) < TokenBudget
    BY DEF NoticesInTime, Noticed
  <2>1. QED
    BY DEF BudgetStands, SpendStands, Is
<1>2. BudgetStands => KeepsUp
  <2> SUFFICES ASSUME BudgetStands, entry.refreshed # 0
               PROVE  entry.tokens + entry.missed >= SumOf(KeptUp(rows, day))
    BY DEF KeepsUp, KeptUp
  <2>1. SumOf(KeptUp(rows, day)) <= entry.tokens + entry.missed
    BY DEF BudgetStands, EntryStands
  <2>2. entry.tokens \in Nat /\ entry.missed \in Nat /\ SumOf(KeptUp(rows, day)) \in Nat
    BY SomeOfRows DEF BudgetStands, EntryStands, Entry, KeptUp
  <2>3. QED
    BY <2>1, <2>2
<1>3. BudgetStands /\ [BudgetNext]_budgetVars => BudgetStands'
  BY BudgetStep
<1>4. QED
  BY <1>1, <1>2, <1>3, BudgetBegins, PTL DEF BudgetSpec

---------------------------------------------------------------------------
(* What a bucket would have done with a history *)

Unstarted == [bucket |-> NoBucket, in |-> <<>>]

\* A bucket as it is replayed, whatever the times of the history.
Replays == [bucket : [tokens : Int, last : Nat, there : BOOLEAN], in : Seq(BOOLEAN)]

\* One more use of it.
Used(acc, u) == [bucket |-> Taken(acc.bucket, KeyCount, u.at, 1, TRUE),
                 in |-> Append(acc.in, Enough(acc.bucket, KeyCount, u.at, 1))]

Replaying(h, f) ==
  f = [s \in SUBSET (DOMAIN h) |-> IF s = {} THEN Unstarted ELSE Used(f[s \ {Max(s)}], h[Max(s)])]

\* What has become of the bucket, and whom it let in.
ReplayState(h) == (CHOOSE f : Replaying(h, f))[DOMAIN h]

LEMMA LastIsIn ==
  ASSUME NEW n \in Nat, NEW s \in SUBSET (1..n), s # {}
  PROVE  Max(s) \in s /\ \A y \in s : Max(s) >= y
<1> DEFINE Short == {n - x : x \in s}
<1>0. \A x \in s : x \in Nat /\ n - x \in Nat
  <2>1. TAKE x \in s
  <2>2. x \in 1..n
    OBVIOUS
  <2>3. QED
    BY <2>2
<1>1. Short \in SUBSET Nat /\ Short # {}
  BY <1>0
<1>2. PICK d \in Short : \A k \in Short : d <= k
  <2> HIDE DEF Short
  <2>1. QED
    BY <1>1, LeastNumber
<1>3. PICK x \in s : d = n - x
  OBVIOUS
<1>4. \A y \in s : x >= y
  <2>1. TAKE y \in s
  <2>2. n - y \in Short
    OBVIOUS
  <2>3. d <= n - y
    BY <1>2, <2>2
  <2>4. x \in Nat /\ y \in Nat
    BY <1>0
  <2> HIDE DEF Short
  <2>5. n - x <= n - y
    BY <1>3, <2>3
  <2>6. QED
    BY <2>4, <2>5
<1>5. QED
  BY <1>4 DEF Max

LEMMA UsedType ==
  ASSUME NEW v \in Replays, NEW u \in Use
  PROVE  Used(v, u) \in Replays
<1> DEFINE b == v.bucket
           full == KeyCount * Period
           more == b.tokens + (u.at - b.last) * KeyCount
           level == Refilled(b, KeyCount, u.at)
<1>1. b.tokens \in Int /\ b.last \in Nat /\ u.at \in Nat /\ b.there \in BOOLEAN /\ b \in [tokens : Int, last : Nat, there : BOOLEAN]
      /\ v.in \in Seq(BOOLEAN) /\ KeyCount \in Nat /\ Period \in Nat
  BY CountsAreNumbers DEF Replays, Use
<1>2. full \in Int /\ more \in Int
  BY <1>1
<1>3. level \in Int
  <2>1. level = IF ~b.there THEN full ELSE Min({full, more})
    BY DEF Refilled
  <2> HIDE DEF full, more
  <2>2. Min({full, more}) \in {full, more}
    <3>1. \E x \in {full, more} : \A y \in {full, more} : x <= y
      BY <1>2
    <3>2. QED
      BY <3>1 DEF Min
  <2>3. QED
    BY <1>2, <2>1, <2>2
<1> DEFINE c == Taken(b, KeyCount, u.at, 1, TRUE)
           ok == Enough(b, KeyCount, u.at, 1)
<1>4. c \in [tokens : Int, last : Nat, there : BOOLEAN]
  <2>1. \E spent \in {0, Period} : c = IF ~b.there /\ spent = 0 THEN b
                                       ELSE [tokens |-> level - spent, last |-> u.at, there |-> TRUE]
    BY DEF Taken
  <2> HIDE DEF c, level
  <2>2. QED
    BY <1>1, <1>3, <2>1
<1>5. ok \in BOOLEAN
  BY DEF Enough
<1>6. Used(v, u) = [bucket |-> c, in |-> Append(v.in, ok)]
  BY DEF Used
<1> HIDE DEF b, c, ok
<1>7. Append(v.in, ok) \in Seq(BOOLEAN)
  BY <1>1, <1>5
<1>8. QED
  BY <1>4, <1>6, <1>7 DEF Replays

LEMMA UnstartedType == Unstarted \in Replays
BY DEF Unstarted, Replays, NoBucket

LEMMA ReplayRuns ==
  ASSUME NEW h \in Seq(Use)
  PROVE  \E f \in [SUBSET (DOMAIN h) -> Replays] : Replaying(h, f)
<1> DEFINE n == Len(h)
           D == 1..n
           picks == [s \in SUBSET D |-> Max(s)]
           uses1 == [i \in D |-> [v \in Replays |-> Used(v, h[i])]]
<1>1. n \in Nat /\ DOMAIN h = D /\ IsFiniteSet(D) /\ \A i \in D : h[i] \in Use
  BY FS_Interval
<1>2. Picker(D, picks)
  BY <1>1, LastIsIn DEF Picker
<1>3. uses1 \in [D -> [Replays -> Replays]]
  <2>1. \A i \in D : [v \in Replays |-> Used(v, h[i])] \in [Replays -> Replays]
    <3> HIDE DEF D
    <3>1. QED
      BY <1>1, UsedType
  <2>2. QED
    BY <2>1
<1>4. PICK f : Folds(D, Replays, Unstarted, uses1, picks, f)
  <2> HIDE DEF uses1, picks, D
  <2>1. QED
    BY <1>1, <1>2, <1>3, UnstartedType, FoldRuns, Zenon
<1>5. ASSUME NEW s \in SUBSET D
      PROVE  f[s] = IF s = {} THEN Unstarted ELSE Used(f[s \ {Max(s)}], h[Max(s)])
  <2>1. CASE s = {}
    BY <1>4, <2>1 DEF Folded, Folds
  <2>2. CASE s # {}
    <3>1. picks[s] = Max(s) /\ Max(s) \in D
      BY <1>1, <2>2, LastIsIn
    <3>2. f[s \ {Max(s)}] \in Replays
      BY <1>4 DEF Folds
    <3>3. f[s] = uses1[Max(s)][f[s \ {Max(s)}]]
      <4> HIDE DEF picks, uses1, D
      <4>1. QED
        BY <1>4, <2>2, <3>1 DEF Folded, Folds
    <3> HIDE DEF D
    <3>4. QED
      BY <2>2, <3>1, <3>2, <3>3
  <2>3. QED
    BY <2>1, <2>2
<1>6. f \in [SUBSET D -> Replays]
  BY <1>4 DEF Folds
<1> HIDE DEF D
<1>7. Replaying(h, f)
  BY <1>1, <1>5, <1>6 DEF Replaying
<1>8. QED
  BY <1>1, <1>6, <1>7

LEMMA ReplaysAgree ==
  ASSUME NEW h \in Seq(Use), NEW k \in Seq(Use), Len(h) <= Len(k),
         \A i \in 1..Len(h) : k[i] = h[i], NEW f, NEW g, Replaying(h, f), Replaying(k, g)
  PROVE  g[DOMAIN h] = f[DOMAIN h]
<1> DEFINE D == DOMAIN h
<1>1. Len(h) \in Nat /\ D = 1..Len(h) /\ D \subseteq DOMAIN k /\ IsFiniteSet(D)
  <2>1. Len(h) \in Nat /\ Len(k) \in Nat /\ DOMAIN h = 1..Len(h) /\ DOMAIN k = 1..Len(k)
    OBVIOUS
  <2>2. IsFiniteSet(1..Len(h))
    BY <2>1, FS_Interval
  <2>3. QED
    BY <2>1, <2>2
<1>2. g[{}] = f[{}]
  BY DEF Replaying
<1>3. ASSUME NEW s \in (SUBSET D) \ {{}} PROVE \E x \in s : g[s \ {x}] = f[s \ {x}] => g[s] = f[s]
  <2>1. Max(s) \in s
    BY <1>1, LastIsIn
  <2>2. f[s] = Used(f[s \ {Max(s)}], h[Max(s)])
    BY DEF Replaying
  <2>3. g[s] = Used(g[s \ {Max(s)}], k[Max(s)])
    BY <1>1 DEF Replaying
  <2>4. k[Max(s)] = h[Max(s)]
    BY <1>1, <2>1
  <2>5. QED
    BY <2>1, <2>2, <2>3, <2>4
<1> HIDE DEF D
<1>4. Alike(D, g, f)
  BY <1>2, <1>3 DEF Alike
<1>5. SameOn(D, g, f)
  BY <1>1, <1>4, FoldsAgree, Zenon
<1>6. QED
  BY <1>5 DEF SameOn, D

LEMMA ReplayIs ==
  ASSUME NEW h \in Seq(Use)
  PROVE  ReplayLimits(h) = ReplayState(h).in /\ ReplayState(h) \in Replays
<1> DEFINE iter == CHOOSE iter : iter = [s \in SUBSET (DOMAIN h) |->
                     IF s = {} THEN [bucket |-> NoBucket, in |-> <<>>]
                     ELSE [bucket |-> Taken(iter[s \ {Max(s)}].bucket, KeyCount, h[Max(s)].at, 1, TRUE),
                           in |-> Append(iter[s \ {Max(s)}].in, Enough(iter[s \ {Max(s)}].bucket, KeyCount, h[Max(s)].at, 1))]]
<1>1. ReplayLimits(h) = iter[DOMAIN h].in
  BY DEF ReplayLimits, Replayed, FoldLeft, MapThenFoldSet
<1>2. iter = CHOOSE f : Replaying(h, f)
  BY DEF Replaying, Used, Unstarted
<1>3. ReplayLimits(h) = ReplayState(h).in
  BY <1>1, <1>2 DEF ReplayState
<1> HIDE DEF iter
<1>4. PICK f \in [SUBSET (DOMAIN h) -> Replays] : Replaying(h, f)
  BY ReplayRuns
<1>5. Replaying(h, CHOOSE g : Replaying(h, g))
  BY <1>4
<1>6. ReplayState(h) = f[DOMAIN h]
  <2>1. \A i \in 1..Len(h) : h[i] = h[i]
    OBVIOUS
  <2>2. Len(h) <= Len(h)
    OBVIOUS
  <2>3. QED
    BY <1>4, <1>5, <2>1, <2>2, ReplaysAgree DEF ReplayState
<1>7. QED
  BY <1>3, <1>4, <1>6

LEMMA ReplayBegins == ReplayState(<<>>) = Unstarted
<1>1. <<>> \in Seq(Use) /\ DOMAIN <<>> = {}
  OBVIOUS
<1>2. \E f : Replaying(<<>>, f)
  BY <1>1, ReplayRuns
<1>3. Replaying(<<>>, CHOOSE f : Replaying(<<>>, f))
  BY <1>2
<1> DEFINE f == CHOOSE f : Replaying(<<>>, f)
<1>4. f[{}] = Unstarted
  <2> HIDE DEF f
  <2>1. Replaying(<<>>, f)
    BY <1>3 DEF f
  <2>2. QED
    BY <1>1, <2>1 DEF Replaying
<1>5. QED
  BY <1>1, <1>4 DEF ReplayState

LEMMA ReplayGoesOn ==
  ASSUME NEW h \in Seq(Use), NEW u \in Use
  PROVE  ReplayState(Append(h, u)) = Used(ReplayState(h), u)
<1> DEFINE k == Append(h, u)
           n == Len(h) + 1
           f == CHOOSE f : Replaying(h, f)
           g == CHOOSE g : Replaying(k, g)
<1>1. /\ k \in Seq(Use) /\ Len(h) \in Nat /\ n \in Nat /\ DOMAIN h = 1..Len(h) /\ DOMAIN k = 1..n
      /\ k[n] = u /\ Len(h) <= Len(k) /\ \A i \in 1..Len(h) : k[i] = h[i]
  OBVIOUS
<1>2. Replaying(h, f)
  BY ReplayRuns
<1> HIDE DEF k
<1>3. Replaying(k, g)
  BY <1>1, ReplayRuns
<1> HIDE DEF f, g
<1>4. g[DOMAIN h] = f[DOMAIN h]
  BY <1>1, <1>2, <1>3, ReplaysAgree
<1>5. 1..n # {} /\ (1..n) \ {n} = 1..Len(h)
  BY <1>1
<1>6. Max(1..n) = n
  <2>1. Max(1..n) \in 1..n /\ Max(1..n) >= n
    <3>1. 1..n \in SUBSET (1..n) /\ n \in 1..n
      BY <1>1
    <3> HIDE DEF n
    <3>2. QED
      BY <1>1, <1>5, <3>1, LastIsIn
  <2> DEFINE m == Max(1..n)
  <2>2. m \in Int /\ m <= n /\ m >= n
    BY <1>1, <2>1
  <2> HIDE DEF m, n
  <2>3. m = n
    BY <1>1, <2>2
  <2>4. QED
    BY <2>3 DEF m
<1>7. g[1..n] = Used(g[(1..n) \ {Max(1..n)}], k[Max(1..n)])
  BY <1>1, <1>3, <1>5 DEF Replaying
<1>8. g[1..n] = Used(g[1..Len(h)], u)
  BY <1>1, <1>5, <1>6, <1>7
<1>9. QED
  BY <1>1, <1>4, <1>8 DEF ReplayState, f, g, k

---------------------------------------------------------------------------
(* What an operator is shown of a limit *)

\* Two buckets nobody could tell apart from now on.
AsFull(b, c, t) == \A u \in Nat : t <= u => Refilled(b, KeyCount, u) = Refilled(c, KeyCount, u)

\* While the gateway has made no request of its own and nothing was given away: what is replayed of the
\* key's uses let in whom the limit did, and its bucket cannot be told from
\* the key's, which has been swept.
ReplayStands ==
  spares = <<>> /\ drops = {} =>
    /\ ReplayState(uses).in = [i \in DOMAIN uses |-> uses[i].in]
    /\ ReplayState(uses).bucket \in Bucket
    /\ ReplayState(uses).bucket.last <= tick
    /\ AsFull(ReplayState(uses).bucket, buckets["key"], tick)

\* A use makes them the same bucket.
LEMMA UsedAlike ==
  ASSUME NEW b \in Bucket, NEW c \in Bucket, NEW t \in Nat, b.last <= t, c.last <= t, AsFull(b, c, t)
  PROVE  /\ Taken(b, KeyCount, t, 1, TRUE) = Taken(c, KeyCount, t, 1, TRUE)
         /\ Enough(b, KeyCount, t, 1) = Enough(c, KeyCount, t, 1)
<1> DEFINE level == Refilled(b, KeyCount, t)
<1>1. Refilled(c, KeyCount, t) = level
  <2>1. t <= t
    OBVIOUS
  <2>2. QED
    BY <2>1 DEF AsFull
<1>2. Enough(b, KeyCount, t, 1) = (level >= 1 * Period) /\ Enough(c, KeyCount, t, 1) = (level >= 1 * Period)
  BY <1>1 DEF Enough
<1>3. ~ b.there \/ ~ c.there => level >= 1 * Period
  <2>1. (~ b.there => level = KeyCount * Period) /\ (~ c.there => level = KeyCount * Period)
    BY <1>1, Refills, CountsAreNumbers
  <2>2. 1 <= KeyCount /\ KeyCount \in Nat /\ Period \in Nat
    BY CountsAreNumbers
  <2>3. 1 * Period <= KeyCount * Period /\ KeyCount * Period \in Nat /\ 1 * Period \in Nat
    BY <2>2, Distributed
  <2> HIDE DEF level
  <2>4. QED
    BY <2>1, <2>3
<1>4. Period # 0
  BY CountsAreNumbers
<1> DEFINE spent == IF level >= 1 * Period THEN Period ELSE 0
<1>5. /\ Taken(b, KeyCount, t, 1, TRUE) = [tokens |-> level - spent, last |-> t, there |-> TRUE]
      /\ Taken(c, KeyCount, t, 1, TRUE) = [tokens |-> level - spent, last |-> t, there |-> TRUE]
  <2>1. ~ (~b.there /\ spent = 0) /\ ~ (~c.there /\ spent = 0)
    BY <1>3, <1>4
  <2>2. /\ Taken(b, KeyCount, t, 1, TRUE) = IF ~b.there /\ spent = 0 THEN b
                                            ELSE [tokens |-> level - spent, last |-> t, there |-> TRUE]
        /\ Taken(c, KeyCount, t, 1, TRUE) = IF ~c.there /\ spent = 0 THEN c
                                            ELSE [tokens |-> level - spent, last |-> t, there |-> TRUE]
    BY <1>1, <1>2 DEF Taken
  <2> HIDE DEF spent, level
  <2>3. QED
    BY <2>1, <2>2
<1> HIDE DEF level, spent
<1>6. QED
  BY <1>2, <1>5

\* Looking at a bucket, and taking nothing, tells nobody.
LEMMA NothingSpent ==
  ASSUME NEW b \in Bucket, NEW t \in Nat, b.last <= t, NEW need, ~ Enough(b, KeyCount, t, need)
  PROVE  AsFull(b, Taken(b, KeyCount, t, need, TRUE), t)
<1> DEFINE level == Refilled(b, KeyCount, t)
           full == KeyCount * Period
           c == [tokens |-> level, last |-> t, there |-> TRUE]
<1>0. level \in Nat /\ level <= full /\ full \in Nat /\ KeyCount \in Nat \ {0} /\ b.there \in BOOLEAN /\ b.tokens \in Nat
      /\ b.last \in Nat
  BY Refills, CountsAreNumbers DEF Bucket
<1>1. Taken(b, KeyCount, t, need, TRUE) = IF ~b.there THEN b ELSE c
  <2>1. level - 0 = level
    BY <1>0
  <2>2. Taken(b, KeyCount, t, need, TRUE) = IF ~b.there THEN b ELSE [tokens |-> level - 0, last |-> t, there |-> TRUE]
    BY DEF Taken
  <2> HIDE DEF level
  <2>3. QED
    BY <2>1, <2>2
<1>2. AsFull(b, b, t)
  BY DEF AsFull
<1>3. ASSUME b.there PROVE AsFull(b, c, t)
  <2> SUFFICES ASSUME NEW u \in Nat, t <= u PROVE Refilled(b, KeyCount, u) = Refilled(c, KeyCount, u)
    BY DEF AsFull
  <2> DEFINE early == (t - b.last) * KeyCount
             late == (u - t) * KeyCount
             whole == (u - b.last) * KeyCount
  <2>1. early \in Nat /\ late \in Nat /\ whole \in Nat /\ whole = early + late
    <3>1. t - b.last \in Nat /\ u - t \in Nat /\ u - b.last = (t - b.last) + (u - t) /\ u - b.last \in Nat
      BY <1>0
    <3>2. \A x, y, z \in Nat : x * z \in Nat /\ (x + y) * z = x * z + y * z
      BY SMT
    <3>3. QED
      BY <1>0, <3>1, <3>2
  <2>2. level = IF full <= b.tokens + early THEN full ELSE b.tokens + early
    BY <1>0, <1>3, Refills
  <2>3. Refilled(b, KeyCount, u) = IF full <= b.tokens + whole THEN full ELSE b.tokens + whole
    <3>1. b.last <= u
      BY <1>0
    <3>2. QED
      BY <1>0, <1>3, <3>1, Refills
  <2>4. c \in Bucket /\ c.tokens = level /\ c.last = t /\ c.there = TRUE
    BY <1>0 DEF Bucket
  <2> HIDE DEF c
  <2>5. Refilled(c, KeyCount, u) = IF full <= level + late THEN full ELSE level + late
    <3>1. c.last <= u
      BY <2>4
    <3> DEFINE more == c.tokens + (u - c.last) * KeyCount
    <3>2. Refilled(c, KeyCount, u) = IF full <= more THEN full ELSE more
      BY <1>0, <2>4, <3>1, Refills
    <3> HIDE DEF level
    <3>3. more = level + late
      BY <2>4
    <3> HIDE DEF more, full, late
    <3>4. QED
      BY <3>2, <3>3
  <2> HIDE DEF early, late, whole, full, level
  <2>6. QED
    BY <1>0, <2>1, <2>2, <2>3, <2>5
<1>4. QED
  BY <1>0, <1>1, <1>2, <1>3

\* Nor does dropping a full one.
LEMMA SweptAlike ==
  ASSUME NEW b \in Bucket, NEW t \in Nat, b.last <= t, Refilled(b, KeyCount, t) = KeyCount * Period
  PROVE  AsFull(b, NoBucket, t)
<1> SUFFICES ASSUME NEW u \in Nat, t <= u PROVE Refilled(b, KeyCount, u) = Refilled(NoBucket, KeyCount, u)
  BY DEF AsFull
<1> DEFINE full == KeyCount * Period
           early == (t - b.last) * KeyCount
           late == (u - b.last) * KeyCount
<1>1. b.last \in Nat /\ b.tokens \in Nat /\ b.there \in BOOLEAN /\ b.last <= u /\ KeyCount \in Nat \ {0}
  BY CountsAreNumbers DEF Bucket
<1>2. early \in Nat /\ late \in Nat /\ full \in Nat
  BY <1>1, Refills
<1>3. early <= late
  <2>1. t - b.last \in Nat /\ u - b.last \in Nat /\ t - b.last <= u - b.last
    BY <1>1
  <2>2. QED
    BY <1>1, <2>1, Distributed
<1>4. /\ ~b.there => Refilled(b, KeyCount, u) = full
      /\ b.there => Refilled(b, KeyCount, t) = IF full <= b.tokens + early THEN full ELSE b.tokens + early
      /\ b.there => Refilled(b, KeyCount, u) = IF full <= b.tokens + late THEN full ELSE b.tokens + late
  BY <1>1, Refills
<1>5. Refilled(b, KeyCount, t) = full
  OBVIOUS
<1>6. Refilled(NoBucket, KeyCount, u) = full
  BY DEF Refilled, NoBucket
<1> HIDE DEF early, late, full
<1>7. Refilled(b, KeyCount, u) = full
  BY <1>1, <1>2, <1>3, <1>4, <1>5
<1>8. QED
  BY <1>6, <1>7

LEMMA AsFullOn ==
  ASSUME NEW b, NEW c, NEW d, NEW t \in Nat, NEW u \in Nat, t <= u, AsFull(b, c, t)
  PROVE  AsFull(b, c, u) /\ (AsFull(c, d, t) => AsFull(b, d, t))
<1>1. \A x \in Nat : u <= x => t <= x
  OBVIOUS
<1>2. QED
  BY <1>1 DEF AsFull

\* A step that leaves what the key's bucket holds, and the uses of it, as they
\* were, and in which the gateway's own requests, and what is given away, grow
\* no fewer.
LEMMA ReplayKept ==
  ASSUME RateTypes, ReplayStands, uses' = uses, tick' \in Nat, tick <= tick',
         spares' = <<>> => spares = <<>>, drops' = {} => drops = {},
         drops' = {} => AsFull(buckets["key"], buckets'["key"], tick)
  PROVE  ReplayStands'
<1> SUFFICES ASSUME spares' = <<>>, drops' = {}
             PROVE  /\ ReplayState(uses)'.in = [i \in DOMAIN uses' |-> uses'[i].in]
                    /\ ReplayState(uses)'.bucket \in Bucket
                    /\ ReplayState(uses)'.bucket.last <= tick'
                    /\ AsFull(ReplayState(uses)'.bucket, buckets'["key"], tick')
  BY DEF ReplayStands, AsFull, Refilled
<1>1. ReplayState(uses)' = ReplayState(uses) /\ uses' = uses
  BY DEF ReplayState, Replaying, Used
<1> DEFINE R == ReplayState(uses)
<1>2. /\ R.in = [i \in DOMAIN uses |-> uses[i].in] /\ R.bucket \in Bucket
      /\ R.bucket.last <= tick /\ AsFull(R.bucket, buckets["key"], tick) /\ tick \in Nat
  BY DEF ReplayStands, RateTypes
<1> HIDE DEF R
<1>3. R.bucket.last <= tick'
  BY <1>2 DEF Bucket
<1>4. AsFull(R.bucket, buckets'["key"], tick)
  BY <1>2, AsFullOn
<1>5. AsFull(R.bucket, buckets'["key"], tick')
  BY <1>2, <1>4, AsFullOn
<1>6. QED
  BY <1>1, <1>2, <1>3, <1>5 DEF R

LEMMA AllowReplays ==
  ASSUME RateTypes, ReplayStands, NEW q \in Request, Allow(q)
  PROVE  ReplayStands'
<1> DEFINE R == ReplayState(uses)
           b == R.bucket
           c == buckets["key"]
           u == [at |-> tick, in |-> Has("key", 1)]
<1> SUFFICES ASSUME spares' = <<>>, drops' = {}
             PROVE  /\ ReplayState(uses)'.in = [i \in DOMAIN uses' |-> uses'[i].in]
                    /\ ReplayState(uses)'.bucket \in Bucket
                    /\ ReplayState(uses)'.bucket.last <= tick'
                    /\ AsFull(ReplayState(uses)'.bucket, buckets'["key"], tick')
  BY DEF ReplayStands, AsFull, Refilled
<1>1. /\ tick \in Nat /\ c \in Bucket /\ c.last <= tick /\ uses \in Seq(Use) /\ tick' = tick /\ spares = <<>> /\ drops = {}
      /\ uses' = Append(uses, u) /\ buckets' = [buckets EXCEPT !["key"] = Taken(c, Count("key"), tick, 1, TRUE)]
      /\ c.tokens <= KeyCount * Period
  BY Counts DEF Allow, RateTypes, Take
<1>2. R.in = [i \in DOMAIN uses |-> uses[i].in] /\ b \in Bucket /\ b.last <= tick /\ AsFull(b, c, tick)
  BY <1>1 DEF ReplayStands
<1>3. u \in Use /\ u.at = tick /\ u.in = Enough(c, KeyCount, tick, 1)
  BY <1>1, Counts DEF Use, Has, Enough
<1> DEFINE d == Taken(c, KeyCount, tick, 1, TRUE)
<1>4. buckets'["key"] = d
  BY <1>1, Counts DEF RateTypes
<1> HIDE DEF c, d, u, R
<1>5. Taken(b, KeyCount, tick, 1, TRUE) = d /\ Enough(b, KeyCount, tick, 1) = u.in
  BY <1>1, <1>2, <1>3, UsedAlike DEF d
<1>6. ReplayState(uses') = Used(R, u)
  BY <1>1, <1>3, ReplayGoesOn DEF R
<1>7. Used(R, u) = [bucket |-> d, in |-> Append(R.in, u.in)]
  BY <1>3, <1>5 DEF Used
<1>8. d \in Bucket /\ d.last <= tick
  <2>1. 1 \in Nat \ {0} /\ TRUE \in BOOLEAN /\ KeyCount \in Nat \ {0}
    BY CountsAreNumbers
  <2>2. LET e == Taken(c, KeyCount, tick, 1, TRUE) IN e \in Bucket /\ e.last <= tick
    BY <1>1, <2>1, TakesOne
  <2>3. QED
    BY <2>2 DEF d
<1>9. Append(R.in, u.in) = [i \in DOMAIN uses' |-> uses'[i].in]
  <2>1. Len(uses) \in Nat /\ DOMAIN uses = 1..Len(uses) /\ DOMAIN uses' = 1..(Len(uses) + 1)
        /\ (\A i \in 1..Len(uses) : uses'[i] = uses[i]) /\ uses'[Len(uses) + 1] = u
    BY <1>1
  <2>2. R.in = [i \in 1..Len(uses) |-> uses[i].in]
    BY <1>2, <2>1
  <2>3. R.in \in Seq(BOOLEAN) /\ Len(R.in) = Len(uses) /\ \A i \in 1..Len(uses) : R.in[i] = uses[i].in
    <3>1. \A i \in 1..Len(uses) : uses[i].in \in BOOLEAN
      <4>1. \A i \in 1..Len(uses) : uses[i] \in Use
        BY <1>1
      <4>2. QED
        BY <4>1 DEF Use
    <3>2. R.in \in [1..Len(uses) -> BOOLEAN]
      BY <2>2, <3>1
    <3>3. QED
      BY <2>1, <2>2, <3>2
  <2> DEFINE n == Len(uses) + 1
             new == Append(R.in, u.in)
  <2>4. DOMAIN new = 1..n /\ new[n] = u.in /\ \A i \in 1..Len(uses) : new[i] = R.in[i]
    BY <2>1, <2>3
  <2>5. new = [i \in 1..n |-> new[i]]
    BY <2>1, <2>3
  <2>6. \A i \in 1..n : i \in 1..Len(uses) \/ i = n
    BY <2>1
  <2> HIDE DEF n, new
  <2>7. \A i \in 1..n : new[i] = uses'[i].in
    BY <2>1, <2>3, <2>4, <2>6 DEF n
  <2>8. QED
    BY <2>1, <2>5, <2>7 DEF n, new
<1>10. AsFull(d, d, tick)
  BY DEF AsFull
<1>11. ReplayState(uses)' = [bucket |-> d, in |-> [i \in DOMAIN uses' |-> uses'[i].in]]
  <2>1. ReplayState(uses)' = ReplayState(uses')
    BY DEF ReplayState, Replaying, Used
  <2>2. QED
    BY <1>6, <1>7, <1>9, <2>1
<1>12. ReplayState(uses)'.bucket = d /\ ReplayState(uses)'.in = [i \in DOMAIN uses' |-> uses'[i].in]
  <2> DEFINE so == [i \in DOMAIN uses' |-> uses'[i].in]
             after == ReplayState(uses)'
  <2>1. after = [bucket |-> d, in |-> so]
    BY <1>11
  <2> HIDE DEF so, after
  <2>2. after.bucket = d /\ after.in = so
    BY <2>1
  <2>3. QED
    BY <2>2 DEF so, after
<1>13. tick' = tick
  BY <1>1
<1>14. ReplayState(uses)'.bucket \in Bucket /\ ReplayState(uses)'.bucket.last <= tick'
  BY <1>8, <1>12, <1>13
<1>15. AsFull(ReplayState(uses)'.bucket, buckets'["key"], tick')
  BY <1>4, <1>10, <1>12, <1>13
<1>16. QED
  BY <1>12, <1>14, <1>15

LEMMA ReplayBeginsSo == AdmissionInit => ReplayStands
<1> SUFFICES ASSUME AdmissionInit PROVE ReplayStands
  OBVIOUS
<1>1. uses = <<>> /\ buckets["key"] = NoBucket /\ tick = 1
  BY Counts DEF AdmissionInit
<1>2. ReplayState(uses) = Unstarted
  BY <1>1, ReplayBegins
<1>3. NoBucket \in Bucket /\ NoBucket.last <= 1
  BY DEF NoBucket, Bucket
<1>4. AsFull(NoBucket, NoBucket, 1)
  BY DEF AsFull
<1>5. <<>> = [i \in DOMAIN uses |-> uses[i].in]
  BY <1>1
<1>6. QED
  BY <1>1, <1>2, <1>3, <1>4, <1>5 DEF ReplayStands, Unstarted

LEMMA ReplayStep ==
  ASSUME RateTypes, ReplayStands, [AdmissionNext]_admissionVars
  PROVE  ReplayStands'
<1> DEFINE c == buckets["key"]
<1>0. tick \in Nat /\ c \in Bucket /\ c.last <= tick /\ Count("key") = KeyCount
  BY Counts DEF RateTypes
<1>1. AsFull(c, c, tick)
  BY DEF AsFull
<1>2. ASSUME NEW q \in Request, Allow(q) PROVE ReplayStands'
  BY <1>2, AllowReplays
<1>3. ASSUME NEW q \in Request, LetInSpare(q) PROVE ReplayStands'
  <2>1. tick' = tick /\ uses' = uses /\ drops' = drops
    BY <1>3 DEF LetInSpare
  <2>2. CASE KeyCount >= 2 /\ ~ Has("key", 2)
    <3>1. buckets'["key"] = Taken(c, KeyCount, tick, 2, TRUE) /\ spares' = spares
      BY <1>0, <1>3, <2>2, Counts DEF LetInSpare, Take, RateTypes
    <3>2. ~ Enough(c, KeyCount, tick, 2)
      BY <1>0, <2>2 DEF Has
    <3>3. AsFull(c, buckets'["key"], tick)
      BY <1>0, <3>1, <3>2, NothingSpent
    <3>4. tick <= tick' /\ tick' \in Nat
      BY <1>0, <2>1
    <3>5. QED
      BY <2>1, <3>1, <3>3, <3>4, ReplayKept
  <2>3. CASE ~ (KeyCount >= 2)
    <3>1. buckets' = buckets /\ spares' = spares
      BY <1>3, <2>3 DEF LetInSpare
    <3>2. tick <= tick' /\ tick' \in Nat /\ AsFull(buckets["key"], buckets'["key"], tick)
      BY <1>0, <1>1, <2>1, <3>1
    <3>3. QED
      BY <2>1, <3>1, <3>2, ReplayKept
  <2>4. CASE KeyCount >= 2 /\ Has("key", 2)
    <3>1. spares' = Append(spares, tick)
      BY <1>3, <2>4 DEF LetInSpare
    <3>2. spares \in Seq(Nat) /\ Len(spares) \in Nat
      BY DEF RateTypes
    <3>3. Len(spares') = Len(spares) + 1
      BY <1>0, <3>1, <3>2
    <3>4. Len(<<>>) = 0 /\ Len(spares') # 0
      BY <3>2, <3>3
    <3>5. spares' # <<>>
      BY <3>4
    <3>6. QED
      BY <3>5 DEF ReplayStands
  <2>5. QED
    BY <2>2, <2>3, <2>4
<1>4. ASSUME NEW q \in Request, (\E cred \in {"none", "key"} : Peek(q, cred)) \/ ChargeStranger(q) PROVE ReplayStands'
  <2>1. tick' = tick /\ uses' = uses /\ spares' = spares /\ drops' = drops
        /\ \E spend \in BOOLEAN : Take("address", 1, spend)
    BY <1>4 DEF Peek, ChargeStranger, keyHistory
  <2>2. buckets'["key"] = buckets["key"]
    BY <2>1, Counts DEF Take, RateTypes
  <2>3. tick <= tick' /\ tick' \in Nat /\ AsFull(buckets["key"], buckets'["key"], tick)
    BY <1>0, <1>1, <2>1, <2>2
  <2>4. QED
    BY <2>1, <2>3, ReplayKept
<1>5. ASSUME UNCHANGED <<tick, buckets, keyHistory>> PROVE ReplayStands'
  <2>1. tick' = tick /\ uses' = uses /\ spares' = spares /\ drops' = drops /\ buckets' = buckets
    BY <1>5 DEF keyHistory
  <2>2. tick <= tick' /\ tick' \in Nat /\ AsFull(buckets["key"], buckets'["key"], tick)
    BY <1>0, <1>1, <2>1
  <2>3. QED
    BY <2>1, <2>2, ReplayKept
<1>6. CASE Sweep
  <2>1. tick' = tick /\ uses' = uses /\ spares' = spares /\ GivenAway
        /\ buckets'["key"] = IF c.last + SweepAfter < tick THEN NoBucket ELSE c
    BY <1>6, Counts DEF Sweep
  <2>2. (drops' = {} => drops = {}) /\ (drops' = {} => AsFull(c, buckets'["key"], tick))
    <3>1. drops' = {} => drops = {}
      BY <2>1 DEF GivenAway
    <3>2. ASSUME drops' = {}, buckets'["key"] # c PROVE AsFull(c, buckets'["key"], tick)
      <4>1. buckets'["key"] = NoBucket /\ ~NoBucket.there
        BY <2>1, <3>2 DEF NoBucket
      <4>2. ~(Refilled(c, KeyCount, tick) < KeyCount * Period)
        BY <2>1, <3>2, <4>1 DEF GivenAway
      <4>3. Refilled(c, KeyCount, tick) \in Nat /\ KeyCount * Period \in Nat
            /\ Refilled(c, KeyCount, tick) <= KeyCount * Period
        BY <1>0, Refills, CountsAreNumbers
      <4>4. Refilled(c, KeyCount, tick) = KeyCount * Period
        BY <4>2, <4>3
      <4>5. QED
        BY <1>0, <4>1, <4>4, SweptAlike
    <3>3. QED
      BY <1>1, <3>1, <3>2
  <2>3. tick <= tick' /\ tick' \in Nat
    BY <1>0, <2>1
  <2>4. QED
    BY <2>1, <2>2, <2>3, ReplayKept
<1>7. CASE AdmissionTick
  <2>1. tick' = tick + 1 /\ uses' = uses /\ spares' = spares /\ drops' = drops /\ buckets' = buckets
    BY <1>7 DEF AdmissionTick, keyHistory
  <2>2. tick <= tick' /\ tick' \in Nat /\ AsFull(buckets["key"], buckets'["key"], tick)
    BY <1>0, <1>1, <2>1
  <2>3. QED
    BY <2>1, <2>2, ReplayKept
<1>8. ASSUME NEW q \in Request, Authenticate(q) \/ BeginServing(q) \/ EndServing(q) PROVE ReplayStands'
  BY <1>5, <1>8 DEF Authenticate, BeginServing, EndServing
<1>9. ASSUME NEW off \in BOOLEAN, SetDisabled(off) PROVE ReplayStands'
  BY <1>5, <1>9 DEF SetDisabled
<1>10. CASE UNCHANGED admissionVars
  BY <1>5, <1>10 DEF admissionVars, keyHistory
<1>11. QED
  BY <1>2, <1>3, <1>4, <1>6, <1>7, <1>8, <1>9, <1>10 DEF AdmissionNext

\* What an operator is shown of a limit, and what a budget is decided by, are
\* honest figures: what the key's limit would have refused of a history is what
\* it did refuse, if nothing of it was swept but full (limiter.go); a request is let in by a
\* figure at most budgetFresh late, however readers raced and whenever rows
\* were written; and between reads the figure misses nothing credited but what
\* was credited while it was read (budgets.go).  For any counts, requests,
\* costs and rows.
THEOREM FigureIsHonestHolds ==
  BudgetSpec /\ AdmissionSpec => []FigureIsHonest
<1> DEFINE Stands == RateInv /\ ReplayStands
<1>1. AdmissionInit => Stands
  BY RatesBegin, ReplayBeginsSo
<1>2. Stands /\ [AdmissionNext]_admissionVars => Stands'
  BY RatesStep, ReplayStep DEF RateInv
<1>3. Stands => ReplayAgrees
  BY ReplayIs DEF ReplayStands, ReplayAgrees, RateInv, RateTypes
<1>4. AdmissionSpec => []ReplayAgrees
  <2> HIDE DEF Stands
  <2>1. QED
    BY <1>1, <1>2, <1>3, PTL DEF AdmissionSpec
<1>5. (NoticesInTime /\ KeepsUp) /\ ReplayAgrees => FigureIsHonest
  BY DEF FigureIsHonest
<1>6. QED
  BY <1>4, <1>5, FiguresHold, PTL

---------------------------------------------------------------------------
(* The relay *)

LEMMA Names ==
  /\ \A s \in Retryable : s \in Refusals
  /\ \A s \in Refusals : s \in Replies /\ s \in Statuses
  /\ \A s \in Answers : s \in Replies
  /\ "waiting" \in Replies /\ "network" \in Replies /\ "ended" \in Replies
  /\ "ok" \in Statuses /\ "bad_gateway" \in Statuses
  /\ "network" \in Errors /\ "cooling" \in Errors /\ "unserved" \in Errors
  /\ "ended" \in Errors /\ "gone" \in Errors /\ "broken" \in Errors
  /\ None \notin Accounts /\ None \notin Statuses /\ None \notin Errors /\ None \notin HowItEnds
BY RelayAssumption DEF RelayAssumption, Retryable, Refusals, Answers, Replies, Statuses, Errors

LEMMA SayType ==
  ASSUME wire \in Seq(Answer), NEW f \in Forms, NEW w \in Words, Say(f, w)
  PROVE  /\ wire' \in Seq(Answer) /\ Len(wire') = Len(wire) + 1
         /\ \A i \in 1..Len(wire) : wire'[i] = wire[i]
         /\ wire'[Len(wire) + 1] = [form |-> f, words |-> w]
<1> DEFINE a == [form |-> f, words |-> w]
<1>1. a \in Answer
  BY DEF Answer
<1>2. wire' = Append(wire, a)
  BY DEF Say
<1> HIDE DEF a
<1>3. QED
  BY <1>1, <1>2, AppendProperties DEF a

LEMMA ReplyType ==
  ASSUME asked \in Seq(Attempt), attempt \in 1..Len(asked), NEW r \in Replies, Reply(r)
  PROVE  /\ asked' \in Seq(Attempt) /\ Len(asked') = Len(asked)
         /\ \A n \in 1..Len(asked) :
              /\ asked'[n].account = asked[n].account
              /\ asked'[n].reply = IF n = attempt THEN r ELSE asked[n].reply
<1> DEFINE e == [asked[attempt] EXCEPT !.reply = r]
<1>2. asked[attempt] \in Attempt
  BY ElementOfSeq
<1>3. e \in Attempt /\ e.account = asked[attempt].account /\ e.reply = r
  BY <1>2 DEF Attempt
<1>4. asked' = [asked EXCEPT ![attempt] = e]
  BY DEF Reply
<1> HIDE DEF e
<1>5. QED
  BY <1>3, <1>4, ExceptSeq

LEMMA AskType ==
  ASSUME asked \in Seq(Attempt), NEW a \in Accounts,
         asked' = Append(asked, [account |-> a, reply |-> "waiting"])
  PROVE  /\ asked' \in Seq(Attempt) /\ Len(asked') = Len(asked) + 1
         /\ \A n \in 1..Len(asked) : asked'[n] = asked[n]
         /\ asked'[Len(asked) + 1] = [account |-> a, reply |-> "waiting"]
<1> DEFINE e == [account |-> a, reply |-> "waiting"]
<1>1. e \in Attempt
  BY Names DEF Attempt
<1>2. asked' = Append(asked, e)
  OBVIOUS
<1> HIDE DEF e
<1>3. QED
  BY <1>1, <1>2, AppendProperties DEF e

---------------------------------------------------------------------------
(* The clocks of a hold and of the keepalive *)

\* The ticks of a hold are those it has lasted and those it has left, and so for
\* the pause of its content; the client's silence is what is gone of the
\* keepalive's interval, and in a hold what the waiting had left it with.
Clocks ==
  /\ hold \in Hold /\ heldFor \in Lasted /\ due \in 0..KeepaliveEvery /\ quiet \in Nat
  /\ pc = "ask" => quiet + due <= KeepaliveEvery
  /\ pc = "hold" =>
       /\ quiet + due <= 2 * KeepaliveEvery
       /\ heldFor.all + hold.left = StallTimeout /\ heldFor.still <= heldFor.all
       /\ hold.content > 0 => heldFor.still + hold.gap = ProgressGap

LEMMA ClocksHold == Spec => []Clocks
<1>1. Init => Clocks
  BY RelayAssumption DEF RelayAssumption, Init, Clocks, Hold, Lasted, NoTime, NoHold
<1>2. Clocks /\ [Next]_vars => Clocks'
  <2> SUFFICES ASSUME Clocks, Next \/ UNCHANGED vars PROVE Clocks'
    OBVIOUS
  <2> USE RelayAssumption DEF RelayAssumption, Clocks
  <2>1. ASSUME Acquire PROVE Clocks'
    BY <2>1 DEF Acquire
  <2>2. ASSUME NEW s \in Answers, Answered(s) PROVE Clocks'
    <3>1. CASE pc' = "hold"
      <4>1. pc = "ask" /\ due' = KeepaliveEvery /\ quiet' = quiet
        BY <2>2, <3>1 DEF Answered
      <4>2. hold' = [content |-> 0, left |-> StallTimeout, gap |-> ProgressGap] /\ heldFor' = NoTime
        BY <2>2, <3>1 DEF Answered
      <4>3. hold' \in Hold /\ heldFor' \in Lasted /\ hold'.left = StallTimeout
            /\ hold'.content = 0 /\ heldFor'.all = 0 /\ heldFor'.still = 0
        BY <4>2 DEF Hold, Lasted, NoTime
      <4>4. QED
        BY <3>1, <4>1, <4>3
    <3>2. CASE pc' # "hold"
      BY <2>2, <3>2 DEF Answered, clock
    <3>3. QED
      BY <3>1, <3>2
  <2>3. ASSUME HeldEvent PROVE Clocks'
    <3>1. pc = "hold" /\ due' \in 0..KeepaliveEvery /\ quiet' \in Nat
          /\ quiet' + due' <= 2 * KeepaliveEvery
      BY <2>3 DEF HeldEvent, Alive
    <3>2. PICK e \in {"quiet", "content", "settling", "error"} :
             Keep(e) \/ (Decide(e) /\ UNCHANGED heldFor)
      BY <2>3 DEF HeldEvent
    <3>3. CASE Keep(e) /\ e = "quiet"
      BY <3>1, <3>3 DEF Keep
    <3>4. CASE Keep(e) /\ e # "quiet"
      <4>1. /\ hold' = [hold EXCEPT !.content = @ + 1, !.gap = ProgressGap]
            /\ heldFor' = [heldFor EXCEPT !.still = 0]
            /\ hold.content + 1 < HoldContentEvents /\ pc' = pc
        BY <3>4 DEF Keep
      <4>2. hold' \in Hold /\ hold'.left = hold.left /\ hold'.gap = ProgressGap
        <5>1. hold.content + 1 \in 0..HoldContentEvents /\ ProgressGap \in 0..ProgressGap
          BY <4>1 DEF Hold
        <5>2. hold' = [content |-> hold.content + 1, left |-> hold.left, gap |-> ProgressGap]
          BY <4>1 DEF Hold
        <5>3. QED
          BY <5>1, <5>2 DEF Hold
      <4>3. heldFor' \in Lasted /\ heldFor'.all = heldFor.all /\ heldFor'.still = 0
        BY <4>1 DEF Lasted
      <4>4. heldFor.all \in Nat
        BY DEF Lasted
      <4>5. QED
        BY <3>1, <4>1, <4>2, <4>3, <4>4
    <3>5. CASE Decide(e) /\ UNCHANGED heldFor
      <4>1. hold' = NoHold /\ pc' \in {"acquire", "relay"}
        BY <3>5 DEF Decide, Resend, Release
      <4>2. hold' \in Hold
        BY <4>1 DEF Hold, NoHold
      <4>3. QED
        BY <3>1, <3>5, <4>1, <4>2
    <3>6. QED
      BY <3>2, <3>3, <3>4, <3>5
  <2>4. ASSUME HeldTimer PROVE Clocks'
    <3>1. pc = "hold" /\ due' \in 0..KeepaliveEvery /\ quiet' \in Nat
          /\ quiet' + due' <= 2 * KeepaliveEvery /\ heldFor' = heldFor
      BY <2>4 DEF HeldTimer, Alive
    <3>2. UNCHANGED <<pc, hold>> \/ (pc' = "acquire" /\ hold' = NoHold)
      BY <2>4 DEF HeldTimer, Resend
    <3>3. NoHold \in Hold
      BY DEF Hold, NoHold
    <3>4. QED
      BY <3>1, <3>2, <3>3
  <2>5. ASSUME Ping PROVE Clocks'
    BY <2>5 DEF Ping, Alive
  <2>6. ASSUME Tick PROVE Clocks'
    <3>1. pc' = pc /\ due' = due - 1 /\ quiet' = quiet + 1 /\ due > 0
      BY <2>6 DEF Tick
    <3>2. CASE pc = "hold"
      <4>1. hold' = [hold EXCEPT !.left = @ - 1, !.gap = IF hold.content > 0 THEN @ - 1 ELSE @]
            /\ heldFor' = [all |-> heldFor.all + 1, still |-> heldFor.still + 1]
            /\ Until > 0
        BY <2>6, <3>2 DEF Tick
      <4>2. hold.left \in Nat /\ hold.gap \in Nat /\ hold.content \in Nat
            /\ heldFor.all \in Nat /\ heldFor.still \in Nat /\ hold.gap <= ProgressGap
        BY DEF Hold, Lasted
      <4>3. hold.left > 0 /\ (hold.content > 0 => hold.gap > 0)
        BY <4>1, <4>2 DEF Until
      <4>4. hold' \in Hold /\ hold'.left = hold.left - 1 /\ hold'.content = hold.content
            /\ (hold.content > 0 => hold'.gap = hold.gap - 1)
        <5>1. hold' = [content |-> hold.content, left |-> hold.left - 1,
                       gap |-> IF hold.content > 0 THEN hold.gap - 1 ELSE hold.gap]
          BY <4>1 DEF Hold
        <5>2. hold.left - 1 \in 0..StallTimeout /\ (hold.content > 0 => hold.gap - 1 \in 0..ProgressGap)
          BY <4>2, <4>3 DEF Hold
        <5>3. QED
          BY <5>1, <5>2 DEF Hold
      <4>5. heldFor'.all = heldFor.all + 1 /\ heldFor'.still = heldFor.still + 1
        BY <4>1
      <4>6. heldFor' \in Lasted
        <5>1. heldFor.all + 1 \in 0..StallTimeout /\ heldFor.still + 1 \in 0..StallTimeout
          BY <3>2, <4>2, <4>3
        <5>2. QED
          BY <4>1, <5>1 DEF Lasted
      <4>7. QED
        BY <3>1, <3>2, <4>2, <4>3, <4>4, <4>5, <4>6
    <3>3. CASE pc # "hold"
      BY <2>6, <3>1, <3>3 DEF Tick
    <3>4. QED
      BY <3>2, <3>3
  <2>7. ASSUME UNCHANGED clock, pc' = pc \/ pc' \notin {"ask", "hold"} PROVE Clocks'
    BY <2>7 DEF clock
  <2>8. AcquireFails \/ Exhausted \/ NetworkError \/ Abandoned \/ Repaired \/ NotRepaired
          => UNCHANGED clock /\ pc' \notin {"ask", "hold"}
    BY DEF AcquireFails, NothingToLease, Replay, EndWith, Exhausted, NetworkError, Abandoned,
       Repaired, NotRepaired, clock
  <2>9. Relayed \/ Close => UNCHANGED clock /\ pc' \notin {"ask", "hold"}
    BY DEF Relayed, Close
  <2>10. \A s \in Refusals : Refused(s) \/ Final(s) => UNCHANGED clock /\ pc' \notin {"ask", "hold"}
    BY DEF Refused, Final
  <2>11. Done \/ UNCHANGED vars => UNCHANGED clock /\ pc' = pc
    BY DEF Done, vars, clock
  <2>12. QED
    BY <2>1, <2>2, <2>3, <2>4, <2>5, <2>6, <2>7, <2>8, <2>9, <2>10, <2>11, Names DEF Next
<1>3. QED
  BY <1>1, <1>2, PTL DEF Spec

\* HoldBounded: a held stream is let go or sent again within StallTimeout, and
\* within ProgressGap of its content stopping, for any such times
\* (holdUntilContent).
THEOREM HoldBoundedHolds == Spec => []HoldBounded
<1>1. Clocks => HoldBounded
  BY RelayAssumption DEF RelayAssumption, Clocks, HoldBounded, Hold, Lasted
<1>2. QED
  BY <1>1, ClocksHold, PTL

\* NotSilent: no client waiting for a stream goes without a byte for two
\* keepalive intervals of an attempt (whileWaiting, holdUntilContent).
THEOREM NotSilentHolds == Spec => []NotSilent
<1>1. Clocks => NotSilent
  BY RelayAssumption DEF RelayAssumption, Clocks, NotSilent, Pinging
<1>2. QED
  BY <1>1, ClocksHold, PTL

---------------------------------------------------------------------------
(* What the client is told *)

\* Until an attempt's answer is relayed or Do gives up, nothing is said and no
\* status is settled; then either one answer has been given, or there is an
\* error that relayFailure answers, if the request's context has not ended; and the last attempt is never one that gave
\* way without a refusal or an error.
Told ==
  /\ wire \in Seq(Answer) /\ res \in Result /\ last \in Retryable \cup {None}
  /\ committed \in BOOLEAN /\ attempt \in Nat /\ pc \in Phases /\ ended \in HowItEnds \cup {None}
  /\ pc \in {"acquire", "ask", "refresh", "hold", "relay"} => wire = <<>>
  /\ pc \in {"acquire", "ask", "refresh", "hold"} => res.status = None
  /\ pc = "relay" => res.status # None
  /\ pc = "hold" => res.stalls = 0 /\ attempt < MaxAttempts
  /\ pc = "refresh" => last # None
  /\ pc = "acquire" /\ attempt = MaxAttempts => last # None \/ res.err # None
  /\ pc = "close" =>
       \/ wire = <<>> /\ res.status = None /\ res.err # None /\ (last # None => ended # None)
       \/ Len(wire) = 1 /\ res.status # None /\ (last # None => wire[1].words = "upstream")
  /\ pc = "done" =>
       \/ wire = <<>> /\ ended # None
       \/ Len(wire) = 1 /\ (last # None => wire[1].words = "upstream")

LEMMA FirstSaid ==
  ASSUME wire = <<>>, NEW f \in Forms, NEW w \in Words, Say(f, w)
  PROVE  wire' \in Seq(Answer) /\ Len(wire') = 1 /\ wire'[1].words = w
<1>1. wire \in Seq(Answer) /\ Len(wire) = 0
  OBVIOUS
<1>2. /\ wire' \in Seq(Answer) /\ Len(wire') = Len(wire) + 1
      /\ wire'[Len(wire) + 1] = [form |-> f, words |-> w]
  BY <1>1, SayType
<1>3. QED
  BY <1>1, <1>2

\* Do gives up, or relays, having said one thing.
LEMMA SaidLast ==
  ASSUME Told, wire = <<>>, NEW f \in Forms, NEW w \in Words, Say(f, w),
         pc' = "close", res' \in Result, res'.status # None,
         UNCHANGED <<last, committed>>, attempt' \in Nat, ended' \in HowItEnds \cup {None},
         last # None => w = "upstream"
  PROVE  Told'
<1>1. wire' \in Seq(Answer) /\ Len(wire') = 1 /\ wire'[1].words = w
  BY FirstSaid
<1>2. last' = last /\ last' \in Retryable \cup {None} /\ committed' \in BOOLEAN
  BY DEF Told
<1>3. QED
  BY <1>1, <1>2 DEF Told, Phases

LEMMA ToldHolds == Spec => []Told
<1>1. Init => Told
  <2> SUFFICES ASSUME Init PROVE Told
    OBVIOUS
  <2>1. res = [status |-> None, err |-> None, stalls |-> 0] /\ res \in Result
    BY DEF Init, Result
  <2>2. wire = <<>> /\ wire \in Seq(Answer)
    BY DEF Init
  <2>3. pc = "acquire" /\ attempt = 0 /\ last = None /\ committed = FALSE /\ MaxAttempts # 0 /\ ended = None
    BY RelayAssumption DEF RelayAssumption, Init
  <2>4. QED
    BY <2>1, <2>2, <2>3 DEF Told, Phases
<1>2. Told /\ [Next]_vars => Told'
  <2> SUFFICES ASSUME Told, Next \/ UNCHANGED vars PROVE Told'
    OBVIOUS
  <2> USE RelayAssumption DEF RelayAssumption, Told, Phases
  <2>1. ASSUME Acquire PROVE Told'
    BY <2>1 DEF Acquire
  <2>2. ASSUME AcquireFails PROVE Told'
    <3>1. pc' = "close" /\ UNCHANGED <<last, committed>> /\ wire = <<>> /\ res.status = None
          /\ attempt' \in Nat /\ ended' \in HowItEnds \cup {None}
      BY <2>2 DEF AcquireFails, NothingToLease, Replay, EndWith, ContextEnds
    <3>2. CASE last # None
      <4>1. res' = [res EXCEPT !.status = last] /\ Say("body", "upstream")
        BY <2>2, <3>2 DEF AcquireFails, NothingToLease, Replay
      <4>2. res' \in Result /\ res'.status # None
        BY <3>2, <4>1, Names DEF Result
      <4>3. QED
        BY <3>1, <4>1, <4>2, SaidLast DEF Forms, Words
    <3>3. CASE last = None
      <4>1. /\ UNCHANGED wire
            /\ \/ UNCHANGED res /\ res.err # None
               \/ \E err \in {"cooling", "unserved", "ended"} : res' = [res EXCEPT !.err = err]
        BY <2>2, <3>3 DEF AcquireFails, NothingToLease, EndWith
      <4>2. res' \in Result /\ res'.status = None /\ res'.err # None
        BY <3>1, <4>1, Names DEF Result
      <4>3. pc' = "close" /\ wire' = <<>> /\ wire' \in Seq(Answer) /\ last' = None
            /\ committed' \in BOOLEAN /\ attempt' \in Nat /\ ended' \in HowItEnds \cup {None}
        BY <3>1, <3>3, <4>1
      <4>4. QED
        BY <4>2, <4>3
    <3>4. QED
      BY <3>2, <3>3
  <2>3. ASSUME Exhausted PROVE Told'
    <3>1. pc' = "close" /\ UNCHANGED <<last, committed>> /\ wire = <<>> /\ res.status = None
          /\ (last # None \/ res.err # None) /\ attempt' \in Nat /\ ended' = ended
      BY <2>3 DEF Exhausted, Replay, history
    <3>2. CASE last # None
      <4>1. res' = [res EXCEPT !.status = last] /\ \E f \in Forms : Say(f, "upstream")
        BY <2>3, <3>2 DEF Exhausted, Replay, Forms
      <4>2. res' \in Result /\ res'.status # None
        BY <3>2, <4>1, Names DEF Result
      <4>3. QED
        BY <3>1, <4>1, <4>2, SaidLast DEF Words
    <3>3. CASE last = None /\ committed
      <4>1. res' = [res EXCEPT !.status = "bad_gateway"] /\ Say("events", "gateway")
        BY <2>3, <3>1, <3>3 DEF Exhausted
      <4>2. res' \in Result /\ res'.status # None
        BY <4>1, Names DEF Result
      <4>3. QED
        BY <3>1, <3>3, <4>1, <4>2, SaidLast DEF Forms, Words
    <3>4. CASE last = None /\ ~committed
      BY <2>3, <3>1, <3>4 DEF Exhausted
    <3>5. QED
      BY <3>2, <3>3, <3>4
  <2>4. ASSUME NetworkError PROVE Told'
    <3>1. res' \in Result /\ res'.status = res.status /\ res'.err # None
      BY <2>4, Names DEF NetworkError, Result
    <3>2. QED
      BY <2>4, <3>1 DEF NetworkError
  <2>5. ASSUME Abandoned PROVE Told'
    <3>1. res' \in Result /\ res'.status = res.status /\ res'.err # None
      BY <2>5, Names DEF Abandoned, EndWith, Result
    <3>2. ended' \in HowItEnds /\ ended' # None
      BY <2>5, Names DEF Abandoned, ContextEnds
    <3>3. QED
      BY <2>5, <3>1, <3>2 DEF Abandoned, EndWith
  <2>6. ASSUME NEW s \in Retryable, Refused(s) PROVE Told'
    <3>1. last' = s /\ s # None
      BY <2>6, Names DEF Refused
    <3>2. pc = "ask" /\ pc' \in {"acquire", "refresh"} /\ UNCHANGED <<attempt, res, committed, wire, ended>>
      BY <2>6 DEF Refused
    <3>3. QED
      BY <3>1, <3>2
  <2>7. ASSUME Repaired \/ NotRepaired PROVE Told'
    BY <2>7 DEF Repaired, NotRepaired, history
  <2>8. ASSUME NEW s \in Refusals, Final(s) PROVE Told'
    <3>1. res' \in Result /\ res'.status # None /\ res'.err = res.err
      BY <2>8, Names DEF Final, Result
    <3>2. pc = "ask" /\ UNCHANGED <<attempt, last, committed, ended>>
      BY <2>8 DEF Final
    <3>3. CASE committed
      <4>1. pc' = "close" /\ Say("events", "upstream")
        BY <2>8, <3>3 DEF Final
      <4>2. QED
        BY <3>1, <3>2, <4>1, SaidLast DEF Forms, Words
    <3>4. CASE ~committed
      BY <2>8, <3>1, <3>2, <3>4 DEF Final
    <3>5. QED
      BY <3>3, <3>4
  <2>9. ASSUME NEW s \in Answers, Answered(s) PROVE Told'
    <3>1. pc = "ask" /\ UNCHANGED <<attempt, last, committed, wire, ended>>
      BY <2>9 DEF Answered
    <3>2. \/ pc' = "hold" /\ res' = res /\ MayHold(s)
          \/ pc' = "relay" /\ res' = [res EXCEPT !.status = "ok"]
      BY <2>9 DEF Answered
    <3>3. CASE pc' = "hold" /\ res' = res /\ MayHold(s)
      BY <3>1, <3>3 DEF MayHold
    <3>4. CASE pc' = "relay" /\ res' = [res EXCEPT !.status = "ok"]
      <4>1. res' \in Result /\ res'.status # None
        BY <3>4, Names DEF Result
      <4>2. QED
        BY <3>1, <3>4, <4>1
    <3>5. QED
      BY <3>2, <3>3, <3>4
  <2>10. ASSUME HeldEvent \/ HeldTimer PROVE Told'
    <3>1. pc = "hold" /\ UNCHANGED <<attempt, last, wire, ended>> /\ committed' \in BOOLEAN
      BY <2>10 DEF HeldEvent, HeldTimer, Alive, health, history
    <3>2. UNCHANGED <<pc, res>> \/ Resend \/ Release
      BY <2>10 DEF HeldEvent, HeldTimer, Keep, Decide
    <3>3. CASE UNCHANGED <<pc, res>>
      BY <3>1, <3>3
    <3>4. CASE Resend
      <4>1. res' \in Result /\ res'.status = res.status /\ pc' = "acquire"
        BY <3>1, <3>4 DEF Resend, Result
      <4>2. QED
        BY <3>1, <4>1
    <3>5. CASE Release
      <4>1. res' \in Result /\ res'.status # None /\ pc' = "relay"
        BY <3>5, Names DEF Release, Result
      <4>2. QED
        BY <3>1, <4>1
    <3>6. QED
      BY <3>2, <3>3, <3>4, <3>5
  <2>11. ASSUME Ping \/ Tick PROVE Told'
    BY <2>11 DEF Ping, Alive, Tick, history
  <2>12. ASSUME Relayed PROVE Told'
    <3>1. pc = "relay" /\ pc' = "close" /\ wire = <<>> /\ res.status # None
          /\ UNCHANGED <<last, committed, ended>> /\ attempt' \in Nat
      BY <2>12 DEF Relayed
    <3>2. res' \in Result /\ res'.status = res.status
      BY <2>12, Names DEF Relayed, Result
    <3>3. \E f \in Forms : Say(f, "upstream")
      BY <2>12 DEF Relayed, Forms
    <3>4. QED
      BY <3>1, <3>2, <3>3, SaidLast DEF Words
  <2>13. ASSUME Close PROVE Told'
    <3>1. pc = "close" /\ pc' = "done" /\ UNCHANGED <<last, committed, res, attempt>>
      BY <2>13 DEF Close
    <3>2. CASE Unanswered
      <4>1. wire = <<>> /\ (last # None => ended # None) /\ RelayFailure
        BY <2>13, <3>1, <3>2 DEF Close, Unanswered
      <4>2. CASE ended = None /\ Say("body", "gateway") /\ UNCHANGED ended
        <5>1. wire' \in Seq(Answer) /\ Len(wire') = 1
          BY <4>1, <4>2, FirstSaid DEF Forms, Words
        <5>2. QED
          BY <3>1, <4>1, <4>2, <5>1
      <4>3. CASE UNCHANGED wire /\ ended' \in HowItEnds
        BY <3>1, <4>1, <4>3, Names
      <4>4. QED
        BY <4>1, <4>2, <4>3 DEF RelayFailure, ContextEnds
    <3>3. CASE ~Unanswered
      BY <2>13, <3>1, <3>3 DEF Close, Unanswered
    <3>4. QED
      BY <3>2, <3>3
  <2>14. ASSUME Done \/ UNCHANGED vars PROVE Told'
    BY <2>14 DEF Done, vars
  <2>15. QED
    BY <2>1, <2>2, <2>3, <2>4, <2>5, <2>6, <2>7, <2>8, <2>9, <2>10, <2>11, <2>12, <2>13, <2>14
       DEF Next
<1>3. QED
  BY <1>1, <1>2, PTL DEF Spec

\* AnsweredOnce: whatever the attempts went through, the client is given exactly
\* one answer unless it hung up or the request's own time ran out (Relay.Do,
\* relayFailure).
THEOREM AnsweredOnceHolds == Spec => []AnsweredOnce
<1>1. Told => AnsweredOnce
  <2> SUFFICES ASSUME Told PROVE AnsweredOnce
    OBVIOUS
  <2>1. wire = <<>> => Len(wire) = 0
    OBVIOUS
  <2>2. Len(wire) <= 1
    <3>1. wire = <<>> \/ Len(wire) = 1
      BY DEF Told, Phases
    <3>2. Len(wire) \in {0, 1}
      BY <2>1, <3>1
    <3>3. \A n \in {0, 1} : n <= 1
      OBVIOUS
    <3>4. QED
      BY <3>2, <3>3
  <2>3. pc \in {"acquire", "ask", "refresh", "hold"} => wire = <<>>
    BY DEF Told
  <2>4. pc = "done" => Len(wire) = 1 \/ ended # None
    BY DEF Told
  <2>5. QED
    BY <2>2, <2>3, <2>4 DEF AnsweredOnce
<1>2. QED
  BY <1>1, ToldHolds, PTL

\* UpstreamsWords: once refused by an upstream, the client is told an upstream's
\* words, never the gateway's own in their place (Relay.Do).
THEOREM UpstreamsWordsHolds == Spec => []UpstreamsWords
<1>1. Told => UpstreamsWords
  <2> SUFFICES ASSUME Told, pc = "done", last # None, Len(wire) = 1 PROVE wire[1].words = "upstream"
    BY DEF UpstreamsWords
  <2>1. Len(<<>>) = 0
    OBVIOUS
  <2>2. wire # <<>>
    BY <2>1
  <2>3. QED
    BY <2>2 DEF Told
<1>2. QED
  BY <1>1, ToldHolds, PTL

---------------------------------------------------------------------------
(* The attempts, and what the pool is told of them *)

Asking == {"ask", "refresh", "hold", "relay"}

\* The attempt under way is the last that was made.
Course ==
  /\ pc \in Phases /\ attempt \in 0..MaxAttempts /\ lease \in Accounts \cup {None}
  /\ tried \subseteq Accounts /\ refreshed \subseteq Accounts
  /\ asked \in Seq(Attempt) /\ Len(asked) <= attempt
  /\ blamed \subseteq 1..Len(asked) /\ credited \subseteq 1..Len(asked)
  /\ pc = "acquire" => Len(asked) = attempt
  /\ pc \in Asking =>
       /\ Len(asked) = attempt /\ attempt > 0
       /\ lease \in Accounts /\ asked[attempt].account = lease

\* An attempt's reply is recorded, and nothing else of the attempts changes.
LEMMA Replied ==
  ASSUME Course, pc = "ask", NEW r \in Replies, Reply(r)
  PROVE  /\ asked' \in Seq(Attempt) /\ Len(asked') = Len(asked) /\ attempt \in 1..Len(asked)
         /\ \A n \in 1..Len(asked) : asked'[n].account = asked[n].account
         /\ \A n \in 1..Len(asked) : n # attempt => asked'[n].reply = asked[n].reply
         /\ asked'[attempt].reply = r
<1>1. asked \in Seq(Attempt) /\ attempt \in 1..Len(asked)
  BY DEF Course, Asking
<1>2. QED
  BY <1>1, ReplyType

\* The steps that ask no account and hear no reply: those that end Do, those
\* that take an attempt on, and those that leave Do where it is.
LEMMA CourseEnds ==
  ASSUME Course, UNCHANGED <<asked, lease, tried, refreshed, blamed>>,
         pc' \in {"close", "done"}, attempt' \in 0..MaxAttempts, attempt' >= attempt,
         credited' \subseteq 1..Len(asked)
  PROVE  Course'
<1>1. Len(asked) \in Nat /\ attempt \in Nat
  BY LenProperties DEF Course
<1>2. QED
  BY <1>1 DEF Course, Asking, Phases

LEMMA CourseGoesOn ==
  ASSUME Course, UNCHANGED <<asked, lease, attempt, refreshed, credited>>,
         pc \in Asking, pc' \in {"acquire", "relay", "hold"},
         tried' \subseteq Accounts, blamed' \subseteq 1..Len(asked)
  PROVE  Course'
BY DEF Course, Asking, Phases

LEMMA CourseStays ==
  ASSUME Course, UNCHANGED <<pc, asked, lease, attempt, tried, refreshed, blamed, credited>>
  PROVE  Course'
BY DEF Course

LEMMA CourseHolds == Spec => []Course
<1>1. Init => Course
  <2> SUFFICES ASSUME Init PROVE Course
    OBVIOUS
  <2>1. asked = <<>> /\ Len(asked) = 0 /\ asked \in Seq(Attempt)
    BY DEF Init
  <2>2. pc = "acquire" /\ attempt = 0 /\ lease = None /\ tried = {} /\ refreshed = {}
        /\ blamed = {} /\ credited = {}
    BY DEF Init
  <2>3. QED
    BY <2>1, <2>2, RelayAssumption DEF RelayAssumption, Course, Phases, Asking
<1>2. Course /\ [Next]_vars => Course'
  <2> SUFFICES ASSUME Course, Next \/ UNCHANGED vars PROVE Course'
    OBVIOUS
  <2>0. Len(asked) \in Nat
    BY LenProperties DEF Course
  <2>t. /\ tried \subseteq Accounts /\ refreshed \subseteq Accounts /\ attempt \in 0..MaxAttempts
        /\ blamed \subseteq 1..Len(asked) /\ credited \subseteq 1..Len(asked) /\ pc \in Phases
        /\ pc \in Asking => Len(asked) = attempt /\ attempt > 0 /\ lease \in Accounts
    BY DEF Course
  <2>1. ASSUME Acquire PROVE Course'
    <3>1. PICK a \in Accounts \ tried :
            lease' = a /\ asked' = Append(asked, [account |-> a, reply |-> "waiting"])
      BY <2>1 DEF Acquire
    <3>2. asked' \in Seq(Attempt) /\ Len(asked') = Len(asked) + 1
          /\ asked'[Len(asked) + 1] = [account |-> a, reply |-> "waiting"]
      BY <3>1, AskType DEF Course
    <3>3. /\ pc' = "ask" /\ attempt' = attempt + 1 /\ attempt' \in 0..MaxAttempts
          /\ Len(asked) = attempt /\ UNCHANGED <<tried, refreshed, blamed, credited>>
      BY <2>1, RelayAssumption DEF Acquire, health, Course, RelayAssumption
    <3>4. QED
      BY <2>0, <2>t, <3>1, <3>2, <3>3 DEF Course, Phases, Asking
  <2>2. ASSUME AcquireFails PROVE Course'
    <3>1. pc' = "close" /\ attempt' = attempt + 1 /\ attempt' \in 0..MaxAttempts
          /\ UNCHANGED <<asked, lease, tried, refreshed, blamed, credited>>
      BY <2>2, <2>t, RelayAssumption
         DEF AcquireFails, NothingToLease, EndWith, Replay, health, history, RelayAssumption
    <3>2. QED
      BY <2>t, <3>1, CourseEnds
  <2>3. ASSUME Exhausted PROVE Course'
    <3>1. pc' = "close" /\ UNCHANGED <<attempt, asked, lease, tried, refreshed, blamed, credited>>
      BY <2>3 DEF Exhausted, Replay, health, history
    <3>2. QED
      BY <2>t, <3>1, CourseEnds
  <2>4. ASSUME pc = "ask", NEW r \in Replies, Reply(r), pc' \in Phases \ {"ask"},
               UNCHANGED <<attempt, lease>>, tried' \subseteq Accounts, refreshed' \subseteq Accounts,
               blamed' \subseteq blamed \cup {attempt}, credited' = credited
        PROVE  Course'
    <3>1. asked' \in Seq(Attempt) /\ Len(asked') = Len(asked) /\ attempt \in 1..Len(asked)
          /\ asked'[attempt].account = asked[attempt].account
      BY <2>4, Replied
    <3>2. asked[attempt].account = lease /\ lease \in Accounts /\ Len(asked) = attempt /\ attempt > 0
      BY <2>4 DEF Course, Asking
    <3>3. QED
      BY <2>0, <2>t, <2>4, <3>1, <3>2 DEF Course, Asking
  <2>5. ASSUME NetworkError PROVE Course'
    <3>1. /\ pc = "ask" /\ Reply("network") /\ pc' = "acquire" /\ UNCHANGED <<attempt, lease>>
          /\ tried' \subseteq Accounts /\ refreshed' \subseteq Accounts
          /\ blamed' \subseteq blamed \cup {attempt} /\ credited' = credited
      BY <2>5, <2>t DEF NetworkError, Fail, Blame, Asking
    <3>2. QED
      BY <2>4, <3>1, Names DEF Phases
  <2>6. ASSUME Abandoned PROVE Course'
    <3>1. /\ pc = "ask" /\ Reply("ended") /\ pc' = "close" /\ UNCHANGED <<attempt, lease>>
          /\ tried' \subseteq Accounts /\ refreshed' \subseteq Accounts
          /\ blamed' \subseteq blamed \cup {attempt} /\ credited' = credited
      BY <2>6, <2>t DEF Abandoned, EndWith, health
    <3>2. QED
      BY <2>4, <3>1, Names DEF Phases
  <2>7. ASSUME NEW s \in Retryable, Refused(s) PROVE Course'
    <3>1. /\ pc = "ask" /\ Reply(s) /\ pc' \in {"acquire", "refresh"} /\ UNCHANGED <<attempt, lease>>
          /\ tried' \subseteq Accounts /\ refreshed' \subseteq Accounts
          /\ blamed' \subseteq blamed \cup {attempt} /\ credited' = credited
      BY <2>7, <2>t DEF Refused, Fail, Blame, Asking
    <3>2. QED
      BY <2>4, <3>1, Names DEF Phases
  <2>8. ASSUME NEW s \in Refusals, Final(s) PROVE Course'
    <3>1. /\ pc = "ask" /\ Reply(s) /\ pc' \in {"close", "relay"} /\ UNCHANGED <<attempt, lease>>
          /\ tried' \subseteq Accounts /\ refreshed' \subseteq Accounts
          /\ blamed' \subseteq blamed \cup {attempt} /\ credited' = credited
      BY <2>8, <2>t DEF Final, Blame, health
    <3>2. QED
      BY <2>4, <3>1, Names DEF Phases
  <2>9. ASSUME NEW s \in Answers, Answered(s) PROVE Course'
    <3>1. /\ pc = "ask" /\ Reply(s) /\ pc' \in {"hold", "relay"} /\ UNCHANGED <<attempt, lease>>
          /\ tried' \subseteq Accounts /\ refreshed' \subseteq Accounts
          /\ blamed' \subseteq blamed \cup {attempt} /\ credited' = credited
      BY <2>9, <2>t DEF Answered, health
    <3>2. QED
      BY <2>4, <3>1, Names DEF Phases
  <2>10. ASSUME Repaired \/ NotRepaired PROVE Course'
    <3>1. /\ pc = "refresh" /\ pc' = "acquire" /\ UNCHANGED <<attempt, lease, asked, credited>>
          /\ blamed' \subseteq blamed \cup {attempt}
          /\ tried' \subseteq tried \cup {lease} /\ refreshed' = refreshed
      BY <2>10 DEF Repaired, NotRepaired, Fail, Blame, health, history
    <3>2. attempt \in 1..Len(asked) /\ lease \in Accounts
      BY <2>t, <3>1 DEF Asking
    <3>3. blamed' \subseteq 1..Len(asked) /\ tried' \subseteq Accounts
      BY <2>t, <3>1, <3>2
    <3>4. QED
      BY <2>t, <3>1, <3>3, CourseGoesOn DEF Asking
  <2>11. ASSUME HeldEvent \/ HeldTimer PROVE Course'
    <3>1. /\ pc = "hold" /\ UNCHANGED <<attempt, lease, asked, tried, refreshed, blamed, credited>>
          /\ pc' \in {"acquire", "relay", "hold"}
      BY <2>11 DEF HeldEvent, HeldTimer, Keep, Decide, Resend, Release, health, history
    <3>2. QED
      BY <2>t, <3>1, CourseGoesOn DEF Asking
  <2>12. ASSUME Ping \/ Tick PROVE Course'
    <3>1. UNCHANGED <<pc, attempt, lease, asked, tried, refreshed, blamed, credited>>
      BY <2>12 DEF Ping, Tick, health, history
    <3>2. QED
      BY <3>1, CourseStays
  <2>13. ASSUME Relayed PROVE Course'
    <3>1. /\ pc = "relay" /\ pc' = "close" /\ UNCHANGED <<attempt, lease, asked, tried, refreshed, blamed>>
          /\ credited' \subseteq credited \cup {attempt}
      BY <2>13 DEF Relayed, health
    <3>2. attempt \in 1..Len(asked)
      BY <2>t, <3>1 DEF Asking
    <3>3. credited' \subseteq 1..Len(asked)
      BY <2>t, <3>1, <3>2
    <3>4. QED
      BY <2>t, <3>1, <3>3, CourseEnds
  <2>14. ASSUME Close PROVE Course'
    <3>1. pc' = "done" /\ UNCHANGED <<attempt, lease, asked, tried, refreshed, blamed, credited>>
      BY <2>14 DEF Close, health, history
    <3>2. QED
      BY <2>t, <3>1, CourseEnds
  <2>15. ASSUME Done \/ UNCHANGED vars PROVE Course'
    <3>1. UNCHANGED <<pc, attempt, lease, asked, tried, refreshed, blamed, credited>>
      BY <2>15 DEF Done, vars
    <3>2. QED
      BY <3>1, CourseStays
  <2>16. QED
    BY <2>1, <2>2, <2>3, <2>5, <2>6, <2>7, <2>8, <2>9, <2>10, <2>11, <2>12, <2>13, <2>14, <2>15
       DEF Next
<1>3. QED
  BY <1>1, <1>2, PTL DEF Spec

\* Type correctness: statuses, errors, counters and histories are those of the
\* code's types, of Relay.Do, the hold and the keepalive alike.
THEOREM TypeHolds == Spec => []TypeOK
<1>1. Clocks /\ Told /\ Course => TypeOK
  BY LenProperties DEF Clocks, Told, Course, TypeOK
<1>2. QED
  BY <1>1, ClocksHold, ToldHolds, CourseHolds, PTL

---------------------------------------------------------------------------
(* Blame, and credit *)

Failures == Retryable \cup {"network"}

\* An account is blamed for failures only.
BlamedRightly == \A n \in blamed : asked[n].reply \in Failures

\* An attempt that is over and failed is blamed, or had its token refreshed.
AllAnswerFor ==
  \A n \in 1..Len(asked) : Over(n) =>
    /\ asked[n].reply \in {"limited", "network"} => n \in blamed
    /\ asked[n].reply = "unauthorized" => n \in blamed \/ asked[n].account \in refreshed

\* An account is not asked again once blamed, and a second 401 is blamed.
NotAgain ==
  \A n \in 1..Len(asked) : \A m \in 1..(n - 1) :
    /\ m \in blamed => asked[m].account # asked[n].account
    /\ /\ Over(n) /\ asked[m].account = asked[n].account
       /\ asked[m].reply = "unauthorized" /\ asked[n].reply = "unauthorized"
       => n \in blamed

\* What each place in Do implies of the attempt under way.
Underway ==
  /\ pc \in {"acquire", "ask", "refresh", "hold"} => \A n \in blamed : asked[n].account \in tried
  /\ pc \in {"ask", "refresh", "hold"} => lease \notin tried
  /\ pc = "refresh" =>
       /\ asked[attempt].reply = "unauthorized" /\ lease \in refreshed
       /\ \A m \in 1..(attempt - 1) :
            asked[m].account = lease => asked[m].reply # "unauthorized"
  /\ pc = "hold" => asked[attempt].reply \in Answers
  /\ pc = "relay" =>
       /\ asked[attempt].reply \in Failures => attempt \in blamed
       /\ res.status = "ok" => asked[attempt].reply \in Answers

\* The credit goes to the attempt whose answer was relayed.
CreditedRightly ==
  /\ pc \in {"acquire", "ask", "refresh", "hold", "relay"} => credited = {}
  /\ \A n \in credited : n = Len(asked) /\ asked[n].reply \in Answers

Fair == BlamedRightly /\ AllAnswerFor /\ NotAgain /\ Underway /\ CreditedRightly

\* The attempt under way is neither blamed nor over.
LastIsNew ==
  /\ attempt \notin blamed /\ attempt = Len(asked) /\ attempt \in 1..Len(asked)
  /\ asked[attempt].account = lease /\ Len(asked) \in Nat
  /\ \A n \in 1..Len(asked) : n # attempt => Over(n)
  /\ \A m \in blamed : asked[m].account # lease

LEMMA UnderwayIsNew ==
  ASSUME Course, Fair, pc \in {"ask", "refresh", "hold"}
  PROVE  LastIsNew
<1>1. /\ Len(asked) \in Nat /\ attempt = Len(asked) /\ attempt > 0
      /\ asked[attempt].account = lease /\ attempt \in Nat
  BY LenProperties DEF Course, Asking
<1>2. lease \notin tried /\ \A n \in blamed : asked[n].account \in tried
  BY DEF Fair, Underway
<1>3. \A m \in blamed : asked[m].account # lease
  BY <1>2
<1>4. attempt \notin blamed /\ attempt \in 1..Len(asked)
  BY <1>1, <1>3
<1>5. \A n \in 1..Len(asked) : n # attempt => Over(n)
  BY <1>1 DEF Over
<1>6. QED
  BY <1>1, <1>3, <1>4, <1>5 DEF LastIsNew

\* What the steps that hear a reply do with it: blame the attempt or not, pass
\* the account over or not, refresh its token or not.
Hears(r) ==
  /\ pc = "ask" /\ Reply(r) /\ UNCHANGED <<lease, attempt, credited>>
  /\ pc' \in {"acquire", "refresh", "hold", "relay", "close"}
  /\ blamed' = blamed \/ (blamed' = blamed \cup {attempt} /\ r \in Failures)
  /\ r \in {"limited", "network"} => attempt \in blamed'
  /\ r = "unauthorized" => attempt \in blamed' \/ pc' = "refresh"
  /\ refreshed \subseteq refreshed'
  /\ pc' = "acquire" => tried' = tried \cup {lease}
  /\ pc' \in {"refresh", "hold"} => tried' = tried /\ blamed' = blamed
  /\ pc' = "refresh" => r = "unauthorized" /\ lease \notin refreshed /\ lease \in refreshed'
  /\ pc' = "hold" => r \in Answers
  /\ pc' = "relay" => (res'.status = "ok" => r \in Answers)

LEMMA FairReply ==
  ASSUME Course, Fair, NEW r \in Replies, Hears(r)
  PROVE  Fair'
<1> USE DEF Hears
<1>1. /\ Len(asked') = Len(asked)
      /\ \A n \in 1..Len(asked) : asked'[n].account = asked[n].account
      /\ \A n \in 1..Len(asked) : n # attempt => asked'[n].reply = asked[n].reply
      /\ asked'[attempt].reply = r
  BY Replied
<1>2. /\ attempt \notin blamed /\ attempt = Len(asked) /\ attempt \in 1..Len(asked)
      /\ asked[attempt].account = lease /\ Len(asked) \in Nat
      /\ \A n \in 1..Len(asked) : n # attempt => Over(n)
      /\ \A m \in blamed : asked[m].account # lease
  <2>1. pc \in {"ask", "refresh", "hold"}
    OBVIOUS
  <2>2. QED
    BY <2>1, UnderwayIsNew DEF LastIsNew
<1>3. blamed \subseteq 1..Len(asked) /\ credited = {}
  BY DEF Course, Fair, CreditedRightly
<1>4. BlamedRightly'
  BY <1>1, <1>2, <1>3 DEF Fair, BlamedRightly
<1>5. AllAnswerFor'
  <2> SUFFICES ASSUME NEW n \in 1..Len(asked), Over(n)'
               PROVE  /\ asked'[n].reply \in {"limited", "network"} => n \in blamed'
                      /\ asked'[n].reply = "unauthorized" =>
                           n \in blamed' \/ asked'[n].account \in refreshed'
    BY <1>1 DEF AllAnswerFor
  <2>1. CASE n # attempt
    <3>1. /\ asked[n].reply \in {"limited", "network"} => n \in blamed
          /\ asked[n].reply = "unauthorized" => n \in blamed \/ asked[n].account \in refreshed
      BY <1>2, <2>1 DEF Fair, AllAnswerFor
    <3>2. QED
      BY <1>1, <2>1, <3>1
  <2>2. CASE n = attempt
    BY <1>1, <1>2, <2>2
  <2>3. QED
    BY <2>1, <2>2
<1>6. NotAgain'
  <2> SUFFICES ASSUME NEW n \in 1..Len(asked), NEW m \in 1..(n - 1)
               PROVE  /\ m \in blamed' => asked'[m].account # asked'[n].account
                      /\ /\ Over(n)' /\ asked'[m].account = asked'[n].account
                         /\ asked'[m].reply = "unauthorized" /\ asked'[n].reply = "unauthorized"
                         => n \in blamed'
    BY <1>1 DEF NotAgain
  <2>1. m \in 1..Len(asked) /\ m # attempt
    BY <1>2
  <2>2. m \in blamed => asked[m].account # asked[n].account
    BY DEF Fair, NotAgain
  <2>3. m \in blamed' => asked'[m].account # asked'[n].account
    BY <1>1, <2>1, <2>2
  <2>4. CASE n # attempt
    BY <1>1, <1>2, <2>1, <2>3, <2>4 DEF Fair, NotAgain
  <2>5. CASE n = attempt
    <3>1. Over(n)' => pc' # "refresh"
      BY <1>1, <1>2, <2>5 DEF Over
    <3>2. QED
      BY <1>1, <2>3, <2>5, <3>1
  <2>6. QED
    BY <2>4, <2>5
<1>7. Underway'
  <2>1. pc' \in {"acquire", "refresh", "hold"} => \A n \in blamed' : asked'[n].account \in tried'
    <3>1. \A n \in blamed : asked[n].account \in tried
      BY DEF Fair, Underway
    <3>2. QED
      BY <1>1, <1>2, <1>3, <3>1
  <2>2. pc' \in {"refresh", "hold"} => lease' \notin tried'
    BY DEF Fair, Underway
  <2>3. ASSUME pc' = "refresh", NEW m \in 1..(attempt - 1), asked[m].account = lease
        PROVE  asked'[m].reply # "unauthorized"
    <3>1. m \in 1..Len(asked) /\ m # attempt /\ Over(m) /\ m \notin blamed
      BY <1>2, <2>3
    <3>2. asked[m].reply # "unauthorized"
      BY <2>3, <3>1 DEF Fair, AllAnswerFor
    <3>3. QED
      BY <1>1, <3>1, <3>2
  <2>4. \A m \in 1..(attempt - 1) : asked'[m].account = asked[m].account
    BY <1>1, <1>2
  <2>5. pc' = "relay" => (r \in Failures => attempt \in blamed')
    BY DEF Failures, Retryable
  <2>6. pc' # "ask"
    OBVIOUS
  <2>7. QED
    BY <1>1, <2>1, <2>2, <2>3, <2>4, <2>5, <2>6 DEF Underway
<1>8. CreditedRightly'
  BY <1>3 DEF CreditedRightly
<1>9. QED
  BY <1>4, <1>5, <1>6, <1>7, <1>8 DEF Fair

\* Where every attempt is over before and after, or the last is still not.
LEMMA FairStays ==
  ASSUME Course, Fair, UNCHANGED <<asked, attempt, lease, tried, refreshed, blamed, credited, res>>,
         pc' = pc
  PROVE  Fair'
BY DEF Fair, BlamedRightly, AllAnswerFor, NotAgain, Underway, CreditedRightly, Over

LEMMA FairEnds ==
  ASSUME Course, Fair, UNCHANGED <<asked, refreshed, blamed, credited>>,
         (pc = "acquire" /\ pc' = "close") \/ (pc = "close" /\ pc' = "done")
  PROVE  Fair'
<1>1. \A n \in 1..Len(asked) : Over(n)
  BY DEF Over
<1>2. BlamedRightly' /\ AllAnswerFor' /\ NotAgain'
  BY <1>1 DEF Fair, BlamedRightly, AllAnswerFor, NotAgain
<1>3. Underway' /\ CreditedRightly'
  BY DEF Fair, Underway, CreditedRightly
<1>4. QED
  BY <1>2, <1>3 DEF Fair

LEMMA FairAcquire ==
  ASSUME Course, Fair, Acquire
  PROVE  Fair'
<1>1. PICK a \in Accounts \ tried :
        lease' = a /\ asked' = Append(asked, [account |-> a, reply |-> "waiting"])
  BY DEF Acquire
<1>2. /\ asked' \in Seq(Attempt) /\ Len(asked') = Len(asked) + 1
      /\ \A n \in 1..Len(asked) : asked'[n] = asked[n]
      /\ asked'[Len(asked) + 1] = [account |-> a, reply |-> "waiting"]
  BY <1>1, AskType DEF Course
<1>3. /\ pc = "acquire" /\ pc' = "ask" /\ UNCHANGED <<tried, refreshed, blamed, credited>>
      /\ attempt' = attempt + 1 /\ attempt = Len(asked) /\ Len(asked) \in Nat
  BY LenProperties DEF Acquire, Course, health
<1>4. blamed \subseteq 1..Len(asked) /\ credited = {}
      /\ \A n \in blamed : asked[n].account \in tried
  BY <1>3 DEF Course, Fair, Underway, CreditedRightly
<1>5. \A n \in 1..Len(asked') : Over(n)' => n \in 1..Len(asked) /\ Over(n)
  BY <1>2, <1>3 DEF Over
<1>6. BlamedRightly'
  BY <1>2, <1>3, <1>4 DEF Fair, BlamedRightly
<1>7. AllAnswerFor'
  BY <1>2, <1>3, <1>5 DEF Fair, AllAnswerFor
<1>8. NotAgain'
  <2> SUFFICES ASSUME NEW n \in 1..Len(asked'), NEW m \in 1..(n - 1)
               PROVE  /\ m \in blamed' => asked'[m].account # asked'[n].account
                      /\ /\ Over(n)' /\ asked'[m].account = asked'[n].account
                         /\ asked'[m].reply = "unauthorized" /\ asked'[n].reply = "unauthorized"
                         => n \in blamed'
    BY DEF NotAgain
  <2>1. m \in 1..Len(asked) /\ asked'[m] = asked[m]
    BY <1>2, <1>3
  <2>2. CASE n \in 1..Len(asked)
    <3>1. asked'[n] = asked[n] /\ Over(n)
      BY <1>2, <1>3, <2>2 DEF Over
    <3>2. QED
      BY <1>3, <2>1, <2>2, <3>1 DEF Fair, NotAgain
  <2>3. CASE n = Len(asked) + 1
    BY <1>1, <1>2, <1>3, <1>4, <1>5, <2>1, <2>3
  <2>4. QED
    BY <1>2, <1>3, <2>2, <2>3
<1>9. Underway'
  BY <1>1, <1>2, <1>3, <1>4 DEF Underway
<1>10. CreditedRightly'
  BY <1>3, <1>4 DEF CreditedRightly
<1>11. QED
  BY <1>6, <1>7, <1>8, <1>9, <1>10 DEF Fair

\* An attempt that a refresh or a hold gave up, or took on to the relay.
LEMMA FairHeld ==
  ASSUME Course, Fair, pc = "hold", UNCHANGED <<asked, attempt, lease, tried, refreshed, blamed, credited>>,
         pc' \in {"acquire", "relay"}
  PROVE  Fair'
<1>1. asked[attempt].reply \in Answers
  BY DEF Fair, Underway
<1>2. attempt = Len(asked) /\ \A n \in 1..Len(asked) : n # attempt => Over(n)
  <2>1. pc \in {"ask", "refresh", "hold"}
    OBVIOUS
  <2>2. QED
    BY <2>1, UnderwayIsNew DEF LastIsNew
<1>3. asked[attempt].reply \notin Failures \cup {"limited", "network", "unauthorized"}
  BY <1>1 DEF Failures, Retryable, Answers
<1>4. BlamedRightly' /\ CreditedRightly'
  BY DEF Fair, BlamedRightly, CreditedRightly
<1>5. AllAnswerFor' /\ NotAgain'
  BY <1>2, <1>3 DEF Fair, AllAnswerFor, NotAgain
<1>6. Underway'
  BY <1>1, <1>3 DEF Fair, Underway
<1>7. QED
  BY <1>4, <1>5, <1>6 DEF Fair

LEMMA FairRefreshed ==
  ASSUME Course, Fair, pc = "refresh", pc' = "acquire", UNCHANGED <<asked, refreshed, credited>>,
         \/ UNCHANGED <<blamed, tried>>
         \/ blamed' = blamed \cup {attempt} /\ tried' = tried \cup {lease}
  PROVE  Fair'
<1>1. /\ attempt \notin blamed /\ attempt = Len(asked) /\ attempt \in 1..Len(asked)
      /\ asked[attempt].account = lease /\ Len(asked) \in Nat
      /\ \A n \in 1..Len(asked) : n # attempt => Over(n)
      /\ \A m \in blamed : asked[m].account # lease
  <2>1. pc \in {"ask", "refresh", "hold"}
    OBVIOUS
  <2>2. QED
    BY <2>1, UnderwayIsNew DEF LastIsNew
<1>2. /\ asked[attempt].reply = "unauthorized" /\ lease \in refreshed
      /\ \A m \in 1..(attempt - 1) : asked[m].account = lease => asked[m].reply # "unauthorized"
  BY DEF Fair, Underway
<1>3. BlamedRightly' /\ CreditedRightly'
  BY <1>1, <1>2 DEF Fair, BlamedRightly, CreditedRightly, Failures, Retryable
<1>4. AllAnswerFor'
  BY <1>1, <1>2 DEF Fair, AllAnswerFor
<1>5. NotAgain'
  <2> SUFFICES ASSUME NEW n \in 1..Len(asked), NEW m \in 1..(n - 1)
               PROVE  /\ m \in blamed' => asked[m].account # asked[n].account
                      /\ /\ asked[m].account = asked[n].account
                         /\ asked[m].reply = "unauthorized" /\ asked[n].reply = "unauthorized"
                         => n \in blamed'
    BY DEF NotAgain
  <2>1. m # attempt
    BY <1>1
  <2>2. m \in blamed' => asked[m].account # asked[n].account
    BY <2>1 DEF Fair, NotAgain
  <2>3. CASE n = attempt
    BY <1>1, <1>2, <2>2, <2>3
  <2>4. CASE n # attempt
    BY <1>1, <2>2, <2>4 DEF Fair, NotAgain
  <2>5. QED
    BY <2>3, <2>4
<1>6. Underway'
  BY <1>1 DEF Fair, Underway
<1>7. QED
  BY <1>3, <1>4, <1>5, <1>6 DEF Fair

LEMMA FairRelayed ==
  ASSUME Course, Fair, pc = "relay", pc' = "close", UNCHANGED <<asked, refreshed, blamed>>,
         credited' = credited \/ (res.status = "ok" /\ credited' = credited \cup {attempt})
  PROVE  Fair'
<1>1. attempt = Len(asked) /\ attempt \in 1..Len(asked) /\ credited = {}
  BY DEF Course, Asking, Fair, CreditedRightly
<1>2. /\ asked[attempt].reply \in Failures => attempt \in blamed
      /\ res.status = "ok" => asked[attempt].reply \in Answers
  BY DEF Fair, Underway
<1>3. \A n \in 1..Len(asked) : n # attempt => Over(n)
  BY <1>1 DEF Over, Course
<1>4. BlamedRightly' /\ Underway'
  BY DEF Fair, BlamedRightly, Underway
<1>5. AllAnswerFor' /\ NotAgain'
  BY <1>1, <1>2, <1>3 DEF Fair, AllAnswerFor, NotAgain, Failures, Retryable
<1>6. CreditedRightly'
  BY <1>1, <1>2 DEF CreditedRightly
<1>7. QED
  BY <1>4, <1>5, <1>6 DEF Fair

LEMMA FairHolds == Spec => []Fair
<1>1. Init => Fair
  <2> SUFFICES ASSUME Init PROVE Fair
    OBVIOUS
  <2>1. Len(asked) = 0 /\ pc = "acquire" /\ blamed = {} /\ credited = {}
    BY DEF Init
  <2>2. QED
    BY <2>1 DEF Fair, BlamedRightly, AllAnswerFor, NotAgain, Underway, CreditedRightly
<1>2. Told /\ Course /\ Fair /\ [Next]_vars => Fair'
  <2> SUFFICES ASSUME Told, Course, Fair, Next \/ UNCHANGED vars PROVE Fair'
    OBVIOUS
  <2>r. res \in Result /\ (pc = "ask" => res.status = None)
    BY DEF Told
  <2>1. ASSUME AcquireFails \/ Exhausted \/ Close PROVE Fair'
    <3>1. AcquireFails \/ Exhausted => pc = "acquire" /\ pc' = "close"
      BY DEF AcquireFails, NothingToLease, EndWith, Replay, Exhausted
    <3>2. Close => pc = "close" /\ pc' = "done"
      BY DEF Close
    <3>3. UNCHANGED <<asked, refreshed, blamed, credited>>
      BY <2>1 DEF AcquireFails, Exhausted, Close, health, history
    <3>4. (pc = "acquire" /\ pc' = "close") \/ (pc = "close" /\ pc' = "done")
      BY <2>1, <3>1, <3>2
    <3>5. QED
      BY <3>3, <3>4, FairEnds
  <2>2. ASSUME NetworkError PROVE Fair'
    <3>1. Hears("network") /\ "network" \in Replies
      BY <2>2, Names DEF NetworkError, Fail, Blame, Failures, Hears
    <3>2. QED
      BY <3>1, FairReply
  <2>3. ASSUME Abandoned PROVE Fair'
    <3>1. /\ pc = "ask" /\ Reply("ended") /\ pc' = "close" /\ "ended" \in Replies
          /\ UNCHANGED <<lease, attempt, credited, refreshed, blamed>>
      BY <2>3, Names DEF Abandoned, EndWith, health
    <3>2. Hears("ended")
      BY <3>1 DEF Hears
    <3>3. QED
      BY <3>1, <3>2, FairReply
  <2>4. ASSUME NEW s \in Retryable, Refused(s) PROVE Fair'
    <3>1. pc = "ask" /\ Reply(s) /\ UNCHANGED <<lease, attempt, credited>> /\ s \in Replies /\ s \in Failures
      BY <2>4, Names DEF Refused, Fail, Blame, Failures
    <3>2. CASE s = "unauthorized" /\ lease \notin refreshed
      <4>1. /\ refreshed' = refreshed \cup {lease} /\ pc' = "refresh"
            /\ UNCHANGED <<blamed, tried>>
        BY <2>4, <3>2 DEF Refused
      <4>2. Hears(s)
        BY <3>1, <3>2, <4>1 DEF Hears
      <4>3. QED
        BY <3>1, <4>2, FairReply
    <3>3. CASE s # "unauthorized" \/ lease \in refreshed
      <4>1. Fail /\ pc' = "acquire"
        BY <2>4, <3>3 DEF Refused
      <4>2. blamed' = blamed \cup {attempt} /\ tried' = tried \cup {lease} /\ refreshed' = refreshed
        BY <4>1 DEF Fail, Blame
      <4>3. Hears(s)
        BY <3>1, <4>1, <4>2 DEF Hears
      <4>4. QED
        BY <3>1, <4>3, FairReply
    <3>4. QED
      BY <3>2, <3>3
  <2>5. ASSUME Repaired \/ NotRepaired PROVE Fair'
    BY <2>5, FairRefreshed DEF Repaired, NotRepaired, Fail, Blame, health, history
  <2>6. ASSUME NEW s \in Refusals, Final(s) PROVE Fair'
    <3>1. /\ pc = "ask" /\ Reply(s) /\ UNCHANGED <<lease, attempt, credited, refreshed>>
          /\ s \in Replies /\ pc' \in {"close", "relay"}
          /\ blamed' = (IF s \in Retryable THEN blamed \cup {attempt} ELSE blamed)
      BY <2>6, Names DEF Final, Blame, health
    <3>2. res'.status # "ok"
      <4>1. res' = [res EXCEPT !.status = s]
        BY <2>6 DEF Final
      <4>2. s # "ok"
        BY DEF Refusals, Retryable
      <4>3. QED
        BY <2>r, <4>1, <4>2 DEF Result
    <3>3. CASE s \in Retryable
      <4>1. blamed' = blamed \cup {attempt} /\ s \in Failures /\ attempt \in blamed'
        BY <3>1, <3>3 DEF Failures
      <4>2. Hears(s)
        BY <3>1, <3>2, <4>1 DEF Hears
      <4>3. QED
        BY <3>1, <4>2, FairReply
    <3>4. CASE s \notin Retryable
      <4>1. blamed' = blamed /\ s \notin {"limited", "network", "unauthorized"}
        BY <3>1, <3>4 DEF Refusals, Retryable
      <4>2. Hears(s)
        BY <3>1, <3>2, <4>1 DEF Hears
      <4>3. QED
        BY <3>1, <4>2, FairReply
    <3>5. QED
      BY <3>3, <3>4
  <2>7. ASSUME NEW s \in Answers, Answered(s) PROVE Fair'
    <3>1. /\ pc = "ask" /\ Reply(s) /\ UNCHANGED <<lease, attempt, credited, refreshed, tried, blamed>>
          /\ s \in Replies /\ pc' \in {"hold", "relay"}
      BY <2>7, Names DEF Answered, health
    <3>2. s # "limited" /\ s # "network" /\ s # "unauthorized"
      BY DEF Answers
    <3>3. Hears(s)
      BY <3>1, <3>2 DEF Hears
    <3>4. QED
      BY <3>1, <3>3, FairReply
  <2>8. ASSUME HeldEvent \/ HeldTimer PROVE Fair'
    <3>1. pc = "hold" /\ UNCHANGED <<asked, attempt, lease, tried, refreshed, blamed, credited>>
      BY <2>8 DEF HeldEvent, HeldTimer, health, history
    <3>2. UNCHANGED <<pc, res>> \/ pc' \in {"acquire", "relay"}
      BY <2>8 DEF HeldEvent, HeldTimer, Keep, Decide, Resend, Release
    <3>3. QED
      BY <3>1, <3>2, FairStays, FairHeld
  <2>9. ASSUME Ping \/ Tick \/ Done \/ UNCHANGED vars PROVE Fair'
    <3>1. UNCHANGED <<asked, attempt, lease, tried, refreshed, blamed, credited, res>> /\ pc' = pc
      BY <2>9 DEF Ping, Tick, Done, vars, health, history
    <3>2. QED
      BY <3>1, FairStays
  <2>10. ASSUME Relayed PROVE Fair'
    <3>1. /\ pc = "relay" /\ pc' = "close" /\ UNCHANGED <<asked, refreshed, blamed>>
          /\ credited' = credited \/ (res.status = "ok" /\ credited' = credited \cup {attempt})
      <4>1. pc = "relay" /\ pc' = "close" /\ UNCHANGED <<asked, refreshed, blamed>>
        BY <2>10 DEF Relayed, health
      <4>2. PICK readable \in BOOLEAN : credited' =
              IF res.status = "ok" /\ readable THEN credited \cup {attempt} ELSE credited
        BY <2>10 DEF Relayed
      <4>3. CASE res.status = "ok" /\ readable
        BY <4>1, <4>2, <4>3
      <4>4. CASE ~readable
        BY <4>1, <4>2, <4>4
      <4>5. CASE res.status # "ok"
        BY <4>1, <4>2, <4>5
      <4>6. QED
        BY <4>3, <4>4, <4>5
    <3>2. QED
      BY <3>1, FairRelayed
  <2>11. QED
    BY <2>1, <2>2, <2>3, <2>4, <2>5, <2>6, <2>7, <2>8, <2>9, <2>10, FairAcquire DEF Next
<1>3. QED
  BY <1>1, <1>2, ToldHolds, CourseHolds, PTL DEF Spec

\* FairBlame: every attempt that is over is reported to the pool for what it was,
\* with any accounts and however many attempts (Relay.Do, Relay.report).
THEOREM FairBlameHolds == Spec => []FairBlame
<1>1. Course /\ Fair => FairBlame
  <2> SUFFICES ASSUME Course, Fair PROVE FairBlame
    OBVIOUS
  <2>1. \A n \in blamed : asked[n].reply \in Retryable \cup {"network"}
    BY DEF Fair, BlamedRightly, Failures
  <2>2. ASSUME NEW n \in 1..Len(asked), Over(n)
        PROVE  /\ asked[n].reply \in {"limited", "network"} => n \in blamed
               /\ \A m \in 1..(n - 1) :
                    /\ m \in blamed => asked[m].account # asked[n].account
                    /\ asked[m] = asked[n] /\ asked[n].reply = "unauthorized" => n \in blamed
    BY <2>2 DEF Fair, AllAnswerFor, NotAgain
  <2>3. ASSUME NEW n \in credited
        PROVE  n \notin blamed /\ n = Len(asked) /\ asked[n].reply \in Answers
    BY <2>1 DEF Fair, CreditedRightly, Answers, Retryable
  <2>4. QED
    BY <2>1, <2>2, <2>3 DEF FairBlame
<1>2. QED
  BY <1>1, CourseHolds, FairHolds, PTL

\* What a request is answered with: exactly one answer, and the upstream's own
\* once one has refused it (Relay.Do).
THEOREM AnsweredRightHolds == Spec => []AnsweredRight
  BY AnsweredOnceHolds, UpstreamsWordsHolds, PTL DEF AnsweredRight

\* How long a client waits: the hold and the keepalive keep to their times
\* (keepalive, holdUntilContent).
THEOREM NeverKeptWaitingHolds == Spec => []NeverKeptWaiting
  BY HoldBoundedHolds, NotSilentHolds, PTL DEF NeverKeptWaiting
=============================================================================
