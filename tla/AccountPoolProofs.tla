-------------------------- MODULE AccountPoolProofs --------------------------
(***************************************************************************)
(* What AccountPool keeps for any number of accounts, requests, models and *)
(* attempts, any backoff, and any length of time; and what Inference does  *)
(* of a request that leases from it, for any requests and whatever the     *)
(* operator changes under them.                                            *)
(***************************************************************************)
EXTENDS AccountPool, Inference, LoopProofs, SequenceTheorems, FiniteSetTheorems, TLAPS

-----------------------------------------------------------------------------
(* Choosing among accounts *)

LEMMA DoublingIsNatural == \A k \in 0 .. 16 : 2 ^ k \in Nat
<1>1. 2 ^ 0 \in Nat /\ 2 ^ 1 \in Nat /\ 2 ^ 2 \in Nat /\ 2 ^ 3 \in Nat /\ 2 ^ 4 \in Nat
  BY SMT
<1>2. 2 ^ 5 \in Nat /\ 2 ^ 6 \in Nat /\ 2 ^ 7 \in Nat /\ 2 ^ 8 \in Nat /\ 2 ^ 9 \in Nat
  BY SMT
<1>3. 2 ^ 10 \in Nat /\ 2 ^ 11 \in Nat /\ 2 ^ 12 \in Nat /\ 2 ^ 13 \in Nat
  BY SMT
<1>4. 2 ^ 14 \in Nat /\ 2 ^ 15 \in Nat /\ 2 ^ 16 \in Nat
  BY SMT
<1>5. \A k \in 0 .. 16 :
        k \in {0, 1, 2, 3, 4, 5, 6, 7, 8, 9, 10, 11, 12, 13, 14, 15, 16}
  OBVIOUS
<1>. QED
  BY <1>1, <1>2, <1>3, <1>4, <1>5, Zenon

\* A wait is never longer than an upstream is believed about.
LEMMA WaitType ==
  ASSUME NEW kind \in Kind, NEW count \in 1 .. MaxFailures, NEW reset \in Nat
  PROVE  Wait(kind, count, reset) \in 0 .. MaxReported
<1> DEFINE shift   == MinOf(count - 1, 16)
           backoff == MinOf(Backoff[kind].base * 2 ^ shift, Backoff[kind].max)
<1>1. shift \in 0 .. 16
  BY PoolAssumption DEF PoolAssumption, MinOf
<1>2. 2 ^ shift \in Nat
  BY <1>1, DoublingIsNatural
<1>3. /\ Backoff[kind].base \in Nat /\ Backoff[kind].max \in Nat
      /\ Backoff[kind].max <= MaxReported /\ MaxReported \in Nat
  BY PoolAssumption DEF PoolAssumption
<1> HIDE DEF shift
<1>4. Backoff[kind].base * 2 ^ shift \in Nat
  BY <1>2, <1>3
<1>5. backoff \in 0 .. MaxReported
  BY <1>3, <1>4 DEF MinOf
<1>6. Wait(kind, count, reset) = IF reset > backoff THEN MinOf(reset, MaxReported) ELSE backoff
  BY DEF Wait, shift
<1> HIDE DEF backoff
<1>. QED
  BY <1>3, <1>5, <1>6 DEF MinOf

\* ... and longer than the longest backoff only when the upstream said so.
LEMMA WaitOfWhom ==
  ASSUME NEW kind \in Kind, NEW count \in 1 .. MaxFailures, NEW reset \in Nat
  PROVE  Wait(kind, count, reset) <= Backoff[kind].max \/ Wait(kind, count, reset) <= reset
<1> DEFINE doubled == Backoff[kind].base * 2 ^ MinOf(count - 1, 16)
           backoff == MinOf(doubled, Backoff[kind].max)
<1>1. MinOf(count - 1, 16) \in 0 .. 16
  BY PoolAssumption DEF PoolAssumption, MinOf
<1>2. 2 ^ MinOf(count - 1, 16) \in Nat
  BY <1>1, DoublingIsNatural
<1>3. Backoff[kind].base \in Nat /\ Backoff[kind].max \in Nat /\ MaxReported \in Nat
  BY PoolAssumption DEF PoolAssumption
<1>4. doubled \in Nat
  BY <1>2, <1>3
<1> HIDE DEF doubled
<1>5. backoff \in Nat /\ backoff <= Backoff[kind].max
  BY <1>3, <1>4 DEF MinOf
<1>6. Wait(kind, count, reset) = IF reset > backoff THEN MinOf(reset, MaxReported) ELSE backoff
  BY DEF Wait, doubled
<1> HIDE DEF backoff
<1>. QED
  BY <1>3, <1>5, <1>6 DEF MinOf

LEMMA ModelsOfWanted ==
  ASSUME NEW w \in Wanted \union {<<>>}
  PROVE  w \in Seq(Model)
<1>1. <<>> \in Seq(Model)
  OBVIOUS
<1>2. \A v \in Wanted : v \in Seq(Model)
  BY PoolAssumption DEF PoolAssumption
<1>. QED
  BY <1>1, <1>2

\* Best is one of the models asked for, or none of them.
LEMMA BestServes ==
  ASSUME NEW w \in Seq(Model), NEW a \in Account
  PROVE  /\ Best(a, w) \in Model \union {NoModel}
         /\ Best(a, w) # NoModel => \E i \in DOMAIN w : w[i] = Best(a, w)
<1> DEFINE has   == {i \in DOMAIN w : w[i] \in Offers[a]}
           works == {i \in has : <<a, w[i]>> \notin failing}
           Newest(S) == CHOOSE i \in S : \A j \in S : i <= j
<1>1. ASSUME NEW S \in SUBSET (DOMAIN w), S # {}
      PROVE  Newest(S) \in DOMAIN w
  <2>1. S \in SUBSET Nat
    OBVIOUS
  <2>. QED
    BY <1>1, <2>1, LeastNumber
<1>2. works \in SUBSET (DOMAIN w) /\ has \in SUBSET (DOMAIN w)
  OBVIOUS
<1>3. Best(a, w) = IF works # {} THEN w[Newest(works)]
                   ELSE IF has # {} THEN w[Newest(has)] ELSE NoModel
  BY Zenon DEF Best
<1> HIDE DEF Newest, works, has
<1>4. CASE works # {}
  BY <1>1, <1>2, <1>3, <1>4
<1>5. CASE works = {} /\ has # {}
  BY <1>1, <1>2, <1>3, <1>5
<1>6. CASE works = {} /\ has = {}
  BY <1>3, <1>6
<1>. QED
  BY <1>4, <1>5, <1>6

\* What is known of the accounts a request may be given.
Offered(c, w) ==
  /\ c.set \subseteq Account
  /\ \A a \in c.set : \E i \in DOMAIN w : w[i] = c.serves[a]

LEMMA CandidatesOffered ==
  ASSUME NEW w \in Seq(Model), NEW without
  PROVE  Offered(Candidates(w, without), w)
BY BestServes DEF Candidates, Offered

LEMMA RankType ==
  ASSUME NEW w \in Seq(Model), NEW m, \E i \in DOMAIN w : w[i] = m
  PROVE  Rank(m, w) \in Nat
<1> DEFINE places == {i \in DOMAIN w : w[i] = m}
<1>1. places \in SUBSET Nat /\ places # {}
  OBVIOUS
<1>2. PICK n \in places : \A k \in places : n <= k
  BY <1>1, LeastNumber
<1>3. n \in DOMAIN w /\ w[n] = m /\ \A j \in 1 .. n - 1 : w[j] # m
  BY <1>2
<1>. QED
  BY <1>3 DEF Rank

\* The order of candidates has a first.
LEMMA FirstIsOne ==
  ASSUME NEW w \in Seq(Model), NEW c, Offered(c, w), NEW S, S \subseteq c.set, S # {}
  PROVE  First(c, w, S) \in S
<1> DEFINE rank(a) == Rank(c.serves[a], w)
           ranks   == {rank(a) : a \in S}
<1>1. \A a \in S : rank(a) \in Nat
  BY RankType DEF Offered
<1>2. ranks \in SUBSET Nat /\ ranks # {}
  BY <1>1
<1>3. PICK n \in ranks : \A k \in ranks : n <= k
  <2> HIDE DEF ranks
  <2>. QED
    BY <1>2, LeastNumber
<1> DEFINE best == {a \in S : rank(a) = n}
<1>4. best \in SUBSET Nat /\ best # {}
  BY <1>3 DEF Offered, Account
<1>5. PICK a \in best : \A b \in best : a <= b
  <2> HIDE DEF best
  <2>. QED
    BY <1>4, LeastNumber
<1>6. n \in Nat
  BY <1>2, <1>3
<1>7. ASSUME NEW b \in S
      PROVE  Precedes(c, w, a, b)
  <2>1. rank(a) = n /\ rank(b) \in Nat /\ n <= rank(b)
    BY <1>1, <1>3, <1>5
  <2>2. CASE rank(b) = n
    <3>1. a <= b
      BY <1>5, <2>2
    <3>. QED
      BY <2>1, <2>2, <3>1 DEF Precedes
  <2>3. CASE rank(b) # n
    <3>1. rank(a) < rank(b)
      BY <1>6, <2>1, <2>3
    <3>. QED
      BY <3>1 DEF Precedes
  <2>. QED
    BY <2>2, <2>3
<1>8. a \in S
  BY <1>5
<1>. QED
  BY <1>7, <1>8 DEF First

-----------------------------------------------------------------------------
(* The account picked *)

LEMMA BackType ==
  ASSUME TypeOK, NEW w \in Seq(Model), NEW c, Offered(c, w), NEW a \in c.set
  PROVE  /\ cool[a] \in Nat /\ hold[a][c.serves[a]] \in Nat
         /\ Back(c, a) \in Nat
<1>1. a \in Account /\ c.serves[a] \in Model
  BY DEF Offered
<1>2. cool[a] \in Nat /\ hold[a][c.serves[a]] \in Nat
  BY <1>1 DEF TypeOK
<1>. QED
  BY <1>2 DEF Back, Until, MaxOf

\* From now on, an account sits a model out for as long as Back says.
LEMMA RestingUntilBack ==
  ASSUME TypeOK, NEW w \in Seq(Model), NEW c, Offered(c, w), NEW a \in c.set,
         NEW t \in Nat, now <= t
  PROVE  Resting(c, a, t) <=> t < Back(c, a)
<1>1. cool[a] \in Nat /\ hold[a][c.serves[a]] \in Nat /\ now \in Nat
  BY BackType DEF TypeOK
<1>. QED
  BY <1>1 DEF Resting, Back, Until, MaxOf

\* What HealthyFirst asks of the account picked.
Healthiest(c, a) ==
  /\ a \in c.set
  /\ \A b \in c.set, t \in now .. now + MaxReported : ~Resting(c, b, t) => ~Resting(c, a, t)
  /\ a \in c.full => \A b \in c.set \ c.full : Resting(c, b, now)

LEMMA FreeIsHealthiest ==
  ASSUME TypeOK, NEW w \in Seq(Model), NEW c, Offered(c, w), NEW a \in Free(c),
         a \in c.full => Free(c) \ c.full = {}
  PROVE  Healthiest(c, a)
<1>1. a \in c.set /\ Back(c, a) <= now /\ now \in Nat
  BY DEF Free, TypeOK
<1>2. ASSUME NEW t \in now .. now + MaxReported
      PROVE  ~Resting(c, a, t)
  <2>1. t \in Nat /\ now <= t
    BY <1>1
  <2>. QED
    BY <1>1, <2>1, RestingUntilBack, BackType
<1>3. ASSUME a \in c.full, NEW b \in c.set \ c.full
      PROVE  Resting(c, b, now)
  <2>1. ~ (Back(c, b) <= now)
    BY <1>3 DEF Free
  <2>2. Back(c, b) \in Nat
    BY BackType
  <2>. QED
    BY <1>1, <2>1, <2>2, RestingUntilBack
<1>. QED
  BY <1>1, <1>2, <1>3 DEF Healthiest

LEMMA PickIsHealthiest ==
  ASSUME TypeOK, NEW w \in Seq(Model), NEW c, Offered(c, w), c.set # {}
  PROVE  Healthiest(c, PickFor(c, w))
<1> DEFINE roomy   == Free(c) \ c.full
           soonest == {a \in c.set : \A b \in c.set : Back(c, a) <= Back(c, b)}
           S       == IF roomy # {} THEN roomy ELSE IF Free(c) # {} THEN Free(c) ELSE soonest
           pick    == PickFor(c, w)
<1>1. \A a \in c.set : Back(c, a) \in Nat
  BY BackType
<1>2. soonest # {}
  <2> DEFINE backs == {Back(c, a) : a \in c.set}
  <2>1. backs \in SUBSET Nat /\ backs # {}
    BY <1>1
  <2>2. \E n \in backs : \A k \in backs : n <= k
    <3> HIDE DEF backs
    <3>. QED
      BY <2>1, LeastNumber
  <2>. QED
    BY <2>2
<1>3. S # {} /\ S \subseteq c.set
  BY <1>2 DEF Free
<1>4. pick = First(c, w, S)
  BY DEF PickFor
<1>5. pick \in S
  <2> HIDE DEF S, pick
  <2>. QED
    BY <1>3, <1>4, FirstIsOne
<1> HIDE DEF pick
<1>6. CASE Free(c) # {}
  <2>1. pick \in Free(c) /\ (pick \in c.full => roomy = {})
    BY <1>5, <1>6
  <2>. QED
    BY <2>1, FreeIsHealthiest DEF pick
<1>7. CASE Free(c) = {}
  <2>1. pick \in soonest
    BY <1>5, <1>7
  <2>2. now \in Nat /\ MaxReported \in Nat
    BY PoolAssumption DEF TypeOK, PoolAssumption
  <2>3. ASSUME NEW b \in c.set, NEW t \in now .. now + MaxReported, ~Resting(c, b, t)
        PROVE  ~Resting(c, pick, t)
    <3>1. t \in Nat /\ now <= t
      BY <2>2
    <3>2. ~ (t < Back(c, b))
      BY <2>3, <3>1, RestingUntilBack
    <3>3. ~ (t < Back(c, pick))
      BY <1>1, <2>1, <3>1, <3>2
    <3>. QED
      BY <2>1, <3>1, <3>3, RestingUntilBack
  <2>4. ASSUME NEW b \in c.set
        PROVE  Resting(c, b, now)
    <3>1. ~ (Back(c, b) <= now)
      BY <1>7 DEF Free
    <3>. QED
      BY <1>1, <2>2, <3>1, RestingUntilBack
  <2>. QED
    BY <2>1, <2>3, <2>4 DEF Healthiest, pick
<1>. QED
  BY <1>6, <1>7

-----------------------------------------------------------------------------
(* The invariant *)

Offering == {"prefer", "pick"}
Choosing == {"remember", "token", "hold", "swap"}

\* What a request has at each step: accounts it may be given, one of which is
\* picked and leased, and none of which failed it.
Placed ==
  \A r \in Request :
    /\ pc[r] \in Offering =>
         /\ cand[r].set # {} /\ Offered(cand[r], want[r])
         /\ cand[r].set \cap tried[r] = {}
    /\ pc[r] \in Choosing => chosen[r] \in Account \ tried[r]
    /\ pc[r] = "asked" => lease[r] \in Account \ tried[r]

Inv == TypeOK /\ Placed /\ InFlightTrue

LEMMA StepNames ==
  /\ "idle" \in PC /\ "list" \in PC /\ "prefer" \in PC /\ "pick" \in PC /\ "remember" \in PC
  /\ "token" \in PC /\ "hold" \in PC /\ "swap" \in PC /\ "asked" \in PC /\ "done" \in PC
BY DEF PC

LEMMA ConstantTypes ==
  /\ NoAccount \notin Account /\ Account \subseteq Nat
  /\ MaxReported \in Nat /\ HoldFor \in Nat /\ HoldFor <= MaxReported
  /\ MaxAttempts \in Nat \ {0} /\ MaxFailures \in Nat \ {0} /\ MaxTime \in Nat \ {0}
  /\ "auth" \in Kind
BY PoolAssumption DEF PoolAssumption, NoAccount, Account

\* The leases on an account are finitely many.
LEMMA LeasesFinite ==
  ASSUME NEW a
  PROVE  /\ IsFiniteSet(Held(a)) /\ IsFiniteSet(Taking(a))
         /\ Cardinality(Held(a)) \in Nat /\ Cardinality(Taking(a)) \in Nat
<1>1. IsFiniteSet(Request)
  BY PoolAssumption DEF PoolAssumption
<1>2. Held(a) \subseteq Request /\ Taking(a) \subseteq Request
  BY DEF Held, Taking
<1>3. IsFiniteSet(Held(a)) /\ IsFiniteSet(Taking(a))
  BY <1>1, <1>2, FS_Subset
<1>. QED
  BY <1>3, FS_CardinalityType

\* A lease a request has is counted.
LEMMA LeaseCounted ==
  ASSUME TypeOK, InFlightTrue, NEW r \in Request, lease[r] \in Account
  PROVE  open[lease[r]] \in Nat \ {0}
<1> DEFINE a == lease[r]
<1>1. r \in Held(a)
  BY DEF Held
<1>2. Cardinality(Held(a)) # 0
  BY <1>1, LeasesFinite, FS_EmptySet
<1>3. open[a] = Cardinality(Held(a)) + Cardinality(Taking(a))
  BY DEF InFlightTrue
<1>. QED
  BY <1>2, <1>3, LeasesFinite

LEMMA ReleasedType ==
  ASSUME TypeOK, InFlightTrue, NEW r \in Request
  PROVE  Released(lease[r]) \in [Account -> Nat]
<1>1. CASE lease[r] = NoAccount
  BY <1>1 DEF Released, TypeOK
<1>2. CASE lease[r] \in Account
  <2>1. open[lease[r]] - 1 \in Nat
    BY <1>2, LeaseCounted
  <2>2. Released(lease[r]) = [open EXCEPT ![lease[r]] = open[lease[r]] - 1]
    BY <1>2, ConstantTypes DEF Released
  <2>3. open \in [Account -> Nat]
    BY DEF TypeOK
  <2>. QED
    BY <2>1, <2>2, <2>3
<1>. QED
  BY <1>1, <1>2 DEF TypeOK

\* A step on which nobody takes or gives back an account leaves the counts true.
LEMMA NobodyMoves ==
  ASSUME InFlightTrue, open' = open, lease' = lease,
         \A r \in Request : pc'[r] = "swap" <=> pc[r] = "swap",
         \A r \in Request : pc[r] = "swap" => chosen'[r] = chosen[r]
  PROVE  InFlightTrue'
<1>1. \A a \in Account : Held(a)' = Held(a) /\ Taking(a)' = Taking(a)
  BY DEF Held, Taking
<1>. QED
  BY <1>1 DEF InFlightTrue

LEMMA HealthType ==
  ASSUME TypeOK, NEW a \in Account, NEW kind \in Kind, NEW reset \in Nat
  PROVE  /\ ReportFailure(a, kind, reset) =>
              /\ cool' \in [Account -> Nat] /\ failures' \in [Account -> 0 .. MaxFailures]
              /\ hold' = hold /\ told' \in [Account -> Nat]
         /\ \A m : ReportModelFailure(a, m, kind, reset) =>
              /\ hold' \in [Account -> [Model -> Nat]] /\ told' \in [Account -> Nat]
              /\ cool' = cool /\ failures' = failures
<1>1. now \in Nat /\ failures \in [Account -> 0 .. MaxFailures]
      /\ cool \in [Account -> Nat] /\ hold \in [Account -> [Model -> Nat]]
  BY DEF TypeOK
<1>2. ASSUME ReportFailure(a, kind, reset)
      PROVE  cool' \in [Account -> Nat] /\ failures' \in [Account -> 0 .. MaxFailures]
  <2>1. failures'[a] \in 1 .. MaxFailures /\ failures' \in [Account -> 0 .. MaxFailures]
    BY <1>1, <1>2, ConstantTypes DEF ReportFailure, MinOf
  <2>2. Wait(kind, failures'[a], reset) \in Nat
    BY <2>1, WaitType, ConstantTypes
  <2>. QED
    BY <1>1, <1>2, <2>1, <2>2 DEF ReportFailure
<1>3. ASSUME NEW m, ReportModelFailure(a, m, kind, reset)
      PROVE  hold' \in [Account -> [Model -> Nat]]
  <2>1. Wait(kind, 1, reset) \in Nat
    BY WaitType, ConstantTypes
  <2> DEFINE until == now + Wait(kind, 1, reset)
  <2>2. until \in Nat
    BY <1>1, <2>1
  <2>3. hold' = [hold EXCEPT ![a][m] = until]
    BY <1>3 DEF ReportModelFailure
  <2> HIDE DEF until
  <2>4. [hold[a] EXCEPT ![m] = until] \in [Model -> Nat]
    BY <1>1, <2>2
  <2>5. hold' = [hold EXCEPT ![a] = [hold[a] EXCEPT ![m] = until]]
    BY <2>3
  <2>. QED
    BY <1>1, <2>4, <2>5
<1>4. ASSUME Says(a, reset)
      PROVE  told' \in [Account -> Nat]
  <2>1. told \in [Account -> Nat]
    BY DEF TypeOK
  <2>2. MaxOf(told[a], now + reset) \in Nat
    BY <1>1, <2>1 DEF MaxOf
  <2>. QED
    BY <1>4, <2>1, <2>2 DEF Says
<1>. QED
  BY <1>2, <1>3, <1>4 DEF ReportFailure, ReportModelFailure

LEMMA OneMore ==
  ASSUME open \in [Account -> Nat], NEW a \in Account
  PROVE  [open EXCEPT ![a] = @ + 1] \in [Account -> Nat]
OBVIOUS

LEMMA Recovered ==
  ASSUME cool \in [Account -> Nat], failures \in [Account -> 0 .. MaxFailures], NEW a
  PROVE  /\ [cool EXCEPT ![a] = 0] \in [Account -> Nat]
         /\ [failures EXCEPT ![a] = 0] \in [Account -> 0 .. MaxFailures]
<1>1. [cool EXCEPT ![a] = 0] \in [Account -> Nat]
  OBVIOUS
<1>2. 0 \in 0 .. MaxFailures
  BY ConstantTypes
<1> DEFINE counts == 0 .. MaxFailures
<1>3. 0 \in counts /\ failures \in [Account -> counts]
  BY <1>2
<1> HIDE DEF counts
<1>4. [failures EXCEPT ![a] = 0] \in [Account -> counts]
  BY <1>3
<1>. QED
  BY <1>1, <1>4 DEF counts

LEMMA GotoType ==
  ASSUME TypeOK, NEW r \in Request, NEW step \in PC, Goto(r, step)
  PROVE  pc' \in [Request -> PC]
BY DEF TypeOK, Goto

\* Taking an account that may be given puts the request in its next place.
LEMMA TakeKeeps ==
  ASSUME Inv, NEW r \in Request, NEW a \in cand[r].set, pc[r] \in Offering,
         Take(r, a), NEW step \in Choosing \ {"hold", "swap"}, Goto(r, step),
         UNCHANGED <<now, store, health, open, last, asking, lease>>
  PROVE  Inv'
<1> USE StepNames DEF Inv, store, health, asking
<1>1. a \in Account \ tried[r]
  BY DEF Placed, Offered
<1>2. cand[r].serves[a] \in Model \union {NoModel}
  BY <1>1 DEF TypeOK
<1>3. NoCand \in [set : SUBSET Account, full : SUBSET Account,
                  serves : [Account -> Model \union {NoModel}]]
  BY DEF NoCand
<1>4. TypeOK'
  <2>1. pc' \in [Request -> PC]
    BY DEF TypeOK, Goto, Choosing
  <2>2. chosen' \in [Request -> Account \union {NoAccount}]
        /\ serving' \in [Request -> Model \union {NoModel}]
    BY <1>1, <1>2 DEF TypeOK, Take
  <2>3. cand' \in [Request -> [set : SUBSET Account, full : SUBSET Account,
                               serves : [Account -> Model \union {NoModel}]]]
    BY <1>3 DEF TypeOK, Take
  <2>. QED
    BY <2>1, <2>2, <2>3 DEF TypeOK
<1>5. Placed'
  <2>1. ASSUME NEW q \in Request \ {r}
        PROVE  pc'[q] = pc[q] /\ cand'[q] = cand[q] /\ chosen'[q] = chosen[q]
    BY DEF TypeOK, Goto, Take
  <2>2. pc'[r] \in Choosing /\ chosen'[r] = a
    BY DEF TypeOK, Goto, Take
  <2>. QED
    BY <1>1, <2>1, <2>2 DEF Placed, Offering, Choosing
<1>6. InFlightTrue'
  BY NobodyMoves DEF TypeOK, Goto, Take, Offering, Choosing
<1>. QED
  BY <1>4, <1>5, <1>6

\* Whatever its failure did to the account, a request that goes on is in its
\* next place, and what it must not be given again is remembered.
LEMMA AgainKeeps ==
  ASSUME Inv, NEW r \in Request, NEW without \in SUBSET Account, pc[r] = "asked",
         Again(r, without),
         cool' \in [Account -> Nat], failures' \in [Account -> 0 .. MaxFailures],
         hold' \in [Account -> [Model -> Nat]], told' \in [Account -> Nat],
         UNCHANGED <<now, store, open, last, cand, chosen, serving, lease>>
  PROVE  Inv'
<1> USE ConstantTypes, StepNames DEF Inv, store
<1>1. /\ \E step \in {"list", "done"} : Goto(r, step)
      /\ attempt' = [attempt EXCEPT ![r] = MinOf(@ + 1, MaxAttempts)]
      /\ tried' = [tried EXCEPT ![r] = @ \union without]
      /\ want' = want
  BY DEF Again
<1>2. TypeOK'
  <2>1. pc' \in [Request -> PC]
    BY <1>1, GotoType
  <2>2. attempt' \in [Request -> 0 .. MaxAttempts]
    BY <1>1 DEF TypeOK, MinOf
  <2>3. tried' \in [Request -> SUBSET Account]
    BY <1>1 DEF TypeOK
  <2>. QED
    BY <1>1, <2>1, <2>2, <2>3 DEF TypeOK
<1>3. Placed'
  <2>1. pc'[r] \in {"list", "done"}
    BY <1>1 DEF TypeOK, Goto
  <2>2. \A q \in Request \ {r} : pc'[q] = pc[q] /\ tried'[q] = tried[q]
    BY <1>1 DEF TypeOK, Goto
  <2>. QED
    BY <1>1, <2>1, <2>2 DEF Placed, Offering, Choosing
<1>4. InFlightTrue'
  BY <1>1, NobodyMoves DEF TypeOK, Goto
<1>. QED
  BY <1>2, <1>3, <1>4

\* Types, requests in their place, and counted leases hold from the start, and
\* each step of a request and of the operator keeps them.
LEMMA InvHolds == Spec => []Inv
<1>1. Init => Inv
  <2> SUFFICES ASSUME Init PROVE Inv
    OBVIOUS
  <2>1. TypeOK
    BY ConstantTypes, StepNames DEF Init, TypeOK, NoCand
  <2>2. Placed
    BY DEF Init, Placed, Offering, Choosing
  <2>3. \A a \in Account : Held(a) = {} /\ Taking(a) = {}
    BY ConstantTypes DEF Init, Held, Taking
  <2>4. InFlightTrue
    BY <2>3, FS_EmptySet, LeasesFinite DEF Init, InFlightTrue
  <2>. QED
    BY <2>1, <2>2, <2>4 DEF Inv
<1>2. Inv /\ [Next]_vars => Inv'
  <2> SUFFICES ASSUME Inv, Next \/ UNCHANGED vars PROVE Inv'
    OBVIOUS
  <2> USE ConstantTypes, StepNames DEF Inv, store, health, asking, picking
  <2>1. ASSUME NEW r \in Request, Arrive(r) PROVE Inv'
    <3>1. TypeOK'
      BY <2>1 DEF TypeOK, Arrive, Goto
    <3>2. Placed'
      BY <2>1 DEF TypeOK, Placed, Arrive, Goto, Offering, Choosing
    <3>3. InFlightTrue'
      BY <2>1, NobodyMoves DEF TypeOK, Arrive, Goto
    <3>. QED
      BY <3>1, <3>2, <3>3
  <2>2. ASSUME NEW r \in Request, List(r) PROVE Inv'
    <3> DEFINE c == Candidates(want[r], tried[r])
    <3>1. want[r] \in Seq(Model)
      BY ModelsOfWanted DEF TypeOK
    <3>2. Offered(c, want[r]) /\ c.set \cap tried[r] = {}
      BY <3>1, CandidatesOffered DEF Candidates
    <3>3. c \in [set : SUBSET Account, full : SUBSET Account,
                 serves : [Account -> Model \union {NoModel}]]
      BY <3>1, BestServes DEF Candidates, TypeOK
    <3>4. /\ UNCHANGED <<now, store, health, open, last, asking, chosen, serving, lease>>
          /\ pc[r] = "list"
          /\ \/ pc' = [pc EXCEPT ![r] = "done"] /\ cand' = cand
             \/ /\ \E step \in Offering : pc' = [pc EXCEPT ![r] = step]
                /\ cand' = [cand EXCEPT ![r] = c] /\ c.set # {}
      BY <2>2 DEF List, Goto, Offering
    <3> HIDE DEF c
    <3>5. TypeOK'
      <4>0. pc \in [Request -> PC]
        BY DEF TypeOK
      <4>1. pc' \in [Request -> PC]
        BY <3>4, <4>0 DEF Offering
      <4>2. cand' \in [Request -> [set : SUBSET Account, full : SUBSET Account,
                                   serves : [Account -> Model \union {NoModel}]]]
        BY <3>3, <3>4 DEF TypeOK
      <4>. QED
        BY <3>4, <4>1, <4>2 DEF TypeOK
    <3>6. Placed'
      <4>1. ASSUME NEW q \in Request \ {r}
            PROVE  pc'[q] = pc[q] /\ cand'[q] = cand[q]
        BY <3>4 DEF TypeOK
      <4>2. pc'[r] \in Offering => cand'[r] = c /\ c.set # {}
        BY <3>4 DEF TypeOK, Offering
      <4>3. pc'[r] \in Offering \union {"done"}
        BY <3>4 DEF TypeOK
      <4>. QED
        BY <3>2, <3>4, <4>1, <4>2, <4>3 DEF Placed, Offering, Choosing
    <3>7. InFlightTrue'
      BY <3>4, NobodyMoves DEF TypeOK, Offering
    <3>. QED
      BY <3>5, <3>6, <3>7
  <2>3. ASSUME NEW r \in Request, Prefer(r) PROVE Inv'
    <3>1. CASE Keeps(cand[r])
      <4> DEFINE a == last.account
      <4>1. a \in cand[r].set /\ cand[r] \in [set : SUBSET Account, full : SUBSET Account,
                                   serves : [Account -> Model \union {NoModel}]]
        BY <3>1 DEF Keeps, Free, TypeOK
      <4>2. Take(r, a) /\ Goto(r, "remember") /\ pc[r] = "prefer"
            /\ UNCHANGED <<now, store, health, open, last, asking, lease>>
        BY <2>3, <3>1 DEF Prefer
      <4>. QED
        BY <4>1, <4>2, TakeKeeps, StepNames DEF Offering, Choosing
    <3>2. CASE ~Keeps(cand[r])
      <4>1. TypeOK'
        <5>1. Goto(r, "pick") /\ UNCHANGED <<now, store, health, open, last, asking, lease, picking>>
          BY <2>3, <3>2 DEF Prefer
        <5>. QED
          BY <5>1, GotoType DEF TypeOK
      <4>2. Placed'
        BY <2>3, <3>2 DEF TypeOK, Placed, Prefer, Goto, Offering, Choosing
      <4>3. InFlightTrue'
        BY <2>3, <3>2, NobodyMoves DEF TypeOK, Prefer, Goto
      <4>. QED
        BY <4>1, <4>2, <4>3
    <3>. QED
      BY <3>1, <3>2
  <2>4. ASSUME NEW r \in Request, Pick(r) PROVE Inv'
    <3> DEFINE a == PickFor(cand[r], want[r])
    <3>1. pc[r] \in Offering
      BY <2>4 DEF Pick, Offering
    <3>2. a \in cand[r].set
      <4>1. want[r] \in Seq(Model)
        BY ModelsOfWanted DEF TypeOK
      <4>. QED
        BY <3>1, <4>1, PickIsHealthiest DEF Placed, Healthiest
    <3>3. \E step \in {"remember", "token"} : Goto(r, step)
      BY <2>4 DEF Pick
    <3>4. Take(r, a) /\ UNCHANGED <<now, store, health, open, last, asking, lease>>
      BY <2>4 DEF Pick
    <3>. QED
      BY <3>1, <3>2, <3>3, <3>4, TakeKeeps DEF Choosing
  <2>5. ASSUME NEW r \in Request, Remember(r) PROVE Inv'
    <3>1. TypeOK'
      <4>1. /\ last' = [account |-> chosen[r], at |-> now] /\ Goto(r, "token")
            /\ UNCHANGED <<now, store, health, open, asking, cand, chosen, serving, lease>>
        BY <2>5 DEF Remember
      <4>2. last' \in [account : Account \union {NoAccount}, at : 0 .. MaxTime]
        <5>1. chosen[r] \in Account \union {NoAccount} /\ now \in 0 .. MaxTime
          BY DEF TypeOK
        <5>. QED
          BY <4>1, <5>1
      <4>. QED
        BY <4>1, <4>2, GotoType DEF TypeOK
    <3>2. Placed'
      BY <2>5 DEF TypeOK, Placed, Remember, Goto, Offering, Choosing
    <3>3. InFlightTrue'
      BY <2>5, NobodyMoves DEF TypeOK, Remember, Goto
    <3>. QED
      BY <3>1, <3>2, <3>3
  <2>6. ASSUME NEW r \in Request, Token(r) PROVE Inv'
    <3>1. /\ pc[r] = "token"
          /\ \/ Goto(r, "hold") /\ UNCHANGED health
             \/ ReportFailure(chosen[r], "auth", 0) /\ Goto(r, "done")
             \/ Goto(r, "done") /\ UNCHANGED health
          /\ UNCHANGED <<now, store, open, last, asking, cand, chosen, serving, lease>>
      BY <2>6 DEF Token
    <3>2. TypeOK'
      <4>1. chosen[r] \in Account
        BY <3>1 DEF Placed, Choosing
      <4>2. cool' \in [Account -> Nat] /\ failures' \in [Account -> 0 .. MaxFailures]
            /\ hold' = hold /\ told' \in [Account -> Nat]
        BY <3>1, <4>1, HealthType DEF TypeOK
      <4>3. pc' \in [Request -> PC]
        BY <3>1, GotoType
      <4>. QED
        BY <3>1, <4>2, <4>3 DEF TypeOK
    <3>3. Placed'
      BY <3>1 DEF TypeOK, Placed, Goto, Offering, Choosing
    <3>4. InFlightTrue'
      BY <3>1, NobodyMoves DEF TypeOK, Goto
    <3>. QED
      BY <3>2, <3>3, <3>4
  <2>7. ASSUME NEW r \in Request, Hold(r) PROVE Inv'
    <3>1. /\ pc[r] = "hold" /\ Goto(r, "swap")
          /\ open' = [open EXCEPT ![chosen[r]] = @ + 1]
          /\ UNCHANGED <<now, store, health, last, asking, cand, chosen, serving, lease>>
      BY <2>7 DEF Hold
    <3>2. chosen[r] \in Account \ tried[r]
      BY <3>1 DEF Placed, Choosing
    <3>3. TypeOK'
      <4>0. open \in [Account -> Nat]
        BY DEF TypeOK
      <4>2. open' \in [Account -> Nat]
        BY <3>1, <3>2, <4>0, OneMore
      <4>. QED
        BY <3>1, <4>2, GotoType DEF TypeOK
    <3>4. Placed'
      BY <3>1, <3>2 DEF TypeOK, Placed, Goto, Offering, Choosing
    <3>5. ASSUME NEW a \in Account
          PROVE  open'[a] = Cardinality(Held(a)') + Cardinality(Taking(a)')
      <4>1. Held(a)' = Held(a) /\ open[a] = Cardinality(Held(a)) + Cardinality(Taking(a))
        BY <3>1 DEF Held, InFlightTrue
      <4>2. CASE a = chosen[r]
        <5>1. Taking(a)' = Taking(a) \union {r} /\ r \notin Taking(a)
          BY <3>1, <4>2 DEF TypeOK, Taking, Goto
        <5>2. Cardinality(Taking(a)') = Cardinality(Taking(a)) + 1
          BY <5>1, LeasesFinite, FS_AddElement
        <5>3. open'[a] = open[a] + 1
          BY <3>1, <4>2 DEF TypeOK
        <5>. QED
          BY <4>1, <5>2, <5>3, LeasesFinite
      <4>3. CASE a # chosen[r]
        <5>1. Taking(a)' = Taking(a) /\ open'[a] = open[a]
          BY <3>1, <4>3 DEF TypeOK, Taking, Goto
        <5>. QED
          BY <4>1, <5>1
      <4>. QED
        BY <4>2, <4>3
    <3>. QED
      BY <3>3, <3>4, <3>5 DEF InFlightTrue
  <2>8. ASSUME NEW r \in Request, Swap(r) PROVE Inv'
    <3>1. /\ pc[r] = "swap" /\ Goto(r, "asked")
          /\ open' = Released(lease[r])
          /\ lease' = [lease EXCEPT ![r] = chosen[r]]
          /\ chosen' = [chosen EXCEPT ![r] = NoAccount]
          /\ UNCHANGED <<now, store, health, last, asking, cand, serving>>
      BY <2>8 DEF Swap
    <3>2. chosen[r] \in Account \ tried[r]
      BY <3>1 DEF Placed, Choosing
    <3>3. TypeOK'
      <4>1. open' \in [Account -> Nat]
        BY <3>1, ReleasedType
      <4>2. /\ lease' \in [Request -> Account \union {NoAccount}]
            /\ chosen' \in [Request -> Account \union {NoAccount}]
        BY <3>1, <3>2 DEF TypeOK
      <4>. QED
        BY <3>1, <4>1, <4>2, GotoType DEF TypeOK
    <3>4. Placed'
      BY <3>1, <3>2 DEF TypeOK, Placed, Goto, Offering, Choosing
    <3>5. ASSUME NEW a \in Account
          PROVE  open'[a] = Cardinality(Held(a)') + Cardinality(Taking(a)')
      <4> DEFINE gone == IF a = lease[r] THEN 1 ELSE 0
                 new == IF a = chosen[r] THEN 1 ELSE 0
      <4>1. open[a] = Cardinality(Held(a)) + Cardinality(Taking(a))
        BY DEF InFlightTrue
      <4>2. open'[a] = open[a] - gone
        BY <3>1 DEF TypeOK, Released
      <4>3. Cardinality(Taking(a)') = Cardinality(Taking(a)) - new
        <5>1. Taking(a)' = Taking(a) \ {r} /\ (r \in Taking(a) <=> a = chosen[r])
          BY <3>1 DEF TypeOK, Taking, Goto
        <5>2. Cardinality(Taking(a) \ {r})
                = IF r \in Taking(a) THEN Cardinality(Taking(a)) - 1 ELSE Cardinality(Taking(a))
          BY LeasesFinite, FS_RemoveElement
        <5>. QED
          BY <5>1, <5>2, LeasesFinite
      <4>4. Cardinality(Held(a)') = Cardinality(Held(a)) - gone + new
        <5> DEFINE rest == Held(a) \ {r}
        <5>1. /\ IsFiniteSet(rest) /\ Cardinality(rest) \in Nat
              /\ Cardinality(rest) = Cardinality(Held(a)) - gone
          <6>1. r \in Held(a) <=> a = lease[r]
            BY DEF Held
          <6>. QED
            BY <6>1, LeasesFinite, FS_RemoveElement, FS_CardinalityType
        <5>2. Held(a)' = IF a = chosen[r] THEN rest \union {r} ELSE rest
          BY <3>1 DEF TypeOK, Held
        <5>3. r \notin rest
          OBVIOUS
        <5> HIDE DEF rest
        <5>4. CASE a = chosen[r]
          <6>1. Cardinality(rest \union {r}) = Cardinality(rest) + 1
            BY <5>1, <5>3, FS_AddElement
          <6>. QED
            BY <5>1, <5>2, <5>4, <6>1, LeasesFinite
        <5>5. CASE a # chosen[r]
          BY <5>1, <5>2, <5>5, LeasesFinite
        <5>. QED
          BY <5>4, <5>5
      <4>. QED
        BY <4>1, <4>2, <4>3, <4>4, LeasesFinite
    <3>. QED
      BY <3>3, <3>4, <3>5 DEF InFlightTrue
  <2>9. ASSUME NEW r \in Request, Succeed(r) PROVE Inv'
    <3>1. /\ pc[r] = "asked" /\ Goto(r, "done")
          /\ cool' = [cool EXCEPT ![lease[r]] = 0] /\ failures' = [failures EXCEPT ![lease[r]] = 0]
          /\ UNCHANGED <<now, store, hold, told, open, last, asking, cand, chosen, serving, lease>>
      BY <2>9 DEF Succeed, ReportSuccess
    <3>2. TypeOK'
      <4>0. cool \in [Account -> Nat] /\ failures \in [Account -> 0 .. MaxFailures]
        BY DEF TypeOK
      <4>1. cool' \in [Account -> Nat] /\ failures' \in [Account -> 0 .. MaxFailures]
        BY <3>1, <4>0, Recovered
      <4>. QED
        BY <3>1, <4>1, GotoType DEF TypeOK
    <3>3. Placed'
      BY <3>1 DEF TypeOK, Placed, Goto, Offering, Choosing
    <3>4. InFlightTrue'
      BY <3>1, NobodyMoves DEF TypeOK, Goto
    <3>. QED
      BY <3>2, <3>3, <3>4
  <2>10. ASSUME NEW r \in Request, GiveUp(r) PROVE Inv'
    <3>1. TypeOK'
      BY <2>10, GotoType DEF TypeOK, GiveUp
    <3>2. Placed'
      BY <2>10 DEF TypeOK, Placed, GiveUp, Goto, Offering, Choosing
    <3>3. InFlightTrue'
      BY <2>10, NobodyMoves DEF TypeOK, GiveUp, Goto
    <3>. QED
      BY <3>1, <3>2, <3>3
  <2>11. ASSUME NEW r \in Request, Fail(r) PROVE Inv'
    <3>1. pc[r] = "asked" /\ lease[r] \in Account
      BY <2>11 DEF Fail, Placed
    <3>2. /\ Again(r, {lease[r]})
          /\ UNCHANGED <<now, store, open, last, cand, chosen, serving, lease>>
      BY <2>11 DEF Fail
    <3>3. /\ cool' \in [Account -> Nat] /\ failures' \in [Account -> 0 .. MaxFailures]
          /\ hold' \in [Account -> [Model -> Nat]] /\ told' \in [Account -> Nat]
      <4>1. PICK kind \in Kind, reset \in Resets :
               \/ ReportFailure(lease[r], kind, reset)
               \/ ReportModelFailure(lease[r], serving[r], kind, reset)
        BY <2>11 DEF Fail
      <4>2. reset \in Nat
        BY PoolAssumption DEF PoolAssumption
      <4>3. /\ cool \in [Account -> Nat] /\ failures \in [Account -> 0 .. MaxFailures]
            /\ hold \in [Account -> [Model -> Nat]]
        BY DEF TypeOK
      <4>. QED
        BY <3>1, <4>1, <4>2, <4>3, HealthType
    <3>. QED
      BY <3>1, <3>2, <3>3, AgainKeeps
  <2>12. ASSUME NEW r \in Request, Repeat(r) PROVE Inv'
    <3>1. /\ pc[r] = "asked" /\ Again(r, {})
          /\ UNCHANGED <<now, store, health, open, last, cand, chosen, serving, lease>>
      BY <2>12 DEF Repeat
    <3>2. /\ cool' \in [Account -> Nat] /\ failures' \in [Account -> 0 .. MaxFailures]
          /\ hold' \in [Account -> [Model -> Nat]] /\ told' \in [Account -> Nat]
      BY <3>1 DEF TypeOK
    <3>. QED
      BY <3>1, <3>2, AgainKeeps
  <2>13. ASSUME NEW r \in Request, Done(r) PROVE Inv'
    <3>1. /\ pc[r] = "done" /\ Goto(r, "idle")
          /\ open' = Released(lease[r])
          /\ lease' = [lease EXCEPT ![r] = NoAccount]
          /\ chosen' = [chosen EXCEPT ![r] = NoAccount]
          /\ serving' = [serving EXCEPT ![r] = NoModel]
          /\ want' = [want EXCEPT ![r] = <<>>]
          /\ tried' = [tried EXCEPT ![r] = {}]
          /\ attempt' = [attempt EXCEPT ![r] = 0]
          /\ UNCHANGED <<now, store, health, last, cand>>
      BY <2>13 DEF Done
    <3>2. TypeOK'
      <4>1. open' \in [Account -> Nat] /\ pc' \in [Request -> PC]
        BY <3>1, ReleasedType, GotoType
      <4>2. /\ lease' \in [Request -> Account \union {NoAccount}]
            /\ chosen' \in [Request -> Account \union {NoAccount}]
            /\ serving' \in [Request -> Model \union {NoModel}]
        BY <3>1 DEF TypeOK
      <4>3. /\ want' \in [Request -> Wanted \union {<<>>}]
            /\ attempt' \in [Request -> 0 .. MaxAttempts]
            /\ tried' \in [Request -> SUBSET Account]
        BY <3>1 DEF TypeOK
      <4>. QED
        BY <3>1, <4>1, <4>2, <4>3 DEF TypeOK
    <3>3. Placed'
      BY <3>1 DEF TypeOK, Placed, Goto, Offering, Choosing
    <3>4. ASSUME NEW a \in Account
          PROVE  open'[a] = Cardinality(Held(a)') + Cardinality(Taking(a)')
      <4> DEFINE gone == IF a = lease[r] THEN 1 ELSE 0
      <4>1. open[a] = Cardinality(Held(a)) + Cardinality(Taking(a))
        BY DEF InFlightTrue
      <4>2. open'[a] = open[a] - gone
        BY <3>1 DEF TypeOK, Released
      <4>3. Taking(a)' = Taking(a)
        BY <3>1 DEF TypeOK, Taking, Goto
      <4>4. Held(a)' = Held(a) \ {r} /\ (r \in Held(a) <=> a = lease[r])
        BY <3>1 DEF TypeOK, Held
      <4>5. Cardinality(Held(a) \ {r})
              = IF r \in Held(a) THEN Cardinality(Held(a)) - 1 ELSE Cardinality(Held(a))
        BY LeasesFinite, FS_RemoveElement
      <4>. QED
        BY <4>1, <4>2, <4>3, <4>4, <4>5, LeasesFinite
    <3>. QED
      BY <3>2, <3>3, <3>4 DEF InFlightTrue
  <2>14. CASE Operate
    <3> DEFINE Kept == /\ UNCHANGED <<now, open, last, pc, asking, cand, chosen, serving, lease>>
                       /\ paused' \subseteq Account /\ full' \subseteq Account
                       /\ failing' \subseteq Account \X Model
                       /\ cool' \in [Account -> Nat]
                       /\ failures' \in [Account -> 0 .. MaxFailures]
                       /\ hold' \in [Account -> [Model -> Nat]]
                       /\ told' \in [Account -> Nat]
    <3>1. Kept
      <4>1. PICK a \in Account : \/ TogglePause(a) \/ Reset(a) \/ NoteRoom(a)
                                 \/ \E m \in Offers[a] : FindFailing(a, m) \/ FindWorking(a, m)
        BY <2>14 DEF Operate
      <4>2. CASE TogglePause(a)
        BY <4>2 DEF TogglePause, TypeOK
      <4>3. CASE Reset(a)
        BY <4>3 DEF Reset, TypeOK
      <4>4. CASE NoteRoom(a)
        BY <4>4 DEF NoteRoom, TypeOK
      <4>5. ASSUME NEW m \in Offers[a], FindFailing(a, m) \/ FindWorking(a, m)
            PROVE  Kept
        <5>1. m \in Model
          BY DEF Model
        <5>2. hold \in [Account -> [Model -> Nat]] /\ now \in Nat
          BY DEF TypeOK
        <5>3. PICK until \in Nat : hold' = [hold EXCEPT ![a][m] = until]
          <6>1. hold[a][m] \in Nat
            BY <5>1, <5>2
          <6>2. MaxOf(hold[a][m], now + HoldFor) \in Nat
            BY <5>2, <6>1 DEF MaxOf
          <6>3. CASE FindFailing(a, m)
            BY <6>2, <6>3 DEF FindFailing
          <6>4. CASE FindWorking(a, m)
            BY <6>4 DEF FindWorking
          <6>. QED
            BY <4>5, <6>3, <6>4
        <5>4. hold' \in [Account -> [Model -> Nat]]
          <6>1. [hold[a] EXCEPT ![m] = until] \in [Model -> Nat]
            BY <5>2
          <6>2. hold' = [hold EXCEPT ![a] = [hold[a] EXCEPT ![m] = until]]
            BY <5>3
          <6>. QED
            BY <5>2, <6>1, <6>2
        <5>5. failing' \subseteq Account \X Model
          BY <4>5, <5>1 DEF TypeOK, FindFailing, FindWorking
        <5>6. /\ UNCHANGED <<now, open, last, pc, asking, cand, chosen, serving, lease>>
              /\ UNCHANGED <<paused, full, cool, failures, told>>
          BY <4>5 DEF FindFailing, FindWorking
        <5>. QED
          BY <5>4, <5>5, <5>6 DEF TypeOK
      <4>. QED
        BY <4>1, <4>2, <4>3, <4>4, <4>5
    <3>2. TypeOK'
      BY <3>1 DEF TypeOK
    <3>3. Placed'
      BY <3>1 DEF Placed, Offered
    <3>4. InFlightTrue'
      BY <3>1, NobodyMoves
    <3>. QED
      BY <3>2, <3>3, <3>4
  <2>15. CASE Tick
    <3>1. TypeOK'
      BY <2>15 DEF TypeOK, Tick
    <3>2. Placed' /\ InFlightTrue'
      BY <2>15, NobodyMoves DEF Placed, Tick, Offered
    <3>. QED
      BY <3>1, <3>2
  <2>16. CASE UNCHANGED vars
    <3>1. TypeOK'
      BY <2>16 DEF TypeOK, vars
    <3>2. Placed' /\ InFlightTrue'
      BY <2>16, NobodyMoves DEF Placed, vars, Offered
    <3>. QED
      BY <3>1, <3>2
  <2>. QED
    BY <2>1, <2>2, <2>3, <2>4, <2>5, <2>6, <2>7, <2>8, <2>9, <2>10, <2>11, <2>12, <2>13,
       <2>14, <2>15, <2>16 DEF Next, Work
<1>. QED
  BY <1>1, <1>2, PTL DEF Spec

-----------------------------------------------------------------------------
(* What follows *)

\* Every account, request and cooldown is what the module says it is, however
\* the pool's critical sections interleave (pool.go).
THEOREM TypeHolds == Spec => []TypeOK
BY InvHolds, PTL DEF Inv

\* The requests counted as in flight on an account are exactly the leases
\* requests have on it, through every retry (Pool.hold, Lease.Release).
THEOREM InFlightHolds == Spec => []InFlightTrue
BY InvHolds, PTL DEF Inv

\* No request is given an account that failed it (Acquire's exclude).
THEOREM NotAskedAgainHolds == Spec => []NotAskedAgain
<1>1. Inv => NotAskedAgain
  BY DEF Inv, Placed, NotAskedAgain, Choosing
<1>. QED
  BY <1>1, InvHolds, PTL

\* Whatever was read of the store and however the pool has changed since, the
\* account picked is one no other candidate is back before, and out of room
\* only when no free one has any (Acquire, pickFor, preferred).
THEOREM HealthyFirstHolds == Spec => HealthyFirst
<1> DEFINE Change ==
      \A r \in Request : chosen'[r] \notin {chosen[r], NoAccount} =>
        LET c == cand[r]
            a == chosen'[r]
        IN /\ a \in c.set
           /\ \A b \in c.set, t \in now .. now + MaxReported :
                ~Resting(c, b, t) => ~Resting(c, a, t)
           /\ a \in c.full => \A b \in c.set \ c.full : Resting(c, b, now)
<1>1. Inv /\ [Next]_vars => [Change]_vars
  <2> SUFFICES ASSUME Inv, Next,
                      NEW q \in Request, chosen'[q] \notin {chosen[q], NoAccount}
               PROVE  Healthiest(cand[q], chosen'[q])
    BY DEF Healthiest
  <2>1. ASSUME chosen' = chosen
        PROVE  FALSE
    BY <2>1
  <2>2. ASSUME NEW r \in Request, chosen' = [chosen EXCEPT ![r] = NoAccount]
        PROVE  FALSE
    BY <2>2 DEF Inv, TypeOK
  <2>3. PICK r \in Request : Prefer(r) \/ Pick(r)
    BY <2>1, <2>2 DEF Next, Work, Operate, Tick, Arrive, List, Remember, Token, Hold, Swap,
       Succeed, GiveUp, Fail, Repeat, Done, TogglePause, Reset, NoteRoom, FindFailing, FindWorking
  <2>4. Offered(cand[r], want[r]) /\ cand[r].set # {} /\ want[r] \in Seq(Model)
    BY <2>3, ModelsOfWanted DEF Inv, TypeOK, Placed, Offering, Prefer, Pick
  <2>5. PICK a : Take(r, a) /\ Healthiest(cand[r], a)
    <3>1. CASE Prefer(r)
      <4>1. Keeps(cand[r]) /\ Take(r, last.account)
        BY <2>1, <3>1 DEF Prefer, picking
      <4>2. last.account \in Free(cand[r]) /\ last.account \notin cand[r].full
        BY <4>1 DEF Keeps
      <4>. QED
        BY <2>4, <4>1, <4>2, FreeIsHealthiest DEF Inv
    <3>2. CASE Pick(r)
      <4>1. Take(r, PickFor(cand[r], want[r]))
        BY <3>2 DEF Pick
      <4>. QED
        BY <2>4, <4>1, PickIsHealthiest DEF Inv
    <3>. QED
      BY <2>3, <3>1, <3>2
  <2>6. q = r /\ chosen'[q] = a
    BY <2>5 DEF Take, Inv, TypeOK
  <2>. QED
    BY <2>5, <2>6
<1>. QED
  BY <1>1, InvHolds, PTL DEF Spec, HealthyFirst

\* Time passing and a provider saying more justify no wait the less.
LEMMA StaysJustified ==
  ASSUME TypeOK, told' \in [Account -> Nat], NEW a \in Account, NEW until \in Nat, Justified(a, until),
         now' \in Nat, now <= now', told[a] <= told'[a]
  PROVE  Justified(a, until)'
<1>1. now \in Nat /\ told[a] \in Nat /\ told'[a] \in Nat /\ MaxReported \in Nat
  BY ConstantTypes DEF TypeOK
<1>2. until <= now' + MaxReported
  BY <1>1 DEF Justified
<1>3. CASE until <= told[a]
  BY <1>1, <1>2, <1>3 DEF Justified
<1>4. ASSUME NEW k \in Kind, until <= now + Backoff[k].max
      PROVE  Justified(a, until)'
  <2>1. Backoff[k].max \in Nat
    BY PoolAssumption DEF PoolAssumption
  <2>2. until <= now' + Backoff[k].max
    BY <1>1, <1>4, <2>1
  <2>. QED
    BY <1>2, <2>2 DEF Justified
<1>. QED
  BY <1>3, <1>4 DEF Justified

\* A wait just given is justified by its backoff, or by what was just said.
LEMMA WaitJustified ==
  ASSUME TypeOK, NEW a \in Account, NEW kind \in Kind, NEW count \in 1 .. MaxFailures,
         NEW reset \in Nat, Says(a, reset), now' = now
  PROVE  /\ now + Wait(kind, count, reset) \in Nat
         /\ now + Wait(kind, count, reset) <= now' + MaxReported
         /\ \/ now + Wait(kind, count, reset) <= told'[a]
            \/ \E k \in Kind : now + Wait(kind, count, reset) <= now' + Backoff[k].max
         /\ told' \in [Account -> Nat] /\ \A b \in Account : told[b] <= told'[b]
<1> DEFINE wait == Wait(kind, count, reset)
<1>1. wait \in 0 .. MaxReported
  BY WaitType
<1>2. wait <= Backoff[kind].max \/ wait <= reset
  BY WaitOfWhom
<1> HIDE DEF wait
<1>3. now \in Nat /\ told \in [Account -> Nat] /\ MaxReported \in Nat /\ Backoff[kind].max \in Nat
  BY ConstantTypes, PoolAssumption DEF TypeOK, PoolAssumption
<1>4. told' = [told EXCEPT ![a] = MaxOf(told[a], now + reset)]
  BY DEF Says
<1>5. /\ told' \in [Account -> Nat] /\ now + reset <= told'[a]
      /\ \A b \in Account : told[b] <= told'[b]
  BY <1>3, <1>4 DEF MaxOf
<1>6. now + wait \in Nat /\ now + wait <= now' + MaxReported
  BY <1>1, <1>3
<1>7. now + wait <= told'[a] \/ now + wait <= now' + Backoff[kind].max
  BY <1>1, <1>2, <1>3, <1>5
<1>. QED
  BY <1>5, <1>6, <1>7 DEF wait

\* No failure sidelines an account or a model further ahead than the longest
\* backoff, unless its own provider said so; and then no further than the
\* longest wait an upstream is believed about (ReportFailureUntil,
\* ReportModelFailureUntil, HoldModel).
THEOREM WaitsAreBoundedHolds == Spec => []WaitsAreBounded
<1>1. Init => WaitsAreBounded
  <2> SUFFICES ASSUME Init PROVE WaitsAreBounded
    OBVIOUS
  <2>1. 0 <= now + HoldFor /\ 0 <= now + MaxReported
    BY ConstantTypes DEF Init
  <2>2. \A a \in Account : cool[a] = 0 /\ told[a] = 0 /\ \A m \in Model : hold[a][m] = 0
    BY DEF Init
  <2>. QED
    BY <2>1, <2>2 DEF WaitsAreBounded, Justified
<1>2. Inv /\ WaitsAreBounded /\ [Next]_vars => WaitsAreBounded'
  <2> SUFFICES ASSUME Inv, WaitsAreBounded, Next \/ UNCHANGED vars
               PROVE  WaitsAreBounded'
    OBVIOUS
  <2>1. /\ now \in Nat /\ MaxReported \in Nat /\ HoldFor \in Nat
        /\ cool \in [Account -> Nat] /\ hold \in [Account -> [Model -> Nat]]
        /\ failures \in [Account -> 0 .. MaxFailures] /\ told \in [Account -> Nat]
        /\ TypeOK
    BY ConstantTypes DEF Inv, TypeOK
  <2> DEFINE Rested(a) == Justified(a, cool[a])'
             Excused(a, m) == (hold[a][m] <= now + HoldFor \/ Justified(a, hold[a][m]))'
  <2>2. ASSUME UNCHANGED <<now, health>>
        PROVE  WaitsAreBounded'
    BY <2>2 DEF WaitsAreBounded, Justified, health
  \* Nobody is told less, and what was justified or excused is so yet.
  <2>3. ASSUME told' \in [Account -> Nat], \A a \in Account : told[a] <= told'[a],
               now' \in Nat, now <= now'
        PROVE  /\ \A a \in Account : cool'[a] = cool[a] => Rested(a)
               /\ \A a \in Account, m \in Model : hold'[a][m] = hold[a][m] => Excused(a, m)
    <3>1. ASSUME NEW a \in Account, cool'[a] = cool[a]
          PROVE  Rested(a)
      <4>1. cool[a] \in Nat /\ Justified(a, cool[a])
        BY <2>1 DEF WaitsAreBounded
      <4>2. Justified(a, cool[a])' <=> (cool'[a] <= now' + MaxReported
               /\ (cool'[a] <= told'[a] \/ \E k \in Kind : cool'[a] <= now' + Backoff[k].max))
        BY DEF Justified
      <4>3. \A until \in Nat : Justified(a, until) => Justified(a, until)'
        BY <2>1, <2>3, StaysJustified
      <4>. QED
        BY <3>1, <4>1, <4>3 DEF Justified
    <3>2. ASSUME NEW a \in Account, NEW m \in Model, hold'[a][m] = hold[a][m]
          PROVE  Excused(a, m)
      <4>1. hold[a][m] \in Nat
        BY <2>1
      <4>2. hold[a][m] <= now + HoldFor \/ Justified(a, hold[a][m])
        BY DEF WaitsAreBounded
      <4>3. \A until \in Nat : Justified(a, until) => Justified(a, until)'
        BY <2>1, <2>3, StaysJustified
      <4>4. CASE hold[a][m] <= now + HoldFor
        BY <2>1, <2>3, <3>2, <4>1, <4>4
      <4>5. CASE Justified(a, hold[a][m])
        BY <3>2, <4>1, <4>3, <4>5 DEF Justified
      <4>. QED
        BY <4>2, <4>4, <4>5
    <3>. QED
      BY <3>1, <3>2
  <2>4. ASSUME NEW a, now' = now, hold' = hold, told' = told, cool' = [cool EXCEPT ![a] = 0]
        PROVE  WaitsAreBounded'
    <3>1. ASSUME NEW b \in Account
          PROVE  Rested(b)
      <4>1. CASE cool'[b] = cool[b]
        BY <2>1, <2>3, <2>4, <4>1
      <4>2. CASE cool'[b] # cool[b]
        <5>1. cool'[b] = 0 /\ told'[b] \in Nat
          BY <2>1, <2>4, <4>2
        <5>. QED
          BY <2>1, <2>4, <5>1 DEF Justified
      <4>. QED
        BY <4>1, <4>2
    <3>. QED
      BY <2>1, <2>3, <2>4, <3>1 DEF WaitsAreBounded
  <2>5. ASSUME NEW a \in Account, NEW kind \in Kind, NEW reset \in Nat,
               ReportFailure(a, kind, reset), now' = now
        PROVE  WaitsAreBounded'
    <3>1. failures'[a] \in 1 .. MaxFailures /\ Says(a, reset) /\ hold' = hold
      BY <2>1, <2>5, ConstantTypes DEF ReportFailure, MinOf
    <3> DEFINE until == now + Wait(kind, failures'[a], reset)
    <3>2. /\ until \in Nat /\ told' \in [Account -> Nat]
          /\ \A b \in Account : told[b] <= told'[b]
      BY <2>1, <2>5, <3>1, WaitJustified
    <3>3. until <= now' + MaxReported /\ (until <= told'[a] \/ \E k \in Kind : until <= now' + Backoff[k].max)
      BY <2>1, <2>5, <3>1, WaitJustified
    <3>4. cool' = [cool EXCEPT ![a] = until]
      BY <2>5 DEF ReportFailure
    <3> HIDE DEF until
    <3>5. \A b \in Account : cool'[b] = cool[b] \/ (b = a /\ cool'[b] = until)
      BY <2>1, <3>4
    <3>6. \A b \in Account : Rested(b)
      BY <2>1, <2>3, <2>5, <3>2, <3>3, <3>5 DEF Justified
    <3>. QED
      BY <2>1, <2>3, <2>5, <3>1, <3>2, <3>6 DEF WaitsAreBounded
  <2>7. ASSUME NEW r \in Request, Work(r)
        PROVE  WaitsAreBounded'
    <3>1. CASE Token(r)
      <4>1. chosen[r] \in Account
        BY <3>1 DEF Inv, Placed, Choosing, Token
      <4>. QED
        BY <2>2, <2>5, <3>1, <4>1, ConstantTypes DEF Token
    <3>2. CASE Succeed(r)
      BY <2>4, <3>2 DEF Succeed, ReportSuccess
    <3>3. CASE Fail(r)
      <4>1. lease[r] \in Account /\ now' = now
        BY <3>3 DEF Inv, Placed, Fail
      <4>2. PICK kind \in Kind, reset \in Resets :
               \/ ReportFailure(lease[r], kind, reset)
               \/ ReportModelFailure(lease[r], serving[r], kind, reset)
        BY <3>3 DEF Fail
      <4>3. reset \in Nat
        BY PoolAssumption DEF PoolAssumption
      <4>4. CASE ReportFailure(lease[r], kind, reset)
        BY <2>5, <4>1, <4>3, <4>4
      <4>5. CASE ReportModelFailure(lease[r], serving[r], kind, reset)
        <5> DEFINE until == now + Wait(kind, 1, reset)
        <5>1. 1 \in 1 .. MaxFailures /\ Says(lease[r], reset)
          BY <4>5, ConstantTypes DEF ReportModelFailure
        <5>2. /\ until \in Nat /\ told' \in [Account -> Nat]
              /\ \A b \in Account : told[b] <= told'[b]
              /\ until <= now' + MaxReported
              /\ until <= told'[lease[r]] \/ \E k \in Kind : until <= now' + Backoff[k].max
          BY <2>1, <4>1, <4>3, <5>1, WaitJustified
        <5>4. hold' = [hold EXCEPT ![lease[r]][serving[r]] = until] /\ cool' = cool
          BY <4>5 DEF ReportModelFailure
        <5> HIDE DEF until
        <5>5. \A b \in Account, n \in Model :
                hold'[b][n] = hold[b][n] \/ (b = lease[r] /\ hold'[b][n] = until)
          BY <2>1, <4>1, <5>4
        <5>6. ASSUME NEW b \in Account, NEW n \in Model
              PROVE  Excused(b, n)
          <6>1. CASE hold'[b][n] = hold[b][n]
            BY <2>1, <2>3, <4>1, <5>2, <6>1
          <6>2. CASE b = lease[r] /\ hold'[b][n] = until
            <7>1. hold'[b][n] <= now' + MaxReported
                  /\ (hold'[b][n] <= told'[b] \/ \E k \in Kind : hold'[b][n] <= now' + Backoff[k].max)
              BY <5>2, <6>2
            <7>. QED
              BY <7>1 DEF Justified
          <6>. QED
            BY <5>5, <6>1, <6>2
        <5>7. \A b \in Account : Rested(b)
          BY <2>1, <2>3, <4>1, <5>2, <5>4
        <5>. QED
          BY <5>6, <5>7, Zenon DEF WaitsAreBounded
      <4>. QED
        BY <4>2, <4>4, <4>5
    <3>4. QED
      BY <2>2, <2>7, <3>1, <3>2, <3>3 DEF Work, List, Prefer, Pick, Remember, Hold, Swap,
         GiveUp, Repeat, Done
  <2>8. CASE Operate
    <3>1. PICK a \in Account : \/ TogglePause(a) \/ Reset(a) \/ NoteRoom(a)
                               \/ \E m \in Offers[a] : FindFailing(a, m) \/ FindWorking(a, m)
      BY <2>8 DEF Operate
    <3>2. CASE TogglePause(a) \/ NoteRoom(a)
      BY <2>2, <3>2 DEF TogglePause, NoteRoom
    <3>3. CASE Reset(a)
      BY <2>4, <3>3 DEF Reset
    <3>4. ASSUME NEW m \in Offers[a], FindFailing(a, m) \/ FindWorking(a, m)
          PROVE  WaitsAreBounded'
      <4>1. m \in Model /\ now' = now /\ cool' = cool /\ told' = told
        BY <3>4 DEF Model, FindFailing, FindWorking
      <4>2. PICK until \in Nat : /\ hold' = [hold EXCEPT ![a][m] = until]
                                 /\ until = hold[a][m] \/ until <= now + HoldFor
        <5>1. hold[a][m] \in Nat
          BY <2>1, <4>1
        <5>2. MaxOf(hold[a][m], now + HoldFor) \in {hold[a][m], now + HoldFor} /\ now + HoldFor \in Nat
          BY <2>1 DEF MaxOf
        <5>3. 0 \in Nat /\ 0 <= now + HoldFor
          BY <2>1
        <5>4. CASE FindFailing(a, m)
          <6> DEFINE longer == MaxOf(hold[a][m], now + HoldFor)
          <6>1. longer \in Nat /\ (longer = hold[a][m] \/ longer <= now + HoldFor)
            BY <5>1, <5>2
          <6>2. hold' = [hold EXCEPT ![a][m] = longer]
            BY <5>4 DEF FindFailing
          <6> HIDE DEF longer
          <6>. QED
            BY <6>1, <6>2
        <5>5. CASE FindWorking(a, m)
          BY <5>3, <5>5 DEF FindWorking
        <5>. QED
          BY <3>4, <5>4, <5>5
      <4>3. \A b \in Account, n \in Model :
              hold'[b][n] = hold[b][n] \/ hold'[b][n] <= now' + HoldFor
        BY <2>1, <4>1, <4>2
      <4>. QED
        BY <2>1, <2>3, <4>1, <4>3 DEF WaitsAreBounded
    <3>. QED
      BY <3>1, <3>2, <3>3, <3>4
  <2>9. CASE Tick
    <3>1. now' = now + 1 /\ cool' = cool /\ hold' = hold /\ told' = told
      BY <2>9 DEF Tick, health
    <3>. QED
      BY <2>1, <2>3, <3>1 DEF WaitsAreBounded
  <2>10. ASSUME NEW r \in Request, Arrive(r)
        PROVE  WaitsAreBounded'
    BY <2>2, <2>10 DEF Arrive
  <2>11. CASE UNCHANGED vars
    BY <2>2, <2>11 DEF vars
  <2>. QED
    BY <2>7, <2>8, <2>9, <2>10, <2>11 DEF Next
<1>. QED
  BY <1>1, <1>2, InvHolds, PTL DEF Spec

\* The wait RetryAfter gives is the shortest there is, and none once an account
\* could serve.
LEMMA ShortestWait ==
  ASSUME TypeOK, NEW w \in Seq(Model), NEW c, Offered(c, w)
  PROVE  /\ c.set = {} \/ Free(c) # {} => RetryAfter(c) = 0
         /\ c.set # {} /\ Free(c) = {} =>
              /\ RetryAfter(c) \in Nat \ {0}
              /\ \A a \in c.set : now + RetryAfter(c) <= Back(c, a)
              /\ \E a \in c.set : now + RetryAfter(c) = Back(c, a)
<1> DEFINE waits == {Back(c, a) - now : a \in c.set}
<1>1. RetryAfter(c) = IF c.set = {} \/ Free(c) # {} THEN 0
                      ELSE CHOOSE d \in waits : \A e \in waits : d <= e
  BY DEF RetryAfter
<1>2. ASSUME c.set # {}, Free(c) = {}
      PROVE  /\ RetryAfter(c) \in Nat \ {0}
             /\ \A a \in c.set : now + RetryAfter(c) <= Back(c, a)
             /\ \E a \in c.set : now + RetryAfter(c) = Back(c, a)
  <2>1. now \in Nat /\ \A a \in c.set : Back(c, a) \in Nat /\ now < Back(c, a)
    BY <1>2, BackType DEF Free, TypeOK
  <2>2. waits \in SUBSET (Nat \ {0}) /\ waits # {}
    BY <1>2, <2>1
  <2>3. \E d \in waits : \A e \in waits : d <= e
    <3> HIDE DEF waits
    <3>. QED
      BY <2>2, LeastNumber
  <2>4. RetryAfter(c) \in waits /\ \A e \in waits : RetryAfter(c) <= e
    <3> HIDE DEF waits
    <3>. QED
      BY <1>1, <1>2, <2>3
  <2>5. \A a \in c.set : RetryAfter(c) <= Back(c, a) - now
    BY <2>4
  <2>6. \E a \in c.set : RetryAfter(c) = Back(c, a) - now
    BY <2>4
  <2>7. RetryAfter(c) \in Nat \ {0}
    BY <2>2, <2>4
  <2> HIDE DEF waits
  <2>. QED
    BY <2>1, <2>5, <2>6, <2>7
<1>. QED
  BY <1>1, <1>2

\* What RetryIsHonest says of a set of candidates.
Honest(c) ==
  LET wait == RetryAfter(c)
      AllRest(t) == \A a \in c.set : Resting(c, a, t)
  IN IF c.set = {} \/ ~AllRest(now)
       THEN wait = 0
       ELSE wait > 0 /\ AllRest(now + wait - 1) /\ ~AllRest(now + wait)

LEMMA HonestWait ==
  ASSUME TypeOK, NEW w \in Seq(Model), NEW c, Offered(c, w)
  PROVE  Honest(c)
<1> DEFINE wait == RetryAfter(c)
           AllRest(t) == \A a \in c.set : Resting(c, a, t)
<1>1. now \in Nat /\ \A a \in c.set : Back(c, a) \in Nat
  BY BackType DEF TypeOK
<1>2. \A a \in c.set, t \in Nat : now <= t => (Resting(c, a, t) <=> t < Back(c, a))
  BY RestingUntilBack
<1>3. AllRest(now) <=> Free(c) = {}
  BY <1>1, <1>2 DEF Free
<1>4. c.set = {} \/ ~AllRest(now) => wait = 0
  BY <1>3, ShortestWait
<1>5. ASSUME c.set # {}, AllRest(now)
      PROVE  wait > 0 /\ AllRest(now + wait - 1) /\ ~AllRest(now + wait)
  <2>1. /\ wait \in Nat \ {0}
        /\ \A a \in c.set : now + wait <= Back(c, a)
        /\ \E a \in c.set : now + wait = Back(c, a)
    BY <1>3, <1>5, ShortestWait
  <2> HIDE DEF wait
  <2>2. now + wait \in Nat /\ now + wait - 1 \in Nat /\ now <= now + wait - 1
        /\ now <= now + wait
    BY <1>1, <2>1
  <2>3. AllRest(now + wait - 1)
    BY <1>1, <1>2, <2>1, <2>2
  <2>4. ~AllRest(now + wait)
    BY <1>1, <1>2, <2>1, <2>2
  <2>. QED
    BY <2>1, <2>3, <2>4
<1>. QED
  BY <1>4, <1>5 DEF Honest

\* RetryIsHonest: a Retry-After names the first moment an account is out of its
\* cooldowns, and is none when one already is (Pool.RetryAfter).
THEOREM RetryIsHonestHolds == Spec => []RetryIsHonest
<1>1. ASSUME TypeOK, NEW w \in Wanted PROVE Honest(Candidates(w, {}))
  BY <1>1, ModelsOfWanted, CandidatesOffered, HonestWait
<1>2. TypeOK => RetryIsHonest
  BY <1>1 DEF Honest, RetryIsHonest
<1>. QED
  BY <1>2, TypeHolds, PTL

-----------------------------------------------------------------------------
(* A request, from its key to its row *)

AnyName == Real \cup {Family, "none", "slot"} \cup {shape.model : shape \in Shapes}
ShapeLike == [creds : [{"authorization", "x-api-key", "x-goog-api-key", "query"} -> STRING],
              api : STRING, call : STRING, body : STRING, model : AnyName, max : Nat, thinking : Nat,
              fits : BOOLEAN, counts : BOOLEAN, names : BOOLEAN, title : BOOLEAN, chat : BOOLEAN]
Holder == [disabled : BOOLEAN, direct : BOOLEAN, barred : SUBSET (Real \cup {Family}), to : Real \cup {Family}]
Body == [model : AnyName, max : Nat, thinking : Nat]
Coming == {"auth", "call", "body", "route", "prepare"}
Refusal == {"no such key", "disabled", "rate", "own names only", "not allowed", "no account", "not on",
            "untranslatable"}
Wrong == {"none", "network", "gone", "off", "none left"}
Asking == [pc : Coming \cup {"try", "done", "title", "leaving", "left"}, shape : ShapeLike, key : Holder,
           model : AnyName, slot : BOOLEAN, family : BOOLEAN, body : Body, sent : Seq(Body), tries : Nat,
           err : Wrong, answer : Nat, leased : AnyName, held : {0, 429}, considered : BOOLEAN, came : Nat]
Logged == [status : Nat, rejected : BOOLEAN, model : AnyName, naming : BOOLEAN,
           error : Refusal \cup Wrong \cup {""}]

InferenceTypes ==
  /\ switch \in BOOLEAN /\ turned \in Nat /\ leasable \subseteq Real /\ holder \in Holder
  /\ asks \in [Inbound -> {NoAsk} \cup Asking]
  /\ file \in [Inbound -> Seq(Logged)]
  /\ counted \in [running : SUBSET Inbound, inflight : SUBSET Inbound, trimmer : SUBSET Inbound]

\* What a request has not come to yet: a row, and an upstream.
NothingYet(s, rows) ==
  /\ s.pc \in Coming \cup {"try", "done"} => rows = <<>> /\ ~ s.considered
  /\ s.pc \in Coming => s.sent = <<>>
  /\ s.pc \in Coming \cup {"try"} => s.answer = 0 /\ s.err = "none"
  /\ s.pc = "title" => ~ s.considered

\* Where it goes: a slot's requests to a model of the gateway's, a family's to
\* one of its versions.
Bound(s) ==
  s.pc \in {"prepare", "try"} => /\ s.model # Family
                                 /\ s.slot => s.model \in Real
                                 /\ s.family => s.slot /\ s.model \in Versions

\* The body as it came, fitted at once where it is known what serves it.
AsItCame(s) == [model |-> s.model, max |-> s.shape.max, thinking |-> s.shape.thinking]
Fitted(s) ==
  s.pc = "try" => s.body = IF s.slot /\ ~ s.family THEN Fit(AsItCame(s), OutCap[s.model]) ELSE AsItCame(s)

\* The version leased last is the one sent to last.
SentTo(s) ==
  s.pc \in {"try", "done"} => (s.sent # <<>> => s.sent[Len(s.sent)].model = Served(s))

\* A body sent for a request.
RightBody(s, b) ==
  /\ b.model # Family
  /\ b.max = IF s.slot /\ OutCap[b.model] # 0 THEN Least(s.shape.max, OutCap[b.model]) ELSE s.shape.max
  /\ s.shape.thinking < s.shape.max => b.thinking < b.max
  /\ b.max = s.shape.max => b.thinking = s.shape.thinking
AllRight(s) == \A i \in DOMAIN s.sent : RightBody(s, s.sent[i])

\* While nobody has turned anything, the request's is the operator's word: its
\* key, then its route, then each model it was sent to.
Allowed(m) ==
  /\ m \notin holder.barred
  /\ m # "none" => m \in leasable
  /\ ~ holder.direct => m = holder.to \/ (holder.to = Family /\ m \in Versions)
Unturned(s) ==
  s.came = turned =>
    /\ s.pc \in Coming \cup {"try", "done"} => switch
    /\ s.pc \in (Coming \ {"auth"}) \cup {"try"} => s.key = holder /\ ~ holder.disabled
    /\ s.pc \in {"prepare", "try"} /\ ~ holder.direct =>
         IF s.family THEN holder.to = Family ELSE s.model = holder.to
    /\ s.sent # <<>> => switch /\ ~ holder.disabled
    /\ \A i \in DOMAIN s.sent : Allowed(s.sent[i].model)

\* Its row, once it has one.
InTheLog(s, rows) ==
  s.pc \in {"title", "leaving", "left"} =>
    /\ rows = <<>> => s.sent = <<>> /\ s.answer \in {400, 404, 429, 500}
    /\ rows # <<>> =>
         /\ Len(rows) = 1
         /\ rows[1].rejected => s.sent = <<>> /\ rows[1].status = s.answer
         /\ s.sent # <<>> => /\ rows[1].model = s.sent[Len(s.sent)].model
                             /\ rows[1].status \in {s.answer, 0}
                             /\ rows[1].status = 0 => s.answer \in {0, 404, 502, 503}
         /\ rows[1].naming => ~ s.considered
         /\ s.pc = "title" => (rows[1].naming => s.shape.names)

AskStands(s, rows) ==
  IF s = NoAsk THEN rows = <<>>
  ELSE /\ s.came <= turned
       /\ NothingYet(s, rows) /\ Bound(s) /\ Fitted(s) /\ SentTo(s) /\ AllRight(s) /\ Unturned(s)
       /\ InTheLog(s, rows)

\* Running counts a request while it is attempted, and nobody counts one that
\* has left.
CountedWhile(q) ==
  /\ q \in counted.running => asks[q].pc \in {"try", "done"}
  /\ asks[q].pc = "left" => q \notin counted.inflight \cup counted.trimmer

InferenceKept ==
  /\ InferenceTypes
  /\ \A q \in Inbound : AskStands(asks[q], file[q]) /\ CountedWhile(q)

LEMMA RequestForms ==
  /\ Shapes \subseteq ShapeLike
  /\ "none" \in AnyName /\ Family \in AnyName /\ Real \subseteq AnyName /\ Versions \subseteq Real
  /\ Family \notin Real /\ Family # "none" /\ "none" \notin Real
  /\ Versions \subseteq AnyName
<1>1. \A shape \in Shapes : shape.model \in AnyName
  BY DEF AnyName
<1>2. ASSUME NEW shape \in Shapes
      PROVE  shape \in ShapeLike
  <2>1. shape \in [creds : [{"authorization", "x-api-key", "x-goog-api-key", "query"} -> STRING],
                   api : STRING, call : STRING, body : STRING, model : STRING, max : Nat, thinking : Nat,
                   fits : BOOLEAN, counts : BOOLEAN, names : BOOLEAN, title : BOOLEAN, chat : BOOLEAN]
    BY RequestsAre DEF RequestsAre
  <2>2. QED
    BY <1>1, <2>1 DEF ShapeLike
<1>3. QED
  BY <1>2, FamilyIsServed DEF FamilyIsServed, AnyName

\* FitMaxTokens lowers to the cap, and keeps the thinking below.
LEMMA Fits ==
  ASSUME NEW b \in Body, NEW limit \in Nat
  PROVE  /\ Fit(b, limit) \in Body /\ Fit(b, limit).model = b.model
         /\ Fit(b, limit).max = IF limit # 0 THEN Least(b.max, limit) ELSE b.max
         /\ b.thinking < b.max => Fit(b, limit).thinking < Fit(b, limit).max
         /\ Fit(b, limit).max = b.max => Fit(b, limit).thinking = b.thinking
<1>1. b.max \in Nat /\ b.thinking \in Nat /\ b.model \in AnyName
  BY DEF Body
<1>2. CASE limit = 0 \/ b.max <= limit
  <2>1. Fit(b, limit) = b
    BY <1>2 DEF Fit
  <2>2. QED
    BY <1>1, <1>2, <2>1 DEF Least
<1>3. CASE ~ (limit = 0 \/ b.max <= limit)
  <2> DEFINE to == IF b.thinking >= limit THEN limit - 1 ELSE b.thinking
             c == [b EXCEPT !.max = limit, !.thinking = to]
  <2>1. Fit(b, limit) = c
    BY <1>3 DEF Fit
  <2>2. to \in Nat /\ to < limit
    BY <1>1, <1>3
  <2>3. c \in Body /\ c.model = b.model /\ c.max = limit /\ c.thinking = to
    BY <2>2 DEF Body
  <2> HIDE DEF c, to
  <2>4. limit # 0 /\ limit < b.max
    BY <1>1, <1>3
  <2>5. QED
    BY <1>1, <2>1, <2>2, <2>3, <2>4 DEF Least
<1>4. QED
  BY <1>2, <1>3

\* A request that has come.
LEMMA AskHere ==
  ASSUME InferenceKept, NEW q \in Inbound, asks[q].pc # "none"
  PROVE  /\ asks[q] \in Asking /\ asks[q].came <= turned
         /\ NothingYet(asks[q], file[q]) /\ Bound(asks[q]) /\ Fitted(asks[q]) /\ SentTo(asks[q])
         /\ AllRight(asks[q]) /\ Unturned(asks[q]) /\ InTheLog(asks[q], file[q])
         /\ CountedWhile(q)
<1>1. NoAsk.pc = "none"
  BY DEF NoAsk
<1>2. asks[q] \in {NoAsk} \cup Asking /\ asks[q] # NoAsk
  BY <1>1 DEF InferenceKept, InferenceTypes
<1>3. AskStands(asks[q], file[q]) /\ CountedWhile(q)
  BY DEF InferenceKept
<1>4. QED
  BY <1>2, <1>3 DEF AskStands

\* What a step does to what is counted, but for the request it is of.
OthersCounted(q) ==
  /\ counted' \in [running : SUBSET Inbound, inflight : SUBSET Inbound, trimmer : SUBSET Inbound]
  /\ \A p \in Inbound \ {q} : /\ p \in counted'.running => p \in counted.running
                              /\ p \in counted'.inflight => p \in counted.inflight
                              /\ p \in counted'.trimmer => p \in counted.trimmer

\* A step of one request.
LEMMA OneAsks ==
  ASSUME InferenceKept, NEW q \in Inbound, NEW s1 \in Asking, NEW rows \in Seq(Logged),
         asks' = [asks EXCEPT ![q] = s1], file' = [file EXCEPT ![q] = rows],
         UNCHANGED operatorVars, AskStands(s1, rows), OthersCounted(q),
         q \in counted'.running => s1.pc \in {"try", "done"},
         s1.pc = "left" => q \notin counted'.inflight \cup counted'.trimmer
  PROVE  InferenceKept'
<1>1. /\ switch' = switch /\ holder' = holder /\ leasable' = leasable /\ turned' = turned
  BY DEF operatorVars
<1>2. InferenceTypes
  BY DEF InferenceKept
<1>3. asks' \in [Inbound -> {NoAsk} \cup Asking] /\ file' \in [Inbound -> Seq(Logged)]
  BY <1>2 DEF InferenceTypes
<1>4. InferenceTypes'
  BY <1>1, <1>2, <1>3 DEF InferenceTypes, OthersCounted
<1>5. asks'[q] = s1 /\ file'[q] = rows
  BY <1>2 DEF InferenceTypes
<1>6. \A p \in Inbound \ {q} : asks'[p] = asks[p] /\ file'[p] = file[p]
  BY <1>2 DEF InferenceTypes
<1>7. AskStands(asks[q], file[q])' /\ CountedWhile(q)'
  <2>1. \A m : Allowed(m)' <=> Allowed(m)
    BY <1>1 DEF Allowed
  <2>2. Unturned(s1) => Unturned(asks[q])'
    BY <1>1, <1>5, <2>1 DEF Unturned
  <2>3. AskStands(asks[q], file[q])'
    BY <1>1, <1>5, <2>2 DEF AskStands, NothingYet, Bound, Fitted, AsItCame, SentTo, AllRight, RightBody, InTheLog
  <2>4. QED
    BY <1>5, <2>3 DEF CountedWhile
<1>8. ASSUME NEW p \in Inbound \ {q}
      PROVE  AskStands(asks[p], file[p])' /\ CountedWhile(p)'
  <2>1. AskStands(asks[p], file[p]) /\ CountedWhile(p)
    BY DEF InferenceKept
  <2>2. \A m : Allowed(m)' <=> Allowed(m)
    BY <1>1 DEF Allowed
  <2>3. Unturned(asks[p]) => Unturned(asks[p])'
    BY <1>1, <1>6, <2>2 DEF Unturned
  <2>4. AskStands(asks[p], file[p])'
    BY <1>1, <1>6, <2>1, <2>3
       DEF AskStands, NothingYet, Bound, Fitted, AsItCame, SentTo, AllRight, RightBody, InTheLog
  <2>5. QED
    BY <1>6, <2>1, <2>4 DEF CountedWhile, OthersCounted
<1>9. QED
  BY <1>4, <1>7, <1>8 DEF InferenceKept

LEMMA OneRow ==
  ASSUME NEW row \in Logged
  PROVE  /\ Append(<<>>, row) \in Seq(Logged) /\ Append(<<>>, row) # <<>>
         /\ Len(Append(<<>>, row)) = 1 /\ Append(<<>>, row)[1] = row
<1>1. <<>> \in Seq(Logged) /\ Len(<<>>) = 0
  OBVIOUS
<1>2. QED
  BY <1>1, AppendProperties

\* One that has not got to an upstream has no row, and is not running.
LEMMA NotUpYet ==
  ASSUME InferenceKept, NEW q \in Inbound, asks[q].pc \in Coming \cup {"none"}
  PROVE  file[q] = <<>> /\ q \notin counted.running
<1>1. CountedWhile(q) /\ AskStands(asks[q], file[q])
  BY DEF InferenceKept
<1>2. asks[q].pc \notin {"try", "done"}
  BY DEF Coming
<1>3. q \notin counted.running
  BY <1>1, <1>2 DEF CountedWhile
<1>4. file[q] = <<>>
  <2>1. asks[q] \in {NoAsk} \cup Asking
    BY DEF InferenceKept, InferenceTypes
  <2>2. asks[q] = NoAsk \/ asks[q].pc \in Coming
    BY <2>1 DEF Asking, Coming
  <2>3. QED
    BY <1>1, <2>2 DEF AskStands, NothingYet
<1>5. QED
  BY <1>3, <1>4

\* What a request is turned away as: one nothing was sent for.
Away(s) == /\ s.sent = <<>> /\ s.came <= turned /\ ~ s.considered

LEMMA AwayStands ==
  ASSUME NEW s \in Asking, Away(s), s.pc = "leaving", NEW rows,
         rows = <<>> => s.answer \in {400, 404, 429, 500},
         rows # <<>> => Len(rows) = 1 /\ ~ rows[1].naming /\ (rows[1].rejected => rows[1].status = s.answer)
  PROVE  AskStands(s, rows)
<1>1. s # NoAsk /\ s.pc \notin Coming \cup {"try", "done", "none", "title"}
  BY DEF NoAsk, Coming
<1>2. NothingYet(s, rows) /\ Bound(s) /\ Fitted(s) /\ SentTo(s)
  BY <1>1 DEF NothingYet, Bound, Fitted, SentTo, Coming
<1>3. DOMAIN s.sent = {}
  BY DEF Away
<1>4. AllRight(s) /\ Unturned(s)
  BY <1>1, <1>3 DEF AllRight, Unturned, Away
<1>5. InTheLog(s, rows)
  BY <1>1 DEF InTheLog, Away
<1>6. QED
  BY <1>1, <1>2, <1>4, <1>5 DEF AskStands, Away

Answering(s, status) == [s EXCEPT !.pc = "leaving", !.answer = status]
LEMMA LastWord ==
  ASSUME NEW s \in Asking, NEW status \in Nat
  PROVE  LET s1 == Answering(s, status)
         IN  /\ s1 \in Asking /\ s1.pc = "leaving" /\ s1.answer = status
             /\ s1.sent = s.sent /\ s1.came = s.came /\ s1.considered = s.considered
<1> DEFINE s1 == [s EXCEPT !.pc = "leaving", !.answer = status]
<1>1. s1 \in Asking
  BY DEF Asking
<1>2. s1.pc = "leaving" /\ s1.answer = status
  BY DEF Asking
<1>3. s1.sent = s.sent /\ s1.came = s.came /\ s1.considered = s.considered
  BY DEF Asking
<1>4. Answering(s, status) = s1
  BY DEF Answering
<1> HIDE DEF s1
<1>5. QED
  BY <1>1, <1>2, <1>3, <1>4

\* Turned away with no row, and with one.
LEMMA TurnedAway ==
  ASSUME InferenceKept, NEW q \in Inbound, asks[q].pc \in Coming \cup {"none"}, NEW s \in Asking, Away(s),
         NEW status \in {400, 404, 429, 500}, Turn(q, s, status), UNCHANGED operatorVars,
         OthersCounted(q), q \notin counted'.running
  PROVE  InferenceKept'
<1> DEFINE s1 == Answering(s, status)
<1>1. /\ s1 \in Asking /\ s1.pc = "leaving" /\ s1.answer = status
      /\ s1.sent = s.sent /\ s1.came = s.came /\ s1.considered = s.considered
  BY LastWord
<1>2. asks' = [asks EXCEPT ![q] = s1] /\ file' = file
  BY DEF Turn, Answered, Answering, Step, Unfiled
<1> HIDE DEF s1
<1>3. file[q] = <<>>
  BY NotUpYet
<1>4. file \in [Inbound -> Seq(Logged)]
  BY DEF InferenceKept, InferenceTypes
<1>5. file[q] \in Seq(Logged) /\ file' = [file EXCEPT ![q] = file[q]]
  BY <1>2, <1>4
<1>6. AskStands(s1, file[q])
  <2>1. Away(s1)
    BY <1>1 DEF Away
  <2>2. QED
    BY <1>1, <1>3, <2>1, AwayStands
<1>7. s1.pc # "left"
  BY <1>1
<1>8. QED
  BY <1>1, <1>2, <1>5, <1>6, <1>7, OneAsks

LEMMA FiledAway ==
  ASSUME InferenceKept, NEW q \in Inbound, asks[q].pc \in Coming \cup {"none"}, NEW s \in Asking, Away(s),
         NEW status \in Nat, NEW row \in Logged, ~ row.naming, row.status = status,
         Answered(q, s, status), Filed(q, row), UNCHANGED operatorVars,
         OthersCounted(q), q \notin counted'.running
  PROVE  InferenceKept'
<1> DEFINE s1 == Answering(s, status)
           rows == Append(<<>>, row)
<1>1. /\ s1 \in Asking /\ s1.pc = "leaving" /\ s1.answer = status
      /\ s1.sent = s.sent /\ s1.came = s.came /\ s1.considered = s.considered
  BY LastWord
<1>2. asks' = [asks EXCEPT ![q] = s1]
  BY DEF Answered, Answering, Step
<1>3. file[q] = <<>>
  BY NotUpYet
<1>4. file' = [file EXCEPT ![q] = rows]
  BY <1>3 DEF Filed
<1>5. rows \in Seq(Logged) /\ rows # <<>> /\ Len(rows) = 1 /\ rows[1] = row
  BY OneRow
<1> HIDE DEF s1, rows
<1>6. AskStands(s1, rows)
  <2>1. Away(s1)
    BY <1>1 DEF Away
  <2>2. QED
    BY <1>1, <1>5, <2>1, AwayStands
<1>7. s1.pc # "left"
  BY <1>1
<1>8. QED
  BY <1>1, <1>2, <1>4, <1>5, <1>6, <1>7, OneAsks

LEMMA Refused ==
  ASSUME InferenceKept, NEW q \in Inbound, asks[q].pc \in Coming \cup {"none"}, NEW s \in Asking, Away(s),
         NEW status \in Nat,
         NEW why \in Refusal,
         Refuse(q, s, status, why), UNCHANGED operatorVars, OthersCounted(q), q \notin counted'.running
  PROVE  InferenceKept'
<1>1. Answered(q, s, status) /\ Filed(q, Row(s, status, TRUE, why))
  BY DEF Refuse
<1>2. s.model \in AnyName
  BY DEF Asking
<1>3. Row(s, status, TRUE, why) \in Logged
  BY <1>2 DEF Row, Logged, Refusal
<1>4. ~ Row(s, status, TRUE, why).naming /\ Row(s, status, TRUE, why).status = status
  BY DEF Row
<1>5. QED
  BY <1>1, <1>3, <1>4, FiledAway

\* A step that leaves what is counted.
LEMMA NothingCounted ==
  ASSUME InferenceKept, counted' = counted
  PROVE  \A q \in Inbound : OthersCounted(q) /\ (asks[q].pc \notin {"try", "done"} => q \notin counted'.running)
<1>1. counted \in [running : SUBSET Inbound, inflight : SUBSET Inbound, trimmer : SUBSET Inbound]
  BY DEF InferenceKept, InferenceTypes
<1>2. \A q \in Inbound : CountedWhile(q)
  BY DEF InferenceKept
<1>3. QED
  BY <1>1, <1>2 DEF OthersCounted, CountedWhile

\* One more step on the way, with nothing sent, filed or counted yet.
LEMMA GoesOn ==
  ASSUME InferenceKept, NEW q \in Inbound, asks[q].pc \in Coming \cup {"none"}, NEW s \in Asking, Away(s),
         s.pc \in Coming \cup {"try"}, s.answer = 0, s.err = "none", Bound(s), Fitted(s), Unturned(s),
         Step(q, s), Unfiled, UNCHANGED operatorVars, OthersCounted(q),
         q \in counted'.running => s.pc = "try"
  PROVE  InferenceKept'
<1>1. file[q] = <<>>
  BY NotUpYet
<1>2. file \in [Inbound -> Seq(Logged)]
  BY DEF InferenceKept, InferenceTypes
<1>3. /\ asks' = [asks EXCEPT ![q] = s] /\ file' = [file EXCEPT ![q] = file[q]]
      /\ file[q] \in Seq(Logged)
  BY <1>2 DEF Step, Unfiled
<1>4. s # NoAsk /\ s.pc \notin {"left", "title", "leaving"}
  BY DEF NoAsk, Coming
<1>5. NothingYet(s, file[q]) /\ SentTo(s) /\ InTheLog(s, file[q])
  BY <1>1, <1>4 DEF NothingYet, SentTo, InTheLog, Away
<1>6. AllRight(s)
  BY DEF AllRight, Away
<1>7. AskStands(s, file[q])
  BY <1>4, <1>5, <1>6 DEF AskStands, Away
<1>8. QED
  BY <1>3, <1>4, <1>7, OneAsks

-----------------------------------------------------------------------------

LEMMA ServeKeeps ==
  ASSUME InferenceKept, NEW q \in Inbound, NEW shape \in Shapes, Serve(q, shape)
  PROVE  InferenceKept'
<1> DEFINE s == [pc |-> "auth", shape |-> shape, key |-> holder, model |-> "none", slot |-> FALSE,
                 family |-> FALSE, body |-> NoBody, sent |-> <<>>, tries |-> 0, err |-> "none", answer |-> 0,
                 leased |-> "none", held |-> 0, considered |-> FALSE, came |-> turned]
<1>1. /\ StandsAt(q, "none") /\ (IF switch THEN Step(q, s) /\ Unfiled ELSE Turn(q, s, 404))
      /\ UNCHANGED operatorVars /\ counted' = counted
  BY DEF Serve
<1>2. asks[q].pc = "none"
  BY <1>1 DEF StandsAt
<1>3. shape \in ShapeLike /\ "none" \in AnyName
  BY RequestForms
<1>4. holder \in Holder /\ turned \in Nat /\ NoBody \in Body /\ <<>> \in Seq(Body)
  BY <1>3 DEF InferenceKept, InferenceTypes, NoBody, Body
<1>5. s \in Asking
  BY <1>3, <1>4 DEF Asking, Coming, Wrong
<1>6. /\ s.pc = "auth" /\ s.sent = <<>> /\ s.came = turned /\ ~ s.considered /\ s.answer = 0
      /\ s.err = "none"
  OBVIOUS
<1> HIDE DEF s
<1>7. Away(s)
  BY <1>4, <1>6 DEF Away
<1>8. OthersCounted(q) /\ q \notin counted'.running
  BY <1>1, <1>2, NothingCounted
<1>9. CASE switch
  <2>1. Bound(s) /\ Fitted(s) /\ Unturned(s)
    <3>1. s.pc \notin (Coming \ {"auth"}) \cup {"try", "prepare"} /\ DOMAIN s.sent = {}
      BY <1>6
    <3>2. QED
      BY <1>6, <1>9, <3>1 DEF Bound, Fitted, Unturned
  <2>2. "auth" \in Coming
    BY DEF Coming
  <2>3. QED
    BY <1>1, <1>2, <1>5, <1>6, <1>7, <1>8, <1>9, <2>1, <2>2, GoesOn
<1>10. CASE ~ switch
  BY <1>1, <1>2, <1>5, <1>7, <1>8, <1>10, TurnedAway
<1>11. QED
  BY <1>9, <1>10

\* A request on its way.
LEMMA OnItsWay ==
  ASSUME InferenceKept, NEW q \in Inbound, asks[q].pc \in Coming
  PROVE  /\ asks[q] \in Asking /\ Away(asks[q]) /\ asks[q].answer = 0 /\ asks[q].err = "none"
         /\ Bound(asks[q]) /\ Unturned(asks[q]) /\ file[q] = <<>> /\ q \notin counted.running
<1>1. asks[q].pc # "none"
  BY DEF Coming
<1>2. /\ asks[q] \in Asking /\ asks[q].came <= turned
      /\ NothingYet(asks[q], file[q]) /\ Bound(asks[q]) /\ Unturned(asks[q])
  BY <1>1, AskHere
<1>3. QED
  BY <1>2, NotUpYet DEF NothingYet, Away

LEMMA requireAPIKeyKeeps ==
  ASSUME InferenceKept, NEW q \in Inbound, requireAPIKey(q)
  PROVE  InferenceKept'
<1> DEFINE s == [asks[q] EXCEPT !.key = holder]
           next == IF s.shape.api = "gemini" THEN "call" ELSE "body"
           s1 == [s EXCEPT !.pc = next]
           cred == Credential(s.shape)
<1>1. /\ StandsAt(q, "auth") /\ UNCHANGED operatorVars /\ counted' = counted
      /\ \/ Turn(q, s, 429) \/ Turn(q, s, 500)
         \/ cred # "good" /\ Refuse(q, s, 401, "no such key")
         \/ Refuse(q, s, 403, "disabled") \/ Refuse(q, s, 429, "rate")
         \/ ~ holder.disabled /\ Step(q, s1) /\ Unfiled
  <2>1. StandsAt(q, "auth") /\ UNCHANGED <<operatorVars, counted>>
    BY Zenon DEF requireAPIKey
  <2>2. \/ Turn(q, s, 429) \/ Turn(q, s, 500)
        \/ cred # "good" /\ Refuse(q, s, 401, "no such key")
        \/ Refuse(q, s, 403, "disabled") \/ Refuse(q, s, 429, "rate")
        \/ ~ holder.disabled /\ Step(q, s1) /\ Unfiled
    BY Zenon DEF requireAPIKey
  <2>3. QED
    BY <2>1, <2>2
<1>2. asks[q].pc = "auth" /\ asks[q].pc \in Coming
  BY <1>1 DEF StandsAt, Coming
<1>3. /\ asks[q] \in Asking /\ Away(asks[q]) /\ asks[q].answer = 0 /\ asks[q].err = "none"
      /\ Unturned(asks[q])
  BY <1>2, OnItsWay
<1>4. holder \in Holder
  BY DEF InferenceKept, InferenceTypes
<1>5. s \in Asking
  BY <1>3, <1>4 DEF Asking
<1>6. /\ s.pc = "auth" /\ s.key = holder /\ s.sent = asks[q].sent /\ s.came = asks[q].came
      /\ s.considered = asks[q].considered /\ s.answer = 0 /\ s.err = "none"
  BY <1>2, <1>3 DEF Asking
<1>7. Away(s)
  BY <1>3, <1>6 DEF Away
<1>8. OthersCounted(q) /\ q \notin counted'.running
  BY <1>1, <1>2, NothingCounted
<1>9. CASE Turn(q, s, 429) \/ Turn(q, s, 500)
  <2> HIDE DEF s, s1, cred
  <2>1. UNCHANGED operatorVars /\ asks[q].pc \in Coming \cup {"none"}
    BY <1>1, <1>2
  <2>2. ASSUME NEW status \in {429, 500}, Turn(q, s, status)
        PROVE  InferenceKept'
    BY <1>5, <1>7, <1>8, <2>1, <2>2, TurnedAway
  <2>3. QED
    BY <1>9, <2>2
<1>10. CASE Refuse(q, s, 401, "no such key") \/ Refuse(q, s, 403, "disabled") \/ Refuse(q, s, 429, "rate")
  <2> HIDE DEF s, s1, cred
  <2>1. UNCHANGED operatorVars /\ asks[q].pc \in Coming \cup {"none"}
    BY <1>1, <1>2
  <2>2. ASSUME NEW status \in Nat, NEW why \in Refusal, Refuse(q, s, status, why)
        PROVE  InferenceKept'
    BY <1>5, <1>7, <1>8, <2>1, <2>2, Refused
  <2>3. "no such key" \in Refusal /\ "disabled" \in Refusal /\ "rate" \in Refusal
    BY DEF Refusal
  <2>4. /\ Refuse(q, s, 401, "no such key") => InferenceKept'
        /\ Refuse(q, s, 403, "disabled") => InferenceKept'
        /\ Refuse(q, s, 429, "rate") => InferenceKept'
    <3>1. 401 \in Nat /\ 403 \in Nat /\ 429 \in Nat
      OBVIOUS
    <3>2. QED
      BY <2>2, <2>3, <3>1, Zenon
  <2>5. QED
    BY <1>10, <2>4
<1>11. CASE ~ holder.disabled /\ Step(q, s1) /\ Unfiled
  <2>1. next \in {"call", "body"} /\ next \in Coming
    BY DEF Coming
  <2> HIDE DEF next, s
  <2>2. s1 \in Asking
    BY <1>5, <2>1 DEF Asking
  <2>3. /\ s1.pc = next /\ s1.key = holder /\ s1.sent = <<>> /\ s1.came = asks[q].came
        /\ ~ s1.considered /\ s1.answer = 0 /\ s1.err = "none"
    BY <1>5, <1>6, <1>7 DEF Asking, Away
  <2> HIDE DEF s1
  <2>4. Away(s1)
    BY <1>3, <2>3 DEF Away
  <2>5. Bound(s1) /\ Fitted(s1)
    BY <2>1, <2>3 DEF Bound, Fitted
  <2>6. Unturned(s1)
    <3>1. s1.came = turned => switch
      BY <1>2, <1>3, <2>3 DEF Unturned
    <3>2. DOMAIN s1.sent = {}
      BY <2>3
    <3>3. QED
      BY <1>11, <2>1, <2>3, <3>1, <3>2 DEF Unturned
  <2>7. QED
    BY <1>1, <1>2, <1>8, <1>11, <2>1, <2>2, <2>3, <2>4, <2>5, <2>6, GoesOn
<1> HIDE DEF s, s1, cred
<1>12. QED
  BY <1>1, <1>9, <1>10, <1>11

LEMMA geminiCallKeeps ==
  ASSUME InferenceKept, NEW q \in Inbound, geminiCall(q)
  PROVE  InferenceKept'
<1> DEFINE s == asks[q]
           s1 == [s EXCEPT !.pc = "body"]
<1>1. /\ StandsAt(q, "call") /\ UNCHANGED operatorVars /\ counted' = counted
      /\ \/ Turn(q, s, 404) \/ Turn(q, s, 400)
         \/ Step(q, s1) /\ Unfiled
  BY DEF geminiCall
<1>2. s.pc = "call" /\ s.pc \in Coming /\ "body" \in Coming
  BY <1>1 DEF StandsAt, Coming
<1>3. /\ s \in Asking /\ Away(s) /\ s.answer = 0 /\ s.err = "none" /\ Unturned(s)
  BY <1>2, OnItsWay
<1>4. OthersCounted(q) /\ q \notin counted'.running
  BY <1>1, <1>2, NothingCounted
<1>5. CASE Turn(q, s, 404) \/ Turn(q, s, 400)
  BY <1>1, <1>2, <1>3, <1>4, <1>5, TurnedAway
<1>6. CASE Step(q, s1) /\ Unfiled
  <2>2. s1 \in Asking
    BY <1>2, <1>3 DEF Asking
  <2>3. /\ s1.pc = "body" /\ s1.key = s.key /\ s1.sent = <<>> /\ s1.came = s.came
        /\ ~ s1.considered /\ s1.answer = 0 /\ s1.err = "none"
    BY <1>3 DEF Asking, Away
  <2> HIDE DEF s1
  <2>4. Away(s1)
    BY <1>3, <2>3 DEF Away
  <2>5. Bound(s1) /\ Fitted(s1)
    BY <2>3 DEF Bound, Fitted
  <2>6. Unturned(s1)
    <3>1. s1.came = turned => switch /\ s.key = holder /\ ~ holder.disabled
      BY <1>2, <1>3, <2>3 DEF Unturned
    <3>2. DOMAIN s1.sent = {}
      BY <2>3
    <3>3. QED
      BY <2>3, <3>1, <3>2 DEF Unturned
  <2>7. QED
    BY <1>1, <1>2, <1>4, <1>6, <2>2, <2>3, <2>4, <2>5, <2>6, GoesOn
<1>7. QED
  BY <1>1, <1>5, <1>6

LEMMA AskForms ==
  ASSUME NEW s \in Asking
  PROVE  /\ [s EXCEPT !.slot = TRUE] \in Asking
         /\ \A m \in AnyName : [s EXCEPT !.slot = TRUE, !.model = m] \in Asking
         /\ \A m \in AnyName, slot, family \in BOOLEAN :
              [s EXCEPT !.pc = "prepare", !.slot = slot, !.family = family, !.model = m] \in Asking
         /\ \A shape \in ShapeLike : [s EXCEPT !.pc = "route", !.shape = shape] \in Asking
         /\ \A b \in Body : [s EXCEPT !.pc = "try", !.body = b] \in Asking
<1>1. [s EXCEPT !.slot = TRUE] \in Asking
  BY DEF Asking
<1>2. ASSUME NEW m \in AnyName PROVE [s EXCEPT !.slot = TRUE, !.model = m] \in Asking
  BY DEF Asking
<1>3. ASSUME NEW m \in AnyName, NEW slot \in BOOLEAN, NEW family \in BOOLEAN
      PROVE  [s EXCEPT !.pc = "prepare", !.slot = slot, !.family = family, !.model = m] \in Asking
  BY DEF Asking, Coming
<1>4. ASSUME NEW shape \in ShapeLike PROVE [s EXCEPT !.pc = "route", !.shape = shape] \in Asking
  BY DEF Asking, Coming
<1>5. ASSUME NEW b \in Body PROVE [s EXCEPT !.pc = "try", !.body = b] \in Asking
  BY DEF Asking, Coming
<1>6. QED
  BY <1>1, <1>2, <1>3, <1>4, <1>5, Zenon

LEMMA ReadBodyKeeps ==
  ASSUME InferenceKept, NEW q \in Inbound, ReadBody(q)
  PROVE  InferenceKept'
<1> DEFINE s == asks[q]
           coded == Opened(s.shape.body) = {"coded"}
           reads == Opened(s.shape.body) # {} /\ (coded => s.shape.api = "messages")
           m == IF coded THEN "none" ELSE s.shape.model
           s1 == [s EXCEPT !.pc = "route", !.shape.model = IF coded THEN "none" ELSE @]
<1>1. /\ StandsAt(q, "body") /\ UNCHANGED operatorVars
      /\ \/ Turn(q, s, 400)
         \/ Step(q, s1) /\ Unfiled
  BY DEF ReadBody
<1>2. counted' = [counted EXCEPT !.trimmer = @ \cup {q}, !.inflight = IF reads THEN @ \cup {q} ELSE @]
  BY DEF ReadBody
<1>3. s.pc = "body" /\ s.pc \in Coming /\ "route" \in Coming
  BY <1>1 DEF StandsAt, Coming
<1>4. /\ s \in Asking /\ Away(s) /\ s.answer = 0 /\ s.err = "none" /\ Unturned(s)
      /\ q \notin counted.running
  BY <1>3, OnItsWay
<1> HIDE DEF reads
<1>5. counted \in [running : SUBSET Inbound, inflight : SUBSET Inbound, trimmer : SUBSET Inbound]
  BY DEF InferenceKept, InferenceTypes
<1>6. /\ counted'.running = counted.running /\ counted'.trimmer = counted.trimmer \cup {q}
      /\ counted'.inflight = IF reads THEN counted.inflight \cup {q} ELSE counted.inflight
      /\ counted' \in [running : SUBSET Inbound, inflight : SUBSET Inbound, trimmer : SUBSET Inbound]
  BY <1>2, <1>5
<1>7. OthersCounted(q) /\ q \notin counted'.running
  BY <1>4, <1>6 DEF OthersCounted
<1> HIDE DEF coded
<1>8. CASE Turn(q, s, 400)
  BY <1>1, <1>3, <1>4, <1>7, <1>8, TurnedAway
<1>9. CASE Step(q, s1) /\ Unfiled
  <2>1. s.shape \in ShapeLike /\ m \in AnyName
    BY <1>4, RequestForms DEF Asking, ShapeLike
  <2>2. [s.shape EXCEPT !.model = m] \in ShapeLike
    BY <2>1 DEF ShapeLike
  <2> DEFINE shape1 == [s.shape EXCEPT !.model = m]
  <2>3. s1 = [s EXCEPT !.pc = "route", !.shape = shape1]
    BY <1>4 DEF Asking
  <2> HIDE DEF m, s1, shape1
  <2>4. s1 \in Asking
    <3>1. shape1 \in ShapeLike
      BY <2>2 DEF shape1
    <3>2. QED
      BY <1>4, <2>3, <3>1, AskForms
  <2>5. /\ s1.pc = "route" /\ s1.key = s.key /\ s1.sent = <<>> /\ s1.came = s.came
        /\ ~ s1.considered /\ s1.answer = 0 /\ s1.err = "none"
    BY <1>4, <2>3 DEF Asking, Away
  <2>6. Away(s1)
    BY <1>4, <2>5 DEF Away
  <2>7. Bound(s1) /\ Fitted(s1)
    BY <2>5 DEF Bound, Fitted
  <2>8. Unturned(s1)
    <3>1. s1.came = turned => switch /\ s.key = holder /\ ~ holder.disabled
      BY <1>3, <1>4, <2>5 DEF Unturned
    <3>2. DOMAIN s1.sent = {}
      BY <2>5
    <3>3. QED
      BY <2>5, <3>1, <3>2 DEF Unturned
  <2>9. QED
    BY <1>1, <1>3, <1>7, <1>9, <2>4, <2>5, <2>6, <2>7, <2>8, GoesOn
<1>10. QED
  BY <1>1, <1>8, <1>9

\* A version that some account has on and its client may have.
LEMMA ServableIs ==
  ASSUME InferenceKept, NEW s, NEW ms, NEW m \in Servable(s, ms)
  PROVE  m \in ms /\ m \in Real \cup {"none"} /\ m \notin s.key.barred /\ (m # "none" => m \in leasable)
BY DEF Servable, InferenceKept, InferenceTypes

LEMMA RouteKeeps ==
  ASSUME InferenceKept, NEW q \in Inbound, Route(q)
  PROVE  InferenceKept'
<1> DEFINE s == asks[q]
           target == IF ~s.key.direct THEN holder.to
                     ELSE IF s.shape.model = "slot" THEN "none" ELSE s.shape.model
           family == target = Family
           routed == [s EXCEPT !.pc = "prepare", !.slot = ~s.key.direct \/ family, !.family = family]
           slotted == [s EXCEPT !.slot = TRUE]
           bound == [s EXCEPT !.slot = TRUE, !.model = target]
           Onward(m) == /\ IF family THEN m \in Servable(s, Versions)
                                     ELSE m = target /\ (~ s.key.direct => Servable(s, {target}) # {})
                        /\ Step(q, [routed EXCEPT !.model = m]) /\ Unfiled
<1>1. StandsAt(q, "route") /\ UNCHANGED <<operatorVars, counted>>
  BY Zenon DEF Route
<1>2. \/ Refuse(q, s, 404, "own names only") \/ Refuse(q, s, 403, "not allowed")
      \/ Refuse(q, slotted, 404, "no account") \/ Refuse(q, slotted, 404, "not allowed")
      \/ Refuse(q, bound, 404, "not on")
      \/ \E m : Onward(m)
  BY Zenon DEF Route
<1>3. s.pc = "route" /\ s.pc \in Coming /\ "prepare" \in Coming
  BY <1>1 DEF StandsAt, Coming
<1>4. /\ s \in Asking /\ Away(s) /\ s.answer = 0 /\ s.err = "none" /\ Unturned(s)
  BY <1>3, OnItsWay
<1>5. OthersCounted(q) /\ q \notin counted'.running
  BY <1>1, <1>3, NothingCounted
<1>6. holder \in Holder
  BY DEF InferenceKept, InferenceTypes
<1>7. /\ target \in AnyName
      /\ ~ s.key.direct => target = holder.to /\ target \in Real \cup {Family}
      /\ s.key.direct \in BOOLEAN
  BY <1>4, <1>6, RequestForms DEF Asking, ShapeLike, Holder
<1> HIDE DEF target
<1>8. /\ slotted \in Asking /\ slotted.sent = s.sent /\ slotted.came = s.came
      /\ slotted.considered = s.considered
  <2>1. slotted \in Asking
    BY <1>4, AskForms
  <2>2. QED
    BY <1>4, <2>1 DEF Asking
<1>9. /\ bound \in Asking /\ bound.sent = s.sent /\ bound.came = s.came
      /\ bound.considered = s.considered
  <2>1. bound \in Asking
    BY <1>4, <1>7, AskForms
  <2>2. QED
    BY <1>4, <2>1 DEF Asking
<1> HIDE DEF slotted, bound
<1>10. Away(slotted) /\ Away(bound)
  BY <1>4, <1>8, <1>9 DEF Away
<1>11. UNCHANGED operatorVars /\ asks[q].pc \in Coming \cup {"none"}
  BY <1>1, <1>3
<1>12. ASSUME NEW t \in Asking, Away(t), NEW status \in Nat, NEW why \in Refusal, Refuse(q, t, status, why)
       PROVE  InferenceKept'
  BY <1>5, <1>11, <1>12, Refused
<1>13. ASSUME NEW m, Onward(m)
       PROVE  InferenceKept'
  <2> DEFINE s1 == [routed EXCEPT !.model = m]
  <2>1. /\ family => m \in Versions
        /\ ~ family => m = target /\ m # Family
        /\ m \in AnyName
    <3>1. family => m \in Versions
      BY <1>13, ServableIs
    <3>2. QED
      BY <1>7, <1>13, <3>1, RequestForms
  <2>2. family \in BOOLEAN /\ (~s.key.direct \/ family) \in BOOLEAN
    OBVIOUS
  <2>3. Step(q, s1) /\ Unfiled
    BY <1>13
  <2>4. family <=> target = Family
    OBVIOUS
  <2> DEFINE slot == ~s.key.direct \/ family
  <2>5. slot <=> ~s.key.direct \/ family
    OBVIOUS
  <2> HIDE DEF family, slot, Onward
  <2>6. s1 = [s EXCEPT !.pc = "prepare", !.slot = slot, !.family = family, !.model = m]
    BY <1>4 DEF Asking, slot
  <2> HIDE DEF s1, routed
  <2>7. s1 \in Asking
    <3>1. slot \in BOOLEAN
      BY <2>2 DEF slot
    <3>2. QED
      BY <1>4, <2>1, <2>2, <2>6, <3>1, AskForms
  <2>8. s1.pc = "prepare" /\ s1.slot = slot /\ s1.family = family /\ s1.model = m
    BY <1>4, <2>6 DEF Asking
  <2>9. s1.key = s.key /\ s1.sent = s.sent /\ s1.came = s.came
    BY <1>4, <2>6 DEF Asking
  <2>10. s1.considered = s.considered /\ s1.answer = s.answer /\ s1.err = s.err
    BY <1>4, <2>6 DEF Asking
  <2>11. Away(s1)
    BY <1>4, <2>9, <2>10 DEF Away
  <2>12. Bound(s1)
    BY <1>7, <2>1, <2>5, <2>8, RequestForms DEF Bound
  <2>13. Fitted(s1)
    BY <2>8 DEF Fitted
  <2>14. Unturned(s1)
    <3>1. s1.came = turned => switch /\ s.key = holder /\ ~ holder.disabled
      BY <1>3, <1>4, <2>9 DEF Unturned
    <3>2. DOMAIN s1.sent = {}
      BY <1>4, <2>9 DEF Away
    <3>3. s1.sent = <<>>
      BY <1>4, <2>9 DEF Away
    <3>4. s1.came = turned /\ ~ holder.direct => IF s1.family THEN holder.to = Family ELSE s1.model = holder.to
      BY <1>7, <2>1, <2>4, <2>8, <3>1
    <3>5. QED
      BY <2>8, <2>9, <3>1, <3>2, <3>3, <3>4 DEF Unturned
  <2>15. QED
    BY <1>3, <1>4, <1>5, <1>11, <2>3, <2>7, <2>8, <2>10, <2>11, <2>12, <2>13, <2>14, GoesOn
<1>14. QED
  <2>1. /\ "own names only" \in Refusal /\ "not allowed" \in Refusal /\ "no account" \in Refusal
        /\ "not on" \in Refusal
    BY DEF Refusal
  <2> HIDE DEF Onward, s
  <2>2. 403 \in Nat /\ 404 \in Nat
    OBVIOUS
  <2>3. s \in Asking /\ Away(s) /\ slotted \in Asking /\ Away(slotted) /\ bound \in Asking /\ Away(bound)
    BY <1>4, <1>8, <1>9, <1>10 DEF s
  <2>4. QED
    BY <1>2, <1>12, <1>13, <2>1, <2>2, <2>3, Zenon

\* What a body is that goes up unfitted, or fitted to what serves it.
LEMMA CameAs ==
  ASSUME NEW s \in Asking
  PROVE  /\ AsItCame(s) \in Body /\ AsItCame(s).model = s.model
         /\ AsItCame(s).max = s.shape.max /\ AsItCame(s).thinking = s.shape.thinking
         /\ s.shape.max \in Nat /\ s.shape.thinking \in Nat
<1>1. s.model \in AnyName /\ s.shape.max \in Nat /\ s.shape.thinking \in Nat
  BY DEF Asking, ShapeLike
<1>2. QED
  BY <1>1 DEF AsItCame, Body

LEMMA PrepareKeeps ==
  ASSUME InferenceKept, NEW q \in Inbound, Prepare(q)
  PROVE  InferenceKept'
<1> DEFINE s == asks[q]
           body == [model |-> s.model, max |-> s.shape.max, thinking |-> s.shape.thinking]
           b == IF s.slot /\ ~s.family THEN Fit(body, OutCap[s.model]) ELSE body
           s1 == [s EXCEPT !.pc = "try", !.body = b]
<1>1. StandsAt(q, "prepare") /\ UNCHANGED operatorVars
  BY Zenon DEF Prepare
<1>2. counted' = IF asks'[q].pc = "try" THEN [counted EXCEPT !.running = @ \cup {q}] ELSE counted
  BY Zenon DEF Prepare
<1>3. \/ Refuse(q, s, 400, "untranslatable")
      \/ Answered(q, s, 200) /\ Filed(q, Row(s, 200, FALSE, ""))
      \/ Step(q, s1) /\ Unfiled
  BY Zenon DEF Prepare
<1>4. s.pc = "prepare" /\ s.pc \in Coming
  BY <1>1 DEF StandsAt, Coming
<1>5. /\ s \in Asking /\ Away(s) /\ s.answer = 0 /\ s.err = "none" /\ Unturned(s) /\ Bound(s)
      /\ q \notin counted.running
  BY <1>4, OnItsWay
<1>6. asks \in [Inbound -> {NoAsk} \cup Asking]
  BY DEF InferenceKept, InferenceTypes
<1>7. \A status : Answered(q, s, status) => counted' = counted
  <2>1. SUFFICES ASSUME NEW status, Answered(q, s, status) PROVE counted' = counted
    OBVIOUS
  <2>2. asks'[q] = [s EXCEPT !.pc = "leaving", !.answer = status]
    BY <1>6, <2>1 DEF Answered, Step
  <2>3. asks'[q].pc = "leaving"
    BY <1>5, <2>2 DEF Asking
  <2>4. QED
    BY <1>2, <2>3
<1>8. CASE Refuse(q, s, 400, "untranslatable")
  <2>1. counted' = counted
    BY <1>7, <1>8 DEF Refuse
  <2>2. OthersCounted(q) /\ q \notin counted'.running
    BY <1>4, <2>1, NothingCounted
  <2>3. ASSUME NEW status \in Nat, NEW why \in Refusal, Refuse(q, s, status, why)
        PROVE  InferenceKept'
    BY <1>1, <1>4, <1>5, <2>2, <2>3, Refused
  <2>4. "untranslatable" \in Refusal /\ 400 \in Nat
    BY DEF Refusal
  <2>5. QED
    BY <1>8, <2>3, <2>4, Zenon
<1>9. CASE Answered(q, s, 200) /\ Filed(q, Row(s, 200, FALSE, ""))
  <2>1. counted' = counted
    BY <1>7, <1>9
  <2>2. OthersCounted(q) /\ q \notin counted'.running
    BY <1>4, <2>1, NothingCounted
  <2>3. s.model \in AnyName
    BY <1>5 DEF Asking
  <2> DEFINE row == Row(s, 200, FALSE, "")
  <2>4. row \in Logged /\ ~ row.naming /\ row.status = 200
    BY <2>3 DEF Row, Logged
  <2>5. Filed(q, row)
    BY <1>9
  <2> HIDE DEF row
  <2>6. QED
    BY <1>1, <1>4, <1>5, <1>9, <2>2, <2>4, <2>5, FiledAway
<1>10. CASE Step(q, s1) /\ Unfiled
  <2>1. AsItCame(s) = body /\ body \in Body
    BY <1>5, CameAs DEF AsItCame
  <2>2. s.slot => OutCap[s.model] \in Nat
    BY <1>4, <1>5, RequestsAre DEF Bound, RequestsAre
  <2>3. b \in Body /\ b = IF s.slot /\ ~s.family THEN Fit(AsItCame(s), OutCap[s.model]) ELSE AsItCame(s)
    BY <2>1, <2>2, Fits
  <2> HIDE DEF b
  <2>4. s1 \in Asking
    BY <1>5, <2>3, AskForms
  <2>5. s1.pc = "try" /\ s1.body = b /\ s1.shape = s.shape /\ s1.model = s.model
    BY <1>5 DEF Asking
  <2>6. s1.slot = s.slot /\ s1.family = s.family /\ s1.key = s.key /\ s1.came = s.came
    BY <1>5 DEF Asking
  <2>7. s1.sent = s.sent /\ s1.considered = s.considered /\ s1.answer = s.answer /\ s1.err = s.err
    BY <1>5 DEF Asking
  <2>8. asks'[q] = s1
    BY <1>6, <1>10 DEF Step
  <2> HIDE DEF s1
  <2>9. Away(s1) /\ Bound(s1)
    BY <1>4, <1>5, <2>5, <2>6, <2>7 DEF Away, Bound
  <2>10. Fitted(s1)
    BY <2>3, <2>5, <2>6 DEF Fitted, AsItCame
  <2>11. Unturned(s1)
    BY <1>4, <1>5, <2>5, <2>6, <2>7 DEF Unturned
  <2>12. counted' = [counted EXCEPT !.running = @ \cup {q}]
    BY <1>2, <2>5, <2>8
  <2>13. OthersCounted(q)
    BY <2>12 DEF OthersCounted, InferenceKept, InferenceTypes
  <2>14. QED
    BY <1>1, <1>4, <1>5, <1>10, <2>4, <2>5, <2>7, <2>9, <2>10, <2>11, <2>13, GoesOn
<1>11. QED
  BY <1>3, <1>8, <1>9, <1>10

-----------------------------------------------------------------------------

\* What may serve a request.
MayServe(s) == Servable(s, IF s.family THEN Versions ELSE {s.model})

\* The body an attempt sends is of the model leased, and is right for it.
LEMMA SentIsRight ==
  ASSUME InferenceKept, NEW q \in Inbound, asks[q].pc = "try",
         NEW m \in MayServe(asks[q])
  PROVE  /\ WithRebind(asks[q], m) \in Body /\ WithRebind(asks[q], m).model = m
         /\ RightBody(asks[q], WithRebind(asks[q], m))
         /\ asks[q].came = turned => Allowed(m)
         /\ m \in AnyName
<1> DEFINE s == asks[q]
           b == WithRebind(s, m)
           came == AsItCame(s)
<1>1. s \in Asking /\ Bound(s) /\ Fitted(s) /\ Unturned(s)
  BY AskHere
<1>2. /\ s.model # Family /\ (s.slot => s.model \in Real)
      /\ (s.family => s.slot /\ s.model \in Versions)
  BY <1>1 DEF Bound
<1>3. s.body = IF s.slot /\ ~ s.family THEN Fit(came, OutCap[s.model]) ELSE came
  BY <1>1 DEF Fitted
<1>4. /\ came \in Body /\ came.model = s.model /\ came.max = s.shape.max /\ came.thinking = s.shape.thinking
      /\ s.shape.max \in Nat /\ s.shape.thinking \in Nat
  BY <1>1, CameAs
<1>5. s.model \in AnyName /\ s.slot \in BOOLEAN /\ s.family \in BOOLEAN
  BY <1>1 DEF Asking
<1>6. /\ s.family => m \in Versions
      /\ ~ s.family => m = s.model
      /\ m \in Real \cup {"none"} /\ m \notin s.key.barred /\ (m # "none" => m \in leasable)
  BY ServableIs DEF MayServe
<1>7. m \in AnyName /\ m # Family
  BY <1>2, <1>5, <1>6, RequestForms
<1>8. \A n \in Real : OutCap[n] \in Nat
  BY RequestsAre DEF RequestsAre
<1> HIDE DEF came
<1>9. b \in Body /\ b.model = m /\ RightBody(s, b)
  <2>1. CASE s.family
    <3> DEFINE renamed == Named(came, m)
    <3>1. m \in Real /\ OutCap[m] \in Nat
      BY <1>6, <1>8, <2>1, RequestForms
    <3>2. renamed \in Body
      BY <1>4, <1>7 DEF Named, Body
    <3>3. renamed.model = m /\ renamed.max = s.shape.max /\ renamed.thinking = s.shape.thinking
      BY <1>4 DEF Named, Body
    <3>4. b = Fit(renamed, OutCap[m])
      BY <1>3, <2>1 DEF WithRebind
    <3> HIDE DEF renamed, b
    <3>5. /\ b \in Body /\ b.model = m
          /\ b.max = IF OutCap[m] # 0 THEN Least(s.shape.max, OutCap[m]) ELSE s.shape.max
          /\ s.shape.thinking < s.shape.max => b.thinking < b.max
          /\ b.max = s.shape.max => b.thinking = s.shape.thinking
      BY <3>1, <3>2, <3>3, <3>4, Fits
    <3>6. QED
      BY <1>2, <1>7, <2>1, <3>5 DEF RightBody
  <2>2. CASE ~ s.family /\ s.slot
    <3>1. b = Fit(came, OutCap[m]) /\ OutCap[m] \in Nat /\ came.model = m
      BY <1>2, <1>3, <1>4, <1>6, <1>8, <2>2 DEF WithRebind
    <3> HIDE DEF b
    <3>2. /\ b \in Body /\ b.model = m
          /\ b.max = IF OutCap[m] # 0 THEN Least(s.shape.max, OutCap[m]) ELSE s.shape.max
          /\ s.shape.thinking < s.shape.max => b.thinking < b.max
          /\ b.max = s.shape.max => b.thinking = s.shape.thinking
      <4>1. OutCap[m] \in Nat /\ came \in Body
        BY <1>4, <3>1
      <4>2. /\ b \in Body /\ b.model = came.model
            /\ b.max = IF OutCap[m] # 0 THEN Least(came.max, OutCap[m]) ELSE came.max
            /\ came.thinking < came.max => b.thinking < b.max
            /\ b.max = came.max => b.thinking = came.thinking
        BY <3>1, <4>1, Fits
      <4>3. QED
        BY <1>4, <3>1, <4>2
    <3>3. QED
      BY <1>7, <2>2, <3>2 DEF RightBody
  <2>3. CASE ~ s.family /\ ~ s.slot
    <3>1. b = came
      BY <1>3, <2>3 DEF WithRebind
    <3>2. QED
      BY <1>4, <1>6, <1>7, <2>3, <3>1 DEF RightBody
  <2>4. QED
    BY <2>1, <2>2, <2>3
<1>10. s.came = turned => Allowed(m)
  BY <1>1, <1>6 DEF Unturned, Allowed
<1>11. QED
  BY <1>6, <1>7, <1>9, <1>10

\* A request that was tried, and what was sent for it if anything was.
Tried(q, t) ==
  LET s == asks[q]
  IN \/ t.sent = s.sent /\ t.leased = s.leased
     \/ \E m \in MayServe(s) :
          /\ t.sent = Append(s.sent, WithRebind(s, m))
          /\ t.leased = IF s.family THEN m ELSE "none"

LEMMA TriedStands ==
  ASSUME InferenceKept, NEW q \in Inbound, asks[q].pc = "try", NEW t \in Asking, Tried(q, t),
         t.shape = asks[q].shape, t.key = asks[q].key, t.model = asks[q].model, t.slot = asks[q].slot,
         t.family = asks[q].family, t.body = asks[q].body, t.came = asks[q].came,
         t.considered = asks[q].considered, t.pc \in {"try", "done"},
         t.pc = "try" => t.answer = 0 /\ t.err = "none"
  PROVE  AskStands(t, file[q])
<1> DEFINE s == asks[q]
<1>1. /\ s \in Asking /\ s.came <= turned /\ NothingYet(s, file[q]) /\ Bound(s) /\ Fitted(s)
      /\ SentTo(s) /\ AllRight(s) /\ Unturned(s)
  BY AskHere
<1>2. t # NoAsk /\ t.pc \notin Coming /\ t.pc \notin {"title", "leaving", "left"}
  BY DEF NoAsk, Coming
<1>3. file[q] = <<>> /\ ~ s.considered
  BY <1>1 DEF NothingYet
<1>4. NothingYet(t, file[q]) /\ InTheLog(t, file[q])
  BY <1>2, <1>3 DEF NothingYet, InTheLog
<1>5. Bound(t)
  BY <1>1, <1>2 DEF Bound, Coming
<1>6. Fitted(t)
  BY <1>1 DEF Fitted, AsItCame
<1>7. s.sent \in Seq(Body) /\ s.family \in BOOLEAN
  BY <1>1 DEF Asking
<1>8. \A b : RightBody(s, b) => RightBody(t, b)
  BY DEF RightBody
<1>9. s.came = turned => /\ switch /\ s.key = holder /\ ~ holder.disabled
                         /\ ~ holder.direct => IF s.family THEN holder.to = Family ELSE s.model = holder.to
                         /\ \A i \in DOMAIN s.sent : Allowed(s.sent[i].model)
  BY <1>1 DEF Unturned
<1>10. SentTo(t) /\ AllRight(t) /\ (t.came = turned => \A i \in DOMAIN t.sent : Allowed(t.sent[i].model))
  <2>1. CASE t.sent = s.sent /\ t.leased = s.leased
    <3>1. SentTo(t)
      BY <1>1, <2>1 DEF SentTo, Served
    <3>2. AllRight(t)
      BY <1>1, <1>8, <2>1 DEF AllRight
    <3>3. QED
      BY <1>9, <2>1, <3>1, <3>2
  <2>2. ASSUME NEW m \in MayServe(s),
               t.sent = Append(s.sent, WithRebind(s, m)), t.leased = IF s.family THEN m ELSE "none"
        PROVE  SentTo(t) /\ AllRight(t) /\ (t.came = turned => \A i \in DOMAIN t.sent : Allowed(t.sent[i].model))
    <3> DEFINE b == WithRebind(s, m)
    <3>1. /\ b \in Body /\ b.model = m /\ RightBody(s, b)
          /\ s.came = turned => Allowed(m)
      BY SentIsRight
    <3>2. IF s.family THEN m # "none" ELSE m = s.model
      BY ServableIs, RequestForms DEF MayServe
    <3> HIDE DEF b
    <3>3. /\ t.sent \in Seq(Body) /\ Len(t.sent) = Len(s.sent) + 1
          /\ \A i \in 1..Len(s.sent) : t.sent[i] = s.sent[i]
          /\ t.sent[Len(s.sent) + 1] = b
      BY <1>7, <2>2, <3>1, AppendProperties DEF b
    <3>4. DOMAIN s.sent = 1..Len(s.sent) /\ Len(s.sent) \in Nat /\ DOMAIN t.sent = 1..(Len(s.sent) + 1)
      BY <1>7, <3>3
    <3>5. \A i \in DOMAIN t.sent : (i \in DOMAIN s.sent /\ t.sent[i] = s.sent[i]) \/ t.sent[i] = b
      BY <3>3, <3>4
    <3>6. SentTo(t)
      <4>1. t.sent[Len(t.sent)].model = m
        BY <3>1, <3>3
      <4>2. Served(t) = m
        BY <2>2, <3>1, <3>2 DEF Served
      <4>3. QED
        BY <4>1, <4>2 DEF SentTo
    <3>7. AllRight(t)
      BY <1>1, <1>8, <3>1, <3>5 DEF AllRight
    <3>8. QED
      BY <1>9, <3>1, <3>5, <3>6, <3>7
  <2>3. QED
    BY <2>1, <2>2 DEF Tried
<1>11. Unturned(t)
  BY <1>2, <1>9, <1>10 DEF Unturned
<1>12. QED
  BY <1>1, <1>2, <1>4, <1>5, <1>6, <1>10, <1>11 DEF AskStands

\* What an attempt may make of a request.
LEMMA SentForm ==
  ASSUME NEW s \in Asking, NEW sent \in Seq(Body), NEW n \in Nat, NEW m \in AnyName
  PROVE  [s EXCEPT !.sent = sent, !.tries = n, !.leased = m] \in Asking
BY DEF Asking

LEMMA AnsweredForm ==
  ASSUME NEW s \in Asking, NEW n \in Nat
  PROVE  [s EXCEPT !.pc = "done", !.answer = n] \in Asking
BY DEF Asking

LEMMA HeldForm ==
  ASSUME NEW s \in Asking, NEW n \in {0, 429}
  PROVE  [s EXCEPT !.held = n] \in Asking
BY DEF Asking

LEMMA FailedForm ==
  ASSUME NEW s \in Asking, NEW e \in Wrong
  PROVE  [s EXCEPT !.pc = "done", !.err = e] \in Asking
BY DEF Asking

LEMMA GivenUpForm ==
  ASSUME NEW s \in Asking, NEW n \in Nat, NEW e \in Wrong
  PROVE  [s EXCEPT !.pc = "done", !.answer = n, !.err = e] \in Asking
BY DEF Asking

\* Everything else stays.
Same(s, t) ==
  /\ t.shape = s.shape /\ t.key = s.key /\ t.model = s.model /\ t.slot = s.slot
  /\ t.family = s.family /\ t.body = s.body /\ t.came = s.came /\ t.considered = s.considered

LEMMA AttemptKeeps ==
  ASSUME InferenceKept, NEW q \in Inbound, Attempt(q)
  PROVE  InferenceKept'
<1> DEFINE s == asks[q]
           versions == IF s.family THEN Versions ELSE {s.model}
           Leased(m) == IF s.family THEN m ELSE "none"
           Sent(m) == [s EXCEPT !.sent = Append(@, WithRebind(s, m)), !.tries = @ + 1, !.leased = Leased(m)]
           Relayed(m, status) == [Sent(m) EXCEPT !.pc = "done", !.answer = status]
           Retried(m, held) == [Sent(m) EXCEPT !.held = IF held = 0 THEN @ ELSE held]
           Failed(m, e) == [Sent(m) EXCEPT !.pc = "done", !.err = e]
           why == CASE s.held # 0 -> "none"
                    [] s.held = 0 /\ Servable(s, versions) = {} -> "off"
                    [] OTHER -> "none left"
           given == [s EXCEPT !.pc = "done", !.answer = s.held, !.err = why]
<1>1. StandsAt(q, "try") /\ UNCHANGED <<operatorVars, file, counted>>
  BY Zenon DEF Attempt
<1>2. \/ \E m \in Servable(s, versions) :
           \/ \E status \in {200, 400} : Step(q, Relayed(m, status))
           \/ Sent(m).tries < MaxTries /\ \E held \in {0, 429} : Step(q, Retried(m, held))
           \/ Sent(m).tries = MaxTries /\ Step(q, Failed(m, "network"))
           \/ Step(q, Failed(m, "gone"))
      \/ Step(q, given)
  BY Zenon DEF Attempt
<1>3. s.pc = "try" /\ s.pc # "none"
  BY <1>1 DEF StandsAt
<1>4. s \in Asking /\ NothingYet(s, file[q])
  BY <1>3, AskHere
<1>5. s.answer = 0 /\ s.err = "none"
  BY <1>3, <1>4 DEF NothingYet
<1>6. ASSUME NEW t \in Asking, Tried(q, t), Same(s, t), t.pc \in {"try", "done"},
             t.pc = "try" => t.answer = 0 /\ t.err = "none", Step(q, t)
      PROVE  InferenceKept'
  <2>1. AskStands(t, file[q])
    BY <1>3, <1>6, TriedStands DEF Same
  <2>2. file \in [Inbound -> Seq(Logged)]
    BY DEF InferenceKept, InferenceTypes
  <2>3. /\ file' = [file EXCEPT ![q] = file[q]] /\ file[q] \in Seq(Logged)
        /\ asks' = [asks EXCEPT ![q] = t] /\ UNCHANGED operatorVars /\ counted' = counted
    BY <1>1, <1>6, <2>2 DEF Step
  <2>4. OthersCounted(q)
    BY <2>3, NothingCounted
  <2>5. t.pc # "left"
    BY <1>6
  <2>6. QED
    BY <1>6, <2>1, <2>3, <2>4, <2>5, OneAsks
<1>7. ASSUME NEW m \in MayServe(s)
      PROVE  /\ Sent(m) \in Asking /\ Same(s, Sent(m)) /\ Sent(m).pc = "try"
             /\ Sent(m).answer = 0 /\ Sent(m).err = "none"
             /\ Sent(m).sent = Append(s.sent, WithRebind(s, m)) /\ Sent(m).leased = Leased(m)
  <2> DEFINE x == Append(s.sent, WithRebind(s, m))
             l == Leased(m)
  <2>1. WithRebind(s, m) \in Body /\ m \in AnyName
    BY <1>3, SentIsRight
  <2>2. x \in Seq(Body) /\ l \in AnyName
    <3>1. s.sent \in Seq(Body)
      BY <1>4 DEF Asking
    <3>2. QED
      BY <2>1, <3>1, AppendProperties, RequestForms
  <2>3. s.tries + 1 \in Nat
    BY <1>4 DEF Asking
  <2>4. Sent(m) = [s EXCEPT !.sent = x, !.tries = s.tries + 1, !.leased = l]
    BY <1>4 DEF Asking
  <2> HIDE DEF x, l, Sent
  <2>5. Sent(m) \in Asking
    <3> DEFINE n == s.tries + 1
    <3>1. n \in Nat /\ Sent(m) = [s EXCEPT !.sent = x, !.tries = n, !.leased = l]
      BY <2>3, <2>4
    <3> HIDE DEF n
    <3>2. [s EXCEPT !.sent = x, !.tries = n, !.leased = l] \in Asking
      <4>1. s \in Asking /\ x \in Seq(Body) /\ l \in AnyName /\ n \in Nat
        BY <1>4, <2>2, <3>1
      <4> HIDE DEF s
      <4>2. QED
        BY <4>1, SentForm
    <3>3. QED
      BY <3>1, <3>2
  <2>6. /\ Same(s, Sent(m)) /\ Sent(m).sent = x /\ Sent(m).leased = l /\ Sent(m).pc = s.pc
        /\ Sent(m).answer = s.answer /\ Sent(m).err = s.err
    BY <1>4, <2>4 DEF Asking, Same
  <2>7. QED
    BY <1>3, <1>5, <2>5, <2>6 DEF x, l
<1> HIDE DEF Sent
<1>8. ASSUME NEW m \in MayServe(s), NEW t \in Asking, Same(Sent(m), t), t.sent = Sent(m).sent,
             t.leased = Sent(m).leased
      PROVE  Tried(q, t) /\ Same(s, t)
  <2>1. t.sent = Append(s.sent, WithRebind(s, m)) /\ t.leased = Leased(m)
    BY <1>7, <1>8
  <2>2. Same(s, t)
    BY <1>7, <1>8 DEF Same
  <2>3. QED
    BY <2>1, <2>2 DEF Tried
<1>9. ASSUME NEW m \in MayServe(s), NEW status \in {200, 400},
             Step(q, Relayed(m, status))
      PROVE  InferenceKept'
  <2> DEFINE t == Relayed(m, status)
  <2>1. Sent(m) \in Asking /\ status \in Nat
    BY <1>7
  <2>2. t \in Asking
    BY <2>1, AnsweredForm
  <2>3. Same(Sent(m), t) /\ t.sent = Sent(m).sent /\ t.leased = Sent(m).leased /\ t.pc = "done"
    BY <2>1 DEF Asking, Same
  <2>4. Step(q, t)
    BY <1>9
  <2> HIDE DEF t
  <2>5. QED
    BY <1>6, <1>8, <2>2, <2>3, <2>4
<1>10. ASSUME NEW m \in MayServe(s), NEW held \in {0, 429},
              Step(q, Retried(m, held))
       PROVE  InferenceKept'
  <2> DEFINE n == IF held = 0 THEN Sent(m).held ELSE held
             t == [Sent(m) EXCEPT !.held = n]
  <2>1. Sent(m) \in Asking
    BY <1>7
  <2>2. n \in {0, 429}
    BY <2>1 DEF Asking
  <2>3. Retried(m, held) = t
    BY <2>1 DEF Asking
  <2> HIDE DEF n
  <2>4. t \in Asking
    BY <2>1, <2>2, HeldForm
  <2>5. /\ Same(Sent(m), t) /\ t.sent = Sent(m).sent /\ t.leased = Sent(m).leased
        /\ t.pc = Sent(m).pc /\ t.answer = Sent(m).answer /\ t.err = Sent(m).err
    BY <2>1 DEF Asking, Same
  <2>6. Step(q, t)
    BY <1>10, <2>3
  <2> HIDE DEF t
  <2>7. QED
    BY <1>6, <1>7, <1>8, <2>4, <2>5, <2>6
<1>11. ASSUME NEW m \in MayServe(s), NEW e \in {"network", "gone"},
              Step(q, Failed(m, e))
       PROVE  InferenceKept'
  <2> DEFINE t == Failed(m, e)
  <2>1. Sent(m) \in Asking /\ e \in Wrong
    BY <1>7 DEF Wrong
  <2>2. t \in Asking
    BY <2>1, FailedForm
  <2>3. Same(Sent(m), t) /\ t.sent = Sent(m).sent /\ t.leased = Sent(m).leased /\ t.pc = "done"
    BY <2>1 DEF Asking, Same
  <2>4. Step(q, t)
    BY <1>11
  <2> HIDE DEF t
  <2>5. QED
    BY <1>6, <1>8, <2>2, <2>3, <2>4
<1>12. ASSUME Step(q, given)
       PROVE  InferenceKept'
  <2>1. why \in Wrong
    BY DEF Wrong
  <2>2. s.held \in Nat
    BY <1>4 DEF Asking
  <2> HIDE DEF why
  <2>3. given \in Asking
    BY <1>4, <2>1, <2>2, GivenUpForm
  <2>4. Same(s, given) /\ given.sent = s.sent /\ given.leased = s.leased /\ given.pc = "done"
    BY <1>4 DEF Asking, Same
  <2> HIDE DEF given
  <2>5. Tried(q, given)
    BY <2>4 DEF Tried
  <2>6. QED
    BY <1>6, <1>12, <2>3, <2>4, <2>5
<1>13. QED
  <2>1. MayServe(s) = Servable(s, versions)
    BY DEF MayServe
  <2>2. "network" \in {"network", "gone"} /\ "gone" \in {"network", "gone"}
    OBVIOUS
  <2> HIDE DEF versions, given, Relayed, Retried, Failed
  <2>3. ASSUME NEW m \in MayServe(s)
        PROVE  /\ (\E status \in {200, 400} : Step(q, Relayed(m, status))) => InferenceKept'
               /\ (\E held \in {0, 429} : Step(q, Retried(m, held))) => InferenceKept'
               /\ Step(q, Failed(m, "network")) => InferenceKept'
               /\ Step(q, Failed(m, "gone")) => InferenceKept'
    <3>1. ASSUME NEW status \in {200, 400}, Step(q, Relayed(m, status)) PROVE InferenceKept'
      BY <1>9, <3>1
    <3>2. ASSUME NEW held \in {0, 429}, Step(q, Retried(m, held)) PROVE InferenceKept'
      BY <1>10, <3>2
    <3>3. ASSUME NEW e \in {"network", "gone"}, Step(q, Failed(m, e)) PROVE InferenceKept'
      BY <1>11, <3>3
    <3>4. (\E status \in {200, 400} : Step(q, Relayed(m, status))) => InferenceKept'
      BY <3>1
    <3>5. (\E held \in {0, 429} : Step(q, Retried(m, held))) => InferenceKept'
      BY <3>2
    <3>6. Step(q, Failed(m, "network")) => InferenceKept'
      BY <2>2, <3>3
    <3>7. Step(q, Failed(m, "gone")) => InferenceKept'
      BY <2>2, <3>3
    <3>8. QED
      BY <3>4, <3>5, <3>6, <3>7
  <2>4. Step(q, given) => InferenceKept'
    BY <1>12
  <2>5. CASE Step(q, given)
    BY <2>4, <2>5
  <2>6. CASE ~ Step(q, given)
    <3>1. PICK m \in MayServe(s) :
            \/ \E status \in {200, 400} : Step(q, Relayed(m, status))
            \/ \E held \in {0, 429} : Step(q, Retried(m, held))
            \/ Step(q, Failed(m, "network")) \/ Step(q, Failed(m, "gone"))
      BY <1>2, <2>1, <2>6
    <3>2. QED
      <4> HIDE DEF s
      <4>1. /\ (\E status \in {200, 400} : Step(q, Relayed(m, status))) => InferenceKept'
            /\ (\E held \in {0, 429} : Step(q, Retried(m, held))) => InferenceKept'
            /\ Step(q, Failed(m, "network")) => InferenceKept'
            /\ Step(q, Failed(m, "gone")) => InferenceKept'
        BY <2>3
      <4>2. QED
        BY <3>1, <4>1
  <2>7. QED
    BY <2>5, <2>6

-----------------------------------------------------------------------------

\* One that has been answered stands by what was sent, and by its row.
LEMMA LaterStands ==
  ASSUME InferenceKept, NEW q \in Inbound, asks[q].pc \in {"done", "title", "leaving"}, NEW t \in Asking,
         t.shape = asks[q].shape, t.slot = asks[q].slot, t.came = asks[q].came, t.sent = asks[q].sent,
         t.pc \in {"title", "leaving", "left"}, t.pc = "title" => ~ t.considered, NEW rows, InTheLog(t, rows)
  PROVE  AskStands(t, rows)
<1> DEFINE s == asks[q]
<1>1. s \in Asking /\ s.came <= turned /\ AllRight(s) /\ Unturned(s)
  BY AskHere
<1>2. t # NoAsk /\ t.pc \notin Coming \cup {"try", "done", "prepare"}
  BY DEF NoAsk, Coming
<1>3. NothingYet(t, rows) /\ Bound(t) /\ Fitted(t) /\ SentTo(t)
  BY <1>2 DEF NothingYet, Bound, Fitted, SentTo, Coming
<1>4. AllRight(t)
  BY <1>1 DEF AllRight, RightBody
<1>5. Unturned(t)
  BY <1>1, <1>2 DEF Unturned, Coming
<1>6. QED
  BY <1>1, <1>2, <1>3, <1>4, <1>5 DEF AskStands

LEMMA AfterForms ==
  ASSUME NEW s \in Asking
  PROVE  /\ \A m \in AnyName : [s EXCEPT !.model = m] \in Asking
         /\ [s EXCEPT !.pc = "title"] \in Asking
         /\ [s EXCEPT !.pc = "left"] \in Asking
         /\ \A b \in BOOLEAN : [s EXCEPT !.pc = "leaving", !.considered = b] \in Asking
<1>1. ASSUME NEW m \in AnyName PROVE [s EXCEPT !.model = m] \in Asking
  BY DEF Asking
<1>2. [s EXCEPT !.pc = "title"] \in Asking
  BY DEF Asking
<1>3. [s EXCEPT !.pc = "left"] \in Asking
  BY DEF Asking
<1>4. ASSUME NEW b \in BOOLEAN PROVE [s EXCEPT !.pc = "leaving", !.considered = b] \in Asking
  BY DEF Asking
<1>5. QED
  BY <1>1, <1>2, <1>3, <1>4, Zenon

\* What the client is told of a failure of the gateway's own.
LEMMA FailuresTold ==
  ASSUME NEW e \in Wrong, e # "none"
  PROVE  relayFailure(e) \in {0, 404, 502, 503}
<1>1. CASE e = "network"
  <2>1. relayFailure("network") = 502
    BY DEF relayFailure
  <2>2. QED
    BY <1>1, <2>1
<1>2. CASE e = "gone"
  <2>1. relayFailure("gone") = 0
    BY DEF relayFailure
  <2>2. QED
    BY <1>2, <2>1
<1>3. CASE e = "off"
  <2>1. relayFailure("off") = 404
    BY DEF relayFailure
  <2>2. QED
    BY <1>3, <2>1
<1>4. CASE e = "none left"
  <2>1. relayFailure("none left") = 503
    BY DEF relayFailure
  <2>2. QED
    BY <1>4, <2>1
<1>5. QED
  BY <1>1, <1>2, <1>3, <1>4 DEF Wrong

Marked(r, naming) == [r EXCEPT !.naming = naming]
LEMMA RowForms ==
  ASSUME NEW r \in Logged, NEW naming \in BOOLEAN
  PROVE  /\ Marked(r, naming) \in Logged
         /\ Marked(r, naming).status = r.status /\ Marked(r, naming).model = r.model
         /\ Marked(r, naming).naming = naming /\ Marked(r, naming).rejected = r.rejected
<1> DEFINE row == [r EXCEPT !.naming = naming]
<1>1. row \in Logged
  BY DEF Logged
<1>2. row.status = r.status /\ row.model = r.model /\ row.rejected = r.rejected
  BY DEF Logged
<1>3. row.naming = naming
  BY DEF Logged
<1>4. Marked(r, naming) = row
  BY DEF Marked
<1> HIDE DEF row
<1>5. QED
  BY <1>1, <1>2, <1>3, <1>4

LEMMA RecordKeeps ==
  ASSUME InferenceKept, NEW q \in Inbound, Record(q)
  PROVE  InferenceKept'
<1> DEFINE s0 == asks[q]
           model == Served(s0)
           s == [s0 EXCEPT !.model = model]
           naming == s.shape.names /\ s.shape.title
           row(status, error) == [Row(s, status, FALSE, error) EXCEPT !.naming = naming]
           failed == [s EXCEPT !.pc = "leaving", !.answer = relayFailure(s.err)]
           titled == [s EXCEPT !.pc = "title"]
<1>1. StandsAt(q, "done") /\ UNCHANGED operatorVars
  BY Zenon DEF Record
<1>2. counted' = [counted EXCEPT !.running = @ \ {q}]
  BY Zenon DEF Record
<1>3. \/ s.err # "none" /\ s.answer = 0 /\ Filed(q, row(0, s.err)) /\ Step(q, failed)
      \/ Filed(q, row(s.answer, "")) /\ Step(q, titled)
  BY Zenon DEF Record
<1>4. s0.pc = "done"
  BY <1>1 DEF StandsAt
<1>5. /\ s0 \in Asking /\ NothingYet(s0, file[q]) /\ SentTo(s0)
  BY <1>4, AskHere
<1>6. file[q] = <<>> /\ ~ s0.considered
  BY <1>4, <1>5 DEF NothingYet
<1>7. model \in AnyName
  BY <1>5 DEF Served, Asking
<1>8. s0.sent # <<>> => s0.sent[Len(s0.sent)].model = model
  BY <1>4, <1>5 DEF SentTo
<1> HIDE DEF model
<1>9. s \in Asking
  BY <1>5, <1>7, AfterForms
<1>10. /\ s.shape = s0.shape /\ s.slot = s0.slot /\ s.came = s0.came /\ s.sent = s0.sent
       /\ s.considered = s0.considered /\ s.model = model
  BY <1>5 DEF Asking
<1> HIDE DEF s
<1>11. naming \in BOOLEAN /\ (naming => s.shape.names)
  BY Zenon
<1>12. s.answer \in Nat /\ s.err \in Wrong
  BY <1>9 DEF Asking
<1> HIDE DEF naming
<1>13. ASSUME NEW status \in Nat, NEW error \in Wrong \cup {""}
       PROVE  /\ row(status, error) \in Logged
              /\ row(status, error).status = status /\ row(status, error).model = model
              /\ row(status, error).naming = naming /\ ~ row(status, error).rejected
  <2> DEFINE plain == Row(s, status, FALSE, error)
  <2>1. plain \in Logged /\ plain.status = status /\ plain.model = model /\ plain.rejected = FALSE
    BY <1>7, <1>10 DEF Row, Logged
  <2>2. row(status, error) = Marked(plain, naming)
    BY DEF Marked
  <2> HIDE DEF plain, row
  <2>3. /\ Marked(plain, naming) \in Logged
        /\ Marked(plain, naming).status = plain.status /\ Marked(plain, naming).model = plain.model
        /\ Marked(plain, naming).rejected = plain.rejected
    BY <1>11, <2>1, RowForms
  <2>4. Marked(plain, naming).naming = naming
    BY <1>11, <2>1, RowForms, Zenon
  <2>5. ~ Marked(plain, naming).rejected
    BY <2>1, <2>3
  <2>6. QED
    BY <2>1, <2>2, <2>3, <2>4, <2>5, Zenon
<1> HIDE DEF row
<1>14. OthersCounted(q) /\ q \notin counted'.running
  BY <1>2 DEF OthersCounted, InferenceKept, InferenceTypes
<1>15. ASSUME NEW t \in Asking, t.shape = s.shape, t.slot = s.slot, t.came = s.came, t.sent = s.sent,
              t.considered = s.considered, t.pc \in {"title", "leaving"},
              NEW r \in Logged, ~ r.rejected, r.model = model, r.naming = naming,
              r.status \in {t.answer, 0}, r.status = 0 => t.answer \in {0, 404, 502, 503},
              Filed(q, r), Step(q, t)
       PROVE  InferenceKept'
  <2> DEFINE rows == Append(<<>>, r)
  <2>1. rows \in Seq(Logged) /\ rows # <<>> /\ Len(rows) = 1 /\ rows[1] = r
    BY OneRow
  <2>2. asks' = [asks EXCEPT ![q] = t] /\ file' = [file EXCEPT ![q] = rows]
    BY <1>6, <1>15 DEF Filed, Step
  <2> HIDE DEF rows
  <2>3. InTheLog(t, rows)
    BY <1>6, <1>8, <1>10, <1>11, <1>15, <2>1 DEF InTheLog
  <2>4. AskStands(t, rows)
    BY <1>4, <1>6, <1>10, <1>15, <2>3, LaterStands
  <2>5. t.pc # "left"
    BY <1>15
  <2>6. QED
    BY <1>1, <1>14, <1>15, <2>1, <2>2, <2>4, <2>5, OneAsks
<1>16. CASE s.err # "none" /\ s.answer = 0 /\ Filed(q, row(0, s.err)) /\ Step(q, failed)
  <2> DEFINE status == relayFailure(s.err)
             r == row(0, s.err)
  <2>1. status \in {0, 404, 502, 503}
    BY <1>12, <1>16, FailuresTold
  <2>2. failed = Answering(s, status)
    BY DEF Answering
  <2> HIDE DEF status
  <2>3. failed \in Asking /\ failed.pc = "leaving" /\ failed.answer = status
    <3> HIDE DEF failed
    <3>1. status \in Nat
      BY <2>1
    <3>2. QED
      BY <1>9, <2>2, <3>1, LastWord
  <2>4. /\ failed.shape = s.shape /\ failed.slot = s.slot /\ failed.came = s.came
        /\ failed.sent = s.sent /\ failed.considered = s.considered
    BY <1>9 DEF Asking
  <2>5. r \in Logged /\ r.status = 0 /\ r.model = model /\ r.naming = naming /\ ~ r.rejected
    <3>1. 0 \in Nat /\ s.err \in Wrong \cup {""}
      BY <1>12
    <3>2. QED
      BY <1>13, <3>1
  <2>6. Filed(q, r) /\ Step(q, failed)
    BY <1>16
  <2> HIDE DEF failed, r
  <2>7. QED
    BY <1>15, <2>1, <2>2, <2>3, <2>4, <2>5, <2>6
<1>17. CASE Filed(q, row(s.answer, "")) /\ Step(q, titled)
  <2> DEFINE r == row(s.answer, "")
  <2>1. titled \in Asking
    BY <1>9, AfterForms
  <2>2. titled.pc = "title" /\ titled.answer = s.answer
    BY <1>9 DEF Asking
  <2>3. /\ titled.shape = s.shape /\ titled.slot = s.slot /\ titled.came = s.came
        /\ titled.sent = s.sent /\ titled.considered = s.considered
    BY <1>9 DEF Asking
  <2>4. r \in Logged /\ r.status = s.answer /\ r.model = model /\ r.naming = naming /\ ~ r.rejected
    BY <1>12, <1>13
  <2>5. Filed(q, r) /\ Step(q, titled)
    BY <1>17
  <2> HIDE DEF titled, r
  <2>6. QED
    BY <1>15, <2>1, <2>2, <2>3, <2>4, <2>5
<1>18. QED
  BY <1>3, <1>16, <1>17

LEMMA ConsiderKeeps ==
  ASSUME InferenceKept, NEW q \in Inbound, Consider(q)
  PROVE  InferenceKept'
<1> DEFINE s == asks[q]
           asked == s.shape.chat /\ ~s.shape.names
           t == [s EXCEPT !.pc = "leaving", !.considered = asked]
<1>1. StandsAt(q, "title") /\ UNCHANGED <<operatorVars, file, counted>> /\ Step(q, t)
  BY DEF Consider
<1>2. s.pc = "title"
  BY <1>1 DEF StandsAt
<1>3. s \in Asking /\ InTheLog(s, file[q])
  BY <1>2, AskHere
<1>4. asked \in BOOLEAN /\ (asked => ~ s.shape.names)
  BY Zenon
<1> HIDE DEF asked
<1>5. t \in Asking
  BY <1>3, <1>4, AfterForms
<1>6. t.pc = "leaving" /\ t.considered = asked /\ t.answer = s.answer
  BY <1>3 DEF Asking
<1>7. t.shape = s.shape /\ t.slot = s.slot /\ t.came = s.came /\ t.sent = s.sent
  BY <1>3 DEF Asking
<1>8. file \in [Inbound -> Seq(Logged)]
  BY DEF InferenceKept, InferenceTypes
<1>9. /\ file' = [file EXCEPT ![q] = file[q]] /\ file[q] \in Seq(Logged)
      /\ asks' = [asks EXCEPT ![q] = t] /\ UNCHANGED operatorVars /\ counted' = counted
  BY <1>1, <1>8 DEF Step
<1> HIDE DEF t
<1>10. InTheLog(t, file[q])
  BY <1>2, <1>3, <1>4, <1>6, <1>7 DEF InTheLog
<1>11. AskStands(t, file[q])
  BY <1>2, <1>5, <1>6, <1>7, <1>10, LaterStands
<1>12. OthersCounted(q) /\ q \notin counted'.running /\ t.pc # "left"
  BY <1>2, <1>6, <1>9, NothingCounted
<1>13. QED
  BY <1>5, <1>9, <1>11, <1>12, OneAsks

LEMMA LeaveKeeps ==
  ASSUME InferenceKept, NEW q \in Inbound, Leave(q)
  PROVE  InferenceKept'
<1> DEFINE s == asks[q]
           t == [s EXCEPT !.pc = "left"]
<1>1. StandsAt(q, "leaving") /\ UNCHANGED <<operatorVars, file>> /\ Step(q, t)
  BY DEF Leave
<1>2. counted' = [counted EXCEPT !.trimmer = @ \ {q}, !.inflight = @ \ {q}]
  BY DEF Leave
<1>3. s.pc = "leaving"
  BY <1>1 DEF StandsAt
<1>4. s \in Asking /\ InTheLog(s, file[q]) /\ q \notin counted.running
  BY <1>3, AskHere DEF CountedWhile
<1>5. t \in Asking
  BY <1>4, AfterForms
<1>6. t.pc = "left" /\ t.considered = s.considered /\ t.answer = s.answer
  BY <1>4 DEF Asking
<1>7. t.shape = s.shape /\ t.slot = s.slot /\ t.came = s.came /\ t.sent = s.sent
  BY <1>4 DEF Asking
<1>8. file \in [Inbound -> Seq(Logged)]
  BY DEF InferenceKept, InferenceTypes
<1>9. /\ file' = [file EXCEPT ![q] = file[q]] /\ file[q] \in Seq(Logged)
      /\ asks' = [asks EXCEPT ![q] = t] /\ UNCHANGED operatorVars
  BY <1>1, <1>8 DEF Step
<1> HIDE DEF t
<1>10. InTheLog(t, file[q])
  BY <1>3, <1>4, <1>6, <1>7 DEF InTheLog
<1>11. AskStands(t, file[q])
  BY <1>3, <1>5, <1>6, <1>7, <1>10, LaterStands
<1>12. /\ counted' \in [running : SUBSET Inbound, inflight : SUBSET Inbound, trimmer : SUBSET Inbound]
       /\ counted'.running = counted.running /\ counted'.inflight = counted.inflight \ {q}
       /\ counted'.trimmer = counted.trimmer \ {q}
  BY <1>2 DEF InferenceKept, InferenceTypes
<1>13. OthersCounted(q)
  BY <1>12 DEF OthersCounted
<1>14. q \notin counted'.running /\ q \notin counted'.inflight \cup counted'.trimmer
  BY <1>4, <1>12
<1>15. QED
  BY <1>5, <1>9, <1>11, <1>13, <1>14, OneAsks

\* Whatever the operator turns, no request that had come is as it is now.
LEMMA OperatorTurnsKeeps ==
  ASSUME InferenceKept, OperatorTurns
  PROVE  InferenceKept'
<1>1. turned' = turned + 1 /\ asks' = asks /\ file' = file /\ counted' = counted
  BY DEF OperatorTurns, Turned
<1>2. InferenceTypes
  BY DEF InferenceKept
<1>3. switch' \in BOOLEAN /\ leasable' \subseteq Real /\ holder' \in Holder
  <2>1. CASE switch' = ~switch /\ UNCHANGED <<holder, leasable>>
    BY <1>2, <2>1 DEF InferenceTypes
  <2>2. CASE holder' = [holder EXCEPT !.disabled = ~@] /\ UNCHANGED <<switch, leasable>>
    BY <1>2, <2>2 DEF InferenceTypes, Holder
  <2>3. ASSUME NEW m \in Real \cup {Family}, holder' = [holder EXCEPT !.barred = Flipped(@, m)],
               UNCHANGED <<switch, leasable>>
        PROVE  switch' \in BOOLEAN /\ leasable' \subseteq Real /\ holder' \in Holder
    BY <1>2, <2>3 DEF InferenceTypes, Holder, Flipped
  <2>4. ASSUME NEW m \in (Real \cap leasable) \cup {Family}, holder' = [holder EXCEPT !.to = m],
               UNCHANGED <<switch, leasable>>
        PROVE  switch' \in BOOLEAN /\ leasable' \subseteq Real /\ holder' \in Holder
    BY <1>2, <2>4 DEF InferenceTypes, Holder
  <2>5. ASSUME NEW m \in Real, leasable' = Flipped(leasable, m), UNCHANGED <<switch, holder>>
        PROVE  switch' \in BOOLEAN /\ leasable' \subseteq Real /\ holder' \in Holder
    BY <1>2, <2>5 DEF InferenceTypes, Flipped
  <2>6. QED
    BY <2>1, <2>2, <2>3, <2>4, <2>5 DEF OperatorTurns
<1>4. InferenceTypes'
  BY <1>1, <1>2, <1>3 DEF InferenceTypes
<1>5. ASSUME NEW q \in Inbound
      PROVE  AskStands(asks[q], file[q])' /\ CountedWhile(q)'
  <2>1. AskStands(asks[q], file[q]) /\ CountedWhile(q) /\ (asks[q] = NoAsk \/ asks[q] \in Asking)
    BY <1>2 DEF InferenceKept, InferenceTypes
  <2>2. CASE asks[q] = NoAsk
    BY <1>1, <2>1, <2>2 DEF AskStands, CountedWhile
  <2>3. CASE asks[q] # NoAsk
    <3>1. asks[q].came \in Nat /\ asks[q].came <= turned /\ turned \in Nat
      BY <1>2, <2>1, <2>3 DEF AskStands, Asking, InferenceTypes
    <3>2. asks[q].came <= turned + 1 /\ asks[q].came # turned + 1
      BY <3>1
    <3>3. Unturned(asks[q])'
      BY <1>1, <3>2 DEF Unturned
    <3>4. AskStands(asks[q], file[q])'
      BY <1>1, <2>1, <2>3, <3>2, <3>3
         DEF AskStands, NothingYet, Bound, Fitted, AsItCame, SentTo, AllRight, RightBody, InTheLog
    <3>5. QED
      BY <1>1, <2>1, <3>4 DEF CountedWhile
  <2>4. QED
    BY <2>2, <2>3
<1>6. QED
  BY <1>4, <1>5 DEF InferenceKept

-----------------------------------------------------------------------------

\* Whoever asks for what, whatever is refused, tried again or left, and
\* whatever the operator turns meanwhile: a request that has ended is in the log
\* once, as what served it and as it was answered, unless nothing was sent for
\* it; what was sent was fitted to the model it was sent to; it was what the
\* operator lets its client have; and nothing counts it any longer
\* (inference.go, Gateway.record, outputcap.go, history.go).
THEOREM InferenceSoundHolds == InferenceSpec => []InferenceSound
<1>1. InferenceInit => InferenceKept
  <2> SUFFICES ASSUME InferenceInit PROVE InferenceKept
    OBVIOUS
  <2>1. holder \in Holder
    BY DEF InferenceInit, Holder
  <2>2. <<>> \in Seq(Logged)
    OBVIOUS
  <2>3. InferenceTypes
    BY <2>1, <2>2 DEF InferenceInit, InferenceTypes
  <2>4. \A q \in Inbound : AskStands(asks[q], file[q]) /\ CountedWhile(q)
    BY DEF InferenceInit, AskStands, CountedWhile, NoAsk
  <2>5. QED
    BY <2>3, <2>4 DEF InferenceKept
<1>2. InferenceKept /\ [InferenceNext]_inferenceVars => InferenceKept'
  <2> SUFFICES ASSUME InferenceKept, [InferenceNext]_inferenceVars PROVE InferenceKept'
    OBVIOUS
  <2>1. CASE \E q \in Inbound : \E shape \in Shapes : Serve(q, shape)
    BY <2>1, ServeKeeps
  <2>2. CASE \E q \in Inbound : requireAPIKey(q)
    BY <2>2, requireAPIKeyKeeps
  <2>3. CASE \E q \in Inbound : geminiCall(q)
    BY <2>3, geminiCallKeeps
  <2>4. CASE \E q \in Inbound : ReadBody(q)
    BY <2>4, ReadBodyKeeps
  <2>5. CASE \E q \in Inbound : Route(q)
    BY <2>5, RouteKeeps
  <2>6. CASE \E q \in Inbound : Prepare(q)
    BY <2>6, PrepareKeeps
  <2>7. CASE \E q \in Inbound : Attempt(q)
    BY <2>7, AttemptKeeps
  <2>8. CASE \E q \in Inbound : Record(q)
    BY <2>8, RecordKeeps
  <2>9. CASE \E q \in Inbound : Consider(q)
    BY <2>9, ConsiderKeeps
  <2>10. CASE \E q \in Inbound : Leave(q)
    BY <2>10, LeaveKeeps
  <2>11. CASE OperatorTurns
    BY <2>11, OperatorTurnsKeeps
  <2>12. CASE UNCHANGED inferenceVars
    <3>1. /\ switch' = switch /\ holder' = holder /\ leasable' = leasable /\ turned' = turned
          /\ asks' = asks /\ file' = file /\ counted' = counted
      BY <2>12 DEF inferenceVars
    <3>2. InferenceTypes'
      BY <3>1 DEF InferenceKept, InferenceTypes
    <3>3. \A m : Allowed(m)' <=> Allowed(m)
      BY <3>1 DEF Allowed
    <3>4. ASSUME NEW q \in Inbound
          PROVE  AskStands(asks[q], file[q])' /\ CountedWhile(q)'
      <4>1. AskStands(asks[q], file[q]) /\ CountedWhile(q)
        BY DEF InferenceKept
      <4>2. Unturned(asks[q]) => Unturned(asks[q])'
        BY <3>1, <3>3 DEF Unturned
      <4>3. QED
        BY <3>1, <4>1, <4>2
           DEF AskStands, NothingYet, Bound, Fitted, AsItCame, SentTo, AllRight, RightBody, InTheLog, CountedWhile
    <3>5. QED
      BY <3>2, <3>4 DEF InferenceKept
  <2>13. QED
    BY <2>1, <2>2, <2>3, <2>4, <2>5, <2>6, <2>7, <2>8, <2>9, <2>10, <2>11, <2>12, Zenon DEF InferenceNext
<1>3. InferenceKept => InferenceSound
  <2> SUFFICES ASSUME InferenceKept PROVE InferenceSound
    OBVIOUS
  <2>1. ASSUME NEW q \in Ended
        PROVE  /\ Accounted(q) /\ SentRight(q) /\ AsTheOperatorSays(q)
               /\ q \notin counted.running \cup counted.inflight \cup counted.trimmer
    <3>1. q \in Inbound /\ asks[q].pc = "left"
      BY DEF Ended, StandsAt
    <3>2. /\ AllRight(asks[q]) /\ Unturned(asks[q]) /\ InTheLog(asks[q], file[q]) /\ CountedWhile(q)
      BY <3>1, AskHere
    <3>3. file[q] \in Seq(Logged)
      BY <3>1 DEF InferenceKept, InferenceTypes
    <3>4. file[q] = <<>> <=> Len(file[q]) = 0
      BY <3>3, EmptySeq
    <3>5. Accounted(q)
      BY <3>1, <3>2, <3>4 DEF Accounted, InTheLog, WentUp
    <3>6. SentRight(q)
      BY <3>2 DEF SentRight, AllRight, RightBody
    <3>7. AsTheOperatorSays(q)
      BY <3>2 DEF AsTheOperatorSays, Unturned, Allowed, WentUp
    <3>8. QED
      BY <3>1, <3>2, <3>5, <3>6, <3>7 DEF CountedWhile
  <2>2. QED
    BY <2>1 DEF InferenceSound, NothingLeftOpen
<1>4. QED
  BY <1>1, <1>2, <1>3, PTL DEF InferenceSpec

=============================================================================
