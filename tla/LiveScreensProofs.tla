-------------------------- MODULE LiveScreensProofs --------------------------
(***************************************************************************)
(* What the live screens keep for any topics, in any order and with any    *)
(* intervals, any channel size, any number of readers, writes and events:  *)
(* no kept answer is one a change has overtaken, and no marked write is    *)
(* lost on its way to the screen.  Then what the screens read of the       *)
(* request history while it grows and is pruned, for any requests,         *)
(* filters and sizes of a page.                                            *)
(***************************************************************************)
EXTENDS LiveScreens, UsageLog, LoopProofs, SequenceTheorems, FiniteSetTheorems, TLAPS

---------------------------------------------------------------------------
(* What flush announces *)

LEMMA TopicsAreListed ==
  /\ Len(Topics) \in Nat
  /\ \A t \in Topic : \E i \in 1..Len(Topics) : Topics[i] = t
  /\ Resync \notin Topic
BY HubAssumption DEF HubAssumption, Topic

\* flush's loop keeps the topics that are due.
LEMMA NewsLoops == Loop(Topics, {t \in Topic : Due(t)}, NewsOf)
<1> DEFINE xs == {t \in Topic : Due(t)}
<1> DEFINE Body(f) == [n \in 0..Len(Topics) |->
             IF n = 0 THEN <<>>
             ELSE IF Due(Topics[n]) THEN Append(f[n - 1], Topics[n])
             ELSE f[n - 1]]
<1>1. ASSUME NEW f PROVE Loop(Topics, xs, f) <=> f = Body(f)
  <2>1. \A n \in 1..Len(Topics) : Topics[n] \in xs <=> Due(Topics[n])
    BY HubAssumption
  <2>2. ASSUME NEW n \in 0..Len(Topics)
        PROVE  Body(f)[n] = (IF n = 0 THEN <<>> ELSE Further(Topics, xs, f[n - 1], n))
    <3>1. CASE n = 0
      BY <3>1
    <3>2. CASE n # 0
      <4>1. n \in 1..Len(Topics)
        BY <3>2, TopicsAreListed
      <4>2. Topics[n] \in xs <=> Due(Topics[n])
        BY <2>1, <4>1
      <4>3. QED
        BY <3>2, <4>2, Zenon DEF Further
    <3>3. QED
      BY <3>1, <3>2
  <2>3. Body(f) = [n \in 0..Len(Topics) |-> IF n = 0 THEN <<>> ELSE Further(Topics, xs, f[n - 1], n)]
    <3>1. Body(f) = [n \in 0..Len(Topics) |-> Body(f)[n]]
      OBVIOUS
    <3> HIDE DEF Body, xs
    <3>2. QED
      BY <2>2, <3>1
  <2> HIDE DEF Body, xs
  <2>4. QED
    BY <2>3 DEF Loop
<1>2. \E f : Loop(Topics, xs, f)
  BY HubAssumption, LoopRuns DEF HubAssumption
<1>3. \E f : f = Body(f)
  BY <1>1, <1>2
<1>4. NewsOf = Body(NewsOf)
  BY <1>3 DEF NewsOf
<1>5. QED
  BY <1>1, <1>4

\* Every topic that is due is among what a flush announces.
LEMMA Announcement ==
  /\ NewsOf[Len(Topics)] \in Seq(Notice)
  /\ \A t \in Topic : Due(t) =>
       \E j \in 1..Len(NewsOf[Len(Topics)]) : NewsOf[Len(Topics)][j] = t
<1> DEFINE news == NewsOf[Len(Topics)]
<1> DEFINE xs == {t \in Topic : Due(t)}
<1>1. Picks(Topic, Topics, xs, news, Len(Topics))
  BY HubAssumption, NewsLoops, LoopPicks DEF HubAssumption
<1>2. news \in Seq(Topic) /\ Topic \subseteq Notice
  BY <1>1 DEF Picks, Notice
<1>3. news \in Seq(Notice)
  BY <1>2, SeqMonotonic
<1>4. ASSUME NEW t \in Topic, Due(t)
      PROVE  \E j \in 1..Len(news) : news[j] = t
  <2>1. PICK i \in 1..Len(Topics) : Topics[i] = t
    BY TopicsAreListed
  <2>2. Topics[i] \in xs
    BY <1>4, <2>1
  <2>3. QED
    BY <1>1, <2>1, <2>2 DEF Picks
<1>5. QED
  BY <1>3, <1>4

\* q holds a notice of t, or one that stands for it.
Holds(q, t) == \E i \in 1..Len(q) : q[i] \in {t, Resync}

\* A channel never holds more than it may, nothing is taken off it, and what is
\* due is on it or the stream is marked behind, as it stays until its resync.
LEMMA Sending ==
  ASSUME queue \in Seq(Notice), Len(queue) <= Buffer, behind \in BOOLEAN,
         Send(NewsOf[Len(Topics)])
  PROVE  /\ queue' \in Seq(Notice) /\ Len(queue') <= Buffer /\ behind' \in BOOLEAN
         /\ \A i \in 1..Len(queue) : i \in 1..Len(queue') /\ queue'[i] = queue[i]
         /\ \A t \in Topic : Due(t) => (behind' \/ Holds(queue', t))
         /\ \A t \in Topic : behind => (behind' \/ Holds(queue', t))
<1> DEFINE news == NewsOf[Len(Topics)]
<1>1. /\ news \in Seq(Notice)
      /\ \A t \in Topic : Due(t) => \E j \in 1..Len(news) : news[j] = t
  BY Announcement
<1>2. Len(queue) \in Nat /\ Len(news) \in Nat /\ Buffer \in Nat
  BY <1>1, HubAssumption
<1>3. Room \in Nat /\ Len(queue) + Room = Buffer
  BY <1>2 DEF Room
<1>4. CASE ~ behind
  <2> DEFINE n == IF Len(news) < Room THEN Len(news) ELSE Room
  <2> DEFINE part == SubSeq(news, 1, n)
  <2>1. queue' = queue \o part /\ behind' = (Len(news) > Room)
    BY <1>4 DEF Send, Sent
  <2>2. n \in Nat /\ n <= Len(news) /\ n <= Room
    BY <1>2, <1>3
  <2>3. /\ part \in Seq(Notice) /\ Len(part) = n
        /\ \A i \in 1..n : part[i] = news[i]
    <3>1. \A i \in 1..n : news[i] \in Notice
      BY <1>1, <1>2, <2>2
    <3>2. 1 \in Int /\ n \in Int
      BY <2>2
    <3> HIDE DEF n, news
    <3>3. /\ part \in Seq(Notice) /\ Len(part) = (IF 1 <= n THEN n - 1 + 1 ELSE 0)
          /\ \A i \in 1..(n - 1 + 1) : part[i] = news[1 + i - 1]
      BY <3>1, <3>2, SubSeqProperties
    <3>4. QED
      BY <2>2, <3>3
  <2> HIDE DEF n, part, news
  <2>4. /\ queue' \in Seq(Notice) /\ Len(queue') = Len(queue) + n
        /\ \A i \in 1..(Len(queue) + n) :
             queue'[i] = IF i <= Len(queue) THEN queue[i] ELSE part[i - Len(queue)]
    BY <2>1, <2>3, ConcatProperties
  <2>5. \A i \in 1..Len(queue) : i \in 1..Len(queue') /\ queue'[i] = queue[i]
    BY <1>2, <2>2, <2>4
  <2>6. ASSUME NEW t \in Topic, Due(t), ~ behind' PROVE Holds(queue', t)
    <3>1. n = Len(news)
      <4>1. ~ (Len(news) > Room)
        BY <2>1, <2>6, Zenon
      <4>2. QED
        BY <1>2, <1>3, <4>1 DEF n
    <3>2. PICK j \in 1..Len(news) : news[j] = t
      BY <1>1, <2>6
    <3>3. /\ Len(queue) + j \in 1..Len(queue')
          /\ queue'[Len(queue) + j] = part[Len(queue) + j - Len(queue)]
      BY <1>2, <2>2, <2>4, <3>1, <3>2
    <3>4. part[Len(queue) + j - Len(queue)] = t
      <4>1. Len(queue) + j - Len(queue) = j
        BY <1>2, <3>2
      <4>2. QED
        BY <2>3, <3>1, <3>2, <4>1
    <3>5. QED
      BY <3>3, <3>4 DEF Holds
  <2>7. Len(queue') <= Buffer /\ behind' \in BOOLEAN
    BY <1>2, <1>3, <2>1, <2>2, <2>4
  <2>8. QED
    BY <1>4, <2>4, <2>5, <2>6, <2>7
<1>5. CASE behind
  <2>1. CASE Room > 0
    <3>1. queue' = Append(queue, Resync) /\ behind' = (Room = 0) /\ Resync \in Notice
      BY <1>5, <2>1 DEF Send, Notice
    <3>2. /\ queue' \in Seq(Notice) /\ Len(queue') = Len(queue) + 1
          /\ \A i \in 1..Len(queue) : queue'[i] = queue[i]
          /\ queue'[Len(queue) + 1] = Resync
      BY <3>1, AppendProperties
    <3>3. Len(queue) + 1 \in 1..Len(queue') /\ Len(queue') <= Buffer
      BY <1>2, <1>3, <2>1, <3>2
    <3>4. \A t \in Topic : Holds(queue', t)
      BY <3>2, <3>3 DEF Holds
    <3>5. \A i \in 1..Len(queue) : i \in 1..Len(queue')
      BY <1>2, <3>2
    <3>6. QED
      BY <3>1, <3>2, <3>3, <3>4, <3>5
  <2>2. CASE Room = 0
    <3>1. queue' = queue
      BY <1>5, <2>2 DEF Send
    <3>2. behind' = TRUE
      <4>1. behind' = (Room = 0)
        BY <1>5, Zenon DEF Send
      <4>2. QED
        BY <2>2, <4>1, Zenon
    <3>3. QED
      BY <3>1, <3>2
  <2>3. QED
    BY <1>3, <2>1, <2>2
<1>6. QED
  BY <1>4, <1>5

---------------------------------------------------------------------------
(* The rows and the requests *)

rows == <<version, told, data, writing>>

\* What a step may do to the rows and to what of them was announced.
RowStep ==
  /\ UNCHANGED requestVars
  /\ \/ \E t \in Topic : Commit(t) \/ Mark(t)
     \/ Flush /\ UNCHANGED rowVars
     \/ UNCHANGED rows

\* What it may do to a reader's request.
RequestStep(r) ==
  /\ UNCHANGED rows
  /\ \/ Asks(r) \/ Ends(r) \/ Hit(r) \/ Miss(r) \/ Keep(r) \/ Fail(r)
     \/ \E t \in Topic : Query(r, t)

LEMMA FireSteps ==
  ASSUME Fire
  PROVE  UNCHANGED requestVars \/ Asks(Tab)
BY DEF Fire, Tick, Reads

LEMMA Steps == [Next]_vars => (RowStep \/ \E r \in Reader : RequestStep(r))
<1> SUFFICES ASSUME [Next]_vars PROVE RowStep \/ \E r \in Reader : RequestStep(r)
  OBVIOUS
<1>1. CASE \E t \in Topic : Writes(t) \/ Marks(t) \/ Waits(t)
  BY <1>1 DEF Writes, Marks, Waits, Commit, Mark, IntervalPasses, RowStep, rows, cacheVars, requestVars
<1>2. CASE \E r \in Reader : Starts(r) \/ Serves(r) \/ Fails(r)
  <2>1. PICK r \in Reader : Starts(r) \/ Serves(r) \/ Fails(r)
    BY <1>2
  <2>2. Hit(r) \/ Miss(r) \/ Keep(r) \/ Fail(r) \/ \E t \in Topic : Query(r, t)
    BY <2>1 DEF Starts, Serves, Fails
  <2>3. UNCHANGED rows
    BY <2>2 DEF Hit, Miss, Keep, Fail, Query, rows, rowVars, hubVars
  <2>4. QED
    BY <2>2, <2>3 DEF RequestStep
<1>3. CASE \E r \in Reader : OtherAsks(r) \/ OtherReceives(r)
  BY <1>3 DEF OtherAsks, OtherReceives, RequestStep, rows, rowVars, hubVars
<1>4. CASE Announces
  BY <1>4 DEF Announces, RowStep, cacheVars, requestVars, rowVars
<1>5. CASE Tell \/ Floor
  <2>1. Fire /\ UNCHANGED rows
    BY <1>5 DEF Tell, Floor, rows, rowVars, hubVars
  <2>2. QED
    BY <2>1, FireSteps, ScreenAssumption DEF RowStep, RequestStep
<1>6. CASE Receive
  <2>1. UNCHANGED rows /\ (Asks(Tab) \/ Ends(Tab))
    BY <1>6 DEF Receive, Reads, rows, rowVars, hubVars
  <2>2. QED
    BY <2>1, ScreenAssumption DEF RequestStep
<1>7. CASE Reload
  BY <1>7, ScreenAssumption DEF Reload, Reads, RequestStep, rows, rowVars, hubVars
<1>8. CASE Deliver \/ Accept \/ OnOpen \/ Drop \/ Refuse
  BY <1>8 DEF Deliver, Accept, OnOpen, Drop, Refuse, Subscribe, Unsubscribe,
              RowStep, rows, cacheVars, requestVars, hubVars
<1>9. CASE Retry \/ Hide \/ Show \/ Settle
  BY <1>9 DEF Retry, Hide, Show, Settle, RowStep, rows, cacheVars, requestVars, hubVars
<1>10. CASE UNCHANGED vars
  BY <1>10 DEF vars, RowStep, rows, cacheVars, requestVars, hubVars
<1>11. QED
  BY <1>1, <1>2, <1>3, <1>4, <1>5, <1>6, <1>7, <1>8, <1>9, <1>10 DEF Next

\* A row is written before its topic is marked, and announced after.
Written ==
  /\ version \in [Topic -> Nat] /\ told \in [Topic -> Nat]
  /\ data \in [Topic -> 0..MaxWrites] /\ writing \subseteq Topic
  /\ \A t \in Topic :
       /\ data[t] = version[t] + (IF t \in writing THEN 1 ELSE 0)
       /\ told[t] <= version[t]

LEMMA WrittenHolds == Spec => []Written
<1>1. Init => Written
  BY CacheAssumption DEF Init, HubInit, CacheInit, Written, Zero
<1>2. ASSUME Written, [Next]_vars PROVE Written'
  <2>1. CASE UNCHANGED rows
    BY <1>2, <2>1 DEF Written, rows
  <2>2. CASE \E t \in Topic : Commit(t)
    <3>1. PICK t \in Topic : Commit(t)
      BY <2>2
    <3>2. /\ data' = [data EXCEPT ![t] = @ + 1] /\ writing' = writing \cup {t}
          /\ version' = version /\ told' = told
          /\ t \notin writing /\ version[t] < MaxWrites
      BY <3>1 DEF Commit, hubVars
    <3>3. data[t] + 1 \in 0..MaxWrites
      BY <1>2, <3>2, CacheAssumption DEF Written
    <3>4. data' \in [Topic -> 0..MaxWrites]
      BY <1>2, <3>2, <3>3 DEF Written
    <3>5. QED
      BY <1>2, <3>2, <3>4 DEF Written
  <2>3. CASE \E t \in Topic : Mark(t)
    <3>1. PICK t \in Topic : Mark(t)
      BY <2>3
    <3>2. /\ version' = [version EXCEPT ![t] = @ + 1] /\ writing' = writing \ {t}
          /\ data' = data /\ told' = told /\ t \in writing
      BY <3>1 DEF Mark, Changed
    <3>3. QED
      BY <1>2, <3>2 DEF Written
  <2>4. CASE Flush /\ UNCHANGED rowVars
    BY <1>2, <2>4 DEF Written, Flush, rowVars
  <2>5. QED
    BY <1>2, <2>1, <2>2, <2>3, <2>4, Steps DEF RowStep, RequestStep
<1>3. QED
  BY <1>1, <1>2, PTL DEF Spec

LEMMA VersionsFit ==
  ASSUME Written
  PROVE  version \in [Topic -> 0..MaxWrites]
<1>1. \A t \in Topic : version[t] \in 0..MaxWrites
  BY CacheAssumption DEF Written
<1>2. QED
  BY <1>1 DEF Written

LEMMA RequestsHold == Spec => []CacheTypeOK
<1>1. Init => CacheTypeOK
  BY CacheAssumption DEF Init, CacheInit, CacheTypeOK, Zero
<1>2. ASSUME Written, Written', CacheTypeOK, [Next]_vars PROVE CacheTypeOK'
  <2>1. data' \in [Topic -> 0..MaxWrites] /\ writing' \subseteq Topic
    BY <1>2 DEF Written
  <2>2. CASE UNCHANGED requestVars
    BY <1>2, <2>1, <2>2 DEF CacheTypeOK, requestVars
  <2>3. ASSUME NEW r \in Reader, RequestStep(r) PROVE CacheTypeOK'
    <3>1. version \in [Topic -> 0..MaxWrites] /\ Zero \in [Topic -> 0..MaxWrites]
      BY <1>2, VersionsFit, CacheAssumption DEF Zero
    <3>2. CASE Asks(r) \/ Ends(r)
      <4>1. asked' \in [Reader -> [Topic -> 0..MaxWrites]]
        BY <1>2, <3>1, <3>2 DEF Asks, Ends, CacheTypeOK
      <4>2. /\ answer' \in [Reader -> [Topic -> 0..MaxWrites]]
            /\ tag' \in [Reader -> [Topic -> 0..MaxWrites]]
        <5>1. /\ answer' = [answer EXCEPT ![r] = Zero]
              /\ tag' = [tag EXCEPT ![r] = Zero]
          BY <3>2 DEF Asks, Ends
        <5>2. /\ answer \in [Reader -> [Topic -> 0..MaxWrites]]
              /\ tag \in [Reader -> [Topic -> 0..MaxWrites]]
          BY <1>2 DEF CacheTypeOK
        <5>3. QED
          BY <3>1, <5>1, <5>2
      <4>3. left' \in [Reader -> SUBSET Topic]
        BY <1>2, <3>2 DEF Asks, Ends, CacheTypeOK
      <4>4. QED
        BY <1>2, <2>1, <3>2, <4>1, <4>2, <4>3 DEF Asks, Ends, CacheTypeOK
    <3>3. CASE Hit(r)
      <4>1. entry \in [tag : [Topic -> 0..MaxWrites], answer : [Topic -> 0..MaxWrites]]
        BY <1>2, <3>3 DEF Hit, CacheTypeOK
      <4>2. entry.answer \in [Topic -> 0..MaxWrites]
        BY <4>1
      <4>3. QED
        BY <1>2, <2>1, <3>3, <4>2 DEF Hit, CacheTypeOK
    <3>4. CASE Miss(r) \/ Fail(r)
      <4>1. tag' \in [Reader -> [Topic -> 0..MaxWrites]]
        BY <1>2, <3>1, <3>4 DEF Miss, Fail, CacheTypeOK
      <4>2. left' \in [Reader -> SUBSET Topic]
        BY <1>2, <3>4 DEF Miss, Fail, CacheTypeOK
      <4>3. QED
        BY <1>2, <2>1, <3>4, <4>1, <4>2 DEF Miss, Fail, CacheTypeOK
    <3>5. CASE Keep(r)
      BY <1>2, <2>1, <3>5 DEF Keep, CacheTypeOK
    <3>6. CASE \E t \in Topic : Query(r, t)
      <4>1. PICK t \in Topic : Query(r, t)
        BY <3>6
      <4>2. data[t] \in 0..MaxWrites
        BY <1>2 DEF Written
      <4>3. [answer[r] EXCEPT ![t] = data[t]] \in [Topic -> 0..MaxWrites]
        BY <1>2, <4>2 DEF CacheTypeOK
      <4>4. answer' = [answer EXCEPT ![r] = [answer[r] EXCEPT ![t] = data[t]]]
        BY <4>1 DEF Query
      <4>5. answer' \in [Reader -> [Topic -> 0..MaxWrites]]
        BY <1>2, <4>3, <4>4 DEF CacheTypeOK
      <4>6. QED
        BY <1>2, <2>1, <4>1, <4>5 DEF Query, CacheTypeOK
    <3>7. QED
      BY <2>3, <3>2, <3>3, <3>4, <3>5, <3>6 DEF RequestStep
  <2>4. QED
    BY <1>2, <2>2, <2>3, Steps DEF RowStep
<1>3. QED
  BY <1>1, <1>2, WrittenHolds, PTL DEF Spec

---------------------------------------------------------------------------
(* Fresh answers *)

\* What a reader's answer owes it: of each topic it has queried, no less than
\* the tag it will be kept under, and no tag older than its question.
Fresh(r) ==
  /\ \A t \in Topic : asked[r][t] <= version[t]
  /\ phase[r] = "computing" => \A t \in Topic :
       /\ asked[r][t] <= tag[r][t] /\ tag[r][t] <= version[t]
       /\ t \notin left[r] => tag[r][t] <= answer[r][t]
  /\ phase[r] = "answered" => \A t \in Topic : asked[r][t] <= answer[r][t]

\* The answer that is kept holds what its tag says.
Kept == entry # NoAnswer => \A t \in Topic : entry.tag[t] <= entry.answer[t]

Answers == Kept /\ \A r \in Reader : Fresh(r)

LEMMA VersionsGrow ==
  ASSUME Written, RowStep
  PROVE  \A t \in Topic : version[t] <= version'[t]
<1>1. CASE \E t \in Topic : Commit(t)
  BY <1>1 DEF Written, Commit, hubVars
<1>2. CASE \E t \in Topic : Mark(t)
  BY <1>2 DEF Written, Mark, Changed
<1>3. CASE (Flush /\ UNCHANGED rowVars) \/ UNCHANGED rows
  BY <1>3 DEF Written, Flush, rows
<1>4. QED
  BY <1>1, <1>2, <1>3 DEF RowStep

LEMMA AnswersHold == Spec => []Answers
<1>1. Init => Answers
  BY DEF Init, HubInit, CacheInit, Answers, Kept, Fresh, Zero
<1>2. ASSUME Written, Written', CacheTypeOK, Answers, [Next]_vars PROVE Answers'
  <2>1. /\ version \in [Topic -> Nat] /\ data \in [Topic -> Nat]
        /\ \A t \in Topic : version[t] <= data[t]
    BY <1>2, CacheAssumption DEF Written
  <2>2. /\ tag \in [Reader -> [Topic -> Nat]] /\ answer \in [Reader -> [Topic -> Nat]]
        /\ asked \in [Reader -> [Topic -> Nat]] /\ left \in [Reader -> SUBSET Topic]
    BY <1>2, CacheAssumption DEF CacheTypeOK
  <2>3. phase \in [Reader -> {"none", "sent", "computing", "answered", "failed"}]
    BY <1>2 DEF CacheTypeOK
  <2>4. CASE RowStep
    <3>1. \A t \in Topic : version[t] <= version'[t] /\ version'[t] \in Nat
      BY <1>2, <2>4, VersionsGrow DEF Written
    <3>2. Kept'
      BY <1>2, <2>4 DEF RowStep, requestVars, Answers, Kept
    <3>3. ASSUME NEW r \in Reader PROVE Fresh(r)'
      <4>1. UNCHANGED <<phase, tag, answer, left, asked>>
        BY <2>4 DEF RowStep, requestVars
      <4>2. Fresh(r)
        BY <1>2 DEF Answers
      <4>3. QED
        BY <2>1, <2>2, <3>1, <4>1, <4>2 DEF Fresh
    <3>4. QED
      BY <3>2, <3>3 DEF Answers
  <2>5. ASSUME NEW r \in Reader, RequestStep(r) PROVE Answers'
    <3>1. version' = version /\ Fresh(r)
      BY <1>2, <2>5 DEF RequestStep, rows, Answers
    <3>2. ASSUME NEW s \in Reader, s # r PROVE Fresh(s)'
      <4>1. /\ phase'[s] = phase[s] /\ tag'[s] = tag[s] /\ answer'[s] = answer[s]
            /\ left'[s] = left[s] /\ asked'[s] = asked[s]
        BY <2>2, <2>3, <2>5, <3>2 DEF RequestStep, Asks, Ends, Hit, Miss, Keep, Fail, Query
      <4>2. QED
        BY <1>2, <3>1, <4>1 DEF Answers, Fresh
    <3>3. CASE Asks(r) \/ Ends(r)
      <4>1. phase'[r] \in {"sent", "none"} /\ asked'[r] \in {version, Zero}
        BY <2>2, <2>3, <3>3 DEF Asks, Ends
      <4>2. Fresh(r)'
        BY <2>1, <3>1, <4>1 DEF Fresh, Zero
      <4>3. Kept'
        BY <1>2, <3>3 DEF Asks, Ends, Kept, Answers
      <4>4. QED
        BY <3>2, <4>2, <4>3 DEF Answers
    <3>4. CASE Hit(r)
      <4>1. /\ entry # NoAnswer /\ entry.tag = version
            /\ phase'[r] = "answered" /\ answer'[r] = entry.answer
            /\ asked' = asked /\ entry' = entry
        BY <2>2, <2>3, <3>4 DEF Hit
      <4>2. entry.answer \in [Topic -> 0..MaxWrites]
        <5>1. entry \in [tag : [Topic -> 0..MaxWrites], answer : [Topic -> 0..MaxWrites]]
          BY <1>2, <4>1 DEF CacheTypeOK
        <5>2. QED
          BY <5>1
      <4>3. \A t \in Topic : version[t] <= entry.answer[t]
        BY <1>2, <4>1 DEF Answers, Kept
      <4>4. \A t \in Topic : asked[r][t] <= entry.answer[t]
        BY <2>1, <2>2, <3>1, <4>2, <4>3, CacheAssumption DEF Fresh
      <4>5. Fresh(r)'
        BY <3>1, <4>1, <4>4 DEF Fresh
      <4>6. QED
        BY <1>2, <3>2, <4>1, <4>5 DEF Answers, Kept
    <3>5. CASE Miss(r)
      <4>1. /\ phase'[r] = "computing" /\ tag'[r] = version /\ left'[r] = Topic
            /\ asked' = asked /\ entry' = entry
        BY <2>2, <2>3, <3>5 DEF Miss
      <4>2. Fresh(r)'
        BY <2>1, <2>2, <3>1, <4>1 DEF Fresh
      <4>3. QED
        BY <1>2, <3>2, <4>1, <4>2 DEF Answers, Kept
    <3>6. CASE Keep(r)
      <4>1. /\ phase[r] = "computing" /\ left[r] = {}
            /\ phase'[r] = "answered" /\ answer' = answer /\ asked' = asked
            /\ entry'.tag = tag[r] /\ entry'.answer = answer[r]
        BY <2>2, <2>3, <3>6 DEF Keep
      <4>2. \A t \in Topic : asked[r][t] <= tag[r][t] /\ tag[r][t] <= answer[r][t]
        BY <3>1, <4>1 DEF Fresh
      <4>3. Fresh(r)'
        BY <2>2, <3>1, <4>1, <4>2 DEF Fresh
      <4>4. Kept'
        BY <4>1, <4>2 DEF Kept
      <4>5. QED
        BY <3>2, <4>3, <4>4 DEF Answers
    <3>7. CASE Fail(r)
      <4>1. phase'[r] = "failed" /\ asked' = asked /\ entry' = entry
        BY <2>3, <3>7 DEF Fail
      <4>2. Fresh(r)'
        BY <3>1, <4>1 DEF Fresh
      <4>3. QED
        BY <1>2, <3>2, <4>1, <4>2 DEF Answers, Kept
    <3>8. CASE \E t \in Topic : Query(r, t)
      <4>1. PICK t \in Topic : Query(r, t)
        BY <3>8
      <4>2. /\ phase[r] = "computing" /\ phase' = phase /\ tag' = tag /\ asked' = asked
            /\ left'[r] = left[r] \ {t} /\ entry' = entry
            /\ answer'[r][t] = data[t]
            /\ \A u \in Topic \ {t} : answer'[r][u] = answer[r][u]
        BY <2>2, <4>1 DEF Query
      <4>3. Fresh(r)'
        BY <2>1, <2>2, <3>1, <4>2 DEF Fresh
      <4>4. QED
        BY <1>2, <3>2, <4>2, <4>3 DEF Answers, Kept
    <3>9. QED
      BY <2>5, <3>3, <3>4, <3>5, <3>6, <3>7, <3>8 DEF RequestStep
  <2>6. QED
    BY <1>2, <2>4, <2>5, Steps
<1>3. QED
  BY <1>1, <1>2, WrittenHolds, RequestsHold, PTL DEF Spec

\* FreshAnswer: whoever computed it and whatever was written meanwhile, an
\* answer holds every write marked when it was asked for (Admin.cached).
THEOREM FreshAnswerHolds == Spec => []FreshAnswer
<1>1. ASSUME CacheTypeOK, Answers PROVE FreshAnswer
  <2>1. asked \in [Reader -> [Topic -> 0..MaxWrites]] /\ answer \in [Reader -> [Topic -> 0..MaxWrites]]
    BY <1>1 DEF CacheTypeOK
  <2>2. QED
    BY <1>1, <2>1, CacheAssumption DEF Answers, Fresh, FreshAnswer
<1>2. QED
  BY <1>1, RequestsHold, AnswersHold, PTL

---------------------------------------------------------------------------
(* The stream and the tab *)

Channel ==
  /\ queue \in Seq(Notice) /\ Len(queue) <= Buffer
  /\ behind \in BOOLEAN /\ open \in BOOLEAN /\ ripe \in [Topic -> BOOLEAN]

LEMMA EmptyChannel ==
  ASSUME queue' = <<>>, behind' = FALSE, open' \in BOOLEAN,
         ripe' \in [Topic -> BOOLEAN]
  PROVE  Channel'
<1>1. queue' \in Seq(Notice) /\ Len(queue') = 0
  BY EmptySeq
<1>2. Len(queue') <= Buffer
  BY <1>1, HubAssumption
<1>3. behind' \in BOOLEAN
  BY Zenon
<1>4. QED
  BY <1>1, <1>2, <1>3, Zenon DEF Channel

LEMMA ChannelHolds == Spec => []Channel
<1>1. Init => Channel
  <2>1. <<>> \in Seq(Notice) /\ Len(<<>>) = 0
    BY EmptySeq
  <2>2. ASSUME Init PROVE Len(queue) <= Buffer
    BY <2>1, <2>2, HubAssumption DEF Init, HubInit
  <2>3. ASSUME Init PROVE ripe \in [Topic -> BOOLEAN]
    BY <2>3 DEF Init, HubInit
  <2>4. ASSUME Init PROVE behind \in BOOLEAN /\ open \in BOOLEAN
    BY <2>4, Zenon DEF Init, HubInit
  <2>5. ASSUME Init PROVE queue \in Seq(Notice)
    BY <2>1, <2>5 DEF Init, HubInit
  <2>6. QED
    BY <2>2, <2>3, <2>4, <2>5, Zenon DEF Channel
<1>2. ASSUME Channel, [Next]_vars PROVE Channel'
  <2>1. CASE UNCHANGED <<streamVars, ripe>>
    BY <1>2, <2>1 DEF Channel, streamVars
  <2>2. CASE Announces
    <3>1. /\ open' = open
          /\ ripe' = [t \in Topic |-> ripe[t] /\ (Due(t) => t \in AtOnce)]
          /\ IF open THEN Send(NewsOf[Len(Topics)]) ELSE UNCHANGED <<queue, behind>>
      BY <2>2 DEF Announces, Flush
    <3>2. ripe' \in [Topic -> BOOLEAN]
      BY <3>1, Zenon
    <3>3. queue \in Seq(Notice) /\ Len(queue) <= Buffer /\ behind \in BOOLEAN /\ open \in BOOLEAN
      BY <1>2 DEF Channel
    <3>4. CASE open
      <4>1. Send(NewsOf[Len(Topics)])
        BY <3>1, <3>4
      <4>2. queue' \in Seq(Notice) /\ Len(queue') <= Buffer /\ behind' \in BOOLEAN
        BY <3>3, <4>1, Sending
      <4>3. QED
        BY <3>1, <3>2, <3>3, <4>2 DEF Channel
    <3>5. CASE ~ open
      BY <3>1, <3>2, <3>3, <3>5 DEF Channel
    <3>6. QED
      BY <3>4, <3>5
  <2>3. CASE \E t \in Topic : Waits(t)
    BY <1>2, <2>3 DEF Waits, IntervalPasses, Channel, streamVars
  <2>4. CASE Deliver
    <3>1. queue \in Seq(Notice) /\ queue # <<>> /\ queue' = Tail(queue)
      BY <1>2, <2>4 DEF Channel, Deliver
    <3>2. queue' \in Seq(Notice) /\ Len(queue') = Len(queue) - 1
      BY <3>1, HeadTailProperties
    <3>3. Len(queue) \in Nat
      BY <3>1
    <3>4. QED
      BY <1>2, <2>4, <3>2, <3>3, HubAssumption DEF Channel, Deliver
  <2>5. CASE Accept \/ Drop
    BY <1>2, <2>5, EmptyChannel DEF Channel, Accept, Drop, Subscribe, Unsubscribe
  <2>6. CASE Settle
    <3>1. ripe' \in [Topic -> BOOLEAN]
      BY <1>2, <2>6 DEF Settle, Channel
    <3>2. CASE visible
      BY <1>2, <2>6, <3>1, <3>2 DEF Settle, Channel, streamVars
    <3>3. CASE ~ visible
      BY <2>6, <3>1, <3>3, EmptyChannel DEF Settle
    <3>4. QED
      BY <3>2, <3>3
  <2>7. CASE \E t \in Topic : Writes(t) \/ Marks(t)
    BY <1>2, <2>7 DEF Writes, Marks, Commit, Mark, Changed, hubVars, streamVars, Channel
  <2>8. CASE \E r \in Reader : Starts(r) \/ Serves(r) \/ Fails(r) \/ OtherAsks(r) \/ OtherReceives(r)
    <3>1. UNCHANGED hubVars
      BY <2>8 DEF Starts, Serves, Fails, OtherAsks, OtherReceives, Hit, Miss, Keep, Query, Fail
    <3>2. QED
      BY <1>2, <3>1 DEF hubVars, streamVars, Channel
  <2>9. CASE Tell \/ Floor \/ Receive \/ Reload \/ OnOpen \/ Refuse \/ Retry \/ Hide \/ Show
    <3>1. UNCHANGED hubVars
      BY <2>9 DEF Tell, Floor, Receive, Reload, OnOpen, Refuse, Retry, Hide, Show
    <3>2. QED
      BY <1>2, <3>1 DEF hubVars, streamVars, Channel
  <2>10. CASE UNCHANGED vars
    BY <1>2, <2>10 DEF vars, hubVars, streamVars, Channel
  <2>11. QED
    BY <1>2, <2>2, <2>3, <2>4, <2>5, <2>6, <2>7, <2>8, <2>9, <2>10 DEF Next
<1>3. QED
  BY <1>1, <1>2, PTL DEF Spec

\* What the tab keeps; missed is a history variable of the model.
Flags ==
  /\ source \in {"none", "connecting", "refused", "open"}
  /\ {dropped, visible, settling, due, busy, again, failed, missed} \subseteq BOOLEAN
  /\ run \in {"none", "background", "replace"}
  /\ shown \in [Topic -> 0..MaxWrites]
  /\ events \in 0..MaxEvents

LEMMA FlagsHold == Spec => []Flags
<1>1. Init => Flags
  <2>1. ASSUME Init PROVE shown \in [Topic -> 0..MaxWrites] /\ events \in 0..MaxEvents
    BY <2>1, CacheAssumption, ScreenAssumption DEF Init, Zero
  <2>2. ASSUME Init
        PROVE  {dropped, visible, settling, due, busy, again, failed, missed} \subseteq BOOLEAN
    <3>1. /\ dropped \in BOOLEAN /\ visible \in BOOLEAN /\ settling \in BOOLEAN
          /\ due \in BOOLEAN /\ busy \in BOOLEAN /\ again \in BOOLEAN
          /\ failed \in BOOLEAN /\ missed \in BOOLEAN
      BY <2>2, Zenon DEF Init
    <3>2. QED
      BY <3>1
  <2>3. ASSUME Init
        PROVE  /\ source \in {"none", "connecting", "refused", "open"}
               /\ run \in {"none", "background", "replace"}
    BY <2>3 DEF Init
  <2>4. QED
    BY <2>1, <2>2, <2>3, Zenon DEF Flags
<1>2. ASSUME CacheTypeOK, Channel, Flags, [Next]_vars PROVE Flags'
  <2> USE <1>2 DEF Flags
  <2>1. CASE UNCHANGED <<panelVars, sourceVars>>
    BY <2>1 DEF panelVars, sourceVars
  <2>2. CASE \E r \in Reader : Fails(r) \/ OtherAsks(r)
    BY <2>2, ScreenAssumption DEF Fails, OtherAsks, panelVars
  <2>3. CASE Tell \/ Floor
    BY <2>3 DEF Tell, Floor, Fire, Tick, Reads, Channel, sourceVars
  <2>4. CASE Receive
    <3>1. shown' \in [Topic -> 0..MaxWrites]
      <4>1. answer[Tab] \in [Topic -> 0..MaxWrites]
        BY ScreenAssumption DEF CacheTypeOK
      <4>2. QED
        BY <2>4, <4>1 DEF Receive
    <3>2. QED
      BY <2>4, <3>1 DEF Receive, Reads, Channel, sourceVars
  <2>5. CASE Reload
    <3>1. events' \in 0..MaxEvents
      BY <2>5, ScreenAssumption DEF Reload
    <3>2. busy' \in BOOLEAN /\ again' \in BOOLEAN /\ missed' \in BOOLEAN
      BY <2>5, Zenon DEF Reload, Reads
    <3>3. UNCHANGED <<due, shown, failed, source, dropped, visible, settling>> /\ run' = "replace"
      BY <2>5 DEF Reload
    <3>4. QED
      BY <3>1, <3>2, <3>3
  <2>6. CASE Deliver \/ Accept \/ OnOpen \/ Refuse
    BY <2>6 DEF Deliver, Accept, OnOpen, Refuse, sourceVars
  <2>7. CASE Drop
    BY <2>7, ScreenAssumption DEF Drop, panelVars
  <2>8. CASE Retry \/ Settle
    BY <2>8 DEF Retry, Settle, panelVars
  <2>9. CASE Hide
    <3>1. events' \in 0..MaxEvents
      BY <2>9, ScreenAssumption DEF Hide
    <3>2. visible' \in BOOLEAN /\ settling' \in BOOLEAN
      BY <2>9, Zenon DEF Hide
    <3>3. UNCHANGED <<source, dropped, due, busy, again, run, shown, failed, missed>>
      BY <2>9 DEF Hide, panelVars
    <3>4. QED
      BY <3>1, <3>2, <3>3
  <2>10. CASE Show
    BY <2>10 DEF Show
  <2>11. CASE \/ \E t \in Topic : Writes(t) \/ Marks(t) \/ Waits(t)
              \/ \E r \in Reader : Starts(r) \/ Serves(r) \/ OtherReceives(r)
              \/ Announces \/ UNCHANGED vars
    BY <2>1, <2>11 DEF Writes, Marks, Waits, Starts, Serves, OtherReceives, Announces, vars
  <2>12. QED
    BY <2>2, <2>3, <2>4, <2>5, <2>6, <2>7, <2>8, <2>9, <2>10, <2>11 DEF Next
<1>3. QED
  BY <1>1, <1>2, RequestsHold, ChannelHolds, PTL DEF Spec

\* TypeOK: a channel never holds more than it may, and every answer is of rows
\* that were written (live.go, Admin.cached).
THEOREM TypeHolds == Spec => []TypeOK
<1>1. ASSUME Written, CacheTypeOK, Channel, Flags PROVE TypeOK
  <2>1. HubTypeOK
    BY <1>1 DEF Written, Channel, HubTypeOK
  <2>2. QED
    BY <1>1, <2>1 DEF Flags, TypeOK
<1>2. QED
  BY <1>1, WrittenHolds, RequestsHold, ChannelHolds, FlagsHold, PTL

---------------------------------------------------------------------------
(* Nothing lost *)

\* An open source has a subscribed stream; a loop of fire has the turn; a notice
\* waits only for a loop that will go round.
Turns ==
  /\ source = "open" => open
  /\ busy => run = "background"
  /\ again => busy

LEMMA TurnsHold == Spec => []Turns
<1>1. Init => Turns
  BY DEF Init, HubInit, Turns
<1>2. ASSUME Channel, Flags, Turns, [Next]_vars PROVE Turns'
  <2> USE <1>2 DEF Turns
  <2>1. CASE UNCHANGED <<panelVars, source, open>>
    BY <2>1, Zenon DEF panelVars
  <2>2. CASE Tell \/ Floor
    <3>1. Fire /\ UNCHANGED <<source, open>>
      BY <2>2 DEF Tell, Floor, hubVars, streamVars, sourceVars
    <3>2. CASE busy
      BY <3>1, <3>2, Zenon DEF Fire
    <3>3. CASE ~ busy
      <4>1. again' = again /\ Tick /\ ~ again
        BY <3>1, <3>3, Zenon DEF Fire
      <4>2. QED
        BY <3>1, <4>1, Zenon DEF Tick
    <3>4. QED
      BY <3>2, <3>3
  <2>3. CASE Receive
    <3>1. UNCHANGED <<source, open>> /\ again' = FALSE
      BY <2>3 DEF Receive, hubVars, streamVars, sourceVars
    <3>2. busy' => run' = "background"
      BY <2>3, Zenon DEF Receive
    <3>3. QED
      BY <3>1, <3>2, Zenon
  <2>4. CASE Reload
    BY <2>4, Zenon DEF Reload, hubVars, streamVars
  <2>5. CASE Deliver \/ Retry \/ Hide \/ Show
    <3>1. (source' = "open" => source = "open") /\ open' = open
      BY <2>5 DEF Deliver, Retry, Hide, Show, hubVars, streamVars, sourceVars
    <3>2. UNCHANGED <<busy, again, run>>
      BY <2>5 DEF Deliver, Retry, Hide, Show, panelVars
    <3>3. QED
      BY <3>1, <3>2, Zenon
  <2>6. CASE Accept \/ OnOpen \/ Drop \/ Refuse
    <3>1. source' = "open" => open'
      BY <2>6 DEF Accept, OnOpen, Drop, Refuse, Subscribe, hubVars, streamVars, sourceVars
    <3>2. UNCHANGED <<busy, again, run>>
      BY <2>6 DEF Accept, OnOpen, Drop, Refuse, panelVars
    <3>3. QED
      BY <3>1, <3>2, Zenon
  <2>7. CASE Settle
    <3>1. source' = "open" => open'
      BY <2>7 DEF Settle, streamVars
    <3>2. UNCHANGED <<busy, again, run>>
      BY <2>7 DEF Settle, panelVars
    <3>3. QED
      BY <3>1, <3>2, Zenon
  <2>8. CASE \E t \in Topic : Writes(t) \/ Marks(t) \/ Waits(t)
    BY <2>1, <2>8 DEF Writes, Marks, Waits, Commit, Mark, Changed, IntervalPasses,
                      hubVars, streamVars, sourceVars
  <2>9. CASE \E r \in Reader : Starts(r) \/ Serves(r) \/ Fails(r) \/ OtherAsks(r) \/ OtherReceives(r)
    <3>1. UNCHANGED <<hubVars, panelVars, source>>
      BY <2>9 DEF Starts, Serves, Fails, OtherAsks, OtherReceives, Hit, Miss, Keep, Query, Fail, sourceVars
    <3>2. QED
      BY <2>1, <3>1 DEF hubVars, streamVars
  <2>10. CASE Announces \/ UNCHANGED vars
    BY <2>1, <2>10 DEF Announces, Flush, vars, hubVars, streamVars, sourceVars
  <2>11. QED
    BY <1>2, <2>2, <2>3, <2>4, <2>5, <2>6, <2>7, <2>8, <2>9, <2>10 DEF Next
<1>3. QED
  BY <1>1, <1>2, ChannelHolds, FlagsHold, PTL DEF Spec

\* Word of a change to t is on its way to the panel.
Word(t) ==
  \/ Announced(t) \/ due \/ again
  \/ source # "open" /\ (dropped \/ ~ open)

\* The panel shows all of t that was marked, or is about to read it, or will be
\* told to.
Knows(t) ==
  /\ phase[Tab] \in {"sent", "computing", "answered"} => (Reading(t) \/ Word(t))
  /\ phase[Tab] = "none" => (failed \/ version[t] <= shown[t] \/ Word(t))

Carried == (visible /\ ~ missed) => \A t \in Topic : Knows(t)

\* A step that leaves the read and the screen alone, and loses no word.
LEMMA StillKnown ==
  ASSUME NEW t, Knows(t), Word(t) => Word(t)',
         phase'[Tab] = phase[Tab], answer'[Tab] = answer[Tab], left'[Tab] = left[Tab],
         version'[t] = version[t], shown' = shown, failed' = failed
  PROVE  Knows(t)'
BY DEF Knows, Reading

\* A flush loses no word: what is due goes on the channel, or the stream is
\* marked behind.
LEMMA FlushKeepsWord ==
  ASSUME Channel, Channel', Turns, Announces, NEW t \in Topic, Word(t)
  PROVE  Word(t)'
<1>1. /\ UNCHANGED <<version, open, due, again, source, dropped>>
      /\ told' = [u \in Topic |-> IF Due(u) THEN version[u] ELSE told[u]]
      /\ IF open THEN Send(NewsOf[Len(Topics)]) ELSE UNCHANGED <<queue, behind>>
  BY DEF Announces, Flush, panelVars, sourceVars
<1>2. CASE due \/ again \/ (source # "open" /\ (dropped \/ ~ open))
  BY <1>1, <1>2 DEF Word
<1>3. CASE ~ open
  <2>1. source # "open"
    BY <1>3 DEF Turns
  <2>2. QED
    BY <1>1, <1>3, <2>1 DEF Word
<1>4. CASE open /\ Announced(t)
  <2>1. /\ queue' \in Seq(Notice) /\ Len(queue') <= Buffer
        /\ \A i \in 1..Len(queue) : i \in 1..Len(queue') /\ queue'[i] = queue[i]
        /\ Due(t) => (behind' \/ Holds(queue', t))
        /\ behind => (behind' \/ Holds(queue', t))
    <3>1. Send(NewsOf[Len(Topics)])
      BY <1>1, <1>4
    <3>2. queue \in Seq(Notice) /\ Len(queue) <= Buffer /\ behind \in BOOLEAN
      BY DEF Channel
    <3>3. QED
      BY <3>1, <3>2, Sending
  <2>2. SUFFICES Announced(t)'
    BY DEF Word
  <2>3. DOMAIN queue = 1..Len(queue) /\ DOMAIN queue' = 1..Len(queue')
    BY <2>1 DEF Channel
  <2>4. CASE Due(t) \/ behind
    BY <2>1, <2>3, <2>4 DEF Announced, Holds
  <2>5. CASE ~ Due(t) /\ ~ behind
    BY <1>1, <1>4, <2>1, <2>3, <2>5 DEF Announced
  <2>6. QED
    BY <2>4, <2>5
<1>5. QED
  BY <1>2, <1>3, <1>4 DEF Word

\* What a request that is not the panel's own leaves alone.
LEMMA OtherRequests ==
  ASSUME CacheTypeOK, NEW r \in Reader, r # Tab,
         \/ Asks(r) \/ Ends(r) \/ Hit(r) \/ Miss(r) \/ Keep(r) \/ Fail(r)
         \/ \E t \in Topic : Query(r, t)
  PROVE  phase'[Tab] = phase[Tab] /\ answer'[Tab] = answer[Tab] /\ left'[Tab] = left[Tab]
BY ScreenAssumption DEF CacheTypeOK, Asks, Ends, Hit, Miss, Keep, Fail, Query

\* A read sent now shows all that was marked.
LEMMA SentKnows ==
  ASSUME CacheTypeOK, NEW t, Asks(Tab)
  PROVE  Knows(t)'
<1>1. phase'[Tab] = "sent"
  BY ScreenAssumption DEF CacheTypeOK, Asks
<1>2. QED
  BY <1>1 DEF Knows, Reading

\* What the panel is told, it reads, or is told again.
LEMMA FireKnows ==
  ASSUME Fire, ~ missed'
  PROVE  again' \/ Asks(Tab)
<1>1. CASE busy
  BY <1>1, Zenon DEF Fire
<1>2. CASE ~ busy
  <2>1. Tick
    BY <1>2 DEF Fire
  <2>2. run = "none"
    BY <2>1 DEF Tick
  <2>3. QED
    BY <2>1, <2>2 DEF Tick, Reads
<1>3. QED
  BY <1>1, <1>2

\* The steps of the writers and the readers.
LEMMA ReadsCarry ==
  ASSUME Written, Written', CacheTypeOK, Answers, NEW t \in Topic, Knows(t),
         \/ \E u \in Topic : Writes(u) \/ Marks(u) \/ Waits(u)
         \/ \E r \in Reader : Starts(r) \/ Serves(r) \/ Fails(r) \/ OtherAsks(r) \/ OtherReceives(r)
  PROVE  Knows(t)'
<1>1. CASE \E u \in Topic : Writes(u) \/ Waits(u)
  <2>1. UNCHANGED <<requestVars, version, told, streamVars, panelVars, sourceVars>>
    BY <1>1 DEF Writes, Waits, Commit, IntervalPasses, hubVars, cacheVars, requestVars
  <2>2. Word(t) => Word(t)'
    BY <2>1 DEF Word, Announced, streamVars, panelVars, sourceVars
  <2>3. QED
    BY <2>1, <2>2, StillKnown DEF requestVars, panelVars
<1>2. CASE \E u \in Topic : Marks(u)
  <2>1. PICK u \in Topic : Marks(u)
    BY <1>2
  <2>2. /\ UNCHANGED <<requestVars, told, streamVars, panelVars, sourceVars>>
        /\ version' = [version EXCEPT ![u] = @ + 1]
    BY <2>1 DEF Marks, Mark, Changed
  <2>3. CASE u = t
    <3>1. version'[t] # told'[t]
      BY <2>2, <2>3 DEF Written
    <3>2. QED
      BY <3>1 DEF Knows, Word, Announced
  <2>4. CASE u # t
    <3>1. version'[t] = version[t]
      BY <2>2, <2>4 DEF Written
    <3>2. Word(t) => Word(t)'
      BY <2>2, <3>1 DEF Word, Announced, streamVars, panelVars, sourceVars
    <3>3. QED
      BY <2>2, <3>1, <3>2, StillKnown DEF requestVars, panelVars
  <2>5. QED
    BY <2>3, <2>4
<1>3. CASE \E r \in Reader : Starts(r) \/ Serves(r) \/ Fails(r) \/ OtherAsks(r) \/ OtherReceives(r)
  <2>1. PICK r \in Reader : Starts(r) \/ Serves(r) \/ Fails(r) \/ OtherAsks(r) \/ OtherReceives(r)
    BY <1>3
  <2>2. UNCHANGED <<rowVars, hubVars, panelVars, source, dropped>>
    BY <2>1 DEF Starts, Serves, Fails, OtherAsks, OtherReceives, Hit, Miss, Keep, Query, Fail, sourceVars
  <2>3. Word(t) => Word(t)'
    BY <2>2 DEF Word, Announced, hubVars, streamVars, panelVars
  <2>4. UNCHANGED <<version, shown, failed>>
    BY <2>2 DEF hubVars, panelVars
  <2>5. CASE r # Tab
    <3>1. \/ Asks(r) \/ Ends(r) \/ Hit(r) \/ Miss(r) \/ Keep(r) \/ Fail(r)
          \/ \E u \in Topic : Query(r, u)
      BY <2>1 DEF Starts, Serves, Fails, OtherAsks, OtherReceives
    <3>2. phase'[Tab] = phase[Tab] /\ answer'[Tab] = answer[Tab] /\ left'[Tab] = left[Tab]
      BY <2>5, <3>1, OtherRequests
    <3>3. QED
      BY <2>3, <2>4, <3>2, StillKnown
  <2>6. CASE r = Tab
    <3> USE ScreenAssumption
    <3>1. CASE Hit(Tab)
      <4>1. entry # NoAnswer /\ entry.tag = version /\ entry.answer = answer'[Tab]
            /\ phase'[Tab] = "answered"
        BY <3>1 DEF Hit, CacheTypeOK
      <4>2. version[t] <= answer'[Tab][t]
        BY <4>1 DEF Answers, Kept
      <4>3. QED
        BY <2>4, <4>1, <4>2 DEF Knows, Reading
    <3>2. CASE Miss(Tab)
      <4>1. phase'[Tab] = "computing" /\ left'[Tab] = Topic
        BY <3>2 DEF Miss, CacheTypeOK
      <4>2. QED
        BY <4>1 DEF Knows, Reading
    <3>3. CASE Keep(Tab)
      <4>1. /\ phase[Tab] = "computing" /\ left[Tab] = {}
            /\ phase'[Tab] = "answered" /\ answer' = answer
        BY <3>3 DEF Keep, CacheTypeOK
      <4>2. version[t] <= answer[Tab][t] \/ Word(t)
        BY <4>1 DEF Knows, Reading
      <4>3. QED
        BY <2>3, <2>4, <4>1, <4>2 DEF Knows, Reading
    <3>4. CASE \E u \in Topic : Query(Tab, u)
      <4>1. PICK u \in Topic : Query(Tab, u)
        BY <3>4
      <4>2. /\ phase[Tab] = "computing" /\ phase' = phase
            /\ left'[Tab] = left[Tab] \ {u}
            /\ answer'[Tab][u] = data[u]
            /\ \A v \in Topic \ {u} : answer'[Tab][v] = answer[Tab][v]
        BY <4>1 DEF Query, CacheTypeOK
      <4>3. CASE u = t
        <5>1. version[t] <= data[t]
          BY CacheAssumption DEF Written
        <5>2. QED
          BY <2>4, <4>2, <4>3, <5>1 DEF Knows, Reading
      <4>4. CASE u # t
        BY <2>3, <2>4, <4>2, <4>4 DEF Knows, Reading
      <4>5. QED
        BY <4>3, <4>4
    <3>5. CASE Fail(Tab)
      <4>1. phase'[Tab] = "failed"
        BY <3>5 DEF Fail, CacheTypeOK
      <4>2. QED
        BY <4>1 DEF Knows
    <3>6. QED
      BY <2>1, <2>6, <3>1, <3>2, <3>3, <3>4, <3>5 DEF Starts, Serves, Fails, OtherAsks, OtherReceives
  <2>7. QED
    BY <2>5, <2>6
<1>4. QED
  BY <1>1, <1>2, <1>3

\* The steps of the panel.
LEMMA PanelCarries ==
  ASSUME Written, CacheTypeOK, Channel, Flags, Turns, NEW t \in Topic,
         visible' /\ ~ missed', (visible /\ ~ missed) => Knows(t),
         Tell \/ Floor \/ Receive \/ Reload
  PROVE  Knows(t)'
<1>1. CASE Tell \/ Floor
  <2>1. Fire /\ UNCHANGED hubVars
    BY <1>1 DEF Tell, Floor
  <2>2. again' \/ Asks(Tab)
    BY <2>1, FireKnows
  <2>3. QED
    BY <2>2, SentKnows DEF Knows, Word
<1>2. CASE Receive
  <2>1. CASE Asks(Tab)
    BY <2>1, SentKnows
  <2>2. CASE ~ Asks(Tab)
    <3>1. ~ (run = "background" /\ again)
      BY <1>2, <2>2 DEF Receive, Reads
    <3>2. /\ ~ again /\ Ends(Tab) /\ missed' = missed
          /\ UNCHANGED <<due, hubVars, sourceVars>>
      BY <1>2, <3>1 DEF Receive, Turns
    <3>3. Knows(t)
      BY <3>2 DEF sourceVars
    <3>4. phase'[Tab] = "none"
      BY <3>2, ScreenAssumption DEF Ends, CacheTypeOK
    <3>5. Word(t) => Word(t)'
      BY <3>2 DEF Word, Announced, hubVars, streamVars, sourceVars
    <3>6. CASE phase[Tab] = "answered"
      <4>1. shown' = answer[Tab] /\ version' = version
        BY <1>2, <3>6 DEF Receive, hubVars
      <4>2. version[t] <= answer[Tab][t] \/ Word(t)
        BY <3>3, <3>6 DEF Knows, Reading
      <4>3. QED
        BY <3>4, <3>5, <4>1, <4>2 DEF Knows
    <3>7. CASE phase[Tab] = "failed"
      <4>1. failed'
        BY <1>2, <3>7, Zenon DEF Receive
      <4>2. QED
        BY <3>4, <4>1 DEF Knows
    <3>8. QED
      BY <1>2, <3>6, <3>7 DEF Receive
  <2>3. QED
    BY <2>1, <2>2
<1>3. CASE Reload
  BY <1>3, SentKnows DEF Reload, Reads
<1>4. QED
  BY <1>1, <1>2, <1>3

\* The steps of the stream and of the tab that opens it.
LEMMA StreamCarries ==
  ASSUME Written, CacheTypeOK, Channel, Channel', Flags, Turns, NEW t \in Topic,
         visible' /\ ~ missed', (visible /\ ~ missed) => Knows(t),
         \/ Announces \/ Deliver \/ Accept \/ OnOpen \/ Drop \/ Refuse \/ Retry
         \/ Hide \/ Show \/ Settle
  PROVE  Knows(t)'
<1>1. CASE Deliver \/ Refuse \/ Show
  <2>1. due'
    BY <1>1, Zenon DEF Deliver, Refuse, Show
  <2>2. QED
    BY <2>1 DEF Knows, Word
<1>2. CASE Hide
  BY <1>2 DEF Hide
<1>3. CASE Drop
  <2>1. source' = "connecting" /\ dropped' = TRUE
    BY <1>3 DEF Drop
  <2>2. QED
    BY <2>1 DEF Knows, Word
<1>4. CASE Accept
  <2>1. source' = "connecting" /\ dropped' = dropped /\ missed' = (missed \/ ~ dropped)
    BY <1>4 DEF Accept, sourceVars
  <2>2. dropped'
    BY <2>1, Zenon
  <2>3. QED
    BY <2>1, <2>2 DEF Knows, Word
<1>5. CASE Announces \/ OnOpen \/ Retry \/ Settle
  <2>1. /\ UNCHANGED <<phase, answer, left, version, shown, failed>>
        /\ visible /\ ~ missed
    <3>1. UNCHANGED <<phase, answer, left, version, shown, failed>>
      BY <1>5 DEF Announces, Flush, OnOpen, Retry, Settle, hubVars, cacheVars, panelVars
    <3>2. visible' = visible /\ missed' = missed
      BY <1>5 DEF Announces, OnOpen, Retry, Settle, panelVars, sourceVars
    <3>3. visible /\ ~ missed
      BY <3>2, Zenon
    <3>4. QED
      BY <3>1, <3>3
  <2>2. Knows(t)
    BY <2>1
  <2>3. ASSUME Word(t) PROVE Word(t)'
    <3>1. CASE Announces
      BY <2>3, <3>1, FlushKeepsWord
    <3>2. CASE OnOpen
      <4>1. source # "open" /\ open /\ due' = (due \/ dropped) /\ again' = again
            /\ UNCHANGED hubVars
        BY <3>2 DEF OnOpen
      <4>2. Announced(t) \/ again \/ due \/ dropped
        BY <2>3, <4>1 DEF Word
      <4>3. Announced(t)' <=> Announced(t)
        BY <4>1 DEF Announced, hubVars, streamVars
      <4>4. (due \/ dropped) => due'
        BY <4>1, Zenon
      <4>5. QED
        BY <4>1, <4>2, <4>3, <4>4 DEF Word
    <3>3. CASE Retry
      BY <2>3, <3>3 DEF Retry, Word, Announced, hubVars, streamVars, panelVars
    <3>4. CASE Settle
      <4>1. /\ UNCHANGED <<version, told, streamVars, dropped, due, again>>
            /\ source' = "open" => source = "open"
        <5>1. visible
          BY <2>1
        <5>2. QED
          BY <3>4, <5>1 DEF Settle, panelVars
      <4>2. QED
        BY <2>3, <4>1 DEF Word, Announced, streamVars
    <3>5. QED
      BY <1>5, <3>1, <3>2, <3>3, <3>4
  <2>4. QED
    BY <2>1, <2>2, <2>3, StillKnown
<1>6. QED
  BY <1>1, <1>2, <1>3, <1>4, <1>5

LEMMA CarriedHolds == Spec => []Carried
<1>1. Init => Carried
  BY ScreenAssumption DEF Init, HubInit, CacheInit, Carried, Knows, Zero
<1>2. ASSUME Written, Written', CacheTypeOK, Answers, Channel, Channel', Flags, Turns,
             Carried, [Next]_vars
      PROVE  Carried'
  <2> SUFFICES ASSUME visible', ~ missed', NEW t \in Topic PROVE Knows(t)'
    BY DEF Carried
  <2>1. (visible /\ ~ missed) => Knows(t)
    BY <1>2 DEF Carried
  <2>2. CASE \/ \E u \in Topic : Writes(u) \/ Marks(u) \/ Waits(u)
             \/ \E r \in Reader : Starts(r) \/ Serves(r) \/ Fails(r) \/ OtherAsks(r) \/ OtherReceives(r)
    <3>1. visible /\ ~ missed
      <4>1. visible' = visible /\ missed' = missed
        BY <2>2 DEF Writes, Marks, Waits, Starts, Serves, Fails, OtherAsks, OtherReceives, panelVars, sourceVars
      <4>2. QED
        BY <4>1, Zenon
    <3>2. QED
      BY <1>2, <2>1, <2>2, <3>1, ReadsCarry
  <2>3. CASE Tell \/ Floor \/ Receive \/ Reload
    BY <1>2, <2>1, <2>3, PanelCarries
  <2>4. CASE \/ Announces \/ Deliver \/ Accept \/ OnOpen \/ Drop \/ Refuse \/ Retry
             \/ Hide \/ Show \/ Settle
    BY <1>2, <2>1, <2>4, StreamCarries
  <2>5. CASE UNCHANGED vars
    <3>1. visible /\ ~ missed /\ Knows(t)
      BY <2>1, <2>5 DEF vars, panelVars, sourceVars
    <3>2. Word(t) => Word(t)'
      BY <2>5 DEF vars, Word, Announced, hubVars, streamVars, panelVars, sourceVars
    <3>3. QED
      BY <2>5, <3>1, <3>2, StillKnown DEF vars, hubVars, cacheVars, panelVars
  <2>6. QED
    BY <1>2, <2>2, <2>3, <2>4, <2>5 DEF Next
<1>3. QED
  BY <1>1, <1>2, WrittenHolds, RequestsHold, AnswersHold, ChannelHolds, FlagsHold, TurnsHold, PTL DEF Spec

\* NothingLost: while a screen lacks a marked write, its last read did not fail
\* and no gap hid the write, word of it is on its way (live.go, live.ts, hooks.ts).
THEOREM NothingLostHolds == Spec => []NothingLost
<1>1. ASSUME Written, CacheTypeOK, Flags, Carried PROVE NothingLost
  <2> SUFFICES ASSUME visible, ~ failed, phase[Tab] # "failed", ~ missed,
                      NEW t \in Topic, shown[t] < version[t]
               PROVE  Word(t) \/ Reading(t)
    BY DEF NothingLost, Word
  <2>1. Knows(t)
    BY <1>1 DEF Carried
  <2>2. phase[Tab] \in {"none", "sent", "computing", "answered"}
    BY <1>1, ScreenAssumption DEF CacheTypeOK
  <2>3. ~ (version[t] <= shown[t])
    BY <1>1, CacheAssumption DEF Written, Flags
  <2>4. QED
    BY <2>1, <2>2, <2>3 DEF Knows
<1>2. QED
  BY <1>1, WrittenHolds, RequestsHold, FlagsHold, CarriedHolds, PTL

---------------------------------------------------------------------------
(* The request history, as screens read it *)

LogRow == [at : Nat, kind : {0, 1, 2, 3}, key : {c.key : c \in Contents}, chat : {c.chat : c \in Contents},
           failed : BOOLEAN, tokens : Nat, took : Nat, wrote : Nat]
LogTypes ==
  /\ usageRows \in Seq(LogRow) /\ stillThere \subseteq DOMAIN usageRows /\ logTick \in Nat
  /\ \A i \in DOMAIN usageRows : usageRows[i].wrote <= logTick
Counting(ids, since) == {i \in ids : usageRows[i].kind \in Counted /\ usageRows[i].at >= since}
WalkStands ==
  screen.pc \in {"more", "done"} =>
    /\ DOMAIN screen = {"pc", "filter", "cursor", "shown", "there"}
    /\ screen.shown \in Seq(DOMAIN usageRows) /\ screen.there \subseteq DOMAIN usageRows /\ ShownOnce
    /\ screen.pc = "more" => /\ screen.shown # <<>>
                             /\ screen.cursor = [at |-> usageRows[Last(screen.shown)].at, id |-> Last(screen.shown)]
    /\ \A i \in screen.there \cap stillThere : Fits(i, screen.filter) =>
         i \in Range(screen.shown) \/ (screen.pc = "more" /\ LogOrder(Last(screen.shown), i))
ReportStands ==
  screen.pc \in {"percentiles", "reported"} =>
    /\ DOMAIN screen = {"pc", "since", "totals", "byKey", "byDay", "cross", "median", "were", "calm"}
    /\ screen.were \subseteq DOMAIN usageRows /\ screen.since \in Nat
    /\ screen.totals.requests = Cardinality(Counting(screen.were, screen.since))
    /\ ReportAddsUp /\ MedianIsOfThem
Named(ids) == {usageRows[i].chat : i \in ids} \ {""}
Apart(ids) == {i \in ids : usageRows[i].chat = ""}
ListedRight(s, ids) ==
  /\ Cardinality(DOMAIN s.listed) = s.total
  /\ RequestsIn(s.listed) + Cardinality(Apart(ids)) = Cardinality(ids)
  /\ TokensIn(s.listed) + TokensOf(Apart(ids)) = TokensOf(ids)
NoneRight(s, ids) == s.none.requests = Cardinality(Apart(ids)) /\ s.none.tokens = TokensOf(Apart(ids))
ChatsRight(s) ==
  s.pc \in {"list", "rest", "shown"} =>
    /\ DOMAIN s = {"pc", "since", "total", "listed", "none", "were", "calm"}
    /\ s.were \subseteq DOMAIN usageRows /\ s.since \in Nat
    /\ s.pc = "list" => s.total = Cardinality(Named(Counting(s.were, s.since)))
    /\ s.pc \in {"rest", "shown"} /\ s.calm => ListedRight(s, Counting(s.were, s.since))
    /\ s.pc = "shown" /\ s.calm => NoneRight(s, Counting(s.were, s.since))
ChatsStand == ChatsRight(screen)
MenuStands ==
  /\ DOMAIN facets = {"at", "values", "reading"} /\ facets.at \in Nat /\ facets.at <= logTick
  /\ facets.at # 0 =>
       \A i \in stillThere : usageRows[i].wrote < facets.at => usageRows[i].key \in facets.values
  /\ screen.pc \in {"waiting", "menu"} => screen.asked \in Nat /\ screen.asked <= logTick
  /\ screen.pc = "menu" => DOMAIN screen = {"pc", "asked", "values"}
  /\ screen.pc = "waiting" => DOMAIN screen = {"pc", "asked"}
  /\ MenuIsRecent
UsageKept == LogTypes /\ WalkStands /\ ReportStands /\ ChatsStand /\ MenuStands

---------------------------------------------------------------------------
\* The rows that are there stay as they are; one more is news.
RowsRemain ==
  /\ \A i \in DOMAIN usageRows : i \in DOMAIN usageRows' /\ usageRows'[i] = usageRows[i]
  /\ stillThere' \cap DOMAIN usageRows \subseteq stillThere

LEMMA LogGrows ==
  ASSUME LogTypes, NEW c \in Contents, NEW back \in 0 .. 1, back < logTick, RecordUsage(c, logTick - back)
  PROVE  /\ LogTypes' /\ RowsRemain
         /\ DOMAIN usageRows' = DOMAIN usageRows \cup {Len(usageRows) + 1}
         /\ usageRows'[Len(usageRows) + 1].wrote = logTick
         /\ stillThere' \subseteq stillThere \cup {Len(usageRows) + 1}
         /\ Len(usageRows) + 1 \notin DOMAIN usageRows
<1> DEFINE row == [at |-> logTick - back, kind |-> KindOf(c), key |-> c.key, chat |-> c.chat,
                   failed |-> c.failed, tokens |-> c.tokens, took |-> c.took, wrote |-> logTick]
           n == Len(usageRows)
<1>1. row \in LogRow
  <2>1. c.failed \in BOOLEAN /\ c.tokens \in Nat /\ c.took \in Nat
    BY LogAssumption DEF LogAssumption
  <2>2. logTick \in Nat /\ logTick - back \in Nat /\ KindOf(c) \in {0, 1, 2, 3}
    BY DEF LogTypes, KindOf
  <2>3. QED
    BY <2>1, <2>2 DEF LogRow
<1>2. usageRows' = Append(usageRows, row) /\ stillThere' = stillThere \cup {n + 1} /\ logTick' = logTick
  BY DEF RecordUsage
<1>3. row.wrote = logTick /\ usageRows \in Seq(LogRow) /\ n \in Nat /\ DOMAIN usageRows = 1 .. n
  BY DEF LogTypes
<1> HIDE DEF row
<1>4. /\ usageRows' \in Seq(LogRow) /\ DOMAIN usageRows' = 1 .. n + 1 /\ usageRows'[n + 1] = row
      /\ \A i \in 1 .. n : usageRows'[i] = usageRows[i]
  BY <1>1, <1>2, <1>3
<1>5. \A i \in 1 .. n + 1 : usageRows'[i].wrote <= logTick
  <2>1. \A i \in 1 .. n + 1 : i \in 1 .. n \/ i = n + 1
    BY <1>3
  <2>2. \A i \in 1 .. n : usageRows'[i].wrote <= logTick
    BY <1>3, <1>4 DEF LogTypes
  <2>3. logTick <= logTick
    BY DEF LogTypes
  <2>4. QED
    BY <1>3, <1>4, <2>1, <2>2, <2>3
<1>6. 1 .. n + 1 = (1 .. n) \cup {n + 1} /\ n + 1 \notin 1 .. n
  BY <1>3
<1>7. LogTypes'
  BY <1>2, <1>3, <1>4, <1>5, <1>6 DEF LogTypes
<1>8. RowsRemain
  BY <1>2, <1>3, <1>4, <1>6 DEF RowsRemain
<1>9. QED
  BY <1>2, <1>3, <1>4, <1>6, <1>7, <1>8

LEMMA LogStays ==
  ASSUME LogTypes, PruneHistory \/ Ticks \/ UNCHANGED <<usageRows, stillThere, logTick>>
  PROVE  /\ LogTypes' /\ RowsRemain
         /\ usageRows' = usageRows /\ stillThere' \subseteq stillThere /\ logTick <= logTick'
<1>1. usageRows' = usageRows /\ stillThere' \subseteq stillThere
      /\ logTick' \in Nat /\ logTick <= logTick'
  BY DEF PruneHistory, Ticks, LogTypes
<1>2. \A i \in DOMAIN usageRows : usageRows[i] \in LogRow
  BY DEF LogTypes
<1>3. \A i \in DOMAIN usageRows : usageRows[i].wrote \in Nat
  BY <1>2 DEF LogRow
<1>4. \A i \in DOMAIN usageRows : usageRows'[i].wrote <= logTick'
  BY <1>1, <1>3 DEF LogTypes
<1>5. LogTypes'
  BY <1>1, <1>4 DEF LogTypes
<1>6. QED
  BY <1>1, <1>5 DEF RowsRemain

LEMMA RowIs ==
  ASSUME LogTypes, NEW i \in DOMAIN usageRows
  PROVE  /\ i \in Nat \ {0} /\ usageRows[i] \in LogRow /\ usageRows[i].at \in Nat
         /\ usageRows[i].tokens \in Nat /\ usageRows[i].took \in Nat /\ usageRows[i].failed \in BOOLEAN
         /\ usageRows[i].wrote \in Nat /\ usageRows[i].wrote <= logTick
<1>1. i \in Nat \ {0} /\ usageRows[i] \in LogRow
  BY DEF LogTypes
<1>2. QED
  BY <1>1 DEF LogTypes, LogRow

---------------------------------------------------------------------------
(* A page *)

LEMMA IdsFinite ==
  ASSUME LogTypes, NEW ids \in SUBSET DOMAIN usageRows
  PROVE  IsFiniteSet(ids) /\ Cardinality(ids) \in Nat /\ ids \subseteq Nat
<1>1. DOMAIN usageRows = 1 .. Len(usageRows) /\ Len(usageRows) \in Nat
  BY DEF LogTypes
<1>2. IsFiniteSet(1 .. Len(usageRows))
  BY <1>1, FS_Interval
<1>3. QED
  BY <1>1, <1>2, FS_Subset, FS_CardinalityType

\* What OrderBy makes of some rows.
Ordered(s, ids, n) ==
  /\ s \in [1 .. n -> ids]
  /\ \A x \in ids : \E i \in 1 .. n : s[i] = x

LEMMA NewestFirst ==
  ASSUME LogTypes, NEW ids \in SUBSET DOMAIN usageRows
  PROVE  /\ Ordered(OrderBy(ids, LogOrder), ids, Cardinality(ids))
         /\ \A i, j \in 1 .. Cardinality(ids) :
              i < j => LogOrder(OrderBy(ids, LogOrder)[i], OrderBy(ids, LogOrder)[j])
<1> DEFINE R == {p \in ids \X ids : LogOrder(p[1], p[2])}
           Right(s) == s \in [1 .. Cardinality(ids) -> ids] /\ \A i, j \in DOMAIN s : i < j => LogOrder(s[i], s[j])
           it == OrderBy(ids, LogOrder)
<1>1. \A x, y \in ids : <<x, y>> \in R <=> LogOrder(x, y)
  OBVIOUS
<1>2. \A i \in ids : i \in Nat /\ usageRows[i].at \in Nat
  BY RowIs
<1>3. Orders(R, ids)
  <2> HIDE DEF R
  <2>1. \A x, y \in ids : x # y => LogOrder(x, y) \/ LogOrder(y, x)
    BY <1>2 DEF LogOrder
  <2>2. \A x \in ids : ~ LogOrder(x, x)
    BY <1>2 DEF LogOrder
  <2>3. \A x, y, z \in ids : LogOrder(x, y) /\ LogOrder(y, z) => LogOrder(x, z)
    BY <1>2 DEF LogOrder
  <2>4. QED
    BY <1>1, <2>1, <2>2, <2>3 DEF Orders
<1>4. \A s : Right(s) <=> Sorts(R, ids, s)
  <2>1. ASSUME NEW s, s \in [1 .. Cardinality(ids) -> ids]
        PROVE  \A i, j \in DOMAIN s : LogOrder(s[i], s[j]) <=> <<s[i], s[j]>> \in R
    <3> HIDE DEF R
    <3>1. \A i \in DOMAIN s : s[i] \in ids
      BY <2>1
    <3>2. QED
      BY <1>1, <3>1
  <2> HIDE DEF R
  <2>2. QED
    BY <2>1 DEF Sorts
<1>5. \E s : Right(s)
  <2> HIDE DEF R, Right
  <2>1. QED
    BY <1>3, <1>4, IdsFinite, Sorted
<1>6. it = CHOOSE s \in [1 .. Cardinality(ids) -> ids] : \A i, j \in DOMAIN s : i < j => LogOrder(s[i], s[j])
  BY DEF OrderBy
<1>7. Right(it)
  <2> HIDE DEF it
  <2>1. QED
    BY <1>5, <1>6
<1>8. Sorts(R, ids, it)
  <2> HIDE DEF R, Right, it
  <2>1. QED
    BY <1>4, <1>7
<1>9. \A x \in ids : \E i \in 1 .. Cardinality(ids) : it[i] = x
  <2> HIDE DEF R, it
  <2>1. QED
    BY <1>3, <1>8, IdsFinite, SortedWhole
<1>10. DOMAIN it = 1 .. Cardinality(ids)
  <2> HIDE DEF it
  <2>1. QED
    BY <1>7
<1> HIDE DEF it, R
<1>11. QED
  BY <1>7, <1>9, <1>10 DEF Ordered, it

\* A page is of the rows that were asked for, newest first, and is cut where it
\* is full.
Asked(cursor, f) == {i \in stillThere : Fits(i, f) /\ Older(i, cursor)}

LEMMA PageIs ==
  ASSUME LogTypes, NEW cursor, NEW f, NEW page, page = RecentUsage(PageSize, cursor, f)
  PROVE  /\ page \in Seq(Asked(cursor, f)) /\ Len(page) <= PageSize
         /\ \A i, j \in DOMAIN page : i < j => LogOrder(page[i], page[j])
         /\ Len(page) < PageSize => Asked(cursor, f) \subseteq Range(page)
         /\ Len(page) = PageSize =>
              \A i \in Asked(cursor, f) : i \in Range(page) \/ LogOrder(page[Len(page)], i)
<1> DEFINE ids == Asked(cursor, f)
           s == OrderBy(ids, LogOrder)
           n == Cardinality(ids)
           m == Min({PageSize, Len(s)})
<1>1. ids \in SUBSET DOMAIN usageRows
  BY DEF LogTypes, Asked
<1>2. n \in Nat /\ PageSize \in Nat \ {0}
  BY <1>1, IdsFinite, LogAssumption DEF LogAssumption
<1>3. /\ s \in [1 .. n -> ids]
      /\ \A x \in ids : \E i \in 1 .. n : s[i] = x
      /\ \A i, j \in 1 .. n : i < j => LogOrder(s[i], s[j])
  <2> HIDE DEF ids
  <2>1. QED
    BY <1>1, NewestFirst DEF Ordered
<1>4. page = SubSeq(s, 1, m)
  BY DEF RecentUsage, Asked
<1> HIDE DEF ids, s, n
<1>5. s \in Seq(ids) /\ Len(s) = n /\ DOMAIN s = 1 .. n
  BY <1>2, <1>3
<1>6. m \in {PageSize, n} /\ m <= PageSize /\ m <= n
  <2>1. \E x \in {PageSize, n} : \A y \in {PageSize, n} : x =< y
    BY <1>2
  <2>2. QED
    BY <1>2, <1>5, <2>1 DEF Min
<1> HIDE DEF m
<1>7. m \in Nat
  BY <1>2, <1>6
<1>8. page \in Seq(ids) /\ Len(page) = m /\ DOMAIN page = 1 .. m /\ \A i \in 1 .. m : page[i] = s[i]
  BY <1>4, <1>5, <1>6, <1>7
<1>9. \A i, j \in DOMAIN page : i < j => LogOrder(page[i], page[j])
  BY <1>2, <1>3, <1>6, <1>7, <1>8
<1>10. ASSUME NEW i \in ids PROVE i \in Range(page) \/ (m < n /\ \A k \in 1 .. m : LogOrder(page[k], i))
  <2>1. PICK k \in 1 .. n : s[k] = i
    BY <1>3
  <2>2. CASE k <= m
    <3>1. k \in DOMAIN page /\ page[k] = i
      BY <1>2, <1>7, <1>8, <2>1, <2>2
    <3>2. QED
      BY <3>1 DEF Range
  <2>3. CASE m < k
    <3>1. \A j \in 1 .. m : j \in 1 .. n /\ j < k
      BY <1>2, <1>6, <1>7, <2>3
    <3>2. QED
      BY <1>2, <1>3, <1>7, <1>8, <2>1, <2>3, <3>1
  <2>4. QED
    BY <1>2, <1>7, <2>2, <2>3
<1>11. m < PageSize => ids \subseteq Range(page)
  <2>1. m < PageSize => m = n /\ ~ (m < n)
    BY <1>6, <1>7
  <2>2. QED
    BY <1>10, <2>1
<1>12. Len(page) = PageSize => \A i \in ids : i \in Range(page) \/ LogOrder(page[Len(page)], i)
  <2>1. Len(page) = PageSize => Len(page) \in 1 .. m
    BY <1>2, <1>8
  <2>2. QED
    BY <1>10, <2>1
<1>13. page \in Seq(ids) /\ Len(page) <= PageSize
  BY <1>6, <1>8
<1>14. (Len(page) < PageSize) <=> (m < PageSize)
  BY <1>8
<1>15. QED
  BY <1>9, <1>11, <1>12, <1>13, <1>14 DEF ids
---------------------------------------------------------------------------
(* Walks *)

LEMMA SameRows ==
  ASSUME RowsRemain, NEW i \in DOMAIN usageRows, NEW j \in DOMAIN usageRows
  PROVE  /\ LogOrder(i, j)' = LogOrder(i, j)
         /\ \A f : Fits(i, f)' = Fits(i, f)
<1>1. usageRows'[i] = usageRows[i] /\ usageRows'[j] = usageRows[j]
  BY DEF RowsRemain
<1>2. QED
  BY <1>1 DEF LogOrder, Fits

LEMMA NewerIsBefore ==
  ASSUME LogTypes, NEW i \in DOMAIN usageRows, NEW j \in DOMAIN usageRows, NEW k \in DOMAIN usageRows,
         LogOrder(i, j), LogOrder(j, k)
  PROVE  LogOrder(i, k)
BY RowIs DEF LogOrder

LEMMA WalkUnmoved ==
  ASSUME LogTypes, RowsRemain, WalkStands, screen' = screen
  PROVE  WalkStands'
<1>1. SUFFICES ASSUME screen.pc \in {"more", "done"} PROVE WalkStands'
  BY DEF WalkStands
<1> DEFINE sofar == screen.shown
<1>2. /\ DOMAIN screen = {"pc", "filter", "cursor", "shown", "there"}
      /\ sofar \in Seq(DOMAIN usageRows) /\ screen.there \subseteq DOMAIN usageRows
      /\ \A i, j \in DOMAIN sofar : i < j => LogOrder(sofar[i], sofar[j])
      /\ screen.pc = "more" => sofar # <<>> /\ screen.cursor = [at |-> usageRows[Last(sofar)].at, id |-> Last(sofar)]
      /\ \A i \in screen.there \cap stillThere : Fits(i, screen.filter) =>
           i \in Range(sofar) \/ (screen.pc = "more" /\ LogOrder(Last(sofar), i))
  BY <1>1 DEF WalkStands, ShownOnce
<1>3. DOMAIN usageRows \subseteq DOMAIN usageRows'
  BY DEF RowsRemain
<1>4. \A i \in DOMAIN sofar : sofar[i] \in DOMAIN usageRows
  BY <1>2
<1>5. sofar \in Seq(DOMAIN usageRows') /\ screen.there \subseteq DOMAIN usageRows'
  BY <1>2, <1>3, <1>4
<1>6. screen.pc = "more" => Last(sofar) \in DOMAIN usageRows
  BY <1>2, <1>4 DEF Last
<1>7. \A i, j \in DOMAIN sofar : i < j => LogOrder(sofar[i], sofar[j])'
  BY <1>2, <1>4, SameRows
<1>8. screen.pc = "more" => screen.cursor = [at |-> usageRows'[Last(sofar)].at, id |-> Last(sofar)]
  BY <1>2, <1>6 DEF RowsRemain
<1>9. ASSUME NEW i \in screen.there \cap stillThere', Fits(i, screen.filter)'
      PROVE  i \in Range(sofar) \/ (screen.pc = "more" /\ LogOrder(Last(sofar), i)')
  <2>1. i \in stillThere /\ i \in DOMAIN usageRows
    BY <1>2, <1>9 DEF RowsRemain
  <2>2. Fits(i, screen.filter)
    BY <1>9, <2>1, SameRows
  <2>3. CASE i \in Range(sofar)
    BY <2>3
  <2>4. CASE screen.pc = "more" /\ LogOrder(Last(sofar), i)
    BY <1>6, <2>1, <2>4, SameRows
  <2>5. QED
    BY <1>2, <1>9, <2>1, <2>2, <2>3, <2>4
<1>10. QED
  BY <1>2, <1>5, <1>7, <1>8, <1>9 DEF WalkStands, ShownOnce

LEMMA CutIs ==
  ASSUME LogTypes, NEW page \in Seq(DOMAIN usageRows), Len(page) <= PageSize
  PROVE  /\ Len(page) < PageSize => Leafed(page) = "done"
         /\ ~ (Len(page) < PageSize) =>
              /\ Len(page) = PageSize /\ page # <<>> /\ Len(page) \in DOMAIN page
              /\ Last(page) = page[Len(page)] /\ Last(page) \in DOMAIN usageRows
              /\ Leafed(page) = "more" /\ CursorAfter(page) = [at |-> usageRows[Last(page)].at, id |-> Last(page)]
<1>1. PageSize \in Nat \ {0} /\ Len(page) \in Nat
  BY LogAssumption DEF LogAssumption
<1>2. ASSUME Len(page) < PageSize PROVE Leafed(page) = "done"
  BY <1>2 DEF Leafed, CursorAfter
<1>3. ASSUME ~ (Len(page) < PageSize)
      PROVE  /\ Len(page) = PageSize /\ page # <<>> /\ Len(page) \in DOMAIN page
             /\ Last(page) = page[Len(page)] /\ Last(page) \in DOMAIN usageRows
             /\ Leafed(page) = "more" /\ CursorAfter(page) = [at |-> usageRows[Last(page)].at, id |-> Last(page)]
  <2>1. Len(page) = PageSize /\ page # <<>> /\ Len(page) \in DOMAIN page
    BY <1>1, <1>3
  <2>2. Last(page) = page[Len(page)] /\ page[Len(page)] \in DOMAIN usageRows
    BY <2>1 DEF Last
  <2>3. Last(page) # 0
    BY <2>2, RowIs
  <2>4. CursorAfter(page) = [at |-> usageRows[Last(page)].at, id |-> Last(page)]
    BY <1>3 DEF CursorAfter
  <2>5. QED
    BY <2>1, <2>2, <2>3, <2>4 DEF Leafed
<1>4. QED
  BY <1>2, <1>3

LEMMA WalkOpens ==
  ASSUME LogTypes, NEW f, OpenPage(f)
  PROVE  WalkStands'
<1> DEFINE start == [at |-> 0, id |-> 0]
           page == RecentUsage(PageSize, start, f)
<1>1. /\ screen' = [pc |-> Leafed(page), filter |-> f, cursor |-> CursorAfter(page), shown |-> page,
                    there |-> stillThere]
      /\ usageRows' = usageRows /\ stillThere' = stillThere
  BY DEF OpenPage
<1>2. Asked(start, f) = {i \in stillThere : Fits(i, f)}
  BY DEF Asked, Older
<1> HIDE DEF start
<1>3. /\ page \in Seq(Asked(start, f)) /\ Len(page) <= PageSize
      /\ \A i, j \in DOMAIN page : i < j => LogOrder(page[i], page[j])
      /\ Len(page) < PageSize => Asked(start, f) \subseteq Range(page)
      /\ Len(page) = PageSize =>
           \A i \in Asked(start, f) : i \in Range(page) \/ LogOrder(page[Len(page)], i)
  <2> HIDE DEF page
  <2>1. page = RecentUsage(PageSize, start, f)
    BY DEF page
  <2>2. QED
    BY <2>1, PageIs
<1> HIDE DEF page
<1>4. Asked(start, f) \subseteq DOMAIN usageRows /\ stillThere \subseteq DOMAIN usageRows
  BY <1>2 DEF LogTypes
<1>5. page \in Seq(DOMAIN usageRows)
  BY <1>3, <1>4
<1>6. ASSUME NEW i \in stillThere, Fits(i, f)
      PROVE  i \in Range(page) \/ (Leafed(page) = "more" /\ LogOrder(Last(page), i))
  BY <1>2, <1>3, <1>5, <1>6, CutIs
<1>7. Leafed(page) = "more" => page # <<>> /\ CursorAfter(page) = [at |-> usageRows[Last(page)].at, id |-> Last(page)]
  BY <1>3, <1>5, CutIs
<1>8. Leafed(page) \in {"more", "done"}
  BY DEF Leafed
<1>9. /\ screen'.pc = Leafed(page) /\ screen'.filter = f /\ screen'.cursor = CursorAfter(page)
      /\ screen'.shown = page /\ screen'.there = stillThere
      /\ DOMAIN screen' = {"pc", "filter", "cursor", "shown", "there"}
  BY <1>1
<1>10. /\ \A i \in stillThere : Fits(i, f)' = Fits(i, f)
       /\ \A i, j : LogOrder(i, j)' = LogOrder(i, j)
  BY <1>1 DEF Fits, LogOrder
<1>11. QED
  BY <1>1, <1>3, <1>4, <1>5, <1>6, <1>7, <1>9, <1>10 DEF WalkStands, ShownOnce

LEMMA WalkGoesOn ==
  ASSUME LogTypes, WalkStands, NextPage
  PROVE  WalkStands'
<1> DEFINE page == RecentUsage(PageSize, screen.cursor, screen.filter)
           sofar == screen.shown
           f == screen.filter
           following == Asked(screen.cursor, f)
           all == sofar \o page
<1>1. /\ screen.pc = "more"
      /\ screen' = [screen EXCEPT !.pc = Leafed(page), !.cursor = CursorAfter(page), !.shown = @ \o page]
      /\ usageRows' = usageRows /\ stillThere' = stillThere
  BY DEF NextPage
<1>2. /\ DOMAIN screen = {"pc", "filter", "cursor", "shown", "there"}
      /\ sofar \in Seq(DOMAIN usageRows) /\ screen.there \subseteq DOMAIN usageRows
      /\ \A i, j \in DOMAIN sofar : i < j => LogOrder(sofar[i], sofar[j])
      /\ sofar # <<>> /\ screen.cursor = [at |-> usageRows[Last(sofar)].at, id |-> Last(sofar)]
      /\ \A i \in screen.there \cap stillThere : Fits(i, f) => i \in Range(sofar) \/ LogOrder(Last(sofar), i)
  BY <1>1 DEF WalkStands, ShownOnce
<1>3. /\ page \in Seq(following) /\ Len(page) <= PageSize
      /\ \A i, j \in DOMAIN page : i < j => LogOrder(page[i], page[j])
      /\ Len(page) < PageSize => following \subseteq Range(page)
      /\ Len(page) = PageSize =>
           \A i \in following : i \in Range(page) \/ LogOrder(page[Len(page)], i)
  <2> HIDE DEF page
  <2>1. page = RecentUsage(PageSize, screen.cursor, f)
    BY DEF page
  <2>2. QED
    BY <2>1, PageIs
<1> HIDE DEF page
<1>4. Last(sofar) = sofar[Len(sofar)] /\ Len(sofar) \in DOMAIN sofar /\ Last(sofar) \in DOMAIN usageRows
  BY <1>2 DEF Last
<1>5. \A i \in DOMAIN usageRows : Older(i, screen.cursor) <=> LogOrder(Last(sofar), i)
  BY <1>2, <1>4, RowIs DEF Older, LogOrder
<1>6. following = {i \in stillThere : Fits(i, f) /\ LogOrder(Last(sofar), i)} /\ following \subseteq DOMAIN usageRows
  <2>1. stillThere \subseteq DOMAIN usageRows
    BY DEF LogTypes
  <2>2. QED
    BY <1>5, <2>1 DEF Asked
<1> HIDE DEF following
<1>7. page \in Seq(DOMAIN usageRows)
  BY <1>3, <1>6
<1>8. /\ all \in Seq(DOMAIN usageRows) /\ Len(all) = Len(sofar) + Len(page)
      /\ \A i \in 1 .. Len(sofar) : all[i] = sofar[i]
      /\ \A i \in 1 .. Len(page) : all[Len(sofar) + i] = page[i]
  BY <1>2, <1>7
<1>9. Range(sofar) \subseteq Range(all) /\ Range(page) \subseteq Range(all)
  <2>1. ASSUME NEW i \in DOMAIN sofar PROVE sofar[i] \in Range(all)
    <3>1. i \in DOMAIN all /\ all[i] = sofar[i]
      BY <1>2, <1>7, <1>8
    <3>2. QED
      BY <3>1 DEF Range
  <2>2. ASSUME NEW i \in DOMAIN page PROVE page[i] \in Range(all)
    <3>1. Len(sofar) + i \in DOMAIN all /\ all[Len(sofar) + i] = page[i]
      BY <1>2, <1>7, <1>8
    <3>2. QED
      BY <3>1 DEF Range
  <2>3. QED
    BY <2>1, <2>2 DEF Range
<1>10. ASSUME NEW i \in DOMAIN all, NEW j \in DOMAIN all, i < j PROVE LogOrder(all[i], all[j])
  <2>1. i \in 1 .. Len(sofar) + Len(page) /\ j \in 1 .. Len(sofar) + Len(page)
        /\ Len(sofar) \in Nat /\ Len(page) \in Nat
    BY <1>2, <1>7, <1>8
  <2>2. CASE j <= Len(sofar)
    <3>1. i \in DOMAIN sofar /\ j \in DOMAIN sofar /\ all[i] = sofar[i] /\ all[j] = sofar[j]
      BY <1>2, <1>8, <1>10, <2>1, <2>2
    <3>2. QED
      BY <1>2, <1>10, <3>1
  <2>3. CASE Len(sofar) < i
    <3>1. i - Len(sofar) \in DOMAIN page /\ j - Len(sofar) \in DOMAIN page /\ i - Len(sofar) < j - Len(sofar)
      BY <1>7, <1>10, <2>1, <2>3
    <3>2. all[i] = page[i - Len(sofar)] /\ all[j] = page[j - Len(sofar)]
      <4>1. i - Len(sofar) \in 1 .. Len(page) /\ j - Len(sofar) \in 1 .. Len(page)
        BY <1>7, <3>1
      <4>2. Len(sofar) + (i - Len(sofar)) = i /\ Len(sofar) + (j - Len(sofar)) = j
        BY <2>1
      <4>3. QED
        BY <1>8, <4>1, <4>2
    <3>3. QED
      BY <1>3, <3>1, <3>2
  <2>4. CASE i <= Len(sofar) /\ Len(sofar) < j
    <3>1. i \in DOMAIN sofar /\ all[i] = sofar[i] /\ sofar[i] \in DOMAIN usageRows
      BY <1>2, <1>8, <2>1, <2>4
    <3>2. j - Len(sofar) \in 1 .. Len(page) /\ Len(sofar) + (j - Len(sofar)) = j
      BY <2>1, <2>4
    <3>3. all[j] = page[j - Len(sofar)] /\ page[j - Len(sofar)] \in following
      BY <1>3, <1>8, <3>2
    <3>4. LogOrder(Last(sofar), all[j]) /\ all[j] \in DOMAIN usageRows
      BY <1>6, <3>3
    <3>5. CASE i = Len(sofar)
      BY <1>4, <3>1, <3>4, <3>5
    <3>6. CASE i # Len(sofar)
      <4>1. LogOrder(sofar[i], Last(sofar))
        BY <1>2, <1>4, <2>1, <2>4, <3>1, <3>6
      <4>2. QED
        BY <1>4, <3>1, <3>4, <4>1, NewerIsBefore
    <3>7. QED
      BY <3>5, <3>6
  <2>5. QED
    BY <2>1, <2>2, <2>3, <2>4
<1>11. Leafed(page) = "more" => /\ all # <<>> /\ Last(all) = Last(page)
                                /\ CursorAfter(page) = [at |-> usageRows[Last(page)].at, id |-> Last(page)]
  <2>1. SUFFICES ASSUME Leafed(page) = "more"
                 PROVE  /\ all # <<>> /\ Last(all) = Last(page)
                        /\ CursorAfter(page) = [at |-> usageRows[Last(page)].at, id |-> Last(page)]
    OBVIOUS
  <2>2. /\ page # <<>> /\ Len(page) \in DOMAIN page /\ Last(page) = page[Len(page)]
        /\ CursorAfter(page) = [at |-> usageRows[Last(page)].at, id |-> Last(page)]
    BY <1>3, <1>7, <2>1, CutIs
  <2>3. Len(page) \in 1 .. Len(page)
    BY <1>7, <2>2
  <2>4. all[Len(all)] = page[Len(page)] /\ all # <<>>
    BY <1>2, <1>7, <1>8, <2>3
  <2>5. QED
    BY <2>2, <2>4 DEF Last
<1>12. ASSUME NEW i \in screen.there \cap stillThere, Fits(i, f)
       PROVE  i \in Range(all) \/ (Leafed(page) = "more" /\ LogOrder(Last(all), i))
  <2>1. CASE i \in Range(sofar)
    BY <1>9, <2>1
  <2>2. CASE LogOrder(Last(sofar), i)
    <3>1. i \in following
      BY <1>6, <1>12, <2>2
    <3>2. i \in Range(page) \/ (Leafed(page) = "more" /\ LogOrder(Last(page), i))
      BY <1>3, <1>7, <3>1, CutIs
    <3>3. QED
      BY <1>9, <1>11, <3>2
  <2>3. QED
    BY <1>2, <1>12, <2>1, <2>2
<1>13. /\ screen'.pc = Leafed(page) /\ screen'.filter = f /\ screen'.cursor = CursorAfter(page)
       /\ screen'.shown = all /\ screen'.there = screen.there
       /\ DOMAIN screen' = {"pc", "filter", "cursor", "shown", "there"}
  BY <1>1, <1>2
<1>14. \A i : Fits(i, screen.filter)' = Fits(i, screen.filter)
  BY <1>1, <1>13 DEF Fits
<1>15. \A i, j : LogOrder(i, j)' = LogOrder(i, j)
  BY <1>1 DEF LogOrder
<1> HIDE DEF all, sofar
<1>16. QED
  BY <1>1, <1>2, <1>8, <1>10, <1>11, <1>12, <1>13, <1>14, <1>15 DEF WalkStands, ShownOnce
---------------------------------------------------------------------------
(* A report *)

Seen(p, ids) == {p[i] : i \in ids}
ThoseSeen(p, ids, k) == {i \in ids : p[i] = k}

\* The rows of each kind are the rows: in number, in tokens and in errors.
LEMMA BucketsAddUp ==
  ASSUME LogTypes, NEW ids \in SUBSET DOMAIN usageRows, NEW K, IsFiniteSet(K), NEW p \in [ids -> K],
         NEW buckets, DOMAIN buckets = K, \A k \in K : buckets[k] = Sums(ThoseSeen(p, ids, k))
  PROVE  AddsUp(buckets, Sums(ids))
<1> DEFINE class(k) == {i \in ids : p[i] = k}
<1>1. IsFiniteSet(ids) /\ \A k \in K : IsFiniteSet(class(k)) /\ class(k) \in SUBSET ids
  BY IdsFinite, FS_Subset
<1>2. \A i \in ids : usageRows[i].tokens \in Nat /\ usageRows[i].failed \in BOOLEAN
  BY RowIs
<1>3. ASSUME NEW k \in K
      PROVE  /\ buckets[k].requests = Cardinality(class(k)) /\ buckets[k].tokens = TokensOf(class(k))
             /\ buckets[k].errors = Cardinality({i \in class(k) : usageRows[i].failed})
  <2>1. buckets[k] = Sums(class(k))
    BY DEF ThoseSeen
  <2> HIDE DEF class
  <2>2. QED
    BY <2>1 DEF Sums
<1>4. RequestsIn(buckets) = Cardinality(ids)
  <2> DEFINE w == [i \in ids |-> 1]
             all == [i \in ids |-> TRUE]
  <2>1. w \in [ids -> Nat] /\ all \in [ids -> BOOLEAN] /\ \A x \in ids : w[x] = IF all[x] THEN 1 ELSE 0
    OBVIOUS
  <2>2. {x \in ids : all[x]} = ids
    OBVIOUS
  <2>3. SumFunction(w) = Cardinality(ids)
    <3> HIDE DEF w, all
    <3>1. SumFunction(w) = Cardinality({x \in ids : all[x]})
      BY <1>1, <2>1, OnesCount
    <3>2. QED
      BY <2>2, <3>1
  <2>4. ASSUME NEW k \in K PROVE SumFunction(OfClass(w, p, ids, k)) = buckets[k].requests
    <3> DEFINE v == OfClass(w, p, ids, k)
               every == [i \in class(k) |-> TRUE]
    <3>1. v \in [class(k) -> Nat] /\ every \in [class(k) -> BOOLEAN]
          /\ \A x \in class(k) : v[x] = IF every[x] THEN 1 ELSE 0
      BY DEF OfClass
    <3>2. {x \in class(k) : every[x]} = class(k)
      OBVIOUS
    <3>3. buckets[k].requests = Cardinality(class(k))
      BY <1>3
    <3>4. IsFiniteSet(class(k))
      BY <1>1
    <3> HIDE DEF v, every, class
    <3>5. SumFunction(v) = Cardinality({x \in class(k) : every[x]})
      BY <3>1, <3>4, OnesCount
    <3>6. QED
      BY <3>2, <3>3, <3>5 DEF v
  <2>5. OfClasses(w, p, ids, K) = [b \in DOMAIN buckets |-> buckets[b].requests]
    <3> HIDE DEF w
    <3>1. QED
      BY <1>3, <2>4 DEF OfClasses
  <2>6. SumFunction(OfClasses(w, p, ids, K)) = SumFunction(w)
    <3> HIDE DEF w
    <3>1. QED
      BY <1>1, <2>1, ClassesSum
  <2> HIDE DEF w
  <2>7. QED
    BY <2>3, <2>5, <2>6 DEF RequestsIn
<1>5. TokensIn(buckets) = TokensOf(ids)
  <2> DEFINE w == [i \in ids |-> usageRows[i].tokens]
  <2>1. w \in [ids -> Nat]
    BY <1>2
  <2>2. ASSUME NEW k \in K PROVE SumFunction(OfClass(w, p, ids, k)) = buckets[k].tokens
    <3>1. OfClass(w, p, ids, k) = [i \in class(k) |-> usageRows[i].tokens]
      BY DEF OfClass
    <3>2. buckets[k].tokens = TokensOf(class(k))
      BY <1>3
    <3>3. QED
      BY <3>1, <3>2 DEF TokensOf
  <2>3. OfClasses(w, p, ids, K) = [b \in DOMAIN buckets |-> buckets[b].tokens]
    <3> HIDE DEF w
    <3>1. QED
      BY <1>3, <2>2 DEF OfClasses
  <2>4. SumFunction(OfClasses(w, p, ids, K)) = SumFunction(w)
    <3> HIDE DEF w
    <3>1. QED
      BY <1>1, <2>1, ClassesSum
  <2>5. SumFunction(w) = TokensOf(ids)
    BY DEF TokensOf
  <2> HIDE DEF w
  <2>6. QED
    BY <2>3, <2>4, <2>5 DEF TokensIn
<1>6. ErrorsIn(buckets) = Cardinality({i \in ids : usageRows[i].failed})
  <2> DEFINE marks == [i \in ids |-> usageRows[i].failed]
             w == [i \in ids |-> IF usageRows[i].failed THEN 1 ELSE 0]
  <2>1. w \in [ids -> Nat] /\ marks \in [ids -> BOOLEAN] /\ \A x \in ids : w[x] = IF marks[x] THEN 1 ELSE 0
    BY <1>2
  <2>2. {x \in ids : marks[x]} = {i \in ids : usageRows[i].failed}
    OBVIOUS
  <2>3. SumFunction(w) = Cardinality({x \in ids : marks[x]})
    <3> HIDE DEF w, marks
    <3>1. QED
      BY <1>1, <2>1, OnesCount
  <2>4. ASSUME NEW k \in K PROVE SumFunction(OfClass(w, p, ids, k)) = buckets[k].errors
    <3> DEFINE v == OfClass(w, p, ids, k)
               fail == [i \in class(k) |-> usageRows[i].failed]
    <3>1. v \in [class(k) -> Nat] /\ fail \in [class(k) -> BOOLEAN]
          /\ \A x \in class(k) : v[x] = IF fail[x] THEN 1 ELSE 0
      BY <1>2 DEF OfClass
    <3>2. {x \in class(k) : fail[x]} = {i \in class(k) : usageRows[i].failed}
      OBVIOUS
    <3>3. buckets[k].errors = Cardinality({i \in class(k) : usageRows[i].failed})
      BY <1>3
    <3>4. IsFiniteSet(class(k))
      BY <1>1
    <3> HIDE DEF v, fail, class
    <3>5. SumFunction(v) = Cardinality({x \in class(k) : fail[x]})
      BY <3>1, <3>4, OnesCount
    <3>6. QED
      BY <3>2, <3>3, <3>5 DEF v
  <2>5. OfClasses(w, p, ids, K) = [b \in DOMAIN buckets |-> buckets[b].errors]
    <3> HIDE DEF w
    <3>1. QED
      BY <1>3, <2>4 DEF OfClasses
  <2>6. SumFunction(OfClasses(w, p, ids, K)) = SumFunction(w)
    <3> HIDE DEF w
    <3>1. QED
      BY <1>1, <2>1, ClassesSum
  <2> HIDE DEF w, marks
  <2>7. QED
    BY <2>2, <2>3, <2>5, <2>6 DEF ErrorsIn
<1>7. QED
  BY <1>4, <1>5, <1>6 DEF AddsUp, Sums

\* As what is seen of the rows tells them apart.
LEMMA SeenFinite ==
  ASSUME NEW ids, IsFiniteSet(ids), NEW p
  PROVE  IsFiniteSet(Seen(p, ids))
<1> DEFINE T == {p[i] : i \in ids}
           f == [i \in ids |-> p[i]]
<1>1. f \in Surjection(ids, T)
  BY DEF Surjection
<1> HIDE DEF f, T
<1>2. QED
  BY <1>1, FS_Surjection DEF T, Seen

LEMMA BucketsOf ==
  ASSUME LogTypes, NEW ids \in SUBSET DOMAIN usageRows, NEW V, NEW p \in [ids -> V],
         NEW buckets, DOMAIN buckets = Seen(p, ids),
         \A k \in Seen(p, ids) : buckets[k] = Sums(ThoseSeen(p, ids, k))
  PROVE  AddsUp(buckets, Sums(ids))
<1>1. p \in [ids -> Seen(p, ids)]
  BY DEF Seen
<1>2. IsFiniteSet(Seen(p, ids))
  BY IdsFinite, SeenFinite
<1>3. QED
  BY <1>1, <1>2, BucketsAddUp

LEMMA ReportOf ==
  ASSUME LogTypes, NEW ids \in SUBSET DOMAIN usageRows,
         NEW keys, keys = {usageRows[i].key : i \in ids}, NEW days, days = {usageRows[i].at : i \in ids},
         NEW byKey, byKey = [k \in keys |-> Sums({i \in ids : usageRows[i].key = k})],
         NEW byDay, byDay = [d \in days |-> Sums({i \in ids : usageRows[i].at = d})]
  PROVE  /\ AddsUp(byKey, Sums(ids)) /\ AddsUp(byDay, Sums(ids))
         /\ \A day \in DOMAIN byDay :
              AddsUp([cell \in {c \in DOMAIN Crossed(ids) : c[1] = day} |-> Crossed(ids)[cell]], byDay[day])
<1>1. IsFiniteSet(ids)
  BY IdsFinite
<1>2. AddsUp(byKey, Sums(ids))
  <2> DEFINE p == [i \in ids |-> usageRows[i].key]
  <2>1. keys = Seen(p, ids) /\ p \in [ids -> keys]
    BY DEF Seen
  <2>2. DOMAIN byKey = keys /\ \A k \in keys : byKey[k] = Sums(ThoseSeen(p, ids, k))
    <3>1. \A k : {i \in ids : usageRows[i].key = k} = ThoseSeen(p, ids, k)
      BY DEF ThoseSeen
    <3> HIDE DEF p
    <3>2. QED
      BY <3>1
  <2> HIDE DEF p
  <2>3. QED
    BY <2>1, <2>2, BucketsOf
<1>3. AddsUp(byDay, Sums(ids))
  <2> DEFINE p == [i \in ids |-> usageRows[i].at]
  <2>1. days = Seen(p, ids) /\ p \in [ids -> days]
    BY DEF Seen
  <2>2. DOMAIN byDay = days /\ \A k \in days : byDay[k] = Sums(ThoseSeen(p, ids, k))
    <3>1. \A k : {i \in ids : usageRows[i].at = k} = ThoseSeen(p, ids, k)
      BY DEF ThoseSeen
    <3> HIDE DEF p
    <3>2. QED
      BY <3>1
  <2> HIDE DEF p
  <2>3. QED
    BY <2>1, <2>2, BucketsOf
<1>4. ASSUME NEW day \in DOMAIN byDay
      PROVE  AddsUp([cell \in {c \in DOMAIN Crossed(ids) : c[1] = day} |-> Crossed(ids)[cell]], byDay[day])
  <2> DEFINE at(i) == <<usageRows[i].at, NameOf[usageRows[i].key]>>
             today == {i \in ids : usageRows[i].at = day}
             p == [i \in today |-> at(i)]
             cells == {c \in DOMAIN Crossed(ids) : c[1] = day}
             charted == [cell \in cells |-> Crossed(ids)[cell]]
  <2>1. byDay[day] = Sums(today)
    OBVIOUS
  <2>2. DOMAIN Crossed(ids) = {at(i) : i \in ids}
        /\ \A c \in DOMAIN Crossed(ids) : Crossed(ids)[c] = Sums({i \in ids : at(i) = c})
    BY DEF Crossed
  <2>3. \A i \in ids : at(i)[1] = usageRows[i].at
    OBVIOUS
  <2>4. today \in SUBSET DOMAIN usageRows /\ IsFiniteSet(today)
    BY <1>1, FS_Subset
  <2>5. \A i \in today : p[i] = at(i)
    OBVIOUS
  <2>6. p \in [today -> cells]
    <3>1. \A i \in today : at(i) \in DOMAIN Crossed(ids) /\ at(i)[1] = day
      BY <2>2, <2>3
    <3> HIDE DEF at
    <3>2. QED
      BY <3>1
  <2>7. \A c \in cells : {i \in ids : at(i) = c} = ThoseSeen(p, today, c)
    <3>1. ASSUME NEW c \in cells, NEW i PROVE (i \in ids /\ at(i) = c) <=> (i \in today /\ p[i] = c)
      <4>1. c[1] = day
        OBVIOUS
      <4> HIDE DEF at, p, cells
      <4>2. i \in ids /\ at(i) = c => i \in today
        BY <2>3, <4>1
      <4>3. i \in today => i \in ids /\ p[i] = at(i)
        BY <2>5
      <4>4. QED
        BY <4>2, <4>3
    <3> HIDE DEF at, p, cells, today
    <3>2. QED
      BY <3>1 DEF ThoseSeen
  <2>8. DOMAIN charted = cells /\ \A c \in cells : charted[c] = Sums(ThoseSeen(p, today, c))
    <3>1. \A c \in cells : c \in DOMAIN Crossed(ids)
      OBVIOUS
    <3> HIDE DEF at, p, cells, today
    <3>2. \A c \in cells : Crossed(ids)[c] = Sums(ThoseSeen(p, today, c))
      BY <2>2, <2>7, <3>1
    <3>3. QED
      BY <3>2
  <2>9. IsFiniteSet(cells)
    <3> DEFINE q == [i \in ids |-> at(i)]
    <3>1. DOMAIN Crossed(ids) = Seen(q, ids)
      <4>1. \A i \in ids : q[i] = at(i)
        OBVIOUS
      <4> HIDE DEF q, at
      <4>2. {at(i) : i \in ids} = Seen(q, ids)
        BY <4>1 DEF Seen
      <4>3. QED
        BY <2>2, <4>2
    <3> HIDE DEF q, at
    <3>2. IsFiniteSet(DOMAIN Crossed(ids))
      BY <1>1, <3>1, SeenFinite
    <3>3. QED
      BY <3>2, FS_Subset
  <2> HIDE DEF at, p, cells, today, charted
  <2>10. AddsUp(charted, Sums(today))
    BY <2>4, <2>6, <2>8, <2>9, BucketsAddUp
  <2>11. QED
    BY <2>1, <2>10 DEF charted, cells
<1>5. QED
  BY <1>2, <1>3, <1>4
---------------------------------------------------------------------------
(* The median *)

LEMMA QuickestFirst ==
  ASSUME LogTypes, NEW ids \in SUBSET DOMAIN usageRows
  PROVE  /\ Ordered(OrderBy(ids, Quicker), ids, Cardinality(ids))
         /\ \A i, j \in 1 .. Cardinality(ids) :
              Quicker(OrderBy(ids, Quicker)[i], OrderBy(ids, Quicker)[j]) => i < j
<1> DEFINE R == {p \in ids \X ids : Quicker(p[1], p[2])}
           Right(s) == s \in [1 .. Cardinality(ids) -> ids] /\ \A i, j \in DOMAIN s : i < j => Quicker(s[i], s[j])
           it == OrderBy(ids, Quicker)
<1>1. \A x, y \in ids : <<x, y>> \in R <=> Quicker(x, y)
  OBVIOUS
<1>2. \A i \in ids : i \in Nat /\ usageRows[i].took \in Nat
  BY RowIs
<1>3. Orders(R, ids)
  <2> HIDE DEF R
  <2>1. \A x, y \in ids : x # y => Quicker(x, y) \/ Quicker(y, x)
    BY <1>2 DEF Quicker
  <2>2. \A x \in ids : ~ Quicker(x, x)
    BY <1>2 DEF Quicker
  <2>3. \A x, y, z \in ids : Quicker(x, y) /\ Quicker(y, z) => Quicker(x, z)
    BY <1>2 DEF Quicker
  <2>4. QED
    BY <1>1, <2>1, <2>2, <2>3 DEF Orders
<1>4. \A s : Right(s) <=> Sorts(R, ids, s)
  <2>1. ASSUME NEW s, s \in [1 .. Cardinality(ids) -> ids]
        PROVE  \A i, j \in DOMAIN s : Quicker(s[i], s[j]) <=> <<s[i], s[j]>> \in R
    <3> HIDE DEF R
    <3>1. \A i \in DOMAIN s : s[i] \in ids
      BY <2>1
    <3>2. QED
      BY <1>1, <3>1
  <2> HIDE DEF R
  <2>2. QED
    BY <2>1 DEF Sorts
<1>5. \E s : Right(s)
  <2> HIDE DEF R, Right
  <2>1. QED
    BY <1>3, <1>4, IdsFinite, Sorted
<1>6. it = CHOOSE s \in [1 .. Cardinality(ids) -> ids] : \A i, j \in DOMAIN s : i < j => Quicker(s[i], s[j])
  BY DEF OrderBy
<1>7. Right(it)
  <2> HIDE DEF it
  <2>1. QED
    BY <1>5, <1>6
<1>8. Sorts(R, ids, it)
  <2> HIDE DEF R, Right, it
  <2>1. QED
    BY <1>4, <1>7
<1>9. /\ \A x \in ids : \E i \in 1 .. Cardinality(ids) : it[i] = x
      /\ \A i, j \in 1 .. Cardinality(ids) : <<it[i], it[j]>> \in R => i < j
  <2> HIDE DEF R, it
  <2>1. QED
    BY <1>3, <1>8, IdsFinite, SortedWhole
<1>10. it \in [1 .. Cardinality(ids) -> ids]
  <2> HIDE DEF it
  <2>1. QED
    BY <1>7
<1> HIDE DEF it, R
<1>11. \A i, j \in 1 .. Cardinality(ids) : Quicker(it[i], it[j]) => i < j
  BY <1>1, <1>9, <1>10
<1>12. QED
  BY <1>9, <1>10, <1>11 DEF Ordered, it

\* No more than there are places.
Placed(xs, s, a, b) == \A x \in xs : \E j \in a .. b : s[j] = x
LEMMA AtMostPlaces ==
  ASSUME NEW a \in Nat, NEW b \in Nat, a <= b + 1, NEW s, NEW xs, Placed(xs, s, a, b)
  PROVE  IsFiniteSet(xs) /\ Cardinality(xs) \in Nat /\ Cardinality(xs) <= b - a + 1
<1> DEFINE f == [j \in a .. b |-> s[j]]
           T == {f[j] : j \in a .. b}
<1>1. f \in Surjection(a .. b, T)
  BY DEF Surjection
<1>2. IsFiniteSet(a .. b) /\ Cardinality(a .. b) = b - a + 1
  BY FS_Interval
<1>3. xs \subseteq T
  <2>1. ASSUME NEW x \in xs PROVE x \in T
    <3>1. PICK j \in a .. b : s[j] = x
      BY DEF Placed
    <3>2. f[j] = x
      BY <3>1
    <3>3. QED
      BY <3>2
  <2>2. QED
    BY <2>1
<1> HIDE DEF f, T
<1>4. IsFiniteSet(T) /\ Cardinality(T) <= b - a + 1
  BY <1>1, <1>2, FS_Surjection
<1>5. IsFiniteSet(xs) /\ Cardinality(xs) <= Cardinality(T)
  BY <1>3, <1>4, FS_Subset
<1>6. Cardinality(xs) \in Nat /\ Cardinality(T) \in Nat
  BY <1>4, <1>5, FS_CardinalityType
<1>7. QED
  BY <1>4, <1>5, <1>6

MidOf(ids, m) ==
  /\ \E i \in ids : usageRows[i].took = m
  /\ 2 * Cardinality({i \in ids : usageRows[i].took > m}) <= Cardinality(ids) + 1
  /\ 2 * Cardinality({i \in ids : usageRows[i].took < m}) < Cardinality(ids)

LEMMA MedianIs ==
  ASSUME LogTypes, NEW since, NEW n, n = Cardinality(Rows(since)), n > 0
  PROVE  MidOf(Rows(since), durationPercentile(since, n, 50))
<1> DEFINE ids == Rows(since)
           s == OrderBy(ids, Quicker)
           q == (n * 50) \div 100
           place == Max({q, 1})
           m == durationPercentile(since, n, 50)
<1>1. ids \in SUBSET DOMAIN usageRows
  BY DEF LogTypes, Rows
<1>2. n \in Nat
  BY <1>1, IdsFinite
<1>3. m = IF place > Len(s) THEN 0 ELSE usageRows[s[place]].took
  BY DEF durationPercentile
<1>4. n = Cardinality(ids)
  OBVIOUS
<1> HIDE DEF m, ids
<1>5. /\ s \in [1 .. n -> ids]
      /\ \A x \in ids : \E i \in 1 .. n : s[i] = x
      /\ \A i, j \in 1 .. n : Quicker(s[i], s[j]) => i < j
  BY <1>1, <1>4, QuickestFirst DEF Ordered
<1> HIDE DEF s
<1>6. s \in Seq(ids) /\ Len(s) = n
  BY <1>2, <1>5
<1>7. q \in Nat /\ 2 * q <= n /\ n <= 2 * q + 1
  BY <1>2
<1> HIDE DEF q
<1>8. place \in {q, 1} /\ place >= q /\ place >= 1
  <2>1. \E x \in {q, 1} : \A y \in {q, 1} : x >= y
    BY <1>7
  <2>2. QED
    BY <2>1 DEF Max
<1> HIDE DEF place
<1>9. place \in 1 .. n
  BY <1>2, <1>7, <1>8
<1>10. m = usageRows[s[place]].took /\ s[place] \in ids
  BY <1>2, <1>3, <1>5, <1>6, <1>9
<1>11. \A i \in ids : i \in Nat /\ usageRows[i].took \in Nat
  BY <1>1, RowIs
<1>12. 2 * Cardinality({i \in ids : usageRows[i].took > m}) <= n + 1
  <2> DEFINE longer == {i \in ids : usageRows[i].took > m}
  <2>1. ASSUME NEW x \in longer PROVE \E j \in place + 1 .. n : s[j] = x
    <3>1. PICK j \in 1 .. n : s[j] = x
      BY <1>5
    <3>2. Quicker(s[place], s[j])
      BY <1>10, <1>11, <3>1 DEF Quicker
    <3>3. place < j
      BY <1>5, <1>9, <3>2
    <3>4. j \in place + 1 .. n
      BY <1>2, <1>9, <3>3
    <3>5. QED
      BY <3>1, <3>4
  <2>2. place + 1 \in Nat /\ place + 1 <= n + 1
    BY <1>2, <1>9
  <2> HIDE DEF longer
  <2>6. Placed(longer, s, place + 1, n)
    BY <2>1 DEF Placed
  <2>3. Cardinality(longer) \in Nat /\ Cardinality(longer) <= n - (place + 1) + 1
    BY <1>2, <2>6, <2>2, AtMostPlaces
  <2>4. 2 * Cardinality(longer) <= n + 1
    BY <1>2, <1>7, <1>8, <1>9, <2>3
  <2>5. QED
    BY <2>4 DEF longer
<1>13. 2 * Cardinality({i \in ids : usageRows[i].took < m}) < n
  <2> DEFINE less == {i \in ids : usageRows[i].took < m}
  <2>1. ASSUME NEW x \in less PROVE \E j \in 1 .. place - 1 : s[j] = x
    <3>1. PICK j \in 1 .. n : s[j] = x
      BY <1>5
    <3>2. Quicker(s[j], s[place])
      BY <1>10, <1>11, <3>1 DEF Quicker
    <3>3. j < place
      BY <1>5, <1>9, <3>2
    <3>4. j \in 1 .. place - 1
      BY <1>2, <1>9, <3>3
    <3>5. QED
      BY <3>1, <3>4
  <2>2. place - 1 \in Nat /\ 1 <= (place - 1) + 1
    BY <1>2, <1>9
  <2> HIDE DEF less
  <2>6. Placed(less, s, 1, place - 1)
    BY <2>1 DEF Placed
  <2>3. Cardinality(less) \in Nat /\ Cardinality(less) <= (place - 1) - 1 + 1
    BY <2>6, <2>2, AtMostPlaces
  <2>4. 2 * Cardinality(less) < n
    BY <1>2, <1>7, <1>8, <1>9, <2>3
  <2>5. QED
    BY <2>4 DEF less
<1>14. \E i \in ids : usageRows[i].took = m
  BY <1>10
<1>15. MidOf(ids, m)
  BY <1>4, <1>12, <1>13, <1>14 DEF MidOf
<1>16. QED
  BY <1>15 DEF ids, m
---------------------------------------------------------------------------
(* A report stays true of the rows it was of *)

LEMMA RowsStay ==
  ASSUME RowsRemain, NEW ids \in SUBSET DOMAIN usageRows
  PROVE  /\ ids \in SUBSET DOMAIN usageRows'
         /\ \A since : {i \in ids : usageRows'[i].kind \in Counted /\ usageRows'[i].at >= since} = Counting(ids, since)
         /\ \A m : MidOf(ids, m)' = MidOf(ids, m)
<1>1. \A i \in ids : i \in DOMAIN usageRows' /\ usageRows'[i] = usageRows[i]
  BY DEF RowsRemain
<1>2. \A m : /\ {i \in ids : usageRows'[i].took > m} = {i \in ids : usageRows[i].took > m}
             /\ {i \in ids : usageRows'[i].took < m} = {i \in ids : usageRows[i].took < m}
  BY <1>1
<1>3. \A since : {i \in ids : usageRows'[i].kind \in Counted /\ usageRows'[i].at >= since} = Counting(ids, since)
  BY <1>1 DEF Counting
<1>4. \A m : MidOf(ids, m)' = MidOf(ids, m)
  BY <1>1, <1>2 DEF MidOf
<1>5. QED
  BY <1>1, <1>3, <1>4

ReportIs(s) ==
  /\ AddsUp(s.byKey, s.totals) /\ AddsUp(s.byDay, s.totals)
  /\ \A day \in DOMAIN s.byDay :
       AddsUp([cell \in {c \in DOMAIN s.cross : c[1] = day} |-> s.cross[cell]], s.byDay[day])
Median(s) ==
  s.pc = "reported" /\ s.calm /\ s.totals.requests > 0 => MidOf(Counting(s.were, s.since), s.median)

ReportRight(s) ==
  s.pc \in {"percentiles", "reported"} =>
    /\ DOMAIN s = {"pc", "since", "totals", "byKey", "byDay", "cross", "median", "were", "calm"}
    /\ s.were \subseteq DOMAIN usageRows /\ s.since \in Nat
    /\ s.totals.requests = Cardinality(Counting(s.were, s.since))
    /\ ReportIs(s) /\ Median(s)

LEMMA ReportStandsIf == ReportStands <=> ReportRight(screen)
<1>1. ReportAddsUp <=> (screen.pc \in {"percentiles", "reported"} => ReportIs(screen))
  BY DEF ReportAddsUp, ReportIs
<1>2. MedianIsOfThem <=> Median(screen)
  BY DEF MedianIsOfThem, Median, MidOf, Counting
<1>3. QED
  BY <1>1, <1>2 DEF ReportStands, ReportRight

LEMMA ReportUnmoved ==
  ASSUME LogTypes, RowsRemain, ReportStands, screen' = screen
  PROVE  ReportStands'
<1>1. SUFFICES ASSUME screen.pc \in {"percentiles", "reported"} PROVE ReportStands'
  BY DEF ReportStands
<1>2. PICK s : s = screen
  OBVIOUS
<1>3. /\ DOMAIN s = {"pc", "since", "totals", "byKey", "byDay", "cross", "median", "were", "calm"}
      /\ s.were \subseteq DOMAIN usageRows /\ s.since \in Nat
      /\ s.totals.requests = Cardinality(Counting(s.were, s.since))
      /\ ReportIs(s) /\ Median(s)
  BY <1>1, <1>2, ReportStandsIf DEF ReportRight
<1>4. Counting(s.were, s.since) \in SUBSET DOMAIN usageRows
  BY <1>3 DEF Counting
<1>5. Counting(s.were, s.since)' = Counting(s.were, s.since) /\ s.were \subseteq DOMAIN usageRows'
  BY <1>3, RowsStay DEF Counting
<1>6. PICK ids : ids = Counting(s.were, s.since)
  OBVIOUS
<1>7. MidOf(ids, s.median)' = MidOf(ids, s.median)
  BY <1>4, <1>6, RowsStay
<1>8. Median(s)'
  BY <1>3, <1>5, <1>6, <1>7 DEF Median
<1>9. ReportRight(s)'
  BY <1>3, <1>5, <1>8 DEF ReportRight
<1>10. (ReportStands <=> ReportRight(screen))'
  BY ReportStandsIf, PTL
<1>11. QED
  BY <1>2, <1>9, <1>10
LEMMA ReportTaken ==
  ASSUME LogTypes, NEW since \in Nat, UsageIn(since)
  PROVE  ReportStands'
<1> DEFINE ids == Rows(since)
           keys == {usageRows[i].key : i \in ids}
           days == {usageRows[i].at : i \in ids}
           byKey == [k \in keys |-> Sums({i \in ids : usageRows[i].key = k})]
           byDay == [d \in days |-> Sums({i \in ids : usageRows[i].at = d})]
           s == [pc |-> "percentiles", since |-> since, totals |-> Sums(ids), byKey |-> byKey, byDay |-> byDay,
                 cross |-> Crossed(ids), median |-> 0, were |-> stillThere, calm |-> TRUE]
<1>1. screen' = s /\ usageRows' = usageRows
  BY DEF UsageIn
<1>2. ids \in SUBSET DOMAIN usageRows /\ stillThere \in SUBSET DOMAIN usageRows
  BY DEF LogTypes, Rows
<1>3. ids = Counting(stillThere, since)
  BY DEF Rows, Counting
<1> HIDE DEF ids
<1>4. /\ AddsUp(byKey, Sums(ids)) /\ AddsUp(byDay, Sums(ids))
      /\ \A day \in DOMAIN byDay :
           AddsUp([cell \in {c \in DOMAIN Crossed(ids) : c[1] = day} |-> Crossed(ids)[cell]], byDay[day])
  BY <1>2, ReportOf
<1> HIDE DEF byKey, byDay
<1>5. Sums(ids).requests = Cardinality(ids)
  BY DEF Sums
<1>6. /\ DOMAIN s = {"pc", "since", "totals", "byKey", "byDay", "cross", "median", "were", "calm"}
      /\ s.pc = "percentiles" /\ s.since = since /\ s.totals = Sums(ids) /\ s.byKey = byKey /\ s.byDay = byDay
      /\ s.cross = Crossed(ids) /\ s.were = stillThere
  OBVIOUS
<1>7. PICK t : t = s
  OBVIOUS
<1> HIDE DEF s
<1>8. ReportIs(t)
  BY <1>4, <1>6, <1>7 DEF ReportIs
<1>9. RowsRemain /\ stillThere \subseteq DOMAIN usageRows'
  BY <1>1, <1>2 DEF RowsRemain, UsageIn
<1>10. Counting(t.were, t.since)' = ids
  BY <1>1, <1>3, <1>6, <1>7 DEF Counting
<1>11. Median(t)'
  BY <1>6, <1>7 DEF Median
<1>12. ReportRight(t)'
  BY <1>5, <1>6, <1>7, <1>8, <1>9, <1>10, <1>11 DEF ReportRight
<1>13. (ReportStands <=> ReportRight(screen))'
  BY ReportStandsIf, PTL
<1>14. QED
  BY <1>1, <1>7, <1>12, <1>13

LEMMA ReportDone ==
  ASSUME LogTypes, ReportStands, Percentiles
  PROVE  ReportStands'
<1>1. PICK s : s = screen
  OBVIOUS
<1>2. PICK t : t = screen'
  OBVIOUS
<1> DEFINE n == s.totals.requests
<1>3. /\ s.pc = "percentiles" /\ usageRows' = usageRows /\ stillThere' = stillThere
      /\ t = [s EXCEPT !.pc = "reported", !.calm = (stillThere = s.were),
                       !.median = IF n = 0 THEN 0 ELSE durationPercentile(s.since, n, 50)]
  BY <1>1, <1>2 DEF Percentiles
<1>4. /\ DOMAIN s = {"pc", "since", "totals", "byKey", "byDay", "cross", "median", "were", "calm"}
      /\ s.were \subseteq DOMAIN usageRows /\ s.since \in Nat
      /\ s.totals.requests = Cardinality(Counting(s.were, s.since))
      /\ ReportIs(s)
  BY <1>1, <1>3, ReportStandsIf DEF ReportRight
<1>5. /\ t.pc = "reported" /\ t.calm = (stillThere = s.were)
      /\ t.median = IF n = 0 THEN 0 ELSE durationPercentile(s.since, n, 50)
      /\ t.since = s.since /\ t.totals = s.totals /\ t.byKey = s.byKey /\ t.byDay = s.byDay /\ t.cross = s.cross
      /\ t.were = s.were /\ DOMAIN t = DOMAIN s
  BY <1>3, <1>4
<1>6. ReportIs(t)
  BY <1>4, <1>5 DEF ReportIs
<1>7. ASSUME t.calm, n > 0 PROVE MidOf(Counting(t.were, t.since), t.median)
  <2>1. Rows(s.since) = Counting(s.were, s.since)
    BY <1>5, <1>7 DEF Rows, Counting
  <2>2. n = Cardinality(Rows(s.since)) /\ n # 0
    BY <1>4, <1>7, <2>1
  <2>3. MidOf(Rows(s.since), durationPercentile(s.since, n, 50))
    <3> HIDE DEF n
    <3>1. QED
      BY <1>7, <2>2, MedianIs
  <2>4. QED
    BY <1>5, <2>1, <2>2, <2>3
<1>8. Median(t)
  BY <1>5, <1>7 DEF Median
<1>9. Counting(t.were, t.since)' = Counting(t.were, t.since)
  BY <1>3 DEF Counting
<1>10. Median(t)'
  <2>1. \A ids, m : MidOf(ids, m)' = MidOf(ids, m)
    BY <1>3 DEF MidOf
  <2>2. QED
    BY <1>8, <1>9, <2>1 DEF Median
<1>11. ReportRight(t)'
  BY <1>3, <1>4, <1>5, <1>6, <1>9, <1>10 DEF ReportRight
<1>12. (ReportStands <=> ReportRight(screen))'
  BY ReportStandsIf, PTL
<1>13. QED
  BY <1>2, <1>11, <1>12---------------------------------------------------------------------------
(* Chats *)

LEMMA ListAddsUp ==
  ASSUME LogTypes, NEW ids \in SUBSET DOMAIN usageRows,
         NEW listed, listed = [c \in Named(ids) |-> Sums({i \in ids : usageRows[i].chat = c})]
  PROVE  /\ RequestsIn(listed) + Cardinality(Apart(ids)) = Cardinality(ids)
         /\ TokensIn(listed) + TokensOf(Apart(ids)) = TokensOf(ids)
<1> DEFINE p == [i \in ids |-> usageRows[i].chat]
           K == Named(ids) \cup {""}
           all == [c \in K |-> Sums(ThoseSeen(p, ids, c))]
           r == [b \in DOMAIN all |-> all[b].requests]
           t == [b \in DOMAIN all |-> all[b].tokens]
<1>1. IsFiniteSet(ids)
  BY IdsFinite
<1>2. p \in [ids -> K]
  BY DEF Named
<1>3. Named(ids) = K \ {""} /\ "" \in K
  BY DEF Named
<1>4. IsFiniteSet(K)
  <2>1. Named(ids) \subseteq Seen(p, ids)
    BY DEF Named, Seen
  <2>2. IsFiniteSet(Named(ids))
    <3> HIDE DEF p
    <3>1. QED
      BY <1>1, <2>1, SeenFinite, FS_Subset
  <2>3. QED
    BY <2>2, FS_AddElement
<1>5. ASSUME NEW c PROVE {i \in ids : usageRows[i].chat = c} = ThoseSeen(p, ids, c)
  BY DEF ThoseSeen
<1>6. ThoseSeen(p, ids, "") = Apart(ids)
  BY DEF ThoseSeen, Apart
<1>7. ASSUME NEW c \in K
      PROVE  all[c].requests \in Nat /\ all[c].tokens \in Nat
  <2> DEFINE those == ThoseSeen(p, ids, c)
             w == [i \in those |-> usageRows[i].tokens]
  <2>1. those \in SUBSET ids /\ those \in SUBSET DOMAIN usageRows
    BY DEF ThoseSeen
  <2> HIDE DEF those
  <2>2. w \in [those -> Nat]
    BY <2>1, RowIs
  <2>3. IsFiniteSet(those) /\ Cardinality(those) \in Nat
    BY <2>1, IdsFinite
  <2> HIDE DEF w
  <2>4. SumFunction(w) \in Nat
    BY <2>2, <2>3, SumIsNatural
  <2>5. all[c] = Sums(those)
    BY DEF those
  <2>6. QED
    BY <2>3, <2>4, <2>5 DEF Sums, TokensOf, w
<1>8. DOMAIN all = K /\ \A c \in K : all[c] = Sums(ThoseSeen(p, ids, c))
  OBVIOUS
<1>9. DOMAIN listed = K \ {""} /\ \A c \in K \ {""} : listed[c] = all[c]
  <2> HIDE DEF p
  <2>1. QED
    BY <1>3, <1>5
<1> HIDE DEF p, K, all
<1>10. AddsUp(all, Sums(ids))
  BY <1>2, <1>4, <1>8, BucketsAddUp
<1>11. SumFunction(r) = Cardinality(ids) /\ SumFunction(t) = TokensOf(ids)
  BY <1>10 DEF AddsUp, RequestsIn, TokensIn, Sums
<1>12. /\ r \in [K -> Nat] /\ t \in [K -> Nat]
       /\ r[""] = Cardinality(Apart(ids)) /\ t[""] = TokensOf(Apart(ids))
  <2>1. ASSUME NEW some PROVE Sums(some).requests = Cardinality(some) /\ Sums(some).tokens = TokensOf(some)
    BY DEF Sums
  <2>2. all[""] = Sums(Apart(ids))
    BY <1>3, <1>6, <1>8
  <2>3. r[""] = all[""].requests /\ t[""] = all[""].tokens
    BY <1>3, <1>8
  <2>4. r \in [K -> Nat] /\ t \in [K -> Nat]
    BY <1>7, <1>8
  <2>5. QED
    BY <2>1, <2>2, <2>3, <2>4
<1>13. Without(r, "") = [b \in DOMAIN listed |-> listed[b].requests]
  BY <1>8, <1>9 DEF Without
<1>14. Without(t, "") = [b \in DOMAIN listed |-> listed[b].tokens]
  BY <1>8, <1>9 DEF Without
<1> HIDE DEF r, t
<1>15. SumFunction(r) = r[""] + SumFunction(Without(r, "")) /\ SumFunction(t) = t[""] + SumFunction(Without(t, ""))
  BY <1>3, <1>4, <1>12, SumTakesAny
<1>16. SumFunction(Without(r, "")) \in Nat /\ SumFunction(Without(t, "")) \in Nat
  <2>1. IsFiniteSet(K \ {""})
    BY <1>4, FS_Subset
  <2>2. QED
    BY <1>3, <1>12, <2>1, WithoutIs, SumIsNatural
<1>17. RequestsIn(listed) = SumFunction(Without(r, "")) /\ TokensIn(listed) = SumFunction(Without(t, ""))
  BY <1>13, <1>14 DEF RequestsIn, TokensIn
<1>18. r[""] \in Nat /\ t[""] \in Nat
  BY <1>3, <1>12
<1>19. RequestsIn(listed) + r[""] = Cardinality(ids)
  <2>1. Cardinality(ids) = r[""] + RequestsIn(listed)
    BY <1>11, <1>15, <1>17
  <2>2. RequestsIn(listed) \in Nat
    BY <1>16, <1>17
  <2>3. \A a, b \in Nat : a + b = b + a
    OBVIOUS
  <2>4. QED
    BY <1>18, <2>1, <2>2, <2>3, Zenon
<1>20. TokensIn(listed) + t[""] = TokensOf(ids)
  <2>1. TokensOf(ids) = t[""] + TokensIn(listed)
    BY <1>11, <1>15, <1>17
  <2>2. TokensIn(listed) \in Nat
    BY <1>16, <1>17
  <2>3. \A a, b \in Nat : a + b = b + a
    OBVIOUS
  <2>4. QED
    BY <1>18, <2>1, <2>2, <2>3, Zenon
<1>21. QED
  BY <1>12, <1>19, <1>20

LEMMA ChatsUnmoved ==
  ASSUME LogTypes, RowsRemain, ChatsStand, screen' = screen
  PROVE  ChatsStand'
<1>1. PICK s : s = screen
  OBVIOUS
<1>2. SUFFICES ASSUME s.pc \in {"list", "rest", "shown"} PROVE ChatsRight(s)'
  BY <1>1 DEF ChatsStand, ChatsRight
<1>3. ChatsRight(s)
  BY <1>1 DEF ChatsStand
<1>4. PICK ids : ids = Counting(s.were, s.since)
  OBVIOUS
<1>5. s.were \subseteq DOMAIN usageRows /\ s.since \in Nat /\ ids \in SUBSET DOMAIN usageRows
  BY <1>2, <1>3, <1>4 DEF ChatsRight, Counting
<1>6. Counting(s.were, s.since)' = ids /\ s.were \subseteq DOMAIN usageRows'
  <2>1. /\ s.were \subseteq DOMAIN usageRows'
        /\ {i \in s.were : usageRows'[i].kind \in Counted /\ usageRows'[i].at >= s.since} = Counting(s.were, s.since)
    BY <1>5, RowsStay
  <2>2. QED
    BY <1>4, <2>1 DEF Counting
<1>7. \A i \in ids : usageRows'[i] = usageRows[i]
  BY <1>5 DEF RowsRemain
<1>8. Named(ids)' = Named(ids) /\ Apart(ids)' = Apart(ids) /\ Apart(ids) \subseteq ids
  BY <1>7 DEF Named, Apart
<1>9. \A some \in SUBSET ids : TokensOf(some)' = TokensOf(some)
  <2>1. ASSUME NEW some \in SUBSET ids
        PROVE  [i \in some |-> usageRows'[i].tokens] = [i \in some |-> usageRows[i].tokens]
    BY <1>7
  <2>2. QED
    BY <2>1 DEF TokensOf
<1>10. ListedRight(s, ids)' <=> ListedRight(s, ids)
  BY <1>8, <1>9 DEF ListedRight
<1>11. NoneRight(s, ids)' <=> NoneRight(s, ids)
  BY <1>8, <1>9 DEF NoneRight
<1>12. QED
  BY <1>3, <1>4, <1>5, <1>6, <1>8, <1>10, <1>11 DEF ChatsRight
LEMMA ChatsCounted ==
  ASSUME LogTypes, NEW since \in Nat, CountChats(since)
  PROVE  ChatsStand'
<1>1. PICK t : t = screen'
  OBVIOUS
<1>2. /\ t = [pc |-> "list", since |-> since, total |-> Cardinality(ChatIds(since)),
              listed |-> <<>>, none |-> Sums({}), were |-> stillThere, calm |-> TRUE]
      /\ usageRows' = usageRows /\ stillThere \subseteq DOMAIN usageRows
  BY <1>1 DEF CountChats, LogTypes
<1>3. /\ DOMAIN t = {"pc", "since", "total", "listed", "none", "were", "calm"} /\ t.pc = "list"
      /\ t.since = since /\ t.total = Cardinality(ChatIds(since)) /\ t.were = stillThere
  BY <1>2
<1>4. ChatIds(since) = Named(Rows(since)) /\ Rows(since) = Counting(stillThere, since)
  BY DEF ChatIds, Named, Rows, Counting
<1>5. Named(Counting(t.were, t.since))' = ChatIds(since)
  BY <1>2, <1>3, <1>4 DEF Named, Counting
<1>6. ChatsRight(t)'
  BY <1>2, <1>3, <1>5 DEF ChatsRight
<1>7. QED
  BY <1>1, <1>6 DEF ChatsStand

LEMMA ChatsListed ==
  ASSUME LogTypes, ChatsStand, ListChats
  PROVE  ChatsStand'
<1>1. PICK s : s = screen
  OBVIOUS
<1>2. PICK t : t = screen'
  OBVIOUS
<1>3. /\ s.pc = "list" /\ usageRows' = usageRows /\ ChatsRight(s)
      /\ t = [s EXCEPT !.pc = "rest", !.listed = ChatsOf(s.since), !.calm = (stillThere = s.were)]
  BY <1>1, <1>2 DEF ListChats, ChatsStand
<1>4. /\ DOMAIN s = {"pc", "since", "total", "listed", "none", "were", "calm"}
      /\ s.were \subseteq DOMAIN usageRows /\ s.since \in Nat
      /\ s.total = Cardinality(Named(Counting(s.were, s.since)))
  BY <1>3 DEF ChatsRight
<1>5. /\ t.pc = "rest" /\ t.listed = ChatsOf(s.since) /\ t.calm = (stillThere = s.were) /\ DOMAIN t = DOMAIN s
      /\ t.were = s.were /\ t.since = s.since /\ t.total = s.total
  BY <1>3, <1>4
<1>6. PICK ids : ids = Counting(s.were, s.since)
  OBVIOUS
<1>7. ids \in SUBSET DOMAIN usageRows
  BY <1>4, <1>6 DEF Counting
<1>8. ASSUME t.calm PROVE ListedRight(t, ids)
  <2>1. Rows(s.since) = ids
    BY <1>5, <1>6, <1>8 DEF Rows, Counting
  <2>2. ChatIds(s.since) = Named(ids)
    BY <2>1 DEF ChatIds, Named
  <2>3. t.listed = [c \in Named(ids) |-> Sums({i \in ids : usageRows[i].chat = c})]
    BY <1>5, <2>1, <2>2 DEF ChatsOf
  <2>4. DOMAIN t.listed = Named(ids)
    BY <2>3
  <2>5. /\ RequestsIn(t.listed) + Cardinality(Apart(ids)) = Cardinality(ids)
        /\ TokensIn(t.listed) + TokensOf(Apart(ids)) = TokensOf(ids)
    BY <1>7, <2>3, ListAddsUp
  <2>6. QED
    BY <1>4, <1>5, <1>6, <2>4, <2>5 DEF ListedRight
<1>9. Counting(t.were, t.since)' = ids
  BY <1>3, <1>5, <1>6 DEF Counting
<1>10. ListedRight(t, ids)' <=> ListedRight(t, ids)
  BY <1>3 DEF ListedRight, Apart, TokensOf
<1>11. ChatsRight(t)'
  BY <1>3, <1>4, <1>5, <1>8, <1>9, <1>10 DEF ChatsRight
<1>12. QED
  BY <1>2, <1>11 DEF ChatsStand

LEMMA ChatsShown ==
  ASSUME LogTypes, ChatsStand, Unattributed
  PROVE  ChatsStand'
<1>1. PICK s : s = screen
  OBVIOUS
<1>2. PICK t : t = screen'
  OBVIOUS
<1>3. /\ s.pc = "rest" /\ usageRows' = usageRows /\ ChatsRight(s)
      /\ t = [s EXCEPT !.pc = "shown", !.calm = @ /\ (stillThere = s.were),
                       !.none = Sums({i \in Rows(s.since) : usageRows[i].chat = ""})]
  BY <1>1, <1>2 DEF Unattributed, ChatsStand
<1>4. /\ DOMAIN s = {"pc", "since", "total", "listed", "none", "were", "calm"}
      /\ s.were \subseteq DOMAIN usageRows /\ s.since \in Nat
      /\ s.calm => ListedRight(s, Counting(s.were, s.since))
  BY <1>3 DEF ChatsRight
<1>5. /\ t.pc = "shown" /\ t.listed = s.listed /\ t.calm = (s.calm /\ (stillThere = s.were)) /\ DOMAIN t = DOMAIN s
      /\ t.none = Sums({i \in Rows(s.since) : usageRows[i].chat = ""})
      /\ t.were = s.were /\ t.since = s.since /\ t.total = s.total
  BY <1>3, <1>4
<1>6. PICK ids : ids = Counting(s.were, s.since)
  OBVIOUS
<1>7. ASSUME t.calm PROVE ListedRight(t, ids) /\ NoneRight(t, ids)
  <2>1. Rows(s.since) = ids /\ s.calm
    BY <1>5, <1>6, <1>7 DEF Rows, Counting
  <2>2. t.none = Sums(Apart(ids))
    BY <1>5, <2>1 DEF Apart
  <2>3. NoneRight(t, ids)
    BY <2>2 DEF NoneRight, Sums
  <2>4. ListedRight(s, ids)
    BY <1>4, <1>6, <2>1
  <2>5. ListedRight(t, ids)
    BY <1>5, <2>4 DEF ListedRight
  <2>6. QED
    BY <2>3, <2>5
<1>8. Counting(t.were, t.since)' = ids
  BY <1>3, <1>5, <1>6 DEF Counting
<1>9. (ListedRight(t, ids)' <=> ListedRight(t, ids)) /\ (NoneRight(t, ids)' <=> NoneRight(t, ids))
  BY <1>3 DEF ListedRight, NoneRight, Apart, TokensOf
<1>10. ChatsRight(t)'
  BY <1>3, <1>4, <1>5, <1>7, <1>8, <1>9 DEF ChatsRight
<1>11. QED
  BY <1>2, <1>10 DEF ChatsStand
---------------------------------------------------------------------------
(* Menus *)

LEMMA MenuMoves ==
  ASSUME LogTypes, MenuStands, RowsRemain, facets' = facets, screen' = screen, logTick' \in Nat, logTick <= logTick',
         \A i \in stillThere' : i \in DOMAIN usageRows \/ usageRows'[i].wrote = logTick
  PROVE  MenuStands'
<1>1. \A i \in DOMAIN usageRows : usageRows'[i] = usageRows[i] /\ usageRows[i].wrote \in Nat
  BY RowIs DEF RowsRemain
<1>2. \A i \in stillThere' : i \in DOMAIN usageRows => i \in stillThere
  BY DEF RowsRemain
<1>3. logTick \in Nat /\ FacetsFor \in Nat \ {0}
  BY LogAssumption DEF LogTypes, LogAssumption
<1>4. facets.at \in Nat /\ facets.at <= logTick /\ DOMAIN facets = {"at", "values", "reading"}
  BY DEF MenuStands
<1>5. ASSUME facets.at # 0, NEW i \in stillThere', usageRows'[i].wrote < facets.at
      PROVE  usageRows'[i].key \in facets.values
  <2>1. i \in DOMAIN usageRows /\ i \in stillThere
    BY <1>2, <1>3, <1>4, <1>5
  <2>2. QED
    BY <1>1, <1>5, <2>1 DEF MenuStands
<1>6. screen.pc \in {"waiting", "menu"} => screen.asked \in Nat /\ screen.asked <= logTick
  BY DEF MenuStands
<1>7. ASSUME screen.pc = "menu", NEW i \in stillThere', usageRows'[i].wrote + FacetsFor <= screen.asked
      PROVE  usageRows'[i].key \in screen.values
  <2>1. i \in DOMAIN usageRows /\ i \in stillThere
    BY <1>2, <1>3, <1>6, <1>7
  <2>2. QED
    BY <1>1, <1>7, <2>1 DEF MenuStands, MenuIsRecent
<1>8. screen.pc = "menu" => DOMAIN screen = {"pc", "asked", "values"}
  BY DEF MenuStands
<1>9. screen.pc = "waiting" => DOMAIN screen = {"pc", "asked"}
  BY DEF MenuStands
<1>10. facets.at <= logTick'
  BY <1>3, <1>4
<1>11. screen.pc \in {"waiting", "menu"} => screen.asked \in Nat /\ screen.asked <= logTick'
  BY <1>3, <1>6
<1>12. QED
  BY <1>4, <1>5, <1>7, <1>8, <1>9, <1>10, <1>11 DEF MenuStands, MenuIsRecent

\* Another screen opens, or none is left.
LEMMA MenuShut ==
  ASSUME MenuStands, UNCHANGED <<usageRows, stillThere, logTick, facets>>, screen'.pc \notin {"waiting", "menu"}
  PROVE  MenuStands'
BY DEF MenuStands, MenuIsRecent

LEMMA FreshIsRecent ==
  ASSUME LogTypes, MenuStands, FacetsFresh, NEW then \in Nat, then <= logTick,
         NEW i \in stillThere, usageRows[i].wrote + FacetsFor <= then
  PROVE  usageRows[i].key \in facets.values
<1>1. i \in DOMAIN usageRows /\ usageRows[i].wrote \in Nat
  BY RowIs DEF LogTypes
<1>2. logTick \in Nat /\ FacetsFor \in Nat \ {0} /\ facets.at \in Nat /\ facets.at <= logTick
  BY LogAssumption DEF LogTypes, LogAssumption, MenuStands
<1>3. facets.at # 0 /\ logTick - facets.at < FacetsFor
  BY DEF FacetsFresh
<1>4. usageRows[i].wrote < facets.at
  BY <1>1, <1>2, <1>3
<1>5. QED
  BY <1>3, <1>4 DEF MenuStands

LEMMA MenuAsked ==
  ASSUME LogTypes, MenuStands, AskFacets
  PROVE  MenuStands'
<1>1. usageRows' = usageRows /\ stillThere' = stillThere /\ logTick' = logTick /\ logTick \in Nat
  BY DEF AskFacets, LogTypes
<1>2. logTick <= logTick
  BY <1>1
<1>3. DOMAIN facets = {"at", "values", "reading"} /\ facets.at \in Nat /\ facets.at <= logTick
      /\ (facets.at # 0 => \A i \in stillThere : usageRows[i].wrote < facets.at => usageRows[i].key \in facets.values)
  BY DEF MenuStands
<1>4. DOMAIN facets' = DOMAIN facets /\ facets'.at = facets.at /\ facets'.values = facets.values
  BY <1>3 DEF AskFacets
<1>5. CASE FacetsFresh
  <2>1. screen' = [pc |-> "menu", asked |-> logTick, values |-> facets.values]
    BY <1>5 DEF AskFacets
  <2>2. \A i \in stillThere : usageRows[i].wrote + FacetsFor <= logTick => usageRows[i].key \in facets.values
    BY <1>1, <1>2, <1>5, FreshIsRecent
  <2>3. screen'.pc = "menu" /\ screen'.asked = logTick /\ screen'.values = facets.values
        /\ DOMAIN screen' = {"pc", "asked", "values"}
    BY <2>1
  <2>4. QED
    BY <1>1, <1>2, <1>3, <1>4, <2>2, <2>3 DEF MenuStands, MenuIsRecent
<1>6. CASE ~ FacetsFresh
  <2>1. screen' = [pc |-> "waiting", asked |-> logTick]
    BY <1>6 DEF AskFacets
  <2>2. screen'.pc = "waiting" /\ screen'.asked = logTick /\ DOMAIN screen' = {"pc", "asked"}
    BY <2>1
  <2>3. QED
    BY <1>1, <1>2, <1>3, <1>4, <2>2 DEF MenuStands, MenuIsRecent
<1>7. QED
  BY <1>5, <1>6

LEMMA MenuTaken ==
  ASSUME LogTypes, MenuStands, TakeFacets
  PROVE  MenuStands'
<1>1. usageRows' = usageRows /\ stillThere' = stillThere /\ logTick' = logTick /\ logTick \in Nat /\ screen' = screen
  BY DEF TakeFacets, LogTypes
<1>2. logTick <= logTick
  BY <1>1
<1>3. DOMAIN facets = {"at", "values", "reading"} /\ facets.at \in Nat /\ facets.at <= logTick
      /\ (facets.at # 0 => \A i \in stillThere : usageRows[i].wrote < facets.at => usageRows[i].key \in facets.values)
  BY DEF MenuStands
<1>4. CASE facets' = [at |-> logTick, values |-> RequestFacets, reading |-> FALSE]
  <2>1. \A i \in stillThere : usageRows[i].key \in RequestFacets
    BY DEF RequestFacets
  <2>2. DOMAIN facets' = {"at", "values", "reading"} /\ facets'.at = logTick /\ facets'.values = RequestFacets
    BY <1>4
  <2>3. QED
    BY <1>1, <1>2, <2>1, <2>2 DEF MenuStands, MenuIsRecent
<1>5. CASE facets' = [facets EXCEPT !.reading = FALSE]
  <2>1. DOMAIN facets' = DOMAIN facets /\ facets'.at = facets.at /\ facets'.values = facets.values
    BY <1>3, <1>5
  <2>2. QED
    BY <1>1, <1>3, <2>1 DEF MenuStands, MenuIsRecent
<1>6. QED
  BY <1>4, <1>5 DEF TakeFacets

LEMMA MenuGot ==
  ASSUME LogTypes, MenuStands, GetFacets
  PROVE  MenuStands'
<1>1. /\ usageRows' = usageRows /\ stillThere' = stillThere /\ logTick' = logTick /\ facets' = facets
      /\ screen.pc = "waiting"
  BY DEF GetFacets
<1>2. screen.asked \in Nat /\ screen.asked <= logTick
  BY <1>1 DEF MenuStands
<1>3. CASE FacetsFresh
  <2>1. screen' = [pc |-> "menu", asked |-> screen.asked, values |-> facets.values]
    BY <1>3 DEF GetFacets
  <2>2. \A i \in stillThere : usageRows[i].wrote + FacetsFor <= screen.asked => usageRows[i].key \in facets.values
    BY <1>2, <1>3, FreshIsRecent
  <2>3. screen'.pc = "menu" /\ screen'.asked = screen.asked /\ screen'.values = facets.values
        /\ DOMAIN screen' = {"pc", "asked", "values"}
    BY <2>1
  <2>4. QED
    BY <1>1, <1>2, <2>2, <2>3 DEF MenuStands, MenuIsRecent
<1>4. CASE ~ FacetsFresh
  <2>1. screen'.pc = "refused"
    BY <1>4 DEF GetFacets
  <2>2. QED
    BY <1>1, <2>1, MenuShut
<1>5. QED
  BY <1>3, <1>4---------------------------------------------------------------------------
(* Every step *)

LEMMA UsageKeptAtStart ==
  ASSUME UsageLogInit
  PROVE  UsageKept
<1>1. /\ usageRows = <<>> /\ stillThere = {} /\ logTick = 1 /\ screen.pc = "none"
      /\ facets = [at |-> 0, values |-> {}, reading |-> FALSE]
  BY DEF UsageLogInit, Closed
<1>2. LogTypes
  BY <1>1 DEF LogTypes
<1>3. WalkStands /\ ReportStands /\ ChatsStand
  BY <1>1 DEF WalkStands, ReportStands, ChatsStand, ChatsRight
<1>4. MenuStands
  BY <1>1 DEF MenuStands, MenuIsRecent
<1>5. QED
  BY <1>2, <1>3, <1>4 DEF UsageKept

\* What a screen that is not open says.
LEMMA NotOpen ==
  /\ screen'.pc \notin {"more", "done"} => WalkStands'
  /\ screen'.pc \notin {"percentiles", "reported"} => ReportStands'
  /\ screen'.pc \notin {"list", "rest", "shown"} => ChatsStand'
BY DEF WalkStands, ReportStands, ChatsStand, ChatsRight

LEMMA UsageKeptByRows ==
  ASSUME UsageKept, \/ \E c \in Contents, back \in 0 .. 1 : back < logTick /\ RecordUsage(c, logTick - back)
                    \/ PruneHistory \/ Ticks
  PROVE  UsageKept'
<1>1. CASE \E c \in Contents, back \in 0 .. 1 : back < logTick /\ RecordUsage(c, logTick - back)
  <2>1. PICK c \in Contents, back \in 0 .. 1 : back < logTick /\ RecordUsage(c, logTick - back)
    BY <1>1
  <2>2. /\ LogTypes' /\ RowsRemain
        /\ DOMAIN usageRows' = DOMAIN usageRows \cup {Len(usageRows) + 1}
        /\ usageRows'[Len(usageRows) + 1].wrote = logTick
        /\ stillThere' \subseteq stillThere \cup {Len(usageRows) + 1}
    BY <2>1, LogGrows DEF UsageKept
  <2>3. screen' = screen /\ facets' = facets /\ logTick' = logTick /\ logTick \in Nat /\ logTick <= logTick
    BY <2>1 DEF RecordUsage, UsageKept, LogTypes
  <2>4. \A i \in stillThere' : i \in DOMAIN usageRows \/ usageRows'[i].wrote = logTick
    BY <2>2 DEF UsageKept, LogTypes
  <2>5. MenuStands'
    BY <2>2, <2>3, <2>4, MenuMoves DEF UsageKept
  <2>6. QED
    BY <2>2, <2>3, <2>5, WalkUnmoved, ReportUnmoved, ChatsUnmoved DEF UsageKept
<1>2. CASE PruneHistory \/ Ticks
  <2>1. /\ LogTypes' /\ RowsRemain
        /\ usageRows' = usageRows /\ stillThere' \subseteq stillThere /\ logTick <= logTick'
    BY <1>2, LogStays DEF UsageKept
  <2>2. screen' = screen /\ facets' = facets /\ logTick' \in Nat
    BY <1>2, <2>1 DEF PruneHistory, Ticks, LogTypes
  <2>3. \A i \in stillThere' : i \in DOMAIN usageRows \/ usageRows'[i].wrote = logTick
    BY <2>1 DEF UsageKept, LogTypes
  <2>4. MenuStands'
    BY <2>1, <2>2, <2>3, MenuMoves DEF UsageKept
  <2>5. QED
    BY <2>1, <2>2, <2>4, WalkUnmoved, ReportUnmoved, ChatsUnmoved DEF UsageKept
<1>3. QED
  BY <1>1, <1>2

LEMMA UsageKeptByScreens ==
  ASSUME UsageKept, \/ (\E f \in Filters : OpenPage(f)) \/ NextPage
                    \/ \E since \in {1, logTick} : UsageIn(since) \/ CountChats(since)
                    \/ Percentiles \/ ListChats \/ Unattributed \/ CloseScreen
  PROVE  UsageKept'
<1>1. usageRows' = usageRows /\ stillThere' = stillThere /\ logTick' = logTick /\ facets' = facets
  BY DEF OpenPage, NextPage, UsageIn, CountChats, Percentiles, ListChats, Unattributed, CloseScreen
<1>2. LogTypes' /\ LogTypes /\ WalkStands /\ ReportStands /\ ChatsStand /\ MenuStands
  BY <1>1, LogStays DEF UsageKept
<1>3. 1 \in Nat /\ logTick \in Nat
  BY <1>2 DEF LogTypes
<1>4. CASE \E f \in Filters : OpenPage(f)
  <2>1. PICK f \in Filters : OpenPage(f)
    BY <1>4
  <2>2. screen'.pc \in {"more", "done"}
    BY <2>1 DEF OpenPage, Leafed
  <2>3. WalkStands'
    BY <1>2, <2>1, WalkOpens
  <2>4. MenuStands'
    BY <1>1, <1>2, <2>2, MenuShut
  <2>5. QED
    BY <1>2, <2>2, <2>3, <2>4, NotOpen DEF UsageKept
<1>5. CASE NextPage
  <2>1. screen'.pc \in {"more", "done"}
    <3>1. DOMAIN screen = {"pc", "filter", "cursor", "shown", "there"}
      BY <1>2, <1>5 DEF WalkStands, NextPage
    <3>2. QED
      BY <1>5, <3>1 DEF NextPage, Leafed
  <2>2. WalkStands'
    BY <1>2, <1>5, WalkGoesOn
  <2>3. MenuStands'
    BY <1>1, <1>2, <2>1, MenuShut
  <2>4. QED
    BY <1>2, <2>1, <2>2, <2>3, NotOpen DEF UsageKept
<1>6. CASE \E since \in {1, logTick} : UsageIn(since)
  <2>1. PICK since \in Nat : UsageIn(since)
    BY <1>3, <1>6
  <2>2. screen'.pc = "percentiles"
    BY <2>1 DEF UsageIn
  <2>3. ReportStands'
    BY <1>2, <2>1, ReportTaken
  <2>4. MenuStands'
    BY <1>1, <1>2, <2>2, MenuShut
  <2>5. QED
    BY <1>2, <2>2, <2>3, <2>4, NotOpen DEF UsageKept
<1>7. CASE Percentiles
  <2>1. screen'.pc = "reported"
    <3>1. DOMAIN screen = {"pc", "since", "totals", "byKey", "byDay", "cross", "median", "were", "calm"}
      BY <1>2, <1>7 DEF ReportStands, Percentiles
    <3>2. QED
      BY <1>7, <3>1 DEF Percentiles
  <2>2. ReportStands'
    BY <1>2, <1>7, ReportDone
  <2>3. MenuStands'
    BY <1>1, <1>2, <2>1, MenuShut
  <2>4. QED
    BY <1>2, <2>1, <2>2, <2>3, NotOpen DEF UsageKept
<1>8. CASE (\E since \in {1, logTick} : CountChats(since)) \/ ListChats \/ Unattributed
  <2>1. ChatsStand'
    BY <1>2, <1>3, <1>8, ChatsCounted, ChatsListed, ChatsShown
  <2>2. screen'.pc \in {"list", "rest", "shown"}
    <3>1. CASE \E since \in {1, logTick} : CountChats(since)
      BY <3>1 DEF CountChats
    <3>2. CASE ListChats \/ Unattributed
      <4>1. DOMAIN screen = {"pc", "since", "total", "listed", "none", "were", "calm"}
        BY <1>2, <3>2 DEF ChatsStand, ChatsRight, ListChats, Unattributed
      <4>2. QED
        BY <3>2, <4>1 DEF ListChats, Unattributed
    <3>3. QED
      BY <1>8, <3>1, <3>2
  <2>3. MenuStands'
    BY <1>1, <1>2, <2>2, MenuShut
  <2>4. QED
    BY <1>2, <2>1, <2>2, <2>3, NotOpen DEF UsageKept
<1>9. CASE CloseScreen
  <2>1. screen'.pc = "none"
    BY <1>9 DEF CloseScreen, Closed
  <2>2. MenuStands'
    BY <1>1, <1>2, <2>1, MenuShut
  <2>3. QED
    BY <1>2, <2>1, <2>2, NotOpen DEF UsageKept
<1>10. QED
  BY <1>4, <1>5, <1>6, <1>7, <1>8, <1>9

LEMMA UsageKeptByMenus ==
  ASSUME UsageKept, AskFacets \/ TakeFacets \/ GetFacets
  PROVE  UsageKept'
<1>1. usageRows' = usageRows /\ stillThere' = stillThere /\ logTick' = logTick
  BY DEF AskFacets, TakeFacets, GetFacets
<1>2. LogTypes' /\ RowsRemain /\ LogTypes /\ WalkStands /\ ReportStands /\ ChatsStand /\ MenuStands
  BY <1>1, LogStays DEF UsageKept
<1>3. MenuStands'
  BY <1>2, MenuAsked, MenuTaken, MenuGot
<1>4. WalkStands' /\ ReportStands' /\ ChatsStand'
  <2>1. CASE AskFacets \/ GetFacets
    <3>1. screen'.pc \in {"menu", "waiting", "refused"}
      BY <2>1 DEF AskFacets, GetFacets
    <3>2. QED
      BY <3>1, NotOpen
  <2>2. CASE TakeFacets
    <3>1. screen' = screen
      BY <2>2 DEF TakeFacets
    <3>2. QED
      BY <1>2, <3>1, WalkUnmoved, ReportUnmoved, ChatsUnmoved
  <2>3. QED
    BY <2>1, <2>2
<1>5. QED
  BY <1>2, <1>3, <1>4 DEF UsageKept

LEMMA UsageKeptAlways ==
  ASSUME UsageKept, [UsageLogNext]_usageVars
  PROVE  UsageKept'
<1>1. CASE UNCHANGED usageVars
  <2>1. UNCHANGED <<usageRows, stillThere, logTick, screen, facets>>
    BY <1>1 DEF usageVars
  <2>2. LogTypes' /\ RowsRemain /\ LogTypes /\ logTick' \in Nat /\ logTick <= logTick'
    BY <2>1, LogStays DEF UsageKept, LogTypes
  <2>3. \A i \in stillThere' : i \in DOMAIN usageRows \/ usageRows'[i].wrote = logTick
    BY <2>1, <2>2 DEF LogTypes
  <2>4. MenuStands'
    BY <2>1, <2>2, <2>3, MenuMoves DEF UsageKept
  <2>5. QED
    BY <2>1, <2>2, <2>4, WalkUnmoved, ReportUnmoved, ChatsUnmoved DEF UsageKept
<1>2. QED
  BY <1>1, UsageKeptByRows, UsageKeptByScreens, UsageKeptByMenus DEF UsageLogNext

LEMMA UsageKeptSuffices ==
  ASSUME UsageKept
  PROVE  UsageLogSound
<1>1. LogTypes /\ WalkStands /\ ReportStands /\ ChatsStand /\ MenuStands
  BY DEF UsageKept
<1>2. ShownOnce
  BY <1>1 DEF WalkStands, ShownOnce
<1>3. NoneMissed
  BY <1>1 DEF WalkStands, NoneMissed
<1>4. ReportAddsUp /\ MedianIsOfThem
  BY <1>1 DEF ReportStands, ReportAddsUp, MedianIsOfThem
<1>5. ChatsAddUp
  <2>1. SUFFICES ASSUME screen.pc = "shown", screen.calm, stillThere = screen.were
                 PROVE  /\ Cardinality(DOMAIN screen.listed) = screen.total
                        /\ RequestsIn(screen.listed) + screen.none.requests = Cardinality(Rows(screen.since))
                        /\ TokensIn(screen.listed) + screen.none.tokens = TokensOf(Rows(screen.since))
    BY DEF ChatsAddUp
  <2>2. Rows(screen.since) = Counting(screen.were, screen.since)
    BY <2>1 DEF Rows, Counting
  <2>3. ListedRight(screen, Rows(screen.since)) /\ NoneRight(screen, Rows(screen.since))
    BY <1>1, <2>1, <2>2 DEF ChatsStand, ChatsRight
  <2>4. QED
    BY <2>3 DEF ListedRight, NoneRight
<1>6. MenuIsRecent
  BY <1>1 DEF MenuStands
<1>7. QED
  BY <1>2, <1>3, <1>4, <1>5, <1>6 DEF UsageLogSound

\* What the screens read of the history is right whenever it is shown: pages
\* that overlap nothing and miss nothing, reports and chats that add up, a
\* median of the requests it is of and menus no older than they may be.
THEOREM UsageLogSoundHolds == UsageLogSpec => []UsageLogSound
<1>1. UsageLogInit => UsageKept
  BY UsageKeptAtStart
<1>2. UsageKept /\ [UsageLogNext]_usageVars => UsageKept'
  BY UsageKeptAlways
<1>3. UsageKept => UsageLogSound
  BY UsageKeptSuffices
<1>4. QED
  BY <1>1, <1>2, <1>3, PTL DEF UsageLogSpec
=============================================================================
