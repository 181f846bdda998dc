------------------------------- MODULE Limits --------------------------------
(***************************************************************************)
(* Who may make a request, and how many: requireAPIKey, the token buckets  *)
(* it asks (service/limits, limiter.go) and the part of inference that     *)
(* decides whether a request is relayed.  Requests run side by side; the   *)
(* gateway also makes requests of its own on the client's behalf           *)
(* (spareFor), and a sweeper drops idle buckets.  One key and one address. *)
(* A bucket counts in Periods of a token, so that its arithmetic is exact: *)
(* n tokens a period refill n a tick.                                      *)
(*                                                                         *)
(* And what a key with a token budget has spent in the rolling window, as  *)
(* service/limits keeps it between reads of the log: SpentBy, Add, Forget  *)
(* and Sweep (budgets.go), asked by withinBudget before a request and by   *)
(* spareFor before the gateway's own, and credited by Recorder.Record when *)
(* one ends.  A request's row is dated when it started.  The two share no  *)
(* state.                                                                  *)
(***************************************************************************)
EXTENDS Naturals, Sequences, FiniteSets, FiniteSetsExt, SequencesExt

CONSTANTS
    Request,        \* the slots requests run in
    KeyCount,       \* requests a period the key is allowed
    AnonCount,      \* unauthenticated requests a period for an address
    Period,         \* ticks in a period
    SweepAfter,     \* ticks a bucket is idle before the sweeper drops it
    MaxTick,        \* bound: the last tick
    MaxTakes        \* bound: requests whose taking is remembered

ASSUME CountsAreNumbers ==
    /\ KeyCount \in Nat \ {0} /\ AnonCount \in Nat \ {0} /\ Period \in Nat \ {0}
    /\ SweepAfter \in Nat /\ MaxTick \in Nat /\ MaxTakes \in Nat

ASSUME RequestsAreFinite == IsFiniteSet(Request)

VARIABLES
    tick,       \* the limiters' clock
    buckets,    \* the address's and the key's bucket
    disabled,   \* api_keys.disabled
    asks,       \* each request: where it is, and what it presents
    inFlight,   \* InFlight.open, the key's
    uses,       \* history: the client's requests at the key's bucket: when, let in
    spares,     \* history: when the gateway's own were let in
    lastTaker,  \* history: who was let in last at the key's bucket
    drops       \* history: when the sweeper dropped the key's, short of full

admissionVars == <<tick, buckets, disabled, asks, inFlight, uses, spares, lastTaker, drops>>
keyHistory == <<uses, spares, lastTaker, drops>>

Limited == {"address", "key"}
Count(b) == IF b = "key" THEN KeyCount ELSE AnonCount
NoBucket == [tokens |-> 0, last |-> 0, there |-> FALSE]
NotAsking == [pc |-> "none", cred |-> "none"]

AdmissionInit ==
    /\ tick = 1 /\ buckets = [b \in Limited |-> NoBucket]
    /\ disabled = FALSE /\ asks = [q \in Request |-> NotAsking] /\ inFlight = 0
    /\ uses = <<>> /\ spares = <<>> /\ lastTaker = "nobody" /\ drops = {}

---------------------------------------------------------------------------
\* Limiter.

\* What take sees in a bucket: a caller it does not know starts full.
Refilled(b, n, t) ==
    IF ~b.there THEN n * Period ELSE Min({n * Period, b.tokens + (t - b.last) * n})

Enough(b, n, t, need) == Refilled(b, n, t) >= need * Period

\* The bucket after take.  A caller that spends nothing is not remembered.
Taken(b, n, t, need, spend) ==
    LET spent == IF spend /\ Enough(b, n, t, need) THEN Period ELSE 0
    IN  IF ~b.there /\ spent = 0 THEN b
        ELSE [tokens |-> Refilled(b, n, t) - spent, last |-> t, there |-> TRUE]

Take(name, need, spend) ==
    buckets' = [buckets EXCEPT ![name] = Taken(@, Count(name), tick, need, spend)]
Has(name, need) == Enough(buckets[name], Count(name), tick, need)

\* The key is full again from now on, before its own rate has made it so.
GivenAway ==
    drops' = IF ~buckets'["key"].there /\ Refilled(buckets["key"], KeyCount, tick) < KeyCount * Period
               THEN drops \cup {tick} ELSE drops

\* Mutant: every bucket is dropped at every sweep.
SweepAll ==
    /\ buckets' = [b \in Limited |-> NoBucket] /\ GivenAway
    /\ UNCHANGED <<tick, disabled, asks, inFlight, uses, spares, lastTaker>>

\* Idle for so long, whatever its period: of a key limited by the hour or the
\* week, the bucket is dropped long before it is full.
Sweep ==
    /\ buckets' = [b \in Limited |->
         IF buckets[b].last + SweepAfter < tick THEN NoBucket ELSE buckets[b]]
    /\ GivenAway
    /\ UNCHANGED <<tick, disabled, asks, inFlight, uses, spares, lastTaker>>

AdmissionTick ==
    /\ tick < MaxTick /\ tick' = tick + 1
    /\ UNCHANGED <<buckets, disabled, asks, inFlight, keyHistory>>

---------------------------------------------------------------------------
\* requireAPIKey.

To(q, pc) == asks' = [asks EXCEPT ![q].pc = pc]
AnswerGiven(q) == asks' = [asks EXCEPT ![q] = NotAsking]

\* The address's budget is looked at, and spent by strangers only.
Peek(q, cred) ==
    /\ asks[q].pc = "none" /\ Take("address", 1, FALSE)
    /\ asks' = IF Has("address", 1) THEN [asks EXCEPT ![q] = [pc |-> "lookup", cred |-> cred]]
                                    ELSE asks
    /\ UNCHANGED <<tick, disabled, inFlight, keyHistory>>

\* A stranger's row is recorded, but not the refusal of the peek above.
ChargeStranger(q) ==
    /\ asks[q].pc = "lookup" /\ asks[q].cred = "none"
    /\ Take("address", 1, TRUE) /\ AnswerGiven(q)
    /\ UNCHANGED <<tick, disabled, inFlight, keyHistory>>

\* The key as it is in the store now: refused if it is off, or on an error.
Authenticate(q) ==
    /\ asks[q].pc = "lookup" /\ asks[q].cred = "key"
    /\ AnswerGiven(q) \/ (~disabled /\ To(q, "rate"))
    /\ UNCHANGED <<tick, buckets, disabled, inFlight, keyHistory>>

\* Mutant: the gateway's request needs one token, as the client's own does.
LetInOne(q) ==
    /\ asks[q].pc = "spare" /\ Len(spares) + Len(uses) < MaxTakes
    /\ Take("key", 1, TRUE) /\ AnswerGiven(q)
    /\ IF Has("key", 1) THEN spares' = Append(spares, tick) /\ lastTaker' = "gateway"
                        ELSE UNCHANGED <<spares, lastTaker>>
    /\ UNCHANGED <<tick, disabled, inFlight, uses, drops>>

\* AllowSpare, asked for by spareFor once the client has been answered: of a
\* count of one, nothing is spare and nothing is looked at.
LetInSpare(q) ==
    /\ asks[q].pc = "spare" /\ Len(spares) + Len(uses) < MaxTakes /\ AnswerGiven(q)
    /\ IF KeyCount >= 2 THEN Take("key", 2, TRUE) ELSE UNCHANGED buckets
    /\ IF KeyCount >= 2 /\ Has("key", 2)
         THEN spares' = Append(spares, tick) /\ lastTaker' = "gateway"
         ELSE UNCHANGED <<spares, lastTaker>>
    /\ UNCHANGED <<tick, disabled, inFlight, uses, drops>>

\* A client at its rate is refused, and so is one over its budget, which
\* another module decides.
Allow(q) ==
    /\ asks[q].pc = "rate" /\ Len(spares) + Len(uses) < MaxTakes
    /\ Take("key", 1, TRUE)
    /\ uses' = Append(uses, [at |-> tick, in |-> Has("key", 1)])
    /\ IF Has("key", 1) THEN lastTaker' = "client" /\ (To(q, "admitted") \/ AnswerGiven(q))
       ELSE AnswerGiven(q) /\ lastTaker' = IF lastTaker = "gateway" THEN "robbed" ELSE lastTaker
    /\ UNCHANGED <<tick, disabled, inFlight, spares, drops>>

---------------------------------------------------------------------------
\* inference.

\* Counted from here on, the refusals of its own included: an unreadable
\* body, a model the client may not use, one no account serves.
BeginServing(q) ==
    /\ asks[q].pc = "admitted" /\ inFlight' = inFlight + 1 /\ To(q, "serving")
    /\ UNCHANGED <<tick, buckets, disabled, keyHistory>>

\* answered; a chat with no name may then be given one at the client's cost.
EndServing(q) ==
    /\ asks[q].pc = "serving" /\ inFlight' = inFlight - 1
    /\ AnswerGiven(q) \/ To(q, "spare")
    /\ UNCHANGED <<tick, buckets, disabled, keyHistory>>

SetDisabled(off) ==
    /\ disabled # off /\ disabled' = off
    /\ UNCHANGED <<tick, buckets, asks, inFlight, keyHistory>>

AdmissionNext ==
    \/ \E q \in Request :
         \/ \E cred \in {"none", "key"} : Peek(q, cred)
         \/ ChargeStranger(q) \/ Authenticate(q) \/ Allow(q) \/ LetInSpare(q)
         \/ BeginServing(q) \/ EndServing(q)
    \/ Sweep \/ AdmissionTick \/ \E off \in BOOLEAN : SetDisabled(off)

AdmissionSpec == AdmissionInit /\ [][AdmissionNext]_admissionVars

---------------------------------------------------------------------------
\* What a bucket of so many a period, never swept, would have done with a history.
Replayed(history, count) ==
    LET step(acc, u) ==
          [bucket |-> Taken(acc.bucket, count, u.at, 1, TRUE),
           in |-> Append(acc.in, Enough(acc.bucket, count, u.at, 1))]
    IN  FoldLeft(step, [bucket |-> NoBucket, in |-> <<>>], history).in

\* Mutant: the count is flattened to one a tick.
ReplayFlat(history) == Replayed(history, 1)
\* ReplayLimits: the bucket's own burst and rate.
ReplayLimits(history) == Replayed(history, KeyCount)

\* "The preview an operator is shown before saving is the request path's own
\* arithmetic": what the key's limit would have refused of a history is what
\* it did refuse, when the gateway made no request of its own and the sweeper
\* dropped no bucket but a full one.
ReplayAgrees ==
    spares = <<>> /\ drops = {} => ReplayLimits(uses) = [i \in DOMAIN uses |-> uses[i].in]

\* Whom the key let in from one tick to another: the client, and the gateway.
ClientsIn(a, b) == {i \in DOMAIN uses : uses[i].in /\ uses[i].at \in a..b}
SparesIn(a, b) == {i \in DOMAIN spares : spares[i] \in a..b}
LetInDuring(a, b) == Cardinality(ClientsIn(a, b)) + Cardinality(SparesIn(a, b))

\* The bursts it could make meanwhile: one, and one for every time the sweeper
\* forgot it before its own rate had let it make another.
Bursts(a, b) == (1 + Cardinality(drops \cap a..b)) * (KeyCount * Period)

\* A key is let in no more than its count in a burst and its count a period
\* after that, the client's requests and the gateway's together, however they
\* fall; and one burst more for every time the sweeper forgets it half refilled.
WithinRate ==
    \A a \in 1..tick : \A b \in a..tick :
        LetInDuring(a, b) * Period <= Bursts(a, b) + (b - a) * KeyCount

\* Which it does no oftener than it lets a bucket be idle: a key that keeps its
\* requests coming is not forgotten between them.
DropsApart == \A s, t \in drops : s < t => s + SweepAfter < t

\* Not so of the code: a sweep gives nothing away.  It is so of a key whose
\* period is no longer than the idle time.
NothingGivenAway == drops = {}

\* A request the gateway makes "must never take the last token the caller's own
\* next request needs": the client is never refused right after one.
NeverRobbed == lastTaker # "robbed"

\* What a client's page shows it doing now (InFlight).
Serving == {q \in Request : asks[q].pc = "serving"}
CountedTrue == inFlight = Cardinality(Serving)

\* The limits as a whole, and what a client's page shows it doing now.
LimitsKept == WithinRate /\ DropsApart /\ NeverRobbed /\ CountedTrue

-----------------------------------------------------------------------------
(* What a key has spent *)

CONSTANTS
    Spender,        \* the slots requests run in
    TokenBudget,    \* the key's
    Costs,          \* what a request may cost
    Window, Fresh,  \* BudgetWindow and budgetFresh, in ticks
    MaxDay,         \* bound: the last tick
    MaxRows         \* bound: rows in the log

ASSUME WindowIsLonger ==
    TokenBudget \in Nat /\ Costs \subseteq Nat /\ Fresh \in Nat \ {0} /\ Window \in Nat /\ Fresh < Window

VARIABLES
    day,        \* the clock
    rows,       \* usage_events of the key, and when each was written
    entry,      \* Budgets.spent of the key
    spends      \* each request: where it is

budgetVars == <<day, rows, entry, spends>>

NoEntry == [tokens |-> 0, refreshed |-> 0, missed |-> 0]     \* absent at refreshed = 0
NoSpend == [pc |-> "none", start |-> 0, figure |-> 0, cost |-> 0, missed |-> 0, own |-> FALSE]

BudgetInit ==
    /\ day = 1 /\ rows = {} /\ entry = NoEntry /\ spends = [q \in Spender |-> NoSpend]

SumOf(rs) == FoldSet(LAMBDA r, n : r.cost + n, 0, rs)
KeySpend(now) == SumOf({r \in rows : r.start + Window >= now})
Is(q, pc) == spends[q].pc = pc
Put(q, s) == spends' = [spends EXCEPT ![q] = s]

---------------------------------------------------------------------------
IsFresh == entry.refreshed # 0 /\ day - entry.refreshed < Fresh

\* What withinBudget and spareFor do with the figure.  A read that fails lets
\* the client's request go, and not the gateway's.
WithinBudget(q, start, figure) ==
    Put(q, IF figure < TokenBudget THEN [NoSpend EXCEPT !.pc = "serving", !.start = start]
                                   ELSE NoSpend)

\* Mutant: a figure once read is kept for as long as it is asked for.
AskForever(q, own) ==
    /\ Is(q, "none")
    /\ IF entry.refreshed # 0
         THEN WithinBudget(q, day, entry.tokens)
         ELSE Put(q, [NoSpend EXCEPT !.pc = "query", !.start = day, !.own = own])
    /\ UNCHANGED <<day, rows, entry>>

\* SpentBy, its first half under the mutex.
Ask(q, own) ==
    /\ Is(q, "none")
    /\ IF IsFresh THEN WithinBudget(q, day, entry.tokens)
       ELSE Put(q, [NoSpend EXCEPT !.pc = "query", !.start = day, !.own = own])
    /\ UNCHANGED <<day, rows, entry>>

\* The query, outside of it.
ReadSpend(q) ==
    /\ Is(q, "query")
    /\ Put(q, [spends[q] EXCEPT !.pc = "store", !.figure = KeySpend(spends[q].start)])
    /\ UNCHANGED <<day, rows, entry>>

ReadFails(q) ==
    /\ Is(q, "query")
    /\ Put(q, IF spends[q].own THEN NoSpend 
             ELSE [NoSpend EXCEPT !.pc = "failedOpen", !.start = spends[q].start])
    /\ UNCHANGED <<day, rows, entry>>

\* Its second half.
StoreSpend(q) ==
    /\ Is(q, "store")
    /\ entry' = [tokens |-> spends[q].figure, refreshed |-> spends[q].start,
                 missed |-> spends[q].missed]
    /\ WithinBudget(q, spends[q].start, spends[q].figure)
    /\ UNCHANGED <<day, rows>>

---------------------------------------------------------------------------
\* Record: the row first, or nothing if the write fails.
RecordRow(q, cost) ==
    /\ spends[q].pc \in {"serving", "failedOpen"} /\ Cardinality(rows) < MaxRows
    /\ rows' = rows \cup {[start |-> spends[q].start, cost |-> cost, done |-> day,
                           n |-> Cardinality(rows), credited |-> FALSE]}
    /\ Put(q, [NoSpend EXCEPT !.pc = "credit", !.cost = cost, !.figure = Cardinality(rows)])
    /\ UNCHANGED <<day, entry>>

RecordFails(q) ==
    /\ spends[q].pc \in {"serving", "failedOpen"} /\ Put(q, NoSpend)
    /\ UNCHANGED <<day, rows, entry>>

\* What a figure that has been read and not yet stored does not learn of.
Credit(q) ==
    [p \in Spender |-> IF p = q THEN NoSpend
                       ELSE IF Is(p, "store")
                              THEN [spends[p] EXCEPT !.missed = @ + spends[q].cost]
                              ELSE spends[p]]

\* Mutant: what a request cost is left for the next read to find.
AddNothing(q) ==
    /\ Is(q, "credit") /\ spends' = Credit(q) /\ UNCHANGED <<day, entry>>
    /\ rows' = {[r EXCEPT !.credited = @ \/ r.n = spends[q].figure] : r \in rows}

\* Add: nothing if there is no figure to keep up.
Add(q) ==
    /\ Is(q, "credit") /\ spends' = Credit(q) /\ UNCHANGED day
    /\ rows' = {[r EXCEPT !.credited = @ \/ r.n = spends[q].figure] : r \in rows}
    /\ entry' = IF entry.refreshed = 0 THEN entry
                ELSE [entry EXCEPT !.tokens = @ + spends[q].cost]

\* Forget, when the key is edited, or Sweep, when nothing asked for long.
Forget ==
    /\ entry' = NoEntry /\ UNCHANGED <<day, rows, spends>>

BudgetTick ==
    /\ day < MaxDay /\ day' = day + 1 /\ UNCHANGED <<rows, entry, spends>>

BudgetNext ==
    \/ \E q \in Spender :
         \/ \E own \in BOOLEAN : Ask(q, own)
         \/ ReadSpend(q) \/ ReadFails(q) \/ StoreSpend(q)
         \/ \E cost \in Costs : RecordRow(q, cost)
         \/ RecordFails(q) \/ Add(q)
    \/ Forget \/ BudgetTick

BudgetSpec == BudgetInit /\ [][BudgetNext]_budgetVars

---------------------------------------------------------------------------
InWindow(r, t) == r.start + Window >= t

\* The figure is at most budgetFresh late: a request let in by one had spent
\* less than its budget by what the log held budgetFresh before it came, in
\* the window it came in, whatever readers raced and whenever rows were
\* written.
NoticesInTime ==
    \A q \in Spender : Is(q, "serving") =>
        SumOf({r \in rows : InWindow(r, spends[q].start) /\ r.done + Fresh <= spends[q].start})
          < TokenBudget

\* And between reads it keeps up with spending: it misses nothing credited, but
\* what was credited while the query behind it was under way.
KeepsUp ==
    entry.refreshed # 0 =>
        entry.tokens + entry.missed
          >= SumOf({r \in rows : r.credited /\ InWindow(r, day)})

\* The figures a budget is decided by, and those an operator decides a limit by.
FigureIsHonest == NoticesInTime /\ KeepsUp /\ ReplayAgrees

\* "Late in noticing tokens that ageing out has freed, never late in noticing
\* tokens spent" (budgets.go, above budgetFresh).
NeverLate ==
    entry.refreshed # 0 => entry.tokens >= SumOf({r \in rows : r.credited /\ InWindow(r, day)})
=============================================================================
