------------------------------ MODULE AccountPool ------------------------------
(***************************************************************************)
(* Which account serves a request (internal/pool/pool.go, affinity.go,     *)
(* versions.go), while the requests that share the accounts report how     *)
(* each answered, availability holds models back (internal/service/        *)
(* availability), and the operator pauses and reconnects accounts.         *)
(*                                                                         *)
(* One provider's accounts, numbered in the operator's order of priority.  *)
(* A request lists the accounts, picks one under the pool's mutex, leases  *)
(* it, and asks it; refused, it does so again without that account         *)
(* (relay.Do).  Every critical section of the pool is a step of its own,   *)
(* and so is every read of the database.                                   *)
(***************************************************************************)
EXTENDS Integers, Sequences, FiniteSets

CONSTANTS
  NumAccounts,
  Request,
  Offers,        \* the models each account has on
  Wanted,        \* what a request asks for: the models, newest first, any of
                 \* which may serve it -- one, but for a family (Versions)
  Conversing,    \* the requests that belong to one conversation
  Backoff,       \* per kind of failure, its first wait and its longest
  Resets,        \* how far ahead an upstream says an account is back; 0: it does not say
  MaxReported,   \* maxReportedWait
  HoldFor,       \* how long availability holds a failing model
  AffinityTTL,   \* affinityTTL
  MaxAttempts,   \* maxAttempts
  MaxFailures,   \* bound: the failures counted, every wait being its longest by then
  MaxTime,       \* bound: the clock
  Acts           \* bound: what else happens, of "pause", "reset", "room" and
                 \* "models", and to which account

Account == 1 .. NumAccounts
NoAccount == 0
Kind == DOMAIN Backoff
Model == UNION {Offers[a] : a \in Account}
NoModel == "none"

ASSUME PoolAssumption ==
  /\ NumAccounts \in Nat \ {0}
  /\ IsFiniteSet(Request)
  /\ DOMAIN Offers = Account
  /\ \A w \in Wanted : w \in Seq(Model)
  /\ NoModel \notin Model
  /\ "auth" \in Kind
  /\ Backoff \in [Kind -> [base : Nat \ {0}, max : Nat \ {0}]]
  /\ Resets \subseteq Nat /\ AffinityTTL \in Nat
  /\ {MaxReported, HoldFor, MaxAttempts, MaxFailures, MaxTime} \subseteq Nat \ {0}
  /\ \A k \in Kind : Backoff[k].base <= Backoff[k].max /\ Backoff[k].max <= MaxReported
  /\ HoldFor <= MaxReported

VARIABLES
  now,
  paused,    \* accounts the operator paused, or with nothing left to serve with
  full,      \* accounts out of room by the quota in the store
  failing,   \* <<account, model>> availability says is failing
  cool,      \* cooldownUntil; 0 is none
  failures,  \* consecutive failures
  hold,      \* until when an account sits one model out
  told,      \* history: the latest a provider ever said an account is back
  open,      \* leases out on each account
  last,      \* the account the conversation was last leased, and when
  pc,        \* where each request is
  want,      \* what it asks for
  attempt,   \* which attempt it is on
  tried,     \* the accounts it will not be given again
  cand,      \* the accounts it may be given, as the store was read
  chosen,    \* the account picked for it
  serving,   \* the model that account serves it
  lease      \* the account it holds

store == <<paused, full, failing>>
health == <<cool, failures, hold, told>>
asking == <<want, attempt, tried>>
vars == <<now, store, health, open, last, pc, asking, cand, chosen, serving, lease>>

NoCand == [set |-> {}, full |-> {}, serves |-> [a \in Account |-> NoModel]]

PC == {"idle", "list", "prefer", "pick", "remember", "token", "hold", "swap", "asked", "done"}

Goto(r, step) == pc' = [pc EXCEPT ![r] = step]

MinOf(m, n) == IF m <= n THEN m ELSE n
MaxOf(m, n) == IF m >= n THEN m ELSE n

Init ==
  /\ now = 1
  /\ paused = {} /\ full = {} /\ failing = {}
  /\ cool = [a \in Account |-> 0]
  /\ failures = [a \in Account |-> 0]
  /\ hold = [a \in Account |-> [m \in Model |-> 0]]
  /\ told = [a \in Account |-> 0]
  /\ open = [a \in Account |-> 0]
  /\ last = [account |-> NoAccount, at |-> 0]
  /\ pc = [r \in Request |-> "idle"]
  /\ want = [r \in Request |-> <<>>]
  /\ attempt = [r \in Request |-> 0]
  /\ tried = [r \in Request |-> {}]
  /\ cand = [r \in Request |-> NoCand]
  /\ chosen = [r \in Request |-> NoAccount]
  /\ serving = [r \in Request |-> NoModel]
  /\ lease = [r \in Request |-> NoAccount]

-----------------------------------------------------------------------------
(* Choosing among accounts *)

\* Best: the newest version an account has that is not failing there, else
\* the newest it has -- a family is never refused for its versions failing --
\* else none.
Best(a, w) ==
  LET has   == {i \in DOMAIN w : w[i] \in Offers[a]}
      works == {i \in has : <<a, w[i]>> \notin failing}
      Newest(S) == w[CHOOSE i \in S : \A j \in S : i <= j]
  IN IF works # {} THEN Newest(works)
     ELSE IF has # {} THEN Newest(has) ELSE NoModel

Rank(m, w) == CHOOSE i \in DOMAIN w : w[i] = m /\ \A j \in 1 .. i - 1 : w[j] # m

\* Mutant of Candidates: the accounts already tried are offered again.
CandidatesTried(w, without) ==
  [set    |-> {a \in Account \ paused : Best(a, w) # NoModel},
   full   |-> full,
   serves |-> [a \in Account |-> Best(a, w)]]

\* candidatesFor and byVersion: the accounts in play, with what each would
\* serve and which are out of room, as the store says now.
Candidates(w, without) ==
  [set    |-> {a \in Account \ (paused \union without) : Best(a, w) # NoModel},
   full   |-> full,
   serves |-> [a \in Account |-> Best(a, w)]]

\* Accounts whose best is the newest come first, in the operator's order.
Precedes(c, w, a, b) ==
  \/ Rank(c.serves[a], w) < Rank(c.serves[b], w)
  \/ Rank(c.serves[a], w) = Rank(c.serves[b], w) /\ a <= b

First(c, w, S) == CHOOSE a \in S : \A b \in S : Precedes(c, w, a, b)

\* Mutant of Until: a model's cooldown counts for nothing.
UntilAccount(a, m) == cool[a]

\* until: the account's own cooldown, or the model's on it, whichever is later.
Until(a, m) == MaxOf(cool[a], IF hold[a][m] > now THEN hold[a][m] ELSE 0)

Back(c, a) == Until(a, c.serves[a])

Free(c) == {a \in c.set : Back(c, a) <= now}

\* pickFor: free and with room; free; or back soonest.
PickFor(c, w) ==
  LET roomy   == Free(c) \ c.full
      soonest == {a \in c.set : \A b \in c.set : Back(c, a) <= Back(c, b)}
  IN First(c, w, IF roomy # {} THEN roomy
                 ELSE IF Free(c) # {} THEN Free(c) ELSE soonest)

\* Mutant of RetryAfter: a model's cooldown counts for nothing.
RetryAfterAccount(c) ==
  LET waits == {cool[a] - now : a \in c.set}
  IN IF c.set = {} \/ \E a \in c.set : cool[a] <= now THEN 0
     ELSE CHOOSE d \in waits : \A e \in waits : d <= e

\* soonest, for RetryAfter: none once an account is out of its cooldown, else
\* the shortest of their waits.
RetryAfter(c) ==
  LET waits == {Back(c, a) - now : a \in c.set}
  IN IF c.set = {} \/ Free(c) # {} THEN 0
     ELSE CHOOSE d \in waits : \A e \in waits : d <= e

-----------------------------------------------------------------------------
(* Acquire *)

Arrive(r) ==
  /\ pc[r] = "idle"
  /\ \E w \in Wanted : want' = [want EXCEPT ![r] = w]
  /\ attempt' = [attempt EXCEPT ![r] = 1]
  /\ Goto(r, "list")
  /\ UNCHANGED <<now, store, health, open, last, tried, cand, chosen, serving, lease>>

\* ListAccounts; with no account left, the request ends.
List(r) ==
  /\ pc[r] = "list"
  /\ LET c == Candidates(want[r], tried[r]) IN
     IF c.set = {}
       THEN Goto(r, "done") /\ UNCHANGED cand
       ELSE /\ Goto(r, IF r \in Conversing THEN "prefer" ELSE "pick")
            /\ cand' = [cand EXCEPT ![r] = c]
  /\ UNCHANGED <<now, store, health, open, last, asking, chosen, serving, lease>>

\* Mutant of Keeps: a pin, not a preference.
KeepsRegardless(c) == last.account \in c.set

\* Whether the account the conversation was last leased can serve it now.
Keeps(c) ==
  /\ last.account \in Free(c) \ c.full
  /\ now - last.at <= AffinityTTL

\* What Take changes, besides the request's place.
picking == <<cand, chosen, serving>>

Take(r, a) ==
  /\ chosen' = [chosen EXCEPT ![r] = a]
  /\ serving' = [serving EXCEPT ![r] = cand[r].serves[a]]
  /\ cand' = [cand EXCEPT ![r] = NoCand]

\* preferred.
Prefer(r) ==
  /\ pc[r] = "prefer"
  /\ IF Keeps(cand[r])
       THEN Take(r, last.account) /\ Goto(r, "remember")
       ELSE Goto(r, "pick") /\ UNCHANGED picking
  /\ UNCHANGED <<now, store, health, open, last, asking, lease>>

Pick(r) ==
  /\ pc[r] = "pick"
  /\ Take(r, PickFor(cand[r], want[r]))
  /\ Goto(r, IF r \in Conversing THEN "remember" ELSE "token")
  /\ UNCHANGED <<now, store, health, open, last, asking, lease>>

Remember(r) ==
  /\ pc[r] = "remember"
  /\ last' = [account |-> chosen[r], at |-> now]
  /\ Goto(r, "token")
  /\ UNCHANGED <<now, store, health, open, asking, cand, chosen, serving, lease>>

\* Mutant of Wait: the upstream's reset is trusted however far out.
WaitUnbounded(kind, count, reset) ==
  MaxOf(MinOf(Backoff[kind].base * 2 ^ MinOf(count - 1, 16), Backoff[kind].max), reset)

\* The wait after one more failure of this kind, and the upstream's own reset.
Wait(kind, count, reset) ==
  LET backoff == MinOf(Backoff[kind].base * 2 ^ MinOf(count - 1, 16), Backoff[kind].max)
  IN IF reset > backoff THEN MinOf(reset, MaxReported) ELSE backoff

Says(a, reset) == told' = [told EXCEPT ![a] = MaxOf(@, now + reset)]

\* ReportFailureUntil.
ReportFailure(a, kind, reset) ==
  /\ failures' = [failures EXCEPT ![a] = MinOf(@ + 1, MaxFailures)]
  /\ cool' = [cool EXCEPT ![a] = now + Wait(kind, failures'[a], reset)]
  /\ Says(a, reset)
  /\ UNCHANGED hold

\* ReportModelFailureUntil.
ReportModelFailure(a, m, kind, reset) ==
  /\ hold' = [hold EXCEPT ![a][m] = now + Wait(kind, 1, reset)]
  /\ Says(a, reset)
  /\ UNCHANGED <<cool, failures>>

\* The token is fresh or made so; or its refresh fails, and the request with it.
Token(r) ==
  /\ pc[r] = "token"
  /\ \/ Goto(r, "hold") /\ UNCHANGED health
     \/ ReportFailure(chosen[r], "auth", 0) /\ Goto(r, "done")
     \/ Goto(r, "done") /\ UNCHANGED health
  /\ UNCHANGED <<now, store, open, last, asking, cand, chosen, serving, lease>>

\* hold: one more request open on the account.
Hold(r) ==
  /\ pc[r] = "hold"
  /\ open' = [open EXCEPT ![chosen[r]] = @ + 1]
  /\ Goto(r, "swap")
  /\ UNCHANGED <<now, store, health, last, asking, cand, chosen, serving, lease>>

\* Mutant of Released: every call takes one off, and there are two.
ReleasedTwice(a) == IF a = NoAccount THEN open ELSE [open EXCEPT ![a] = @ - 2]

\* Lease.Release, which is once however often it is called.
Released(a) == IF a = NoAccount THEN open ELSE [open EXCEPT ![a] = @ - 1]

\* Mutant of Swap: the attempt before keeps its lease.
SwapKept(r) ==
  /\ pc[r] = "swap"
  /\ lease' = [lease EXCEPT ![r] = chosen[r]]
  /\ chosen' = [chosen EXCEPT ![r] = NoAccount]
  /\ Goto(r, "asked")
  /\ UNCHANGED <<now, store, health, open, last, asking, cand, serving>>

\* relay.Do: the attempt before gives its lease back, now that there is another.
Swap(r) ==
  /\ pc[r] = "swap"
  /\ open' = Released(lease[r])
  /\ lease' = [lease EXCEPT ![r] = chosen[r]]
  /\ chosen' = [chosen EXCEPT ![r] = NoAccount]
  /\ Goto(r, "asked")
  /\ UNCHANGED <<now, store, health, last, asking, cand, serving>>

-----------------------------------------------------------------------------
(* How the account answered *)

\* ReportSuccess.
ReportSuccess(a) ==
  /\ cool' = [cool EXCEPT ![a] = 0]
  /\ failures' = [failures EXCEPT ![a] = 0]
  /\ UNCHANGED <<hold, told>>

Succeed(r) ==
  /\ pc[r] = "asked"
  /\ ReportSuccess(lease[r])
  /\ Goto(r, "done")
  /\ UNCHANGED <<now, store, open, last, asking, cand, chosen, serving, lease>>

\* A client that went away, or an answer that says nothing of the account.
GiveUp(r) ==
  /\ pc[r] = "asked"
  /\ Goto(r, "done")
  /\ UNCHANGED <<now, store, health, open, last, asking, cand, chosen, serving, lease>>

\* Asked again, or out of attempts.
Again(r, without) ==
  /\ Goto(r, IF attempt[r] < MaxAttempts THEN "list" ELSE "done")
  /\ attempt' = [attempt EXCEPT ![r] = MinOf(@ + 1, MaxAttempts)]
  /\ tried' = [tried EXCEPT ![r] = @ \union without]
  /\ UNCHANGED want

\* Refused, or not reached: the account, or the model on it, sits out.
Fail(r) ==
  /\ pc[r] = "asked"
  /\ \E kind \in Kind, reset \in Resets :
       \/ ReportFailure(lease[r], kind, reset)
       \/ ReportModelFailure(lease[r], serving[r], kind, reset)
  /\ Again(r, {lease[r]})
  /\ UNCHANGED <<now, store, open, last, cand, chosen, serving, lease>>

\* A 401 whose refresh works, or a stream that produced nothing: the same
\* account may serve again.
Repeat(r) ==
  /\ pc[r] = "asked"
  /\ attempt[r] < MaxAttempts
  /\ Again(r, {})
  /\ UNCHANGED <<now, store, health, open, last, cand, chosen, serving, lease>>

\* The request is over, and its lease with it.
Done(r) ==
  /\ pc[r] = "done"
  /\ open' = Released(lease[r])
  /\ lease' = [lease EXCEPT ![r] = NoAccount]
  /\ chosen' = [chosen EXCEPT ![r] = NoAccount]
  /\ serving' = [serving EXCEPT ![r] = NoModel]
  /\ want' = [want EXCEPT ![r] = <<>>]
  /\ tried' = [tried EXCEPT ![r] = {}]
  /\ attempt' = [attempt EXCEPT ![r] = 0]
  /\ Goto(r, "idle")
  /\ UNCHANGED <<now, store, health, last, cand>>

-----------------------------------------------------------------------------
(* Availability and the operator *)

\* Availability checks a model on an account and finds it failing: HoldModel,
\* unless a hold already longer stands.
FindFailing(a, m) ==
  /\ failing' = failing \union {<<a, m>>}
  /\ hold' = [hold EXCEPT ![a][m] = MaxOf(@, now + HoldFor)]
  /\ UNCHANGED <<now, paused, full, cool, failures, told, open, last, pc, asking, cand, chosen, serving, lease>>

\* ... or finds it working: ReleaseModel.
FindWorking(a, m) ==
  /\ failing' = failing \ {<<a, m>>}
  /\ hold' = [hold EXCEPT ![a][m] = 0]
  /\ UNCHANGED <<now, paused, full, cool, failures, told, open, last, pc, asking, cand, chosen, serving, lease>>

\* Paused or resumed by the operator.
TogglePause(a) ==
  /\ paused' = IF a \in paused THEN paused \ {a} ELSE paused \union {a}
  /\ UNCHANGED <<now, full, failing, health, open, last, pc, asking, cand, chosen, serving, lease>>

\* Reset: the operator reconnected the account.
Reset(a) ==
  /\ cool' = [cool EXCEPT ![a] = 0]
  /\ failures' = [failures EXCEPT ![a] = 0]
  /\ UNCHANGED <<now, store, hold, told, open, last, pc, asking, cand, chosen, serving, lease>>

\* The quota in the store says the account is out of room, or has some again.
NoteRoom(a) ==
  /\ full' = IF a \in full THEN full \ {a} ELSE full \union {a}
  /\ UNCHANGED <<now, paused, failing, health, open, last, pc, asking, cand, chosen, serving, lease>>

Tick ==
  /\ now < MaxTime
  /\ now' = now + 1
  /\ UNCHANGED <<store, health, open, last, pc, asking, cand, chosen, serving, lease>>

Operate ==
  \E a \in Account :
    \/ <<"pause", a>> \in Acts /\ TogglePause(a)
    \/ <<"reset", a>> \in Acts /\ Reset(a)
    \/ <<"room", a>> \in Acts /\ NoteRoom(a)
    \/ <<"models", a>> \in Acts /\ \E m \in Offers[a] : FindFailing(a, m) \/ FindWorking(a, m)

\* What a request under way does next.
Work(r) ==
  \/ List(r) \/ Prefer(r) \/ Pick(r) \/ Remember(r) \/ Token(r) \/ Hold(r) \/ Swap(r)
  \/ Succeed(r) \/ GiveUp(r) \/ Fail(r) \/ Repeat(r) \/ Done(r)

Next ==
  \/ \E r \in Request : Arrive(r) \/ Work(r)
  \/ Operate
  \/ Tick

Spec == Init /\ [][Next]_vars

-----------------------------------------------------------------------------
TypeOK ==
  /\ now \in 1 .. MaxTime
  /\ paused \subseteq Account /\ full \subseteq Account
  /\ failing \subseteq Account \X Model
  /\ cool \in [Account -> Nat]
  /\ failures \in [Account -> 0 .. MaxFailures]
  /\ hold \in [Account -> [Model -> Nat]]
  /\ told \in [Account -> Nat]
  /\ open \in [Account -> Nat]
  /\ last \in [account : Account \union {NoAccount}, at : 0 .. MaxTime]
  /\ pc \in [Request -> PC]
  /\ want \in [Request -> Wanted \union {<<>>}]
  /\ attempt \in [Request -> 0 .. MaxAttempts]
  /\ tried \in [Request -> SUBSET Account]
  /\ cand \in [Request -> [set : SUBSET Account, full : SUBSET Account,
                            serves : [Account -> Model \union {NoModel}]]]
  /\ chosen \in [Request -> Account \union {NoAccount}]
  /\ serving \in [Request -> Model \union {NoModel}]
  /\ lease \in [Request -> Account \union {NoAccount}]

-----------------------------------------------------------------------------
(* Correctness *)

Held(a) == {r \in Request : lease[r] = a}
Taking(a) == {r \in Request : pc[r] = "swap" /\ chosen[r] = a}

\* InFlightTrue: the count shown as in flight on an account is the leases
\* requests have on it, through retries that move to another account and
\* retries that come back to the same (Pool.hold, Lease.Release).
InFlightTrue == \A a \in Account : open[a] = Cardinality(Held(a)) + Cardinality(Taking(a))

\* Whether an account sits out a model at some time, by its own cooldown or
\* the model's on it.
Resting(c, a, t) == cool[a] > t \/ hold[a][c.serves[a]] > t

\* HealthyFirst: the account picked for a request, by affinity or by priority,
\* is one that no other it may be given is back before; and one out of room
\* only when no other that is free has room (Acquire).
HealthyFirst ==
  [][\A r \in Request : chosen'[r] \notin {chosen[r], NoAccount} =>
       LET c == cand[r]
           a == chosen'[r]
       IN /\ a \in c.set
          /\ \A b \in c.set, t \in now .. now + MaxReported :
               ~Resting(c, b, t) => ~Resting(c, a, t)
          /\ a \in c.full => \A b \in c.set \ c.full : Resting(c, b, now)]_vars

\* RetryIsHonest: a Retry-After, when everything is cooling down, is the
\* moment the first account that could serve is out of its cooldowns, and
\* there is none when one already is (Pool.RetryAfter).
RetryIsHonest ==
  \A w \in Wanted :
    LET c == Candidates(w, {})
        wait == RetryAfter(c)
        AllRest(t) == \A a \in c.set : Resting(c, a, t)
    IN IF c.set = {} \/ ~AllRest(now)
         THEN wait = 0
         ELSE wait > 0 /\ AllRest(now + wait - 1) /\ ~AllRest(now + wait)

\* NotAskedAgain: a request is not given an account that failed it, by
\* priority, by affinity or by being back soonest (Acquire's exclude).
NotAskedAgain == \A r \in Request : pc[r] \in {"swap", "asked"} =>
  (IF pc[r] = "swap" THEN chosen[r] ELSE lease[r]) \notin tried[r]

\* Whether an account may be kept out until then: no further ahead than an
\* upstream is believed about, and than the longest backoff unless it said so.
Justified(a, until) ==
  /\ until <= now + MaxReported
  /\ until <= told[a] \/ \E k \in Kind : until <= now + Backoff[k].max

\* WaitsAreBounded: no account and no model is sidelined further ahead than the
\* longest backoff, or availability's hold, unless its own provider named a
\* later moment; and then no further than the longest wait an upstream is
\* believed about ("trusting it would take an account out of rotation until
\* someone noticed").
WaitsAreBounded ==
  \A a \in Account :
    /\ Justified(a, cool[a])
    /\ \A m \in Model : hold[a][m] <= now + HoldFor \/ Justified(a, hold[a][m])
=============================================================================
