# A verification of claudication

claudication is a gateway: coding clients call it with keys of their own, and
it relays each call to one of a pool of subscription accounts at Anthropic,
OpenAI or Google. It is one Go binary, `cmd/claudication`, whose `serve` runs a
supervisor and a worker; one SQLite database; and a web UI. This directory
holds TLA+ models of the parts of it that are hard to test, the TLC
configurations that check them on small instances, and proofs, checked by
TLAPS, of what holds for instances of any size.

Paths below are relative to `src/`, and to `src/internal/` where they begin
with a package name.

## The system

### Components, and what each must get right

**Token refresh** (`pool/pool.go`: `Refresh`, `refresh`; `handover/lock.go`;
`httpapi/admin/oauth.go`, `accounts.go`). State: the account row's tokens,
`expires_at` and `refresh_dead_at`; the in-flight `refreshCall` of each account
in each process; a lock file per account. Operations: lease an access token,
refresh when it is due or was refused, wait for another's refresh, reconnect an
account, delete it. Providers rotate refresh tokens: one spent twice takes the
account offline until a human signs in again. Correct when no token is
presented twice, the one working credential is never in no place, an account is
marked dead only for a token that was refused, and whoever waits is answered.

**Account pool** (`pool/pool.go`, `affinity.go`, `versions.go`). State, under one
mutex: per account a cooldown, a count of failures, holds per model and the
leases out; per conversation the account last used. Operations: `Acquire`,
release, report a success or a failure, hold a model back, `RetryAfter`, reset.
Correct when a request is not given an account that failed it, healthy accounts
go first, the in-flight counts are the leases, and the advice to come back is
the moment somebody is free.

**Quota writer** (`pool/quota.go`, `service/accounts`). One writer per account with
the newest note waiting, beside a poll of the vendor's own figures. Correct when
the notes are written in order and the newest is, and the row says the last of them
until a poll writes there.

**Relay** (`relay/passthrough.go`, `stall.go`, `httpapi/gateway/inference.go`).
State of one request: the attempt, the accounts tried and refreshed, the refusal
set aside, whether a keepalive has committed the answer's status, the opening of
a stream that is held. Correct when the client is answered once, with the
upstream's own words when it said any, and the pool is told the truth.

**Handover** (`handover/supervisor.go`, `worker.go`, `cmd/claudication/serve.go`,
`store/store.go`, `service/uptime/uptime.go`). State: the workers and which one is
current, what each was told over its pipes, the database's schema, the outage
record. Operations: start, reload, fall back to a restart, stop; a worker's
ready, release, orphaning and drain. Correct when somebody always accepts, no
schema changes under a worker that goes on, no worker is left behind, and the
status page's outages are true.

**Connection drain** (`handover/conns.go`, the end of `Server.Serve`). Counts of
connections open and not yet served, and whether answers say
`Connection: close`. Correct when a released worker closes no connection a
client may be writing on, and a stop drops no request already accepted.

**Live notices and screens** (`live/live.go`, `httpapi/admin/live.go`,
`web/src/api/live.ts`, `web/src/ui/hooks.ts`, `runs.ts`). State: each topic's version
and what was announced of it, each stream's channel, each kept read with the
versions it was computed from, each panel's reads. Correct when a kept answer is
never one a change has overtaken, and a screen shows what was written in the end.

**Model availability** (`service/availability`). Which models fail on which
account, the checks under way, the automatic switch-off and on. Correct when a
failing model is routed around and no switch moves that has not earned it.

**Limits and budgets** (`service/limits`, `httpapi/gateway/auth.go`, `budget.go`).
Token buckets of a key and of an address, with a sweep; what a key has spent,
cached between reads of the log. Correct when a limit holds over any pattern of
calls, and a budget notices what was spent.

**Recorded content** (`service/capture`, `store/recordings`). Exchanges held in
memory within a budget, a queue that writes them to disk, chunks shared between
them. Correct when the budget holds and what was cleared does not come back.

**Relay rewrites and meters** (`relay/passes`, `provider/*/meter.go`, `ssescan.go`). A
body's passes in order, what they share, the images' cache and gate; the names
put back in an answer cut anywhere; the usage read off it as it passes. Correct
when what goes up is accepted and otherwise unaltered, what comes down is renamed
where it should be and nowhere else, and the figures are those the answer states.

**Model list** (`service/models`). Each account's last list, what is remembered off
all of them, the operator's switches, pins and modes. Correct when a refresh
loses no list, and a name is routed to an account that can take it.

**Client dialects** (`api/*`, `request`). One answer's translation, a conversation's
rebuilding on each turn, a small store of kept reasoning. Correct when an answer
is whole or says it is not, and an upstream is sent what was said.

**Clients and their configuration** (`service/clients`, `service/install`,
`store/keys.go`, `store/clients.go`), **agent tools** (`httpapi/agent`, `mcp`). Keys, slots,
install and update links. Correct when a page tells the truth of its key, and an
agent changes only what it may.

**Chat titles** (`service/titles`): three writers of one row. **Sign-in attempts**
(`oauth`, `httpapi/admin/oauth.go`): attempts in memory, grants at the provider, rows.
**Usage recording** (`service/usage`, `store`): rows dated by their start and written
late. **Uptime** (`service/uptime`): samples, stops, and a report made of both.
**Notices** and the **operator's account** (`httpapi/admin`). Each is correct when
what is shown is so, whatever is written meanwhile.

**Gateway surface** (`httpapi/gateway`): a request from its credential to its row in
the log. **Provider clients** (`provider/*`): the vendors' plans, refusals, lists and
tests. **Store** (`store`): SQLite in WAL mode, one writer: each statement, or
transaction, is one atomic step of a model. `config`, `secret`, `logging`, `memlimit`,
`version`, the installers, `backup`, and the rest of the web UI complete the binary.

### How they interact

A request authenticates, passes its key's limits and budget, and enters
`Relay.Do`. Each attempt asks the pool for a lease (`Acquire`, which may wait for
a refresh), calls the provider, and reports how it went. What an answer says of
quotas and of its model goes, by goroutines, to the quota writer and to
availability, which hold accounts and models back in the pool. Every write marks
a topic of the hub, which tells the open tabs. In a handover two workers share
the database, the sockets and the lock files, and nothing else: cooldowns,
leases, budgets and caches are each worker's own.

| hard behaviour | where |
|---|---|
| two goroutines, two processes and an operator on one rotating token | token refresh |
| a credential that exists only in memory between an answer and a write | token refresh |
| state read before a mutex or a wait and used after it | pool, refresh |
| reports of one account in any order | pool, availability |
| several ways to have sent part of an answer already | relay |
| one timer for three deadlines, woken by the upstream | relay |
| processes that crash at any message of a protocol | handover |
| a write and its notice in two steps, a read between them | live |
| streams that drop, and are closed and opened on purpose | live |
| a result applied after a newer one | availability, quota, model lists |
| a queue, a cache or a bucket at its limit | live, limits, capture, images |
| a row read, worked on for seconds, and written over | titles, client names, sign-ins, admin password |
| a handler of several statements, and another in between | keys and their links, recordings |
| a stream that ends at any byte | translations, names, meters, sinks |
| a conversation whose upstream changes between turns | dialects |
| pages and reports of several queries over rows that come and go | request log, transcripts, status page |

`PROJECT.json` lists the hazards at their lines, with the properties that would
show them going wrong, or why none does.

## The modules

| module | models | composed of |
|---|---|---|
| `TokenRefresh` | the refresh of one account's token, in several workers, beside a reconnect and a delete | |
| `TokenCustody` | abstract: where the one working credential is | implemented by `TokenRefresh` |
| `SecretsProofs` | theorems about `TokenRefresh` and `ClientSetup` | |
| `AccountPool` | which account serves a request, and what failures do to it | |
| `AccountPoolProofs` | theorems about `AccountPool` and `Inference` | |
| `RelayAttempts` | one request through the relay's attempts | the pool as its environment |
| `GatewayProofs` | theorems about `Limits` and `RelayAttempts` | |
| `Handover` | the supervisor and its workers | |
| `HandoverProofs` | theorems about `Handover` | |
| `LiveHub` | the hub and one stream's channel | |
| `ReadCache` | the writers, and a kept read of what they write | extends `LiveHub` |
| `LiveScreens` | a tab: its stream and a panel that reads again | extends `ReadCache` |
| `LiveScreensProofs` | theorems about the three, and about `UsageLog` | |
| `ConnDrain` | the connections of a released or stopped worker | |
| `Availability` | whether a model works on an account, and its switches | |
| `QuotaWriter` | the quota row's writers | |
| `Limits` | who may make a request, and how many; what a key has spent | |
| `Recordings` | exchanges held, stored, cleared and pruned | |
| `Titles` | the name of one chat | |
| `ClientNames` | a client's slots, edited by its page and its agent | |
| `ClientSetup` | a key, whether its client is set up, and its links | |
| `Operator` | the admin account, its sessions and login links | |
| `SignIn` | accounts connected and reconnected | |
| `UsageLog` | the request log, read while it is written and pruned | |
| `Transcript` | a chat read back from its requests, and its context | |
| `Uptime` | samples, stops, crashes and the status page | |
| `Notices` | what is wrong now, and what was read of it | |
| `ModelLists` | the accounts' lists, read and remembered; a vendor's list ranked, and the test of an account | |
| `ModelRoutes` | which account serves a name, and which names are offered | |
| `Subscriptions` | what a plan has left, as it is read and shown | |
| `Refusals` | what a refusal is about, and for how long | |
| `Inference` | one request through the gateway's surface | |
| `Passes` | a body's rewrites, and the images' cache and gate | |
| `Meters` | usage read off an answer's bytes | |
| `MessagesAnswer` | another vendor's answer said as Anthropic's, and Anthropic's events as Codex's and Gemini's | |
| `NextTurn` | a Messages conversation rebuilt for its upstream | |
| `ClaudeTurns` | Codex's and Gemini clients' conversations with Claude | |
| `AnswerSinks` | an answer unwrapped, gathered and reshaped | |
| `ServicesProofs` | theorems about `QuotaWriter`, `ConnDrain`, `Recordings`, `ModelLists`, `ModelRoutes` and `Notices` | |
| `RowsProofs` | theorems about `Availability`, `Titles`, `Operator`, `ClientNames` and `SignIn` | |
| `LoopProofs` | lemmas on numbers, on a loop that keeps some of a slice, and on folds over a finite set | used by the others' proofs |
| `MC...` | instances for TLC: small sets, symmetries, tables | `MCServices` and `MCSurface` extend those they play |

Definitions preceded by "Mutant" are deliberately wrong variants of the operator
that follows them. No specification uses them; each stands for a plausible
mistake and shows that the property named with it in `PROJECT.json` would notice.

### TokenRefresh

About one account: the in-flight record, the lock file and the row are all per
account. `row` is the row; answers of the token endpoint are numbered, and a
number stands for the token and the expiry it carried. `refreshing[w]` is the
`refreshCall` of worker `w`; `lock` the lock file's holder; `fate` is what became
of every token, at the provider and in our hands, and is what the properties are
about. One action is one database statement, one exchange with the provider, or
one critical section of the pool's mutex:

| actions | code |
|---|---|
| `Lease`, `Join`, `Lead`, `Cancel`, `Finish`, `Return` | `AccessToken` and `Acquire` around `Refresh`: the single flight, its waiters, what they read after |
| `Look`, `TakeLock`, `SkipLock`, `LockTimeout`, `AlreadyDone` | `refresh` up to the exchange, with `FileLock` |
| `Reread`, `ReadTokens`, `Exchange`, `MarkDead`, `Lose`, `Persist` | the rest of it; `Exchange` takes any answer: rotated, kept (Google's), refused, unreached, or done and lost |
| `Consent`, `ReadTarget`, `Renew`, `HandBack` | the operator's reconnect, and the revocation of what it replaced |
| `ReadDoomed`, `RevokeDoomed`, `Remove` | the operator's delete |
| `Expire`, `ProviderRevokes`, `Crash` | the environment |

### AccountPool

One provider's accounts in the operator's order. `store` is what the database
says of them, `health` the pool's view. A request walks `Acquire` step by step -
the list read before the mutex (`List`), the conversation's account (`Prefer`) or
the best by priority (`Pick`), remembering it (`Remember`), its token (`Token`), the lease
(`Hold`, `Swap`) - and then reports its answer as `relay.Do` does: `Succeed`,
`GiveUp`, `Fail` and `Repeat`. `Best`, `Candidates`, `Precedes`, `PickFor`, `Until`,
`RetryAfter` and `Wait` are the operators of the same names. `now` is a counter;
cooldowns are moments of it.

### RelayAttempts

`pc` is where `Do` is; `hold` and `due` are the deadlines of `holdUntilContent` and
of the keepalive, counted down by `Tick`; `wire` is what the client has been
sent. An upstream's reply is one of its kinds: a 401, another refusal that moves
the request on, a refusal that is the request's own fault, a stream, another
answer, a network error, a context ended: the client has hung up, or the gateway's own
`Timeout` for the request has run out. The two are one to the code and two to the
properties (`ended`). The pool leases any account not tried, or fails.

### Handover

`sup` is where `Supervisor.Run` is, and `worker[p]` a worker's process: its state,
the mode it was started in, the build it runs, and what its pipes carry.
`schema` and `outage` are the database's. A drain is a step that ends: the
connections in it are `ConnDrain`'s.

### LiveHub, ReadCache, LiveScreens

`version`, `told` and `ripe` are the hub's counts and intervals; `queue` and `behind`
one stream. `data` is what the writes left of each topic, and a writer commits
and then marks (`Commit`, `Mark`). A read of the kept answer takes the entry's
lock, reads the versions, queries each topic, and keeps the answer under the
versions it read first. The tab's `source` is its EventSource; a panel's `busy`
and `again` are `useOnChange`'s, and `run` is the run that has the turn in
`runs.ts`. `missed` is a history variable: it says that one of two gaps, below,
may have hidden a change.

### The services (`MCServices`)

Each keeps the state of one mutex or a few rows, and the goroutines or handlers
that meet over it are indexed by a constant (`Recorder`, `Goroutine`, `Request`,
`Spender`, `Browser`, ...). A handler that reads, works and writes is split where
another may come between: `pc` says which statement is next.

- `ConnDrain`: `phase` is where `Server.Serve` is; a connection is new, idle, read,
  handled, closing or closed as net/http has it, and `silent`, `writing` and `told` say
  what its client does. `LetGo` is the release or the stop, `Shut` the `Shutdown`.
- `Availability`: `rec[r]` is what leads to a `Record` call (a refusal the relay has
  reported to the pool, a check), then that call between its row, its mutex and its
  switch; `op` the operator's own switch between its statements.
- `QuotaWriter`: reports are numbered as they come; the row has the number of the one it
  holds and who wrote it, and `written` is the last note that was.
- `Limits`: buckets count in exact fractions of a token; rows are dated
  when their request began and written when it ends.
- `Recordings`: `inMemory`, `queue`, `stored` and `chunks`; `FindMissing` and
  `PutExchange` are the writer's look and its transaction, `DropStored` and
  `SweepChunks` an operator's or the pruner's.
- `Titles`: `title.by` is who wrote the row; a titler's `read` is the row it read,
  which its write may find changed.
- `ClientNames`: `calls[h]` is a page's or an agent's call between its read (`PageAsks`,
  `ToolCalled`), its `Check` and its `Write`; `made` counts the agents' changes, `onFile`
  and `unfiled` those `Record` wrote and those it did not (no history kept, a failed or
  late write).
- `Operator`: every derivation of a password queues (`Queued`, `Derived`); passwords
  are numbers, and a session is the number it was opened with.
- `Meters`: a body is a sequence of cells, and chunks are cut between any two; a figure
  a usage object leaves out is none there, which each vendor's reader takes its own way.
- `UsageLog`: `screen` is what a walk, a report or a list has read so far; rows come
  (`RecordUsage`) and go (`PruneHistory`) between its queries.
- `SignIn`: `codes` are attempts and what their provider knows of them, `tabs` the
  handlers; a grant is at the provider, in a row, or in a handler's hands. The store's
  reads and writes may fail; a row remembers (`looked`) whether it was looked for first.
- `Transcript`: rows of a session's threads, and the cache of counts; a page's window
  is compared with the whole read from nothing.

### What clients meet (`MCSurface`)

- `ClientSetup`: `secret` is the key's, a number; `links` what each link carries; a
  handler's `pc` is its next statement, and `lost` the steps a race has hidden.
- `ModelLists`: `reads[r]` is a read of the lists with the accounts it found as it
  began; `remembered` what routes are drawn from.
- `ModelRoutes`: the lists as they were read, and the switches as they are; the
  operators are the functions of `route.go`, `family.go` and `available.go`.
- `MessagesAnswer`: the converter's state and one upstream event
  a step, cut anywhere; Codex's and Gemini's streams are folds over what was said.
- `NextTurn`, `ClaudeTurns`: the turns as the two sides really spoke them (`history`
  and `ledTo`; `spoken`), beside what the client kept of them, from which each turn's
  request (`sent`; `posted`) is rebuilt.
- `AnswerSinks`, `Passes`: pieces of an answer, tokens of a text and
  parts of a body, each with the places where the code must tell them apart.
- `Inference`: a request's place in the handler, the operator's changes between, the
  row it leaves.
- `Uptime`: time in halves of a minute, so that stops, crashes and samples fall
  anywhere in it; `was` is what the gateway really was, and the page is held to it.
- `Notices`, `Subscriptions`, `Refusals`, the vendor's part of `ModelLists`: the state, or what the vendor
  says, changes freely, and what is worked out of it is held to it.

## What the runs check

Every run but those marked *violation* ends with no error.

| run | instance | shows |
|---|---|---|
| `token_handover` | two goroutines in one worker, one in another; reconnect; 2 answers | `OneAtATime`, `OkIsReplaced`, `Custody` |
| `token_rotation` | one goroutine in each of two workers; 4 answers | `NeverSpent`, `DeadIsRefused`, `NeverOlder`, and the refinement `KeepsCustody` |
| `token_unlocked` | two goroutines, one worker, the lock file unusable; reconnect and delete; 2 answers; fair | `Answered` (liveness) |
| `token_reconnect_race` | *violation*: a refresh and a reconnect | `DeadIsRefused` fails |
| `pool` | two accounts, in three scenes: two requests of a conversation with pauses; one at a time over accounts that fail up to their longest wait, fill up and are reconnected; one at a time for a family of two models, with availability | `InFlightTrue`, `NotAskedAgain`, `RetryIsHonest`, `WaitsAreBounded`, `HealthyFirst` |
| `handover` | two reloads, four workers, two schema versions, one crash; fair | `AlwaysAccepting`, `OnlyOneServes`, `OutageTrue`, `NoMigrationUnderServing`, and `StopsEnd` (liveness) |
| `handover_migration` | *violation*: the same, with no crash | `MigratesAlone` fails |
| `live_screens` | two topics, a channel of one notice, another reader, one event; fair | `FreshAnswer`, `NothingLost`, and `CatchesUp` (liveness) |
| `services` | fourteen services, one to a behaviour | the twelve properties below |
| `quota_row_goes_back` | *violation*: `services` | `RowNeverGoesBack` fails |
| `surface` | thirteen modules in fifteen parts, one to a behaviour | the seven properties below |
| `rebound_reasoning` | *violation*: `surface` | `OwnReasoningOnly` fails |

`services` and `surface` play one part to a behaviour (`part`), side by
side in one run because the parts share no variable: their states add up, they do
not multiply. What a part does not play stays where it began, at one fixed
beginning, so that the others' initial states do not multiply either. Each has a
`VIEW` that leaves the parts not played out of a state, and that tells those who do
the same things - a key's handlers, browsers, tabs - apart only by how many do what,
which is all their modules do with them, and leaves out a history that no property asks
about any more.

| property | of | says |
|---|---|---|
| `DrainSound` | `ConnDrain` | no request read is dropped by a stop, no connection is closed under a client's pen by a release, and a drain waits for what is open |
| `AvailabilitySound` | `Availability` | a model held off an account is known to fail and one known to fail is held until its next check, whatever order results came in, unless the relay has set the hold anew for a refusal not recorded; and no switch moves unearned |
| `EndsAtNewest` | `QuotaWriter` | notes are written by one goroutine at a time, in order, and the newest of them is; the row says the last that was written until a poll writes there |
| `LimitsKept` | `Limits` | a key is let in no more than its burst and its rate allow over any span, the gateway's own requests included, and one burst more for every time the sweeper has forgotten it half refilled, which is not twice within the idle time; the gateway never takes the client's last token; what is shown under way is |
| `FigureIsHonest` | `Limits` | a request let in had spent less than its budget by a figure no older than the code allows; the preview of a limit over what was asked says what the limit did |
| `RecordingsSound` | `Recordings` | the file's references and chunks, the budget of memory and queue, and what was cleared stays so |
| `TitlesKeepTheirPlace` | `Titles` | no writer of a title takes another's place by mistake |
| `NamesSound` | `ClientNames` | a name means one thing; an agent's change was allowed, and is recorded once, if history is kept and the write succeeds |
| `AnsweredRight`, `FairBlame`, `NeverKeptWaiting` | `RelayAttempts` | a client is never answered twice, is answered unless its request's context had ended (it hung up, or the gateway's time for it ran out), and in the upstream's words; the pool is told the truth; waits are those of the code |
| `ConsoleSound` | `Operator`, `Meters`, `UsageLog`, `SignIn`, `Transcript` | one claim to the gateway and no session past its password; the figures an answer states, however it is cut; walks that show every row once and reports that add up; a grant only in its own account's row, and one row of each account that could be looked for; windows that agree with the whole |
| `RoutesSound`, `ListsSound` | `ModelRoutes`, `ModelLists` | what is offered is routed and nothing listed is out of reach; no list is lost by a failed or late read |
| `SetupSound` | `ClientSetup` | no link carries a dead secret, and a client is set up with the key it has |
| `NextTurnKept` | `NextTurn` | reasoning in its place, calls signed and under names that come back |
| `AnswersSound` | `MessagesAnswer`, `Passes`, `AnswerSinks`, `Refusals` | an answer is whole or says it is not, and renamed where it should be; a refusal holds back what it is about |
| `RequestsSound` | `Passes`, `Inference`, `ClaudeTurns`, `ModelLists` | a body accepted and otherwise unaltered; a row true to the last attempt; the conversation as it was said; a list in the vendor's order |
| `PagesSound` | `Uptime`, `Notices`, `Subscriptions` | stops and crashes are shown, to the unit; no trouble is silent; room as the vendor told it |

### Why the bounds are enough

- **Tokens.** Two goroutines in a process are what a single flight can get
  wrong, and a third in another process what the lock can. Two answers show a
  token spent and replaced; four let an old reader meet two generations.
- **Pool.** Two accounts give a choice, a failover and nowhere left to go; two
  attempts let a request move or stay. A backoff of one, two and three ticks, and
  providers that say two or five of which four are believed, at a clock of two:
  accounts come back at different moments, for the backoff and for what was said,
  in either order, and each wait and its cap is met.
- **Relay.** Three attempts on two accounts let a request fail over, come back
  after a repaired 401, and run out. The keepalive, the pause limit and the
  deadline keep the code's order, 1:2:4, and a limit of three content events
  is reached before, between and after them.
- **Handover.** Four workers are a first one, its replacement, one that could
  not run beside it, and the one the fallback starts; the second reload may then
  meet the first one's old worker still draining. One crash hits any process at
  any step.
- **Services.** Two of whatever meets - requests, recorders, exchanges, handlers -
  at a clock long enough for a period, a window or a hold to end: two to four
  ticks. A queue, a cache and a budget of one are full at once. One page and one
  agent edit two names; two browsers and a shell share one admin account and one
  place at the derivation; two sign-ins meet in two tabs; three rows, written a
  tick late or on time, fill pages of one. A body of at most a few dozen cells
  holds each event, a line longer than is held and a split key.
- **Surface.** Two handlers and an agent's link over two secrets. One account of
  each of two vendors for the lists, three accounts for the routes. Answers of two
  items, cut after any event. Three turns, of which any may be rebound: the
  reasoning kept for one may be sought in the next, and the store holds two. A
  key's page, a link and a rotation are three steps each; a behaviour ends after a
  rotation that was cut short (`SetupNext`). Two requests meet over images only,
  so that one of any two always has some to fit (`OneFits`). Twelve halves of a
  minute hold a stop, a crash longer than the tolerance, and what follows.
- **Screens.** One write to each of two topics over a channel of one notice is
  enough to fall behind; the second topic changes while an answer to the first is
  computed. One event is a drop, a failed read, a read by another, a hiding or a
  reload. A refused stream is not bounded.

`CHECK_DEADLOCK FALSE` is set where the modelled part may rest: no tab has
anything to do once nobody writes.

### Fairness

`token_unlocked`: each goroutine's own next step (`Work`) is weakly fair: a
goroutine that can run does, and every wait in it has a deadline in the code.
`handover`: the supervisor's and each worker's own steps; crashes, signals and
reloads are not. `live_screens`: goroutines, timers and the panel's own steps are
weakly fair; the entry's mutex is strongly fair for those who wait for it, as a
Go mutex lets a starving waiter in; and a stream the tab keeps asking for is not
refused for ever. Nobody has to write, ask, hide a tab or show it again.

## What is proved

The theorems hold for any number of workers, goroutines, answers, accounts,
requests, attempts, reloads and crashes, and for any values of the constants that satisfy the
modules' named assumptions: that bounds are natural numbers, counts and periods not
zero, requests at once finitely many, and the relay's times whole ticks; that "no thread", "no account" and "no status" are none of the
values they stand apart from; in the pool, that every kind of failure has a
backoff no longer than the longest wait believed; of a budget, that costs are natural
numbers and that a figure stays good for some time, and for less than the window it is
of; of a client's names, that its callers are finitely many, and that the slots of a client's type
start with names of their own and ids never drawn; of signing in, that a provider tells
people apart, by its id or their address, and that the store begins with a row of each
at most, which names its owner; of a request, that caps and limits are natural numbers, and
that a model, a family and "none" are told apart; of the request log, that a page has
a row, a menu is kept for some time, and what a row counts are natural numbers; and of models, that they are finitely many,
that newer orders them, and that a family's versions are listed by the provider the family is of.

**SecretsProofs.** Where the lock file can be taken, `NeverSpent` and
`Custody`: no exchange presents a spent token, and a stored one that is spent is
about to be replaced. Neither is inductive as it stands. Two facts say who may be
working: `OnRecord`, each process's record names the only goroutine that leads, and
`Locked`, whoever is past the file lock holds it. On top of them `OneWorks` says what
each step of that work has in hand: no token is used that the endpoint has yet to
issue (`KnownTokens`); what a refresh is about to store is not spent, be it the
answer's token or the one the answer left good (`GoodAnswers`); and a reconnect's
grant is nobody else's until it is stored (`GrantsApart`). `OkIsReplaced` holds with or
without the lock: every answer is stored once (`StoredOnce`), and what was found due
is due until it is replaced (`DueIsReplaced`). `DeadIsRefused` and `NeverOlder` are
proved for accounts nobody reconnects, and the assumption is needed: a reconnect
writes the row under no lock, with a grant as old as its consent, which is what
`token_reconnect_race` shows. Then what a refresh has in hand is the row's own
(`OneWriter`). With no delete either, `KeepsCustody`: the initial states are those of
`TokenCustody`, and every step is one of its steps or leaves its state alone
(`InCustody` says what the stored token and the answer in hand are to each other).

`SetupSound` looks as if it spoke of three flags, and is inductive only with what the
handlers under way have in hand (`SetupStands`): a link's command carries a secret that
works, or whoever changed the key has yet to forget it (`CommandStands`); whoever is
about to set the client up came with the secret it has (`SetterStands`); and a use that
has been written has set it up, or its handler is about to (`UseStands`).

**AccountPoolProofs.** `TypeHolds`, `InFlightHolds`, `NotAskedAgainHolds`,
`HealthyFirstHolds`, `WaitsAreBoundedHolds`. The inductive invariant is
`Inv == TypeOK /\ Placed /\ InFlightTrue`. `Placed` says what each place in `Acquire`
and `Do` implies of the request's candidates, choice and lease: from the list
on, the accounts it may be given exclude those it has given up on. A wait is
weighed against a history of the latest moment each provider named (`told`). The counts
need the finiteness of the requests and what adding one to a set, or taking one
away, does to its cardinality. `HealthyFirst` is a property of steps and needs the
existence of the choices `PickFor` makes: the first of the free accounts in order,
and the soonest back of those that are not, which are minima over finite sets of
naturals (`Least`), and what the order of versions puts first (`FirstIsOne`,
`BestServes`, `PickIsHealthiest`). `RetryIsHonest` is a property of the operators: the
wait is the least of the moments at which an account's cooldown, its hold on the
model and its window are all over, whatever the three are (`Honest`).

`InferenceSound`, a request from its key to its row, speaks of those that have ended;
`InferenceKept` carries it from the key on. The body stays as it came until it is known
what serves it, and is fitted there and then (`Fitted`), so that whatever was sent was
(`AllRight`); the version leased last is the one sent to last (`SentTo`), and the row names
it (`InTheLog`). While nobody has turned anything since the request came, its key, its
route and each model it was sent to are the operator's word of that moment (`Unturned`):
what it was allowed by is read once, at its own step, and each later step relies on the
earlier. And a count that is held is held by a request that will give it back
(`CountedWhile`).

**GatewayProofs.** `LimitsKept`, for any requests at once, any count and period and any
patience of the sweeper's. `WithinRate`, over
every span of time there has been, is carried by what it leaves for the next to come:
since any tick, what was let in and what the bucket now holds (`Level`) make up at most
the bursts and what that time has brought (`Rated`). A taking moves a token from one
side to the other (`WithinTick`, `TakesOne`), a tick brings a count at most (`TickBrings`,
`NextTickRates`), and a sweep that drops a bucket short of full adds a burst to both
(`SweepRates`). `DropsApart` holds because whoever has a bucket has come since it was
last dropped (`SinceDrop`). Of a key whose period is no longer than the sweeper's
patience and a tick, an idle bucket is full (`IdleIsFull`), and nothing is ever given
away (`NothingGivenAwayHolds`). `NeverRobbed` holds as long as the gateway, the last to be
let in, leaves a token. The requests under way are the cardinality of a set, as are
those let in.

`FigureIsHonest` speaks of a sum over a set of rows and of the replay of a history, both
folds of the community modules. What a fold comes to is by induction over data; here,
too, it is shown by least counterexamples: a fold over a finite set exists
(`FoldRuns`), and two that agree wherever they do with one element less agree
(`FoldsAgree`). From that, a sum is the same whichever row is taken first
(`SumWithout`), no less than that of fewer rows, and grows by a new row's cost
(`SumOfFewer`, `SumWith`, `SumSwapped`); and the replay of a history with one more use is one
more use of the bucket (`ReplayGoesOn`). The invariant of the budget (`BudgetStands`)
holds every figure to the log, the key's and those read and not yet stored: it has seen
what was written before it was asked for, and was kept up with what was credited
since, or knows what it missed. That of the preview (`ReplayStands`): while the gateway
has made no request of its own and the sweeper has dropped nothing short of full, the
replayed bucket and the one the sweeper has dropped and
the client's requests have made again cannot be told apart, from now on, by anyone
(`AsFull`, `UsedAlike`, `SweptAlike`).

The invariants of the relay that `services` checks, too, along four
inductive invariants that touch separate variables and so are proved one by one.
`Clocks`: the ticks a hold has lasted and those it has left make up its timeout,
which gives `HoldBounded` and `NotSilent`. `Told`: nothing is said and no status
settled until an attempt is relayed or `Do` gives up, and the last attempt never
gives way without a refusal or an error, which gives `AnsweredOnce` and
`UpstreamsWords`. `Course`: the attempt under way is the last that was made; with
the other two it gives the types. `Fair`, on top of `Told` and `Course`, says what
each place in `Do` implies of the attempt under way - that its account has not been
passed over, that a token being refreshed has had no 401 before in this request -
and gives `FairBlame`.

**HandoverProofs.** `AlwaysAccepting`, `OnlyOneServes`, `NoMigrationUnderServing` and
`OutageTrue`, for any number of reloads, faults and schema versions. The inductive invariant has three parts beside the types. `Processes`: a worker that
has said it is ready serves, or has; one that drains has been released or told to
stop, or its supervisor has died; only a worker that was ready is released.
`Roles`: the current worker has been ready; and until a stop, neither it nor the
one waited for has been told anything, outside a fallback, and every other that
could still come to serve has been released. `Lone`: one that is to open the
database alone is the only one that will stay. All a worker does by itself, its
crash included, is one relation (`Moves`), so that the invariant is carried once
over the eight actions of workers, and one by one over those of the supervisor.

`OutageTrue` needs more (`Uptime`): who may have been told to go by then (`Told`); that a
recorded stop has ended before its worker is ready (`Recorded`); and that with no
crash a ready worker serves until it is told otherwise, and the last to go leaves a
stop on record (`Serving`).

**LiveScreensProofs.** `FreshAnswer` and `NothingLost`, for any topics, writes, readers
and size of channel. `Written` orders what the hub, the rows and the reads have: no
topic is announced, tagged or shown further than it was marked, nor marked further
than it was written. `Answers` says the same of the entry under its mutex, and gives
`FreshAnswer`: an answer is tagged with versions read before its queries.
`NothingLost` rests on `Carried`: a topic the screen is behind on has word of it on its
way (`Word`) - announced later, in the channel, owed as a resync, gathered, or to be
read by the run that has the turn. The channel holds what was announced and not yet
taken (`Channel`), the tab's flags say what it will do (`Flags`), and turns are taken
once (`Turns`). That `flush` announces every topic that is due, in order, is what a loop
over a slice computes (`LoopProofs`): as induction over data is out of reach, it is
shown by the least step at which it could first go wrong (`LeastNumber`, `LoopRuns`,
`LoopPicks`).
`UsageLogSound`, the request log's part of `ConsoleSound`: what each open screen has read
so far stands over every row that is recorded late or pruned. A walk has shown, of the
rows that were there as it began and still are, all but those after its cursor
(`WalkStands`); a report's figures are those of the rows there when it was queried
(`ReportStands`), and a list of chats with what is in none, too, until something comes or
goes between two reads (`ChatsStand`); the menus lack only keys recorded since they were
read (`MenuStands`). Under it lies what a query makes of a set of rows: an order is one,
of everything, once (`Sorted`, `SortedWhole`), so that a page is cut where it is full
(`PageIs`) and the median has half of them on either side at most (`MedianIs`); and a
sum over a set, which the model takes in whatever order `CHOOSE` finds, is the same in
any (`SumTakesAny`) and class by class (`ClassesSum`), so that buckets add up
(`BucketsAddUp`).

**ServicesProofs.** `EndsAtNewest`: one goroutine writes (`OneWrites`), what waits is
newer than what it holds, and that than what was written (`Waits`, `Holds`), so that
when it is done the newest stands (`Settled`); and the row is of the last note written
unless a poll came after (`OfTheLast`). `DrainSound`: the two counts are the
cardinalities of two sets of connections (`Counted`), which every step changes by the
connection it is about; a connection cut under the pen was served, or silent, or past
a deadline (`Pen`). `RecordingsSound`: where each exchange is - in memory, queued, being
written, stored, cleared - excludes the other places (`Place`), and a chunk a recording
refers to is there, or was swept under the writer's look (`Chunked`); `Clear` is a loop
of the same kind as `flush`. `ListsSound`: `RoutesAreListed` is inductive beside the types of what is
remembered, and a step that ends a read is shown to keep, or take over, the list of
every account that has given one (`NotDropped`).
`RoutesSound` is for the most part about the operators: a finite set of models has a
newest (`SomeNewest`), a family that is served is routed to its best version an account
can take (`BestIsThere`, `FamilyIsServed`), and whatever is offered is within one of them
or routed as itself (`OfferedRouted`, `RefusedWhenNone`, `NothingLost`); its invariant is
that what is remembered of a provider's models was in some account's list.
`MarksFollow`, the marks' part of `PagesSound`: a mark whose notice has not been gone
since is in the list as it stands and in every list a screen is still to finish with
(`MarkStands`), so that no read forgets it, and one forgotten was gone first.

**RowsProofs.** Rows with several writers that hold nothing over each other.
`AvailabilitySound`: a result is of the tick it is applied in (`Dated`), what is known
to fail is held, or a failure that will hold it is under way, or the relay's own report
came last (`Routed`), and a failure
that lasts began no earlier than the last lapse (`Lasting`): `SwitchedBackOn` and
`HeldTillItsCheck`, which one would like as well, are false. `TitlesKeepTheirPlace`: a run that nobody has raced has
read the row as it is, and has found a rename due (`Naming`); a row says who wrote it
(`Signed`); and with two messages of the user's in a body the opening exchange ends
before the second (`OpeningEnds`). `OperatorSound`, the operator's part of
`ConsoleSound`: a password there is none of has been claimed by nobody (`Claimed`), a
link that can still be spent never was (`Unspent`), and places at the derivation are
taken one by one (`Gated`). `NamesSound`: no two of a client's slots come to have one
name, and its type's own stay, through every edit (`SlotsApart`), and the agents'
changes are those on file, those `Record` did not write, and those about to be given
to it (`OnRecord`, a sum of two numbers and a
cardinality that each step moves by one). `SignInSound`, the sign-ins' part of
`ConsoleSound`: a row names whom it was added for (`NamesOwner`) and its grant is theirs,
one row each, but for those added when looking for one failed (`looked`); a handler that found no row still looks for one as it writes, so one added
since is the one it renews (`TabsStand`); each grant that stands is in a row, in some
handler's hand or lost to a fault (`AllInHand`); and a device's code handed over is out of
its attempt (`DeviceHeld`).

Only model-checked:

- The answers' parts of `ConsoleSound` (`MetersSound`, `TranscriptSound`),
  `RequestsSound`, `PagesSound` but for `MarksFollow`, and `AnswersSound` and
  `NextTurnKept`: most are about translations of a conversation, a body or a list, or
  about what a page works out of a history, whose result for every input is an
  induction over data.
- The liveness properties `Answered`, `StopsEnd` and `CatchesUp`, and whatever needs
  `ENABLED`: beyond the proof system with the back ends used here.

## Where the code and what it says of itself part

Four runs find a property the repository states of the program violated by what
the code does. Each is quoted, with its line, in `PROJECT.json`.

1. `token_reconnect_race`. A refusal is recorded by account id
   (`Store.MarkRefreshDead`), whatever token the row holds by then: a refresh of
   the old grant that is refused just after the operator reconnected the account
   marks the new grant dead.
2. `handover_migration`. A reload that falls back to a restart waits for the
   current worker only. A worker released by an earlier reload may still be
   draining, with the database open, when the new one migrates it.
3. `rebound_reasoning`. The reasoning the gateway keeps itself does not say whose
   it is: a slot rebound from Gemini to GPT sends the one's signature to the other.
4. `quota_row_goes_back`. `NoteQuota` says its row "never goes back"; `Poller.Refresh`
   writes the same row with what it fetched before an answer said more, and after that
   answer's figures were written.

The following were met while modelling. Those with a name are stated in their
module, beside the properties, and TLC finds them violated when they are put in
place of the run's own.

*Relay, screens, pool.*
- When (in `RelayAttempts`) a keepalive has sent a stream's status and
  the pool has no further account, `Do` replays the refusal as a status and a
  JSON body into the event stream.
- `ShowsWhatItMissed` (`LiveScreens`): a background read is turned away while any
  run of the panel is in flight, and only a tick of `useOnChange` remembers to go
  round again; and a tab that closes its stream itself, hidden or with other
  topics, opens it again without reading what changed meanwhile. `NothingLost` and
  `CatchesUp` are checked outside these two gaps, which `missed` marks.
- `ReportFailureUntil` sets the cooldown from the failure it is told of, so a
  network error of a request in flight cuts short a reset an earlier refusal had
  set hours ahead.

*Services.*
- `SwitchedBackOn` (`Availability`): a failure's switch-off may land after a success
  has run its switch-on; the model is off, not failing, and nothing rechecks it.
- `HeldTillItsCheck` (`Availability`): the relay's `ReportModelFailureUntil` writes the
  first step of backoff, or the upstream's reset, over the hold of a model that failed
  a moment ago, and `Refused`, within a minute of that failure, records nothing that
  would renew it: the account takes the model again long before its check, where
  `Record`'s comment says it is held until then.
- `AnsweredWhileThere` (`RelayAttempts`): when the gateway's own `Timeout` for a request
  runs out before an answer, `Do` and then `relayFailure` find the context ended and take it
  for a hang-up ("The caller hung up; there is nobody left to answer"): a client that is
  still connected is told nothing, which net/http sends as an empty 200. `AnsweredOnce`
  excepts it, by name.
- `NeverLate` (`Limits`): spend added between the query and the write of its result
  is missing from the figure until the next read.
- `NothingGivenAway` (`Limits`): the sweep drops a bucket idle for ten minutes, so a key
  allowed so many a week that has run dry starts full after ten quiet minutes
  (`docs/admin.md` says it "runs dry"). The instance's period is longer than its idle
  time, so that this happens; `LimitsKept` counts what it gives away, and
  `NothingGivenAway` is proved of the keys whose period is no longer than the idle time.
- `ChunksAllThere` (`Recordings`): a sweep between the writer's look and its
  transaction deletes a chunk the recording then refers to.
- `ManualStays` (`Titles`): `RetitleChat` writes over a title the operator typed while
  the model was being asked.
- An agent's change is made before it is recorded, and `Record` tells nobody that it
  wrote nothing: with no history kept, or a write that failed or ran late, the change
  is on no record. `OnRecord` counts those apart (`unfiled`).
- `RenameKeepsBinding` (`ClientNames`): a page's rename sends back the binding it read,
  over one the agent has made since. An agent's call also outlives the switch that
  let it in, until its check.
- `EveryCommandWorks`, `SetUpMeansIt` (`ClientSetup`): a link made with the old key in
  hand while it was rotated carries a dead secret, and a use of the old key, noted
  late, marks the new one set up.
- `passwd -if-unset` looks and then upserts, over an account set up meanwhile; a
  changed password's upsert brings back an account deleted meanwhile.
- A failure to look for the account a sign-in is of is taken for there being none
  (`AccountByIdentity`'s error goes on to the upsert): an account stored under an older
  address, or with no id of its provider's, gets a second row. `OneRowEach` excepts
  the rows added so.
- A sign-in whose write fails, or a reconnect whose account cannot be read, answers 500
  without handing its grant back, which
  `handBack`'s comment says is done: `astray` has it. OpenAI's exchange that names no account drops
  its grant where Google's revokes it. A renewal whose answer has no address
  writes `unknown@...` over the stored one. A lost answer of the device endpoint
  leaves a spent attempt pending.
- `durationPercentile` floors: the "median" of three is the smallest; and a prune
  between its count and its query makes it 0. A row recorded after its key was
  deleted and `PruneNames` ran has no name.
- A turn retried after an answer the client dropped shows as "restarted", and a
  message edited after a failed turn is not shown. The chart's falls and the
  list's agree only within `ChatEvents`' limit.

*Models and dialects.*
- `ReadAgain` (`ModelLists`): an operator's fresh read of one account postpones the
  next refresh of all.
- `OfferedWhereListed` (`ModelRoutes`): a model is offered because some account of
  its provider lists it and some account has it on, which need not be the same
  one, against the rule above `available` (`service/models/available.go`).
- `OffIsRefused` (`ModelRoutes`): a model that every account listing it has off is
  taken for unlisted, and goes to the default provider.
- `EveryThoughtCarried` (`MessagesAnswer`): of two thinking blocks in a row, the
  Gemini surface carries the second's signature only.
- On the Gemini surface, two user contents in a row put text before a later tool
  result. A Claude block in a `thoughtSignature` goes to Google as it is once the
  name is rebound. A plain Codex tool declared after a namespace's of its name is
  dropped, and `tool_choice` names a namespaced tool by its bare name.
- `nativeSink` writes a gathered answer cut before its finish as a 200, as if whole.

*Bytes.*
- The gates of the empty-text passes look for compact JSON, so a spaced body
  passes them by. `attribution.go` says Claude Code's own traffic is never
  rewritten; it is when its first block is a billing header. `NameRestorer` also
  renames a `"name"` inside the input of a non-streamed tool call.
- A sniffed stream whose first chunk begins with spaces loses its first line;
  Anthropic's meter drops what it holds when a chunk would pass its limit, and
  reads the rest as a line.

*Pages and plans.*
- A recorded stop longer than the tolerance also draws as down the up to a minute
  before it (`overlay` says exactly as long as it lasted); a page read between a start
  after a crash and its first sample shows an ongoing stop, for a minute; the
  prune at start takes the slack before the window the report reads.
- A problem that goes and comes back with no page read in between stays marked
  read, against "starting again is news"; a mark made between a page's working-out
  and its `ForgetNoticesRead` can be lost. An account refused with no full window
  has no notice until no account can serve.
- Anthropic's rows are shown with the vendor's own mark of which is active, whatever the
  figures say, and with no length: what `RowsTell` says of the row that binds, and
  `LengthsHold`, are of the other two.
- A read of OpenAI's headers drops the additional limits until the next poll. A
  week-long Google window with under five hours left reads as five hours, as its
  code says.
- No row is written for a body that cannot be decoded nor for a refusal over
  budget. A panic leaves a request in "running now", whose `done` is not deferred.

## Not modelled, and why

- **Content.** Sampling parameters, schemas, descriptions, prices, the wording of
  prompts, scripts and configuration files, token counts: functions of one
  request or file, whose outcome nothing else waits on, pinned by recorded
  fixtures better than a model could.
- **Reads.** Overviews, charts, exports' formats, listings and the agent's reading
  tools show rows; the three that several steps can disagree about - walks of the
  log, reports of several queries, transcripts over a cache - are modelled.
- **Single writes.** Settings, switches, renamings of accounts and the like are one
  statement.
- **The runtime.** Memory limits, logging, embedded files, TLS, backup and restore
  with the service stopped, installers and the web UI but for its streams and
  panels.
- **Timers.** The poller's schedule and backoff, and the sizes of caches beyond "one
  too many", are abstracted to "at any time".

TLC's bounds, above, and the proofs' assumptions are the limits of what is checked.

## What is left of the plan

- Proofs: the reports' and the subscriptions' parts of `PagesSound`.
- Liveness of the services: a drain that ends, a note that is written in the end, a
  refresh of the lists that comes round, under the fairness of their goroutines.
- Compositions: `Inference` over `Limits` and `RelayAttempts`, which are
  modelled apart and meet in what one passes the other; `Subscriptions` and
  `Refusals` into `AccountPool`.

