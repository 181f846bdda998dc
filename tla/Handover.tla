------------------------------ MODULE Handover ------------------------------
(***************************************************************************)
(* The supervisor of internal/handover and the workers it starts: the      *)
(* protocol by which `serve` replaces its own binary on SIGHUP.  The       *)
(* supervisor's steps are those of Supervisor.Run, reload, restart and     *)
(* stopAll; a worker's are those of serveWorker and Server.Serve: open the *)
(* database, serve, say it is ready, and let go on a stop or a release.    *)
(* Workers are numbered in the order they are started.                     *)
(*                                                                         *)
(* The environment asks for reloads and for a stop, installs a binary of   *)
(* another release, edits the listeners in the config, and crashes         *)
(* processes.  A pipe, a signal and an exit status reach the other side    *)
(* when it next looks, in any order.                                       *)
(***************************************************************************)
EXTENDS Naturals, FiniteSets

CONSTANTS
    MaxWorkers,     \* bound: how many workers are ever started
    MaxReloads,     \* bound: how many reloads are asked for
    MaxFaults,      \* bound: how many processes crash
    Schemas         \* the schema versions releases serve

ASSUME HandoverAssumption ==
    /\ MaxWorkers \in Nat \ {0} /\ MaxReloads \in Nat /\ MaxFaults \in Nat
    /\ Schemas \subseteq Nat /\ Schemas # {}

VARIABLES
    sup,        \* where Run is
    cur,        \* Supervisor.cur, 0 before there is one
    new,        \* the worker awaitReady waits for
    result,     \* what Run returned: "nil" or "error"
    stop,       \* ctx is done: SIGTERM to the supervisor
    reload,     \* a value on the reload channel
    worker,     \* each worker's process
    schema,     \* the database's schema version
    outage,     \* uptime_outages: a stop is recorded and not ended
    binary,     \* the schema version of the binary at Path
    edited,     \* the config on disk names other listeners
    reloads,    \* bound: reloads asked for
    faults      \* bound: processes crashed

vars == <<sup, cur, new, result, stop, reload, worker, schema, outage, binary,
          edited, reloads, faults>>
env  == <<binary, edited, reloads, faults>>
db   == <<schema, outage>>

Workers == 1..MaxWorkers
Modes   == {"alone", "beside"}
Live    == {"starting", "open", "serving", "draining"}
HasDB   == {"open", "serving", "draining"}
Codes   == {"ok", "beside", "listeners", "failed"}  \* 0, ExitBeside, ExitListeners, another
Phases  == {"boot", "run", "await", "old", "alone", "stopping", "ended", "crashed"}

Unborn == [state |-> "unborn", mode |-> "alone", build |-> 0, ready |-> FALSE,
           released |-> FALSE, ctx |-> FALSE, code |-> "ok"]

Born(p) == worker[p].state # "unborn"
Is(p, states) == worker[p].state \in states
Exit(p, code) == [worker EXCEPT ![p].state = "exited", ![p].code = code]
Set(p, s) == [worker EXCEPT ![p].state = s]
Fresh == CHOOSE p \in Workers : ~Born(p) /\ \A q \in 1..(p - 1) : Born(q)
MoreWorkers == \E p \in Workers : ~Born(p)

\* SIGTERM to a set of processes: a worker's ctx is done.
Terminated(ps) ==
    [p \in Workers |-> IF p \in ps THEN [worker[p] EXCEPT !.ctx = TRUE] ELSE worker[p]]

\* start: the binary on disk, with the sockets and the two pipes.
Started(mode) ==
    [worker EXCEPT ![Fresh] = [Unborn EXCEPT !.state = "starting", !.mode = mode, !.build = binary]]

Init ==
    /\ schema \in Schemas /\ binary \in {b \in Schemas : b >= schema}
    /\ sup = "boot" /\ cur = 0 /\ new = 1 /\ result = "none"
    /\ worker = [p \in Workers |->
         IF p = 1 THEN [Unborn EXCEPT !.state = "starting", !.build = binary] ELSE Unborn]
    /\ stop = FALSE /\ reload = FALSE /\ outage \in BOOLEAN
    /\ edited = FALSE /\ reloads = 0 /\ faults = 0

---------------------------------------------------------------------------
\* The supervisor.

\* stopAll: the supervisor's sockets are closed, and every worker is told.
StopAll(err) ==
    /\ sup' = "stopping" /\ result' = err
    /\ worker' = Terminated({p \in Workers : Is(p, Live)})

\* What awaitReady may find: a ready line, which outlives its writer; an exit
\* without one; or ctx done.
SaidReady(p) == worker[p].ready
ExitedUnready(p) == Is(p, {"exited"}) /\ ~worker[p].ready

BootReady ==
    /\ sup = "boot" /\ SaidReady(new)
    /\ cur' = new /\ sup' = "run"
    /\ UNCHANGED <<new, result, stop, reload, worker, db, env>>

BootFails ==
    /\ sup = "boot"
    /\ \/ ExitedUnready(new) /\ StopAll(IF stop THEN "nil" ELSE "error")
       \/ stop /\ StopAll("nil")
    /\ UNCHANGED <<cur, new, stop, reload, db, env>>

\* Run's select.
RunStops ==
    /\ sup = "run"
    /\ \/ stop /\ StopAll("nil")
       \/ Is(cur, {"exited"}) /\ StopAll("error")
    /\ UNCHANGED <<cur, new, stop, reload, db, env>>

\* reload: refused for a config that names other addresses, or whose binary
\* cannot be started; else a worker beside the serving one.
ReloadRefused ==
    /\ sup = "run" /\ reload /\ reload' = FALSE
    /\ UNCHANGED <<sup, cur, new, result, stop, worker, db, env>>

ReloadStarts ==
    /\ sup = "run" /\ reload /\ reload' = FALSE
    /\ ~edited /\ MoreWorkers
    /\ new' = Fresh /\ worker' = Started("beside") /\ sup' = "await"
    /\ UNCHANGED <<cur, result, stop, db, env>>

\* Mutant: the old worker is let go as soon as the new one runs.
HandOverEarly ==
    /\ sup = "await" /\ Is(new, {"open"})
    /\ cur' = new /\ sup' = "run"
    /\ worker' = [worker EXCEPT ![cur].released = TRUE]
    /\ UNCHANGED <<new, result, stop, reload, db, env>>

HandOver ==
    /\ sup = "await" /\ SaidReady(new)
    /\ cur' = new /\ sup' = "run"
    /\ worker' = [worker EXCEPT ![cur].released = TRUE]
    /\ UNCHANGED <<new, result, stop, reload, db, env>>

\* The new worker exited, was not ready in ReadyTimeout, or the supervisor is
\* being stopped (then Run's select is next).
AwaitStopped ==
    /\ sup = "await" /\ stop /\ sup' = "run"
    /\ UNCHANGED <<cur, new, result, stop, reload, worker, db, env>>

\* The fallback of reload: stop the old worker, then start the new one alone.
AwaitFallsBack ==
    /\ sup = "await" /\ ~stop /\ ExitedUnready(new) /\ worker[new].code = "beside"
    /\ worker' = Terminated({cur}) /\ sup' = "old"
    /\ UNCHANGED <<cur, new, result, stop, reload, db, env>>

\* Mutant: a worker that took too long is left to itself.
AwaitLeaves ==
    /\ sup = "await" /\ ~stop
    /\ ExitedUnready(new) => worker[new].code # "beside"
    /\ sup' = "run"
    /\ UNCHANGED <<cur, new, result, stop, reload, worker, db, env>>

AwaitAbandons ==
    /\ sup = "await" /\ ~stop
    /\ ExitedUnready(new) => worker[new].code # "beside"
    /\ worker' = IF Is(new, Live) THEN Exit(new, "failed") ELSE worker
    /\ sup' = "run"
    /\ UNCHANGED <<cur, new, result, stop, reload, db, env>>

\* restart.
OldGone ==
    /\ sup = "old" /\ Is(cur, {"exited"}) /\ MoreWorkers
    /\ new' = Fresh /\ worker' = Started("alone") /\ sup' = "alone"
    /\ UNCHANGED <<cur, result, stop, reload, db, env>>

\* The binary cannot be started: nothing is left that serves.
AloneNotStarted ==
    /\ sup = "old" /\ Is(cur, {"exited"}) /\ StopAll("error")
    /\ UNCHANGED <<cur, new, stop, reload, db, env>>

RestartStopped ==
    /\ sup \in {"old", "alone"} /\ stop /\ sup' = "run"
    /\ UNCHANGED <<cur, new, result, stop, reload, worker, db, env>>

AloneReady ==
    /\ sup = "alone" /\ SaidReady(new)
    /\ cur' = new /\ sup' = "run"
    /\ UNCHANGED <<new, result, stop, reload, worker, db, env>>

AloneFails ==
    /\ sup = "alone" /\ ~stop /\ ExitedUnready(new) /\ StopAll("error")
    /\ UNCHANGED <<cur, new, stop, reload, db, env>>

Ended ==
    /\ sup = "stopping" /\ \A p \in Workers : ~Is(p, Live)
    /\ sup' = "ended"
    /\ UNCHANGED <<cur, new, result, stop, reload, worker, db, env>>

---------------------------------------------------------------------------
\* A worker.  Its ctx is done by a SIGTERM, or by the control pipe's end of file
\* without a release before it (Worker.watch).

\* Mutant: the end of file is not looked at.
OrphanIgnored(p) == FALSE

Orphan(p) == sup = "crashed" /\ ~worker[p].released
CtxDone(p) == worker[p].ctx \/ Orphan(p)

\* A signal before the process has a handler for it, a ping on a ctx that is
\* done, a state directory that cannot be read.
GiveUp(p) ==
    /\ Is(p, {"starting", "open"})
    /\ worker' = Exit(p, "failed")
    /\ UNCHANGED <<sup, cur, new, result, stop, reload, db, env>>

\* Mutant: a worker beside another migrates as one alone does.
OpenMigrating(p) ==
    /\ Is(p, {"starting"})
    /\ schema' = worker[p].build /\ worker' = Set(p, "open")
    /\ UNCHANGED <<sup, cur, new, result, stop, reload, outage, env>>

\* store.Open migrates up and refuses a newer database; OpenAlongside refuses
\* any other version than its own.
Open(p) ==
    /\ Is(p, {"starting"})
    /\ \/ /\ worker[p].mode = "beside" /\ worker[p].build # schema
          /\ worker' = Exit(p, "beside") /\ UNCHANGED schema
       \/ /\ worker[p].mode = "beside" /\ worker[p].build = schema
          /\ worker' = Set(p, "open") /\ UNCHANGED schema
       \/ /\ worker[p].mode = "alone" /\ worker[p].build < schema
          /\ worker' = Exit(p, "failed") /\ UNCHANGED schema
       \/ /\ worker[p].mode = "alone" /\ worker[p].build >= schema
          /\ worker' = Set(p, "open") /\ schema' = worker[p].build
    /\ UNCHANGED <<sup, cur, new, result, stop, reload, outage, env>>

\* Server.Serve up to its accept loops: the inherited sockets must be the ones
\* the config names, and the recorded stop ends here (uptime.Started, which a
\* ctx already done keeps from writing).
Serve(p) ==
    /\ Is(p, {"open"})
    /\ \/ edited /\ worker' = Exit(p, "listeners") /\ UNCHANGED outage
       \/ /\ ~edited /\ worker' = Set(p, "serving")
          /\ outage' = (outage /\ CtxDone(p))
    /\ UNCHANGED <<sup, cur, new, result, stop, reload, schema, env>>

SayReady(p) ==
    /\ Is(p, {"serving"}) /\ ~worker[p].ready
    /\ worker' = [worker EXCEPT ![p].ready = TRUE]
    /\ UNCHANGED <<sup, cur, new, result, stop, reload, db, env>>

\* The listeners close; a stop is recorded first, a handover is no outage.
LetGoOnStop(p) ==
    /\ Is(p, {"serving"}) /\ worker[p].ready /\ CtxDone(p)
    /\ worker' = Set(p, "draining") /\ outage' = TRUE
    /\ UNCHANGED <<sup, cur, new, result, stop, reload, schema, env>>

\* Mutant: a release is taken for a stop.
LetGoAsStop(p) ==
    /\ Is(p, {"serving"}) /\ worker[p].ready /\ worker[p].released
    /\ worker' = Set(p, "draining") /\ outage' = TRUE
    /\ UNCHANGED <<sup, cur, new, result, stop, reload, schema, env>>

LetGoOnRelease(p) ==
    /\ Is(p, {"serving"}) /\ worker[p].ready /\ worker[p].released
    /\ worker' = Set(p, "draining")
    /\ UNCHANGED <<sup, cur, new, result, stop, reload, db, env>>

\* The drain is over, or its grace is.
Drained(p) ==
    /\ Is(p, {"draining"})
    /\ worker' = Exit(p, "ok")
    /\ UNCHANGED <<sup, cur, new, result, stop, reload, db, env>>

---------------------------------------------------------------------------
\* The environment.

AskStop ==
    /\ sup \notin {"ended", "crashed"} /\ ~stop /\ stop' = TRUE
    /\ UNCHANGED <<sup, cur, new, result, reload, worker, db, env>>

AskReload ==
    /\ sup \notin {"ended", "crashed"} /\ reloads < MaxReloads
    /\ reload' = TRUE /\ reloads' = reloads + 1
    /\ UNCHANGED <<sup, cur, new, result, stop, worker, db, binary, edited, faults>>

Install ==
    /\ reloads < MaxReloads
    /\ \E b \in Schemas \ {binary} : binary' = b
    /\ UNCHANGED <<sup, cur, new, result, stop, reload, worker, db, edited, reloads, faults>>

EditConfig ==
    /\ ~edited /\ edited' = TRUE
    /\ UNCHANGED <<sup, cur, new, result, stop, reload, worker, db, binary, reloads, faults>>

WorkerCrashes(p) ==
    /\ faults < MaxFaults /\ Is(p, Live)
    /\ worker' = Exit(p, "failed") /\ faults' = faults + 1
    /\ UNCHANGED <<sup, cur, new, result, stop, reload, db, binary, edited, reloads>>

SupervisorCrashes ==
    /\ faults < MaxFaults /\ sup \notin {"ended", "crashed"}
    /\ sup' = "crashed" /\ faults' = faults + 1
    /\ UNCHANGED <<cur, new, result, stop, reload, worker, db, binary, edited, reloads>>

Quiet ==
    /\ sup \in {"ended", "crashed"} /\ \A p \in Workers : ~Is(p, Live)
    /\ UNCHANGED vars

Supervisor ==
    \/ BootReady \/ BootFails \/ RunStops \/ ReloadRefused \/ ReloadStarts
    \/ HandOver \/ AwaitStopped \/ AwaitFallsBack \/ AwaitAbandons
    \/ OldGone \/ AloneNotStarted \/ RestartStopped \/ AloneReady \/ AloneFails
    \/ Ended

Work(p) ==
    \/ Open(p) \/ Serve(p) \/ SayReady(p)
    \/ LetGoOnStop(p) \/ LetGoOnRelease(p) \/ Drained(p)

Environment ==
    \/ AskStop \/ AskReload \/ Install \/ EditConfig \/ SupervisorCrashes
    \/ \E p \in Workers : GiveUp(p) \/ WorkerCrashes(p)
    \/ Quiet

Next == Supervisor \/ (\E p \in Workers : Work(p)) \/ Environment

Spec == Init /\ [][Next]_vars

\* The supervisor's loop and the workers run; a drain ends with its grace.
\* Nothing in the environment has to happen.
FairSpec ==
    /\ Spec
    /\ WF_vars(Supervisor)
    /\ \A p \in Workers : WF_vars(Work(p))

---------------------------------------------------------------------------
Process == [state : Live \cup {"unborn", "exited"}, mode : Modes,
            build : Schemas \cup {0}, ready : BOOLEAN,
            released : BOOLEAN, ctx : BOOLEAN, code : Codes]

\* Every variable holds what the code's types and the bounds allow.
TypeOK ==
    /\ sup \in Phases /\ cur \in 0..MaxWorkers /\ new \in Workers
    /\ result \in {"none", "nil", "error"}
    /\ stop \in BOOLEAN /\ reload \in BOOLEAN /\ edited \in BOOLEAN /\ outage \in BOOLEAN
    /\ worker \in [Workers -> Process]
    /\ schema \in Schemas /\ binary \in Schemas
    /\ reloads \in 0..MaxReloads /\ faults \in 0..MaxFaults
    /\ sup \notin {"boot", "stopping", "ended", "crashed"} => cur # 0 /\ Born(cur)

\* At every instant from the first ready worker to the stop, whatever becomes of
\* the reloads meanwhile, some process accepts on the sockets: the old worker is
\* let go only once the new one serves.  Not while the fallback restarts, nor
\* once the serving worker has died.
AlwaysAccepting ==
    sup \in {"run", "await"} /\ ~stop /\ ~Is(cur, {"exited"}) =>
      \E p \in Workers : Is(p, {"serving"})

\* Between reloads only the current worker takes connections for good: any other
\* that still accepts has been told to let go, an abandoned one is dead.
OnlyOneServes ==
    sup = "run" /\ ~stop =>
      \A p \in Workers \ {cur} : Is(p, {"serving"}) => worker[p].released

\* The uptime record: while the current worker serves no stop stands recorded,
\* through any number of handovers and fallbacks; and a supervisor that ended
\* with no process having crashed leaves one.
OutageTrue ==
    /\ sup = "run" /\ ~stop /\ Is(cur, {"serving"}) => ~outage
    /\ sup = "ended" /\ faults = 0 /\ cur # 0 => outage

\* The schema is never changed while a worker that is to go on serving has the
\* database open (store.OpenAlongside, the fallback of reload), unless all are
\* being stopped.
NoMigrationUnderServing ==
    [][schema' # schema /\ ~stop =>
         \A p \in Workers : Is(p, {"serving"}) => worker[p].released]_vars

\* The schema is changed only when no other worker has the database open: the
\* other would go on writing with the old one (package comment of handover,
\* comment of OpenAlongside), unless all are being stopped.
MigratesAlone ==
    [][schema' # schema /\ ~stop => \A p \in Workers : ~Is(p, HasDB)]_vars

\* A stop ends with every worker gone, whatever reload it falls into; and so
\* does the supervisor's death, or its replacement could not bind the ports.
StopsEnd == (stop \/ sup = "crashed") ~> (\A p \in Workers : ~Is(p, Live))
=============================================================================
