---------------------------- MODULE HandoverProofs ----------------------------
(***************************************************************************)
(* What Handover keeps for any number of workers, reloads, crashes and     *)
(* schema versions.                                                        *)
(***************************************************************************)
EXTENDS Handover, LoopProofs, TLAPS

---------------------------------------------------------------------------
(* The worker processes *)

Early == {"starting", "open", "serving"}

\* What a process is, is consistent: one that has said it is ready serves or has,
\* one that drains has a reason to, and one that runs was built.
Alive(p) ==
  /\ worker[p].ready => worker[p].state \in {"serving", "draining", "exited"}
  /\ worker[p].state = "draining" =>
       worker[p].released \/ worker[p].ctx \/ sup = "crashed"
  /\ worker[p].released => worker[p].ready
  /\ worker[p].state = "unborn" => worker[p] = Unborn
  /\ worker[p].state # "unborn" => worker[p].build \in Schemas

Processes == worker \in [Workers -> Process] /\ \A p \in Workers : Alive(p)

LEMMA States ==
  /\ "unborn" \notin Live /\ "exited" \notin Live
  /\ Live = {"starting", "open", "serving", "draining"}
BY DEF Live

LEMMA FreshIsUnborn ==
  ASSUME MoreWorkers
  PROVE  Fresh \in Workers /\ ~Born(Fresh)
<1> DEFINE S == {p \in Workers : ~Born(p)}
<1>1. S \in SUBSET Nat /\ S # {}
  BY HandoverAssumption DEF HandoverAssumption, MoreWorkers, Workers
<1>2. PICK p \in S : \A q \in S : p <= q
  BY <1>1, LeastNumber
<1>3. p \in Workers /\ ~Born(p) /\ p \in Nat
  BY <1>1, <1>2
<1>4. ASSUME NEW q \in 1..(p - 1) PROVE Born(q)
  <2>1. q \in Workers /\ ~(p <= q)
    BY <1>3, HandoverAssumption DEF HandoverAssumption, Workers
  <2>2. QED
    BY <1>2, <2>1
<1>5. \E f \in Workers : ~Born(f) /\ \A q \in 1..(f - 1) : Born(q)
  BY <1>3, <1>4
<1>6. QED
  BY <1>5 DEF Fresh

\* What a worker's own steps, its crash included, do to the processes: nobody
\* is told anything, nobody goes back, and nobody is born or brought back.
Moves ==
  /\ worker' \in [Workers -> Process]
  /\ \A p \in Workers :
       /\ worker'[p].released = worker[p].released /\ worker'[p].ctx = worker[p].ctx
       /\ worker'[p].mode = worker[p].mode /\ worker'[p].build = worker[p].build
       /\ worker'[p].state \in Early => worker[p].state \in Early
       /\ worker'[p].state = "starting" => worker[p].state = "starting"
       /\ worker[p].state = "exited" => worker'[p].state = "exited"
       /\ worker[p].state = "unborn" <=> worker'[p].state = "unborn"
       /\ worker[p].state = "unborn" => worker'[p] = worker[p]
       /\ worker[p].ready => worker'[p].ready
       /\ worker'[p].ready =>
            worker'[p].state \in {"serving", "exited"} \/ worker'[p].state = "draining"
       /\ worker'[p].state = "draining" =>
            \/ worker[p].state = "draining" \/ worker[p].released \/ worker[p].ctx
            \/ sup = "crashed"

LEMMA ExitMoves ==
  ASSUME Processes, NEW p \in Workers, worker[p].state \in Live, NEW c \in Codes,
         worker' = Exit(p, c)
  PROVE  Moves
<1>1. worker' \in [Workers -> Process]
  BY DEF Processes, Process, Exit
<1>2. \A q \in Workers : worker[q].state = "unborn" => worker'[q] = worker[q]
  BY States DEF Exit, Processes
<1>3. \A q \in Workers :
        /\ worker'[q].released = worker[q].released /\ worker'[q].ctx = worker[q].ctx
        /\ worker'[q].mode = worker[q].mode /\ worker'[q].build = worker[q].build
        /\ worker'[q].ready = worker[q].ready
        /\ worker'[q].state = IF q = p THEN "exited" ELSE worker[q].state
  BY DEF Exit, Processes, Process
<1>4. \A q \in Workers :
        /\ worker[q].ready => worker[q].state \in {"serving", "draining", "exited"}
        /\ worker[q].state = "unborn" => q # p
  BY States DEF Processes, Alive
<1>5. QED
  BY <1>1, <1>2, <1>3, <1>4 DEF Moves, Early

LEMMA SetMoves ==
  ASSUME Processes, NEW p \in Workers, NEW s,
         \/ worker[p].state = "starting" /\ s = "open"
         \/ worker[p].state = "open" /\ s = "serving"
         \/ /\ worker[p].state = "serving" /\ s = "draining"
            /\ worker[p].released \/ worker[p].ctx \/ sup = "crashed",
         worker' = Set(p, s)
  PROVE  Moves
BY States DEF Processes, Alive, Process, Moves, Set, Early, Live

LEMMA ReadyMoves ==
  ASSUME Processes, NEW p \in Workers, worker[p].state = "serving",
         worker' = [worker EXCEPT ![p].ready = TRUE]
  PROVE  Moves
BY States DEF Processes, Alive, Process, Moves, Early, Live

\* A step of a worker, or of the environment, that is no more than Moves.
Quietly == UNCHANGED <<sup, cur, new, stop>> /\ Moves

LEMMA WorkMoves ==
  ASSUME Processes, NEW p \in Workers,
         Work(p) \/ GiveUp(p) \/ WorkerCrashes(p)
  PROVE  Quietly
<1>1. "ok" \in Codes /\ "beside" \in Codes /\ "listeners" \in Codes /\ "failed" \in Codes
  BY DEF Codes
<1>2. ASSUME Open(p) PROVE Quietly
  <2>1. worker[p].state = "starting" /\ UNCHANGED <<sup, cur, new, stop>>
        /\ (worker' = Exit(p, "beside") \/ worker' = Exit(p, "failed") \/ worker' = Set(p, "open"))
    BY <1>2 DEF Open, Is
  <2>2. QED
    BY <1>1, <2>1, ExitMoves, SetMoves, States DEF Quietly
<1>3. ASSUME Serve(p) PROVE Quietly
  <2>1. worker[p].state = "open" /\ UNCHANGED <<sup, cur, new, stop>>
        /\ (worker' = Exit(p, "listeners") \/ worker' = Set(p, "serving"))
    BY <1>3 DEF Serve, Is
  <2>2. QED
    BY <1>1, <2>1, ExitMoves, SetMoves, States DEF Quietly
<1>4. ASSUME SayReady(p) PROVE Quietly
  BY <1>4, ReadyMoves DEF SayReady, Is, Quietly
<1>5. ASSUME LetGoOnStop(p) \/ LetGoOnRelease(p) PROVE Quietly
  <2>1. worker[p].state = "serving" /\ UNCHANGED <<sup, cur, new, stop>> /\ worker' = Set(p, "draining")
        /\ (worker[p].released \/ worker[p].ctx \/ sup = "crashed")
    BY <1>5 DEF LetGoOnStop, LetGoOnRelease, Is, CtxDone, Orphan
  <2>2. QED
    BY <2>1, SetMoves DEF Quietly
<1>6. ASSUME Drained(p) PROVE Quietly
  <2>1. worker[p].state = "draining" /\ UNCHANGED <<sup, cur, new, stop>> /\ worker' = Exit(p, "ok")
    BY <1>6 DEF Drained, Is
  <2>2. QED
    BY <1>1, <2>1, ExitMoves, States DEF Quietly
<1>7. ASSUME GiveUp(p) \/ WorkerCrashes(p) PROVE Quietly
  <2>1. worker[p].state \in Live /\ UNCHANGED <<sup, cur, new, stop>> /\ worker' = Exit(p, "failed")
    BY <1>7, States DEF GiveUp, WorkerCrashes, Is
  <2>2. QED
    BY <1>1, <2>1, ExitMoves DEF Quietly
<1>8. QED
  BY <1>2, <1>3, <1>4, <1>5, <1>6, <1>7 DEF Work

LEMMA QuietProcesses ==
  ASSUME Processes, Quietly
  PROVE  Processes'
BY DEF Processes, Alive, Quietly, Moves

\* The supervisor's ways with the processes.
LEMMA StartedProcess ==
  ASSUME binary \in Schemas, Processes, MoreWorkers, NEW m \in Modes, worker' = Started(m)
  PROVE  /\ worker' \in [Workers -> Process] /\ Fresh \in Workers /\ ~Born(Fresh)
         /\ \A p \in Workers : p # Fresh => worker'[p] = worker[p]
         /\ worker'[Fresh] = [Unborn EXCEPT !.state = "starting", !.mode = m, !.build = binary]
<1>1. Fresh \in Workers /\ ~Born(Fresh)
  BY FreshIsUnborn
<1>2. [Unborn EXCEPT !.state = "starting", !.mode = m, !.build = binary] \in Process
  BY States DEF Unborn, Process, Live, Codes
<1>3. QED
  BY <1>1, <1>2 DEF Started, Processes

LEMMA TerminatedProcess ==
  ASSUME Processes, NEW ps, worker' = Terminated(ps)
  PROVE  /\ worker' \in [Workers -> Process]
         /\ \A p \in Workers : p \notin ps => worker'[p] = worker[p]
         /\ \A p \in Workers : worker'[p] = worker[p] \/ worker'[p] = [worker[p] EXCEPT !.ctx = TRUE]
BY DEF Processes, Process, Terminated

---------------------------------------------------------------------------
(* Who is who to the supervisor *)

Holding == {"run", "await", "old", "alone"}   \* there is a current worker
Waiting == {"boot", "await", "alone"}         \* there is one to wait for

\* The workers the supervisor means to keep.
Kept ==
  {p \in Workers : (p = cur /\ sup \in Holding) \/ (p = new /\ sup \in Waiting)}

\* The current worker has been ready; until a stop, it is told nothing but in a
\* fallback, nor is the one waited for, and any other is on its way out.
Roles ==
  /\ sup \in Phases /\ cur \in 0..MaxWorkers /\ new \in Workers /\ stop \in BOOLEAN
  /\ sup \in Holding => cur \in Workers /\ worker[cur].ready
  /\ sup \in Waiting => Born(new)
  /\ ~stop =>
       /\ sup \in Waiting => new # cur /\ ~worker[new].released /\ ~worker[new].ctx
       /\ sup \in {"run", "await"} => ~worker[cur].released /\ ~worker[cur].ctx
       /\ sup = "alone" => worker[cur].state = "exited"
       /\ sup \in Holding \cup Waiting =>
            \A p \in Workers \ Kept : worker[p].state \in Early => worker[p].released

\* A worker that is to open the database alone is the only one that will stay.
Lone ==
  ~stop => \A p, q \in Workers :
    p # q /\ worker[p].state = "starting" /\ worker[p].mode = "alone" /\ worker[q].state \in Early
      => worker[q].released

\* The database, the environment and the supervisor's flags.
Rest ==
  /\ result \in {"none", "nil", "error"}
  /\ reload \in BOOLEAN /\ edited \in BOOLEAN /\ outage \in BOOLEAN
  /\ schema \in Schemas /\ binary \in Schemas
  /\ reloads \in 0..MaxReloads /\ faults \in 0..MaxFaults

Inv == Rest /\ Processes /\ Roles /\ Lone

LEMMA QuietRoles ==
  ASSUME Inv, Quietly
  PROVE  Roles' /\ Lone'
<1>1. Roles'
  BY DEF Inv, Roles, Quietly, Moves, Kept, Holding, Waiting, Born
<1>2. Lone'
  BY DEF Inv, Lone, Quietly, Moves
<1>3. QED
  BY <1>1, <1>2

\* The processes are left alone, and so is the current worker.
LEMMA IdleRoles ==
  ASSUME Inv, UNCHANGED <<worker, cur, new>>, stop' = stop \/ stop',
         sup' = sup \/ sup' = "crashed" \/ (sup' = "ended" /\ sup # "crashed"), stop' \in BOOLEAN
  PROVE  Processes' /\ Roles' /\ Lone'
<1>1. Processes'
  BY DEF Inv, Processes, Alive
<1>2. Roles'
  BY DEF Inv, Roles, Kept, Holding, Waiting, Phases, Born
<1>3. Lone'
  BY DEF Inv, Lone
<1>4. QED
  BY <1>1, <1>2, <1>3

LEMMA StopAllRoles ==
  ASSUME Inv, NEW e, StopAll(e), sup # "crashed", UNCHANGED <<cur, new, stop>>
  PROVE  Processes' /\ Roles' /\ Lone'
<1> DEFINE ps == {p \in Workers : Is(p, Live)}
<1>1. /\ worker' \in [Workers -> Process]
      /\ \A p \in Workers : p \notin ps => worker'[p] = worker[p]
      /\ \A p \in Workers : worker'[p] = worker[p] \/ worker'[p] = [worker[p] EXCEPT !.ctx = TRUE]
  <2>1. worker' = Terminated(ps)
    BY DEF StopAll
  <2> HIDE DEF ps
  <2>2. QED
    BY <2>1, TerminatedProcess DEF Inv
<1>2. \A p \in Workers : worker[p].state = "unborn" => worker'[p] = worker[p]
  BY <1>1, States DEF Is
<1>3. \A p \in Workers :
        /\ worker'[p].state = worker[p].state /\ worker'[p].mode = worker[p].mode
        /\ worker'[p].ready = worker[p].ready /\ worker'[p].released = worker[p].released
        /\ worker'[p].build = worker[p].build /\ (worker[p].ctx => worker'[p].ctx)
  <2> HIDE DEF ps
  <2>1. \A p \in Workers : worker[p] \in Process
    BY DEF Inv, Processes
  <2>2. QED
    BY <1>1, <2>1 DEF Process
<1> HIDE DEF ps
<1>4. sup' = "stopping"
  BY DEF StopAll
<1>5. Processes'
  BY <1>1, <1>2, <1>3, <1>4 DEF Inv, Processes, Alive
<1>6. Roles'
  BY <1>3, <1>4 DEF Inv, Roles, Holding, Waiting, Phases
<1>7. Lone'
  BY <1>3 DEF Inv, Lone
<1>8. QED
  BY <1>5, <1>6, <1>7

\* A worker is ready and becomes the current one.
LEMMA ReadyRoles ==
  ASSUME Inv, BootReady \/ AloneReady
  PROVE  Processes' /\ Roles' /\ Lone'
<1>1. /\ UNCHANGED <<worker, new, stop>> /\ cur' = new /\ sup' = "run" /\ sup \in {"boot", "alone"}
      /\ worker[new].ready
  BY DEF BootReady, AloneReady, SaidReady
<1>2. Processes'
  BY <1>1 DEF Inv, Processes, Alive
<1>3. ASSUME ~stop, NEW p \in Workers \ {new}, worker[p].state \in Early PROVE worker[p].released
  <2>1. p \notin Kept
    BY <1>1, <1>3 DEF Inv, Roles, Kept, Holding, Early
  <2>2. QED
    BY <1>1, <1>3, <2>1 DEF Inv, Roles, Waiting
<1>4. Roles'
  BY <1>1, <1>3, HandoverAssumption
     DEF Inv, Roles, Kept, Holding, Waiting, Phases, Workers, HandoverAssumption
<1>5. Lone'
  BY <1>1 DEF Inv, Lone
<1>6. QED
  BY <1>2, <1>4, <1>5

\* A wait or a restart is cut short by a stop.
LEMMA StoppedRoles ==
  ASSUME Inv, AwaitStopped \/ RestartStopped
  PROVE  Processes' /\ Roles' /\ Lone'
<1>1. UNCHANGED <<worker, cur, new, stop>> /\ sup' = "run" /\ sup \in Holding /\ stop
  BY DEF AwaitStopped, RestartStopped, Holding
<1>2. Processes' /\ Lone'
  BY <1>1 DEF Inv, Processes, Alive, Lone, Holding
<1>3. Roles'
  BY <1>1 DEF Inv, Roles, Holding, Waiting, Phases
<1>4. QED
  BY <1>2, <1>3

\* A worker is started: beside the current one, or after it.
LEMMA StartRoles ==
  ASSUME Inv, NEW m \in Modes, MoreWorkers, worker' = Started(m), new' = Fresh,
         UNCHANGED <<cur, stop>>,
         \/ sup = "run" /\ sup' = "await" /\ m = "beside"
         \/ sup = "old" /\ sup' = "alone" /\ worker[cur].state = "exited"
  PROVE  Processes' /\ Roles' /\ Lone'
<1>1. /\ worker' \in [Workers -> Process] /\ Fresh \in Workers /\ ~Born(Fresh)
      /\ \A p \in Workers : p # Fresh => worker'[p] = worker[p]
      /\ worker'[Fresh] = [Unborn EXCEPT !.state = "starting", !.mode = m, !.build = binary]
  BY StartedProcess DEF Inv, Rest
<1>2. /\ worker'[new'].state = "starting" /\ worker'[new'].mode = m /\ worker'[new'].build \in Schemas
      /\ ~worker'[new'].ready /\ ~worker'[new'].released /\ ~worker'[new'].ctx
  BY <1>1 DEF Unborn, Inv, Rest
<1>3. /\ cur \in Workers /\ worker[cur].ready /\ cur # new' /\ new' \in Workers /\ sup \in Holding
      /\ \A p \in Workers : p # new' => worker'[p] = worker[p]
  BY <1>1 DEF Inv, Roles, Holding, Born, Processes, Alive
<1>4. ASSUME ~stop, NEW p \in Workers \ {cur, new'}, worker[p].state \in Early PROVE worker[p].released
  <2>1. p \notin Kept
    BY <1>4 DEF Kept, Waiting
  <2>2. QED
    BY <1>3, <1>4, <2>1 DEF Inv, Roles
<1>5. Processes'
  <2>1. ASSUME NEW p \in Workers, p = new' PROVE Alive(p)'
    BY <1>2, <2>1 DEF Alive
  <2>2. ASSUME NEW p \in Workers, p # new' PROVE Alive(p)'
    <3>1. worker'[p] = worker[p] /\ sup # "crashed" /\ Alive(p)
      BY <1>3, <2>2 DEF Inv, Processes
    <3>2. QED
      BY <3>1 DEF Alive
  <2>3. QED
    BY <1>1, <2>1, <2>2 DEF Processes
<1>6. Roles'
  <2>1. \A p \in (Workers \ Kept)' : p \in Workers \ {cur, new'}
    BY <1>3 DEF Kept, Holding, Waiting
  <2>2. ~stop => \A p \in (Workers \ Kept)' : worker'[p].state \in Early => worker'[p].released
    BY <1>3, <1>4, <2>1
  <2>3. /\ sup' \in {"await", "alone"} /\ worker'[cur] = worker[cur] /\ Born(new)'
        /\ ~stop => (sup' = "await" => ~worker[cur].released /\ ~worker[cur].ctx)
        /\ sup' = "alone" => worker[cur].state = "exited"
    BY <1>2, <1>3 DEF Inv, Roles, Born
  <2>4. cur' \in 0..MaxWorkers /\ stop' \in BOOLEAN /\ sup' \in Phases
    BY <2>3 DEF Inv, Roles, Phases
  <2>5. QED
    BY <1>2, <1>3, <2>2, <2>3, <2>4 DEF Roles
<1>7. Lone'
  <2> SUFFICES ASSUME ~stop, NEW p \in Workers, NEW q \in Workers, p # q,
                      worker'[p].state = "starting", worker'[p].mode = "alone",
                      worker'[q].state \in Early
               PROVE  worker'[q].released
    BY DEF Lone
  <2>1. CASE p = new'
    <3>1. q # cur
      BY <1>2, <1>3, <2>1 DEF Early
    <3>2. QED
      BY <1>3, <1>4, <2>1, <3>1
  <2>2. CASE q = new'
    <3>1. p # cur
      BY <1>3, <2>2 DEF Inv, Processes, Alive
    <3>2. worker[p].released /\ worker[p].ready
      BY <1>3, <1>4, <2>2, <3>1 DEF Early, Inv, Processes, Alive
    <3>3. QED
      BY <1>3, <2>2, <3>2 DEF Inv, Processes, Alive
  <2>3. CASE p # new' /\ q # new'
    BY <1>3, <2>3 DEF Inv, Lone
  <2>4. QED
    BY <2>1, <2>2, <2>3
<1>8. QED
  BY <1>5, <1>6, <1>7

\* The old worker is let go.
LEMMA HandOverRoles ==
  ASSUME Inv, HandOver
  PROVE  Processes' /\ Roles' /\ Lone'
<1>1. /\ UNCHANGED <<new, stop>> /\ cur' = new /\ sup' = "run" /\ sup = "await" /\ worker[new].ready
      /\ worker' = [worker EXCEPT ![cur].released = TRUE] /\ cur \in Workers /\ worker[cur].ready
  BY DEF HandOver, SaidReady, Inv, Roles, Holding
<1>2. /\ \A p \in Workers : p # cur => worker'[p] = worker[p]
      /\ worker'[cur] = [worker[cur] EXCEPT !.released = TRUE]
      /\ worker' \in [Workers -> Process] /\ worker[cur] \in Process
  BY <1>1 DEF Inv, Processes, Process
<1>3. /\ worker'[cur].state = worker[cur].state /\ worker'[cur].mode = worker[cur].mode
      /\ worker'[cur].ready /\ worker'[cur].released /\ worker'[cur].ctx = worker[cur].ctx
      /\ worker'[cur].build = worker[cur].build
  BY <1>1, <1>2 DEF Process
<1>4. Processes'
  <2>1. ASSUME NEW p \in Workers, p = cur PROVE Alive(p)'
    <3>1. Alive(p)
      BY DEF Inv, Processes
    <3>2. QED
      BY <1>1, <1>3, <2>1, <3>1 DEF Alive
  <2>2. ASSUME NEW p \in Workers, p # cur PROVE Alive(p)'
    BY <1>1, <1>2, <2>2 DEF Inv, Processes, Alive
  <2>3. QED
    BY <1>2, <2>1, <2>2 DEF Processes
<1>5. ASSUME ~stop, NEW p \in Workers \ {cur, new}, worker[p].state \in Early PROVE worker[p].released
  <2>1. p \notin Kept
    BY <1>1, <1>5 DEF Kept
  <2>2. QED
    BY <1>1, <1>5, <2>1 DEF Inv, Roles, Waiting
<1>6. Roles'
  <2>1. new \in Workers /\ new \in 0..MaxWorkers /\ stop \in BOOLEAN
        /\ (~stop => new # cur /\ ~worker[new].released /\ ~worker[new].ctx)
    BY <1>1, HandoverAssumption DEF Inv, Roles, Waiting, Workers, HandoverAssumption
  <2>2. ASSUME ~stop, NEW p \in Workers \ {new}, worker'[p].state \in Early PROVE worker'[p].released
    BY <1>2, <1>3, <1>5, <2>2
  <2>3. new \in Kept'
    BY <1>1, <2>1 DEF Kept, Holding
  <2>4. worker'[new].ready /\ (~stop => ~worker'[new].released /\ ~worker'[new].ctx)
    BY <1>1, <1>2, <1>3, <2>1
  <2>5. QED
    BY <1>1, <2>1, <2>2, <2>3, <2>4 DEF Roles, Holding, Waiting, Phases
<1>7. Lone'
  BY <1>1, <1>2, <1>3 DEF Inv, Lone
<1>8. QED
  BY <1>4, <1>6, <1>7

\* The old worker is told to stop, for the new one to run alone.
LEMMA FallBackRoles ==
  ASSUME Inv, AwaitFallsBack
  PROVE  Processes' /\ Roles' /\ Lone'
<1>1. /\ UNCHANGED <<cur, new, stop>> /\ sup' = "old" /\ sup = "await" /\ worker' = Terminated({cur})
      /\ worker[new].state = "exited" /\ cur \in Workers /\ worker[cur].ready
  BY DEF AwaitFallsBack, ExitedUnready, Is, Inv, Roles, Holding
<1>2. /\ worker' \in [Workers -> Process]
      /\ \A p \in Workers : p # cur => worker'[p] = worker[p]
      /\ \A p \in Workers : worker'[p] = worker[p] \/ worker'[p] = [worker[p] EXCEPT !.ctx = TRUE]
  BY <1>1, TerminatedProcess DEF Inv
<1>3. \A p \in Workers :
        /\ worker'[p].state = worker[p].state /\ worker'[p].mode = worker[p].mode
        /\ worker'[p].ready = worker[p].ready /\ worker'[p].released = worker[p].released
        /\ worker'[p].build = worker[p].build /\ (worker[p].ctx => worker'[p].ctx)
  <2>1. \A p \in Workers : worker[p] \in Process
    BY DEF Inv, Processes
  <2>2. QED
    BY <1>2, <2>1 DEF Process
<1>4. Processes'
  <2>1. ASSUME NEW p \in Workers PROVE Alive(p)'
    <3>1. worker[p].state = "unborn" => worker'[p] = worker[p]
      BY <1>1, <1>2 DEF Inv, Processes, Alive
    <3>2. QED
      BY <1>1, <1>3, <3>1 DEF Inv, Processes, Alive
  <2>2. QED
    BY <1>2, <2>1 DEF Processes
<1>5. ASSUME ~stop, NEW p \in Workers \ {cur}, worker[p].state \in Early PROVE worker[p].released
  <2>1. p \notin Kept
    BY <1>1, <1>5 DEF Kept, Early
  <2>2. QED
    BY <1>1, <1>5, <2>1 DEF Inv, Roles, Waiting
<1>6. Roles'
  <2>1. cur \in Kept'
    BY <1>1 DEF Kept, Holding
  <2>2. \A p \in (Workers \ Kept)' : p \in Workers \ {cur}
    BY <1>1, <2>1
  <2>3. ~stop => \A p \in (Workers \ Kept)' : worker'[p].state \in Early => worker'[p].released
    BY <1>3, <1>5, <2>2
  <2>4. QED
    BY <1>1, <1>3, <2>3 DEF Inv, Roles, Holding, Waiting, Phases
<1>7. Lone'
  <2>1. Lone
    BY DEF Inv
  <2>2. QED
    BY <1>1, <1>3, <2>1 DEF Lone
<1>8. QED
  BY <1>4, <1>6, <1>7

\* The new worker is killed, or is dead already.
LEMMA AbandonRoles ==
  ASSUME Inv, AwaitAbandons
  PROVE  Processes' /\ Roles' /\ Lone'
<1>1. /\ UNCHANGED <<cur, new, stop>> /\ sup' = "run" /\ sup = "await"
      /\ cur \in Workers /\ worker[cur].ready /\ new \in Workers /\ Born(new)
      /\ (~stop => cur # new)
  BY DEF AwaitAbandons, Inv, Roles, Holding, Waiting
<1>2. Moves /\ worker'[new].state \notin Early /\ (\A p \in Workers : p # new => worker'[p] = worker[p])
  <2>1. CASE worker[new].state \in Live
    <3>1. worker' = Exit(new, "failed") /\ "failed" \in Codes
      BY <2>1 DEF AwaitAbandons, Is, Codes
    <3>2. worker'[new].state = "exited" /\ (\A p \in Workers : p # new => worker'[p] = worker[p])
      BY <1>1, <3>1 DEF Exit, Inv, Processes, Process
    <3>3. QED
      BY <1>1, <2>1, <3>1, <3>2, ExitMoves DEF Inv, Early
  <2>2. CASE worker[new].state \notin Live
    <3>1. worker' = worker
      BY <2>2 DEF AwaitAbandons, Is
    <3>2. worker[new].state \notin Early
      BY <2>2, States DEF Early
    <3>3. Moves
      BY <3>1 DEF Moves, Inv, Processes, Alive
    <3>4. QED
      BY <3>1, <3>2, <3>3
  <2>3. QED
    BY <2>1, <2>2
<1>3. Processes'
  BY <1>1, <1>2 DEF Moves, Inv, Processes, Alive
<1>4. ASSUME ~stop, NEW p \in Workers \ {cur}, worker'[p].state \in Early PROVE worker'[p].released
  <2>1. p # new /\ p \notin Kept /\ worker'[p] = worker[p]
    BY <1>1, <1>2, <1>4 DEF Kept
  <2>2. QED
    BY <1>1, <1>4, <2>1 DEF Inv, Roles, Waiting
<1>5. Roles'
  <2>1. cur \in Kept'
    BY <1>1 DEF Kept, Holding
  <2>2. \A p \in (Workers \ Kept)' : p \in Workers \ {cur}
    BY <1>1, <2>1
  <2>3. /\ worker'[cur].ready
        /\ ~stop => ~worker'[cur].released /\ ~worker'[cur].ctx
    BY <1>1, <1>2 DEF Moves, Inv, Roles
  <2>4. cur' \in 0..MaxWorkers /\ new' \in Workers /\ stop' \in BOOLEAN
    BY <1>1 DEF Inv, Roles
  <2>5. QED
    BY <1>1, <1>4, <2>2, <2>3, <2>4 DEF Roles, Holding, Waiting, Phases
<1>6. Lone'
  BY <1>1, <1>2 DEF Inv, Lone, Moves
<1>7. QED
  BY <1>3, <1>5, <1>6

---------------------------------------------------------------------------
(* The uptime record *)

\* Until a stop only the worker of a fallback is told to go, and the one waited
\* for is told nothing at all.
Told ==
  /\ ~stop => \A p \in Workers : worker[p].state \in Live /\ worker[p].ctx =>
       sup \in {"stopping", "ended", "crashed"} \/ (sup = "old" /\ p = cur)
  /\ sup \in Waiting => new # cur /\ ~worker[new].released /\ ~worker[new].ctx

\* A recorded stop ends before its worker is ready.
Recorded ==
  ~stop =>
    /\ sup \in {"run", "await"} => ~outage
    /\ sup \in {"boot", "alone"} /\ (worker[new].ready \/ worker[new].state = "serving") => ~outage

Serves(p) == worker[p].state = "serving" /\ ~worker[p].released

\* With no crash, a ready worker serves until it is told otherwise, and the last
\* one to go leaves a recorded stop.
Serving ==
  /\ faults = 0 =>
       /\ sup \in Waiting /\ worker[new].ready => Serves(new)
       /\ sup \in {"run", "await"} /\ ~stop => Serves(cur)
       /\ cur # 0 => outage \/ \E p \in Workers : Serves(p)
  /\ sup = "ended" => \A p \in Workers : worker[p].state \notin Live

Uptime == Told /\ Recorded /\ Serving

\* What a worker's step does to the record.
Writes(p) ==
  /\ \A q \in Workers : Serves(q) => Serves(q)' \/ faults' # 0 \/ (q = p /\ CtxDone(p) /\ outage')
  /\ outage' => outage \/ (CtxDone(p) /\ worker[p].state = "serving")
  /\ ~outage' => ~outage \/ Serves(p)'
  /\ \A q \in Workers : worker'[q].state = "serving" =>
       worker[q].state = "serving" \/ (q = p /\ (outage' => CtxDone(p)))
  /\ \A q \in Workers : worker'[q].ready /\ ~worker[q].ready =>
       worker[q].state = "serving" /\ worker'[q].state = "serving" /\ outage' = outage
  /\ faults' = 0 => faults = 0

LEMMA WorkWrites ==
  ASSUME Inv, NEW p \in Workers, Work(p) \/ GiveUp(p) \/ WorkerCrashes(p)
  PROVE  Writes(p)
<1>1. /\ worker \in [Workers -> Process] /\ faults \in Nat /\ outage \in BOOLEAN
      /\ worker[p].state \notin {"serving", "draining", "exited"} => ~worker[p].released
  BY HandoverAssumption DEF Inv, Rest, Processes, Alive, HandoverAssumption
<1> DEFINE Becomes(s) ==
      /\ \A q \in Workers \ {p} : worker'[q] = worker[q]
      /\ worker'[p].state = s /\ worker'[p].ready = worker[p].ready
      /\ worker'[p].released = worker[p].released
<1>2. ASSUME NEW s, worker' = Set(p, s) PROVE Becomes(s)
  BY <1>1, <1>2 DEF Set, Process
<1>3. ASSUME NEW c, worker' = Exit(p, c) PROVE Becomes("exited")
  BY <1>1, <1>3 DEF Exit, Process
<1>4. ASSUME Open(p) \/ GiveUp(p) PROVE Writes(p)
  <2>1. /\ worker[p].state \in {"starting", "open"} /\ outage' = outage /\ faults' = faults
        /\ \/ \E c \in Codes : worker' = Exit(p, c)
           \/ worker' = Set(p, "open")
    BY <1>4 DEF Open, GiveUp, Is, db, env, Codes
  <2>2. Becomes("exited") \/ Becomes("open")
    BY <1>2, <1>3, <2>1
  <2>3. QED
    BY <2>1, <2>2 DEF Writes, Serves
<1>5. ASSUME Serve(p) PROVE Writes(p)
  <2>1. worker[p].state = "open" /\ faults' = faults
        /\ \/ worker' = Exit(p, "listeners") /\ outage' = outage
           \/ worker' = Set(p, "serving") /\ outage' = (outage /\ CtxDone(p))
    BY <1>5 DEF Serve, Is, env
  <2>2. CASE Becomes("exited") /\ outage' = outage
    BY <2>1, <2>2 DEF Writes, Serves
  <2>3. CASE Becomes("serving") /\ outage' = (outage /\ CtxDone(p))
    <3>1. Serves(p)' /\ ~Serves(p)
      BY <1>1, <2>1, <2>3 DEF Serves
    <3>2. \A q \in Workers \ {p} : Serves(q) => Serves(q)'
      BY <2>3 DEF Serves
    <3>3. (outage' => outage /\ CtxDone(p)) /\ (outage /\ CtxDone(p) => outage')
      BY <1>1, <2>3
    <3>4. QED
      BY <2>1, <2>3, <3>1, <3>2, <3>3 DEF Writes
  <2>4. QED
    BY <1>2, <1>3, <2>1, <2>2, <2>3
<1>6. ASSUME SayReady(p) PROVE Writes(p)
  <2>1. worker[p].state = "serving" /\ worker' = [worker EXCEPT ![p].ready = TRUE]
        /\ outage' = outage /\ faults' = faults
    BY <1>6 DEF SayReady, Is, db, env
  <2>2. /\ \A q \in Workers \ {p} : worker'[q] = worker[q]
        /\ worker'[p].state = "serving" /\ worker'[p].released = worker[p].released
    BY <1>1, <2>1 DEF Process
  <2>3. QED
    BY <2>1, <2>2 DEF Writes, Serves
<1>7. ASSUME LetGoOnStop(p) PROVE Writes(p)
  <2>1. worker[p].state = "serving" /\ CtxDone(p) /\ outage' = TRUE /\ faults' = faults
        /\ Becomes("draining")
    BY <1>2, <1>7 DEF LetGoOnStop, Is, env
  <2>2. QED
    BY <2>1 DEF Writes, Serves
<1>8. ASSUME LetGoOnRelease(p) PROVE Writes(p)
  <2>1. worker[p].state = "serving" /\ worker[p].released /\ outage' = outage /\ faults' = faults
        /\ Becomes("draining")
    BY <1>2, <1>8 DEF LetGoOnRelease, Is, db, env
  <2>2. QED
    BY <2>1 DEF Writes, Serves
<1>9. ASSUME Drained(p) PROVE Writes(p)
  <2>1. worker[p].state = "draining" /\ outage' = outage /\ faults' = faults /\ Becomes("exited")
    BY <1>3, <1>9 DEF Drained, Is, db, env
  <2>2. QED
    BY <2>1 DEF Writes, Serves
<1>10. ASSUME WorkerCrashes(p) PROVE Writes(p)
  <2>1. outage' = outage /\ faults' # 0 /\ Becomes("exited")
    BY <1>1, <1>3, <1>10 DEF WorkerCrashes, db
  <2>2. QED
    BY <2>1 DEF Writes, Serves
<1>11. QED
  BY <1>4, <1>5, <1>6, <1>7, <1>8, <1>9, <1>10 DEF Work

LEMMA WorkUptime ==
  ASSUME Inv, Uptime, NEW p \in Workers, Work(p) \/ GiveUp(p) \/ WorkerCrashes(p)
  PROVE  Uptime'
<1>1. Quietly /\ Writes(p)
  BY WorkMoves, WorkWrites DEF Inv
<1>2. UNCHANGED <<sup, cur, new, stop>> /\ new \in Workers /\ (sup \in Holding => cur \in Workers)
      /\ \A q \in Workers : /\ worker'[q].ctx = worker[q].ctx /\ worker'[q].released = worker[q].released
                            /\ worker'[q].state \in Live => worker[q].state \in Live
  BY <1>1 DEF Quietly, Moves, Inv, Roles, Processes, Process, Live
<1>3. Told'
  BY <1>2 DEF Uptime, Told
<1>4. worker[p].state \in {"open", "serving"} /\ CtxDone(p) =>
        sup = "crashed" \/ (worker[p].ctx /\ worker[p].state \in Live)
  BY DEF CtxDone, Orphan, Live
<1>5. Recorded'
  <2> SUFFICES ASSUME ~stop PROVE Recorded'
    BY <1>2 DEF Recorded
  <2>1. sup \in {"run", "await"} => ~outage'
    BY <1>1, <1>4 DEF Writes, Uptime, Told, Recorded
  <2>2. ASSUME sup \in {"boot", "alone"}, worker'[new].ready \/ worker'[new].state = "serving"
        PROVE  ~outage'
    <3>1. \A q \in Workers : CtxDone(q) => worker[q].state \notin Live
      BY <2>2 DEF CtxDone, Orphan, Uptime, Told
    <3>2. ~worker[new].ctx /\ ~CtxDone(new)
      BY <2>2 DEF CtxDone, Orphan, Uptime, Told, Waiting
    <3>3. outage' => outage
      BY <1>1, <3>1 DEF Writes, Live
    <3>4. outage => ~worker[new].ready /\ worker[new].state # "serving"
      BY <2>2 DEF Uptime, Recorded
    <3>5. QED
      BY <1>1, <1>2, <2>2, <3>2, <3>3, <3>4 DEF Writes
  <2>3. QED
    BY <1>2, <2>1, <2>2 DEF Recorded
<1>6. Serving'
  <2>1. sup = "ended" => \A q \in Workers : worker'[q].state \notin Live
    BY <1>2 DEF Uptime, Serving
  <2>2. ASSUME faults' = 0, sup \in Waiting, worker'[new].ready PROVE Serves(new)'
    <3>1. ~CtxDone(new) /\ ~worker[new].released /\ faults = 0
      BY <1>1, <2>2 DEF CtxDone, Orphan, Uptime, Told, Waiting, Writes
    <3>2. CASE worker[new].ready
      BY <1>1, <1>2, <2>2, <3>1, <3>2 DEF Uptime, Serving, Writes
    <3>3. CASE ~worker[new].ready
      BY <1>1, <1>2, <2>2, <3>1, <3>3 DEF Writes, Serves
    <3>4. QED
      BY <3>2, <3>3
  <2>3. ASSUME faults' = 0, sup \in {"run", "await"}, ~stop PROVE Serves(cur)'
    <3>1. Serves(cur) /\ cur \in Workers
      BY <1>1, <1>2, <2>3 DEF Uptime, Serving, Writes, Holding
    <3>2. ~CtxDone(cur)
      BY <2>3, <3>1 DEF CtxDone, Orphan, Uptime, Told, Serves, Live
    <3>3. QED
      BY <1>1, <1>2, <2>3, <3>1, <3>2 DEF Writes, Serves
  <2>4. ASSUME faults' = 0, cur # 0, ~outage' PROVE \E q \in Workers : Serves(q)'
    <3>1. CASE outage
      BY <1>1, <2>4, <3>1 DEF Writes
    <3>2. CASE ~outage
      <4>1. PICK q \in Workers : Serves(q)
        BY <1>1, <2>4, <3>2 DEF Uptime, Serving, Writes
      <4>2. QED
        BY <1>1, <2>4, <4>1 DEF Writes
    <3>3. QED
      BY <3>1, <3>2
  <2>5. QED
    BY <1>2, <2>1, <2>2, <2>3, <2>4 DEF Serving, Serves
<1>7. QED
  BY <1>3, <1>5, <1>6 DEF Uptime

\* The steps of the supervisor and of the environment leave the record alone.
LEMMA IdleUptime ==
  ASSUME Inv, Uptime, UNCHANGED <<worker, cur, new, outage>>, stop' = stop \/ stop',
         \/ sup' = sup /\ faults' = faults
         \/ sup' = "crashed" /\ faults' # 0
         \/ /\ sup = "stopping" /\ sup' = "ended" /\ faults' = faults
            /\ \A p \in Workers : worker[p].state \notin Live
  PROVE  Uptime'
<1>1. stop \in BOOLEAN
  BY DEF Inv, Roles
<1>2. Told'
  BY <1>1 DEF Uptime, Told, Waiting
<1>3. Recorded'
  BY <1>1 DEF Uptime, Recorded
<1>4. Serving'
  BY <1>1 DEF Uptime, Serving, Serves, Waiting
<1>5. QED
  BY <1>2, <1>3, <1>4 DEF Uptime

LEMMA StopAllUptime ==
  ASSUME Inv, Uptime, NEW e, StopAll(e), UNCHANGED <<cur, stop, outage, faults>>
  PROVE  Uptime'
<1> DEFINE ps == {p \in Workers : Is(p, Live)}
<1>1. \A p \in Workers : worker'[p] = worker[p] \/ worker'[p] = [worker[p] EXCEPT !.ctx = TRUE]
  <2>1. worker' = Terminated(ps)
    BY DEF StopAll
  <2> HIDE DEF ps
  <2>2. QED
    BY <2>1, TerminatedProcess DEF Inv
<1>2. \A p \in Workers :
        worker'[p].state = worker[p].state /\ worker'[p].released = worker[p].released
  <2>1. \A p \in Workers : worker[p] \in Process
    BY DEF Inv, Processes
  <2>2. QED
    BY <1>1, <2>1 DEF Process
<1>3. sup' = "stopping"
  BY DEF StopAll
<1>4. QED
  BY <1>2, <1>3 DEF Uptime, Told, Recorded, Serving, Serves, Waiting

LEMMA ReadyUptime ==
  ASSUME Inv, Uptime, BootReady \/ AloneReady
  PROVE  Uptime'
<1>1. /\ UNCHANGED <<worker, new, stop, outage, faults>> /\ cur' = new /\ sup' = "run"
      /\ sup \in {"boot", "alone"} /\ worker[new].ready /\ new \in Workers
  BY DEF BootReady, AloneReady, SaidReady, Inv, Roles, db, env
<1>2. Told' /\ Recorded'
  BY <1>1 DEF Uptime, Told, Recorded, Waiting
<1>3. Serving'
  BY <1>1 DEF Uptime, Serving, Serves, Waiting
<1>4. QED
  BY <1>2, <1>3 DEF Uptime

LEMMA StartUptime ==
  ASSUME Inv, Uptime, ReloadStarts \/ OldGone
  PROVE  Uptime'
<1>1. /\ UNCHANGED <<cur, stop, outage, faults>> /\ new' = Fresh /\ MoreWorkers
      /\ \E m \in Modes : worker' = Started(m)
      /\ \/ sup = "run" /\ sup' = "await"
         \/ sup = "old" /\ sup' = "alone" /\ worker[cur].state = "exited"
  BY DEF ReloadStarts, OldGone, Modes, Is, db, env
<1>2. /\ Fresh \in Workers /\ ~Born(Fresh)
      /\ \A p \in Workers : p # Fresh => worker'[p] = worker[p]
      /\ \E m \in Modes :
           worker'[Fresh] = [Unborn EXCEPT !.state = "starting", !.mode = m, !.build = binary]
  BY <1>1, StartedProcess DEF Inv, Rest
<1>3. /\ worker'[Fresh].state = "starting" /\ ~worker'[Fresh].ready
      /\ ~worker'[Fresh].released /\ ~worker'[Fresh].ctx
  BY <1>2 DEF Unborn
<1>4. cur \in Workers /\ worker[cur].ready /\ cur # Fresh /\ worker[Fresh].state = "unborn"
  BY <1>1, <1>2 DEF Inv, Roles, Holding, Born, Processes, Alive
<1>5. Told'
  <2>1. ~stop => \A p \in Workers : ~(worker'[p].state \in Live /\ worker'[p].ctx)
    BY <1>1, <1>2, <1>3, <1>4, States DEF Uptime, Told
  <2>2. QED
    BY <1>1, <1>3, <1>4, <2>1 DEF Told, Waiting
<1>6. Recorded'
  BY <1>1, <1>3 DEF Uptime, Recorded
<1>7. \A p \in Workers : Serves(p) => Serves(p)' /\ p # Fresh
  BY <1>2, <1>4 DEF Serves
<1>8. Serving'
  <2>1. Serves(cur) => Serves(cur)'
    BY <1>1, <1>2, <1>4 DEF Serves
  <2>2. QED
    BY <1>1, <1>3, <1>7, <2>1 DEF Uptime, Serving, Waiting
<1>9. QED
  BY <1>5, <1>6, <1>8 DEF Uptime

LEMMA HandOverUptime ==
  ASSUME Inv, Uptime, HandOver
  PROVE  Uptime'
<1>1. /\ UNCHANGED <<new, stop, outage, faults>> /\ cur' = new /\ sup' = "run" /\ sup = "await"
      /\ worker[new].ready /\ new \in Workers /\ new # cur /\ cur \in Workers
      /\ worker' = [worker EXCEPT ![cur].released = TRUE] /\ worker \in [Workers -> Process]
  BY DEF HandOver, SaidReady, Inv, Roles, Holding, Waiting, Processes, Uptime, Told, db, env
<1>2. /\ \A p \in Workers : worker'[p].state = worker[p].state /\ worker'[p].ctx = worker[p].ctx
      /\ worker'[new] = worker[new]
  BY <1>1 DEF Process
<1>3. Told' /\ Recorded'
  BY <1>1, <1>2 DEF Uptime, Told, Recorded, Waiting
<1>4. Serving'
  BY <1>1, <1>2 DEF Uptime, Serving, Serves, Waiting
<1>5. QED
  BY <1>3, <1>4 DEF Uptime

LEMMA FallBackUptime ==
  ASSUME Inv, Uptime, AwaitFallsBack
  PROVE  Uptime'
<1>1. /\ UNCHANGED <<cur, new, stop, outage, faults>> /\ sup' = "old" /\ sup = "await"
      /\ worker' = Terminated({cur})
  BY DEF AwaitFallsBack, db, env
<1>2. /\ \A p \in Workers : p # cur => worker'[p] = worker[p]
      /\ \A p \in Workers : worker'[p] = worker[p] \/ worker'[p] = [worker[p] EXCEPT !.ctx = TRUE]
  BY <1>1, TerminatedProcess DEF Inv
<1>3. \A p \in Workers :
        worker'[p].state = worker[p].state /\ worker'[p].released = worker[p].released
  <2>1. \A p \in Workers : worker[p] \in Process
    BY DEF Inv, Processes
  <2>2. QED
    BY <1>2, <2>1 DEF Process
<1>4. Told'
  BY <1>1, <1>2 DEF Uptime, Told, Waiting
<1>5. Recorded' /\ Serving'
  BY <1>1, <1>3 DEF Uptime, Recorded, Serving, Serves, Waiting
<1>6. QED
  BY <1>4, <1>5 DEF Uptime

LEMMA AbandonUptime ==
  ASSUME Inv, Uptime, AwaitAbandons
  PROVE  Uptime'
<1>1. /\ UNCHANGED <<cur, new, stop, outage, faults>> /\ sup' = "run" /\ sup = "await" /\ ~stop
      /\ cur \in Workers /\ new # cur
  BY DEF AwaitAbandons, Inv, Roles, Holding, Waiting, Uptime, Told, db, env
<1>2. \A p \in Workers :
        /\ p # new => worker'[p] = worker[p]
        /\ worker'[p].state \in Live => worker[p].state \in Live /\ worker'[p].ctx = worker[p].ctx
  <2>1. worker \in [Workers -> Process] /\ new \in Workers
    BY DEF Inv, Processes, Roles
  <2>2. CASE worker' = Exit(new, "failed")
    <3>1. worker'[new].state = "exited" /\ \A p \in Workers : p # new => worker'[p] = worker[p]
      BY <2>1, <2>2 DEF Exit, Process
    <3>2. QED
      BY <3>1, States
  <2>3. QED
    BY <2>2 DEF AwaitAbandons
<1>3. Told' /\ Recorded'
  BY <1>1, <1>2 DEF Uptime, Told, Recorded, Waiting
<1>4. Serving'
  <2>1. faults = 0 => Serves(cur)'
    BY <1>1, <1>2 DEF Uptime, Serving, Serves
  <2>2. QED
    BY <1>1, <2>1 DEF Serving, Serves, Waiting
<1>5. QED
  BY <1>3, <1>4 DEF Uptime

---------------------------------------------------------------------------
(* The theorems *)

LEMMA InitInv == Init => Inv
<1> SUFFICES ASSUME Init PROVE Inv
  OBVIOUS
<1>0. 1 \in Workers /\ 0 \notin Workers /\ 0 \in 0..MaxWorkers
  BY HandoverAssumption DEF HandoverAssumption, Workers
<1>1. Rest
  <2>1. /\ result = "none" /\ reload = FALSE /\ edited = FALSE /\ outage \in BOOLEAN
        /\ schema \in Schemas /\ binary \in Schemas /\ reloads = 0 /\ faults = 0
    BY DEF Init
  <2>2. 0 \in 0..MaxReloads /\ 0 \in 0..MaxFaults
    BY HandoverAssumption DEF HandoverAssumption
  <2>3. QED
    BY <2>1, <2>2 DEF Rest
<1>2. /\ sup = "boot" /\ cur = 0 /\ new = 1 /\ stop = FALSE /\ binary \in Schemas
      /\ worker = [p \in Workers |->
           IF p = 1 THEN [Unborn EXCEPT !.state = "starting", !.build = binary] ELSE Unborn]
  BY DEF Init
<1>3. [Unborn EXCEPT !.state = "starting", !.build = binary] \in Process /\ Unborn \in Process
  BY <1>2, States DEF Unborn, Process, Modes, Codes
<1>4. /\ worker[1] = [Unborn EXCEPT !.state = "starting", !.build = binary]
      /\ \A p \in Workers : p # 1 => worker[p] = Unborn
  BY <1>0, <1>2
<1>5. /\ worker[1].state = "starting" /\ ~worker[1].ready /\ ~worker[1].released /\ ~worker[1].ctx
      /\ worker[1].build = binary
      /\ Unborn.state = "unborn" /\ ~Unborn.ready /\ ~Unborn.released
  BY <1>4 DEF Unborn
<1>6. Processes
  <2>1. worker \in [Workers -> Process]
    BY <1>2, <1>3
  <2>2. ASSUME NEW p \in Workers PROVE Alive(p)
    BY <1>2, <1>4, <1>5 DEF Alive
  <2>3. QED
    BY <2>1, <2>2 DEF Processes
<1>7. Roles
  BY <1>0, <1>2, <1>4, <1>5 DEF Roles, Holding, Waiting, Phases, Born, Kept, Early
<1>8. Lone
  BY <1>4, <1>5 DEF Lone, Early
<1>9. QED
  BY <1>1, <1>6, <1>7, <1>8 DEF Inv

\* The rest keeps its types, whoever steps.
LEMMA RestKept ==
  ASSUME Inv, [Next]_vars
  PROVE  Rest'
<1>1. Rest /\ \A p \in Workers : Alive(p)
  BY DEF Inv, Processes
<1>2. ASSUME Supervisor PROVE Rest'
  BY <1>1, <1>2 DEF Supervisor, Rest, StopAll, db, env, BootReady, BootFails, RunStops, ReloadRefused,
     ReloadStarts, HandOver, AwaitStopped, AwaitFallsBack, AwaitAbandons, OldGone, AloneNotStarted,
     RestartStopped, AloneReady, AloneFails, Ended
<1>3. ASSUME NEW p \in Workers, Work(p) PROVE Rest'
  <2>1. schema' = schema \/ (worker[p].state = "starting" /\ schema' = worker[p].build)
    BY <1>3 DEF Work, Open, Serve, SayReady, LetGoOnStop, LetGoOnRelease, Drained, Is, db
  <2>2. schema' \in Schemas
    BY <1>1, <2>1 DEF Rest, Alive
  <2>3. UNCHANGED <<result, reload, env>> /\ outage' \in BOOLEAN
    BY <1>1, <1>3 DEF Rest, Work, Open, Serve, SayReady, LetGoOnStop, LetGoOnRelease, Drained, CtxDone,
       Orphan, db
  <2>4. QED
    BY <1>1, <2>2, <2>3 DEF Rest, env
<1>4. ASSUME Environment PROVE Rest'
  <2> USE <1>1, HandoverAssumption DEF HandoverAssumption, Rest, db, env
  <2>1. ASSUME AskStop \/ EditConfig \/ Quiet PROVE Rest'
    BY <2>1 DEF AskStop, EditConfig, Quiet, vars
  <2>2. ASSUME AskReload PROVE Rest'
    BY <2>2 DEF AskReload
  <2>3. ASSUME Install PROVE Rest'
    BY <2>3 DEF Install
  <2>4. ASSUME SupervisorCrashes \/ \E p \in Workers : GiveUp(p) \/ WorkerCrashes(p) PROVE Rest'
    BY <2>4 DEF SupervisorCrashes, GiveUp, WorkerCrashes
  <2>5. QED
    BY <1>4, <2>1, <2>2, <2>3, <2>4 DEF Environment
<1>5. ASSUME UNCHANGED vars PROVE Rest'
  BY <1>1, <1>5 DEF Rest, vars
<1>6. QED
  BY <1>2, <1>3, <1>4, <1>5 DEF Next

LEMMA InvHolds == Spec => []Inv
<1>1. Inv /\ [Next]_vars => Inv'
  <2> SUFFICES ASSUME Inv, [Next]_vars PROVE Inv'
    OBVIOUS
  <2>1. SUFFICES Processes' /\ Roles' /\ Lone'
    BY RestKept DEF Inv
  <2>2. ASSUME NEW p \in Workers, Work(p) \/ GiveUp(p) \/ WorkerCrashes(p)
        PROVE  Processes' /\ Roles' /\ Lone'
    <3>1. Quietly
      BY <2>2, WorkMoves DEF Inv
    <3>2. QED
      BY <3>1, QuietProcesses, QuietRoles DEF Inv
  <2>3. stop \in BOOLEAN
    BY DEF Inv, Roles
  <2>4. ASSUME ReloadRefused \/ Ended \/ AskStop \/ AskReload \/ Install \/ EditConfig
               \/ SupervisorCrashes \/ Quiet \/ UNCHANGED vars
        PROVE  Processes' /\ Roles' /\ Lone'
    <3>1. /\ UNCHANGED <<worker, cur, new>> /\ (stop' = stop \/ stop')
          /\ stop' \in BOOLEAN
          /\ sup' = sup \/ sup' = "crashed" \/ (sup' = "ended" /\ sup # "crashed")
      BY <2>3, <2>4 DEF ReloadRefused, Ended, AskStop, AskReload, Install, EditConfig,
         SupervisorCrashes, Quiet, vars
    <3>2. QED
      BY <3>1, IdleRoles
  <2>5. ASSUME BootFails \/ RunStops \/ AloneNotStarted \/ AloneFails
        PROVE  Processes' /\ Roles' /\ Lone'
    <3>1. /\ UNCHANGED <<cur, new, stop>> /\ sup # "crashed"
          /\ StopAll("nil") \/ StopAll("error")
      BY <2>5 DEF BootFails, RunStops, AloneNotStarted, AloneFails
    <3>2. QED
      BY <3>1, StopAllRoles
  <2>6. ASSUME ReloadStarts \/ OldGone PROVE Processes' /\ Roles' /\ Lone'
    <3>1. CASE ReloadStarts
      BY <3>1, StartRoles DEF ReloadStarts, Modes
    <3>2. CASE OldGone
      BY <3>2, StartRoles DEF OldGone, Modes, Is
    <3>3. QED
      BY <2>6, <3>1, <3>2
  <2>7. QED
    BY <2>2, <2>4, <2>5, <2>6, ReadyRoles, StoppedRoles, HandOverRoles, FallBackRoles, AbandonRoles
       DEF Next, Supervisor, Environment
<1>2. QED
  BY <1>1, InitInv, PTL DEF Spec

\* Type correctness of the supervisor, its workers and the database, for any
\* number of reloads, crashes and schema versions.
THEOREM TypeHolds == Spec => []TypeOK
<1>1. Inv => TypeOK
  <2> SUFFICES ASSUME Inv PROVE TypeOK
    OBVIOUS
  <2>1. sup \in Holding => cur # 0 /\ Born(cur)
    <3> SUFFICES ASSUME sup \in Holding PROVE cur # 0 /\ Born(cur)
      OBVIOUS
    <3>1. cur \in Workers /\ worker[cur].ready
      BY DEF Inv, Roles
    <3>2. worker[cur].state # "unborn"
      BY <3>1 DEF Inv, Processes, Alive
    <3>3. QED
      BY <3>1, <3>2, HandoverAssumption DEF Born, Workers, HandoverAssumption
  <2>2. QED
    BY <2>1 DEF Inv, Rest, Processes, Roles, TypeOK, Holding, Phases
<1>2. QED
  BY <1>1, InvHolds, PTL

\* AlwaysAccepting: from the first ready worker to a stop, reloads leave no
\* moment without a process that accepts (Supervisor.reload, awaitReady).
THEOREM AlwaysAcceptingHolds == Spec => []AlwaysAccepting
<1>1. Inv => AlwaysAccepting
  <2> SUFFICES ASSUME Inv, sup \in {"run", "await"}, ~stop, ~Is(cur, {"exited"})
               PROVE  \E p \in Workers : Is(p, {"serving"})
    BY DEF AlwaysAccepting
  <2>1. cur \in Workers /\ worker[cur].ready /\ ~worker[cur].released /\ ~worker[cur].ctx
    BY DEF Inv, Roles, Holding
  <2>2. worker[cur].state = "serving"
    BY <2>1 DEF Inv, Processes, Alive, Is
  <2>3. QED
    BY <2>1, <2>2 DEF Is
<1>2. QED
  BY <1>1, InvHolds, PTL

\* OnlyOneServes: between reloads, only the current worker accepts for good
\* (Supervisor.reload).
THEOREM OnlyOneServesHolds == Spec => []OnlyOneServes
<1>1. Inv => OnlyOneServes
  BY DEF Inv, Roles, OnlyOneServes, Kept, Holding, Waiting, Is, Early
<1>2. QED
  BY <1>1, InvHolds, PTL

\* OutageTrue: through any number of handovers and fallbacks no stop stands
\* recorded while the current worker serves, and a supervisor that ended with no
\* process having crashed leaves one (uptime.Started, uptime.Stopped).
THEOREM OutageTrueHolds == Spec => []OutageTrue
<1>1. Init => Uptime
  <2> SUFFICES ASSUME Init PROVE Uptime
    OBVIOUS
  <2>1. 1 \in Workers /\ sup = "boot" /\ cur = 0 /\ new = 1 /\ Inv
    BY InitInv, HandoverAssumption DEF Init, Workers, HandoverAssumption
  <2>2. \A p \in Workers :
          /\ ~worker[p].ready /\ ~worker[p].released /\ ~worker[p].ctx
          /\ worker[p].state # "serving"
    BY DEF Init, Unborn
  <2>3. QED
    BY <2>1, <2>2 DEF Uptime, Told, Recorded, Serving, Waiting
<1>2. Inv /\ Uptime /\ [Next]_vars => Uptime'
  <2> SUFFICES ASSUME Inv, Uptime, [Next]_vars PROVE Uptime'
    OBVIOUS
  <2>1. faults \in Nat /\ stop \in BOOLEAN
    BY HandoverAssumption DEF Inv, Rest, Roles, HandoverAssumption
  <2>2. ASSUME ReloadRefused \/ Ended \/ AskStop \/ AskReload \/ Install \/ EditConfig
               \/ SupervisorCrashes \/ Quiet \/ UNCHANGED vars
        PROVE  Uptime'
    <3>1. /\ UNCHANGED <<worker, cur, new, outage>> /\ (stop' = stop \/ stop')
          /\ \/ sup' = sup /\ faults' = faults
             \/ sup' = "crashed" /\ faults' # 0
             \/ /\ sup = "stopping" /\ sup' = "ended" /\ faults' = faults
                /\ \A p \in Workers : worker[p].state \notin Live
      BY <2>1, <2>2 DEF ReloadRefused, Ended, AskStop, AskReload, Install, EditConfig,
         SupervisorCrashes, Quiet, vars, db, env, Is
    <3>2. QED
      BY <3>1, IdleUptime
  <2>3. ASSUME BootFails \/ RunStops \/ AloneNotStarted \/ AloneFails PROVE Uptime'
    <3>1. UNCHANGED <<cur, stop, outage, faults>> /\ (StopAll("nil") \/ StopAll("error"))
      BY <2>3 DEF BootFails, RunStops, AloneNotStarted, AloneFails, db, env
    <3>2. QED
      BY <3>1, StopAllUptime
  <2>4. ASSUME AwaitStopped \/ RestartStopped PROVE Uptime'
    <3>1. UNCHANGED <<worker, cur, new, stop, outage, faults>> /\ sup' = "run" /\ stop
      BY <2>4 DEF AwaitStopped, RestartStopped, db, env
    <3>2. Told' /\ Recorded'
      BY <3>1 DEF Uptime, Told, Recorded, Waiting
    <3>3. Serving'
      BY <3>1 DEF Uptime, Serving, Serves, Waiting
    <3>4. QED
      BY <3>2, <3>3 DEF Uptime
  <2>5. QED
    BY <2>2, <2>3, <2>4, WorkUptime, ReadyUptime, StartUptime, HandOverUptime, FallBackUptime,
       AbandonUptime DEF Next, Supervisor, Environment
<1>3. Inv /\ Uptime => OutageTrue
  <2> SUFFICES ASSUME Inv, Uptime PROVE OutageTrue
    OBVIOUS
  <2>1. sup = "run" /\ ~stop => ~outage
    BY DEF Uptime, Recorded
  <2>2. sup = "ended" /\ faults = 0 /\ cur # 0 => outage
    BY States DEF Uptime, Serving, Serves
  <2>3. QED
    BY <2>1, <2>2 DEF OutageTrue
<1>4. QED
  BY <1>1, <1>2, <1>3, InvHolds, PTL DEF Spec

\* NoMigrationUnderServing: no step changes the schema under a worker that is
\* to go on serving (store.OpenAlongside, Supervisor.restart).
THEOREM NoMigrationHolds == Spec => NoMigrationUnderServing
<1>1. Inv /\ [Next]_vars =>
        [schema' # schema /\ ~stop =>
           \A p \in Workers : Is(p, {"serving"}) => worker[p].released]_vars
  <2> SUFFICES ASSUME Inv, [Next]_vars, schema' # schema, ~stop,
                      NEW q \in Workers, worker[q].state = "serving"
               PROVE  worker[q].released
    BY DEF Is
  <2>1. PICK p \in Workers : worker[p].state = "starting" /\ worker[p].mode = "alone"
    <3>1. \E p \in Workers : Open(p)
      BY DEF Next, vars, db, env, Supervisor, StopAll, BootReady, BootFails, RunStops,
         ReloadRefused, ReloadStarts, HandOver, AwaitStopped, AwaitFallsBack, AwaitAbandons, OldGone,
         AloneNotStarted, RestartStopped, AloneReady, AloneFails, Ended, Environment, AskStop,
         AskReload, Install, EditConfig, SupervisorCrashes, GiveUp, WorkerCrashes, Quiet, Work, Serve,
         SayReady, LetGoOnStop, LetGoOnRelease, Drained
    <3>2. QED
      BY <3>1 DEF Open, Is
  <2>2. QED
    BY <2>1 DEF Inv, Lone, Early
<1>2. QED
  BY <1>1, InvHolds, PTL DEF Spec, NoMigrationUnderServing

=============================================================================
