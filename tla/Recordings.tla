----------------------------- MODULE Recordings ------------------------------
(***************************************************************************)
(* Recorded content: service/capture and the file it is kept in,           *)
(* store/recordings.  A client's exchanges are recorded while its switch   *)
(* is on, held in memory within a budget, and handed through a bounded     *)
(* queue to one writer, which stores each body as chunks shared between    *)
(* recordings.  An operator clears, and the pruner prunes, at any time: a  *)
(* transaction that drops recordings and their references, then the        *)
(* deletion of the chunks nothing refers to.                               *)
(*                                                                         *)
(* An exchange has a size of one; what bodies say, how they are cut, and   *)
(* the sealing of what is stored, are left out.                            *)
(***************************************************************************)
EXTENDS Naturals, FiniteSets, Sequences, SequencesExt

CONSTANTS
    Exchange,       \* the requests of clients, in the order they may begin
    ClientOf,       \* the client each one is of
    ChunksOf,       \* the chunks of its bodies
    MemBudget,      \* exchanges held in memory
    QueueMax        \* exchanges waiting for the writer

ASSUME BudgetsArePositive == MemBudget \in Nat \ {0} /\ QueueMax \in Nat \ {0}

VARIABLES
    recording,      \* Capture.until: the clients being recorded
    stage,          \* each exchange: none, running, filed or over
    logged,         \* those with a row in the request log
    inMemory, used, \* Capture.held and Capture.used
    queue, closed,  \* persister's
    putting,        \* its writer: where it is, with what, and what it found missing
    stored, refs, chunks,   \* the file
    dropping,       \* the clear and the prune under way
    cleared,        \* history: what a clear dropped that was not on its way to the file
    swept           \* history: chunks deleted since the writer looked for them

memoryVars == <<inMemory, used>>
fileVars   == <<stored, refs, chunks>>
recVars    == <<recording, stage, logged, memoryVars, queue, closed, putting, fileVars,
                dropping, cleared, swept>>

Clients  == {ClientOf[x] : x \in Exchange}
Droppers == {"clear", "prune"}
NoWrite  == [pc |-> "idle", x |-> "none", missing |-> {}]
Idly     == [pc |-> "idle", of |-> {}]

RecInit ==
    /\ recording = {} /\ stage = [x \in Exchange |-> "none"] /\ logged = {}
    /\ inMemory = <<>> /\ used = 0 /\ queue = <<>> /\ closed = FALSE /\ putting = NoWrite
    /\ stored = {} /\ refs = {} /\ chunks = {}
    /\ dropping = [d \in Droppers |-> Idly] /\ cleared = {} /\ swept = [x \in Exchange |-> {}]

---------------------------------------------------------------------------
\* Capture.

RecordClient(c) ==
    /\ c \notin recording /\ recording' = recording \cup {c}
    /\ UNCHANGED <<stage, logged, memoryVars, queue, closed, putting, fileVars, dropping, cleared, swept>>

\* Stop, or the time it was switched on for is over.
StopRecording(c) ==
    /\ c \in recording /\ recording' = recording \ {c}
    /\ UNCHANGED <<stage, logged, memoryVars, queue, closed, putting, fileVars, dropping, cleared, swept>>

BeginExchange(x) ==
    /\ stage[x] = "none" /\ ClientOf[x] \in recording
    /\ stage' = [stage EXCEPT ![x] = "running"]
    /\ UNCHANGED <<recording, logged, memoryVars, queue, closed, putting, fileVars, dropping, cleared, swept>>

\* Tied to its row of the request log, when one was written.
Logged(x) ==
    /\ stage[x] = "running" /\ x \notin logged /\ logged' = logged \cup {x}
    /\ UNCHANGED <<recording, stage, memoryVars, queue, closed, putting, fileVars, dropping, cleared, swept>>

\* commit, under the mutex: the oldest go once the budget is passed.
Commit(x) ==
    LET all == Append(inMemory, x)
    IN  /\ stage[x] = "running" /\ stage' = [stage EXCEPT ![x] = "filed"]
        /\ inMemory' = IF used + 1 > MemBudget /\ Len(all) > 1 THEN Tail(all) ELSE all
        /\ used' = Len(inMemory')
        /\ UNCHANGED <<recording, logged, queue, closed, putting, fileVars, dropping, cleared, swept>>

\* offer, after it: to the queue, or dropped when it is closed or full.
Offer(x) ==
    /\ stage[x] = "filed" /\ stage' = [stage EXCEPT ![x] = "over"]
    /\ queue' = IF x \in logged /\ ~closed /\ Len(queue) < QueueMax THEN Append(queue, x) ELSE queue
    /\ UNCHANGED <<recording, logged, memoryVars, closed, putting, fileVars, dropping, cleared, swept>>

---------------------------------------------------------------------------
\* The writer.

\* The next of the queue, unless the disk is nearly full; and Missing, which
\* asks which of its chunks to bring.
FindMissing ==
    /\ putting.pc = "idle" /\ queue # <<>>
    /\ LET x == Head(queue)
       IN  \/ putting' = [pc |-> "put", x |-> x, missing |-> ChunksOf[x] \ chunks]
              /\ swept' = [swept EXCEPT ![x] = {}]
           \/ UNCHANGED <<putting, swept>>
    /\ queue' = Tail(queue)
    /\ UNCHANGED <<recording, stage, logged, memoryVars, closed, fileVars, dropping, cleared>>

\* Mutant: the references are written before the recording, on their own.
PutRefsOnly ==
    /\ putting.pc = "put" /\ putting' = NoWrite
    /\ refs' = refs \cup ({putting.x} \X ChunksOf[putting.x]) /\ UNCHANGED <<stored, chunks>>
    /\ UNCHANGED <<recording, stage, logged, memoryVars, queue, closed, dropping, cleared, swept>>

\* PutExchange: one transaction.
PutExchange ==
    LET x == putting.x
    IN  /\ putting.pc = "put" /\ putting' = NoWrite
        /\ chunks' = chunks \cup putting.missing /\ stored' = stored \cup {x}
        /\ refs' = refs \cup ({x} \X ChunksOf[x])
        /\ UNCHANGED <<recording, stage, logged, memoryVars, queue, closed, dropping, cleared, swept>>

PutFails ==
    /\ putting.pc = "put" /\ putting' = NoWrite
    /\ UNCHANGED <<recording, stage, logged, memoryVars, queue, closed, fileVars, dropping, cleared, swept>>

\* Close, at a shutdown: what is queued is still written.
CloseQueue ==
    /\ ~closed /\ closed' = TRUE
    /\ UNCHANGED <<recording, stage, logged, memoryVars, queue, putting, fileVars, dropping, cleared, swept>>

\* A new worker: memory is gone and no switch is on.  A file sealed under
\* another key is emptied.
RestartRecorder(sameKey) ==
    /\ closed /\ closed' = FALSE /\ recording' = {}
    /\ inMemory' = <<>> /\ used' = 0 /\ queue' = <<>> /\ putting' = NoWrite
    /\ stage' = [x \in Exchange |-> IF stage[x] = "none" THEN "none" ELSE "over"]
    /\ dropping' = [d \in Droppers |-> Idly]
    /\ IF sameKey THEN UNCHANGED fileVars ELSE stored' = {} /\ refs' = {} /\ chunks' = {}
    /\ UNCHANGED <<logged, cleared, swept>>

---------------------------------------------------------------------------
\* Clear and Prune.

OfClients(cs) == {x \in Exchange : ClientOf[x] \in cs}
OnItsWay == {x \in Exchange : stage[x] = "filed"} \cup ToSet(queue)
              \cup (IF putting.pc = "put" THEN {putting.x} ELSE {})

FileOnly(xs) == (stored \cap xs) \ (OnItsWay \cup ToSet(inMemory))

\* The loop of Clear, over what is held.
HeldBut(cs) ==
    LET kept[n \in 0..Len(inMemory)] ==
            IF n = 0 THEN <<>>
            ELSE IF ClientOf[inMemory[n]] \notin cs THEN Append(kept[n - 1], inMemory[n])
            ELSE kept[n - 1]
    IN  kept[Len(inMemory)]

\* Clear, of one client or of all: what is held, under the mutex.
ClearHeld(cs) ==
    /\ dropping["clear"].pc = "idle"
    /\ inMemory' = HeldBut(cs) /\ used' = Len(inMemory')
    /\ cleared' = cleared \cup ((ToSet(inMemory) \cap OfClients(cs)) \ (OnItsWay \cup stored))
    /\ dropping' = [dropping EXCEPT !["clear"] = [pc |-> "drop", of |-> OfClients(cs)]]
    /\ UNCHANGED <<recording, stage, logged, queue, closed, putting, fileVars, swept>>

\* What is past its retention, or the oldest over the disk budget.
BeginPrune(xs) ==
    /\ dropping["prune"].pc = "idle" /\ ~closed
    /\ dropping' = [dropping EXCEPT !["prune"] = [pc |-> "drop", of |-> xs]]
    /\ UNCHANGED <<recording, stage, logged, memoryVars, queue, closed, putting, fileVars, cleared, swept>>

\* Mutant: the references stay, for the next sweep to find.
DropRowsOnly(d) ==
    /\ dropping[d].pc = "drop" /\ stored' = stored \ dropping[d].of /\ UNCHANGED <<refs, chunks>>
    /\ cleared' = IF d = "clear" THEN cleared \cup FileOnly(dropping[d].of) ELSE cleared
    /\ dropping' = [dropping EXCEPT ![d].pc = "sweep"]
    /\ UNCHANGED <<recording, stage, logged, memoryVars, queue, closed, putting, swept>>

\* drop: the recordings and their references, in one transaction.
DropStored(d) ==
    /\ dropping[d].pc = "drop"
    /\ stored' = stored \ dropping[d].of
    /\ refs' = {r \in refs : r[1] \notin dropping[d].of} /\ UNCHANGED chunks
    /\ cleared' = IF d = "clear" THEN cleared \cup FileOnly(dropping[d].of) ELSE cleared
    /\ dropping' = [dropping EXCEPT ![d].pc = "sweep"]
    /\ UNCHANGED <<recording, stage, logged, memoryVars, queue, closed, putting, swept>>

Unreferred == {h \in chunks : \A r \in refs : r[2] # h}

SweepChunks(d) ==
    /\ dropping[d].pc = "sweep"
    /\ chunks' = chunks \ Unreferred /\ UNCHANGED <<stored, refs>>
    /\ swept' = IF putting.pc = "put" THEN [swept EXCEPT ![putting.x] = @ \cup Unreferred] ELSE swept
    /\ dropping' = [dropping EXCEPT ![d] = Idly]
    /\ UNCHANGED <<recording, stage, logged, memoryVars, queue, closed, putting, cleared>>

RecNext ==
    \/ \E c \in Clients : RecordClient(c) \/ StopRecording(c)
    \/ \E x \in Exchange : BeginExchange(x) \/ Logged(x) \/ Commit(x) \/ Offer(x)
    \/ FindMissing \/ PutExchange \/ PutFails \/ CloseQueue
    \/ \E sameKey \in BOOLEAN : RestartRecorder(sameKey)
    \/ \E cs \in {{c} : c \in Clients} \cup {Clients} : ClearHeld(cs)
    \/ \E xs \in SUBSET stored \ {{}} : BeginPrune(xs)
    \/ \E d \in Droppers : DropStored(d) \/ SweepChunks(d)

RecSpec == RecInit /\ [][RecNext]_recVars

---------------------------------------------------------------------------
\* The file, whatever is written, cleared and pruned at once: a recording is
\* stored with all its references and no reference outlives its recording, and
\* a recording's chunks are there but for those a sweep deleted between the
\* writer's look and its transaction.
FileSound ==
    /\ refs = UNION {{x} \X ChunksOf[x] : x \in stored}
    /\ \A x \in stored : ChunksOf[x] \subseteq chunks \cup swept[x]

\* What is held is counted, bounded and kept once, and nothing that still runs
\* is shown; nothing is kept in the file that has no row to be found by.
HeldSound ==
    /\ used = Len(inMemory) /\ used <= MemBudget /\ Cardinality(ToSet(inMemory)) = Len(inMemory)
    /\ \A x \in ToSet(inMemory) : stage[x] \in {"filed", "over"}
    /\ stored \cup ToSet(queue) \subseteq logged

\* What an operator cleared stays cleared, unless it was on its way to the
\* file: it is neither held nor stored again.
StaysCleared == cleared \cap (ToSet(inMemory) \cup stored) = {}

RecordingsSound == FileSound /\ HeldSound /\ StaysCleared

\* "One transaction, so a recording is never stored without the chunks it
\* uses" (recordings.go, PutExchange).
ChunksAllThere == \A x \in stored : ChunksOf[x] \subseteq chunks
=============================================================================
