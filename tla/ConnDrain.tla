------------------------------ MODULE ConnDrain ------------------------------
(***************************************************************************)
(* How a worker lets go of its connections: handover.Conns and the end of  *)
(* Server.Serve.  Told to stop, it disables keep-alives, closes its        *)
(* listeners, lets every accepted connection reach a handler (Settle) and  *)
(* shuts down.  Released to another worker, it closes its listeners,       *)
(* answers the next request of every connection with Connection: close and *)
(* waits for them all to be closed (Drain) before it shuts down.           *)
(*                                                                         *)
(* The server is net/http's: a connection is new until its first request   *)
(* has been read, then active or idle; a request read is dropped if the    *)
(* server is shutting down by then; and its Shutdown closes the idle       *)
(* connections, and the new ones that have been silent for five seconds.   *)
(***************************************************************************)
EXTENDS Naturals, FiniteSets

CONSTANTS Conn      \* the connections clients open

VARIABLES
    phase,          \* where Serve is
    released,       \* a handover, not a stop
    draining,       \* Conns.draining
    at,             \* each connection's state in net/http
    served,         \* trackedConn.served
    pending, opened,  \* Conns.pending and Conns.open
    silent,         \* a new connection five seconds old
    writing,        \* the client has a request on its way, or unanswered
    told,           \* the client has been answered Connection: close
    settleOver, graceOver,  \* the two deadlines have passed
    cut             \* history: connections closed by letting go, under the client's pen

serverVars == <<phase, released, settleOver, graceOver>>
countVars  == <<served, pending, opened>>
drainVars  == <<serverVars, countVars, draining, at, silent, writing, told, cut>>

DrainPhases == {"serving", "letting", "waiting", "shutdown", "exited"}
Open(c) == at[c] \in {"new", "idle", "read", "handling", "closing"}

DrainInit ==
    /\ phase = "serving" /\ released = FALSE /\ draining = FALSE
    /\ at = [c \in Conn |-> "unborn"] /\ served = [c \in Conn |-> FALSE]
    /\ pending = 0 /\ opened = 0
    /\ silent = {} /\ writing = {} /\ told = {} /\ cut = {}
    /\ settleOver = FALSE /\ graceOver = FALSE

---------------------------------------------------------------------------
\* Connections.

\* ConnContext, before the connection's state is New.
AcceptConn(c) ==
    /\ phase = "serving" /\ at[c] = "unborn"
    /\ at' = [at EXCEPT ![c] = "new"]
    /\ pending' = pending + 1 /\ opened' = opened + 1
    /\ UNCHANGED <<serverVars, draining, served, silent, writing, told, cut>>

GoSilent(c) ==
    /\ at[c] = "new" /\ silent' = silent \cup {c}
    /\ UNCHANGED <<serverVars, countVars, draining, at, writing, told, cut>>

\* A client does not write on a connection it was told would close.
WriteRequest(c) ==
    /\ at[c] \in {"new", "idle"} /\ c \notin writing \cup told
    /\ writing' = writing \cup {c}
    /\ UNCHANGED <<serverVars, countVars, draining, at, silent, told, cut>>

ReadWhole(c) ==
    /\ at[c] \in {"new", "idle"} /\ c \in writing
    /\ at' = [at EXCEPT ![c] = "read"]
    /\ UNCHANGED <<serverVars, countVars, draining, silent, writing, told, cut>>

ShuttingDown == phase = "shutdown"

CloseConn(cs) == at' = [c \in Conn |-> IF c \in cs THEN "closing" ELSE at[c]]
Cuts(cs)  == cut' = cut \cup (cs \cap writing)

\* The check between reading a request and serving it.
DropRead(c) ==
    /\ at[c] = "read" /\ ShuttingDown
    /\ CloseConn({c}) /\ Cuts({c})
    /\ UNCHANGED <<serverVars, countVars, draining, silent, writing, told>>

\* Mutant: every request is taken off the count of first ones.
ServedAgain(c) == served' = [served EXCEPT ![c] = TRUE] /\ pending' = pending - 1

\* serve: the first request of a connection is no longer pending.
Served(c) ==
    /\ served' = [served EXCEPT ![c] = TRUE]
    /\ pending' = IF served[c] THEN pending ELSE pending - 1

\* The wrapped handler, which reads draining as it begins.
HandleRequest(c) ==
    /\ at[c] = "read" /\ ~ShuttingDown
    /\ at' = [at EXCEPT ![c] = "handling"] /\ Served(c)
    /\ told' = IF draining THEN told \cup {c} ELSE told
    /\ UNCHANGED <<serverVars, opened, draining, silent, writing, cut>>

KeepAlives == released \/ phase = "serving"

\* The answer is out; net/http keeps the connection unless it may not.
Respond(c) ==
    /\ at[c] = "handling"
    /\ writing' = writing \ {c}
    /\ at' = [at EXCEPT ![c] =
         IF c \in told \/ ShuttingDown \/ ~KeepAlives THEN "closing" ELSE "idle"]
    /\ UNCHANGED <<serverVars, countVars, draining, silent, told, cut>>

\* By the client, or by the server's idle timeout, as at any other time.
CloseIdle(c) ==
    /\ at[c] \in {"new", "idle"} /\ c \notin writing
    /\ CloseConn({c})
    /\ UNCHANGED <<serverVars, countVars, draining, silent, writing, told, cut>>

\* ConnState with StateClosed, on the connection's own goroutine.
ConnClosed(c) ==
    /\ at[c] = "closing"
    /\ at' = [at EXCEPT ![c] = "closed"] /\ Served(c) /\ opened' = opened - 1
    /\ UNCHANGED <<serverVars, draining, silent, writing, told, cut>>

---------------------------------------------------------------------------
\* Serve.

\* What closeIdleConns closes: the requests it meets there are lost.
Idle == {c \in Conn : at[c] = "idle" \/ (at[c] = "new" /\ c \in silent)}

\* Mutant: a handover closes the idle connections too.
LetGoClosing(handover) ==
    /\ phase = "serving" /\ phase' = "letting" /\ released' = handover
    /\ CloseConn(Idle) /\ Cuts(Idle)
    /\ UNCHANGED <<countVars, draining, silent, writing, told, settleOver, graceOver>>

\* Told to stop or released: SetKeepAlivesEnabled(false) unless released, and
\* the listeners are closed.
LetGo(handover) ==
    /\ phase = "serving" /\ phase' = "letting" /\ released' = handover
    /\ IF handover THEN UNCHANGED <<at, cut>> ELSE CloseConn(Idle) /\ Cuts(Idle)
    /\ UNCHANGED <<countVars, draining, silent, writing, told, settleOver, graceOver>>

\* The accept loops have returned.
BeginWait ==
    /\ phase = "letting" /\ phase' = "waiting" /\ draining' = released
    /\ UNCHANGED <<released, countVars, at, silent, writing, told, settleOver, graceOver, cut>>

\* Mutant: a stop does not wait for the connections it accepted.
ShutNow ==
    /\ phase = "waiting" /\ phase' = "shutdown"
    /\ IF released THEN opened = 0 ELSE TRUE
    /\ CloseConn(Idle) /\ Cuts(Idle)
    /\ UNCHANGED <<released, settleOver, graceOver, countVars, draining, silent, writing, told>>

\* Drain or Settle sees its count at zero, and Shutdown begins.
Shut ==
    /\ phase = "waiting" /\ phase' = "shutdown"
    /\ IF released THEN opened = 0 ELSE pending = 0
    /\ CloseConn(Idle) /\ Cuts(Idle)
    /\ UNCHANGED <<released, settleOver, graceOver, countVars, draining, silent, writing, told>>

SettleDeadline ==
    /\ phase = "waiting" /\ ~released
    /\ phase' = "shutdown" /\ settleOver' = TRUE
    /\ CloseConn(Idle) /\ Cuts(Idle)
    /\ UNCHANGED <<released, graceOver, countVars, draining, silent, writing, told>>

\* Shutdown polls until no connection is left.
PollIdle ==
    /\ phase = "shutdown" /\ Idle # {}
    /\ CloseConn(Idle) /\ Cuts(Idle)
    /\ UNCHANGED <<serverVars, countVars, draining, silent, writing, told>>

Exit ==
    /\ phase = "shutdown" /\ \A c \in Conn : at[c] \in {"unborn", "closing", "closed"}
    /\ phase' = "exited"
    /\ UNCHANGED <<released, settleOver, graceOver, countVars, draining, at, silent, writing, told, cut>>

\* The grace period ends: the process exits with what it has.
GraceEnds ==
    /\ phase \in {"waiting", "shutdown"}
    /\ phase' = "exited" /\ graceOver' = TRUE
    /\ LET left == {c \in Conn : Open(c)} IN CloseConn(left) /\ Cuts(left)
    /\ UNCHANGED <<released, settleOver, countVars, draining, silent, writing, told>>

DrainNext ==
    \/ \E c \in Conn :
         \/ AcceptConn(c) \/ GoSilent(c) \/ WriteRequest(c) \/ ReadWhole(c) \/ DropRead(c)
         \/ HandleRequest(c) \/ Respond(c) \/ CloseIdle(c) \/ ConnClosed(c)
    \/ \E handover \in BOOLEAN : LetGo(handover)
    \/ BeginWait \/ Shut \/ SettleDeadline \/ PollIdle \/ Exit \/ GraceEnds

DrainSpec == DrainInit /\ [][DrainNext]_drainVars

---------------------------------------------------------------------------
DrainTypeOK ==
    /\ phase \in DrainPhases
    /\ at \in [Conn -> {"unborn", "new", "idle", "read", "handling", "closing", "closed"}]
    /\ served \in [Conn -> BOOLEAN] /\ pending \in Nat /\ opened \in Nat
    /\ \A cs \in {silent, writing, told, cut} : cs \subseteq Conn
    /\ \A b \in {released, draining, settleOver, graceOver} : b \in BOOLEAN

\* Conns counts what it waits for: the connections open, and those of them
\* that no handler has seen a request of, whoever closes them and in whatever
\* order the hooks run.
CountsTrue ==
    /\ opened = Cardinality({c \in Conn : Open(c)})
    /\ pending = Cardinality({c \in Conn : Open(c) /\ ~served[c]})

\* What Conns and the end of Serve are for.  A handover closes no connection a
\* client is writing on or waiting on, however the client's writes fall between
\* its steps; a stop loses no first request, but of a connection that has been
\* silent for five seconds.  Deadlines excepted.
ClosesNoneUnderThePen ==
    graceOver \/ settleOver \/ IF released THEN cut = {}
                               ELSE \A c \in cut : served[c] \/ c \in silent

\* Both, of the connections of one worker.
DrainSound == CountsTrue /\ ClosesNoneUnderThePen
=============================================================================
