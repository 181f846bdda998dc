---------------------------- MODULE Availability ----------------------------
(***************************************************************************)
(* service/availability: whether one model works on one account, learnt    *)
(* from checks and from client traffic; the hold that routes around it     *)
(* while it fails; and the switch that turns it off when it keeps failing  *)
(* and on again when it works.  A result is recorded by a goroutine of its *)
(* own (Record): it writes the row, applies itself under the mutex, and    *)
(* then, the mutex released, moves the switch in two statements.           *)
(*                                                                         *)
(* A tick is Recheck, a quarter of an hour: AutoOffAfter is two of them,   *)
(* no call in flight lasts one, and SeenEvery, a minute, may have passed    *)
(* within one or not.  A hold that ends in this tick is one of now.        *)
(***************************************************************************)
EXTENDS Naturals

CONSTANTS
    Recorder,   \* goroutines that record results
    MaxNow      \* bound: the last tick

VARIABLES
    now,        \* the clock; 0 is the zero time
    row,        \* account_model_tests: the last result written
    offBy,      \* account_models_off: "on", or who switched the model off
    failing,    \* Checker.failing: since is 0 when the reason does not last
    held,       \* the pool's hold on the model, 0 for none
    trying,     \* Checker.trying
    checking,   \* the operator's switch for checks
    rec,        \* each goroutine: where it is, and its result
    op,         \* the operator's switch of the model, between its statements
    lapse,      \* history: the last result applied that was no lasting failure
    recut       \* history: a refusal nobody recorded has set the hold anew

memory    == <<failing, held, recut>>
availVars == <<now, row, offBy, memory, trying, checking, rec, op, lapse>>

AutoOffAfter == 2
ReportWaits == {0, 2}     \* bound: what a report holds for, less than a tick or two
Outcomes == {"works", "lasting", "passing"}     \* OK; failed, by lasting(t)
Test(o)  == [at |-> now, is |-> o]
Quiet    == [at |-> 0, since |-> 0]
AtRest   == [pc |-> "idle", tries |-> FALSE, test |-> [at |-> 0, is |-> "works"]]

AvailInit ==
    /\ now = 1 /\ row = [at |-> 0, is |-> "works"] /\ offBy = "on"
    /\ failing = Quiet /\ held = 0 /\ trying = FALSE /\ checking = TRUE
    /\ rec = [r \in Recorder |-> AtRest] /\ op = "idle" /\ lapse = 0
    /\ recut = FALSE

Goes(r, pc) == rec' = [rec EXCEPT ![r].pc = pc]
Records(r, o) == rec' = [rec EXCEPT ![r].pc = "save", ![r].test = Test(o)]

\* Ends Record, and try if it called it.
Ends(r) ==
    /\ rec' = [rec EXCEPT ![r] = AtRest]
    /\ trying' = (trying /\ ~rec[r].tries)

---------------------------------------------------------------------------
\* Where results come from.

\* Served, or the account page's Test.
ClientServed(r) ==
    /\ rec[r].pc = "idle" /\ Records(r, "works")
    /\ UNCHANGED <<now, row, offBy, memory, trying, checking, op, lapse>>

OperatorTests(r, o) ==
    /\ rec[r].pc = "idle" /\ Records(r, o)
    /\ UNCHANGED <<now, row, offBy, memory, trying, checking, op, lapse>>

\* relay.report of a refusal the provider says is the model's: the pool's hold
\* is the upstream's own wait, or the first step of backoff, over what it was.
RelayReports(r, wait) ==
    /\ rec[r].pc = "idle" /\ Goes(r, "reported")
    /\ held' = now + wait
    /\ UNCHANGED <<now, row, offBy, failing, recut, trying, checking, op, lapse>>

\* Refused, after that report or for a 404, which is not reported: unless it was
\* failing already within SeenEvery, the model is failing from now.
ClientRefused(r, o) ==
    /\ rec[r].pc \in {"idle", "reported"} /\ o # "works" /\ Records(r, o)
    /\ failing' = [at |-> now, since |-> failing.since]
    /\ UNCHANGED <<now, row, offBy, held, recut, trying, checking, op, lapse>>

RefusedAgain(r) ==
    /\ rec[r].pc = "reported" /\ failing.at = now
    /\ Goes(r, "idle") /\ recut' = TRUE
    /\ UNCHANGED <<now, row, offBy, failing, held, trying, checking, op, lapse>>

\* recheck lists what is due under the mutex, and tries it later.
FindDue(r) ==
    /\ rec[r].pc = "idle" /\ checking
    /\ failing.at # 0 /\ now - failing.at >= 1 /\ held <= now
    /\ Goes(r, "due")
    /\ UNCHANGED <<now, row, offBy, memory, trying, checking, op, lapse>>

ScanAccount(r) ==
    /\ rec[r].pc = "idle" /\ checking
    /\ Goes(r, "due")
    /\ UNCHANGED <<now, row, offBy, memory, trying, checking, op, lapse>>

\* try, unless a check of it is in flight.
Try(r) ==
    /\ rec[r].pc = "due"
    /\ trying' = TRUE
    /\ rec' = [rec EXCEPT ![r] = IF trying THEN AtRest
                                 ELSE [AtRest EXCEPT !.pc = "probe", !.tries = TRUE]]
    /\ UNCHANGED <<now, row, offBy, memory, checking, op, lapse>>

ProbeEnds(r, o) ==
    /\ rec[r].pc = "probe" /\ Records(r, o)
    /\ UNCHANGED <<now, row, offBy, memory, trying, checking, op, lapse>>

---------------------------------------------------------------------------
\* Record.

SaveTest(r) ==
    /\ rec[r].pc = "save"
    /\ row' = rec[r].test /\ Goes(r, "apply")
    /\ UNCHANGED <<now, offBy, memory, trying, checking, op, lapse>>

ApplySuccess(r) ==
    /\ rec[r].pc = "apply" /\ rec[r].test.is = "works"
    /\ failing' = Quiet /\ held' = 0 /\ recut' = FALSE /\ lapse' = rec[r].test.at
    /\ IF failing.at # 0 THEN Goes(r, "on") /\ UNCHANGED trying ELSE Ends(r)
    /\ UNCHANGED <<now, row, offBy, checking, op>>

HoldModel(until) == held' = IF until > held THEN until ELSE held

\* Mutant: a rate limit does not interrupt a failure that lasts.
SinceFirst(t) == IF failing.since # 0 THEN failing.since ELSE t.at

Since(t) ==
    IF t.is # "lasting" THEN 0 ELSE IF failing.since # 0 THEN failing.since ELSE t.at

\* Mutant: a failure's hold is left to the pool.
ApplyUnheld(r) ==
    /\ rec[r].pc = "apply" /\ rec[r].test.is # "works"
    /\ LET t == rec[r].test since == Since(t)
       IN  /\ failing' = [at |-> t.at, since |-> since]
           /\ lapse' = (IF t.is = "lasting" THEN lapse ELSE t.at) /\ recut' = FALSE
           /\ IF since # 0 /\ t.at - since >= AutoOffAfter /\ checking
                THEN Goes(r, "off") /\ UNCHANGED trying ELSE Ends(r)
    /\ UNCHANGED <<now, row, offBy, held, checking, op>>

ApplyFailure(r) ==
    /\ rec[r].pc = "apply" /\ rec[r].test.is # "works"
    /\ LET t == rec[r].test since == Since(t)
       IN  /\ failing' = [at |-> t.at, since |-> since] /\ HoldModel(t.at + 1)
           /\ lapse' = (IF t.is = "lasting" THEN lapse ELSE t.at) /\ recut' = FALSE
           /\ IF since # 0 /\ t.at - since >= AutoOffAfter /\ checking
                THEN Goes(r, "off") /\ UNCHANGED trying ELSE Ends(r)
    /\ UNCHANGED <<now, row, offBy, checking, op>>

\* SwitchModelOffAuto and SwitchModelOnAuto: the account is read, then its
\* row of this model written, if nobody else's is there.
ReadToSwitch(r) ==
    /\ rec[r].pc \in {"off", "on"}
    /\ IF (offBy = "on") = (rec[r].pc = "off")
         THEN Goes(r, IF rec[r].pc = "off" THEN "insert" ELSE "delete") /\ UNCHANGED trying
         ELSE Ends(r)
    /\ UNCHANGED <<now, row, offBy, memory, checking, op, lapse>>

SwitchOff(r) ==
    /\ rec[r].pc = "insert" /\ Ends(r)
    /\ offBy' = IF offBy = "on" THEN "auto" ELSE offBy
    /\ UNCHANGED <<now, row, memory, checking, op, lapse>>

\* Mutant: whoever switched it off.
SwitchOnAny(r) ==
    /\ rec[r].pc = "delete" /\ Ends(r)
    /\ offBy' = "on"
    /\ UNCHANGED <<now, row, memory, checking, op, lapse>>

SwitchOn(r) ==
    /\ rec[r].pc = "delete" /\ Ends(r)
    /\ offBy' = IF offBy = "auto" THEN "on" ELSE offBy
    /\ UNCHANGED <<now, row, memory, checking, op, lapse>>

---------------------------------------------------------------------------
\* The operator, the clock, and a restart.

\* SetAccountModel: the account is read, then its row deleted, inserted, or
\* made the operator's.
OperatorReads(to) ==
    /\ op = "idle"
    /\ op' = IF to = "on" THEN "delete" ELSE IF offBy = "on" THEN "insert" ELSE "update"
    /\ op' = "delete" => offBy # "on"
    /\ UNCHANGED <<now, row, offBy, memory, trying, checking, rec, lapse>>

OperatorWrites ==
    /\ op # "idle" /\ op' = "idle"
    /\ offBy' = CASE op = "delete" -> "on"
                  [] op = "insert" -> IF offBy = "on" THEN "operator" ELSE offBy
                  [] op = "update" -> IF offBy = "on" THEN "on" ELSE "operator"
    /\ UNCHANGED <<now, row, memory, trying, checking, rec, lapse>>

SwitchChecks ==
    /\ checking' = ~checking
    /\ UNCHANGED <<now, row, offBy, memory, trying, rec, op, lapse>>

NextTick ==
    /\ now < MaxNow /\ \A r \in Recorder : rec[r].pc \in {"idle", "due"}
    /\ now' = now + 1
    /\ UNCHANGED <<row, offBy, memory, trying, checking, rec, op, lapse>>

\* A restart, and Load: every goroutine's work is lost where it stood.
Restart ==
    /\ rec' = [r \in Recorder |-> AtRest] /\ trying' = FALSE /\ op' = "idle" /\ recut' = FALSE
    /\ LET failed == row.at # 0 /\ row.is # "works"
       IN  /\ failing' = IF failed THEN [at |-> row.at, since |-> IF row.is = "lasting" THEN row.at ELSE 0]
                                   ELSE Quiet
           /\ held' = IF failed THEN row.at + 1 ELSE 0
    /\ UNCHANGED <<now, row, offBy, checking, lapse>>

AvailNext ==
    \/ \E r \in Recorder :
         \/ ClientServed(r) \/ FindDue(r) \/ ScanAccount(r) \/ Try(r)
         \/ \E wait \in ReportWaits : RelayReports(r, wait)
         \/ RefusedAgain(r)
         \/ \E o \in Outcomes : OperatorTests(r, o) \/ ClientRefused(r, o) \/ ProbeEnds(r, o)
         \/ SaveTest(r) \/ ApplySuccess(r) \/ ApplyFailure(r)
         \/ ReadToSwitch(r) \/ SwitchOff(r) \/ SwitchOn(r)
    \/ \E to \in {"on", "off"} : OperatorReads(to)
    \/ OperatorWrites \/ SwitchChecks \/ NextTick \/ Restart

AvailSpec == AvailInit /\ [][AvailNext]_availVars

---------------------------------------------------------------------------
AvailTypeOK ==
    /\ now \in 1..MaxNow /\ held \in 0..(MaxNow + 2) /\ lapse \in 0..MaxNow
    /\ row \in [at : 0..MaxNow, is : Outcomes]
    /\ failing \in [at : 0..MaxNow, since : 0..MaxNow]
    /\ offBy \in {"on", "auto", "operator"} /\ op \in {"idle", "delete", "insert", "update"}
    /\ trying \in BOOLEAN /\ checking \in BOOLEAN /\ recut \in BOOLEAN

Settled == \A r \in Recorder : rec[r].pc \in {"idle", "due", "probe"}

\* "A failing model is routed around": with no result on its way, a model the
\* pool holds the account off is known to fail, and one known to fail is held
\* for a tick from the last failure at least - whatever order results were
\* applied in, and after a restart - unless a refusal too soon after that
\* failure to be recorded has set the hold anew.
RoutedAround ==
    Settled => IF failing.at = 0 THEN held = 0 ELSE held >= failing.at + 1 \/ recut

\* The gateway decides to switch a model off only when every result applied in
\* the last AutoOffAfter was a failure that lasts; and what the operator
\* switched off only the operator switches on, across the statements of both.
SwitchesEarned ==
    /\ \A r \in Recorder : (rec[r].pc = "apply" /\ rec'[r].pc = "off")
                                 => rec[r].test.at >= lapse + AutoOffAfter
    /\ (offBy = "operator" /\ offBy' # offBy) => op = "delete"

AvailabilityStep == RoutedAround' /\ SwitchesEarned

\* The routing agrees with what is known, whatever order results came in, and
\* no model is switched off or on that has not earned it.
AvailabilitySound == [][AvailabilityStep]_availVars

\* "It is checked on, and switched back on the first time it works": a model
\* the gateway switched off is still known to fail.  And "a failure holds the
\* account off the model until its next check", whatever the relay reports.
\* Neither is so of the code.
SwitchedBackOn == Settled /\ offBy = "auto" => failing.at # 0
HeldTillItsCheck == Settled /\ failing.at # 0 => held >= failing.at + 1
=============================================================================
