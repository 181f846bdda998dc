----------------------------- MODULE RowsProofs -----------------------------
(***************************************************************************)
(* Rows with several writers, none of which holds anything over the others *)
(* between its read and its write: whether a model is on, what a chat is   *)
(* called, the admin's password, a client's names, and the accounts that   *)
(* sign-ins add and renew.  What each writer may make of what it finds,    *)
(* for any number of them.                                                 *)
(***************************************************************************)
EXTENDS Availability, Titles, Operator, ClientNames, SignIn, LoopProofs, FiniteSetTheorems, TLAPS

---------------------------------------------------------------------------
(* Whether a model is on *)

Result == [at : Nat, is : Outcomes]
Record == [pc : {"idle", "due", "reported", "probe", "save", "apply", "on", "off", "insert", "delete"},
           tries : BOOLEAN, test : Result]

SwitchTypes ==
  /\ now \in Nat /\ held \in Nat /\ lapse \in Nat
  /\ row \in Result /\ failing \in [at : Nat, since : Nat] /\ recut \in BOOLEAN
  /\ op \in {"idle", "delete", "insert", "update"}
  /\ rec \in [Recorder -> Record]

\* A result under way is of this tick, and its row written before it is
\* applied; so the last lapse is in the row, or before it.
Dated ==
  /\ now >= 1 /\ lapse <= row.at /\ row.at <= now
  /\ \A r \in Recorder : /\ rec[r].pc \in {"save", "apply"} => rec[r].test.at = now
                         /\ rec[r].pc = "apply" => row.at = now

\* What is known to fail is held, or a failure that will hold it is under way;
\* what is held is known to fail, or the relay is on its way to say so.
FailureUnderWay ==
  \E r \in Recorder : rec[r].pc \in {"save", "apply"} /\ rec[r].test.is # "works"
Reporting == \E r \in Recorder : rec[r].pc = "reported"
Routed ==
  /\ (failing.at = 0 /\ held # 0) => Reporting
  /\ (failing.at # 0 /\ held < failing.at + 1) => FailureUnderWay \/ Reporting \/ recut

\* A failure that lasts began no earlier than the last lapse.
Lasting == failing.since # 0 => lapse <= failing.since

Switching == SwitchTypes /\ Dated /\ Routed /\ Lasting

\* One goroutine's step.
LEMMA OneRecords ==
  ASSUME SwitchTypes, NEW r \in Recorder, NEW x \in Record, rec' = [rec EXCEPT ![r] = x]
  PROVE  /\ rec' \in [Recorder -> Record] /\ rec'[r] = x
         /\ \A q \in Recorder : q # r => rec'[q] = rec[q]
BY DEF SwitchTypes

LEMMA Resting == AtRest \in Record /\ AtRest.pc = "idle"
BY DEF AtRest, Record, Result, Outcomes

LEMMA GoesOn ==
  ASSUME SwitchTypes, NEW r \in Recorder, NEW pc \in {"idle", "due", "reported", "apply", "on", "off", "insert", "delete"},
         Goes(r, pc)
  PROVE  /\ rec' \in [Recorder -> Record]
         /\ rec'[r].pc = pc /\ rec'[r].test = rec[r].test
         /\ \A q \in Recorder : q # r => rec'[q] = rec[q]
<1> DEFINE x == [rec[r] EXCEPT !.pc = pc]
<1>1. rec[r] \in Record
  BY DEF SwitchTypes
<1>2. x \in Record /\ x.pc = pc /\ x.test = rec[r].test
  BY <1>1 DEF Record
<1>3. rec' = [rec EXCEPT ![r] = x]
  BY DEF Goes
<1> HIDE DEF x
<1>4. QED
  BY <1>2, <1>3, OneRecords

LEMMA RecordsOne ==
  ASSUME SwitchTypes, NEW r \in Recorder, NEW o \in Outcomes, Records(r, o)
  PROVE  /\ rec' \in [Recorder -> Record]
         /\ rec'[r].pc = "save" /\ rec'[r].test = [at |-> now, is |-> o]
         /\ \A q \in Recorder : q # r => rec'[q] = rec[q]
<1> DEFINE x == [rec[r] EXCEPT !.pc = "save", !.test = [at |-> now, is |-> o]]
<1>1. rec[r] \in Record /\ [at |-> now, is |-> o] \in Result
  BY DEF SwitchTypes, Result
<1>2. x \in Record /\ x.pc = "save" /\ x.test = [at |-> now, is |-> o]
  BY <1>1 DEF Record
<1>3. rec' = [rec EXCEPT ![r] = x]
  BY DEF Records, Test, SwitchTypes
<1> HIDE DEF x
<1>4. QED
  BY <1>2, <1>3, OneRecords

LEMMA EndsOne ==
  ASSUME SwitchTypes, NEW r \in Recorder, Ends(r)
  PROVE  /\ rec' \in [Recorder -> Record] /\ rec'[r].pc = "idle"
         /\ \A q \in Recorder : q # r => rec'[q] = rec[q]
BY Resting, OneRecords DEF Ends

---------------------------------------------------------------------------
\* A step of one goroutine that leaves what is known alone, and whose result is
\* either none, or one of this tick with its row yet to be written.
LEMMA SwitchingGoes ==
  ASSUME Switching, NEW r \in Recorder, rec' \in [Recorder -> Record],
         \A q \in Recorder : q # r => rec'[q] = rec[q],
         rec[r].pc \notin {"save", "apply", "reported"},
         \/ rec'[r].pc \notin {"save", "apply"}
         \/ rec'[r].pc = "save" /\ rec'[r].test.at = now,
         UNCHANGED <<now, row, failing, held, recut, lapse>>, op' \in {"idle", "delete", "insert", "update"}
  PROVE  Switching' /\ (rec[r].pc = "apply" => rec'[r].pc # "off")
<1>1. SwitchTypes'
  BY DEF Switching, SwitchTypes
<1>2. Dated'
  BY DEF Switching, Dated
<1>3. Routed'
  <2>1. FailureUnderWay => FailureUnderWay'
    BY DEF FailureUnderWay
  <2>2. Reporting => Reporting'
    BY DEF Reporting
  <2>3. QED
    BY <2>1, <2>2 DEF Switching, Routed
<1>4. Lasting'
  BY DEF Switching, Lasting
<1>5. QED
  BY <1>1, <1>2, <1>3, <1>4 DEF Switching

\* The other goroutines decide nothing by the step of one.
OnlyOne(r) == \A q \in Recorder : q # r => rec'[q] = rec[q]
Earned == \A r \in Recorder : (rec[r].pc = "apply" /\ rec'[r].pc = "off")
                                  => rec[r].test.at >= lapse + AutoOffAfter

LEMMA SwitchingServed ==
  ASSUME Switching, NEW r \in Recorder, NEW o \in Outcomes,
         ClientServed(r) \/ OperatorTests(r, o) \/ ProbeEnds(r, o)
  PROVE  Switching' /\ Earned
<1>1. PICK x \in Outcomes : Records(r, x)
  BY DEF ClientServed, OperatorTests, ProbeEnds, Outcomes
<1>2. /\ rec[r].pc \notin {"save", "apply", "reported"} /\ op' = op
      /\ UNCHANGED <<now, row, failing, held, recut, lapse>>
  BY DEF ClientServed, OperatorTests, ProbeEnds, memory
<1>3. /\ rec' \in [Recorder -> Record] /\ OnlyOne(r)
      /\ rec'[r].pc = "save" /\ rec'[r].test = [at |-> now, is |-> x]
  BY <1>1, RecordsOne DEF Switching, OnlyOne
<1>4. rec'[r].test.at = now
  BY <1>3
<1>5. Switching'
  BY <1>2, <1>3, <1>4, SwitchingGoes DEF Switching, SwitchTypes, OnlyOne
<1>6. QED
  BY <1>2, <1>3, <1>5 DEF Earned, OnlyOne

LEMMA SwitchingRefused ==
  ASSUME Switching, NEW r \in Recorder, NEW o \in Outcomes, ClientRefused(r, o)
  PROVE  Switching' /\ Earned
<1>1. /\ rec' \in [Recorder -> Record] /\ OnlyOne(r)
      /\ rec'[r].pc = "save" /\ rec'[r].test = [at |-> now, is |-> o]
  BY RecordsOne DEF Switching, OnlyOne, ClientRefused
<1>2. /\ rec[r].pc \in {"idle", "reported"} /\ o # "works"
      /\ failing' = [at |-> now, since |-> failing.since]
      /\ UNCHANGED <<now, row, held, recut, lapse, op>>
  BY DEF ClientRefused
<1>3. now \in Nat /\ failing.since \in Nat
  BY DEF Switching, SwitchTypes
<1>4. failing'.at = now /\ failing'.since = failing.since
  BY <1>2
<1>5. rec'[r].test.at = now /\ rec'[r].test.is = o
  BY <1>1
<1>6. SwitchTypes'
  BY <1>1, <1>2, <1>3 DEF Switching, SwitchTypes
<1>7. Dated'
  BY <1>1, <1>2, <1>5 DEF Switching, Dated, OnlyOne
<1>8. Routed'
  <2>1. FailureUnderWay'
    BY <1>1, <1>2, <1>5 DEF FailureUnderWay
  <2>2. failing'.at # 0
    BY <1>3, <1>4 DEF Switching, Dated
  <2>3. QED
    BY <2>1, <2>2 DEF Routed
<1>9. Lasting'
  BY <1>2, <1>4 DEF Switching, Lasting
<1>10. QED
  BY <1>1, <1>2, <1>6, <1>7, <1>8, <1>9 DEF Switching, Earned, OnlyOne

\* A report leaves the model held, for as little as it likes, until Refused.
LEMMA SwitchingReported ==
  ASSUME Switching, NEW r \in Recorder, NEW wait \in ReportWaits, RelayReports(r, wait)
  PROVE  Switching' /\ Earned
<1>1. /\ rec' \in [Recorder -> Record] /\ OnlyOne(r) /\ rec'[r].pc = "reported"
  BY GoesOn DEF Switching, OnlyOne, RelayReports
<1>2. held' = now + wait /\ UNCHANGED <<now, row, failing, recut, lapse, op>>
  BY DEF RelayReports
<1>3. held' \in Nat
  BY <1>2 DEF Switching, SwitchTypes, ReportWaits
<1>4. SwitchTypes' /\ Dated' /\ Lasting'
  BY <1>1, <1>2, <1>3 DEF Switching, SwitchTypes, Dated, Lasting, OnlyOne
<1>5. Routed'
  BY <1>1 DEF Routed, Reporting
<1>6. QED
  BY <1>1, <1>4, <1>5 DEF Switching, Earned, OnlyOne

LEMMA SwitchingAgain ==
  ASSUME Switching, NEW r \in Recorder, RefusedAgain(r)
  PROVE  Switching' /\ Earned
<1>1. /\ rec' \in [Recorder -> Record] /\ OnlyOne(r) /\ rec'[r].pc = "idle"
  BY GoesOn DEF Switching, OnlyOne, RefusedAgain
<1>2. failing.at = now /\ recut' = TRUE /\ UNCHANGED <<now, row, failing, held, lapse, op>>
  BY DEF RefusedAgain
<1>3. SwitchTypes' /\ Dated' /\ Lasting'
  BY <1>1, <1>2 DEF Switching, SwitchTypes, Dated, Lasting, OnlyOne
<1>4. Routed'
  BY <1>2 DEF Routed, Switching, SwitchTypes, Dated
<1>5. QED
  BY <1>1, <1>3, <1>4 DEF Switching, Earned, OnlyOne

LEMMA SwitchingDue ==
  ASSUME Switching, NEW r \in Recorder,
         FindDue(r) \/ ScanAccount(r) \/ Try(r) \/ ReadToSwitch(r) \/ SwitchOff(r) \/ SwitchOn(r)
  PROVE  Switching' /\ Earned
<1>1. /\ rec[r].pc \notin {"save", "apply", "reported"} /\ op' = op
      /\ UNCHANGED <<now, row, failing, held, recut, lapse>>
  BY DEF FindDue, ScanAccount, Try, ReadToSwitch, SwitchOff, SwitchOn, memory
<1>2. /\ rec' \in [Recorder -> Record] /\ OnlyOne(r)
      /\ rec'[r].pc \notin {"save", "apply"}
  <2>1. CASE Try(r)
    <3> DEFINE x == [AtRest EXCEPT !.pc = "probe", !.tries = TRUE]
    <3>1. x \in Record /\ x.pc = "probe"
      BY DEF AtRest, Record, Result, Outcomes
    <3>2. rec' = [rec EXCEPT ![r] = AtRest] \/ rec' = [rec EXCEPT ![r] = x]
      BY <2>1, Zenon DEF Try
    <3> HIDE DEF x
    <3>3. QED
      BY <3>1, <3>2, Resting, OneRecords DEF Switching, OnlyOne
  <2>2. CASE FindDue(r) \/ ScanAccount(r)
    <3>1. Goes(r, "due")
      BY <2>2 DEF FindDue, ScanAccount
    <3>2. QED
      BY <3>1, GoesOn DEF Switching, OnlyOne
  <2>3. CASE ReadToSwitch(r)
    <3>1. Goes(r, "insert") \/ Goes(r, "delete") \/ Ends(r)
      BY <2>3 DEF ReadToSwitch
    <3>2. QED
      BY <3>1, GoesOn, EndsOne DEF Switching, OnlyOne
  <2>4. CASE SwitchOff(r) \/ SwitchOn(r)
    <3>1. Ends(r)
      BY <2>4 DEF SwitchOff, SwitchOn
    <3>2. QED
      BY <3>1, EndsOne DEF Switching, OnlyOne
  <2>5. QED
    BY <2>1, <2>2, <2>3, <2>4
<1>3. Switching'
  BY <1>1, <1>2, SwitchingGoes DEF Switching, SwitchTypes, OnlyOne
<1>4. QED
  BY <1>1, <1>2, <1>3 DEF Earned, OnlyOne

LEMMA SwitchingSaved ==
  ASSUME Switching, NEW r \in Recorder, SaveTest(r)
  PROVE  Switching' /\ Earned
<1>1. /\ rec' \in [Recorder -> Record] /\ OnlyOne(r)
      /\ rec'[r].pc = "apply" /\ rec'[r].test = rec[r].test
  BY GoesOn DEF SaveTest, Switching, OnlyOne
<1>2. /\ rec[r].pc = "save" /\ row' = rec[r].test
      /\ UNCHANGED <<now, failing, held, recut, lapse, op>>
  BY DEF SaveTest, memory
<1>3. rec[r].test \in Result /\ rec[r].test.at = now
  BY <1>2 DEF Switching, SwitchTypes, Dated, Record
<1>4. SwitchTypes'
  BY <1>1, <1>2, <1>3 DEF Switching, SwitchTypes
<1>5. Dated'
  <2>1. now \in Nat /\ now >= 1 /\ lapse \in Nat /\ row.at \in Nat /\ lapse <= now
    BY DEF Switching, SwitchTypes, Dated, Result
  <2>2. now' >= 1 /\ lapse' <= row'.at /\ row'.at <= now'
    BY <1>2, <1>3, <2>1
  <2>3. QED
    BY <1>1, <1>2, <1>3, <2>2 DEF Switching, Dated, OnlyOne
<1>6. Routed'
  <2>1. FailureUnderWay => FailureUnderWay'
    BY <1>1, <1>2 DEF FailureUnderWay, OnlyOne
  <2>2. Reporting => Reporting'
    BY <1>1, <1>2 DEF Reporting, OnlyOne
  <2>3. QED
    BY <1>2, <2>1, <2>2 DEF Switching, Routed
<1>7. Lasting'
  BY <1>2 DEF Switching, Lasting
<1>8. QED
  BY <1>1, <1>2, <1>4, <1>5, <1>6, <1>7 DEF Switching, Earned, OnlyOne

LEMMA SwitchingSucceeds ==
  ASSUME Switching, NEW r \in Recorder, ApplySuccess(r)
  PROVE  Switching' /\ Earned
<1>1. /\ rec' \in [Recorder -> Record] /\ OnlyOne(r) /\ rec'[r].pc \in {"on", "idle"}
  <2>1. Goes(r, "on") \/ Ends(r)
    BY DEF ApplySuccess
  <2>2. QED
    BY <2>1, GoesOn, EndsOne DEF Switching, OnlyOne
<1>2. /\ rec[r].pc = "apply" /\ failing' = Quiet /\ held' = 0 /\ recut' = FALSE /\ lapse' = rec[r].test.at
      /\ UNCHANGED <<now, row, op>>
  BY DEF ApplySuccess
<1>3. Quiet.at = 0 /\ Quiet.since = 0 /\ Quiet \in [at : Nat, since : Nat]
  BY DEF Quiet
<1>4. rec[r].test.at = now /\ row.at = now /\ now \in Nat
  BY <1>2 DEF Switching, SwitchTypes, Dated
<1>5. SwitchTypes'
  BY <1>1, <1>2, <1>3, <1>4 DEF Switching, SwitchTypes
<1>6. Dated'
  BY <1>1, <1>2, <1>4 DEF Switching, Dated, OnlyOne
<1>7. Routed' /\ Lasting'
  BY <1>2, <1>3 DEF Routed, Lasting
<1>8. QED
  BY <1>1, <1>5, <1>6, <1>7 DEF Switching, Earned, OnlyOne

\* A failure switches the model off only two ticks or more after the one that
\* it, and no lapse since, has lasted from.
LEMMA SwitchingFails ==
  ASSUME Switching, NEW r \in Recorder, ApplyFailure(r)
  PROVE  Switching' /\ Earned
<1> DEFINE t == rec[r].test
           since == Since(t)
<1>1. /\ rec[r].pc = "apply" /\ t.is # "works"
      /\ failing' = [at |-> t.at, since |-> since] /\ HoldModel(t.at + 1)
      /\ lapse' = (IF t.is = "lasting" THEN lapse ELSE t.at) /\ recut' = FALSE
      /\ UNCHANGED <<now, row, op>>
  BY DEF ApplyFailure
<1>2. /\ t.at = now /\ row.at = now /\ now \in Nat /\ now >= 1
      /\ lapse \in Nat /\ lapse <= now /\ held \in Nat /\ failing.since \in Nat
  BY <1>1 DEF Switching, SwitchTypes, Dated, Result
<1>3. since \in Nat /\ (since # 0 => (lapse' = lapse /\ lapse <= since))
      /\ (since # 0 => (since = failing.since \/ since = now))
  BY <1>1, <1>2 DEF Since, Switching, Lasting
<1>4. \/ since # 0 /\ t.at - since >= AutoOffAfter /\ Goes(r, "off")
      \/ Ends(r)
  BY Zenon DEF ApplyFailure
<1>5. failing'.at = now /\ failing'.since = since /\ failing' \in [at : Nat, since : Nat]
  <2>1. failing' = [at |-> now, since |-> since]
    BY <1>1, <1>2
  <2> HIDE DEF since, t
  <2>2. QED
    BY <1>2, <1>3, <2>1
<1> HIDE DEF since
<1>6. /\ rec' \in [Recorder -> Record] /\ OnlyOne(r)
      /\ \/ rec'[r].pc = "idle"
         \/ rec'[r].pc = "off" /\ since # 0 /\ t.at - since >= AutoOffAfter
  BY <1>4, GoesOn, EndsOne DEF Switching, OnlyOne
<1>7. lapse' \in Nat /\ lapse' <= now
  BY <1>1, <1>2
<1>8. held' \in Nat /\ held' >= now + 1
  <2>1. held' = (IF t.at + 1 > held THEN t.at + 1 ELSE held)
    BY <1>1 DEF HoldModel
  <2>2. held' = (IF now + 1 > held THEN now + 1 ELSE held)
    BY <1>2, <2>1
  <2>3. QED
    BY <1>2, <2>2
<1>9. SwitchTypes'
  BY <1>1, <1>5, <1>6, <1>7, <1>8 DEF Switching, SwitchTypes
<1>10. Dated'
  BY <1>1, <1>2, <1>6, <1>7 DEF Switching, Dated, OnlyOne
<1>11. Routed'
  BY <1>2, <1>5, <1>8 DEF Routed
<1>12. Lasting'
  BY <1>3, <1>5 DEF Lasting
<1>13. Earned
  <2>1. SUFFICES ASSUME NEW q \in Recorder, rec[q].pc = "apply", rec'[q].pc = "off"
                 PROVE  rec[q].test.at >= lapse + AutoOffAfter
    BY DEF Earned
  <2>2. q = r
    BY <1>6, <2>1 DEF OnlyOne
  <2>3. since # 0 /\ t.at - since >= AutoOffAfter /\ lapse <= since
    BY <1>3, <1>6, <2>1, <2>2
  <2>4. QED
    BY <1>2, <1>3, <2>2, <2>3 DEF AutoOffAfter
<1>14. QED
  BY <1>9, <1>10, <1>11, <1>12, <1>13 DEF Switching

---------------------------------------------------------------------------
LEMMA SwitchingOthers ==
  ASSUME Switching,
         \/ \E to \in {"on", "off"} : OperatorReads(to)
         \/ OperatorWrites \/ SwitchChecks \/ UNCHANGED availVars
  PROVE  Switching' /\ Earned
<1>1. UNCHANGED <<now, row, failing, held, recut, lapse, rec>>
  BY DEF OperatorReads, OperatorWrites, SwitchChecks, availVars, memory
<1>2. op' \in {"idle", "delete", "insert", "update"}
  BY DEF OperatorReads, OperatorWrites, SwitchChecks, availVars, Switching, SwitchTypes
<1>3. SwitchTypes' /\ Dated' /\ Routed' /\ Lasting'
  BY <1>1, <1>2 DEF Switching, SwitchTypes, Dated, Routed, FailureUnderWay, Reporting, Lasting
<1>4. QED
  BY <1>1, <1>3 DEF Switching, Earned

LEMMA SwitchingTicks ==
  ASSUME Switching, NextTick
  PROVE  Switching' /\ Earned
<1>1. /\ \A r \in Recorder : rec[r].pc \in {"idle", "due"}
      /\ now' = now + 1 /\ UNCHANGED <<row, failing, held, recut, lapse, rec, op>>
  BY DEF NextTick, memory
<1>2. now \in Nat /\ row.at \in Nat
  BY DEF Switching, SwitchTypes, Result
<1>3. SwitchTypes' /\ Dated'
  BY <1>1, <1>2 DEF Switching, SwitchTypes, Dated
<1>4. Routed' /\ Lasting'
  BY <1>1 DEF Switching, Routed, FailureUnderWay, Reporting, Lasting
<1>5. QED
  BY <1>1, <1>3, <1>4 DEF Switching, Earned

\* What a restart reads of the row: a failure that lasts, from then on.
LEMMA SwitchingRestarts ==
  ASSUME Switching, Restart
  PROVE  Switching' /\ Earned
<1> DEFINE failed == row.at # 0 /\ row.is # "works"
           since == IF row.is = "lasting" THEN row.at ELSE 0
<1>1. /\ rec' = [r \in Recorder |-> AtRest] /\ op' = "idle" /\ recut' = FALSE
      /\ failing' = (IF failed THEN [at |-> row.at, since |-> since] ELSE Quiet)
      /\ held' = (IF failed THEN row.at + 1 ELSE 0)
      /\ UNCHANGED <<now, row, lapse>>
  BY DEF Restart
<1>2. now \in Nat /\ row.at \in Nat /\ row.is \in Outcomes /\ lapse \in Nat /\ lapse <= row.at
  BY DEF Switching, SwitchTypes, Dated, Result
<1>3. since \in Nat /\ (since # 0 => since = row.at)
  BY <1>2
<1>4. Quiet.at = 0 /\ Quiet.since = 0 /\ Quiet \in [at : Nat, since : Nat]
  BY DEF Quiet
<1> HIDE DEF since
<1>5. /\ failing' \in [at : Nat, since : Nat] /\ held' \in Nat
      /\ \/ failing'.at = 0 /\ failing'.since = 0 /\ held' = 0
         \/ failing'.at = row.at /\ failing'.since = since /\ held' = row.at + 1 /\ row.at # 0
  <2>1. CASE failed
    <3>1. failing' = [at |-> row.at, since |-> since] /\ held' = row.at + 1
      BY <1>1, <2>1
    <3>2. QED
      BY <1>2, <1>3, <2>1, <3>1
  <2>2. CASE ~failed
    BY <1>1, <1>4, <2>2
  <2>3. QED
    BY <2>1, <2>2
<1>6. rec' \in [Recorder -> Record] /\ \A r \in Recorder : rec'[r].pc = "idle"
  BY <1>1, Resting
<1>7. SwitchTypes' /\ Dated'
  BY <1>1, <1>5, <1>6 DEF Switching, SwitchTypes, Dated
<1>8. Routed' /\ Lasting'
  BY <1>1, <1>2, <1>3, <1>5 DEF Routed, Lasting
<1>9. QED
  BY <1>6, <1>7, <1>8 DEF Switching, Earned

LEMMA SwitchingSteps == ASSUME Switching, [AvailNext]_availVars PROVE Switching' /\ Earned
<1>1. ASSUME NEW r \in Recorder, NEW o \in Outcomes,
             \/ OperatorTests(r, o) \/ ProbeEnds(r, o) \/ ClientRefused(r, o)
      PROVE  Switching' /\ Earned
  BY <1>1, SwitchingServed, SwitchingRefused
<1>3. ASSUME NEW r \in Recorder, RefusedAgain(r) \/ \E wait \in ReportWaits : RelayReports(r, wait)
      PROVE  Switching' /\ Earned
  BY <1>3, SwitchingAgain, SwitchingReported
<1>2. ASSUME NEW r \in Recorder,
             \/ ClientServed(r) \/ FindDue(r) \/ ScanAccount(r) \/ Try(r)
             \/ SaveTest(r) \/ ApplySuccess(r) \/ ApplyFailure(r)
             \/ ReadToSwitch(r) \/ SwitchOff(r) \/ SwitchOn(r)
      PROVE  Switching' /\ Earned
  <2>1. "works" \in Outcomes
    BY DEF Outcomes
  <2>2. QED
    BY <1>2, <2>1, SwitchingServed, SwitchingDue, SwitchingSaved, SwitchingSucceeds, SwitchingFails
<1>4. QED
  BY <1>1, <1>2, <1>3, SwitchingOthers, SwitchingTicks, SwitchingRestarts, Zenon DEF AvailNext

LEMMA SwitchingBegins == AvailInit => Switching
<1> SUFFICES ASSUME AvailInit PROVE Switching
  OBVIOUS
<1>1. Quiet.at = 0 /\ Quiet.since = 0 /\ Quiet \in [at : Nat, since : Nat]
  BY DEF Quiet
<1>2. row \in Result /\ row.at = 0
  BY DEF AvailInit, Result, Outcomes
<1>3. SwitchTypes
  BY <1>1, <1>2, Resting DEF AvailInit, SwitchTypes
<1>4. Dated /\ Routed /\ Lasting
  BY <1>1, <1>2, Resting DEF AvailInit, Dated, Routed, Lasting
<1>5. QED
  BY <1>3, <1>4 DEF Switching

\* What the operator switched off only the operator switches on.
LEMMA OnlyTheirs ==
  ASSUME Switching, [AvailNext]_availVars, offBy = "operator", offBy' # offBy
  PROVE  op = "delete"
<1>1. ASSUME NEW r \in Recorder, SwitchOff(r) \/ SwitchOn(r) PROVE FALSE
  BY <1>1 DEF SwitchOff, SwitchOn
<1>2. CASE OperatorWrites
  BY <1>2 DEF OperatorWrites, Switching, SwitchTypes
<1>3. QED
  BY <1>1, <1>2 DEF AvailNext, availVars, ClientServed, FindDue, ScanAccount, Try, OperatorTests,
     RelayReports, ClientRefused, RefusedAgain, ProbeEnds, SaveTest, ApplySuccess, ApplyFailure, ReadToSwitch, OperatorReads,
     SwitchChecks, NextTick, Restart

\* With no result on its way a model is known to fail exactly when it is held;
\* one is switched off only for failures that last, and back on by whoever
\* switched it off: in whatever order the results of any number of goroutines
\* come in, however many ticks pass, and across restarts.
THEOREM AvailabilitySoundHolds == AvailSpec => AvailabilitySound
<1>1. AvailInit => Switching
  BY SwitchingBegins
<1>2. Switching /\ [AvailNext]_availVars => Switching'
  BY SwitchingSteps
<1>3. ASSUME Switching, Switching', [AvailNext]_availVars PROVE [AvailabilityStep]_availVars
  <2>1. RoutedAround'
    <3>1. Settled' => ~FailureUnderWay' /\ ~Reporting'
      BY DEF Settled, FailureUnderWay, Reporting
    <3>2. held' \in Nat /\ failing'.at \in Nat /\ Routed'
      BY <1>3 DEF Switching, SwitchTypes
    <3>3. QED
      BY <3>1, <3>2 DEF RoutedAround, Routed
  <2>2. Earned
    BY <1>3, SwitchingSteps
  <2>3. (offBy = "operator" /\ offBy' # offBy) => op = "delete"
    BY <1>3, OnlyTheirs
  <2>4. QED
    BY <2>1, <2>2, <2>3 DEF AvailabilityStep, SwitchesEarned, Earned
<1>4. QED
  BY <1>1, <1>2, <1>3, PTL DEF AvailSpec, AvailabilitySound

---------------------------------------------------------------------------
(* What a chat is called *)

Said  == {"typed", "note", "reply", "call"}
Namers == {"nobody", "client", "gateway", "operator"}
TitleRow == [by : Namers, manual : BOOLEAN, requests : Nat, turns : Nat]
TitlerRun == [pc : {"idle", "read", "count", "ask", "write"}, body : Seq(Said),
              requests : Nat, read : TitleRow, raced : BOOLEAN]

TitleTypes ==
  /\ talk \in Seq(Said) /\ filed \in Nat
  /\ title \in TitleRow /\ titler \in [Worker -> TitlerRun]

\* What the user typed of a body, which ends.
LEMMA TypedEnds ==
  ASSUME NEW body \in Seq(Said)
  PROVE  /\ TypedIn(body) \in SUBSET Nat /\ IsFiniteSet(TypedIn(body))
         /\ UserTurns(body) \in Nat
<1>1. Len(body) \in Nat /\ DOMAIN body = 1..Len(body)
  OBVIOUS
<1>2. TypedIn(body) \subseteq 1..Len(body)
  BY <1>1 DEF TypedIn
<1>3. IsFiniteSet(1..Len(body))
  BY <1>1, FS_Interval
<1>4. IsFiniteSet(TypedIn(body))
  BY <1>2, <1>3, FS_Subset
<1>5. UserTurns(body) \in Nat
  BY <1>4, FS_CardinalityType DEF UserTurns
<1>6. QED
  BY <1>2, <1>4, <1>5

\* With two messages of the user's in a body, the opening exchange ends before
\* the second.
LEMMA OpeningEnds ==
  ASSUME NEW body \in Seq(Said), UserTurns(body) >= 2
  PROVE  \E j \in TypedIn(body) : \A i \in OpeningExchange(body) : i < j
<1> DEFINE T == TypedIn(body)
<1>1. T \in SUBSET Nat /\ IsFiniteSet(T) /\ Cardinality(T) \in Nat /\ Cardinality(T) >= 2
  BY TypedEnds DEF UserTurns
<1>2. \A i \in OpeningExchange(body) : i \in Nat
  BY DEF OpeningExchange
<1>3. \A i \in T : body[i] = "typed"
  BY DEF TypedIn
<1>4. \A i \in OpeningExchange(body) :
         \/ i \in T /\ \A k \in T : i <= k
         \/ i \notin T /\ Cardinality({k \in T : k < i}) = 1
  BY DEF OpeningExchange, TypedIn
<1> HIDE DEF T
<1>5. T # {}
  BY <1>1, FS_EmptySet
<1>6. PICK first \in T : \A k \in T : first <= k
  BY <1>1, <1>5, LeastNumber
<1>7. T \ {first} # {}
  <2>1. Cardinality(T \ {first}) = Cardinality(T) - 1
    BY <1>1, <1>6, FS_RemoveElement
  <2>2. Cardinality(T \ {first}) # 0
    BY <1>1, <2>1
  <2>3. QED
    BY <2>2, FS_EmptySet, Zenon
<1>8. PICK second \in T \ {first} : \A k \in T \ {first} : second <= k
  <2>1. T \ {first} \in SUBSET Nat
    BY <1>1
  <2>2. QED
    BY <1>7, <2>1, LeastNumber
<1>9. first \in Nat /\ second \in Nat /\ first < second
  BY <1>1, <1>6, <1>8
<1>10. ASSUME NEW i \in OpeningExchange(body) PROVE i < second
  <2>1. CASE i \in T /\ \A k \in T : i <= k
    <3>1. i <= first
      BY <1>6, <2>1
    <3>2. QED
      BY <1>2, <1>9, <3>1
  <2>2. CASE i \notin T /\ Cardinality({k \in T : k < i}) = 1
    <3> DEFINE B == {k \in T : k < i}
    <3>1. SUFFICES ASSUME ~ (i < second) PROVE FALSE
      OBVIOUS
    <3>2. second < i
      BY <1>2, <1>8, <1>9, <2>2, <3>1
    <3>3. first < i
      BY <1>2, <1>9, <3>2
    <3>4. first \in B /\ second \in B /\ first # second
      BY <1>6, <1>8, <3>2, <3>3
    <3>5. IsFiniteSet(B)
      <4>1. B \subseteq T
        OBVIOUS
      <4>2. QED
        BY <1>1, <4>1, FS_Subset
    <3> HIDE DEF B
    <3>6. Cardinality(B \ {first}) = Cardinality(B) - 1 /\ IsFiniteSet(B \ {first})
      BY <3>4, <3>5, FS_RemoveElement
    <3>7. Cardinality(B) = 1
      BY <2>2 DEF B
    <3>8. B \ {first} = {}
      <4>1. Cardinality(B \ {first}) = 0
        BY <3>6, <3>7
      <4>2. QED
        BY <3>6, <4>1, FS_EmptySet, Zenon
    <3>9. QED
      BY <3>4, <3>8
  <2>3. QED
    BY <1>4, <2>1, <2>2
<1>11. QED
  BY <1>8, <1>10 DEF T

\* A row says who wrote it: what the operator typed is marked, and only what
\* the gateway wrote has a count of requests.
Signed(t) ==
  /\ t.by = "operator" => t.manual
  /\ t.by \in {"nobody", "client"} => t.requests = 0

\* A run that nobody has raced has read the row as it is; and one that means to
\* replace a name has found that due.
Naming(run, t) ==
  /\ (run.pc \in {"count", "ask", "write"} /\ ~run.raced) => run.read = t
  /\ (run.pc \in {"ask", "write"} /\ run.read # Untitled)
         => RenameDue(run.read, UserTurns(run.body))

Titling == TitleTypes /\ Signed(title) /\ \A w \in Worker : Naming(titler[w], title)

LEMMA NoTitles ==
  /\ Untitled \in TitleRow /\ Signed(Untitled) /\ Untitled.by = "nobody"
  /\ NoRun \in TitlerRun /\ NoRun.pc = "idle" /\ NoRun.body = <<>>
  /\ \A t : Naming(NoRun, t)
<1>1. Untitled \in TitleRow /\ Signed(Untitled) /\ Untitled.by = "nobody"
  BY DEF Untitled, TitleRow, Namers, Signed
<1>2. <<>> \in Seq(Said)
  OBVIOUS
<1> HIDE DEF Untitled
<1>3. NoRun \in TitlerRun /\ NoRun.pc = "idle" /\ NoRun.body = <<>>
  BY <1>1, <1>2 DEF NoRun, TitlerRun, Untitled
<1>4. QED
  BY <1>1, <1>3 DEF Naming

\* A step of one run, which leaves the row alone.
LEMMA RunSteps ==
  ASSUME Titling, NEW w \in Worker, NEW x \in TitlerRun, Naming(x, title),
         titler' = [titler EXCEPT ![w] = x], title' = title,
         talk' \in Seq(Said), filed' \in Nat
  PROVE  Titling'
<1>1. /\ titler' \in [Worker -> TitlerRun] /\ titler'[w] = x
      /\ \A v \in Worker : v # w => titler'[v] = titler[v]
  BY DEF Titling, TitleTypes
<1>2. TitleTypes'
  BY <1>1 DEF Titling, TitleTypes
<1>3. \A v \in Worker : Naming(titler'[v], title')
  BY <1>1 DEF Titling
<1>4. QED
  BY <1>2, <1>3 DEF Titling, Signed, Naming

\* A write of the row, by the run of w if there is one of that name.
LEMMA RowWritten ==
  ASSUME Titling, NEW t \in TitleRow, Signed(t), NEW w, Writes(t, w), UNCHANGED <<talk, filed>>
  PROVE  Titling' /\ \A v \in Worker : v # w => titler'[v].pc = titler[v].pc
<1> DEFINE Raced(v) == titler[v].raced \/ (titler[v].pc \notin {"idle", "read"} /\ t # title)
           Then(v) == [titler[v] EXCEPT !.raced = Raced(v)]
<1>1. /\ title' = t
      /\ titler' = [v \in Worker |-> IF v = w THEN NoRun ELSE Then(v)]
  BY DEF Writes
<1>2. ASSUME NEW v \in Worker
      PROVE  /\ Then(v) \in TitlerRun /\ Naming(Then(v), t)
             /\ Then(v).pc = titler[v].pc
  <2>1. titler[v] \in TitlerRun
    BY DEF Titling, TitleTypes
  <2>2. Raced(v) \in BOOLEAN
    BY <2>1, Zenon DEF TitlerRun
  <2>3. ~Raced(v) => (~titler[v].raced /\ (titler[v].pc \in {"count", "ask", "write"} => t = title))
    BY Zenon
  <2> HIDE DEF Raced
  <2>4. /\ Then(v) \in TitlerRun /\ Then(v).raced = Raced(v) /\ Then(v).pc = titler[v].pc
        /\ Then(v).read = titler[v].read /\ Then(v).body = titler[v].body
    BY <2>1, <2>2 DEF TitlerRun
  <2> HIDE DEF Then
  <2>5. Naming(titler[v], title)
    BY DEF Titling
  <2>6. QED
    BY <2>3, <2>4, <2>5 DEF Naming
<1> HIDE DEF Then
<1>3. titler' \in [Worker -> TitlerRun] /\ \A v \in Worker : Naming(titler'[v], t)
  BY <1>1, <1>2, NoTitles
<1>4. TitleTypes'
  BY <1>1, <1>3 DEF Titling, TitleTypes
<1>5. \A v \in Worker : v # w => titler'[v].pc = titler[v].pc
  BY <1>1, <1>2
<1>6. Signed(title)' /\ \A v \in Worker : Naming(titler[v], title)'
  BY <1>1, <1>3 DEF Signed, Naming
<1>7. QED
  BY <1>4, <1>5, <1>6 DEF Titling

---------------------------------------------------------------------------
LEMMA TitlingBegins == TitlesInit => Titling
<1> SUFFICES ASSUME TitlesInit PROVE Titling
  OBVIOUS
<1>1. talk \in Seq(Said)
  BY DEF TitlesInit, Said
<1>2. TitleTypes
  BY <1>1, NoTitles DEF TitlesInit, TitleTypes
<1>3. QED
  BY <1>2, NoTitles DEF TitlesInit, Titling

LEMMA TitlingFiles ==
  ASSUME Titling, NEW n, Files(n)
  PROVE  filed' \in Nat
BY DEF Titling, TitleTypes, Files

\* What talks, files or prunes events, and the clock.
LEMMA TitlingAlone ==
  ASSUME Titling, UNCHANGED <<title, titler>>, talk' \in Seq(Said), filed' \in Nat
  PROVE  Titling'
BY DEF Titling, TitleTypes, Signed, Naming

LEMMA TitlingConsiders ==
  ASSUME Titling, NEW w \in Worker, NEW i \in DOMAIN talk, NEW n, Consider(w, SubSeq(talk, 1, i), n)
  PROVE  Titling'
<1> DEFINE body == SubSeq(talk, 1, i)
           x == [NoRun EXCEPT !.pc = "read", !.body = body]
<1>1. body \in Seq(Said)
  BY SubSeqProperties DEF Titling, TitleTypes
<1>2. filed' \in Nat /\ title' = title /\ talk' = talk
  BY TitlingFiles DEF Consider
<1> HIDE DEF body
<1>3. x \in TitlerRun /\ x.pc = "read"
  BY <1>1, NoTitles DEF TitlerRun
<1>4. titler' = [titler EXCEPT ![w] = x] \/ titler' = titler
  BY Zenon DEF Consider, Steps, body
<1> HIDE DEF x
<1>5. Naming(x, title)
  BY <1>3 DEF Naming
<1>6. QED
  BY <1>2, <1>3, <1>4, <1>5, RunSteps, TitlingAlone DEF Titling, TitleTypes

LEMMA TitlingReads ==
  ASSUME Titling, NEW w \in Worker, ReadTitle(w)
  PROVE  Titling'
<1> DEFINE x == [titler[w] EXCEPT !.pc = "count", !.read = title]
<1>1. titler[w] \in TitlerRun /\ title \in TitleRow
  BY DEF Titling, TitleTypes
<1>2. x \in TitlerRun /\ x.pc = "count" /\ x.read = title
  BY <1>1 DEF TitlerRun
<1>3. titler' = [titler EXCEPT ![w] = x] /\ UNCHANGED <<title, talk, filed>>
  BY DEF ReadTitle, Steps
<1> HIDE DEF x
<1>4. Naming(x, title)
  BY <1>2 DEF Naming
<1>5. QED
  BY <1>2, <1>3, <1>4, RunSteps DEF Titling, TitleTypes

LEMMA TitlingRuns ==
  ASSUME Titling, NEW w \in Worker, TitlerRuns(w)
  PROVE  Titling'
<1> DEFINE x == [titler[w] EXCEPT !.pc = "ask", !.requests = filed]
           rename == titler[w].read # Untitled
           due == rename => (RenameDue(titler[w].read, UserTurns(titler[w].body)) /\ MayRename(w))
<1>1. titler[w] \in TitlerRun /\ filed \in Nat /\ Naming(titler[w], title)
  BY DEF Titling, TitleTypes
<1>2. /\ x \in TitlerRun /\ x.pc = "ask" /\ x.read = titler[w].read
      /\ x.body = titler[w].body /\ x.raced = titler[w].raced
  BY <1>1 DEF TitlerRun
<1>3. /\ titler[w].pc = "count" /\ UNCHANGED <<title, talk, filed>>
      /\ \/ due /\ titler' = [titler EXCEPT ![w] = x]
         \/ titler' = [titler EXCEPT ![w] = NoRun]
  BY Zenon DEF TitlerRuns, Steps, ReleaseTitler
<1> HIDE DEF x
<1>4. due => Naming(x, title)
  BY <1>1, <1>2, <1>3 DEF Naming
<1> HIDE DEF due
<1>5. QED
  BY <1>2, <1>3, <1>4, NoTitles, RunSteps DEF Titling, TitleTypes

LEMMA TitlingNames ==
  ASSUME Titling, NEW w \in Worker, NEW n, Named(w, n)
  PROVE  Titling'
<1> DEFINE x == [titler[w] EXCEPT !.pc = "write"]
<1>1. titler[w] \in TitlerRun /\ Naming(titler[w], title) /\ filed' \in Nat
  BY TitlingFiles DEF Titling, TitleTypes, Named
<1>2. /\ x \in TitlerRun /\ x.pc = "write" /\ x.read = titler[w].read
      /\ x.body = titler[w].body /\ x.raced = titler[w].raced
  BY <1>1 DEF TitlerRun
<1>3. titler[w].pc = "ask" /\ titler' = [titler EXCEPT ![w] = x] /\ UNCHANGED <<title, talk>>
  BY DEF Named, Steps
<1> HIDE DEF x
<1>4. Naming(x, title)
  BY <1>1, <1>2, <1>3 DEF Naming
<1>5. QED
  BY <1>1, <1>2, <1>3, <1>4, RunSteps DEF Titling, TitleTypes

LEMMA TitlingGone ==
  ASSUME Titling, NEW w \in Worker, NEW n, NotNamed(w, n) \/ WorkerGone(w)
  PROVE  Titling' /\ title' = title
<1>1. filed' \in Nat /\ UNCHANGED <<title, talk>>
  BY TitlingFiles DEF NotNamed, WorkerGone, Titling, TitleTypes
<1>2. titler' = [titler EXCEPT ![w] = NoRun]
  BY DEF NotNamed, WorkerGone, ReleaseTitler
<1>3. QED
  BY <1>1, <1>2, NoTitles, RunSteps DEF Titling, TitleTypes

---------------------------------------------------------------------------
\* What a write may put in the row's place.
InPlace(t, w) ==
  (t # title /\ title # Untitled /\ ~titler[w].raced) =>
      /\ title.by = "gateway" /\ title.turns < 2 /\ t.turns >= 2
      /\ \E j \in TypedIn(titler[w].body) : \A i \in OpeningExchange(titler[w].body) : i < j

LEMMA TitlingRetitles ==
  ASSUME Titling, NEW w \in Worker, RetitleChat(w)
  PROVE  /\ Titling' /\ title'.by = "gateway" /\ InPlace(title', w)
         /\ \A v \in Worker : v # w => titler'[v].pc = titler[v].pc
<1> DEFINE turns == UserTurns(titler[w].body)
           t == [by |-> "gateway", manual |-> FALSE, requests |-> titler[w].requests, turns |-> turns]
<1>1. titler[w] \in TitlerRun /\ Naming(titler[w], title) /\ Signed(title) /\ title \in TitleRow
  BY DEF Titling, TitleTypes
<1>2. titler[w].body \in Seq(Said) /\ titler[w].requests \in Nat
  BY <1>1 DEF TitlerRun
<1>3. turns \in Nat
  BY <1>2, TypedEnds
<1>4. titler[w].pc = "write" /\ Writes(t, w) /\ UNCHANGED <<talk, filed>>
  BY DEF RetitleChat
<1>5. title' = t
  BY <1>4 DEF Writes
<1>6. t \in TitleRow /\ Signed(t) /\ t.by = "gateway" /\ t.turns = turns
  <2> HIDE DEF turns
  <2>1. QED
    BY <1>2, <1>3 DEF TitleRow, Namers, Signed
<1> HIDE DEF t
<1>7. Titling' /\ \A v \in Worker : v # w => titler'[v].pc = titler[v].pc
  BY <1>4, <1>6, RowWritten
<1>8. InPlace(t, w)
  <2>1. SUFFICES ASSUME title # Untitled, ~titler[w].raced
                 PROVE  /\ title.by = "gateway" /\ title.turns < 2 /\ t.turns >= 2
                        /\ \E j \in TypedIn(titler[w].body) :
                              \A i \in OpeningExchange(titler[w].body) : i < j
    BY DEF InPlace
  <2>2. titler[w].read = title
    BY <1>1, <1>4, <2>1 DEF Naming
  <2>3. RenameDue(title, turns)
    BY <1>1, <1>4, <2>1, <2>2 DEF Naming
  <2>4. ~title.manual /\ title.requests > 0 /\ title.turns < 2 /\ turns >= 2
    BY <2>3, Zenon DEF RenameDue
  <2>5. title.by \in Namers /\ title.by # "operator"
    BY <1>1, <2>4 DEF Signed, TitleRow
  <2>6. title.requests # 0
    BY <1>1, <2>4 DEF TitleRow
  <2>7. title.by = "gateway"
    BY <1>1, <2>5, <2>6 DEF Signed, Namers
  <2>8. QED
    BY <1>2, <1>6, <2>4, <2>7, OpeningEnds
<1>9. QED
  BY <1>5, <1>6, <1>7, <1>8

\* The client, the operator and the pruner.
LEMMA TitlingOthers ==
  ASSUME Titling, SetClientTitle \/ SetManualTitle \/ PruneChatTitles
  PROVE  /\ Titling' /\ (title' # title => title'.by # "gateway")
         /\ (title'.by = "client" /\ title'.by # title.by) => title.by \in {"nobody", "gateway"}
         /\ (title'.by = "nobody" /\ title.by # "nobody") => filed = 0
<1>1. title \in TitleRow /\ Signed(title)
  BY DEF Titling, TitleTypes
<1>2. CASE SetClientTitle
  <2> DEFINE t == [Untitled EXCEPT !.by = "client"]
  <2>1. t \in TitleRow /\ Signed(t) /\ t.by = "client"
    BY DEF Untitled, TitleRow, Namers, Signed
  <2>2. CASE (title = Untitled \/ (~title.manual /\ title.requests > 0)) /\ Writes(t, 0)
    <3>1. title' = t /\ UNCHANGED <<talk, filed>>
      BY <1>2, <2>2 DEF SetClientTitle, Writes
    <3> HIDE DEF t
    <3>2. Titling'
      BY <2>1, <2>2, <3>1, RowWritten
    <3>3. title.by \in {"nobody", "gateway"}
      <4>1. CASE title = Untitled
        BY <4>1, NoTitles
      <4>2. CASE ~title.manual /\ title.requests > 0
        <5>1. title.requests # 0 /\ title.by \in Namers
          BY <1>1, <4>2 DEF TitleRow
        <5>2. title.by # "operator" /\ title.by # "client"
          BY <1>1, <4>2, <5>1 DEF Signed
        <5>3. QED
          BY <5>1, <5>2 DEF Namers
      <4>3. QED
        BY <2>2, <4>1, <4>2
    <3>4. QED
      BY <2>1, <3>1, <3>2, <3>3
  <2>3. CASE UNCHANGED <<title, titler>>
    <3>1. UNCHANGED <<talk, filed>>
      BY <1>2 DEF SetClientTitle
    <3>2. Titling'
      BY <2>3, <3>1, TitlingAlone DEF Titling, TitleTypes
    <3>3. QED
      BY <2>3, <3>2
  <2>4. QED
    BY <1>2, <2>2, <2>3, Zenon DEF SetClientTitle
<1>3. CASE SetManualTitle
  <2> DEFINE t == [title EXCEPT !.by = "operator", !.manual = TRUE]
  <2>1. t \in TitleRow /\ Signed(t) /\ t.by = "operator"
    BY <1>1 DEF TitleRow, Namers, Signed
  <2>2. Writes(t, 0) /\ title' = t /\ UNCHANGED <<talk, filed>>
    BY <1>3 DEF SetManualTitle, Writes
  <2> HIDE DEF t
  <2>3. QED
    BY <2>1, <2>2, RowWritten
<1>4. CASE PruneChatTitles
  <2>1. CASE filed = 0 /\ Writes(Untitled, 0)
    <3>1. title' = Untitled /\ UNCHANGED <<talk, filed>>
      BY <1>4, <2>1 DEF PruneChatTitles, Writes
    <3>2. QED
      BY <2>1, <3>1, RowWritten, NoTitles
  <2>2. CASE UNCHANGED <<title, titler>>
    <3>1. UNCHANGED <<talk, filed>>
      BY <1>4, <2>2 DEF PruneChatTitles
    <3>2. Titling'
      BY <2>2, <3>1, TitlingAlone DEF Titling, TitleTypes
    <3>3. QED
      BY <2>2, <3>2
  <2>3. QED
    BY <1>4, <2>1, <2>2, Zenon DEF PruneChatTitles
<1>5. QED
  BY <1>2, <1>3, <1>4

\* A step that is none of those leaves the row.
Other ==
  \/ \E said \in {"typed", "note", "reply", "call"} : SayMore(said)
  \/ \E n \in filed..(filed + 1) : NamingEnds(n)
  \/ TitleTick \/ \E n \in 0..MaxFiled : PruneUsage(n)

LEMMA TitlingRest ==
  ASSUME Titling, Other
  PROVE  Titling' /\ title' = title
<1>1. ASSUME NEW said \in {"typed", "note", "reply", "call"}, SayMore(said)
      PROVE  talk' \in Seq(Said) /\ UNCHANGED <<title, titler, filed>>
  <2>1. said \in Said /\ talk \in Seq(Said) /\ talk' = Append(talk, said)
    BY <1>1 DEF Said, SayMore, Titling, TitleTypes
  <2>2. QED
    BY <1>1, <2>1, AppendProperties DEF SayMore
<1>2. ASSUME NEW n, NamingEnds(n) PROVE filed' \in Nat /\ UNCHANGED <<title, titler, talk>>
  BY <1>2, TitlingFiles DEF NamingEnds
<1>3. ASSUME NEW n \in 0..MaxFiled, PruneUsage(n)
      PROVE  filed' \in Nat /\ UNCHANGED <<title, titler, talk>>
  BY <1>3 DEF PruneUsage
<1>4. CASE TitleTick
  BY <1>4, TitlingAlone DEF TitleTick, Titling, TitleTypes
<1>5. talk \in Seq(Said) /\ filed \in Nat
  BY DEF Titling, TitleTypes
<1>6. QED
  BY <1>1, <1>2, <1>3, <1>4, <1>5, TitlingAlone DEF Other

\* How every step but a run's own writing is one of these.
LEMMA TitlingSteps ==
  ASSUME Titling, [TitlesNext]_titlesVars
  PROVE  Titling' /\ (title' = title \/ (SetClientTitle \/ SetManualTitle \/ PruneChatTitles)
                                     \/ \E w \in Worker : RetitleChat(w))
<1>1. CASE UNCHANGED titlesVars
  BY <1>1, TitlingAlone DEF titlesVars, Titling, TitleTypes
<1>2. ASSUME NEW w \in Worker, NEW i \in DOMAIN talk, NEW n, Consider(w, SubSeq(talk, 1, i), n)
      PROVE  Titling' /\ title' = title
  BY <1>2, TitlingConsiders DEF Consider
<1>3. ASSUME NEW w \in Worker, ReadTitle(w) PROVE Titling' /\ title' = title
  BY <1>3, TitlingReads DEF ReadTitle
<1>4. ASSUME NEW w \in Worker, TitlerRuns(w) PROVE Titling' /\ title' = title
  BY <1>4, TitlingRuns DEF TitlerRuns
<1>5. ASSUME NEW w \in Worker, NEW n, Named(w, n) PROVE Titling' /\ title' = title
  BY <1>5, TitlingNames DEF Named
<1>6. QED
  BY <1>1, <1>2, <1>3, <1>4, <1>5, TitlingGone, TitlingRetitles, TitlingOthers, TitlingRest, Zenon
  DEF TitlesNext, Other

\* No writer of a title takes another's place by mistake, for any workers of a
\* handover, chats of any length, requests and clock: the gateway replaces only
\* what its run read and was its own from before the user's second message, and
\* then of a request that holds the whole opening; the client's own name takes
\* no other's place than the gateway's; and pruning takes the title of a chat
\* that has no request left.
THEOREM TitlesKeepTheirPlaceHolds == TitlesSpec => TitlesKeepTheirPlace
<1>1. TitlesInit => Titling
  BY TitlingBegins
<1>2. Titling /\ [TitlesNext]_titlesVars => Titling'
  BY TitlingSteps
<1>3. ASSUME Titling, [TitlesNext]_titlesVars PROVE [TitlesStep]_titlesVars
  <2>1. \/ title' = title \/ (SetClientTitle \/ SetManualTitle \/ PruneChatTitles)
        \/ \E v \in Worker : RetitleChat(v)
    BY <1>3, TitlingSteps
  <2>2. ReplacesItsOwn
    <3>1. SUFFICES ASSUME NEW w \in Worker, Written(w), title # title', title # Untitled, ~titler[w].raced
                   PROVE  /\ title.by = "gateway" /\ title.turns < 2 /\ title'.turns >= 2
                          /\ \E j \in TypedIn(titler[w].body) :
                                \A i \in OpeningExchange(titler[w].body) : i < j
      BY DEF ReplacesItsOwn
    <3>2. titler[w].pc = "write" /\ titler'[w].pc = "idle" /\ title'.by = "gateway"
      BY <3>1 DEF Written
    <3>3. PICK v \in Worker : RetitleChat(v)
      BY <1>3, <2>1, <3>1, <3>2, TitlingOthers
    <3>4. v = w
      BY <1>3, <3>2, <3>3, TitlingRetitles
    <3>5. InPlace(title', w)
      BY <1>3, <3>3, <3>4, TitlingRetitles
    <3>6. QED
      BY <3>1, <3>5 DEF InPlace
  <2>3. OthersKeep
    BY <1>3, <2>1, TitlingOthers, TitlingRetitles DEF OthersKeep
  <2>4. QED
    BY <2>2, <2>3 DEF TitlesStep
<1>4. QED
  BY <1>1, <1>2, <1>3, PTL DEF TitlesSpec, TitlesKeepTheirPlace

---------------------------------------------------------------------------
(* The admin's password *)

Walk == [pc : {"free", "queue", "choose", "derive", "write", "drop", "endAll", "open", "mint"},
         does : {"none", "login", "change", "delete", "setup", "unset", "passwd"},
         read : Nat, new : Nat]

\* A clerk that derives nothing new checks what was typed; one that writes has
\* derived; and a link is minted of a password there was.
Sound(c) ==
  /\ (c.pc \in {"queue", "derive"} /\ c.new = 0) => c.does \in {"login", "change", "delete"}
  /\ c.pc = "write" => c.new # 0
  /\ c.pc = "mint" => c.read # 0

AdminTypes ==
  /\ password \in Nat /\ chosen \in Nat /\ setups \in Nat
  /\ clerk \in [Clerk -> Walk] /\ \A h \in Clerk : Sound(clerk[h])
  /\ loginLinks \in [LoginLink -> {"unborn", "live", "lapsed", "gone"}]
  /\ spent \in [LoginLink -> Nat]

Claimed == setups <= 1 /\ (password = 0 => setups = 0)

\* A link that may still sign someone in has signed nobody in.
Unspent == \A l \in LoginLink : spent[l] <= 1 /\ (loginLinks[l] \in {"unborn", "live"} => spent[l] = 0)

Gated == IsFiniteSet(Deriving) /\ Cardinality(Deriving) <= Places

Guarded == AdminTypes /\ Claimed /\ Unspent /\ NoWayPast /\ SessionsAreCurrent /\ Gated

LEMMA FreeWalks == Free \in Walk /\ Free.pc = "free" /\ Sound(Free)
BY DEF Free, Walk, Sound

\* A clerk's step: the others stand where they were.
LEMMA ClerkWalks ==
  ASSUME AdminTypes, NEW h \in Clerk, NEW c \in Walk, Sound(c), Walks(h, c)
  PROVE  /\ clerk' \in [Clerk -> Walk] /\ \A k \in Clerk : Sound(clerk'[k])
         /\ clerk'[h] = c /\ \A k \in Clerk : k # h => clerk'[k] = clerk[k]
BY DEF AdminTypes, Walks

\* No step but withKDF's own takes a place, and one that ends no sessions is
\* not at the end of them.
LEMMA GateKept ==
  ASSUME Gated, NEW h \in Clerk, \A k \in Clerk : k # h => clerk'[k] = clerk[k],
         clerk'[h].pc # "derive"
  PROVE  Gated'
<1>1. Deriving' \subseteq Deriving
  BY DEF Deriving, Clerks
<1>2. IsFiniteSet(Deriving') /\ Cardinality(Deriving') <= Cardinality(Deriving)
  BY <1>1, FS_Subset DEF Gated
<1>3. Cardinality(Deriving) \in Nat /\ Cardinality(Deriving') \in Nat
  BY <1>2, FS_CardinalityType DEF Gated
<1>4. Places \in Nat
  BY OnePlace
<1>5. QED
  BY <1>2, <1>3, <1>4 DEF Gated

LEMMA GateTaken ==
  ASSUME Gated, NEW h \in Clerk, \A k \in Clerk : k # h => clerk'[k] = clerk[k],
         clerk[h].pc = "queue", Cardinality(Deriving) < Places
  PROVE  Gated'
<1>1. Deriving' \subseteq Deriving \cup {h} /\ h \notin Deriving
  BY DEF Deriving, Clerks
<1>2. /\ IsFiniteSet(Deriving \cup {h})
      /\ Cardinality(Deriving \cup {h}) = Cardinality(Deriving) + 1
  BY <1>1, FS_AddElement DEF Gated
<1>3. IsFiniteSet(Deriving') /\ Cardinality(Deriving') <= Cardinality(Deriving \cup {h})
  BY <1>1, <1>2, FS_Subset
<1>4. /\ Cardinality(Deriving) \in Nat /\ Cardinality(Deriving') \in Nat
      /\ Cardinality(Deriving \cup {h}) \in Nat
  BY <1>2, <1>3, FS_CardinalityType DEF Gated
<1>5. Places \in Nat
  BY OnePlace
<1>6. QED
  BY <1>2, <1>3, <1>4, <1>5 DEF Gated

LEMMA EndingStays ==
  ASSUME NEW h \in Clerk, \A k \in Clerk : k # h => clerk'[k] = clerk[k], clerk[h].pc # "endAll"
  PROVE  Ending => Ending'
BY DEF Ending, Clerks

\* A walk that leaves the account and opens no session.
LEMMA GuardedWalks ==
  ASSUME Guarded, NEW h \in Clerk, NEW c \in Walk, Sound(c), Walks(h, c),
         clerk[h].pc # "endAll",
         \/ c.pc # "derive"
         \/ clerk[h].pc = "queue" /\ Cardinality(Deriving) < Places,
         UNCHANGED <<password, loginLinks, setups, spent, forced, sessions>>, chosen' \in Nat
  PROVE  Guarded'
<1>1. /\ clerk' \in [Clerk -> Walk] /\ \A k \in Clerk : Sound(clerk'[k])
      /\ clerk'[h] = c /\ \A k \in Clerk : k # h => clerk'[k] = clerk[k]
  BY ClerkWalks DEF Guarded
<1>2. AdminTypes'
  BY <1>1 DEF Guarded, AdminTypes, Sound
<1>3. Claimed' /\ Unspent' /\ NoWayPast'
  BY DEF Guarded, Claimed, Unspent, NoWayPast
<1>4. SessionsAreCurrent'
  <2>1. Ending => Ending'
    BY <1>1, EndingStays
  <2>2. QED
    BY <2>1 DEF Guarded, SessionsAreCurrent
<1>5. Gated'
  <2>1. CASE c.pc # "derive"
    BY <1>1, <2>1, GateKept DEF Guarded
  <2>2. CASE clerk[h].pc = "queue" /\ Cardinality(Deriving) < Places
    BY <1>1, <2>2, GateTaken DEF Guarded
  <2>3. QED
    BY <2>1, <2>2
<1>6. QED
  BY <1>2, <1>3, <1>4, <1>5 DEF Guarded

---------------------------------------------------------------------------
LEMMA GuardedBegins == OperatorInit => Guarded
<1> SUFFICES ASSUME OperatorInit PROVE Guarded
  OBVIOUS
<1>1. AdminTypes /\ Claimed /\ Unspent
  BY FreeWalks DEF OperatorInit, AdminTypes, Claimed, Unspent
<1>2. NoWayPast /\ SessionsAreCurrent
  BY DEF OperatorInit, NoWayPast, SessionsAreCurrent
<1>3. Gated
  <2>1. Deriving = {}
    BY FreeWalks DEF OperatorInit, Deriving, Clerks
  <2>2. Cardinality({}) = 0 /\ IsFiniteSet({})
    BY FS_EmptySet
  <2>3. QED
    BY <2>1, <2>2, OnePlace DEF Gated
<1>4. QED
  BY <1>1, <1>2, <1>3 DEF Guarded

LEMMA GuardedAsks ==
  ASSUME Guarded, NEW h \in Clerk, NEW does \in {"login", "change", "delete"}, NEW ifUnset \in BOOLEAN,
         AsksBy(h, does) \/ AsksSetup(h) \/ cmdPasswd(h, ifUnset) \/ AskLink(h)
  PROVE  Guarded'
<1>1. /\ clerk[h].pc = "free" /\ password \in Nat /\ chosen \in Nat
      /\ UNCHANGED <<password, loginLinks, setups, spent, forced, sessions, chosen>>
  BY DEF AsksBy, AsksSetup, cmdPasswd, AskLink, account, Clerks, Guarded, AdminTypes
<1>2. \E c \in Walk : Sound(c) /\ Walks(h, c) /\ c.pc # "derive"
  <2>1. CASE AsksBy(h, does)
    <3> DEFINE c == [pc |-> "queue", does |-> does, read |-> password, new |-> 0]
    <3>1. c \in Walk /\ Sound(c) /\ c.pc # "derive"
      BY <1>1 DEF Walk, Sound
    <3>2. QED
      BY <2>1, <3>1 DEF AsksBy
  <2>2. CASE AsksSetup(h)
    <3> DEFINE c == [Free EXCEPT !.pc = "choose", !.does = "setup"]
    <3>1. c \in Walk /\ Sound(c) /\ c.pc # "derive"
      BY DEF Free, Walk, Sound
    <3>2. QED
      BY <2>2, <3>1 DEF AsksSetup
  <2>3. CASE cmdPasswd(h, ifUnset)
    <3> DEFINE by == IF ifUnset THEN "unset" ELSE "passwd"
               c == [Free EXCEPT !.pc = "choose", !.does = by, !.read = password]
    <3>1. by \in {"unset", "passwd"}
      OBVIOUS
    <3>2. Walks(h, Free) \/ Walks(h, c)
      BY <2>3, Zenon DEF cmdPasswd, Goodbye
    <3> HIDE DEF by
    <3>3. c \in Walk /\ Sound(c) /\ c.pc # "derive"
      BY <1>1, <3>1 DEF Free, Walk, Sound
    <3>4. QED
      BY <3>2, <3>3, FreeWalks
  <2>4. CASE AskLink(h)
    <3> DEFINE c == [Free EXCEPT !.pc = "mint", !.read = password]
    <3>1. password # 0
      BY <2>4 DEF AskLink
    <3>2. c \in Walk /\ Sound(c) /\ c.pc # "derive"
      BY <1>1, <3>1 DEF Free, Walk, Sound
    <3>3. QED
      BY <2>4, <3>2 DEF AskLink
  <2>5. QED
    BY <2>1, <2>2, <2>3, <2>4
<1>3. QED
  BY <1>1, <1>2, GuardedWalks

LEMMA GuardedDerives ==
  ASSUME Guarded, NEW h \in Clerk, Choose(h) \/ Queued(h) \/ Derived(h)
  PROVE  Guarded'
<1>1. /\ clerk[h] \in Walk /\ Sound(clerk[h]) /\ chosen \in Nat
      /\ clerk[h].pc \in {"choose", "queue", "derive"}
      /\ UNCHANGED <<password, loginLinks, setups, spent, forced, sessions>>
  BY DEF Choose, Queued, Derived, account, Clerks, Guarded, AdminTypes
<1>2. ASSUME NEW pc \in {"derive", "write", "open", "choose", "drop"}
      PROVE  /\ [clerk[h] EXCEPT !.pc = pc] \in Walk
             /\ (pc = "derive" /\ clerk[h].pc = "queue") => Sound([clerk[h] EXCEPT !.pc = pc])
             /\ (pc = "write" /\ clerk[h].new # 0) => Sound([clerk[h] EXCEPT !.pc = pc])
             /\ pc \in {"open", "choose", "drop"} => Sound([clerk[h] EXCEPT !.pc = pc])
             /\ [clerk[h] EXCEPT !.pc = pc].pc = pc
  <2> DEFINE c == [clerk[h] EXCEPT !.pc = pc]
  <2>1. /\ c \in Walk /\ c.pc = pc /\ c.does = clerk[h].does
        /\ c.new = clerk[h].new /\ c.read = clerk[h].read
    BY <1>1, <1>2 DEF Walk
  <2> HIDE DEF c
  <2>2. /\ (pc = "derive" /\ clerk[h].pc = "queue") => Sound(c)
        /\ (pc = "write" /\ clerk[h].new # 0) => Sound(c)
        /\ pc \in {"open", "choose", "drop"} => Sound(c)
    BY <1>1, <2>1 DEF Sound
  <2>3. QED
    BY <2>1, <2>2 DEF c
<1>3. CASE Choose(h)
  <2> DEFINE new == chosen + 1
             c == [clerk[h] EXCEPT !.pc = "queue", !.new = new]
  <2>1. c \in Walk /\ Sound(c) /\ c.pc # "derive"
    <3>1. new \in Nat /\ new # 0
      BY <1>1
    <3> HIDE DEF new
    <3>2. c \in Walk /\ c.pc = "queue" /\ c.new = new
      BY <1>1, <3>1 DEF Walk
    <3> HIDE DEF c
    <3>3. QED
      BY <3>1, <3>2 DEF Sound
  <2>2. chosen' \in Nat /\ (Walks(h, Free) \/ Walks(h, c))
    BY <1>1, <1>3 DEF Choose, Goodbye
  <2> HIDE DEF c
  <2>3. QED
    BY <1>1, <2>1, <2>2, FreeWalks, GuardedWalks
<1>4. CASE Queued(h)
  <2>1. /\ clerk[h].pc = "queue" /\ chosen' \in Nat
        /\ \/ Cardinality(Deriving) < Places /\ Walks(h, [clerk[h] EXCEPT !.pc = "derive"])
           \/ Walks(h, Free)
    BY <1>1, <1>4 DEF Queued, Clerks, StepsTo, Goodbye, account
  <2>2. QED
    BY <1>1, <1>2, <2>1, FreeWalks, GuardedWalks
<1>5. CASE Derived(h)
  <2>1. clerk[h].pc = "derive" /\ chosen' \in Nat
    BY <1>1, <1>5 DEF Derived, Clerks, account
  <2>2. \/ clerk[h].new # 0 /\ StepsTo(h, "write")
        \/ Goodbye(h)
        \/ \E pc \in {"open", "choose", "drop"} : StepsTo(h, pc)
    <3>1. \/ clerk[h].new # 0 /\ StepsTo(h, "write")
          \/ Goodbye(h)
          \/ /\ clerk[h].new = 0
             /\ StepsTo(h, CASE clerk[h].does = "login" -> "open" [] clerk[h].does = "change" -> "choose"
                             [] clerk[h].does = "delete" -> "drop")
      BY <1>5 DEF Derived
    <3>2. clerk[h].new = 0 => clerk[h].does \in {"login", "change", "delete"}
      BY <1>1, <2>1 DEF Sound
    <3>3. QED
      BY <3>1, <3>2
  <2>3. QED
    BY <1>1, <1>2, <2>1, <2>2, FreeWalks, GuardedWalks DEF StepsTo, Goodbye
<1>6. QED
  BY <1>3, <1>4, <1>5

---------------------------------------------------------------------------
\* One setup claims the gateway: it finds no password, and leaves one.
LEMMA GuardedInserts ==
  ASSUME Guarded, NEW h \in Clerk, Insert(h)
  PROVE  Guarded'
<1>1. /\ clerk[h] \in Walk /\ Sound(clerk[h]) /\ clerk[h].pc = "write" /\ clerk[h].new # 0
      /\ chosen' \in Nat /\ UNCHANGED <<loginLinks, spent, forced, sessions>>
  BY DEF Insert, Clerks, Guarded, AdminTypes, Sound
<1>2. CASE password # 0
  <2>1. Walks(h, Free) /\ UNCHANGED <<password, setups>>
    BY <1>2 DEF Insert, Goodbye
  <2>2. QED
    BY <1>1, <2>1, FreeWalks, GuardedWalks
<1>3. CASE password = 0
  <2> DEFINE c == [clerk[h] EXCEPT !.pc = "open"]
  <2>1. password' = clerk[h].new /\ setups' = setups + 1 /\ Walks(h, c)
    BY <1>3 DEF Insert, StepsTo
  <2>2. c \in Walk /\ Sound(c) /\ c.pc # "derive"
    BY <1>1 DEF Walk, Sound
  <2> HIDE DEF c
  <2>3. /\ clerk' \in [Clerk -> Walk] /\ \A k \in Clerk : Sound(clerk'[k])
        /\ clerk'[h] = c /\ \A k \in Clerk : k # h => clerk'[k] = clerk[k]
    BY <2>1, <2>2, ClerkWalks DEF Guarded
  <2>4. setups = 0 /\ clerk[h].new \in Nat
    BY <1>1, <1>3 DEF Guarded, Claimed, Walk
  <2>5. AdminTypes' /\ Claimed' /\ Unspent' /\ NoWayPast'
    <3>1. password' \in Nat /\ password' # 0 /\ setups' = 1
      BY <1>1, <2>1, <2>4
    <3>2. AdminTypes'
      BY <1>1, <2>3, <3>1 DEF Guarded, AdminTypes, Sound
    <3>3. Claimed' /\ Unspent' /\ NoWayPast'
      BY <1>1, <3>1 DEF Guarded, Claimed, Unspent, NoWayPast
    <3>4. QED
      BY <3>2, <3>3
  <2>6. SessionsAreCurrent'
    <3>1. Ending => Ending'
      BY <1>1, <2>3, EndingStays
    <3>2. QED
      BY <1>1, <1>3, <3>1 DEF Guarded, SessionsAreCurrent
  <2>7. Gated'
    BY <2>2, <2>3, GateKept DEF Guarded
  <2>8. QED
    BY <2>5, <2>6, <2>7 DEF Guarded
<1>4. QED
  BY <1>2, <1>3

LEMMA GuardedSets ==
  ASSUME Guarded, NEW h \in Clerk, SetPassword(h)
  PROVE  Guarded'
<1> DEFINE c == IF h \in Shell THEN Free ELSE [clerk[h] EXCEPT !.pc = "endAll"]
<1>1. /\ clerk[h] \in Walk /\ Sound(clerk[h]) /\ clerk[h].pc = "write" /\ clerk[h].new # 0
      /\ chosen' \in Nat /\ password' = clerk[h].new
      /\ UNCHANGED <<loginLinks, setups, spent, sessions>>
  BY DEF SetPassword, Clerks, Guarded, AdminTypes, Sound
<1>2. Walks(h, c)
  BY DEF SetPassword, Goodbye, StepsTo
<1>3. c \in Walk /\ Sound(c) /\ c.pc # "derive" /\ (h \notin Shell => c.pc = "endAll")
  BY <1>1, FreeWalks DEF Walk, Sound
<1>4. h \in Shell => forced'
  BY Zenon DEF SetPassword
<1> HIDE DEF c
<1>5. /\ clerk' \in [Clerk -> Walk] /\ \A k \in Clerk : Sound(clerk'[k])
      /\ clerk'[h] = c /\ \A k \in Clerk : k # h => clerk'[k] = clerk[k]
  BY <1>2, <1>3, ClerkWalks DEF Guarded
<1>6. clerk[h].new \in Nat
  BY <1>1 DEF Walk
<1>7. AdminTypes' /\ Claimed' /\ Unspent' /\ NoWayPast'
  BY <1>1, <1>5, <1>6 DEF Guarded, AdminTypes, Claimed, Unspent, NoWayPast, Sound
<1>8. SessionsAreCurrent'
  <2>1. h \notin Shell => Ending'
    BY <1>3, <1>5 DEF Ending, Clerks
  <2>2. QED
    BY <1>4, <2>1 DEF SessionsAreCurrent
<1>9. Gated'
  BY <1>3, <1>5, GateKept DEF Guarded
<1>10. QED
  BY <1>7, <1>8, <1>9 DEF Guarded

LEMMA GuardedDeletes ==
  ASSUME Guarded, NEW h \in Clerk, DeleteAdmin(h)
  PROVE  Guarded'
<1> DEFINE c == [clerk[h] EXCEPT !.pc = "endAll"]
<1>1. /\ clerk[h] \in Walk /\ chosen' \in Nat /\ password' = 0 /\ setups' = 0
      /\ loginLinks' = [l \in LoginLink |-> IF loginLinks[l] = "unborn" THEN "unborn" ELSE "gone"]
      /\ UNCHANGED <<spent, sessions>> /\ Walks(h, c)
  BY DEF DeleteAdmin, StepsTo, Guarded, AdminTypes
<1>2. c \in Walk /\ Sound(c) /\ c.pc = "endAll"
  BY <1>1 DEF Walk, Sound
<1> HIDE DEF c
<1>3. /\ clerk' \in [Clerk -> Walk] /\ \A k \in Clerk : Sound(clerk'[k])
      /\ clerk'[h] = c /\ \A k \in Clerk : k # h => clerk'[k] = clerk[k]
  BY <1>1, <1>2, ClerkWalks DEF Guarded
<1>4. AdminTypes'
  BY <1>1, <1>3 DEF Guarded, AdminTypes, Sound
<1>5. Claimed' /\ Unspent' /\ NoWayPast'
  BY <1>1 DEF Guarded, AdminTypes, Claimed, Unspent, NoWayPast
<1>6. SessionsAreCurrent'
  BY <1>2, <1>3 DEF SessionsAreCurrent, Ending, Clerks
<1>7. Gated'
  BY <1>2, <1>3, GateKept DEF Guarded
<1>8. QED
  BY <1>4, <1>5, <1>6, <1>7 DEF Guarded

LEMMA GuardedEnds ==
  ASSUME Guarded, NEW h \in Clerk, EndAll(h)
  PROVE  Guarded'
<1> DEFINE c == IF clerk[h].does = "change" THEN [clerk[h] EXCEPT !.pc = "open"] ELSE Free
<1>1. /\ clerk[h] \in Walk /\ sessions' = {} /\ Walks(h, c) /\ chosen' \in Nat
      /\ UNCHANGED <<password, loginLinks, setups, spent, forced>>
  BY DEF EndAll, StepsTo, Goodbye, account, Guarded, AdminTypes
<1>2. c \in Walk /\ Sound(c) /\ c.pc # "derive"
  BY <1>1, FreeWalks DEF Walk, Sound
<1> HIDE DEF c
<1>3. /\ clerk' \in [Clerk -> Walk] /\ \A k \in Clerk : Sound(clerk'[k])
      /\ clerk'[h] = c /\ \A k \in Clerk : k # h => clerk'[k] = clerk[k]
  BY <1>1, <1>2, ClerkWalks DEF Guarded
<1>4. AdminTypes' /\ Claimed' /\ Unspent' /\ NoWayPast' /\ SessionsAreCurrent'
  BY <1>1, <1>3 DEF Guarded, AdminTypes, Claimed, Unspent, NoWayPast, SessionsAreCurrent, Sound
<1>5. Gated'
  BY <1>2, <1>3, GateKept DEF Guarded
<1>6. QED
  BY <1>4, <1>5 DEF Guarded

\* A session of the password as it is, or of one that is not it.
LEMMA GuardedOpens ==
  ASSUME Guarded, NEW h \in Clerk, OpensSession(h)
  PROVE  Guarded'
<1>1. /\ clerk[h].pc = "open" /\ chosen' \in Nat /\ Walks(h, Free)
      /\ sessions' \subseteq sessions \cup {0, password}
      /\ UNCHANGED <<password, loginLinks, setups, spent, forced>>
  BY DEF OpensSession, NewSession, Goodbye, account, Clerks, Guarded, AdminTypes
<1>2. /\ clerk' \in [Clerk -> Walk] /\ \A k \in Clerk : Sound(clerk'[k])
      /\ clerk'[h] = Free /\ \A k \in Clerk : k # h => clerk'[k] = clerk[k]
  BY <1>1, FreeWalks, ClerkWalks DEF Guarded
<1>3. AdminTypes' /\ Claimed' /\ Unspent' /\ NoWayPast'
  BY <1>1, <1>2 DEF Guarded, AdminTypes, Claimed, Unspent, NoWayPast, Sound
<1>4. SessionsAreCurrent'
  <2>1. Ending => Ending'
    BY <1>1, <1>2, EndingStays
  <2>2. QED
    BY <1>1, <2>1 DEF Guarded, SessionsAreCurrent
<1>5. Gated'
  BY <1>2, FreeWalks, GateKept DEF Guarded
<1>6. QED
  BY <1>3, <1>4, <1>5 DEF Guarded

\* A link minted after its account went is known to be: its password was one.
LEMMA GuardedMints ==
  ASSUME Guarded, NEW h \in Clerk, MintLoginLink(h)
  PROVE  Guarded'
<1>1. /\ clerk[h].pc = "mint" /\ Sound(clerk[h]) /\ Walks(h, Free)
      /\ forced' = (forced \/ password # clerk[h].read)
      /\ UNCHANGED <<password, chosen, setups, spent, sessions>>
  BY DEF MintLoginLink, Clerks, Goodbye, Guarded, AdminTypes
<1>2. PICK l \in LoginLink :
         /\ loginLinks[l] = "unborn"
         /\ loginLinks' = [k \in LoginLink |-> IF k = l THEN "live"
                             ELSE IF loginLinks[k] = "lapsed" THEN "gone" ELSE loginLinks[k]]
  BY DEF MintLoginLink
<1>3. /\ clerk' \in [Clerk -> Walk] /\ \A k \in Clerk : Sound(clerk'[k])
      /\ clerk'[h] = Free /\ \A k \in Clerk : k # h => clerk'[k] = clerk[k]
  BY <1>1, FreeWalks, ClerkWalks DEF Guarded
<1>4. AdminTypes'
  <2>1. loginLinks' \in [LoginLink -> {"unborn", "live", "lapsed", "gone"}]
    BY <1>2 DEF Guarded, AdminTypes
  <2>2. QED
    BY <1>1, <1>3, <2>1 DEF Guarded, AdminTypes, Sound
<1>5. Claimed' /\ Unspent'
  BY <1>1, <1>2 DEF Guarded, Claimed, Unspent
<1>6. NoWayPast'
  <2>1. (password' = 0) => forced'
    BY <1>1, Zenon DEF Sound
  <2>2. QED
    BY <2>1 DEF NoWayPast
<1>7. SessionsAreCurrent'
  <2>1. Ending => Ending'
    BY <1>1, <1>3, EndingStays
  <2>2. forced => forced'
    BY <1>1
  <2>3. QED
    BY <1>1, <2>1, <2>2 DEF Guarded, SessionsAreCurrent
<1>8. Gated'
  BY <1>3, FreeWalks, GateKept DEF Guarded
<1>9. QED
  BY <1>4, <1>5, <1>6, <1>7, <1>8 DEF Guarded

\* Links lapse and are spent, sessions end.
LEMMA GuardedLinks ==
  ASSUME Guarded,
         \/ \E h \in Clerk, l \in LoginLink : SpendLoginLink(h, l)
         \/ \E l \in LoginLink : LinkLapses(l)
         \/ SessionEnds \/ UNCHANGED operatorState
  PROVE  Guarded'
<1>1. UNCHANGED <<password, chosen, setups, forced, clerk>>
  BY DEF SpendLoginLink, LinkLapses, SessionEnds, account, operatorState
<1>2. /\ sessions' \subseteq sessions \cup {0, password}
      /\ \/ UNCHANGED <<loginLinks, spent>>
         \/ \E l \in LoginLink, to \in {"lapsed", "gone"} :
              /\ loginLinks' = [loginLinks EXCEPT ![l] = to]
              /\ \/ UNCHANGED spent
                 \/ /\ loginLinks[l] = "live"
                    /\ spent' = [spent EXCEPT ![l] = spent[l] + 1]
  <2>1. CASE \E h \in Clerk, l \in LoginLink : SpendLoginLink(h, l)
    <3>1. PICK h \in Clerk, l \in LoginLink : SpendLoginLink(h, l)
      BY <2>1
    <3>2. /\ loginLinks' = [loginLinks EXCEPT ![l] = "gone"]
          /\ \/ /\ loginLinks[l] = "live" /\ NewSession(password)
                /\ spent' = [spent EXCEPT ![l] = spent[l] + 1]
             \/ UNCHANGED <<spent, sessions>>
      BY <3>1 DEF SpendLoginLink, Guarded, AdminTypes
    <3>3. QED
      BY <3>2 DEF NewSession
  <2>2. CASE \E l \in LoginLink : LinkLapses(l)
    BY <2>2 DEF LinkLapses
  <2>3. CASE SessionEnds \/ UNCHANGED operatorState
    BY <2>3 DEF SessionEnds, account, operatorState
  <2>4. QED
    BY <2>1, <2>2, <2>3
<1>3. /\ loginLinks' \in [LoginLink -> {"unborn", "live", "lapsed", "gone"}]
      /\ spent' \in [LoginLink -> Nat]
  BY <1>2 DEF Guarded, AdminTypes
<1>4. AdminTypes' /\ Claimed'
  BY <1>1, <1>3 DEF Guarded, AdminTypes, Claimed, Sound
<1>5. Unspent' /\ NoWayPast'
  BY <1>1, <1>2 DEF Guarded, AdminTypes, Unspent, NoWayPast
<1>6. SessionsAreCurrent'
  BY <1>1, <1>2 DEF Guarded, SessionsAreCurrent, Ending, Clerks
<1>7. Gated'
  BY <1>1 DEF Guarded, Gated, Deriving, Clerks
<1>8. QED
  BY <1>4, <1>5, <1>6, <1>7 DEF Guarded

LEMMA GuardedRestarts ==
  ASSUME Guarded, RestartsAdmin
  PROVE  Guarded'
<1>1. /\ sessions' = {} /\ clerk' = [h \in Clerk |-> IF h \in Browser THEN Free ELSE clerk[h]]
      /\ UNCHANGED <<password, chosen, loginLinks, setups, spent, forced>>
  BY DEF RestartsAdmin, account
<1>2. AdminTypes'
  BY <1>1, FreeWalks DEF Guarded, AdminTypes
<1>3. Claimed' /\ Unspent' /\ NoWayPast' /\ SessionsAreCurrent'
  BY <1>1 DEF Guarded, Claimed, Unspent, NoWayPast, SessionsAreCurrent
<1>4. Gated'
  <2>1. Deriving' \subseteq Deriving
    BY <1>1, FreeWalks DEF Deriving, Clerks
  <2>2. IsFiniteSet(Deriving') /\ Cardinality(Deriving') <= Cardinality(Deriving)
    BY <2>1, FS_Subset DEF Guarded, Gated
  <2>3. Cardinality(Deriving) \in Nat /\ Cardinality(Deriving') \in Nat
    BY <2>2, FS_CardinalityType DEF Guarded, Gated
  <2>4. QED
    BY <2>2, <2>3, OnePlace DEF Guarded, Gated
<1>5. QED
  BY <1>2, <1>3, <1>4 DEF Guarded

\* One setup claims the gateway between two resets; a link signs in once; with
\* no account there is no way past it; the sessions left are of the password as
\* it is; and no more passwords are derived at once than there are places: for
\* any calls and commands, links and passwords.
THEOREM OperatorSoundHolds == OperatorSpec => []OperatorSound
<1>1. OperatorInit => Guarded
  BY GuardedBegins
<1>2. Guarded /\ [OperatorNext]_operatorState => Guarded'
  <2>1. SUFFICES ASSUME Guarded, [OperatorNext]_operatorState PROVE Guarded'
    OBVIOUS
  <2>2. ASSUME NEW h \in Clerk,
               \/ \E does \in {"login", "change", "delete"} : AsksBy(h, does)
               \/ AsksSetup(h) \/ (\E ifUnset \in BOOLEAN : cmdPasswd(h, ifUnset)) \/ AskLink(h)
        PROVE  Guarded'
    BY <2>1, <2>2, GuardedAsks, Zenon
  <2>3. QED
    BY <2>1, <2>2, GuardedDerives, GuardedInserts, GuardedSets, GuardedDeletes, GuardedEnds,
       GuardedOpens, GuardedMints, GuardedLinks, GuardedRestarts, Zenon
    DEF OperatorNext
<1>3. Guarded => OperatorSound
  BY DEF Guarded, OperatorSound, OneClaim, Claimed, LinksSpentOnce, Unspent, GateHolds, Gated
<1>4. QED
  BY <1>1, <1>2, <1>3, PTL DEF OperatorSpec

---------------------------------------------------------------------------
(* A client's names *)

AnySlot == Nat \cup UNION {k.own : k \in Kinds}
Waits == [pc : {"idle", "came"}]
Answered == [pc : {"audit"}, changed : BOOLEAN]
Removal == [pc : {"write"}, does : {"remove"}, slot : AnySlot]
Change == [pc : {"check", "write"}, does : {"set", "add"}, slot : AnySlot, name : Name \cup {""},
           to : Binding, on : BOOLEAN, kept : BOOLEAN]
AnyCall == Waits \cup Answered \cup Removal \cup Change

\* What is on record is the agent's, who renames nothing.
NamesTypes ==
  /\ kind \in Kinds
  /\ clientRow \in [there : BOOLEAN, mode : {"binding", "direct"}, manage : BOOLEAN, disabled : BOOLEAN]
  /\ Slots \subseteq AnySlot
  /\ drawn \in Nat /\ drawn <= MaxSlot
  /\ made \in Nat /\ onFile \in Nat /\ unfiled \in Nat
  /\ DOMAIN calls = Caller /\ \A h \in Caller : calls[h] \in AnyCall
  /\ \A h \in Page : calls[h].pc \notin {"came", "audit"}
  /\ \A h \in Agents : calls[h].pc \in {"check", "write"} /\ calls[h].does = "set" => calls[h].name = ""

\* No two slots have one name, and a type's own are there.
SlotsApart ==
  /\ \A s, t \in Slots : slots[s].name = slots[t].name => s = t
  /\ MaxSlot + 1 \notin Slots
  /\ clientRow.there => kind.custom \/ kind.own \subseteq Slots

NamesStand == NamesTypes /\ SlotsApart /\ OnRecord

LEMMA CallMoves ==
  ASSUME NamesTypes, NEW h \in Caller, NEW c \in AnyCall, Moves(h, c)
  PROVE  /\ DOMAIN calls' = Caller /\ \A g \in Caller : calls'[g] \in AnyCall
         /\ calls'[h] = c
         /\ \A g \in Caller : g # h => calls'[g] = calls[g]
BY DEF NamesTypes, Moves

LEMMA Waiting == NoCall \in AnyCall /\ [pc |-> "came"] \in AnyCall
BY DEF AnyCall, Waits, NoCall

LEMMA Answering == \A b \in BOOLEAN : [pc |-> "audit", changed |-> b] \in AnyCall
BY DEF AnyCall, Answered

\* What a call carries, by where it is.
LEMMA CallShape ==
  ASSUME NamesTypes, NEW h \in Caller
  PROVE  /\ calls[h].pc = "check" => calls[h] \in Change
         /\ calls[h].pc = "write" => calls[h] \in Change \/ calls[h] \in Removal
         /\ calls[h].pc = "audit" => calls[h] \in Answered
BY DEF NamesTypes, AnyCall, Waits, Answered, Removal, Change

\* A report is a call that has changed something and has yet to say so.
Reports == {h \in Caller : calls[h].pc = "audit" /\ calls[h].changed}

LEMMA ReportsFinite == IsFiniteSet(Reports)
BY SomeCallers, FS_Subset DEF Reports

LEMMA OnRecordReports == OnRecord <=> made = onFile + unfiled + Cardinality(Reports)
BY DEF OnRecord, Reports, Call

LEMMA ReportsSame ==
  ASSUME NEW h \in Caller, \A g \in Caller : g # h => calls'[g] = calls[g],
         ~(calls[h].pc = "audit" /\ calls[h].changed), ~(calls'[h].pc = "audit" /\ calls'[h].changed)
  PROVE  Reports' = Reports
BY DEF Reports

LEMMA OneReportMore ==
  ASSUME NEW h \in Caller, \A g \in Caller : g # h => calls'[g] = calls[g],
         ~(calls[h].pc = "audit" /\ calls[h].changed), calls'[h].pc = "audit" /\ calls'[h].changed
  PROVE  Cardinality(Reports') = Cardinality(Reports) + 1
<1>1. Reports' = Reports \cup {h} /\ h \notin Reports
  BY DEF Reports
<1>2. QED
  BY <1>1, ReportsFinite, FS_AddElement

LEMMA OneReportLess ==
  ASSUME NEW h \in Caller, \A g \in Caller : g # h => calls'[g] = calls[g],
         calls[h].pc = "audit" /\ calls[h].changed, ~(calls'[h].pc = "audit" /\ calls'[h].changed)
  PROVE  Cardinality(Reports') = Cardinality(Reports) - 1
<1>1. Reports' = Reports \ {h} /\ h \in Reports
  BY DEF Reports
<1>2. QED
  BY <1>1, ReportsFinite, FS_RemoveElement

\* At most one slot has a name when no two have the same.
LEMMA OneSlotNamed ==
  ASSUME SlotsApart, NEW n
  PROVE  Cardinality(SlotsNamed(n)) <= 1
<1>1. CASE SlotsNamed(n) = {}
  BY <1>1, FS_EmptySet
<1>2. CASE SlotsNamed(n) # {}
  <2>1. PICK s \in Slots : SlotsNamed(n) = {s}
    BY <1>2 DEF SlotsApart, SlotsNamed
  <2>2. QED
    BY <2>1, FS_Singleton
<1>3. QED
  BY <1>1, <1>2

LEMMA NamesAnswer == ASSUME SlotsApart PROVE AlwaysAnswers
BY OneSlotNamed DEF AlwaysAnswers, SlotsApart

LEMMA NamesBegin == NamesInit => NamesStand
<1> SUFFICES ASSUME NamesInit PROVE NamesStand
  OBVIOUS
<1>1. kind \in Kinds /\ DOMAIN slots = kind.own /\ \A s \in kind.own : slots[s].name = kind.first[s]
  BY DEF NamesInit
<1>2. Slots \subseteq AnySlot
  BY <1>1 DEF Slots, AnySlot
<1>3. DOMAIN calls = Caller /\ \A h \in Caller : calls[h] = NoCall
  BY DEF NamesInit
<1>4. NamesTypes
  <2>1. \A h \in Caller : calls[h] \in AnyCall /\ calls[h].pc = "idle"
    BY <1>3, Waiting DEF NoCall
  <2>2. drawn \in Nat /\ drawn <= MaxSlot /\ made \in Nat /\ onFile \in Nat /\ unfiled \in Nat
    BY SomeCallers DEF NamesInit
  <2>3. clientRow \in [there : BOOLEAN, mode : {"binding", "direct"}, manage : BOOLEAN, disabled : BOOLEAN]
    BY DEF NamesInit
  <2>4. QED
    BY <1>1, <1>2, <1>3, <2>1, <2>2, <2>3 DEF NamesTypes, Caller
<1>5. SlotsApart
  <2>1. MaxSlot + 1 \in 1..(MaxSlot + 1)
    BY SomeCallers
  <2>2. MaxSlot + 1 \notin kind.own
    BY <1>1, <2>1, KindsApart
  <2>3. \A s, t \in kind.own : kind.first[s] = kind.first[t] => s = t
    BY <1>1, KindsApart
  <2>4. QED
    BY <1>1, <2>2, <2>3 DEF SlotsApart, Slots
<1>6. OnRecord
  <2>1. Reports = {}
    BY <1>3 DEF Reports, NoCall
  <2>2. made = 0 /\ onFile = 0 /\ unfiled = 0
    BY DEF NamesInit
  <2>3. QED
    BY <2>1, <2>2, FS_EmptySet, OnRecordReports
<1>7. QED
  BY <1>4, <1>5, <1>6 DEF NamesStand

---------------------------------------------------------------------------
(* One call, one step *)

NamesLet == AgentKeepsNames /\ AgentMay /\ BoundFromMenu

LEMMA QuietMove ==
  ASSUME NamesStand, NEW h \in Caller, NEW c \in AnyCall, Moves(h, c),
         UNCHANGED <<kind, clientRow, drawn, slots, made, onFile, unfiled>>,
         ~(calls[h].pc = "audit" /\ calls[h].changed), ~(c.pc = "audit" /\ c.changed),
         h \in Page => c.pc \notin {"came", "audit"},
         h \in Agents => (c.pc \in {"check", "write"} /\ c.does = "set" => c.name = "")
  PROVE  NamesStand'
<1>1. /\ DOMAIN calls' = Caller /\ \A g \in Caller : calls'[g] \in AnyCall
      /\ calls'[h] = c
      /\ \A g \in Caller : g # h => calls'[g] = calls[g]
  BY CallMoves DEF NamesStand
<1>2. NamesTypes'
  BY <1>1 DEF NamesStand, NamesTypes, Slots, Caller
<1>3. SlotsApart'
  BY DEF NamesStand, SlotsApart, Slots
<1>4. Reports' = Reports
  BY <1>1, ReportsSame
<1>5. OnRecord'
  <2>1. (OnRecord <=> made = onFile + unfiled + Cardinality(Reports))'
    BY OnRecordReports, PTL
  <2>2. QED
    BY <1>4, <2>1, OnRecordReports DEF NamesStand
<1>6. QED
  BY <1>2, <1>3, <1>5 DEF NamesStand

LEMMA QuietLet ==
  ASSUME NEW h \in Caller, \A g \in Caller : g # h => calls'[g] = calls[g], made' = made,
         h \in Agents /\ calls[h].pc = "came" => calls'[h].pc \notin {"check", "write"} \/ clientRow.manage,
         calls[h].pc = "check" => calls'[h].pc # "write" \/ calls[h].kept \/ Bindable(calls[h])
  PROVE  NamesLet
<1>1. AgentKeepsNames
  BY DEF AgentKeepsNames
<1>2. AgentMay
  <2> SUFFICES ASSUME NEW g \in Agents, calls[g].pc = "came", calls'[g].pc \in {"check", "write"}
               PROVE  clientRow.manage
    BY DEF AgentMay, Call
  <2>1. g \in Caller
    BY DEF Caller
  <2>2. g = h
    BY <2>1
  <2>3. QED
    BY <2>2
<1>3. BoundFromMenu
  <2> SUFFICES ASSUME NEW g \in Caller, calls[g].pc = "check", calls'[g].pc = "write"
               PROVE  calls[g].kept \/ (calls[g].to \in offered /\ calls[g].on)
    BY DEF BoundFromMenu, Call
  <2>1. g = h
    OBVIOUS
  <2>2. QED
    BY <2>1 DEF Bindable
<1>4. QED
  BY <1>1, <1>2, <1>3 DEF NamesLet

LEMMA PageAsking ==
  ASSUME NamesStand, NEW h \in Page, PageAsks(h)
  PROVE  NamesStand' /\ NamesLet
<1>1. h \in Caller /\ h \notin Agents
  BY SomeBindings DEF Caller
<1>2. calls[h].pc = "idle" /\ UNCHANGED <<kind, clientRow, drawn, slots, made, onFile, unfiled>>
  BY DEF PageAsks, Call, theRest
<1>3. PICK c \in AnyCall : Moves(h, c) /\ c.pc \in {"check", "write"}
  <2>1. CASE \E s \in Slots, n \in Name \cup {""}, b \in Binding :
               Moves(h, [pc |-> "check", does |-> "set", slot |-> s, name |-> n, to |-> b,
                         on |-> b \notin off, kept |-> slots[s].to = b])
    <3> PICK s \in Slots, n \in Name \cup {""}, b \in Binding :
               Moves(h, [pc |-> "check", does |-> "set", slot |-> s, name |-> n, to |-> b,
                         on |-> b \notin off, kept |-> slots[s].to = b])
      BY <2>1
    <3> DEFINE on == b \notin off
               kept == slots[s].to = b
               c == [pc |-> "check", does |-> "set", slot |-> s, name |-> n, to |-> b, on |-> on, kept |-> kept]
    <3>1. on \in BOOLEAN /\ kept \in BOOLEAN /\ s \in AnySlot
      BY DEF NamesStand, NamesTypes
    <3>2. Moves(h, c)
      OBVIOUS
    <3> HIDE DEF on, kept
    <3>3. c \in AnyCall /\ c.pc = "check"
      BY <3>1 DEF AnyCall, Change
    <3>4. QED
      BY <3>2, <3>3
  <2>2. CASE \E n \in Name, b \in Binding \cup {""} :
               Moves(h, [pc |-> "check", does |-> "add", slot |-> 0, name |-> n,
                         to |-> IF b = "" THEN Opus ELSE b, on |-> b \notin off, kept |-> b = ""])
    <3> PICK n \in Name, b \in Binding \cup {""} :
               Moves(h, [pc |-> "check", does |-> "add", slot |-> 0, name |-> n,
                         to |-> IF b = "" THEN Opus ELSE b, on |-> b \notin off, kept |-> b = ""])
      BY <2>2
    <3> DEFINE on == b \notin off
               kept == b = ""
               to == IF b = "" THEN Opus ELSE b
               c == [pc |-> "check", does |-> "add", slot |-> 0, name |-> n, to |-> to, on |-> on, kept |-> kept]
    <3>1. on \in BOOLEAN /\ kept \in BOOLEAN /\ to \in Binding /\ 0 \in AnySlot
      BY SomeBindings DEF AnySlot
    <3>2. Moves(h, c)
      OBVIOUS
    <3> HIDE DEF on, kept, to
    <3>3. c \in AnyCall /\ c.pc = "check"
      BY <3>1 DEF AnyCall, Change
    <3>4. QED
      BY <3>2, <3>3
  <2>3. CASE \E s \in Slots : Moves(h, [pc |-> "write", does |-> "remove", slot |-> s])
    <3> PICK s \in Slots : Moves(h, [pc |-> "write", does |-> "remove", slot |-> s])
      BY <2>3
    <3>1. [pc |-> "write", does |-> "remove", slot |-> s] \in AnyCall
      BY DEF NamesStand, NamesTypes, AnyCall, Removal
    <3>2. QED
      BY <3>1
  <2>4. QED
    BY <2>1, <2>2, <2>3 DEF PageAsks
<1>4. NamesStand'
  BY <1>1, <1>2, <1>3, QuietMove
<1>5. NamesLet
  BY <1>1, <1>2, <1>3, CallMoves, QuietLet DEF NamesStand
<1>6. QED
  BY <1>4, <1>5

LEMMA AgentWaits ==
  ASSUME NamesStand, NEW h \in Agents, AgentComes(h) \/ AgentLeaves(h) \/ SelfGone(h)
  PROVE  NamesStand' /\ NamesLet
<1>1. h \in Caller /\ h \notin Page
  BY SomeBindings DEF Caller
<1>2. calls[h].pc \in {"idle", "came"} /\ UNCHANGED <<kind, clientRow, drawn, slots, made, onFile, unfiled>>
  BY DEF AgentComes, AgentLeaves, SelfGone, Call, theRest
<1>3. PICK c \in AnyCall : Moves(h, c) /\ c.pc \in {"idle", "came"}
  BY Waiting DEF AgentComes, AgentLeaves, SelfGone, Finish, NoCall
<1>4. NamesStand'
  BY <1>1, <1>2, <1>3, QuietMove
<1>5. NamesLet
  BY <1>1, <1>2, <1>3, CallMoves, QuietLet DEF NamesStand
<1>6. QED
  BY <1>4, <1>5

LEMMA SlotFound ==
  ASSUME NamesTypes, NEW n, SlotsNamed(n) # {}
  PROVE  (CHOOSE s \in SlotsNamed(n) : TRUE) \in AnySlot
<1>1. (CHOOSE s \in SlotsNamed(n) : TRUE) \in SlotsNamed(n)
  OBVIOUS
<1>2. QED
  BY <1>1 DEF SlotsNamed, NamesTypes

LEMMA AgentCalls ==
  ASSUME NamesStand, NEW h \in Agents, ToolCalled(h)
  PROVE  NamesStand' /\ NamesLet
<1>1. h \in Caller /\ h \notin Page
  BY SomeBindings DEF Caller
<1>2. calls[h].pc = "came" /\ UNCHANGED <<kind, clientRow, drawn, slots, made, onFile, unfiled>>
  BY DEF ToolCalled, Call, theRest
<1>3. PICK c \in AnyCall :
        /\ Moves(h, c)
        /\ c.pc \in {"audit", "check", "write"}
        /\ c.pc = "audit" => c.changed = FALSE
        /\ c.pc \in {"check", "write"} => clientRow.manage /\ (c.does = "set" => c.name = "")
  <2> PICK does \in {"set", "add", "remove"}, n \in Name, b \in Binding \cup {""} :
        /\ does = "remove" => b = ""
        /\ LET refused == \/ ~MayManage
                          \/ does = "set" /\ (clientRow.mode = "direct" \/ b = "")
                          \/ does # "add" /\ SlotsNamed(n) = {}
           IN  IF refused THEN Moves(h, [pc |-> "audit", changed |-> FALSE])
               ELSE IF does = "remove"
               THEN Moves(h, [pc |-> "write", does |-> does, slot |-> CHOOSE s \in SlotsNamed(n) : TRUE])
               ELSE Moves(h, [pc |-> "check", does |-> does,
                              slot |-> IF does = "add" THEN 0 ELSE CHOOSE s \in SlotsNamed(n) : TRUE,
                              name |-> IF does = "add" THEN n ELSE "",
                              to |-> IF b = "" THEN Opus ELSE b, on |-> b \notin off,
                              kept |-> does = "add" /\ b = ""])
    BY DEF ToolCalled
  <2> DEFINE refused == \/ ~MayManage
                        \/ does = "set" /\ (clientRow.mode = "direct" \/ b = "")
                        \/ does # "add" /\ SlotsNamed(n) = {}
             found == CHOOSE s \in SlotsNamed(n) : TRUE
             to == IF b = "" THEN Opus ELSE b
             on == b \notin off
             kept == does = "add" /\ b = ""
  <2>1. CASE refused
    <3>1. Moves(h, [pc |-> "audit", changed |-> FALSE])
      BY <2>1
    <3>2. QED
      BY <3>1, Answering
  <2>2. CASE ~refused /\ does = "remove"
    <3>1. Moves(h, [pc |-> "write", does |-> does, slot |-> found])
      BY <2>2
    <3>2. found \in AnySlot /\ clientRow.manage
      BY <2>2, SlotFound DEF NamesStand, MayManage
    <3> HIDE DEF found
    <3>3. [pc |-> "write", does |-> does, slot |-> found] \in AnyCall
      BY <2>2, <3>2 DEF AnyCall, Removal
    <3>4. QED
      BY <2>2, <3>1, <3>2, <3>3
  <2>3. CASE ~refused /\ does # "remove"
    <3> DEFINE slot == IF does = "add" THEN 0 ELSE found
               name == IF does = "add" THEN n ELSE ""
               c == [pc |-> "check", does |-> does, slot |-> slot, name |-> name, to |-> to,
                     on |-> on, kept |-> kept]
    <3>1. Moves(h, c)
      BY <2>3
    <3>2. slot \in AnySlot /\ clientRow.manage
      <4>1. 0 \in AnySlot
        BY DEF AnySlot
      <4>2. does # "add" => found \in AnySlot
        BY <2>3, SlotFound DEF NamesStand
      <4>3. QED
        BY <2>3, <4>1, <4>2 DEF MayManage
    <3>3. name \in Name \cup {""} /\ (does = "set" => name = "") /\ to \in Binding
      BY SomeBindings
    <3>4. on \in BOOLEAN /\ kept \in BOOLEAN
      OBVIOUS
    <3> HIDE DEF found, slot, name, to, on, kept
    <3>5. c \in AnyCall /\ c.pc = "check" /\ c.does = does /\ c.name = name
      BY <2>3, <3>2, <3>3, <3>4 DEF AnyCall, Change
    <3> HIDE DEF c
    <3>6. QED
      BY <3>1, <3>2, <3>3, <3>5
  <2>4. QED
    BY <2>1, <2>2, <2>3
<1>4. NamesStand'
  BY <1>1, <1>2, <1>3, QuietMove
<1>5. NamesLet
  BY <1>1, <1>2, <1>3, CallMoves, QuietLet DEF NamesStand
<1>6. QED
  BY <1>4, <1>5

LEMMA TypesKept ==
  ASSUME NamesTypes, NEW h \in Caller, UNCHANGED <<kind, clientRow>>, Slots' \subseteq AnySlot,
         drawn' \in Nat, drawn' <= MaxSlot, made' \in Nat, onFile' \in Nat /\ unfiled' \in Nat,
         DOMAIN calls' = Caller, \A g \in Caller : calls'[g] \in AnyCall,
         \A g \in Caller : g # h => calls'[g] = calls[g],
         calls'[h].pc \in {"idle", "came", "audit"}, h \in Page => calls'[h].pc = "idle"
  PROVE  NamesTypes'
<1>1. \A g \in Page : calls'[g].pc \notin {"came", "audit"}
  BY DEF NamesTypes, Caller
<1>2. \A g \in Agents : calls'[g].pc \in {"check", "write"} /\ calls'[g].does = "set" => calls'[g].name = ""
  <2> SUFFICES ASSUME NEW g \in Agents, calls'[g].pc \in {"check", "write"}, calls'[g].does = "set"
               PROVE  calls'[g].name = ""
    OBVIOUS
  <2>1. g # h /\ g \in Caller
    BY DEF Caller
  <2>2. calls'[g] = calls[g]
    BY <2>1
  <2>3. QED
    BY <2>2 DEF NamesTypes
<1>3. QED
  BY <1>1, <1>2 DEF NamesTypes

LEMMA Audits ==
  ASSUME NamesStand, NEW h \in Agents, Audit(h)
  PROVE  NamesStand' /\ NamesLet
<1>1. h \in Caller /\ h \notin Page
  BY SomeBindings DEF Caller
<1>2. calls[h].pc = "audit" /\ UNCHANGED <<kind, clientRow, drawn, slots, made>>
  BY DEF Audit, Call, theRest
<1>3. /\ DOMAIN calls' = Caller /\ \A g \in Caller : calls'[g] \in AnyCall
      /\ calls'[h] = [pc |-> "came"]
      /\ \A g \in Caller : g # h => calls'[g] = calls[g]
  BY <1>1, Waiting, CallMoves DEF Audit, NamesStand
<1>4. calls[h] \in Answered
  BY <1>1, <1>2, CallShape DEF NamesStand
<1>5. onFile' \in Nat /\ unfiled' \in Nat /\ OnRecord'
  <2>0. /\ made \in Nat /\ onFile \in Nat /\ unfiled \in Nat /\ made = onFile + unfiled + Cardinality(Reports)
    BY OnRecordReports DEF NamesStand, NamesTypes
  <2>1. (OnRecord <=> made = onFile + unfiled + Cardinality(Reports))'
    BY OnRecordReports, PTL
  <2>2. CASE calls[h].changed
    <3>1. \/ onFile' = onFile + 1 /\ unfiled' = unfiled
          \/ unfiled' = unfiled + 1 /\ onFile' = onFile
      BY <2>2 DEF Audit, RecordChange, Call
    <3>2. Cardinality(Reports') = Cardinality(Reports) - 1
      BY <1>1, <1>2, <1>3, <2>2, OneReportLess
    <3>3. Cardinality(Reports) \in Nat
      BY ReportsFinite, FS_CardinalityType
    <3>4. QED
      BY <1>2, <2>0, <2>1, <3>1, <3>2, <3>3
  <2>3. CASE ~calls[h].changed
    <3>1. onFile' = onFile /\ unfiled' = unfiled
      BY <2>3 DEF Audit, Call
    <3>2. Reports' = Reports
      BY <1>1, <1>2, <1>3, <2>3, ReportsSame
    <3>3. QED
      BY <1>2, <2>0, <2>1, <3>1, <3>2
  <2>4. QED
    BY <2>2, <2>3
<1>6. NamesTypes'
  <2>1. /\ Slots' \subseteq AnySlot /\ made' \in Nat /\ drawn' \in Nat /\ drawn' <= MaxSlot
    BY <1>2 DEF NamesStand, NamesTypes, Slots
  <2>2. calls'[h].pc = "came" /\ UNCHANGED <<kind, clientRow>>
    BY <1>2, <1>3
  <2>3. QED
    BY <1>1, <1>3, <1>5, <2>1, <2>2, TypesKept DEF NamesStand
<1>7. SlotsApart'
  BY <1>2 DEF NamesStand, SlotsApart, Slots
<1>8. NamesLet
  BY <1>1, <1>2, <1>3, QuietLet
<1>9. QED
  BY <1>5, <1>6, <1>7, <1>8 DEF NamesStand

LEMMA Checks ==
  ASSUME NamesStand, NEW h \in Caller, Check(h)
  PROVE  NamesStand' /\ NamesLet
<1>1. calls[h].pc = "check" /\ UNCHANGED <<kind, clientRow, drawn, slots, made, onFile, unfiled>>
  BY DEF Check, Call, theRest
<1>2. calls[h] \in Change
  BY <1>1, CallShape DEF NamesStand
<1>3. CASE calls[h].kept \/ Bindable(calls[h])
  <2> DEFINE c == [calls[h] EXCEPT !.pc = "write"]
  <2>1. Moves(h, c)
    BY <1>3 DEF Check, Call
  <2>2. c \in AnyCall /\ c.pc = "write" /\ c.does = calls[h].does /\ c.name = calls[h].name
    BY <1>2 DEF AnyCall, Change
  <2>3. h \in Agents => (c.does = "set" => c.name = "")
    BY <1>1, <2>2 DEF NamesStand, NamesTypes
  <2> HIDE DEF c
  <2>4. NamesStand'
    BY <1>1, <2>1, <2>2, <2>3, QuietMove
  <2>5. NamesLet
    BY <1>1, <1>3, <2>1, <2>2, CallMoves, QuietLet DEF NamesStand
  <2>6. QED
    BY <2>4, <2>5
<1>4. CASE ~(calls[h].kept \/ Bindable(calls[h]))
  <2>1. PICK c \in AnyCall : /\ Moves(h, c) /\ c.pc \in {"idle", "audit"}
                             /\ c.pc = "audit" => c.changed = FALSE /\ h \notin Page
    <3>1. CASE h \in Page
      <4>1. Moves(h, NoCall)
        BY <1>4, <3>1 DEF Check, Call, AnswerCall, Finish
      <4>2. QED
        BY <4>1, Waiting DEF NoCall
    <3>2. CASE h \notin Page
      <4>1. Moves(h, [pc |-> "audit", changed |-> FALSE])
        BY <1>4, <3>2 DEF Check, Call, AnswerCall
      <4>2. QED
        BY <3>2, <4>1, Answering
    <3>3. QED
      BY <3>1, <3>2
  <2>2. NamesStand'
    BY <1>1, <2>1, QuietMove
  <2>3. NamesLet
    BY <1>1, <2>1, CallMoves, QuietLet DEF NamesStand
  <2>4. QED
    BY <2>2, <2>3
<1>5. QED
  BY <1>3, <1>4

---------------------------------------------------------------------------
(* The write *)

\* The three writes, on rows whose names are apart.
LEMMA NameWritten == \A n, b : [name |-> n, to |-> b].name = n
OBVIOUS

LEMMA SlotsWritten ==
  ASSUME NamesTypes, SlotsApart, NEW c \in Change \cup Removal, c.pc = "write", Finds(c),
         c.does = "add" => drawn < MaxSlot, UNCHANGED <<kind, clientRow>>,
         slots' = CASE c.does = "set" -> [slots EXCEPT ![c.slot] = [name |-> Renamed(c), to |-> c.to]]
                    [] c.does = "add" -> [s \in Slots \cup {drawn + 1} |->
                                            IF s \in Slots THEN slots[s] ELSE [name |-> c.name, to |-> c.to]]
                    [] c.does = "remove" -> Restrict(slots, Slots \ {c.slot})
  PROVE  /\ SlotsApart' /\ Slots' \subseteq AnySlot
         /\ c.does # "add" => c.slot \in Slots
         /\ \A s \in Slots \ {c.slot} : s \in DOMAIN slots' /\ slots'[s] = slots[s]
         /\ c.does = "set" => slots'[c.slot].name = Renamed(c)
<1>0. Slots \subseteq AnySlot /\ drawn \in Nat /\ drawn <= MaxSlot
  BY DEF NamesTypes
<1>1. c.does # "add" => c.slot \in Slots
  BY DEF Finds
<1>2. CASE c.does = "set"
  <2>1. slots' = [slots EXCEPT ![c.slot] = [name |-> Renamed(c), to |-> c.to]]
    BY <1>2
  <2>2. /\ Slots' = Slots /\ slots'[c.slot].name = Renamed(c)
        /\ \A s \in Slots \ {c.slot} : slots'[s] = slots[s]
    BY <1>1, <1>2, <2>1 DEF Slots
  <2>3. \A t \in Slots \ {c.slot} : slots[t].name # Renamed(c)
    BY <1>2 DEF Finds, NameTaken
  <2>4. \A s, t \in Slots : slots'[s].name = slots'[t].name => s = t
    <3> SUFFICES ASSUME NEW s \in Slots, NEW t \in Slots, slots'[s].name = slots'[t].name PROVE s = t
      OBVIOUS
    <3>1. CASE s = c.slot \/ t = c.slot
      BY <2>2, <2>3, <3>1
    <3>2. CASE s # c.slot /\ t # c.slot
      <4>1. slots'[s] = slots[s] /\ slots'[t] = slots[t]
        BY <2>2, <3>2
      <4>2. QED
        BY <4>1 DEF SlotsApart
    <3>3. QED
      BY <3>1, <3>2
  <2>5. QED
    BY <1>0, <1>1, <1>2, <2>2, <2>4 DEF SlotsApart, Slots
<1>3. CASE c.does = "add"
  <2>1. slots' = [s \in Slots \cup {drawn + 1} |->
                    IF s \in Slots THEN slots[s] ELSE [name |-> c.name, to |-> c.to]]
    BY <1>3
  <2>2. /\ Slots' = Slots \cup {drawn + 1}
        /\ \A s \in Slots : slots'[s] = slots[s]
        /\ \A s \in Slots' \ Slots : slots'[s].name = c.name
        /\ \A s, t \in Slots' \ Slots : s = t
    <3>1. Slots' = Slots \cup {drawn + 1}
      BY <2>1 DEF Slots
    <3>2. \A s \in Slots : slots'[s] = slots[s]
      BY <2>1
    <3>3. \A s \in Slots' \ Slots : s = drawn + 1
      BY <3>1
    <3>4. \A s \in Slots' \ Slots : slots'[s].name = c.name
      <4> SUFFICES ASSUME NEW s \in Slots' \ Slots PROVE slots'[s].name = c.name
        OBVIOUS
      <4>1. slots'[s] = [name |-> c.name, to |-> c.to]
        BY <2>1, <3>1
      <4>2. [name |-> c.name, to |-> c.to].name = c.name
        BY NameWritten
      <4>3. QED
        BY <4>1, <4>2, Zenon
    <3>5. QED
      BY <3>1, <3>2, <3>3, <3>4
  <2>3. \A t \in Slots : slots[t].name # c.name
    BY <1>3 DEF Finds, NameTaken, SlotsApart
  <2>4. \A s, t \in Slots' : slots'[s].name = slots'[t].name => s = t
    <3> SUFFICES ASSUME NEW s \in Slots', NEW t \in Slots', slots'[s].name = slots'[t].name PROVE s = t
      OBVIOUS
    <3>1. CASE s \in Slots /\ t \in Slots
      <4>1. slots'[s] = slots[s] /\ slots'[t] = slots[t]
        BY <2>2, <3>1
      <4>2. QED
        BY <3>1, <4>1 DEF SlotsApart
    <3>2. CASE s \notin Slots /\ t \notin Slots
      BY <2>2, <3>2
    <3>3. CASE s \in Slots /\ t \notin Slots
      BY <2>2, <2>3, <3>3
    <3>4. CASE s \notin Slots /\ t \in Slots
      BY <2>2, <2>3, <3>4
    <3>5. QED
      BY <3>1, <3>2, <3>3, <3>4
  <2>5. drawn + 1 \in Nat /\ drawn + 1 # MaxSlot + 1
    BY <1>0, <1>3, SomeCallers
  <2>6. MaxSlot + 1 \notin Slots' /\ Slots' \subseteq AnySlot
    BY <1>0, <2>2, <2>5 DEF SlotsApart, AnySlot
  <2>7. clientRow.there => kind.custom \/ kind.own \subseteq Slots'
    BY <2>2 DEF SlotsApart
  <2>8. QED
    BY <1>3, <2>2, <2>4, <2>6, <2>7 DEF SlotsApart, Slots
<1>4. CASE c.does = "remove"
  <2>1. slots' = [s \in Slots \ {c.slot} |-> slots[s]]
    BY <1>4 DEF Restrict
  <2>2. Slots' = Slots \ {c.slot} /\ \A s \in Slots \ {c.slot} : slots'[s] = slots[s]
    BY <2>1 DEF Slots
  <2>3. kind.custom \/ c.slot \notin kind.own
    BY <1>4 DEF Finds, Removable
  <2>4. clientRow.there => kind.custom \/ kind.own \subseteq Slots'
    BY <2>2, <2>3 DEF SlotsApart
  <2>5. \A s, t \in Slots' : slots'[s].name = slots'[t].name => s = t
    <3> SUFFICES ASSUME NEW s \in Slots', NEW t \in Slots', slots'[s].name = slots'[t].name PROVE s = t
      OBVIOUS
    <3>1. slots'[s] = slots[s] /\ slots'[t] = slots[t] /\ s \in Slots /\ t \in Slots
      BY <2>2
    <3>2. QED
      BY <3>1 DEF SlotsApart
  <2>6. MaxSlot + 1 \notin Slots' /\ Slots' \subseteq AnySlot
    BY <1>0, <2>2 DEF SlotsApart
  <2>7. SlotsApart'
    BY <2>4, <2>5, <2>6 DEF SlotsApart, Slots
  <2>8. QED
    BY <1>1, <1>4, <2>2, <2>6, <2>7 DEF Slots
<1>5. QED
  BY <1>2, <1>3, <1>4 DEF Change, Removal

LEMMA WritesSlots ==
  ASSUME NamesStand, NEW h \in Caller, Write(h)
  PROVE  NamesStand' /\ NamesLet
<1> DEFINE c == calls[h]
<1>1. c.pc = "write" /\ UNCHANGED <<kind, clientRow, onFile, unfiled>>
  BY DEF Write, Call
<1>2. c \in Change \cup Removal
  BY <1>1, CallShape DEF NamesStand
<1>3. CASE Finds(c)
  <2>1. /\ c.does = "add" => drawn < MaxSlot
        /\ drawn' = IF c.does = "add" THEN drawn + 1 ELSE drawn
        /\ slots' = CASE c.does = "set" -> [slots EXCEPT ![c.slot] = [name |-> Renamed(c), to |-> c.to]]
                      [] c.does = "add" -> [s \in Slots \cup {drawn + 1} |->
                                              IF s \in Slots THEN slots[s] ELSE [name |-> c.name, to |-> c.to]]
                      [] c.does = "remove" -> Restrict(slots, Slots \ {c.slot})
        /\ made' = IF h \in Agents THEN made + 1 ELSE made
        /\ AnswerCall(h, TRUE)
    BY <1>1, <1>3 DEF Write, Call
  <2>2. /\ SlotsApart' /\ Slots' \subseteq AnySlot
        /\ c.does # "add" => c.slot \in Slots
        /\ \A s \in Slots \ {c.slot} : s \in DOMAIN slots' /\ slots'[s] = slots[s]
        /\ c.does = "set" => slots'[c.slot].name = Renamed(c)
    <3> HIDE DEF c
    <3>1. QED
      BY <1>1, <1>2, <1>3, <2>1, SlotsWritten DEF NamesStand
  <2>3. drawn' \in Nat /\ drawn' <= MaxSlot
    <3>1. drawn \in Nat /\ drawn <= MaxSlot
      BY DEF NamesStand, NamesTypes
    <3>2. drawn' = drawn \/ (drawn < MaxSlot /\ drawn' = drawn + 1)
      BY <2>1
    <3> HIDE DEF c
    <3>3. QED
      BY <3>1, <3>2, SomeCallers
  <2>4. CASE h \in Page
    <3>1. Moves(h, NoCall) /\ h \notin Agents
      BY <2>1, <2>4, SomeBindings DEF AnswerCall, Finish
    <3>2. /\ DOMAIN calls' = Caller /\ \A g \in Caller : calls'[g] \in AnyCall
          /\ calls'[h].pc = "idle"
          /\ \A g \in Caller : g # h => calls'[g] = calls[g]
      BY <3>1, Waiting, CallMoves DEF NamesStand, NoCall
    <3>3. made' = made
      BY <2>1, <3>1
    <3>4. Reports' = Reports
      BY <1>1, <3>2, ReportsSame
    <3>5. (OnRecord <=> made = onFile + unfiled + Cardinality(Reports))'
      BY OnRecordReports, PTL
    <3>6. OnRecord'
      BY <1>1, <3>3, <3>4, <3>5, OnRecordReports DEF NamesStand
    <3>7. NamesTypes'
      BY <1>1, <2>2, <2>3, <3>2, <3>3 DEF NamesStand, NamesTypes, Caller
    <3>8. NamesLet
      BY <1>1, <3>1, <3>2, <3>3, QuietLet
    <3>9. QED
      BY <2>2, <3>6, <3>7, <3>8 DEF NamesStand
  <2>5. CASE h \notin Page
    <3>1. Moves(h, [pc |-> "audit", changed |-> TRUE]) /\ h \in Agents
      BY <2>1, <2>5 DEF AnswerCall, Caller
    <3>2. /\ DOMAIN calls' = Caller /\ \A g \in Caller : calls'[g] \in AnyCall
          /\ calls'[h].pc = "audit" /\ calls'[h].changed
          /\ \A g \in Caller : g # h => calls'[g] = calls[g]
      <4>1. [pc |-> "audit", changed |-> TRUE] \in AnyCall
        BY Answering
      <4>2. /\ DOMAIN calls' = Caller /\ \A g \in Caller : calls'[g] \in AnyCall
            /\ calls'[h] = [pc |-> "audit", changed |-> TRUE]
            /\ \A g \in Caller : g # h => calls'[g] = calls[g]
        BY <3>1, <4>1, CallMoves DEF NamesStand
      <4>3. QED
        BY <4>2
    <3>3. made' = made + 1 /\ made' \in Nat
      <4>1. made' = made + 1
        BY <2>1, <3>1
      <4>2. made \in Nat
        BY DEF NamesStand, NamesTypes
      <4> HIDE DEF c
      <4>3. QED
        BY <4>1, <4>2
    <3>4. Cardinality(Reports') = Cardinality(Reports) + 1
      BY <1>1, <3>2, OneReportMore
    <3>5. (OnRecord <=> made = onFile + unfiled + Cardinality(Reports))'
      BY OnRecordReports, PTL
    <3>6. OnRecord'
      <4>1. /\ made \in Nat /\ onFile \in Nat /\ unfiled \in Nat /\ made = onFile + unfiled + Cardinality(Reports)
        BY OnRecordReports DEF NamesStand, NamesTypes
      <4>2. Cardinality(Reports) \in Nat
        BY ReportsFinite, FS_CardinalityType
      <4>3. QED
        BY <1>1, <3>3, <3>4, <3>5, <4>1, <4>2
    <3>7. NamesTypes'
      <4>1. onFile' \in Nat /\ unfiled' \in Nat
        BY <1>1 DEF NamesStand, NamesTypes
      <4>2. QED
        BY <1>1, <2>2, <2>3, <2>5, <3>2, <3>3, <4>1, TypesKept DEF NamesStand
    <3>8. AgentKeepsNames
      <4>1. calls'[h] # c
        BY <1>1, <3>2
      <4>2. c.does = "set" => slots'[c.slot].name = slots[c.slot].name
        <5>1. c.does = "set" => c.name = ""
          BY <1>1, <3>1 DEF NamesStand, NamesTypes
        <5>2. QED
          BY <2>2, <5>1 DEF Renamed
      <4>3. QED
        BY <1>1, <2>2, <3>1, <4>1, <4>2 DEF AgentKeepsNames, Call
    <3>9. AgentMay /\ BoundFromMenu
      <4>1. AgentMay
        BY <1>1, <3>2 DEF AgentMay, Call, Caller
      <4>2. BoundFromMenu
        BY <1>1, <3>2 DEF BoundFromMenu, Call
      <4>3. QED
        BY <4>1, <4>2
    <3>10. QED
      BY <2>2, <3>6, <3>7, <3>8, <3>9 DEF NamesStand, NamesLet
  <2>6. QED
    BY <2>4, <2>5
<1>4. CASE ~Finds(c)
  <2>0. UNCHANGED <<drawn, slots, made>>
    BY <1>4 DEF Write, Call
  <2>1. PICK d \in AnyCall : /\ Moves(h, d) /\ d.pc \in {"idle", "audit"}
                             /\ d.pc = "audit" => d.changed = FALSE /\ h \notin Page
    <3>1. CASE h \in Page
      <4>1. Moves(h, NoCall)
        BY <1>4, <3>1 DEF Write, Call, AnswerCall, Finish
      <4>2. QED
        BY <4>1, Waiting DEF NoCall
    <3>2. CASE h \notin Page
      <4>1. Moves(h, [pc |-> "audit", changed |-> FALSE])
        BY <1>4, <3>2 DEF Write, Call, AnswerCall
      <4>2. QED
        BY <3>2, <4>1, Answering
    <3>3. QED
      BY <3>1, <3>2
  <2>2. NamesStand'
    BY <1>1, <2>0, <2>1, QuietMove
  <2>3. NamesLet
    BY <1>1, <2>0, <2>1, CallMoves, QuietLet DEF NamesStand
  <2>4. QED
    BY <2>2, <2>3
<1>5. QED
  BY <1>3, <1>4

---------------------------------------------------------------------------
(* Switches, and the whole *)

LEMMA Switches ==
  ASSUME NamesStand,
         \/ \E m \in {"binding", "direct"} : clientRow.mode # m /\ SetClientMode(m)
         \/ SetClientAgentManage \/ SetClientDisabled
         \/ \E b \in Binding : SetKeyModel(b) \/ MenuChanges(b)
         \/ DeleteClient
  PROVE  NamesStand' /\ NamesLet
<1>1. UNCHANGED <<kind, drawn, calls, made, onFile, unfiled>>
  BY DEF SetClientMode, SetClientAgentManage, SetClientDisabled, SetKeyModel, MenuChanges, DeleteClient, thrown
<1>2. /\ clientRow' \in [there : BOOLEAN, mode : {"binding", "direct"}, manage : BOOLEAN, disabled : BOOLEAN]
      /\ \/ slots' = slots /\ clientRow'.there = clientRow.there
         \/ DOMAIN slots' = {} /\ ~clientRow'.there
  <2>0. clientRow \in [there : BOOLEAN, mode : {"binding", "direct"}, manage : BOOLEAN, disabled : BOOLEAN]
    BY DEF NamesStand, NamesTypes
  <2>1. CASE \E m \in {"binding", "direct"} : SetClientMode(m)
    BY <2>0, <2>1 DEF SetClientMode, thrown
  <2>2. CASE SetClientAgentManage \/ SetClientDisabled
    BY <2>0, <2>2 DEF SetClientAgentManage, SetClientDisabled, thrown
  <2>3. CASE \E b \in Binding : SetKeyModel(b) \/ MenuChanges(b)
    BY <2>0, <2>3 DEF SetKeyModel, MenuChanges, thrown
  <2>4. CASE DeleteClient
    <3>1. slots' = <<>> /\ clientRow' = [clientRow EXCEPT !.there = FALSE]
      BY <2>4 DEF DeleteClient
    <3>2. DOMAIN slots' = {}
      BY <3>1
    <3>3. QED
      BY <2>0, <3>1, <3>2
  <2>5. QED
    BY <2>1, <2>2, <2>3, <2>4
<1>3. NamesTypes'
  BY <1>1, <1>2 DEF NamesStand, NamesTypes, Slots
<1>4. SlotsApart'
  BY <1>1, <1>2 DEF NamesStand, SlotsApart, Slots
<1>5. OnRecord'
  BY <1>1 DEF NamesStand, OnRecord, Call
<1>6. NamesLet
  BY <1>1 DEF NamesLet, AgentKeepsNames, AgentMay, BoundFromMenu, Call, Caller
<1>7. QED
  BY <1>3, <1>4, <1>5, <1>6 DEF NamesStand

LEMMA NamesGoOn ==
  ASSUME NamesStand, NamesNext
  PROVE  NamesStand' /\ NamesLet
BY PageAsking, AgentWaits, AgentCalls, Audits, Checks, WritesSlots, Switches DEF NamesNext

\* Whatever the page and the agents ask at once, a name of a client means one
\* thing and the type's own names are there, every change an agent makes is
\* recorded once, unless no history is kept or the write of it fails
\* (Recorder.Record), touches the one slot it was asked for without renaming it,
\* and is let through by a switch and a menu that allowed it.
THEOREM NamesSoundHolds == NamesSpec => NamesSound
<1>1. NamesStand /\ [NamesNext]_namesVars => NamesStand'
  <2> SUFFICES ASSUME NamesStand, [NamesNext]_namesVars PROVE NamesStand'
    OBVIOUS
  <2>1. CASE UNCHANGED namesVars
    BY <2>1 DEF namesVars, NamesStand, NamesTypes, SlotsApart, OnRecord, Slots, Call
  <2>2. QED
    BY <2>1, NamesGoOn
<1>2. (SlotsApart => AlwaysAnswers)'
  BY NamesAnswer, PTL
<1>3. NamesStand /\ [NamesNext]_namesVars => [NamesStep]_namesVars
  <2> SUFFICES ASSUME NamesStand, NamesNext PROVE NamesStep
    OBVIOUS
  <2>1. NamesStand' /\ NamesLet
    BY NamesGoOn
  <2>2. QED
    BY <1>2, <2>1 DEF NamesStep, NamesStand, NamesLet
<1>4. QED
  BY <1>1, <1>3, NamesBegin, PTL DEF NamesSpec, NamesSound

---------------------------------------------------------------------------
(* Accounts connected and reconnected *)

\* Who may sign in, and what is kept of them.
People == DOMAIN vendor.answers
Stage == {FreeTab}
  \cup [pc : {"redeeming"}, n : Nat, pasted : Nat, account : Nat]
  \cup [pc : {"consented"}, n : Nat, account : Nat, grant : Nat]
  \cup [pc : {"handing back", "storing"}, grant : Nat, target : Nat, looked : BOOLEAN]
Leave == {FreeTab, [pc |-> "deleted"]} \cup [pc : {"deleting"}, row : Nat]
HasGrant == {"consented", "handing back", "storing"}
Code == [by : People \cup {Nobody}, spent : BOOLEAN, handed : BOOLEAN]
Flow == [account : Nat, pending : BOOLEAN]
\* What a row may say: the provers do not know a literal for a string.
Text == STRING \cup {"unknown@"}
Row == [email : Text, uuid : Text, owner : People, grant : Nat, had : SUBSET Nat,
        there : BOOLEAN, looked : BOOLEAN]
Grant == [to : People, stands : BOOLEAN]

Told(who) ==
  IF vendor.answers[who].email = "" THEN "unknown@" ELSE vendor.answers[who].email

SignTypes ==
  /\ vendor \in Setting
  /\ flows \in Seq(Flow) /\ codes \in Seq(Code) /\ Len(flows) = Len(codes)
  /\ accounts \in Seq(Row) /\ grants \in Seq(Grant)
  /\ tabs \in [Tab -> Stage] /\ leaving \in Leave

\* A row names its owner, and its grant is theirs.
RowStands(r) ==
  /\ NamesOwner(vendor, accounts[r])
  /\ accounts[r].grant \in DOMAIN grants
  /\ grants[accounts[r].grant].to = accounts[r].owner

\* A row as a sign-in of its owner would add it, which the next one comes to.
Plain(r) ==
  /\ accounts[r].email = Told(accounts[r].owner)
  /\ accounts[r].uuid = vendor.answers[accounts[r].owner].uuid

\* What a handler has found stays so: the row it is to renew is of whoever
\* approved; and if it has looked and there was none, any that has come since is
\* one it will come to.
TabStands(t) ==
  LET c == tabs[t]
  IN  /\ c.pc = "redeeming" => c.n \in DOMAIN codes /\ c.pasted \in DOMAIN codes
      /\ c.pc = "consented" => c.n \in DOMAIN codes
      /\ c.pc \in HasGrant => c.grant \in DOMAIN grants
      /\ c.pc = "storing" =>
           IF c.target = NoRow
           THEN c.looked => \A r \in Stored : accounts[r].owner = grants[c.grant].to => Plain(r)
           ELSE c.target \in DOMAIN accounts /\ accounts[c.target].owner = grants[c.grant].to

\* A device's code that was handed over is in a handler's hands, or its attempt
\* is over.
DeviceHeld ==
  vendor.device => \A n \in DOMAIN codes :
    codes[n].handed /\ flows[n].pending => \E t \in Tab : tabs[t].pc = "consented" /\ tabs[t].n = n

\* A grant that stands is where it can be found.
InHand(g) ==
  \/ \E r \in DOMAIN accounts : g = accounts[r].grant \/ g \in accounts[r].had
  \/ \E t \in Tab : tabs[t].pc \in HasGrant /\ tabs[t].grant = g
  \/ g \in astray
AllInHand == \A g \in DOMAIN grants : grants[g].stands => InHand(g)

RowsStand == \A r \in DOMAIN accounts : RowStands(r)
TabsStand == \A t \in Tab : TabStands(t)
LeaveStands == leaving.pc = "deleting" => leaving.row \in DOMAIN accounts

SignKept ==
  /\ SignTypes
  /\ RowsStand /\ TabsStand /\ LeaveStands /\ OneRowEach /\ AllInHand /\ DeviceHeld

LEMMA OneMore ==
  ASSUME NEW S, NEW s \in Seq(S), NEW x \in S, NEW s1, s1 = Append(s, x)
  PROVE  /\ s1 \in Seq(S) /\ Len(s1) = Len(s) + 1
         /\ DOMAIN s1 = DOMAIN s \cup {Len(s) + 1} /\ Len(s) + 1 \notin DOMAIN s
         /\ \A i \in DOMAIN s : s1[i] = s[i]
         /\ s1[Len(s) + 1] = x
<1>1. Len(s) \in Nat /\ DOMAIN s = 1..Len(s)
  OBVIOUS
<1>2. /\ s1 \in Seq(S) /\ Len(s1) = Len(s) + 1
      /\ \A i \in 1..Len(s) : s1[i] = s[i]
      /\ s1[Len(s) + 1] = x
  BY AppendProperties
<1>3. DOMAIN s1 = 1..(Len(s) + 1)
  BY <1>2
<1>4. \A n \in Nat : 1..(n + 1) = (1..n) \cup {n + 1} /\ n + 1 \notin 1..n
  OBVIOUS
<1>5. QED
  BY <1>1, <1>2, <1>3, <1>4

LEMMA OneOther ==
  ASSUME NEW S, NEW s \in Seq(S), NEW n \in DOMAIN s, NEW x \in S, NEW s1, s1 = [s EXCEPT ![n] = x]
  PROVE  /\ s1 \in Seq(S) /\ Len(s1) = Len(s) /\ DOMAIN s1 = DOMAIN s
         /\ s1[n] = x /\ \A i \in DOMAIN s : i # n => s1[i] = s[i]
OBVIOUS

LEMMA RowsAre ==
  ASSUME NEW e \in Text, NEW u \in Text, NEW who \in People, NEW g \in Nat,
         NEW gs \in SUBSET Nat, NEW is \in BOOLEAN, NEW did \in BOOLEAN
  PROVE  [email |-> e, uuid |-> u, owner |-> who, grant |-> g, had |-> gs, there |-> is,
          looked |-> did] \in Row
BY DEF Row

LEMMA GrantsAre ==
  ASSUME NEW who \in People, NEW is \in BOOLEAN
  PROVE  [to |-> who, stands |-> is] \in Grant
BY DEF Grant

\* What is kept of an attempt, a code, an account and a grant.
LEMMA Entries ==
  ASSUME SignTypes
  PROVE  /\ DOMAIN flows = DOMAIN codes
         /\ \A n \in DOMAIN flows : /\ n \in Nat /\ n # 0
                                   /\ flows[n] \in Flow /\ flows[n].account \in Nat
         /\ \A n \in DOMAIN codes : codes[n] \in Code /\ codes[n].by \in People \cup {Nobody}
         /\ \A r \in DOMAIN accounts : /\ r \in Nat /\ r # 0 /\ accounts[r] \in Row
                                      /\ accounts[r].owner \in People /\ accounts[r].grant \in Nat
         /\ \A g \in DOMAIN grants : /\ g \in Nat /\ grants[g] \in Grant
                                    /\ grants[g].to \in People
<1>1. \A S : \A s \in Seq(S) :
        /\ DOMAIN s = 1..Len(s)
        /\ \A i \in DOMAIN s : i \in Nat /\ i # 0 /\ s[i] \in S
  OBVIOUS
<1>2. /\ flows \in Seq(Flow) /\ codes \in Seq(Code) /\ Len(flows) = Len(codes)
      /\ accounts \in Seq(Row) /\ grants \in Seq(Grant)
  BY DEF SignTypes
<1>3. \A n \in DOMAIN flows : /\ n \in Nat /\ n # 0
                             /\ flows[n] \in Flow /\ flows[n].account \in Nat
  <2>1. \A f \in Flow : f.account \in Nat
    BY DEF Flow
  <2>2. QED
    BY <1>1, <1>2, <2>1
<1>4. \A n \in DOMAIN codes : codes[n] \in Code /\ codes[n].by \in People \cup {Nobody}
  <2>1. \A f \in Code : f.by \in People \cup {Nobody}
    BY DEF Code
  <2>2. QED
    BY <1>1, <1>2, <2>1
<1>5. \A r \in DOMAIN accounts : /\ r \in Nat /\ r # 0 /\ accounts[r] \in Row
                                /\ accounts[r].owner \in People /\ accounts[r].grant \in Nat
  <2>1. \A f \in Row : f.owner \in People /\ f.grant \in Nat
    BY DEF Row
  <2>2. QED
    BY <1>1, <1>2, <2>1
<1>6. \A g \in DOMAIN grants : /\ g \in Nat /\ grants[g] \in Grant
                              /\ grants[g].to \in People
  <2>1. \A f \in Grant : f.to \in People
    BY DEF Grant
  <2>2. QED
    BY <1>1, <1>2, <2>1
<1>7. DOMAIN flows = DOMAIN codes
  BY <1>1, <1>2
<1>8. QED
  BY <1>3, <1>4, <1>5, <1>6, <1>7

\* What a handler may be at.
LEMMA Stages ==
  ASSUME SignTypes, NEW t \in Tab
  PROVE  /\ tabs[t].pc \in {"free", "redeeming"} \cup HasGrant
         /\ tabs[t].pc = "redeeming" =>
              tabs[t].n \in Nat /\ tabs[t].pasted \in Nat /\ tabs[t].account \in Nat
         /\ tabs[t].pc = "consented" => tabs[t].n \in Nat /\ tabs[t].account \in Nat
         /\ tabs[t].pc \in {"handing back", "storing"} => tabs[t].target \in Nat /\ tabs[t].looked \in BOOLEAN
         /\ tabs[t].pc \in HasGrant <=> "grant" \in DOMAIN tabs[t]
         /\ tabs[t].pc \in HasGrant => tabs[t].grant \in Nat
<1>1. tabs[t] \in Stage
  BY DEF SignTypes
<1>2. CASE tabs[t] = FreeTab
  BY <1>2 DEF FreeTab, HasGrant
<1>3. CASE tabs[t] \in [pc : {"redeeming"}, n : Nat, pasted : Nat, account : Nat]
  BY <1>3 DEF HasGrant
<1>4. CASE tabs[t] \in [pc : {"consented"}, n : Nat, account : Nat, grant : Nat]
  BY <1>4 DEF HasGrant
<1>5. CASE tabs[t] \in [pc : {"handing back", "storing"}, grant : Nat, target : Nat, looked : BOOLEAN]
  BY <1>5 DEF HasGrant
<1>6. QED
  BY <1>1, <1>2, <1>3, <1>4, <1>5 DEF Stage

LEMMA Found ==
  ASSUME SignTypes, AllInHand
  PROVE  NothingDangles
<1>1. SUFFICES ASSUME NEW g \in DOMAIN grants, grants[g].stands
               PROVE  g \in Held \cup astray \cup Replaced
  BY DEF NothingDangles, Standing
<1>2. InHand(g)
  BY <1>1 DEF AllInHand
<1>3. CASE \E r \in DOMAIN accounts : g = accounts[r].grant \/ g \in accounts[r].had
  BY <1>3 DEF Held, Replaced
<1>4. CASE \E t \in Tab : tabs[t].pc \in HasGrant /\ tabs[t].grant = g
  BY <1>4, Stages DEF Held
<1>5. QED
  BY <1>2, <1>3, <1>4 DEF InHand

LEMMA KeptIsSound == SignKept => SignInSound
<1> SUFFICES ASSUME SignKept
             PROVE  SignInSound
  OBVIOUS
<1>1. NoStranger
  BY DEF SignKept, RowsStand, RowStands, NoStranger, Stored
<1>2. DeviceEnds
  BY DEF SignKept, DeviceHeld, DeviceEnds
<1>3. QED
  BY <1>1, <1>2, Found DEF SignKept, SignInSound

---------------------------------------------------------------------------
\* Who is told apart, and how.

LEMMA Answers ==
  ASSUME SignTypes
  PROVE  /\ vendor.answers \in [People -> [email : STRING, uuid : STRING]]
         /\ \A p, q \in People :
              IF vendor.address
              THEN vendor.answers[p].email # "" /\ (vendor.answers[p].email = vendor.answers[q].email => p = q)
              ELSE vendor.answers[p].uuid # "" /\ (vendor.answers[p].uuid = vendor.answers[q].uuid => p = q)
<1>1. vendor \in Setting
  BY DEF SignTypes
<1>2. QED
  BY <1>1, PeopleAreTold DEF PeopleAreTold, People

LEMMA SameNames ==
  ASSUME NEW v, NEW a, NEW b, a.email = b.email, a.uuid = b.uuid, a.owner = b.owner, NamesOwner(v, a)
  PROVE  NamesOwner(v, b)
<1>1. CASE v.address
  BY <1>1 DEF NamesOwner
<1>2. CASE ~ v.address
  <2>1. CASE a.uuid = v.answers[a.owner].uuid
    BY <1>2, <2>1 DEF NamesOwner
  <2>2. CASE a.uuid = "" /\ \A p \in DOMAIN v.answers : v.answers[p].email = a.email <=> p = a.owner
    <3>1. b.uuid = "" /\ \A p \in DOMAIN v.answers : v.answers[p].email = b.email <=> p = b.owner
      BY <2>2
    <3>2. QED
      BY <1>2, <3>1 DEF NamesOwner
  <2>3. QED
    BY <1>2, <2>1, <2>2 DEF NamesOwner
<1>3. QED
  BY <1>1, <1>2

LEMMA Names ==
  ASSUME SignTypes, NEW r \in DOMAIN accounts, RowStands(r), NEW p \in People
  PROVE  LET kept == accounts[r]
             said == vendor.answers[p]
         IN  IF vendor.address THEN said.email # "" /\ (kept.email = said.email <=> kept.owner = p)
             ELSE /\ said.uuid # "" /\ (kept.uuid = said.uuid => kept.owner = p)
                  /\ kept.uuid = "" => (kept.email = said.email <=> kept.owner = p)
                  /\ kept.owner = p => kept.uuid = said.uuid \/ kept.uuid = ""
<1>1. accounts[r].owner \in People
  BY Entries
<1> DEFINE o == accounts[r].owner
<1>2. NamesOwner(vendor, accounts[r])
  BY DEF RowStands
<1>3. CASE vendor.address
  <2>1. accounts[r].email = vendor.answers[o].email
    BY <1>2, <1>3 DEF NamesOwner
  <2>2. vendor.answers[p].email # "" /\ (vendor.answers[o].email = vendor.answers[p].email => o = p)
    BY <1>1, <1>3, Answers
  <2>3. QED
    BY <1>3, <2>1, <2>2
<1>4. CASE ~ vendor.address
  <2>1. \/ accounts[r].uuid = vendor.answers[o].uuid
        \/ /\ accounts[r].uuid = ""
           /\ vendor.answers[p].email = accounts[r].email <=> p = o
    BY <1>2, <1>4 DEF NamesOwner, People
  <2>2. /\ vendor.answers[p].uuid # "" /\ vendor.answers[o].uuid # ""
        /\ vendor.answers[o].uuid = vendor.answers[p].uuid => o = p
    BY <1>1, <1>4, Answers
  <2>3. QED
    BY <1>4, <2>1, <2>2
<1>5. QED
  BY <1>3, <1>4

\* A row that the provider's answer is taken for is of whoever gave it.
LEMMA SameOwner ==
  ASSUME SignTypes, NEW r \in DOMAIN accounts, RowStands(r),
         NEW g \in DOMAIN grants, sameAccount(r, g)
  PROVE  accounts[r].owner = grants[g].to
<1>1. grants[g].to \in People
  BY Entries
<1>2. QED
  BY <1>1, Names DEF sameAccount, Identity, SaidOf

LEMMA IdentityOwner ==
  ASSUME SignTypes, RowsStand, NEW g \in DOMAIN grants
  PROVE  /\ \A r \in ByIdentity(g) : r \in Stored /\ accounts[r].owner = grants[g].to
         /\ ByIdentity(g) = {} => \A r \in Stored : accounts[r].owner # grants[g].to
<1>1. grants[g].to \in People
  BY Entries
<1>2. \A r \in Stored : r \in DOMAIN accounts /\ RowStands(r)
  BY DEF RowsStand, Stored
<1>3. CASE vendor.address
  <2>1. ByIdentity(g) = {r \in Stored : accounts[r].email = SaidOf(g).email}
    BY <1>3 DEF ByIdentity, Identity
  <2>2. SaidOf(g) = vendor.answers[grants[g].to]
    BY DEF SaidOf
  <2>3. \A r \in Stored :
          accounts[r].email = vendor.answers[grants[g].to].email <=> accounts[r].owner = grants[g].to
    BY <1>1, <1>2, <1>3, Names
  <2>4. QED
    BY <2>1, <2>2, <2>3
<1>4. CASE ~ vendor.address
  <2> DEFINE known   == {r \in Stored : accounts[r].uuid = SaidOf(g).uuid}
             unnamed == {r \in Stored : accounts[r].uuid = "" /\ accounts[r].email = SaidOf(g).email}
  <2>1. ByIdentity(g) = IF known # {} THEN known ELSE unnamed
    BY <1>1, <1>4, Answers DEF ByIdentity, Identity, SaidOf
  <2>2. \A r \in Stored : r \in known \/ r \in unnamed <=> accounts[r].owner = grants[g].to
    <3>1. TAKE r \in Stored
    <3> DEFINE said == vendor.answers[grants[g].to]
    <3>2. /\ said.uuid # "" /\ (accounts[r].uuid = said.uuid => accounts[r].owner = grants[g].to)
          /\ accounts[r].uuid = "" =>
               (accounts[r].email = said.email <=> accounts[r].owner = grants[g].to)
          /\ accounts[r].owner = grants[g].to =>
               accounts[r].uuid = said.uuid \/ accounts[r].uuid = ""
      BY <1>1, <1>2, <1>4, <3>1, Names
    <3>3. QED
      BY <3>2 DEF SaidOf
  <2>3. known \subseteq Stored /\ unnamed \subseteq Stored
    OBVIOUS
  <2> HIDE DEF known, unnamed
  <2>4. QED
    BY <2>1, <2>2, <2>3
<1>5. QED
  BY <1>3, <1>4

LEMMA FirstFound ==
  ASSUME SignTypes, NEW g, ByIdentity(g) # {}
  PROVE  FirstOf(ByIdentity(g)) \in ByIdentity(g)
<1>1. Stored \subseteq Nat /\ ByIdentity(g) \subseteq Stored
  BY Entries DEF Stored, ByIdentity
<1>2. \E r \in ByIdentity(g) : \A s \in ByIdentity(g) : r <= s
  <2> DEFINE S == ByIdentity(g)
  <2>1. S \in SUBSET Nat /\ S # {}
    BY <1>1
  <2> HIDE DEF S
  <2>2. \E n \in S : \A k \in S : n <= k
    BY <2>1, LeastNumber
  <2>3. QED
    BY <2>2 DEF S
<1>3. QED
  BY <1>2 DEF FirstOf

---------------------------------------------------------------------------
\* It begins so.

LEMMA SignBegins == SignInInit => SignKept
<1> SUFFICES ASSUME SignInInit
             PROVE  SignKept
  OBVIOUS
<1>1. /\ vendor \in Setting /\ flows = <<>> /\ codes = <<>>
      /\ tabs = [t \in Tab |-> FreeTab] /\ leaving = FreeTab /\ astray = {}
  BY DEF SignInInit
<1>2. PICK stored \in vendor.rows :
        /\ accounts = [i \in DOMAIN stored |->
             [email |-> stored[i].email, uuid |-> stored[i].uuid, owner |-> stored[i].owner,
              grant |-> i, had |-> {}, there |-> TRUE, looked |-> TRUE]]
        /\ grants = [i \in DOMAIN stored |-> [to |-> stored[i].owner, stands |-> TRUE]]
  BY DEF SignInInit
<1>3. /\ stored \in Seq([owner : People, email : STRING, uuid : STRING])
      /\ \A i, j \in DOMAIN stored :
           NamesOwner(vendor, stored[i]) /\ (stored[i].owner = stored[j].owner => i = j)
  BY <1>1, <1>2, PeopleAreTold DEF PeopleAreTold, People
<1>4. DOMAIN stored = 1..Len(stored) /\ Len(stored) \in Nat
  BY <1>3
<1>5. \A i \in DOMAIN stored : /\ i \in Nat /\ stored[i].owner \in People
                              /\ stored[i].email \in Text /\ stored[i].uuid \in Text
  <2>1. TAKE i \in DOMAIN stored
  <2>2. \A S : \A s \in Seq(S) : \A k \in DOMAIN s : s[k] \in S /\ k \in Nat
    OBVIOUS
  <2>3. stored[i] \in [owner : People, email : STRING, uuid : STRING] /\ i \in Nat
    BY <1>3, <2>1, <2>2
  <2>4. QED
    BY <2>3 DEF Text
<1>6. /\ DOMAIN accounts = DOMAIN stored /\ DOMAIN grants = DOMAIN stored
      /\ \A i \in DOMAIN stored :
           /\ accounts[i] = [email |-> stored[i].email, uuid |-> stored[i].uuid,
                             owner |-> stored[i].owner, grant |-> i, had |-> {}, there |-> TRUE, looked |-> TRUE]
           /\ grants[i] = [to |-> stored[i].owner, stands |-> TRUE]
  BY <1>2
<1>7. accounts \in Seq(Row)
  <2>1. ASSUME NEW i \in 1..Len(stored)
        PROVE  accounts[i] \in Row
    <3>1. i \in DOMAIN stored
      BY <1>4
    <3>2. /\ i \in Nat /\ stored[i].owner \in People
          /\ stored[i].email \in Text /\ stored[i].uuid \in Text
      BY <1>5, <3>1
    <3>3. {} \in SUBSET Nat /\ TRUE \in BOOLEAN
      OBVIOUS
    <3>4. [email |-> stored[i].email, uuid |-> stored[i].uuid, owner |-> stored[i].owner,
           grant |-> i, had |-> {}, there |-> TRUE, looked |-> TRUE] \in Row
      BY <3>2, <3>3, RowsAre
    <3>5. QED
      BY <1>6, <3>1, <3>4
  <2>2. accounts = [i \in 1..Len(stored) |-> accounts[i]]
    BY <1>2, <1>4
  <2>3. QED
    BY <1>4, <2>1, <2>2
<1>8. grants \in Seq(Grant)
  <2>1. ASSUME NEW i \in 1..Len(stored)
        PROVE  grants[i] \in Grant
    <3>1. i \in DOMAIN stored
      BY <1>4
    <3>2. /\ i \in Nat /\ stored[i].owner \in People
          /\ stored[i].email \in Text /\ stored[i].uuid \in Text
      BY <1>5, <3>1
    <3>3. QED
      BY <1>6, <3>1, <3>2, GrantsAre
  <2>2. grants = [i \in 1..Len(stored) |-> grants[i]]
    BY <1>2, <1>4
  <2>3. QED
    BY <1>4, <2>1, <2>2
<1>9. /\ \A t \in Tab : tabs[t] = FreeTab
      /\ FreeTab.pc = "free" /\ "free" \notin {"redeeming", "consented", "storing", "deleting"} \cup HasGrant
  BY <1>1 DEF FreeTab, HasGrant
<1>10. SignTypes
  BY <1>1, <1>7, <1>8 DEF SignTypes, Stage, Leave
<1>11. RowsStand
  <2>1. SUFFICES ASSUME NEW r \in DOMAIN stored
                 PROVE  RowStands(r)
    BY <1>6 DEF RowsStand
  <2>2. accounts[r].grant = r /\ accounts[r].owner = stored[r].owner
        /\ accounts[r].email = stored[r].email /\ accounts[r].uuid = stored[r].uuid
        /\ grants[r].to = stored[r].owner
    BY <1>6
  <2>3. NamesOwner(vendor, stored[r])
    BY <1>3
  <2>4. NamesOwner(vendor, accounts[r])
    BY <2>2, <2>3 DEF NamesOwner
  <2>5. QED
    BY <1>6, <2>2, <2>4 DEF RowStands
<1>12. TabsStand /\ LeaveStands
  BY <1>1, <1>9 DEF TabsStand, TabStands, LeaveStands
<1>13. OneRowEach
  BY <1>3, <1>6 DEF OneRowEach, Stored
<1>14. AllInHand
  BY <1>6 DEF AllInHand, InHand
<1>15. DeviceHeld
  BY <1>1 DEF DeviceHeld
<1>16. QED
  BY <1>10, <1>11, <1>12, <1>13, <1>14, <1>15 DEF SignKept

---------------------------------------------------------------------------
\* What a step leaves as it was, or lets grow.

GrantsStay ==
  /\ DOMAIN grants \subseteq DOMAIN grants'
  /\ \A g \in DOMAIN grants : grants'[g].to = grants[g].to
AccountsStay ==
  /\ DOMAIN accounts \subseteq DOMAIN accounts'
  /\ \A r \in DOMAIN accounts : accounts'[r].owner = accounts[r].owner
  /\ \A r \in Stored' : IF r \in Stored THEN Plain(r) => Plain(r)' ELSE Plain(r)'

LEMMA SameAccounts ==
  ASSUME vendor' = vendor, accounts' = accounts
  PROVE  AccountsStay /\ Stored' = Stored /\ People' = People
BY DEF AccountsStay, Plain, Told, Stored, People

LEMMA SameGrants ==
  ASSUME grants' = grants
  PROVE  GrantsStay
BY DEF GrantsStay

LEMMA RowsStay ==
  ASSUME SignTypes, RowsStand, vendor' = vendor, accounts' = accounts, GrantsStay
  PROVE  RowsStand'
BY DEF RowsStand, RowStands, GrantsStay

LEMMA OtherTab ==
  ASSUME SignTypes, TabsStand, vendor' = vendor, GrantsStay, AccountsStay,
         DOMAIN codes \subseteq DOMAIN codes',
         NEW t \in Tab, tabs'[t] = tabs[t]
  PROVE  TabStands(t)'
<1>1. TabStands(t)
  BY DEF TabsStand
<1> DEFINE c == tabs[t]
<1>2. /\ c.pc = "redeeming" => c.n \in DOMAIN codes' /\ c.pasted \in DOMAIN codes'
      /\ c.pc = "consented" => c.n \in DOMAIN codes'
      /\ c.pc \in HasGrant => c.grant \in DOMAIN grants'
  BY <1>1 DEF TabStands, GrantsStay
<1>3. ASSUME c.pc = "storing"
      PROVE  IF c.target = NoRow
             THEN c.looked => \A r \in Stored' : accounts'[r].owner = grants'[c.grant].to => Plain(r)'
             ELSE c.target \in DOMAIN accounts' /\ accounts'[c.target].owner = grants'[c.grant].to
  <2>1. c.grant \in DOMAIN grants /\ grants'[c.grant].to = grants[c.grant].to
    BY <1>1, <1>3 DEF TabStands, GrantsStay, HasGrant
  <2>2. CASE c.target = NoRow
    <3>1. SUFFICES ASSUME c.looked, NEW r \in Stored', accounts'[r].owner = grants'[c.grant].to
                   PROVE  Plain(r)'
      BY <2>2
    <3>2. CASE r \in Stored
      <4>1. accounts[r].owner = grants[c.grant].to
        BY <2>1, <3>1, <3>2 DEF AccountsStay, Stored
      <4>2. Plain(r)
        BY <1>1, <1>3, <2>2, <3>1, <3>2, <4>1 DEF TabStands
      <4>3. QED
        BY <3>1, <3>2, <4>2 DEF AccountsStay
    <3>3. CASE r \notin Stored
      BY <3>1, <3>3 DEF AccountsStay
    <3>4. QED
      BY <3>2, <3>3
  <2>3. CASE c.target # NoRow
    BY <1>1, <1>3, <2>1, <2>3 DEF TabStands, AccountsStay
  <2>4. QED
    BY <2>2, <2>3
<1>4. QED
  BY <1>2, <1>3 DEF TabStands

\* A handler goes on to its next step.
LEMMA TabGoesOn ==
  ASSUME SignTypes, NEW t \in Tab, NEW x \in Stage, tabs' = [tabs EXCEPT ![t] = x]
  PROVE  /\ tabs' \in [Tab -> Stage] /\ tabs'[t] = x
         /\ \A u \in Tab : u # t => tabs'[u] = tabs[u]
BY DEF SignTypes

LEMMA Freed ==
  ASSUME SignTypes, NEW t \in Tab, TurnedAway(t)
  PROVE  /\ tabs' \in [Tab -> Stage] /\ tabs'[t] = FreeTab /\ tabs'[t].pc = "free"
         /\ \A u \in Tab : u # t => tabs'[u] = tabs[u]
         /\ TabStands(t)'
<1>1. FreeTab \in Stage /\ FreeTab.pc = "free"
  BY DEF Stage, FreeTab
<1>2. /\ tabs' \in [Tab -> Stage] /\ tabs'[t] = FreeTab
      /\ \A u \in Tab : u # t => tabs'[u] = tabs[u]
  BY <1>1, TabGoesOn DEF TurnedAway
<1>3. TabStands(t)'
  BY <1>1, <1>2 DEF TabStands, HasGrant
<1>4. QED
  BY <1>1, <1>2, <1>3

\* Nobody else's tab moves.
LEMMA TabsStay ==
  ASSUME SignTypes, TabsStand, vendor' = vendor, GrantsStay, AccountsStay,
         DOMAIN codes \subseteq DOMAIN codes',
         NEW t \in Tab, TabStands(t)', \A u \in Tab : u # t => tabs'[u] = tabs[u]
  PROVE  TabsStand'
<1>1. SUFFICES ASSUME NEW u \in Tab
               PROVE  TabStands(u)'
  BY DEF TabsStand
<1>2. CASE u = t
  BY <1>2
<1>3. CASE u # t
  <2>1. tabs'[u] = tabs[u]
    BY <1>3
  <2>2. QED
    BY <2>1, OtherTab
<1>4. QED
  BY <1>2, <1>3

LEMMA AllTabsStay ==
  ASSUME SignTypes, TabsStand, vendor' = vendor, GrantsStay, AccountsStay,
         DOMAIN codes \subseteq DOMAIN codes', tabs' = tabs
  PROVE  TabsStand'
<1>1. SUFFICES ASSUME NEW u \in Tab
               PROVE  TabStands(u)'
  BY DEF TabsStand
<1>2. tabs'[u] = tabs[u]
  OBVIOUS
<1>3. QED
  BY <1>2, OtherTab

---------------------------------------------------------------------------
\* Attempts.

\* Only attempts and codes change, none handed over before its time.
LEMMA AttemptsMove ==
  ASSUME SignKept, UNCHANGED <<vendor, accounts, grants, tabs, leaving, astray>>,
         flows' \in Seq(Flow), codes' \in Seq(Code), Len(flows') = Len(codes'),
         DOMAIN codes \subseteq DOMAIN codes',
         \A n \in DOMAIN codes' : codes'[n].handed /\ flows'[n].pending =>
            n \in DOMAIN codes /\ codes[n].handed /\ flows[n].pending
  PROVE  SignKept'
<1>1. SignTypes /\ RowsStand /\ TabsStand /\ LeaveStands /\ OneRowEach /\ AllInHand /\ DeviceHeld
  BY DEF SignKept
<1>2. /\ vendor' = vendor /\ accounts' = accounts /\ grants' = grants /\ tabs' = tabs
      /\ leaving' = leaving /\ astray' = astray
  OBVIOUS
<1>3. AccountsStay /\ GrantsStay
  BY <1>2, SameAccounts, SameGrants
<1>4. RowsStand' /\ TabsStand'
  BY <1>1, <1>2, <1>3, RowsStay, AllTabsStay
<1>5. People' = People /\ Stored' = Stored
  BY <1>2, SameAccounts
<1>6. Code' = Code /\ Row' = Row /\ Grant' = Grant
  BY <1>5 DEF Code, Row, Grant
<1>7. SignTypes'
  BY <1>1, <1>2, <1>6 DEF SignTypes
<1>8. LeaveStands' /\ OneRowEach' /\ AllInHand'
  BY <1>1, <1>2, <1>5 DEF LeaveStands, OneRowEach, AllInHand, InHand
<1>9. DeviceHeld'
  BY <1>1, <1>2 DEF DeviceHeld
<1>10. QED
  BY <1>4, <1>7, <1>8, <1>9 DEF SignKept

LEMMA StartKeeps ==
  ASSUME SignKept, NEW a \in Stored \cup {NoRow}, StartSignIn(a)
  PROVE  SignKept'
<1>1. SignTypes
  BY DEF SignKept
<1>2. a \in Nat
  BY <1>1, Entries DEF Stored, NoRow
<1>3. NewFlow(a) \in Flow /\ NewCode \in Code /\ ~ NewCode.handed
  BY <1>2 DEF NewFlow, NewCode, Flow, Code
<1>4. /\ flows' = Append(flows, NewFlow(a)) /\ codes' = Append(codes, NewCode)
      /\ UNCHANGED <<vendor, accounts, grants, tabs, leaving, astray>>
  BY DEF StartSignIn
<1>5. flows \in Seq(Flow) /\ codes \in Seq(Code) /\ Len(flows) = Len(codes) /\ DOMAIN flows = DOMAIN codes
  BY <1>1, Entries DEF SignTypes
<1>6. /\ flows' \in Seq(Flow) /\ Len(flows') = Len(flows) + 1
      /\ \A n \in DOMAIN flows : flows'[n] = flows[n]
  BY <1>3, <1>4, <1>5, OneMore
<1>7. /\ codes' \in Seq(Code) /\ Len(codes') = Len(codes) + 1
      /\ DOMAIN codes' = DOMAIN codes \cup {Len(codes) + 1}
      /\ \A n \in DOMAIN codes : codes'[n] = codes[n]
      /\ codes'[Len(codes) + 1] = NewCode
  BY <1>3, <1>4, <1>5, OneMore
<1>8. \A n \in DOMAIN codes' : codes'[n].handed /\ flows'[n].pending =>
        n \in DOMAIN codes /\ codes[n].handed /\ flows[n].pending
  BY <1>3, <1>5, <1>6, <1>7
<1>9. QED
  BY <1>4, <1>5, <1>6, <1>7, <1>8, AttemptsMove

LEMMA ApproveKeeps ==
  ASSUME SignKept, NEW n \in DOMAIN codes, NEW who \in People, Approve(n, who)
  PROVE  SignKept'
<1>1. SignTypes
  BY DEF SignKept
<1>2. /\ codes' = [codes EXCEPT ![n].by = who]
      /\ UNCHANGED <<vendor, flows, accounts, grants, tabs, leaving, astray>>
  BY DEF Approve
<1>3. codes \in Seq(Code) /\ flows \in Seq(Flow) /\ Len(flows) = Len(codes) /\ codes[n] \in Code
  BY <1>1, Entries DEF SignTypes
<1> DEFINE x == [codes[n] EXCEPT !.by = who]
<1>4. x \in Code /\ x.handed = codes[n].handed
  BY <1>3 DEF Code
<1>5. codes' = [codes EXCEPT ![n] = x]
  BY <1>2
<1> HIDE DEF x
<1>6. /\ codes' \in Seq(Code) /\ Len(codes') = Len(codes) /\ DOMAIN codes' = DOMAIN codes
      /\ codes'[n] = x /\ \A i \in DOMAIN codes : i # n => codes'[i] = codes[i]
  BY <1>3, <1>4, <1>5, OneOther
<1>7. \A i \in DOMAIN codes' : codes'[i].handed /\ flows'[i].pending =>
        i \in DOMAIN codes /\ codes[i].handed /\ flows[i].pending
  BY <1>2, <1>4, <1>6
<1>8. QED
  BY <1>2, <1>3, <1>6, <1>7, AttemptsMove

LEMMA DroppedIs ==
  ASSUME SignTypes, NEW n \in DOMAIN codes
  PROVE  /\ Dropped(n) \in Seq(Flow) /\ Len(Dropped(n)) = Len(flows)
         /\ ~ Dropped(n)[n].pending
         /\ \A i \in DOMAIN codes : i # n => Dropped(n)[i] = flows[i]
<1>1. flows \in Seq(Flow) /\ n \in DOMAIN flows /\ flows[n] \in Flow /\ DOMAIN flows = DOMAIN codes
  BY Entries DEF SignTypes
<1> DEFINE x == [flows[n] EXCEPT !.pending = FALSE]
<1>2. x \in Flow /\ ~ x.pending
  BY <1>1 DEF Flow
<1>3. Dropped(n) = [flows EXCEPT ![n] = x]
  BY DEF Dropped
<1> HIDE DEF x
<1>4. QED
  BY <1>1, <1>2, <1>3, OneOther

LEMMA EvictKeeps ==
  ASSUME SignKept, NEW n \in DOMAIN codes, Evict(n)
  PROVE  SignKept'
<1>1. SignTypes
  BY DEF SignKept
<1>2. /\ flows' = Dropped(n)
      /\ UNCHANGED <<vendor, codes, accounts, grants, tabs, leaving, astray>>
  BY DEF Evict
<1>3. codes \in Seq(Code) /\ Len(flows) = Len(codes)
  BY <1>1 DEF SignTypes
<1>4. /\ flows' \in Seq(Flow) /\ Len(flows') = Len(flows)
      /\ ~ flows'[n].pending /\ \A i \in DOMAIN codes : i # n => flows'[i] = flows[i]
  BY <1>1, <1>2, DroppedIs
<1>5. \A i \in DOMAIN codes' : codes'[i].handed /\ flows'[i].pending =>
        i \in DOMAIN codes /\ codes[i].handed /\ flows[i].pending
  BY <1>2, <1>4
<1>6. QED
  BY <1>2, <1>3, <1>4, <1>5, AttemptsMove

---------------------------------------------------------------------------
\* Redeeming.

\* What was in hand is, whichever handler moves, but for what that one had.
LEMMA StaysInHand ==
  ASSUME NEW g, InHand(g), accounts' = accounts, astray \subseteq astray',
         NEW t \in Tab, \A u \in Tab : u # t => tabs'[u] = tabs[u],
         tabs[t].pc \in HasGrant /\ tabs[t].grant = g => InHand(g)'
  PROVE  InHand(g)'
<1>1. CASE \E r \in DOMAIN accounts : g = accounts[r].grant \/ g \in accounts[r].had
  BY <1>1 DEF InHand
<1>2. CASE \E u \in Tab : tabs[u].pc \in HasGrant /\ tabs[u].grant = g
  <2>1. PICK u \in Tab : tabs[u].pc \in HasGrant /\ tabs[u].grant = g
    BY <1>2
  <2>2. CASE u = t
    BY <2>1, <2>2
  <2>3. CASE u # t
    <3>1. tabs'[u] = tabs[u]
      BY <2>3
    <3>2. QED
      BY <2>1, <3>1 DEF InHand
  <2>4. QED
    BY <2>2, <2>3
<1>3. CASE g \in astray
  BY <1>3 DEF InHand
<1>4. QED
  BY <1>1, <1>2, <1>3 DEF InHand

\* A handler that had no grant moves, and there may be one grant more, which
\* stands in its hands or astray.
LEMMA GrantAnswered ==
  ASSUME SignKept, UNCHANGED <<vendor, accounts, leaving>>,
         flows' \in Seq(Flow), codes' \in Seq(Code), Len(flows') = Len(codes'),
         DOMAIN codes' = DOMAIN codes,
         NEW t \in Tab, tabs[t].pc \notin HasGrant,
         tabs' \in [Tab -> Stage], TabStands(t)', \A u \in Tab : u # t => tabs'[u] = tabs[u],
         \/ UNCHANGED <<grants, astray>>
         \/ \E who \in People, stands \in BOOLEAN :
              /\ Given(who, stands) /\ astray \subseteq astray'
              /\ stands => \/ NextGrant \in astray'
                           \/ tabs'[t].pc \in HasGrant /\ tabs'[t].grant = NextGrant
  PROVE  /\ SignTypes' /\ RowsStand' /\ TabsStand' /\ LeaveStands' /\ OneRowEach' /\ AllInHand'
<1>1. SignTypes /\ RowsStand /\ TabsStand /\ LeaveStands /\ OneRowEach /\ AllInHand
  BY DEF SignKept
<1>2. vendor' = vendor /\ accounts' = accounts /\ leaving' = leaving
  OBVIOUS
<1>3. People' = People /\ Stored' = Stored /\ AccountsStay
  BY <1>2, SameAccounts
<1>4. Code' = Code /\ Row' = Row /\ Grant' = Grant
  BY <1>3 DEF Code, Row, Grant
<1>5. grants \in Seq(Grant)
  BY <1>1 DEF SignTypes
<1>6. /\ grants' \in Seq(Grant) /\ GrantsStay /\ astray \subseteq astray'
      /\ \A g \in DOMAIN grants' :
           grants'[g].stands => InHand(g)' \/ (g \in DOMAIN grants /\ grants[g].stands)
  <2>1. CASE UNCHANGED <<grants, astray>>
    BY <1>5, <2>1, SameGrants
  <2>2. ASSUME NEW who \in People, NEW stands \in BOOLEAN, Given(who, stands), astray \subseteq astray',
               stands => \/ NextGrant \in astray'
                         \/ tabs'[t].pc \in HasGrant /\ tabs'[t].grant = NextGrant
        PROVE  /\ grants' \in Seq(Grant) /\ GrantsStay /\ astray \subseteq astray'
               /\ \A g \in DOMAIN grants' :
                    grants'[g].stands => InHand(g)' \/ (g \in DOMAIN grants /\ grants[g].stands)
    <3> DEFINE x == [to |-> who, stands |-> stands]
    <3>1. x \in Grant /\ x.stands = stands
      BY GrantsAre
    <3>2. grants' = Append(grants, x)
      BY <2>2 DEF Given
    <3> HIDE DEF x
    <3>3. /\ grants' \in Seq(Grant) /\ DOMAIN grants' = DOMAIN grants \cup {NextGrant}
          /\ \A i \in DOMAIN grants : grants'[i] = grants[i]
          /\ grants'[NextGrant] = x
      BY <1>5, <3>1, <3>2, OneMore DEF NextGrant
    <3>4. \A g : g = NextGrant /\ stands => InHand(g)'
      BY <2>2 DEF InHand
    <3>5. GrantsStay
      BY <3>3 DEF GrantsStay
    <3>6. \A g \in DOMAIN grants' :
             grants'[g].stands => InHand(g)' \/ (g \in DOMAIN grants /\ grants[g].stands)
      BY <3>1, <3>3, <3>4
    <3>7. QED
      BY <2>2, <3>3, <3>5, <3>6
  <2>3. QED
    BY <2>1, <2>2
<1>7. SignTypes'
  BY <1>1, <1>2, <1>4, <1>6 DEF SignTypes
<1>8. RowsStand'
  BY <1>1, <1>2, <1>6, RowsStay
<1>9. TabsStand'
  BY <1>1, <1>2, <1>3, <1>6, TabsStay
<1>10. LeaveStands' /\ OneRowEach'
  BY <1>1, <1>2, <1>3 DEF LeaveStands, OneRowEach
<1>11. AllInHand'
  <2>1. SUFFICES ASSUME NEW g \in DOMAIN grants', grants'[g].stands
                 PROVE  InHand(g)'
    BY DEF AllInHand
  <2>2. CASE g \in DOMAIN grants /\ grants[g].stands
    <3>1. InHand(g)
      BY <1>1, <2>2 DEF AllInHand
    <3>2. QED
      BY <1>2, <1>6, <3>1, StaysInHand
  <2>3. QED
    BY <1>6, <2>1, <2>2
<1>12. QED
  BY <1>7, <1>8, <1>9, <1>10, <1>11

LEMMA RedeemKeeps ==
  ASSUME SignKept, NEW t \in Tab, NEW n \in DOMAIN codes, NEW pasted \in DOMAIN codes,
         Redeem(t, n, pasted)
  PROVE  SignKept'
<1> DEFINE x == [pc |-> "redeeming", n |-> n, pasted |-> pasted, account |-> flows[n].account]
<1>1. SignTypes /\ DeviceHeld
  BY DEF SignKept
<1>2. n \in Nat /\ pasted \in Nat /\ flows[n].account \in Nat
  BY <1>1, Entries
<1>3. x \in Stage /\ x.pc = "redeeming" /\ x.n = n /\ x.pasted = pasted
  BY <1>2 DEF Stage
<1>4. /\ tabs[t].pc = "free" /\ tabs' = [tabs EXCEPT ![t] = x]
      /\ UNCHANGED <<vendor, flows, codes, accounts, grants, leaving, astray>>
  BY DEF Redeem
<1> HIDE DEF x
<1>5. /\ tabs' \in [Tab -> Stage] /\ tabs'[t] = x
      /\ \A u \in Tab : u # t => tabs'[u] = tabs[u]
  BY <1>1, <1>3, <1>4, TabGoesOn
<1>6. TabStands(t)'
  BY <1>3, <1>4, <1>5 DEF TabStands, HasGrant
<1>7. flows \in Seq(Flow) /\ codes \in Seq(Code) /\ Len(flows) = Len(codes)
  BY <1>1 DEF SignTypes
<1>8. tabs[t].pc \notin HasGrant
  BY <1>4 DEF HasGrant
<1>9. /\ SignTypes' /\ RowsStand' /\ TabsStand' /\ LeaveStands' /\ OneRowEach' /\ AllInHand'
  BY <1>4, <1>5, <1>6, <1>7, <1>8, GrantAnswered
<1>10. DeviceHeld'
  <2>1. SUFFICES ASSUME vendor.device, NEW i \in DOMAIN codes, codes[i].handed, flows[i].pending
                 PROVE  \E u \in Tab : tabs'[u].pc = "consented" /\ tabs'[u].n = i
    BY <1>4 DEF DeviceHeld
  <2>2. PICK u \in Tab : tabs[u].pc = "consented" /\ tabs[u].n = i
    BY <1>1, <2>1 DEF DeviceHeld
  <2>3. u # t
    BY <1>4, <2>2
  <2>4. QED
    BY <1>5, <2>2, <2>3
<1>11. QED
  BY <1>9, <1>10 DEF SignKept

LEMMA GotIs ==
  ASSUME SignTypes, NEW t \in Tab, tabs[t].pc = "redeeming", TabStands(t), DOMAIN codes' = DOMAIN codes,
         NEW who \in People, Given(who, TRUE), GotGrant(t, NextGrant)
  PROVE  /\ tabs' \in [Tab -> Stage] /\ TabStands(t)'
         /\ \A u \in Tab : u # t => tabs'[u] = tabs[u]
         /\ tabs'[t].pc = "consented" /\ tabs'[t].n = tabs[t].n /\ tabs'[t].grant = NextGrant
<1> DEFINE x == [pc |-> "consented", n |-> tabs[t].n, account |-> tabs[t].account, grant |-> NextGrant]
<1>1. tabs[t].n \in Nat /\ tabs[t].account \in Nat
  BY Stages
<1>2. grants \in Seq(Grant) /\ NextGrant \in Nat
  BY DEF SignTypes, NextGrant
<1>3. x \in Stage /\ x.pc = "consented" /\ x.n = tabs[t].n /\ x.grant = NextGrant
  BY <1>1, <1>2 DEF Stage
<1>4. tabs' = [tabs EXCEPT ![t] = x]
  BY DEF GotGrant, SignTypes
<1> HIDE DEF x
<1>5. /\ tabs' \in [Tab -> Stage] /\ tabs'[t] = x
      /\ \A u \in Tab : u # t => tabs'[u] = tabs[u]
  BY <1>3, <1>4, TabGoesOn
<1>6. NextGrant \in DOMAIN grants'
  <2>1. [to |-> who, stands |-> TRUE] \in Grant
    BY GrantsAre
  <2>2. QED
    BY <1>2, <2>1, OneMore DEF Given, NextGrant
<1>7. tabs[t].n \in DOMAIN codes'
  BY DEF TabStands
<1>8. TabStands(t)'
  BY <1>3, <1>5, <1>6, <1>7 DEF TabStands, HasGrant
<1>9. QED
  BY <1>3, <1>5, <1>8

LEMMA SpentIs ==
  ASSUME SignTypes, NEW n \in DOMAIN codes,
         \/ codes' = [codes EXCEPT ![n].spent = TRUE]
         \/ codes' = [codes EXCEPT ![n].spent = TRUE, ![n].handed = TRUE]
  PROVE  /\ codes' \in Seq(Code) /\ Len(codes') = Len(codes) /\ DOMAIN codes' = DOMAIN codes
         /\ \A i \in DOMAIN codes : i # n => codes'[i] = codes[i]
         /\ codes' = [codes EXCEPT ![n].spent = TRUE] => codes'[n].handed = codes[n].handed
<1>1. codes \in Seq(Code) /\ codes[n] \in Code
  BY Entries DEF SignTypes
<1> DEFINE x == [codes[n] EXCEPT !.spent = TRUE]
           y == [codes[n] EXCEPT !.spent = TRUE, !.handed = TRUE]
<1>2. x \in Code /\ y \in Code /\ x.handed = codes[n].handed
  BY <1>1 DEF Code
<1>3. /\ codes' = [codes EXCEPT ![n] = x] \/ codes' = [codes EXCEPT ![n] = y]
      /\ codes' = [codes EXCEPT ![n].spent = TRUE] => codes' = [codes EXCEPT ![n] = x]
  BY <1>1
<1> HIDE DEF x, y
<1>4. QED
  BY <1>1, <1>2, <1>3, OneOther

\* What a code that can be redeemed is worth.
LEMMA RedeemedBy ==
  ASSUME SignTypes, NEW t \in Tab, TabStands(t), tabs[t].pc = "redeeming", Redeemable(t)
  PROVE  tabs[t].n \in DOMAIN codes /\ codes[tabs[t].n].by \in People
<1>1. tabs[t].n \in DOMAIN codes /\ tabs[t].pasted = tabs[t].n
  BY DEF TabStands, Redeemable
<1>2. QED
  BY <1>1, Entries DEF Redeemable

\* How asking a provider may come out.
Outcome(t) ==
  \/ TurnedAway(t) /\ UNCHANGED <<grants, astray>>
  \/ \E who \in People :
       \/ GotGrant(t, NextGrant) /\ Given(who, TRUE) /\ UNCHANGED astray
       \/ TurnedAway(t) /\ Given(who, FALSE) /\ UNCHANGED astray
       \/ TurnedAway(t) /\ Given(who, TRUE) /\ astray' = astray \cup {NextGrant}

LEMMA OutcomeKeeps ==
  ASSUME SignKept, UNCHANGED <<vendor, accounts, leaving>>,
         flows' \in Seq(Flow), codes' \in Seq(Code), Len(flows') = Len(codes'),
         DOMAIN codes' = DOMAIN codes,
         NEW t \in Tab, tabs[t].pc = "redeeming", Outcome(t)
  PROVE  /\ SignTypes' /\ RowsStand' /\ TabsStand' /\ LeaveStands' /\ OneRowEach' /\ AllInHand'
         /\ \A u \in Tab : tabs[u].pc = "consented" => tabs'[u] = tabs[u]
<1>1. SignTypes /\ TabStands(t)
  BY DEF SignKept, TabsStand
<1>2. tabs[t].pc \notin HasGrant /\ tabs[t].pc # "consented"
  BY DEF HasGrant
<1>3. CASE TurnedAway(t) /\ UNCHANGED <<grants, astray>>
  <2>1. /\ tabs' \in [Tab -> Stage] /\ TabStands(t)' /\ \A u \in Tab : u # t => tabs'[u] = tabs[u]
    BY <1>1, <1>3, Freed
  <2>2. QED
    BY <1>2, <1>3, <2>1, GrantAnswered
<1>4. ASSUME NEW who \in People, GotGrant(t, NextGrant), Given(who, TRUE), UNCHANGED astray
      PROVE  /\ SignTypes' /\ RowsStand' /\ TabsStand' /\ LeaveStands' /\ OneRowEach' /\ AllInHand'
             /\ \A u \in Tab : tabs[u].pc = "consented" => tabs'[u] = tabs[u]
  <2>1. /\ tabs' \in [Tab -> Stage] /\ TabStands(t)' /\ \A u \in Tab : u # t => tabs'[u] = tabs[u]
        /\ tabs'[t].pc \in HasGrant /\ tabs'[t].grant = NextGrant
    BY <1>1, <1>4, GotIs DEF HasGrant
  <2>2. QED
    BY <1>2, <1>4, <2>1, GrantAnswered
<1>5. ASSUME NEW who \in People, TurnedAway(t), NEW stands \in BOOLEAN, Given(who, stands),
             astray \subseteq astray', stands => NextGrant \in astray'
      PROVE  /\ SignTypes' /\ RowsStand' /\ TabsStand' /\ LeaveStands' /\ OneRowEach' /\ AllInHand'
             /\ \A u \in Tab : tabs[u].pc = "consented" => tabs'[u] = tabs[u]
  <2>1. /\ tabs' \in [Tab -> Stage] /\ TabStands(t)' /\ \A u \in Tab : u # t => tabs'[u] = tabs[u]
    BY <1>1, <1>5, Freed
  <2>2. QED
    BY <1>2, <1>5, <2>1, GrantAnswered
<1>6. QED
  BY <1>3, <1>4, <1>5 DEF Outcome

LEMMA ExchangeKeeps ==
  ASSUME SignKept, NEW t \in Tab, ExchangeCode(t)
  PROVE  SignKept'
<1>1. SignTypes /\ TabStands(t) /\ flows \in Seq(Flow) /\ codes \in Seq(Code) /\ Len(flows) = Len(codes)
  BY DEF SignKept, TabsStand, SignTypes
<1>2. ~ vendor.device /\ tabs[t].pc = "redeeming" /\ UNCHANGED <<vendor, flows, accounts, leaving>>
  BY DEF ExchangeCode
<1>3. /\ codes' \in Seq(Code) /\ Len(flows') = Len(codes') /\ DOMAIN codes' = DOMAIN codes
      /\ Outcome(t)
  <2>1. CASE ~ Redeemable(t)
    BY <1>1, <1>2, <2>1 DEF ExchangeCode, Outcome
  <2>2. CASE Redeemable(t)
    <3>1. tabs[t].n \in DOMAIN codes /\ codes[tabs[t].n].by \in People
      BY <1>1, <1>2, <2>2, RedeemedBy
    <3>2. codes' = [codes EXCEPT ![tabs[t].n].spent = TRUE]
      BY <2>2 DEF ExchangeCode
    <3>3. codes' \in Seq(Code) /\ Len(codes') = Len(codes) /\ DOMAIN codes' = DOMAIN codes
      BY <1>1, <3>1, <3>2, SpentIs
    <3>4. Outcome(t)
      BY <2>2, <3>1 DEF ExchangeCode, Outcome, Unfinished, Abandon
    <3>5. QED
      BY <1>1, <1>2, <3>3, <3>4
  <2>3. QED
    BY <2>1, <2>2
<1>4. /\ SignTypes' /\ RowsStand' /\ TabsStand' /\ LeaveStands' /\ OneRowEach' /\ AllInHand'
  BY <1>1, <1>2, <1>3, OutcomeKeeps
<1>5. DeviceHeld'
  BY <1>2 DEF DeviceHeld
<1>6. QED
  BY <1>4, <1>5 DEF SignKept

LEMMA PollKeeps ==
  ASSUME SignKept, NEW t \in Tab, PollDevice(t)
  PROVE  SignKept'
<1>1. /\ SignTypes /\ TabStands(t) /\ DeviceHeld /\ flows \in Seq(Flow) /\ codes \in Seq(Code)
      /\ Len(flows) = Len(codes)
  BY DEF SignKept, TabsStand, SignTypes
<1>2. vendor.device /\ tabs[t].pc = "redeeming" /\ UNCHANGED <<vendor, accounts, leaving>>
  BY DEF PollDevice
<1> DEFINE n == tabs[t].n
<1>3. n \in DOMAIN codes
  BY <1>1, <1>2 DEF TabStands
<1>4. /\ Dropped(n) \in Seq(Flow) /\ Len(Dropped(n)) = Len(flows) /\ ~ Dropped(n)[n].pending
      /\ \A i \in DOMAIN codes : i # n => Dropped(n)[i] = flows[i]
  BY <1>1, <1>3, DroppedIs
<1>5. codes' = codes \/ (/\ codes' \in Seq(Code) /\ Len(codes') = Len(codes) /\ DOMAIN codes' = DOMAIN codes
                         /\ \A i \in DOMAIN codes : i # n => codes'[i] = codes[i]
                         /\ codes' = [codes EXCEPT ![n].spent = TRUE] => codes'[n].handed = codes[n].handed)
  <2>1. \/ codes' = codes
        \/ codes' = [codes EXCEPT ![n].spent = TRUE]
        \/ codes' = [codes EXCEPT ![n].spent = TRUE, ![n].handed = TRUE]
    BY DEF PollDevice
  <2>2. QED
    BY <1>1, <1>3, <2>1, SpentIs
<1>6. /\ codes' \in Seq(Code) /\ Len(codes') = Len(codes) /\ DOMAIN codes' = DOMAIN codes
      /\ \A i \in DOMAIN codes : i # n => codes'[i] = codes[i]
      /\ codes' \in {codes, [codes EXCEPT ![n].spent = TRUE]} => codes'[n].handed = codes[n].handed
  BY <1>1, <1>5
<1>7. flows' = flows \/ flows' = Dropped(n)
  BY DEF PollDevice
<1>8. flows' \in Seq(Flow) /\ Len(flows') = Len(codes')
  BY <1>1, <1>4, <1>6, <1>7
<1>9. Redeemable(t) => codes[n].by \in People
  BY <1>1, <1>2, RedeemedBy
<1>10. Outcome(t)
  BY <1>9 DEF PollDevice, Outcome
<1>11. /\ SignTypes' /\ RowsStand' /\ TabsStand' /\ LeaveStands' /\ OneRowEach' /\ AllInHand'
       /\ \A u \in Tab : tabs[u].pc = "consented" => tabs'[u] = tabs[u]
  BY <1>1, <1>2, <1>6, <1>8, <1>10, OutcomeKeeps
<1>12. \/ flows' = Dropped(n)
       \/ flows' = flows /\ codes' \in {codes, [codes EXCEPT ![n].spent = TRUE]}
       \/ flows' = flows /\ \E who \in People : GotGrant(t, NextGrant) /\ Given(who, TRUE)
  BY <1>9 DEF PollDevice
<1>13. DeviceHeld'
  <2>1. SUFFICES ASSUME NEW i \in DOMAIN codes, codes'[i].handed, flows'[i].pending
                 PROVE  \E u \in Tab : tabs'[u].pc = "consented" /\ tabs'[u].n = i
    BY <1>6 DEF DeviceHeld
  <2>2. codes[i].handed /\ flows[i].pending => \E u \in Tab : tabs[u].pc = "consented" /\ tabs[u].n = i
    BY <1>1, <1>2 DEF DeviceHeld
  <2>3. CASE codes[i].handed /\ flows[i].pending
    BY <1>11, <2>2, <2>3
  <2>4. CASE ~ (codes[i].handed /\ flows[i].pending)
    <3>1. i = n /\ flows' = flows
      BY <1>4, <1>6, <1>7, <2>1, <2>4
    <3>2. PICK who \in People : GotGrant(t, NextGrant) /\ Given(who, TRUE)
      BY <1>4, <1>6, <1>12, <2>1, <2>4, <3>1
    <3>3. tabs'[t].pc = "consented" /\ tabs'[t].n = n
      BY <1>1, <1>2, <1>6, <3>2, GotIs
    <3>4. QED
      BY <3>1, <3>3
  <2>5. QED
    BY <2>3, <2>4
<1>14. QED
  BY <1>11, <1>13 DEF SignKept

---------------------------------------------------------------------------
\* storeConsent, and what it leads to.

LEMMA DeviceStays ==
  ASSUME DeviceHeld, vendor' = vendor, codes' = codes, flows' = flows,
         \A u \in Tab : tabs[u].pc = "consented" => tabs'[u] = tabs[u]
  PROVE  DeviceHeld'
BY DEF DeviceHeld

\* A handler whose attempt is consumed has gone on, its grant still in hand.
LEMMA ConsentEnds ==
  ASSUME SignKept, NEW t \in Tab, tabs[t].pc = "consented", flows' = Dropped(tabs[t].n),
         UNCHANGED <<vendor, codes, accounts, grants, leaving>>, astray \subseteq astray',
         NEW x \in Stage, tabs' = [tabs EXCEPT ![t] = x], TabStands(t)',
         (x.pc \in HasGrant /\ x.grant = tabs[t].grant) \/ tabs[t].grant \in astray'
  PROVE  SignKept'
<1>1. SignTypes /\ RowsStand /\ TabsStand /\ TabStands(t) /\ LeaveStands /\ OneRowEach /\ AllInHand /\ DeviceHeld
  BY DEF SignKept, TabsStand
<1> DEFINE c == tabs[t]
<1>2. c.n \in DOMAIN codes
  BY <1>1 DEF TabStands
<1>3. /\ tabs' \in [Tab -> Stage] /\ tabs'[t] = x
      /\ \A u \in Tab : u # t => tabs'[u] = tabs[u]
  BY <1>1, TabGoesOn
<1>4. AccountsStay /\ GrantsStay /\ People' = People /\ Stored' = Stored
  BY SameAccounts, SameGrants
<1>5. /\ flows' \in Seq(Flow) /\ Len(flows') = Len(flows) /\ ~ flows'[c.n].pending
      /\ \A i \in DOMAIN codes : i # c.n => flows'[i] = flows[i]
  BY <1>1, <1>2, DroppedIs
<1>6. SignTypes'
  <2>1. Code' = Code /\ Row' = Row /\ Grant' = Grant
    BY <1>4 DEF Code, Row, Grant
  <2>2. QED
    BY <1>1, <1>3, <1>5, <2>1 DEF SignTypes
<1>7. RowsStand' /\ TabsStand'
  BY <1>1, <1>3, <1>4, RowsStay, TabsStay
<1>8. LeaveStands' /\ OneRowEach'
  BY <1>1, <1>4 DEF LeaveStands, OneRowEach
<1>9. AllInHand'
  <2>1. SUFFICES ASSUME NEW g \in DOMAIN grants, grants[g].stands
                 PROVE  InHand(g)'
    BY DEF AllInHand
  <2>2. InHand(g)
    BY <1>1, <2>1 DEF AllInHand
  <2>3. c.grant = g => InHand(g)'
    BY <1>3 DEF InHand
  <2>4. QED
    BY <1>3, <2>2, <2>3 DEF InHand
<1>10. DeviceHeld'
  <2>1. SUFFICES ASSUME vendor.device, NEW i \in DOMAIN codes, codes[i].handed, flows'[i].pending
                 PROVE  \E u \in Tab : tabs'[u].pc = "consented" /\ tabs'[u].n = i
    BY DEF DeviceHeld
  <2>2. i # c.n /\ flows[i].pending
    BY <1>5, <2>1
  <2>3. PICK u \in Tab : tabs[u].pc = "consented" /\ tabs[u].n = i
    BY <1>1, <2>1, <2>2 DEF DeviceHeld
  <2>4. u # t
    BY <2>2, <2>3
  <2>5. QED
    BY <1>3, <2>3, <2>4
<1>11. QED
  BY <1>6, <1>7, <1>8, <1>9, <1>10 DEF SignKept

LEMMA ConsentedKeeps ==
  ASSUME SignKept, NEW t \in Tab, Consented(t)
  PROVE  SignKept'
<1>1. SignTypes /\ RowsStand /\ TabsStand /\ TabStands(t) /\ AllInHand
  BY DEF SignKept, TabsStand
<1> DEFINE c == tabs[t]
           reconnect == c.account # NoRow
           target == IF reconnect THEN c.account ELSE FirstOf(ByIdentity(c.grant))
           wrong == reconnect /\ (c.account \notin Stored \/ ~ sameAccount(c.account, c.grant))
           x == [pc |-> IF wrong THEN "handing back" ELSE "storing",
                 grant |-> c.grant, target |-> target, looked |-> TRUE]
           y == [pc |-> "storing", grant |-> c.grant, target |-> NoRow, looked |-> FALSE]
<1>2. /\ c.pc = "consented" /\ flows' = Dropped(c.n)
      /\ UNCHANGED <<vendor, codes, accounts, grants, leaving>>
      /\ \/ tabs' = [tabs EXCEPT ![t] = x] /\ UNCHANGED astray
         \/ StoreFails(t)
         \/ tabs' = [tabs EXCEPT ![t] = y] /\ UNCHANGED astray
  BY DEF Consented
<1>3. c.account \in Nat /\ c.grant \in DOMAIN grants /\ c.n \in DOMAIN codes /\ c.grant \in Nat
  BY <1>1, <1>2, Stages DEF TabStands, HasGrant
<1>4. IF reconnect
      THEN /\ target \in Nat
           /\ ~ wrong => target \in DOMAIN accounts /\ accounts[target].owner = grants[c.grant].to
      ELSE \/ target = NoRow /\ \A r \in Stored : accounts[r].owner # grants[c.grant].to
           \/ /\ target \in DOMAIN accounts /\ target \in Nat /\ target # NoRow
              /\ accounts[target].owner = grants[c.grant].to
  <2>1. CASE reconnect
    <3>1. ASSUME ~ wrong
          PROVE  c.account \in DOMAIN accounts /\ accounts[c.account].owner = grants[c.grant].to
      <4>1. c.account \in DOMAIN accounts /\ sameAccount(c.account, c.grant)
        BY <2>1, <3>1 DEF Stored
      <4>2. RowStands(c.account)
        BY <1>1, <4>1 DEF RowsStand
      <4>3. QED
        BY <1>1, <1>3, <4>1, <4>2, SameOwner
    <3>2. QED
      BY <1>3, <2>1, <3>1
  <2>2. CASE ~ reconnect
    <3> DEFINE found == ByIdentity(c.grant)
    <3>1. /\ \A r \in found : r \in Stored /\ accounts[r].owner = grants[c.grant].to
          /\ found = {} => \A r \in Stored : accounts[r].owner # grants[c.grant].to
      BY <1>1, <1>3, IdentityOwner
    <3>2. CASE found = {}
      BY <2>2, <3>1, <3>2 DEF FirstOf
    <3>3. CASE found # {}
      <4>1. FirstOf(found) \in found
        BY <1>1, <3>3, FirstFound
      <4>2. FirstOf(found) \in DOMAIN accounts /\ accounts[FirstOf(found)].owner = grants[c.grant].to
        BY <3>1, <4>1 DEF Stored
      <4>3. QED
        BY <1>1, <2>2, <4>2, Entries DEF NoRow
    <3>4. QED
      BY <3>2, <3>3
  <2>3. QED
    BY <2>1, <2>2
<1>5. target \in Nat
  BY <1>4 DEF NoRow
<1>6. AccountsStay /\ GrantsStay /\ People' = People /\ Stored' = Stored
  BY <1>2, SameAccounts, SameGrants
<1>7. CASE tabs' = [tabs EXCEPT ![t] = x] /\ UNCHANGED astray
  <2>1. /\ x.pc = (IF wrong THEN "handing back" ELSE "storing") /\ x.grant = c.grant
        /\ x.target = target /\ x \in Stage
    <3> HIDE DEF target, wrong
    <3>1. QED
      BY <1>3, <1>5 DEF Stage
  <2>2. x.pc = "storing" =>
          IF x.target = NoRow
          THEN x.looked => \A r \in Stored : accounts[r].owner = grants[x.grant].to => Plain(r)
          ELSE x.target \in DOMAIN accounts /\ accounts[x.target].owner = grants[x.grant].to
    <3> HIDE DEF x
    <3>1. CASE reconnect
      BY <1>4, <2>1, <3>1
    <3>2. CASE ~ reconnect
      BY <1>4, <2>1, <3>2
    <3>3. QED
      BY <3>1, <3>2
  <2> HIDE DEF x
  <2>3. tabs'[t] = x
    BY <1>1, <1>7, <2>1, TabGoesOn
  <2>4. \A r \in Stored : Plain(r) => Plain(r)'
    BY <1>2 DEF Plain, Told
  <2>5. x.pc \in {"handing back", "storing"} /\ x.grant \in DOMAIN grants
    BY <1>3, <2>1
  <2>6. TabStands(t)'
    BY <1>2, <1>6, <2>2, <2>3, <2>4, <2>5 DEF TabStands, HasGrant
  <2>7. x.pc \in HasGrant
    BY <2>5 DEF HasGrant
  <2>8. QED
    BY <1>2, <1>7, <2>1, <2>6, <2>7, ConsentEnds
<1>8. CASE StoreFails(t)
  <2>1. TurnedAway(t) /\ astray' = astray \cup {c.grant}
    BY <1>8 DEF StoreFails
  <2>2. TabStands(t)' /\ FreeTab \in Stage /\ tabs' = [tabs EXCEPT ![t] = FreeTab]
    BY <1>1, <2>1, Freed DEF TurnedAway, Stage
  <2>3. QED
    BY <1>2, <2>1, <2>2, ConsentEnds
<1>9. CASE tabs' = [tabs EXCEPT ![t] = y] /\ UNCHANGED astray
  <2>1. /\ y.pc = "storing" /\ y.grant = c.grant /\ y.target = NoRow /\ ~ y.looked
        /\ y \in Stage
    BY <1>3 DEF Stage, NoRow
  <2> HIDE DEF y
  <2>2. tabs'[t] = y
    BY <1>1, <1>9, <2>1, TabGoesOn
  <2>3. TabStands(t)'
    BY <1>2, <1>3, <2>1, <2>2 DEF TabStands, HasGrant
  <2>4. y.pc \in HasGrant
    BY <2>1 DEF HasGrant
  <2>5. QED
    BY <1>2, <1>9, <2>1, <2>3, <2>4, ConsentEnds
<1>10. QED
  BY <1>2, <1>7, <1>8, <1>9

LEMMA RevokeIs ==
  ASSUME SignTypes, vendor' = vendor, NEW g \in DOMAIN grants, Revoke(g)
  PROVE  /\ grants' \in Seq(Grant) /\ DOMAIN grants' = DOMAIN grants /\ GrantsStay
         /\ astray \subseteq astray'
         /\ \A h \in DOMAIN grants : grants'[h].stands => grants[h].stands
         /\ grants'[g].stands => g \in astray'
<1>1. grants \in Seq(Grant) /\ grants[g] \in Grant
  BY Entries DEF SignTypes
<1>2. CASE grants' = [grants EXCEPT ![g].stands = FALSE] /\ UNCHANGED astray
  <2> DEFINE x == [grants[g] EXCEPT !.stands = FALSE]
  <2>1. x \in Grant /\ ~ x.stands /\ x.to = grants[g].to
    BY <1>1 DEF Grant
  <2>2. grants' = [grants EXCEPT ![g] = x]
    BY <1>2
  <2> HIDE DEF x
  <2>3. /\ grants' \in Seq(Grant) /\ DOMAIN grants' = DOMAIN grants
        /\ grants'[g] = x /\ \A h \in DOMAIN grants : h # g => grants'[h] = grants[h]
    BY <1>1, <2>1, <2>2, OneOther
  <2>4. GrantsStay
    BY <2>1, <2>3 DEF GrantsStay
  <2>5. QED
    BY <1>2, <2>1, <2>3, <2>4
<1>3. CASE astray' = astray \cup {g} /\ UNCHANGED grants
  BY <1>1, <1>3, SameGrants
<1>4. QED
  BY <1>2, <1>3 DEF Revoke

LEMMA HandBackKeeps ==
  ASSUME SignKept, NEW t \in Tab, HandBack(t)
  PROVE  SignKept'
<1>1. SignTypes /\ RowsStand /\ TabsStand /\ TabStands(t) /\ LeaveStands /\ OneRowEach /\ AllInHand /\ DeviceHeld
  BY DEF SignKept, TabsStand
<1> DEFINE g == tabs[t].grant
<1>2. /\ tabs[t].pc = "handing back" /\ TurnedAway(t) /\ Revoke(g)
      /\ UNCHANGED <<vendor, flows, codes, accounts, leaving>>
  BY DEF HandBack
<1>3. g \in DOMAIN grants
  BY <1>1, <1>2 DEF TabStands, HasGrant
<1>4. /\ grants' \in Seq(Grant) /\ DOMAIN grants' = DOMAIN grants /\ GrantsStay
      /\ astray \subseteq astray'
      /\ \A h \in DOMAIN grants : grants'[h].stands => grants[h].stands
      /\ grants'[g].stands => g \in astray'
  BY <1>1, <1>2, <1>3, RevokeIs
<1>5. /\ tabs' \in [Tab -> Stage] /\ TabStands(t)' /\ \A u \in Tab : u # t => tabs'[u] = tabs[u]
  BY <1>1, <1>2, Freed
<1>6. AccountsStay /\ People' = People /\ Stored' = Stored
  BY <1>2, SameAccounts
<1>7. SignTypes'
  <2>1. Code' = Code /\ Row' = Row /\ Grant' = Grant
    BY <1>6 DEF Code, Row, Grant
  <2>2. QED
    BY <1>1, <1>2, <1>4, <1>5, <2>1 DEF SignTypes
<1>8. RowsStand' /\ TabsStand'
  BY <1>1, <1>2, <1>4, <1>5, <1>6, RowsStay, TabsStay
<1>9. LeaveStands' /\ OneRowEach'
  BY <1>1, <1>2, <1>6 DEF LeaveStands, OneRowEach
<1>10. AllInHand'
  <2>1. SUFFICES ASSUME NEW h \in DOMAIN grants, grants'[h].stands
                 PROVE  InHand(h)'
    BY <1>4 DEF AllInHand
  <2>2. InHand(h)
    BY <1>1, <1>4, <2>1 DEF AllInHand
  <2>3. g = h => InHand(h)'
    BY <1>4, <2>1 DEF InHand
  <2>4. QED
    BY <1>2, <1>4, <1>5, <2>2, <2>3, StaysInHand
<1>11. DeviceHeld'
  BY <1>1, <1>2, <1>5, DeviceStays
<1>12. QED
  BY <1>7, <1>8, <1>9, <1>10, <1>11 DEF SignKept

LEMMA GiveUpKeeps ==
  ASSUME SignKept, NEW r \in Stored, GiveUp(r)
  PROVE  SignKept'
<1>1. SignTypes /\ RowsStand /\ TabsStand /\ OneRowEach /\ AllInHand /\ DeviceHeld
  BY DEF SignKept
<1> DEFINE g == accounts[r].grant
<1>2. /\ leaving' = [pc |-> "deleting", row |-> r] /\ Revoke(g)
      /\ UNCHANGED <<vendor, flows, codes, accounts, tabs>>
  BY DEF GiveUp
<1>3. r \in DOMAIN accounts /\ r \in Nat /\ g \in DOMAIN grants
  BY <1>1, Entries DEF Stored, RowsStand, RowStands
<1>4. /\ grants' \in Seq(Grant) /\ DOMAIN grants' = DOMAIN grants /\ GrantsStay
      /\ astray \subseteq astray'
      /\ \A h \in DOMAIN grants : grants'[h].stands => grants[h].stands
  BY <1>1, <1>2, <1>3, RevokeIs
<1>5. AccountsStay /\ People' = People /\ Stored' = Stored
  BY <1>2, SameAccounts
<1>6. SignTypes'
  <2>1. Code' = Code /\ Row' = Row /\ Grant' = Grant
    BY <1>5 DEF Code, Row, Grant
  <2>2. leaving' \in Leave
    BY <1>2, <1>3 DEF Leave
  <2>3. QED
    BY <1>1, <1>2, <1>4, <2>1, <2>2 DEF SignTypes
<1>7. RowsStand' /\ TabsStand'
  BY <1>1, <1>2, <1>4, <1>5, RowsStay, AllTabsStay
<1>8. LeaveStands' /\ OneRowEach'
  BY <1>1, <1>2, <1>3, <1>5 DEF LeaveStands, OneRowEach
<1>9. AllInHand'
  <2>1. SUFFICES ASSUME NEW h \in DOMAIN grants, grants'[h].stands
                 PROVE  InHand(h)'
    BY <1>4 DEF AllInHand
  <2>2. InHand(h)
    BY <1>1, <1>4, <2>1 DEF AllInHand
  <2>3. QED
    BY <1>2, <1>4, <2>2 DEF InHand
<1>10. DeviceHeld'
  BY <1>1, <1>2 DEF DeviceHeld
<1>11. QED
  BY <1>6, <1>7, <1>8, <1>9, <1>10 DEF SignKept

LEMMA EndKeeps ==
  ASSUME SignKept, ProcessEnds
  PROVE  SignKept'
<1>1. SignTypes /\ RowsStand /\ TabsStand /\ LeaveStands /\ OneRowEach /\ AllInHand /\ DeviceHeld
  BY DEF SignKept
<1>2. /\ flows' = [n \in DOMAIN flows |-> [flows[n] EXCEPT !.pending = FALSE]]
      /\ tabs' = [t \in Tab |-> FreeTab]
      /\ astray' = astray \cup {tabs[t].grant : t \in {u \in Tab : "grant" \in DOMAIN tabs[u]}}
      /\ leaving' = IF leaving.pc = "deleting" THEN [pc |-> "deleted"] ELSE leaving
      /\ UNCHANGED <<vendor, codes, accounts, grants>>
  BY DEF ProcessEnds
<1>3. AccountsStay /\ GrantsStay /\ People' = People /\ Stored' = Stored
  BY <1>2, SameAccounts, SameGrants
<1>4. flows \in Seq(Flow) /\ DOMAIN flows = 1..Len(flows) /\ Len(flows) \in Nat /\ DOMAIN flows = DOMAIN codes
  BY <1>1, Entries DEF SignTypes
<1>5. \A n \in 1..Len(flows) : /\ [flows[n] EXCEPT !.pending = FALSE] \in Flow
                              /\ ~ [flows[n] EXCEPT !.pending = FALSE].pending
  BY <1>1, <1>4, Entries DEF Flow
<1>6. flows' = [n \in 1..Len(flows) |-> [flows[n] EXCEPT !.pending = FALSE]]
  BY <1>2, <1>4
<1>7. flows' \in Seq(Flow) /\ Len(flows') = Len(flows) /\ \A n \in DOMAIN codes : ~ flows'[n].pending
  BY <1>4, <1>5, <1>6
<1>8. /\ tabs' \in [Tab -> Stage] /\ \A t \in Tab : tabs'[t] = FreeTab
      /\ FreeTab.pc = "free"
  BY <1>2 DEF Stage, FreeTab
<1>9. SignTypes'
  <2>1. Code' = Code /\ Row' = Row /\ Grant' = Grant
    BY <1>3 DEF Code, Row, Grant
  <2>2. leaving' \in Leave
    BY <1>1, <1>2 DEF SignTypes, Leave
  <2>3. QED
    BY <1>1, <1>2, <1>7, <1>8, <2>1, <2>2 DEF SignTypes
<1>10. RowsStand'
  BY <1>1, <1>2, <1>3, RowsStay
<1>11. TabsStand'
  BY <1>8 DEF TabsStand, TabStands, HasGrant
<1>12. LeaveStands' /\ OneRowEach'
  BY <1>1, <1>2, <1>3 DEF LeaveStands, OneRowEach
<1>13. AllInHand'
  <2>1. SUFFICES ASSUME NEW h \in DOMAIN grants, grants[h].stands
                 PROVE  InHand(h)'
    BY <1>2 DEF AllInHand
  <2>2. InHand(h)
    BY <1>1, <2>1 DEF AllInHand
  <2>3. \A u \in Tab : tabs[u].pc \in HasGrant /\ tabs[u].grant = h => h \in astray'
    BY <1>1, <1>2, Stages
  <2>4. QED
    BY <1>2, <2>2, <2>3 DEF InHand
<1>14. DeviceHeld'
  BY <1>2, <1>7 DEF DeviceHeld
<1>15. QED
  BY <1>9, <1>10, <1>11, <1>12, <1>13, <1>14 DEF SignKept

---------------------------------------------------------------------------
\* Rows written.

\* What is put in a row, of whoever it is for.
LEMMA ConsentWritten ==
  ASSUME SignTypes, NEW g \in DOMAIN grants
  PROVE  /\ g \in Nat /\ grants[g].to \in People
         /\ EmailOf(g) = Told(grants[g].to) /\ EmailOf(g) \in Text /\ SaidOf(g).uuid \in Text
         /\ IF vendor.address THEN EmailOf(g) = SaidOf(g).email ELSE SaidOf(g).uuid # ""
<1>1. g \in Nat /\ grants[g].to \in People
  BY Entries
<1>2. SaidOf(g) = vendor.answers[grants[g].to] /\ SaidOf(g) \in [email : STRING, uuid : STRING]
  BY <1>1, Answers DEF SaidOf
<1>3. SaidOf(g).uuid \in Text /\ EmailOf(g) \in Text /\ EmailOf(g) = Told(grants[g].to)
  <2>1. \A said \in [email : STRING, uuid : STRING] : said.uuid \in STRING /\ said.email \in STRING
    OBVIOUS
  <2>2. SaidOf(g).uuid \in Text /\ SaidOf(g).email \in Text
    BY <1>2, <2>1 DEF Text
  <2>3. "unknown@" \in Text
    BY DEF Text
  <2>4. EmailOf(g) \in Text
    BY <2>2, <2>3 DEF EmailOf
  <2>5. EmailOf(g) = Told(grants[g].to)
    BY <1>2 DEF EmailOf, Told
  <2>6. QED
    BY <2>2, <2>4, <2>5
<1>4. IF vendor.address THEN SaidOf(g).email # "" ELSE SaidOf(g).uuid # ""
  BY <1>1, <1>2, Answers
<1>5. QED
  BY <1>1, <1>3, <1>4 DEF EmailOf

\* A handler that had a grant to store is done; the rows may have changed, but
\* no row's owner, and none has gone.
LEMMA RowsWritten ==
  ASSUME SignKept, UNCHANGED <<vendor, flows, codes, grants, leaving>>,
         NEW t \in Tab, tabs[t].pc = "storing", TurnedAway(t), accounts' \in Seq(Row),
         AccountsStay, RowsStand', OneRowEach', astray \subseteq astray',
         \A g : (\E r \in DOMAIN accounts : g = accounts[r].grant \/ g \in accounts[r].had) => InHand(g)',
         \A g : g = tabs[t].grant => InHand(g)'
  PROVE  SignKept'
<1>1. SignTypes /\ RowsStand /\ TabsStand /\ LeaveStands /\ AllInHand /\ DeviceHeld
  BY DEF SignKept
<1>2. /\ tabs' \in [Tab -> Stage] /\ TabStands(t)' /\ \A u \in Tab : u # t => tabs'[u] = tabs[u]
  BY <1>1, Freed
<1>3. People' = People
  BY DEF People
<1>4. SignTypes'
  <2>1. Code' = Code /\ Row' = Row /\ Grant' = Grant
    BY <1>3 DEF Code, Row, Grant
  <2>2. QED
    BY <1>1, <1>2, <2>1 DEF SignTypes
<1>5. GrantsStay
  BY SameGrants
<1>6. TabsStand'
  BY <1>1, <1>2, <1>5, TabsStay
<1>7. LeaveStands'
  BY <1>1 DEF LeaveStands, AccountsStay
<1>8. AllInHand'
  <2>1. SUFFICES ASSUME NEW h \in DOMAIN grants, grants[h].stands
                 PROVE  InHand(h)'
    BY DEF AllInHand
  <2>2. InHand(h)
    BY <1>1, <2>1 DEF AllInHand
  <2>3. CASE \E r \in DOMAIN accounts : h = accounts[r].grant \/ h \in accounts[r].had
    BY <2>3
  <2>4. CASE h \in astray
    BY <2>4 DEF InHand
  <2>5. CASE \E u \in Tab : tabs[u].pc \in HasGrant /\ tabs[u].grant = h
    <3>1. PICK u \in Tab : tabs[u].pc \in HasGrant /\ tabs[u].grant = h
      BY <2>5
    <3>2. CASE u = t
      BY <3>1, <3>2
    <3>3. CASE u # t
      BY <1>2, <3>1, <3>3 DEF InHand
    <3>4. QED
      BY <3>2, <3>3
  <2>6. QED
    BY <2>2, <2>3, <2>4, <2>5 DEF InHand
<1>9. DeviceHeld'
  BY <1>1, <1>2, DeviceStays
<1>10. QED
  BY <1>4, <1>6, <1>7, <1>8, <1>9 DEF SignKept

LEMMA RenewKeeps ==
  ASSUME SignKept, NEW t \in Tab, RenewAccount(t)
  PROVE  SignKept'
<1>1. SignTypes /\ RowsStand /\ TabsStand /\ TabStands(t) /\ OneRowEach
  BY DEF SignKept, TabsStand
<1> DEFINE c == tabs[t]
           g == c.grant
           w == c.target
<1>2. /\ c.pc = "storing" /\ w # NoRow /\ TurnedAway(t)
      /\ UNCHANGED <<vendor, flows, codes, grants, leaving>>
  BY DEF RenewAccount
<1>3. g \in DOMAIN grants /\ w \in DOMAIN accounts /\ accounts[w].owner = grants[g].to
  BY <1>1, <1>2 DEF TabStands, HasGrant
<1>4. CASE ~ (w \in Stored /\ ~ Clashing(w, g))
  <2>1. accounts' = accounts /\ astray' = astray \cup {g}
    BY <1>4 DEF RenewAccount
  <2>2. AccountsStay /\ Stored' = Stored /\ GrantsStay
    BY <1>2, <2>1, SameAccounts, SameGrants
  <2>3. accounts' \in Seq(Row)
    BY <1>1, <2>1 DEF SignTypes
  <2>4. RowsStand' /\ OneRowEach'
    BY <1>1, <1>2, <2>1, <2>2, RowsStay DEF OneRowEach
  <2>5. \A h : (\E r \in DOMAIN accounts : h = accounts[r].grant \/ h \in accounts[r].had) => InHand(h)'
    BY <2>1 DEF InHand
  <2>6. \A h : h = g => InHand(h)'
    BY <2>1 DEF InHand
  <2>7. QED
    BY <1>2, <2>1, <2>2, <2>3, <2>4, <2>5, <2>6, RowsWritten
<1>5. CASE w \in Stored /\ ~ Clashing(w, g)
  <2> DEFINE x == [Regranted(accounts[w], g) EXCEPT !.email = EmailOf(g), !.uuid = UuidAfter(w, g)]
  <2>1. accounts' = [accounts EXCEPT ![w] = x] /\ astray' = astray
    BY <1>5 DEF RenewAccount
  <2>2. accounts \in Seq(Row) /\ accounts[w] \in Row
    BY <1>1, <1>3, Entries DEF SignTypes
  <2>3. /\ g \in Nat /\ EmailOf(g) = Told(grants[g].to) /\ EmailOf(g) \in Text
        /\ SaidOf(g).uuid \in Text
        /\ IF vendor.address THEN EmailOf(g) = SaidOf(g).email ELSE SaidOf(g).uuid # ""
    BY <1>1, <1>3, ConsentWritten
  <2>4. /\ UuidAfter(w, g) \in Text
        /\ ~ vendor.address => UuidAfter(w, g) = SaidOf(g).uuid
        /\ accounts[w].uuid = SaidOf(g).uuid => UuidAfter(w, g) = SaidOf(g).uuid
    BY <2>2, <2>3 DEF UuidAfter, Row
  <2>5. /\ x \in Row /\ x.email = EmailOf(g) /\ x.uuid = UuidAfter(w, g)
        /\ x.owner = accounts[w].owner /\ x.grant = g
        /\ x.there = accounts[w].there /\ x.looked = accounts[w].looked
        /\ x.had = accounts[w].had \cup {accounts[w].grant}
    BY <2>2, <2>3, <2>4 DEF Regranted, Row
  <2> HIDE DEF x
  <2>6. /\ accounts' \in Seq(Row) /\ DOMAIN accounts' = DOMAIN accounts
        /\ accounts'[w] = x /\ \A r \in DOMAIN accounts : r # w => accounts'[r] = accounts[r]
    BY <1>3, <2>1, <2>2, <2>5, OneOther
  <2>7. \A r \in DOMAIN accounts : /\ accounts'[r].owner = accounts[r].owner
                                  /\ accounts'[r].there = accounts[r].there
                                  /\ accounts'[r].looked = accounts[r].looked
    BY <2>5, <2>6
  <2>8. Stored' = Stored
    BY <2>6, <2>7 DEF Stored
  <2>9. AccountsStay
    <3>1. \A r \in Stored : Plain(r) => Plain(r)'
      <4>1. SUFFICES ASSUME NEW r \in Stored, Plain(r)
                     PROVE  Plain(r)'
        OBVIOUS
      <4>2. CASE r = w
        <5>1. x.uuid = vendor.answers[accounts[w].owner].uuid
          BY <1>3, <2>4, <2>5, <4>1, <4>2 DEF Plain, SaidOf
        <5>2. x.email = Told(accounts[w].owner)
          BY <1>3, <2>3, <2>5
        <5>3. QED
          BY <1>2, <2>5, <2>6, <4>2, <5>1, <5>2 DEF Plain, Told
      <4>3. CASE r # w
        <5>1. accounts'[r] = accounts[r]
          BY <2>6, <4>3 DEF Stored
        <5>2. QED
          BY <1>2, <4>1, <5>1 DEF Plain, Told
      <4>4. QED
        BY <4>2, <4>3
    <3>2. QED
      BY <2>6, <2>7, <2>8, <3>1 DEF AccountsStay
  <2>10. RowsStand'
    <3>1. SUFFICES ASSUME NEW r \in DOMAIN accounts
                   PROVE  RowStands(r)'
      BY <2>6 DEF RowsStand
    <3>2. RowStands(r)
      BY <1>1 DEF RowsStand
    <3>3. CASE r = w
      <4>1. NamesOwner(vendor, x)
        BY <1>3, <2>3, <2>4, <2>5 DEF NamesOwner, SaidOf
      <4>2. QED
        BY <1>2, <1>3, <2>5, <2>6, <3>3, <4>1 DEF RowStands
    <3>4. CASE r # w
      BY <1>2, <2>6, <3>2, <3>4 DEF RowStands
    <3>5. QED
      BY <3>3, <3>4
  <2>11. OneRowEach'
    BY <1>1, <2>7, <2>8 DEF OneRowEach, Stored
  <2>12. \A h : (\E r \in DOMAIN accounts : h = accounts[r].grant \/ h \in accounts[r].had) => InHand(h)'
    <3>1. \A h : \A r \in DOMAIN accounts :
            h = accounts[r].grant \/ h \in accounts[r].had =>
              h = accounts'[r].grant \/ h \in accounts'[r].had
      BY <2>5, <2>6
    <3>2. QED
      BY <2>6, <3>1 DEF InHand
  <2>13. \A h : h = g => InHand(h)'
    BY <1>3, <2>5, <2>6 DEF InHand
  <2>14. QED
    BY <1>2, <2>1, <2>6, <2>9, <2>10, <2>11, <2>12, <2>13, RowsWritten
<1>6. QED
  BY <1>4, <1>5

LEMMA UpsertKeeps ==
  ASSUME SignKept, NEW t \in Tab, UpsertAccount(t)
  PROVE  SignKept'
<1>1. SignTypes /\ RowsStand /\ TabsStand /\ TabStands(t) /\ OneRowEach
  BY DEF SignKept, TabsStand
<1> DEFINE g == tabs[t].grant
           who == grants[g].to
           same == {r \in Stored : accounts[r].email = EmailOf(g) /\ accounts[r].uuid = SaidOf(g).uuid}
           looked == tabs[t].looked
<1>2. /\ tabs[t].pc = "storing" /\ tabs[t].target = NoRow /\ TurnedAway(t)
      /\ accounts' = IF same = {} THEN Append(accounts, NewAccount(g, looked))
                      ELSE [r \in DOMAIN accounts |-> IF r \in same THEN Regranted(accounts[r], g)
                                                      ELSE accounts[r]]
      /\ UNCHANGED <<vendor, flows, codes, grants, leaving, astray>>
  BY DEF UpsertAccount
<1>3. /\ g \in DOMAIN grants /\ looked \in BOOLEAN
      /\ looked => \A r \in Stored : accounts[r].owner = who => Plain(r)
  BY <1>1, <1>2, Stages DEF TabStands, HasGrant
<1>4. /\ g \in Nat /\ who \in People /\ EmailOf(g) = Told(who) /\ EmailOf(g) \in Text
      /\ SaidOf(g).uuid \in Text
      /\ IF vendor.address THEN EmailOf(g) = SaidOf(g).email ELSE SaidOf(g).uuid # ""
  BY <1>1, <1>3, ConsentWritten
<1>5. SaidOf(g) = vendor.answers[who]
  BY DEF SaidOf
<1>6. accounts \in Seq(Row) /\ \A r \in DOMAIN accounts : accounts[r] \in Row
  BY <1>1, Entries DEF SignTypes
<1>7. looked => \A r \in Stored : accounts[r].owner = who => r \in same
  BY <1>3, <1>4, <1>5 DEF Plain
<1>8. \A r \in same : r \in DOMAIN accounts /\ accounts[r].owner = who
  <2>1. SUFFICES ASSUME NEW r \in same
                 PROVE  r \in DOMAIN accounts /\ accounts[r].owner = who
    OBVIOUS
  <2>2. r \in DOMAIN accounts /\ accounts[r].email = EmailOf(g) /\ accounts[r].uuid = SaidOf(g).uuid
    BY DEF Stored
  <2>3. RowStands(r)
    BY <1>1, <2>2 DEF RowsStand
  <2> DEFINE kept == accounts[r]
             said == vendor.answers[who]
  <2>4. IF vendor.address THEN kept.email = said.email <=> kept.owner = who
        ELSE kept.uuid = said.uuid => kept.owner = who
    BY <1>1, <1>4, <2>2, <2>3, Names
  <2>5. accounts[r].owner = who
    BY <1>4, <1>5, <2>2, <2>4
  <2>6. QED
    BY <2>2, <2>5
<1>9. \A r \in DOMAIN accounts : RowStands(r)
  BY <1>1 DEF RowsStand
<1>10. CASE same = {}
  <2> DEFINE x == NewAccount(g, looked)
             n == Len(accounts) + 1
  <2>1. /\ x \in Row /\ x.email = EmailOf(g) /\ x.uuid = SaidOf(g).uuid /\ x.owner = who
        /\ x.grant = g /\ x.looked = looked
    <3>1. {} \in SUBSET Nat /\ TRUE \in BOOLEAN
      OBVIOUS
    <3>2. [email |-> EmailOf(g), uuid |-> SaidOf(g).uuid, owner |-> who, grant |-> g, had |-> {},
           there |-> TRUE, looked |-> looked] \in Row
      BY <1>3, <1>4, <3>1, RowsAre
    <3>3. QED
      BY <3>2 DEF NewAccount
  <2>2. accounts' = Append(accounts, x)
    BY <1>2, <1>10
  <2> HIDE DEF x
  <2>3. /\ accounts' \in Seq(Row) /\ DOMAIN accounts' = DOMAIN accounts \cup {n}
        /\ n \notin DOMAIN accounts
        /\ \A r \in DOMAIN accounts : accounts'[r] = accounts[r]
        /\ accounts'[n] = x
    BY <1>6, <2>1, <2>2, OneMore
  <2> HIDE DEF n
  <2>4. NamesOwner(vendor, x)
    BY <1>4, <1>5, <2>1 DEF NamesOwner
  <2>5. RowsStand'
    <3>1. SUFFICES ASSUME NEW r \in DOMAIN accounts'
                   PROVE  RowStands(r)'
      BY DEF RowsStand
    <3>2. CASE r \in DOMAIN accounts
      BY <1>2, <1>9, <2>3, <3>2 DEF RowStands
    <3>3. CASE r = n
      BY <1>2, <1>3, <2>1, <2>3, <2>4, <3>3 DEF RowStands
    <3>4. QED
      BY <2>3, <3>1, <3>2, <3>3
  <2>6. Stored' \subseteq Stored \cup {n} /\ Stored \subseteq Stored'
    BY <2>3 DEF Stored
  <2>7. \A r \in Stored : /\ looked => accounts[r].owner # who
                          /\ r \in DOMAIN accounts /\ r # n /\ accounts'[r] = accounts[r]
    BY <1>7, <1>10, <2>3 DEF Stored
  <2>8. OneRowEach'
    <3>1. SUFFICES ASSUME NEW r \in Stored', NEW s \in Stored', accounts'[r].owner = accounts'[s].owner,
                          accounts'[r].looked, accounts'[s].looked
                   PROVE  r = s
      BY DEF OneRowEach
    <3>2. CASE r \in Stored /\ s \in Stored
      BY <1>1, <2>7, <3>1, <3>2 DEF OneRowEach
    <3>3. CASE ~ (r \in Stored /\ s \in Stored)
      BY <2>1, <2>3, <2>6, <2>7, <3>1, <3>3
    <3>4. QED
      BY <3>2, <3>3
  <2>9. AccountsStay
    <3> vendor' = vendor
      BY <1>2
    <3>1. \A r \in Stored : Plain(r) => Plain(r)'
      BY <2>7 DEF Plain, Told
    <3>2. \A r : r = n => Plain(r)'
      <4>1. /\ accounts'[n].email = EmailOf(g) /\ accounts'[n].uuid = SaidOf(g).uuid
            /\ accounts'[n].owner = who
        BY <2>1, <2>3
      <4>2. QED
        BY <1>4, <1>5, <4>1 DEF Plain, Told
    <3>3. QED
      BY <2>3, <2>6, <3>1, <3>2 DEF AccountsStay
  <2>10. \A h : (\E r \in DOMAIN accounts : h = accounts[r].grant \/ h \in accounts[r].had) => InHand(h)'
    BY <2>3 DEF InHand
  <2>11. \A h : h = g => InHand(h)'
    BY <2>1, <2>3 DEF InHand
  <2>12. QED
    BY <1>2, <2>3, <2>5, <2>8, <2>9, <2>10, <2>11, RowsWritten
<1>11. CASE same # {}
  <2>1. /\ DOMAIN accounts' = DOMAIN accounts
        /\ \A r \in DOMAIN accounts :
             accounts'[r] = IF r \in same THEN Regranted(accounts[r], g) ELSE accounts[r]
    BY <1>2, <1>11
  <2>2. \A r \in DOMAIN accounts :
          /\ accounts'[r] \in Row
          /\ accounts'[r].email = accounts[r].email /\ accounts'[r].uuid = accounts[r].uuid
          /\ accounts'[r].owner = accounts[r].owner /\ accounts'[r].there = accounts[r].there
          /\ accounts'[r].looked = accounts[r].looked
          /\ IF r \in same THEN /\ accounts'[r].grant = g
                               /\ accounts'[r].had = accounts[r].had \cup {accounts[r].grant}
             ELSE accounts'[r] = accounts[r]
    <3>1. SUFFICES ASSUME NEW r \in DOMAIN accounts
                   PROVE  LET x == Regranted(accounts[r], g)
                          IN  /\ x \in Row
                              /\ x.email = accounts[r].email /\ x.uuid = accounts[r].uuid
                              /\ x.owner = accounts[r].owner /\ x.there = accounts[r].there
                              /\ x.looked = accounts[r].looked
                              /\ x.grant = g /\ x.had = accounts[r].had \cup {accounts[r].grant}
      <4> HIDE DEF same
      <4>1. QED
        BY <1>6, <2>1
    <3>2. accounts[r] \in Row
      BY <1>6
    <3>3. QED
      BY <1>4, <3>2 DEF Regranted, Row
  <2>3. accounts' \in Seq(Row)
    <3>1. DOMAIN accounts = 1..Len(accounts) /\ Len(accounts) \in Nat
      BY <1>6
    <3> DEFINE y(r) == IF r \in same THEN Regranted(accounts[r], g) ELSE accounts[r]
    <3>2. accounts' = [r \in 1..Len(accounts) |-> y(r)]
      BY <1>2, <1>11, <3>1
    <3>3. \A r \in 1..Len(accounts) : y(r) \in Row
      BY <2>1, <2>2, <3>1
    <3> HIDE DEF y
    <3>4. QED
      BY <3>1, <3>2, <3>3
  <2> HIDE DEF same
  <2>4. Stored' = Stored
    BY <2>1, <2>2 DEF Stored
  <2>5. RowsStand'
    <3>1. SUFFICES ASSUME NEW r \in DOMAIN accounts
                   PROVE  RowStands(r)'
      BY <2>1 DEF RowsStand
    <3>2. NamesOwner(vendor, accounts'[r])
      <4>1. NamesOwner(vendor, accounts[r])
        BY <1>9 DEF RowStands
      <4>2. QED
        BY <2>2, <4>1, SameNames
    <3>3. CASE r \in same
      BY <1>2, <1>3, <1>8, <2>2, <3>2, <3>3 DEF RowStands
    <3>4. CASE r \notin same
      BY <1>2, <1>9, <2>2, <3>4 DEF RowStands
    <3>5. QED
      BY <3>3, <3>4
  <2>6. OneRowEach'
    BY <1>1, <2>2, <2>4 DEF OneRowEach, Stored
  <2>7. AccountsStay
    <3>1. \A r \in Stored : Plain(r) => Plain(r)'
      <4>1. SUFFICES ASSUME NEW r \in Stored, Plain(r)
                     PROVE  Plain(r)'
        OBVIOUS
      <4>2. r \in DOMAIN accounts
        BY DEF Stored
      <4>3. accounts'[r].email = accounts[r].email /\ accounts'[r].uuid = accounts[r].uuid
            /\ accounts'[r].owner = accounts[r].owner
        BY <2>2, <4>2
      <4>4. vendor' = vendor
        BY <1>2
      <4>5. QED
        BY <4>1, <4>3, <4>4 DEF Plain, Told
    <3>2. QED
      BY <2>1, <2>2, <2>4, <3>1 DEF AccountsStay
  <2>8. \A h : (\E r \in DOMAIN accounts : h = accounts[r].grant \/ h \in accounts[r].had) => InHand(h)'
    <3>1. \A h : \A r \in DOMAIN accounts :
            h = accounts[r].grant \/ h \in accounts[r].had =>
              h = accounts'[r].grant \/ h \in accounts'[r].had
      BY <2>2
    <3>2. QED
      BY <2>1, <3>1 DEF InHand
  <2>9. \A h : h = g => InHand(h)'
    <3>1. PICK r \in same : TRUE
      BY <1>11
    <3>2. QED
      BY <1>8, <2>1, <2>2, <3>1 DEF InHand
  <2>10. QED
    BY <1>2, <2>3, <2>5, <2>6, <2>7, <2>8, <2>9, RowsWritten
<1>12. QED
  BY <1>10, <1>11

\* A grant nothing was stored of is lost.
LEMMA NotStoredKeeps ==
  ASSUME SignKept, NEW t \in Tab, NotStored(t)
  PROVE  SignKept'
<1>1. SignTypes /\ RowsStand /\ OneRowEach
  BY DEF SignKept
<1>2. /\ tabs[t].pc = "storing" /\ TurnedAway(t) /\ astray' = astray \cup {tabs[t].grant}
      /\ vendor' = vendor /\ flows' = flows /\ codes' = codes /\ accounts' = accounts
      /\ grants' = grants /\ leaving' = leaving
  BY DEF NotStored, StoreFails
<1>3. AccountsStay /\ Stored' = Stored /\ GrantsStay
  BY <1>2, SameAccounts, SameGrants
<1>4. accounts' \in Seq(Row)
  BY <1>1, <1>2 DEF SignTypes
<1>5. RowsStand' /\ OneRowEach'
  BY <1>1, <1>2, <1>3, RowsStay DEF OneRowEach
<1>6. /\ \A h : (\E r \in DOMAIN accounts : h = accounts[r].grant \/ h \in accounts[r].had) => InHand(h)'
      /\ \A h : h = tabs[t].grant => InHand(h)'
  BY <1>2 DEF InHand
<1>7. QED
  BY <1>2, <1>3, <1>4, <1>5, <1>6, RowsWritten

LEMMA DeleteKeeps ==
  ASSUME SignKept, DeleteAccount
  PROVE  SignKept'
<1>1. SignTypes /\ RowsStand /\ TabsStand /\ LeaveStands /\ OneRowEach /\ AllInHand /\ DeviceHeld
  BY DEF SignKept
<1> DEFINE w == leaving.row
           x == [accounts[w] EXCEPT !.there = FALSE]
<1>2. /\ leaving.pc = "deleting" /\ leaving' = [pc |-> "deleted"]
      /\ accounts' = [accounts EXCEPT ![w] = x]
      /\ UNCHANGED <<vendor, flows, codes, grants, tabs, astray>>
  BY DEF DeleteAccount
<1>3. w \in DOMAIN accounts
  BY <1>1, <1>2 DEF LeaveStands
<1>4. accounts \in Seq(Row) /\ accounts[w] \in Row
  BY <1>1, <1>3, Entries DEF SignTypes
<1>5. /\ x \in Row /\ ~ x.there /\ x.email = accounts[w].email /\ x.uuid = accounts[w].uuid
      /\ x.owner = accounts[w].owner /\ x.grant = accounts[w].grant /\ x.had = accounts[w].had
      /\ x.looked = accounts[w].looked
  BY <1>4 DEF Row
<1> HIDE DEF x
<1>6. /\ accounts' \in Seq(Row) /\ DOMAIN accounts' = DOMAIN accounts
      /\ accounts'[w] = x /\ \A r \in DOMAIN accounts : r # w => accounts'[r] = accounts[r]
  BY <1>2, <1>3, <1>4, <1>5, OneOther
<1>7. \A r \in DOMAIN accounts :
        /\ accounts'[r].email = accounts[r].email /\ accounts'[r].uuid = accounts[r].uuid
        /\ accounts'[r].owner = accounts[r].owner /\ accounts'[r].grant = accounts[r].grant
        /\ accounts'[r].had = accounts[r].had /\ accounts'[r].looked = accounts[r].looked
        /\ accounts'[r].there => accounts[r].there
  BY <1>5, <1>6
<1>8. Stored' \subseteq Stored /\ Stored \subseteq DOMAIN accounts
  BY <1>6, <1>7 DEF Stored
<1>9. AccountsStay
  <2>1. \A r \in Stored : Plain(r) => Plain(r)'
    BY <1>2, <1>7, <1>8 DEF Plain, Told
  <2>2. QED
    BY <1>6, <1>7, <1>8, <2>1 DEF AccountsStay
<1>10. GrantsStay /\ People' = People
  BY <1>2, SameGrants DEF People
<1>11. SignTypes'
  <2>1. Code' = Code /\ Row' = Row /\ Grant' = Grant
    BY <1>10 DEF Code, Row, Grant
  <2>2. leaving' \in Leave
    BY <1>2 DEF Leave
  <2>3. QED
    BY <1>1, <1>2, <1>6, <2>1, <2>2 DEF SignTypes
<1>12. RowsStand'
  <2>1. SUFFICES ASSUME NEW r \in DOMAIN accounts
                 PROVE  RowStands(r)'
    BY <1>6 DEF RowsStand
  <2>2. RowStands(r)
    BY <1>1 DEF RowsStand
  <2>3. NamesOwner(vendor, accounts[r])
    BY <2>2 DEF RowStands
  <2>4. NamesOwner(vendor, accounts'[r])
    BY <1>7, <2>3, SameNames
  <2>5. QED
    BY <1>2, <1>7, <2>2, <2>4 DEF RowStands
<1>13. TabsStand'
  BY <1>1, <1>2, <1>9, <1>10, AllTabsStay
<1>14. LeaveStands'
  BY <1>2 DEF LeaveStands
<1>15. OneRowEach'
  BY <1>1, <1>7, <1>8 DEF OneRowEach
<1>16. AllInHand'
  <2>1. SUFFICES ASSUME NEW h \in DOMAIN grants, grants[h].stands
                 PROVE  InHand(h)'
    BY <1>2 DEF AllInHand
  <2>2. InHand(h)
    BY <1>1, <2>1 DEF AllInHand
  <2>3. QED
    BY <1>2, <1>6, <1>7, <2>2 DEF InHand
<1>17. DeviceHeld'
  BY <1>1, <1>2 DEF DeviceHeld
<1>18. QED
  BY <1>11, <1>12, <1>13, <1>14, <1>15, <1>16, <1>17 DEF SignKept

---------------------------------------------------------------------------

LEMMA SignStutters ==
  ASSUME SignKept, UNCHANGED signInVars
  PROVE  SignKept'
<1>1. /\ vendor' = vendor /\ flows' = flows /\ codes' = codes /\ accounts' = accounts
      /\ grants' = grants /\ tabs' = tabs /\ leaving' = leaving /\ astray' = astray
  BY DEF signInVars
<1>2. /\ flows \in Seq(Flow) /\ codes \in Seq(Code) /\ Len(flows) = Len(codes)
  BY DEF SignKept, SignTypes
<1>3. QED
  BY <1>1, <1>2, AttemptsMove

\* Whoever signs in, as whomever the browser is, from however many screens, and
\* whatever is deleted, refused or lost meanwhile: the grant of a row is of whom
\* it was added for, an account has one row, but for a row added when the
\* account could not be looked for, a grant that stands is where it can be found, and a device's code that was handed over is not asked about
\* again (oauth.go, handleOAuthComplete, storeConsent, AccountByIdentity).
THEOREM SignInSoundHolds == SignInSpec => []SignInSound
<1>1. SignInInit => SignKept
  BY SignBegins
<1>2. SignKept /\ [SignInNext]_signInVars => SignKept'
  <2>1. SUFFICES ASSUME SignKept, [SignInNext]_signInVars
                 PROVE  SignKept'
    OBVIOUS
  <2>2. ASSUME NEW a \in Stored \cup {NoRow}, StartSignIn(a)
        PROVE  SignKept'
    BY <2>1, <2>2, StartKeeps
  <2>3. ASSUME NEW n \in DOMAIN codes,
               (\E who \in DOMAIN vendor.answers : Approve(n, who)) \/ Evict(n)
        PROVE  SignKept'
    BY <2>1, <2>3, ApproveKeeps, EvictKeeps DEF People
  <2>4. ASSUME NEW t \in Tab, NEW n \in DOMAIN codes, NEW pasted \in DOMAIN codes, Redeem(t, n, pasted)
        PROVE  SignKept'
    BY <2>1, <2>4, RedeemKeeps
  <2>5. ASSUME NEW t \in Tab, ExchangeCode(t) \/ PollDevice(t)
        PROVE  SignKept'
    BY <2>1, <2>5, ExchangeKeeps, PollKeeps
  <2>6. ASSUME NEW t \in Tab, Consented(t) \/ HandBack(t)
        PROVE  SignKept'
    BY <2>1, <2>6, ConsentedKeeps, HandBackKeeps
  <2>7. ASSUME NEW t \in Tab, RenewAccount(t) \/ UpsertAccount(t) \/ NotStored(t)
        PROVE  SignKept'
    BY <2>1, <2>7, RenewKeeps, UpsertKeeps, NotStoredKeeps
  <2>8. CASE (\E r \in Stored : GiveUp(r)) \/ DeleteAccount \/ ProcessEnds
    BY <2>1, <2>8, GiveUpKeeps, DeleteKeeps, EndKeeps
  <2>9. CASE UNCHANGED signInVars
    BY <2>1, <2>9, SignStutters
  <2>10. QED
    BY <2>1, <2>2, <2>3, <2>4, <2>5, <2>6, <2>7, <2>8, <2>9 DEF SignInNext
<1>3. SignKept => SignInSound
  BY KeptIsSound
<1>4. QED
  BY <1>1, <1>2, <1>3, PTL DEF SignInSpec
=============================================================================
