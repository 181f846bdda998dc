--------------------------- MODULE ServicesProofs ---------------------------
(***************************************************************************)
(* What six services beside the relay keep, each of a specification of its *)
(* own: the writer of quota rows for any number of goroutines, polls and   *)
(* reports; the release of a worker's connections for any set of them;     *)
(* recorded content for any exchanges, clients, chunks and budgets; the    *)
(* lists of models, whoever reads them at once; what is offered and routed *)
(* of them, for any accounts, models and families; and the operator's      *)
(* marks of the notices, for any accounts, screens and troubles.           *)
(***************************************************************************)
EXTENDS Notices, QuotaWriter, ConnDrain, Recordings, ModelLists, ModelRoutes, LoopProofs,
        FiniteSetTheorems, TLAPS

---------------------------------------------------------------------------
(* The writer of quota rows *)

Report == [n : Nat, room : BOOLEAN]
Row == [q : Report, detail : Nat, by : {"nobody", "note", "poll"}]
Writer == [pc : {"idle", "read", "write", "after"}, q : Report, detail : Nat]

QuotaTypes ==
  /\ report \in Report /\ noted \in Report /\ waiting \in Report
  /\ writer \in [Goroutine -> Writer]
  /\ polls \in [Poll -> Report] /\ quota \in Row
  /\ written \in Nat
  /\ aged \in BOOLEAN /\ busy \in BOOLEAN /\ failed \in BOOLEAN

LEMMA NoReports ==
  /\ NoReport \in Report /\ WriteDone \in Writer /\ Unwritten \in Row
  /\ NoReport.n = 0 /\ NoReport.room = TRUE
  /\ WriteDone.pc = "idle"
  /\ \A n \in Nat, room \in BOOLEAN : [n |-> n, room |-> room] \in Report
  /\ \A q \in Report : [pc |-> "read", q |-> q, detail |-> 0] \in Writer
BY DEF NoReport, WriteDone, Unwritten, Report, Writer, Row

LEMMA QuotaTyped == QuotaSpec => []QuotaTypes
<1>1. QuotaInit => QuotaTypes
  <2> SUFFICES ASSUME QuotaInit PROVE QuotaTypes
    OBVIOUS
  <2>1. aged \in BOOLEAN /\ busy \in BOOLEAN /\ failed \in BOOLEAN
    BY Zenon DEF QuotaInit
  <2>2. /\ report \in Report /\ noted \in Report /\ waiting \in Report
        /\ writer \in [Goroutine -> Writer] /\ polls \in [Poll -> Report]
        /\ quota \in Row /\ written \in Nat
    BY NoReports DEF QuotaInit
  <2>3. QED
    BY <2>1, <2>2, Zenon DEF QuotaTypes
<1>2. ASSUME QuotaTypes, [QuotaNext]_quotaVars PROVE QuotaTypes'
  <2> USE <1>2, NoReports DEF QuotaTypes
  <2>1. ASSUME NEW room \in BOOLEAN, NoteQuota(room) PROVE QuotaTypes'
    <3> DEFINE q == [n |-> report.n + 1, room |-> room]
    <3>1. q \in Report
      <4>1. report.n + 1 \in Nat
        BY DEF Report
      <4>2. QED
        BY <4>1
    <3> HIDE DEF q
    <3>2. report' = q /\ noted' \in {noted, q} /\ waiting' \in {waiting, q}
          /\ UNCHANGED <<polls, quota, written, failed>>
      BY <2>1, Zenon DEF NoteQuota, q
    <3>3. aged' \in BOOLEAN /\ busy' \in BOOLEAN
      BY <2>1, Zenon DEF NoteQuota
    <3>4. writer' \in [Goroutine -> Writer]
      <4>1. writer' = writer \/ \E g \in Goroutine : Start(g, q)
        BY <2>1, Zenon DEF NoteQuota, q
      <4>2. QED
        BY <3>1, <4>1 DEF Start
    <3>5. QED
      BY <3>1, <3>2, <3>3, <3>4
  <2>2. CASE Age
    BY <2>2 DEF Age
  <2>3. ASSUME NEW g \in Goroutine, ReadDetail(g) PROVE QuotaTypes'
    <3>1. PICK detail \in {quota.detail, 0} :
             writer' = [writer EXCEPT ![g].pc = "write", ![g].detail = detail]
      BY <2>3 DEF ReadDetail
    <3>2. [writer[g] EXCEPT !.pc = "write", !.detail = detail] \in Writer
      <4>1. writer[g] \in Writer /\ detail \in Nat
        BY <3>1 DEF Row
      <4>2. QED
        BY <4>1 DEF Writer
    <3>3. writer' = [writer EXCEPT ![g] = [writer[g] EXCEPT !.pc = "write", !.detail = detail]]
      BY <3>1
    <3>4. writer' \in [Goroutine -> Writer]
      BY <3>2, <3>3
    <3>5. QED
      BY <2>3, <3>4 DEF ReadDetail
  <2>4. ASSUME NEW g \in Goroutine, WriteNote(g) \/ WriteFails(g) PROVE QuotaTypes'
    <3>1. [writer[g] EXCEPT !.pc = "after"] \in Writer
      BY DEF Writer
    <3>2. writer' \in [Goroutine -> Writer]
      BY <2>4, <3>1 DEF WriteNote, WriteFails, Writer
    <3>3. quota' \in Row /\ written' \in Nat
      BY <2>4 DEF WriteNote, WriteFails, Writer, Report, Row
    <3>4. failed' \in BOOLEAN
      BY <2>4, Zenon DEF WriteNote, WriteFails
    <3>5. QED
      BY <2>4, <3>2, <3>3, <3>4 DEF WriteNote, WriteFails
  <2>5. ASSUME NEW g \in Goroutine, NextNote(g) PROVE QuotaTypes'
    <3>1. writer' \in [Goroutine -> Writer]
      BY <2>5 DEF NextNote, Start
    <3>2. waiting' \in Report
      BY <2>5 DEF NextNote
    <3>3. busy' \in BOOLEAN
      BY <2>5, Zenon DEF NextNote
    <3>4. QED
      BY <2>5, <3>1, <3>2, <3>3 DEF NextNote
  <2>6. ASSUME NEW p \in Poll, NEW room \in BOOLEAN, Fetch(p, room) PROVE QuotaTypes'
    <3>1. [n |-> report.n, room |-> room] \in Report
      BY DEF Report
    <3>2. QED
      BY <2>6, <3>1 DEF Fetch
  <2>7. ASSUME NEW p \in Poll, WriteFetched(p) PROVE QuotaTypes'
    <3>1. quota' \in Row
      BY <2>7 DEF WriteFetched, Report, Row
    <3>2. QED
      BY <2>7, <3>1 DEF WriteFetched
  <2>8. CASE UNCHANGED quotaVars
    BY <2>8 DEF quotaVars
  <2>9. QED
    BY <1>2, <2>1, <2>2, <2>3, <2>4, <2>5, <2>6, <2>7, <2>8 DEF QuotaNext
<1>3. QED
  BY <1>1, <1>2, PTL DEF QuotaSpec

\* One goroutine writes, the newest kept or an older one while the newest
\* waits; what it wrote last is in the row until a poll writes there, and is what
\* was kept last once nothing is left.
InHand(g) == writer[g].pc \in {"read", "write"}

OneWrites ==
  /\ busy <=> \E g \in Goroutine : writer[g].pc # "idle"
  /\ \A g, h \in Goroutine : (writer[g].pc # "idle" /\ writer[h].pc # "idle") => g = h

Kept ==
  /\ written <= noted.n /\ noted.n <= report.n
  /\ noted = NoReport \/ noted.n > 0
  /\ report.room = noted.room

Waits == waiting # NoReport => (busy /\ waiting = noted /\ waiting.n > written)

Holds(g) ==
  InHand(g) => /\ writer[g].q.n > written /\ writer[g].q.n <= noted.n
               /\ waiting = NoReport => writer[g].q.n = noted.n
               /\ waiting # NoReport => waiting.n > writer[g].q.n

Settled ==
  (\A g \in Goroutine : ~InHand(g)) => ((waiting = NoReport /\ ~failed) => written = noted.n)

OfTheLast == quota.by = "poll" \/ quota.q.n = written

Noting == QuotaTypes /\ OneWrites /\ Kept /\ OfTheLast /\ Waits /\ (\A g \in Goroutine : Holds(g)) /\ Settled

\* The parts a step leaves alone.
LEMMA NotingAlone ==
  ASSUME Noting, QuotaTypes', UNCHANGED <<report, noted, busy, waiting, writer, written, failed>>,
         quota' = quota \/ quota'.by = "poll"
  PROVE  Noting'
BY DEF Noting, OneWrites, Kept, OfTheLast, Waits, Holds, InHand, Settled

LEMMA NotingNote ==
  ASSUME Noting, QuotaTypes', NEW room \in BOOLEAN, NoteQuota(room)
  PROVE  Noting'
<1> DEFINE q == [n |-> report.n + 1, room |-> room]
<1>1. q.n = report.n + 1 /\ q.room = room /\ q # NoReport
  BY DEF Noting, QuotaTypes, Report, NoReport
<1>2. report.n \in Nat /\ noted.n \in Nat /\ written \in Nat
      /\ \A g \in Goroutine : writer[g] \in Writer /\ writer[g].q.n \in Nat
  BY DEF Noting, QuotaTypes, Report, Writer
<1> HIDE DEF q
<1>3. report' = q /\ UNCHANGED <<quota, written, failed>>
  BY DEF NoteQuota, q
<1>7. OfTheLast'
  BY <1>3 DEF Noting, OfTheLast
<1>4. CASE ~DueNote(q)
  <2>1. UNCHANGED <<noted, busy, waiting, writer>>
    BY <1>4, Zenon DEF NoteQuota, q
  <2>2. noted.room = room
    BY <1>1, <1>4 DEF DueNote
  <2>3. Kept'
    BY <1>1, <1>2, <1>3, <2>1, <2>2 DEF Noting, Kept
  <2>4. QED
    BY <1>3, <1>7, <2>1, <2>3, Zenon DEF Noting, OneWrites, Waits, Holds, InHand, Settled
<1>5. CASE DueNote(q)
  <2>1. noted' = q /\ busy' = TRUE
    BY <1>5, Zenon DEF NoteQuota, q
  <2>2. Kept'
    BY <1>1, <1>2, <1>3, <2>1 DEF Noting, Kept
  <2>3. CASE busy
    <3>1. waiting' = q /\ writer' = writer /\ busy' = busy
      BY <1>5, <2>3, Zenon DEF NoteQuota, q
    <3>2. OneWrites'
      BY <3>1, Zenon DEF Noting, OneWrites
    <3>3. Waits'
      BY <1>1, <1>2, <1>3, <2>1, <3>1 DEF Noting, Kept, Waits
    <3>4. ASSUME NEW g \in Goroutine PROVE Holds(g)'
      BY <1>1, <1>2, <1>3, <2>1, <3>1 DEF Noting, Kept, Holds, InHand
    <3>5. Settled'
      BY <1>1, <3>1 DEF Settled
    <3>6. QED
      BY <1>7, <2>2, <3>2, <3>3, <3>4, <3>5 DEF Noting
  <2>4. CASE ~busy
    <3>1. waiting' = waiting
      BY <1>5, <2>4, Zenon DEF NoteQuota, q
    <3>2. PICK h \in Goroutine : writer[h].pc = "idle" /\ Start(h, q)
      BY <1>5, <2>4, Zenon DEF NoteQuota, q
    <3>3. \A g \in Goroutine : writer[g].pc = "idle"
      BY <2>4, Zenon DEF Noting, OneWrites
    <3>4. waiting = NoReport
      BY <2>4, Zenon DEF Noting, Waits
    <3>5. writer'[h].pc = "read" /\ writer'[h].q = q
          /\ \A g \in Goroutine : g # h => writer'[g] = writer[g]
      BY <3>2 DEF Start, Noting, QuotaTypes
    <3>6. OneWrites'
      <4>1. \E g \in Goroutine : writer'[g].pc # "idle"
        BY <3>5
      <4>2. \A g, k \in Goroutine : (writer'[g].pc # "idle" /\ writer'[k].pc # "idle") => g = k
        BY <3>3, <3>5
      <4>3. QED
        BY <2>1, <4>1, <4>2, Zenon DEF OneWrites
    <3>7. Waits'
      BY <3>1, <3>4, Zenon DEF Waits
    <3>8. ASSUME NEW g \in Goroutine PROVE Holds(g)'
      BY <1>1, <1>2, <1>3, <2>1, <3>1, <3>3, <3>4, <3>5 DEF Noting, Kept, Holds, InHand
    <3>9. Settled'
      BY <3>5 DEF Settled, InHand
    <3>10. QED
      BY <1>7, <2>2, <3>6, <3>7, <3>8, <3>9, Zenon DEF Noting
  <2>5. QED
    BY <2>3, <2>4
<1>6. QED
  BY <1>4, <1>5

LEMMA NotingRead ==
  ASSUME Noting, QuotaTypes', NEW h \in Goroutine, ReadDetail(h)
  PROVE  Noting'
<1>1. UNCHANGED <<report, noted, busy, waiting, quota, written, failed>> /\ writer[h].pc = "read"
  BY DEF ReadDetail
<1>2. writer'[h].pc = "write" /\ writer'[h].q = writer[h].q
      /\ \A g \in Goroutine : g # h => writer'[g] = writer[g]
  BY DEF ReadDetail, Noting, QuotaTypes, Writer
<1>3. \A g \in Goroutine : /\ writer'[g].pc = "idle" <=> writer[g].pc = "idle"
                           /\ InHand(g)' <=> InHand(g)
                           /\ writer'[g].q = writer[g].q
  BY <1>1, <1>2 DEF InHand
<1>4. OneWrites'
  BY <1>1, <1>3, Zenon DEF Noting, OneWrites
<1>5. ASSUME NEW g \in Goroutine PROVE Holds(g)'
  BY <1>1, <1>3 DEF Noting, Holds
<1>6. Kept' /\ OfTheLast' /\ Waits' /\ Settled'
  BY <1>1, <1>3, Zenon DEF Noting, Kept, OfTheLast, Waits, Settled
<1>7. QED
  BY <1>4, <1>5, <1>6, Zenon DEF Noting

LEMMA NotingWritten ==
  ASSUME Noting, QuotaTypes', NEW h \in Goroutine, WriteNote(h) \/ WriteFails(h)
  PROVE  Noting'
<1>1. UNCHANGED <<report, noted, busy, waiting>> /\ writer[h].pc = "write"
  BY DEF WriteNote, WriteFails
<1>2. writer'[h].pc = "after" /\ \A g \in Goroutine : g # h => writer'[g] = writer[g]
  BY DEF WriteNote, WriteFails, Noting, QuotaTypes, Writer
<1>3. written' = written \/ written' = writer[h].q.n
  BY DEF WriteNote, WriteFails
<1>4. failed' = TRUE \/ written' = writer[h].q.n
  BY Zenon DEF WriteNote, WriteFails
<1>5. /\ written \in Nat /\ noted.n \in Nat /\ report.n \in Nat /\ waiting.n \in Nat
      /\ \A g \in Goroutine : writer[g].q.n \in Nat
  BY DEF Noting, QuotaTypes, Report, Writer
<1>6. /\ writer[h].q.n > written /\ writer[h].q.n <= noted.n
      /\ waiting = NoReport => writer[h].q.n = noted.n
      /\ waiting # NoReport => waiting.n > writer[h].q.n
  BY <1>1 DEF Noting, Holds, InHand
<1>7. \A g \in Goroutine : writer'[g].pc = "idle" <=> writer[g].pc = "idle"
  BY <1>1, <1>2
<1>8. \A g \in Goroutine : ~InHand(g)'
  <2>1. \A g \in Goroutine : writer[g].pc # "idle" => g = h
    BY <1>1 DEF Noting, OneWrites
  <2>2. QED
    BY <1>2, <2>1 DEF InHand
<1>9. OneWrites'
  BY <1>1, <1>7, Zenon DEF Noting, OneWrites
<1>10. Kept'
  BY <1>1, <1>3, <1>5, <1>6 DEF Noting, Kept
<1>11. Waits'
  <2>1. ASSUME waiting # NoReport PROVE busy /\ waiting = noted
    BY <2>1, Zenon DEF Noting, Waits
  <2>2. ASSUME waiting # NoReport PROVE waiting.n > written'
    BY <1>3, <1>5, <1>6, <2>2 DEF Noting, Waits
  <2>3. QED
    BY <1>1, <2>1, <2>2, Zenon DEF Waits
<1>12. Settled'
  <2>1. ASSUME waiting = NoReport, ~failed' PROVE written' = noted.n
    <3>1. written' = writer[h].q.n
      BY <1>4, <2>1, Zenon
    <3>2. QED
      BY <1>6, <2>1, <3>1
  <2>2. QED
    BY <1>1, <2>1, Zenon DEF Settled
<1>13. OfTheLast'
  BY DEF Noting, OfTheLast, WriteNote, WriteFails
<1>14. QED
  BY <1>8, <1>9, <1>10, <1>11, <1>12, <1>13, Zenon DEF Noting, Holds

LEMMA NotingNext ==
  ASSUME Noting, QuotaTypes', NEW h \in Goroutine, NextNote(h)
  PROVE  Noting'
<1>1. UNCHANGED <<report, noted, quota, written, failed>> /\ writer[h].pc = "after"
  BY DEF NextNote
<1>2. \A g \in Goroutine : writer[g].pc # "idle" => g = h
  BY <1>1 DEF Noting, OneWrites
<1>3. \A g \in Goroutine : ~InHand(g)
  BY <1>1, <1>2 DEF InHand
<1>4. Kept' /\ OfTheLast'
  BY <1>1, Zenon DEF Noting, Kept, OfTheLast
<1>5. busy
  BY <1>1, Zenon DEF Noting, OneWrites
<1>6. CASE waiting = NoReport
  <2>1. busy' = FALSE /\ waiting' = waiting
    BY <1>6, Zenon DEF NextNote
  <2>2. writer'[h].pc = "idle" /\ \A g \in Goroutine : g # h => writer'[g] = writer[g]
    BY <1>6, NoReports DEF NextNote, Noting, QuotaTypes
  <2>3. \A g \in Goroutine : writer'[g].pc = "idle" /\ ~InHand(g)'
    BY <1>2, <2>2 DEF InHand
  <2>4. OneWrites'
    BY <2>1, <2>3, Zenon DEF OneWrites
  <2>5. Settled'
    BY <1>1, <1>3, <2>1, Zenon DEF Noting, Settled
  <2>6. Waits'
    BY <1>6, <2>1, Zenon DEF Waits
  <2>7. QED
    BY <1>4, <2>3, <2>4, <2>5, <2>6, Zenon DEF Noting, Holds
<1>7. CASE waiting # NoReport
  <2>1. busy' = busy /\ waiting' = NoReport /\ Start(h, waiting)
    BY <1>7, Zenon DEF NextNote
  <2>2. writer'[h].pc = "read" /\ writer'[h].q = waiting
        /\ \A g \in Goroutine : g # h => writer'[g] = writer[g]
    BY <2>1 DEF Start, Noting, QuotaTypes
  <2>3. \A g \in Goroutine : g # h => writer'[g].pc = "idle"
    BY <1>2, <2>2
  <2>4. OneWrites'
    <3>1. \E g \in Goroutine : writer'[g].pc # "idle"
      BY <2>2
    <3>2. \A g, k \in Goroutine : (writer'[g].pc # "idle" /\ writer'[k].pc # "idle") => g = k
      BY <2>3
    <3>3. QED
      BY <1>5, <2>1, <3>1, <3>2, Zenon DEF OneWrites
  <2>5. waiting = noted /\ waiting.n > written
    BY <1>7, Zenon DEF Noting, Waits
  <2>6. noted.n \in Nat
    BY DEF Noting, QuotaTypes, Report
  <2>7. ASSUME NEW g \in Goroutine PROVE Holds(g)'
    BY <1>1, <2>1, <2>2, <2>3, <2>5, <2>6 DEF Holds, InHand
  <2>8. Settled'
    BY <2>2 DEF Settled, InHand
  <2>9. Waits'
    BY <2>1, Zenon DEF Waits
  <2>10. QED
    BY <1>4, <2>4, <2>7, <2>8, <2>9, Zenon DEF Noting
<1>8. QED
  BY <1>6, <1>7

\* The notes of an account are written one at a time and in their order; the row
\* says the last one written until a poll writes there; and the last one written
\* is the newest kept when none is left to write (pool/quota.go, NoteQuota and
\* writeQuota), for any number of goroutines, of polls beside them, and of reports.
THEOREM EndsAtNewestHolds == QuotaSpec => []EndsAtNewest
<1>1. QuotaInit => Noting
  <2> SUFFICES ASSUME QuotaInit PROVE Noting
    OBVIOUS
  <2>1. QuotaTypes
    <3>1. aged \in BOOLEAN /\ busy \in BOOLEAN /\ failed \in BOOLEAN
      BY Zenon DEF QuotaInit
    <3>2. QED
      BY <3>1, NoReports DEF QuotaInit, QuotaTypes
  <2>2. \A g \in Goroutine : writer[g].pc = "idle" /\ ~InHand(g)
    BY NoReports DEF QuotaInit, InHand
  <2>3. OneWrites
    BY <2>2, Zenon DEF QuotaInit, OneWrites
  <2>4. Kept /\ OfTheLast
    BY NoReports DEF QuotaInit, Kept, OfTheLast, Unwritten
  <2>5. Waits
    BY Zenon DEF QuotaInit, Waits
  <2>6. Settled
    BY NoReports DEF QuotaInit, Settled
  <2>7. QED
    BY <2>1, <2>2, <2>3, <2>4, <2>5, <2>6, Zenon DEF Noting, Holds
<1>2. ASSUME Noting, QuotaTypes', [QuotaNext]_quotaVars PROVE Noting'
  <2>1. ASSUME NEW p \in Poll, NEW room \in BOOLEAN, Fetch(p, room) PROVE Noting'
    BY <1>2, <2>1, NotingAlone DEF Fetch
  <2>2. ASSUME NEW p \in Poll, WriteFetched(p) PROVE Noting'
    <3>1. quota'.by = "poll"
      BY <2>2 DEF WriteFetched
    <3>2. QED
      BY <1>2, <2>2, <3>1, NotingAlone DEF WriteFetched
  <2>3. CASE Age
    BY <1>2, <2>3, NotingAlone DEF Age
  <2>4. CASE UNCHANGED quotaVars
    BY <1>2, <2>4, NotingAlone DEF quotaVars
  <2>5. QED
    BY <1>2, <2>1, <2>2, <2>3, <2>4, NotingNote, NotingRead, NotingWritten, NotingNext, Zenon
       DEF QuotaNext
<1>3. Noting => EndsAtNewest
  <2> SUFFICES ASSUME Noting PROVE EndsAtNewest
    OBVIOUS
  <2>1. (~busy /\ ~failed) => written = noted.n
    <3> SUFFICES ASSUME ~busy, ~failed PROVE written = noted.n
      OBVIOUS
    <3>1. waiting = NoReport
      BY Zenon DEF Noting, Waits
    <3>2. \A g \in Goroutine : writer[g].pc = "idle"
      BY Zenon DEF Noting, OneWrites
    <3>3. \A g \in Goroutine : ~InHand(g)
      BY <3>2 DEF InHand
    <3>4. QED
      BY <3>1, <3>3, Zenon DEF Noting, Settled
  <2>2. \A g \in {k \in Goroutine : writer[k].pc \in {"read", "write"}} : writer[g].q.n > written
    BY DEF Noting, Holds, InHand
  <2>3. waiting # NoReport => (busy /\ waiting.n > written)
    BY Zenon DEF Noting, Waits
  <2>4. QED
    BY <2>1, <2>2, <2>3, Zenon DEF EndsAtNewest, Noting, OneWrites, Kept, OfTheLast
<1>4. QED
  BY <1>1, <1>2, <1>3, QuotaTyped, PTL DEF QuotaSpec

---------------------------------------------------------------------------
(* The release of connections *)

ConnStates == {"unborn", "new", "idle", "read", "handling", "closing", "closed"}

DrainTypes ==
  /\ at \in [Conn -> ConnStates] /\ served \in [Conn -> BOOLEAN]
  /\ phase \in DrainPhases /\ released \in BOOLEAN /\ cut \subseteq Conn

Opened   == {c \in Conn : Open(c)}
Unserved == {c \in Conn : Open(c) /\ ~served[c]}

\* What a handler has seen of a connection in each state.
Known ==
  \A c \in Conn : /\ at[c] = "unborn" => ~served[c]
                  /\ at[c] \in {"idle", "handling"} => served[c]

Counted ==
  /\ IsFiniteSet(Opened)
  /\ opened = Cardinality(Opened) /\ pending = Cardinality(Unserved)

\* Before it shuts down, what a worker closes has been served or was silent;
\* and once it does, unless a deadline passed, only connections it served are
\* still open, none of them after a handover.
Pen ==
  /\ phase = "serving" => (~released /\ cut = {})
  /\ (~settleOver /\ ~graceOver) =>
       /\ released => cut = {}
       /\ ~released => \A c \in cut : served[c] \/ c \in silent
       /\ phase \in {"shutdown", "exited"} => \A c \in Conn : Open(c) => (~released /\ served[c])

Draining == DrainTypes /\ Known /\ Counted /\ Pen

LEMMA UnservedFinite ==
  ASSUME IsFiniteSet(Opened)
  PROVE  IsFiniteSet(Unserved)
<1>1. Unserved \in SUBSET Opened
  BY DEF Unserved, Opened
<1>2. QED
  BY <1>1, FS_Subset

\* A connection being closed is still open to Conns.
LEMMA Closing ==
  ASSUME DrainTypes, NEW cs, \A c \in Conn : c \in cs => Open(c), CloseConn(cs)
  PROVE  /\ at' \in [Conn -> ConnStates]
         /\ \A c \in Conn : Open(c)' <=> Open(c)
         /\ \A c \in Conn : at'[c] = at[c] \/ at'[c] = "closing"
<1>1. \A c \in Conn : at'[c] = IF c \in cs THEN "closing" ELSE at[c]
  BY DEF CloseConn
<1>2. at' \in [Conn -> ConnStates]
  BY DEF CloseConn, DrainTypes, ConnStates
<1>3. QED
  BY <1>1, <1>2 DEF Open

LEMMA CountAlone ==
  ASSUME Counted, \A c \in Conn : Open(c)' <=> Open(c), UNCHANGED <<served, pending, opened>>
  PROVE  Counted'
<1>1. Opened' = Opened /\ Unserved' = Unserved
  BY DEF Opened, Unserved
<1>2. QED
  BY <1>1, Zenon DEF Counted

\* A step that closes nothing under a client's pen, and opens nothing.
LEMMA DrainAlone ==
  ASSUME Draining, UNCHANGED <<serverVars, served, pending, opened, cut>>,
         silent \subseteq silent', at' \in [Conn -> ConnStates],
         \A c \in Conn : Open(c)' <=> Open(c),
         \A c \in Conn : at'[c] \in {"unborn", "idle", "handling"} => (at'[c] = at[c] \/ served[c]),
         \A c \in Conn : at'[c] = "unborn" => at[c] = "unborn"
  PROVE  Draining'
<1>1. DrainTypes'
  BY DEF Draining, DrainTypes, serverVars
<1>2. Known'
  BY DEF Draining, Known
<1>3. Counted'
  BY CountAlone DEF Draining
<1>4. Pen'
  BY DEF Draining, Pen, serverVars
<1>5. QED
  BY <1>1, <1>2, <1>3, <1>4 DEF Draining

\* A step of Serve that closes connections: Shutdown's, and what precedes it.
LEMMA DrainCloses ==
  ASSUME Draining, NEW cs, \A c \in Conn : c \in cs => Open(c), CloseConn(cs),
         cut' = cut \/ (cs \subseteq Conn /\ Cuts(cs)), UNCHANGED countVars, phase' \in DrainPhases, released' \in BOOLEAN, Pen'
  PROVE  Draining'
<1>1. /\ at' \in [Conn -> ConnStates]
      /\ \A c \in Conn : Open(c)' <=> Open(c)
      /\ \A c \in Conn : at'[c] = at[c] \/ at'[c] = "closing"
  BY Closing DEF Draining
<1>2. DrainTypes'
  BY <1>1 DEF Draining, DrainTypes, countVars, Cuts
<1>3. Known'
  BY <1>1 DEF Draining, Known, countVars
<1>4. Counted'
  BY <1>1, CountAlone DEF Draining, countVars
<1>5. QED
  BY <1>2, <1>3, <1>4 DEF Draining

LEMMA AcceptDrains ==
  ASSUME Draining, NEW c \in Conn, AcceptConn(c)
  PROVE  Draining'
<1>1. /\ at' = [at EXCEPT ![c] = "new"] /\ at[c] = "unborn" /\ phase = "serving"
      /\ pending' = pending + 1 /\ opened' = opened + 1
      /\ UNCHANGED <<phase, released, settleOver, graceOver, served, silent, cut>>
  BY DEF AcceptConn, serverVars
<1>2. at' \in [Conn -> ConnStates] /\ at'[c] = "new"
      /\ \A d \in Conn : d # c => at'[d] = at[d]
  BY <1>1 DEF Draining, DrainTypes, ConnStates
<1>3. ~served[c]
  BY <1>1 DEF Draining, Known
<1>4. DrainTypes'
  BY <1>1, <1>2 DEF Draining, DrainTypes
<1>5. Known'
  BY <1>1, <1>2, <1>3 DEF Draining, Known
<1>6. Counted'
  <2>1. Opened' = Opened \cup {c} /\ c \notin Opened
    BY <1>1, <1>2 DEF Opened, Open
  <2>2. Unserved' = Unserved \cup {c} /\ c \notin Unserved
    BY <1>1, <1>2, <1>3 DEF Unserved, Open
  <2>3. IsFiniteSet(Opened) /\ IsFiniteSet(Unserved)
        /\ opened = Cardinality(Opened) /\ pending = Cardinality(Unserved)
    BY UnservedFinite DEF Draining, Counted
  <2>4. IsFiniteSet(Opened') /\ Cardinality(Opened') = Cardinality(Opened) + 1
    BY <2>1, <2>3, FS_AddElement
  <2>5. Cardinality(Unserved') = Cardinality(Unserved) + 1
    BY <2>2, <2>3, FS_AddElement
  <2>6. QED
    BY <1>1, <2>3, <2>4, <2>5 DEF Counted
<1>7. Pen'
  BY <1>1 DEF Draining, Pen
<1>8. QED
  BY <1>4, <1>5, <1>6, <1>7 DEF Draining

\* A handler sees a request of c, or c is closed: it is off the count of
\* those waited for, once.
LEMMA ServedOnce ==
  ASSUME Draining, NEW c \in Conn, Open(c), Served(c),
         \A d \in Conn : d # c => (Open(d)' <=> Open(d))
  PROVE  /\ served' \in [Conn -> BOOLEAN] /\ served'[c]
         /\ \A d \in Conn : d # c => served'[d] = served[d]
         /\ pending' = Cardinality(Unserved')
<1>1. served' = [served EXCEPT ![c] = TRUE]
  BY DEF Served
<1>2. /\ served' \in [Conn -> BOOLEAN] /\ served'[c]
      /\ \A d \in Conn : d # c => served'[d] = served[d]
  BY <1>1 DEF Draining, DrainTypes
<1>3. Unserved' = Unserved \ {c}
  BY <1>2 DEF Unserved
<1>4. IsFiniteSet(Unserved) /\ pending = Cardinality(Unserved)
  BY UnservedFinite DEF Draining, Counted
<1>5. pending' = Cardinality(Unserved')
  <2>1. CASE served[c]
    <3>1. c \notin Unserved /\ pending' = pending
      BY <2>1, Zenon DEF Unserved, Served
    <3>2. QED
      BY <1>3, <1>4, <3>1, FS_RemoveElement
  <2>2. CASE ~served[c]
    <3>1. c \in Unserved /\ pending' = pending - 1
      BY <2>2, Zenon DEF Unserved, Served
    <3>2. QED
      BY <1>3, <1>4, <3>1, FS_RemoveElement
  <2>3. QED
    BY <2>1, <2>2
<1>6. QED
  BY <1>2, <1>5

LEMMA HandleDrains ==
  ASSUME Draining, NEW c \in Conn, HandleRequest(c)
  PROVE  Draining'
<1>1. /\ at' = [at EXCEPT ![c] = "handling"] /\ at[c] = "read" /\ Served(c) /\ opened' = opened
      /\ UNCHANGED <<phase, released, settleOver, graceOver, silent, cut>>
  BY DEF HandleRequest, serverVars
<1>2. at' \in [Conn -> ConnStates] /\ at'[c] = "handling"
      /\ \A d \in Conn : d # c => at'[d] = at[d]
  BY <1>1 DEF Draining, DrainTypes, ConnStates
<1>3. \A d \in Conn : Open(d)' <=> Open(d)
  BY <1>1, <1>2 DEF Open
<1>4. Open(c)
  BY <1>1 DEF Open
<1>5. /\ served' \in [Conn -> BOOLEAN] /\ served'[c]
      /\ \A d \in Conn : d # c => served'[d] = served[d]
      /\ pending' = Cardinality(Unserved')
  BY <1>1, <1>3, <1>4, ServedOnce
<1>6. DrainTypes'
  BY <1>1, <1>2, <1>5 DEF Draining, DrainTypes
<1>7. Known'
  BY <1>2, <1>5 DEF Draining, Known
<1>8. Counted'
  <2>1. Opened' = Opened
    BY <1>3 DEF Opened
  <2>2. QED
    BY <1>1, <1>5, <2>1, Zenon DEF Draining, Counted
<1>9. Pen'
  BY <1>1, <1>3, <1>5 DEF Draining, DrainTypes, Pen
<1>10. QED
  BY <1>6, <1>7, <1>8, <1>9 DEF Draining

LEMMA ClosedDrains ==
  ASSUME Draining, NEW c \in Conn, ConnClosed(c)
  PROVE  Draining'
<1>1. /\ at' = [at EXCEPT ![c] = "closed"] /\ at[c] = "closing" /\ Served(c) /\ opened' = opened - 1
      /\ UNCHANGED <<phase, released, settleOver, graceOver, silent, cut>>
  BY DEF ConnClosed, serverVars
<1>2. at' \in [Conn -> ConnStates] /\ at'[c] = "closed"
      /\ \A d \in Conn : d # c => at'[d] = at[d]
  BY <1>1 DEF Draining, DrainTypes, ConnStates
<1>3. \A d \in Conn : d # c => (Open(d)' <=> Open(d))
  BY <1>1, <1>2 DEF Open
<1>4. Open(c) /\ ~Open(c)'
  BY <1>1, <1>2 DEF Open
<1>5. /\ served' \in [Conn -> BOOLEAN] /\ served'[c]
      /\ \A d \in Conn : d # c => served'[d] = served[d]
      /\ pending' = Cardinality(Unserved')
  BY <1>1, <1>3, <1>4, ServedOnce
<1>6. DrainTypes'
  BY <1>1, <1>2, <1>5 DEF Draining, DrainTypes
<1>7. Known'
  BY <1>2, <1>5 DEF Draining, Known
<1>8. Counted'
  <2>1. Opened' = Opened \ {c} /\ c \in Opened
    BY <1>3, <1>4 DEF Opened
  <2>2. IsFiniteSet(Opened) /\ opened = Cardinality(Opened)
    BY DEF Draining, Counted
  <2>3. IsFiniteSet(Opened') /\ Cardinality(Opened') = Cardinality(Opened) - 1
    BY <2>1, <2>2, FS_RemoveElement
  <2>4. QED
    BY <1>1, <1>5, <2>2, <2>3 DEF Counted
<1>9. Pen'
  BY <1>1, <1>3, <1>4, <1>5 DEF Draining, DrainTypes, Pen
<1>10. QED
  BY <1>6, <1>7, <1>8, <1>9 DEF Draining

\* What closeIdleConns closes has been served, or is new and silent.
LEMMA IdleOnes ==
  ASSUME Draining
  PROVE  Idle \subseteq Conn /\ \A c \in Conn : c \in Idle => (Open(c) /\ (served[c] \/ c \in silent))
BY DEF Draining, Known, Idle, Open

LEMMA ShutDrains ==
  ASSUME Draining, Shut
  PROVE  Draining'
<1>1. /\ phase = "waiting" /\ phase' = "shutdown" /\ CloseConn(Idle) /\ Cuts(Idle)
      /\ UNCHANGED <<released, settleOver, graceOver, served, pending, opened, silent>>
  BY DEF Shut, countVars
<1>2. IF released THEN opened = 0 ELSE pending = 0
  BY Zenon DEF Shut
<1>3. IsFiniteSet(Opened) /\ IsFiniteSet(Unserved)
      /\ opened = Cardinality(Opened) /\ pending = Cardinality(Unserved)
  BY UnservedFinite DEF Draining, Counted
<1>4. released => Opened = {}
  BY <1>2, <1>3, FS_EmptySet
<1>5. ~released => Unserved = {}
  BY <1>2, <1>3, FS_EmptySet
<1>6. \A c \in Conn : Open(c) => (~released /\ served[c])
  BY <1>4, <1>5 DEF Opened, Unserved
<1>7. Idle \subseteq Conn /\ \A c \in Conn : c \in Idle => Open(c)
  BY IdleOnes
<1>8. \A c \in Conn : Open(c)' <=> Open(c)
  BY <1>1, <1>7, Closing DEF Draining
<1>9. \A c \in cut' : c \in cut \/ (c \in Conn /\ Open(c))
  BY <1>1, <1>7 DEF Cuts, Idle
<1>10. Pen'
  BY <1>1, <1>6, <1>8, <1>9 DEF Draining, Pen
<1>11. QED
  BY <1>1, <1>7, <1>10, DrainCloses DEF Draining, DrainTypes, DrainPhases, countVars

LEMMA LetGoDrains ==
  ASSUME Draining, NEW handover \in BOOLEAN, LetGo(handover)
  PROVE  Draining'
<1>1. /\ phase = "serving" /\ phase' = "letting" /\ released' = handover
      /\ UNCHANGED <<settleOver, graceOver, served, pending, opened, silent>>
  BY DEF LetGo, countVars
<1>2. cut = {}
  BY <1>1 DEF Draining, Pen
<1>3. Idle \subseteq Conn /\ \A c \in Conn : c \in Idle => (Open(c) /\ (served[c] \/ c \in silent))
  BY IdleOnes
<1>4. CASE handover
  <2>1. UNCHANGED <<at, cut>>
    BY <1>4, Zenon DEF LetGo
  <2>2. Pen'
    BY <1>1, <1>2, <1>4, <2>1 DEF Pen
  <2>3. DrainTypes' /\ Known'
    BY <1>1, <2>1 DEF Draining, DrainTypes, Known, DrainPhases
  <2>4. Counted'
    BY <1>1, <2>1, CountAlone DEF Draining, Open
  <2>5. QED
    BY <2>2, <2>3, <2>4 DEF Draining
<1>5. CASE ~handover
  <2>1. CloseConn(Idle) /\ Cuts(Idle)
    BY <1>5, Zenon DEF LetGo
  <2>2. \A c \in cut' : served[c] \/ c \in silent
    BY <1>2, <1>3, <2>1 DEF Cuts, Idle
  <2>3. Pen'
    BY <1>1, <1>5, <2>2 DEF Pen
  <2>4. QED
    BY <1>1, <1>3, <2>1, <2>3, DrainCloses DEF DrainPhases, countVars
<1>6. QED
  BY <1>4, <1>5

LEMMA DrainHolds == DrainSpec => []Draining
<1>1. DrainInit => Draining
  <2> SUFFICES ASSUME DrainInit PROVE Draining
    OBVIOUS
  <2>1. DrainTypes
    BY DEF DrainInit, DrainTypes, ConnStates, DrainPhases
  <2>2. Opened = {} /\ Unserved = {}
    BY DEF DrainInit, Opened, Unserved, Open
  <2>3. Counted
    BY <2>2, FS_EmptySet DEF DrainInit, Counted
  <2>4. Known /\ Pen
    BY DEF DrainInit, Known, Pen
  <2>5. QED
    BY <2>1, <2>3, <2>4 DEF Draining
<1>2. ASSUME Draining, [DrainNext]_drainVars PROVE Draining'
  <2> USE <1>2
  <2>t. at \in [Conn -> ConnStates] /\ phase \in DrainPhases /\ released \in BOOLEAN
    BY DEF Draining, DrainTypes
  <2>1. ASSUME NEW c \in Conn, GoSilent(c) \/ WriteRequest(c) PROVE Draining'
    BY <2>t, <2>1, DrainAlone DEF GoSilent, WriteRequest, countVars, Open
  <2>2. ASSUME NEW c \in Conn, ReadWhole(c) PROVE Draining'
    <3>1. at' = [at EXCEPT ![c] = "read"] /\ at[c] \in {"new", "idle"}
          /\ UNCHANGED <<serverVars, served, pending, opened, cut, silent>>
      BY <2>2 DEF ReadWhole, countVars
    <3>2. at' \in [Conn -> ConnStates] /\ at'[c] = "read"
          /\ \A d \in Conn : d # c => at'[d] = at[d]
      BY <2>t, <3>1 DEF ConnStates
    <3>3. \A d \in Conn : Open(d)' <=> Open(d)
      BY <3>1, <3>2 DEF Open
    <3>4. QED
      BY <3>1, <3>2, <3>3, DrainAlone
  <2>3. ASSUME NEW c \in Conn, DropRead(c) PROVE Draining'
    <3>1. at[c] = "read" /\ phase = "shutdown" /\ CloseConn({c}) /\ Cuts({c})
          /\ UNCHANGED <<phase, released, settleOver, graceOver, countVars, silent>>
      BY <2>3 DEF DropRead, ShuttingDown, serverVars
    <3>2. Open(c)
      BY <3>1 DEF Open
    <3>3. \A d \in Conn : Open(d)' <=> Open(d)
      BY <3>1, <3>2, Closing DEF Draining
    <3>4. cut' \subseteq cut \cup {c}
      BY <3>1 DEF Cuts
    <3>5. Pen'
      BY <3>1, <3>2, <3>3, <3>4 DEF Draining, Pen, countVars
    <3>6. QED
      BY <2>t, <3>1, <3>2, <3>5, DrainCloses
  <2>4. ASSUME NEW c \in Conn, Respond(c) PROVE Draining'
    <3>1. at[c] = "handling" /\ (at' = [at EXCEPT ![c] = "closing"] \/ at' = [at EXCEPT ![c] = "idle"])
          /\ UNCHANGED <<serverVars, served, pending, opened, cut, silent>>
      BY <2>4, Zenon DEF Respond, countVars
    <3>2. at' \in [Conn -> ConnStates] /\ at'[c] \in {"closing", "idle"}
          /\ \A d \in Conn : d # c => at'[d] = at[d]
      BY <2>t, <3>1 DEF ConnStates
    <3>3. \A d \in Conn : Open(d)' <=> Open(d)
      BY <3>1, <3>2 DEF Open
    <3>4. served[c]
      BY <3>1 DEF Draining, Known
    <3>5. QED
      BY <3>1, <3>2, <3>3, <3>4, DrainAlone
  <2>5. ASSUME NEW c \in Conn, CloseIdle(c) PROVE Draining'
    <3>1. at[c] \in {"new", "idle"} /\ CloseConn({c})
          /\ UNCHANGED <<phase, released, settleOver, graceOver, countVars, silent, cut>>
      BY <2>5 DEF CloseIdle, serverVars
    <3>2. Open(c)
      BY <3>1 DEF Open
    <3>3. \A d \in Conn : Open(d)' <=> Open(d)
      BY <3>1, <3>2, Closing DEF Draining
    <3>4. Pen'
      BY <3>1, <3>3 DEF Draining, Pen, countVars
    <3>5. QED
      BY <2>t, <3>1, <3>2, <3>4, DrainCloses
  <2>6. CASE BeginWait
    <3>1. /\ phase = "letting" /\ phase' = "waiting"
          /\ UNCHANGED <<released, served, pending, opened, at, silent, settleOver, graceOver, cut>>
      BY <2>6 DEF BeginWait, countVars
    <3>2. DrainTypes' /\ Known' /\ Pen'
      BY <3>1 DEF Draining, DrainTypes, Known, Pen, DrainPhases
    <3>3. Counted'
      BY <3>1, CountAlone DEF Draining, Open
    <3>4. QED
      BY <3>2, <3>3 DEF Draining
  <2>7. CASE SettleDeadline
    <3>1. /\ phase' = "shutdown" /\ settleOver' = TRUE /\ CloseConn(Idle) /\ Cuts(Idle)
          /\ UNCHANGED <<released, countVars>>
      BY <2>7 DEF SettleDeadline
    <3>2. Pen'
      BY <3>1 DEF Pen
    <3>3. QED
      BY <2>t, <3>1, <3>2, IdleOnes, DrainCloses DEF DrainPhases
  <2>8. CASE PollIdle
    <3>1. /\ phase = "shutdown" /\ CloseConn(Idle) /\ Cuts(Idle)
          /\ UNCHANGED <<phase, released, settleOver, graceOver, countVars, silent>>
      BY <2>8 DEF PollIdle, serverVars
    <3>2. \A d \in Conn : Open(d)' <=> Open(d)
      BY <3>1, IdleOnes, Closing DEF Draining
    <3>3. \A c \in cut' : c \in cut \/ (c \in Conn /\ Open(c))
      BY <3>1, IdleOnes DEF Cuts, Idle
    <3>4. Pen'
      BY <3>1, <3>2, <3>3 DEF Draining, Pen, countVars
    <3>5. QED
      BY <2>t, <3>1, <3>4, IdleOnes, DrainCloses
  <2>9. CASE Exit
    <3>1. /\ phase = "shutdown" /\ phase' = "exited"
          /\ UNCHANGED <<released, served, pending, opened, at, silent, settleOver, graceOver, cut>>
      BY <2>9 DEF Exit, countVars
    <3>2. DrainTypes' /\ Known' /\ Pen'
      BY <3>1 DEF Draining, DrainTypes, Known, Pen, DrainPhases, Open
    <3>3. Counted'
      BY <3>1, CountAlone DEF Draining, Open
    <3>4. QED
      BY <3>2, <3>3 DEF Draining
  <2>10. CASE GraceEnds
    <3> DEFINE left == {c \in Conn : Open(c)}
    <3>1. /\ phase' = "exited" /\ graceOver' = TRUE /\ CloseConn(left) /\ Cuts(left)
          /\ UNCHANGED <<released, countVars>>
      BY <2>10 DEF GraceEnds
    <3>2. Pen'
      BY <3>1 DEF Pen
    <3>3. QED
      BY <2>t, <3>1, <3>2, DrainCloses DEF DrainPhases
  <2>11. CASE UNCHANGED drainVars
    BY <2>t, <2>11, DrainAlone DEF drainVars, countVars, serverVars, Open
  <2>12. QED
    BY <2>1, <2>2, <2>3, <2>4, <2>5, <2>6, <2>7, <2>8, <2>9, <2>10, <2>11,
       AcceptDrains, HandleDrains, ClosedDrains, ShutDrains, LetGoDrains, Zenon DEF DrainNext
<1>3. QED
  BY <1>1, <1>2, PTL DEF DrainSpec

\* Conns counts what it waits for, and letting go of connections closes none
\* under a client's pen but past a deadline, nor, when stopped, one that was
\* silent (handover.Conns, Server.Serve), for any set of connections.
THEOREM DrainSoundHolds == DrainSpec => []DrainSound
<1>1. Draining => DrainSound
  <2> SUFFICES ASSUME Draining PROVE DrainSound
    OBVIOUS
  <2>1. CountsTrue
    BY Zenon DEF Draining, Counted, Opened, Unserved, CountsTrue
  <2>2. ClosesNoneUnderThePen
    BY Zenon DEF Draining, Pen, ClosesNoneUnderThePen
  <2>3. QED
    BY <2>1, <2>2, Zenon DEF DrainSound
<1>2. QED
  BY <1>1, DrainHolds, PTL

---------------------------------------------------------------------------
(* Recorded content *)

\* Sequences as the sets of their elements.
LEMMA SetOf ==
  ASSUME NEW S, NEW s \in Seq(S)
  PROVE  /\ ToSet(s) \subseteq S
         /\ \A x : x \in ToSet(s) <=> \E i \in 1..Len(s) : s[i] = x
BY DEF ToSet

LEMMA SetOfEmpty == ToSet(<<>>) = {} /\ Distinct(<<>>)
BY DEF ToSet, Distinct

LEMMA SetOfAppend ==
  ASSUME NEW S, NEW s \in Seq(S), NEW x \in S, x \notin ToSet(s), Distinct(s)
  PROVE  /\ Append(s, x) \in Seq(S) /\ Len(Append(s, x)) = Len(s) + 1
         /\ ToSet(Append(s, x)) = ToSet(s) \cup {x}
         /\ Distinct(Append(s, x))
<1> DEFINE all == Append(s, x)
<1>1. /\ all \in Seq(S) /\ Len(all) = Len(s) + 1 /\ Len(s) \in Nat
      /\ \A i \in 1..Len(s) : all[i] = s[i]
      /\ all[Len(s) + 1] = x
  BY AppendProperties
<1> HIDE DEF all
<1>2. \A i \in 1..Len(all) : i = Len(s) + 1 \/ i \in 1..Len(s)
  BY <1>1
<1>3. \A i \in 1..Len(s) : i \in 1..Len(all)
  BY <1>1
<1>4. Len(s) + 1 \in 1..Len(all)
  BY <1>1
<1>5. ASSUME NEW y PROVE y \in ToSet(all) <=> y \in ToSet(s) \cup {x}
  <2>1. y \in ToSet(all) <=> \E i \in 1..Len(all) : all[i] = y
    BY <1>1, SetOf
  <2>2. y \in ToSet(s) <=> \E i \in 1..Len(s) : s[i] = y
    BY SetOf
  <2>3. QED
    BY <1>1, <1>2, <1>3, <1>4, <2>1, <2>2
<1>6. Distinct(all)
  <2>1. \A i \in 1..Len(s) : s[i] # x
    BY SetOf
  <2>2. QED
    BY <1>1, <1>2, <2>1 DEF Distinct
<1>7. QED
  BY <1>1, <1>5, <1>6 DEF all

LEMMA SetOfTail ==
  ASSUME NEW S, NEW s \in Seq(S), s # <<>>, Distinct(s)
  PROVE  /\ Tail(s) \in Seq(S) /\ Len(Tail(s)) = Len(s) - 1
         /\ ToSet(Tail(s)) \subseteq ToSet(s)
         /\ Distinct(Tail(s))
         /\ Head(s) \in ToSet(s) /\ Head(s) \in S /\ Head(s) \notin ToSet(Tail(s))
<1> DEFINE rest == Tail(s)
<1>1. /\ rest \in Seq(S) /\ Len(rest) = Len(s) - 1 /\ Head(s) = s[1] /\ Head(s) \in S
      /\ \A i \in 1..Len(rest) : rest[i] = s[i + 1]
      /\ Len(s) \in Nat \ {0}
  BY HeadTailProperties, EmptySeq
<1> HIDE DEF rest
<1>2. \A i \in 1..Len(rest) : i + 1 \in 1..Len(s) /\ i + 1 # 1
  BY <1>1
<1>3. 1 \in 1..Len(s)
  BY <1>1
<1>4. /\ \A x : x \in ToSet(rest) <=> \E i \in 1..Len(rest) : rest[i] = x
      /\ \A x : x \in ToSet(s) <=> \E i \in 1..Len(s) : s[i] = x
  BY <1>1, SetOf
<1>5. ToSet(rest) \subseteq ToSet(s)
  BY <1>1, <1>2, <1>4
<1>6. Head(s) \in ToSet(s)
  BY <1>1, <1>3, <1>4
<1>7. Head(s) \notin ToSet(rest)
  BY <1>1, <1>2, <1>3, <1>4 DEF Distinct
<1>8. Distinct(rest)
  <2> SUFFICES ASSUME NEW i \in 1..Len(rest), NEW j \in 1..Len(rest), rest[i] = rest[j]
               PROVE  i = j
    BY DEF Distinct
  <2>1. i + 1 = j + 1
    BY <1>1, <1>2 DEF Distinct
  <2>2. QED
    BY <1>1, <2>1
<1>9. QED
  BY <1>1, <1>5, <1>6, <1>7, <1>8 DEF rest

\* A sequence without repetition is as long as its set is large.
LEMMA SetOfCounts ==
  ASSUME NEW S, NEW s \in Seq(S), Distinct(s)
  PROVE  Cardinality(ToSet(s)) = Len(s)
<1>1. Len(s) \in Nat /\ s \in [1..Len(s) -> S]
  BY LenProperties
<1>2. \A x : x \in ToSet(s) <=> \E i \in 1..Len(s) : s[i] = x
  BY SetOf
<1>3. s \in Bijection(1..Len(s), ToSet(s))
  <2>1. s \in [1..Len(s) -> ToSet(s)]
    BY <1>1, <1>2
  <2>2. QED
    BY <1>2, <2>1 DEF Distinct, Bijection, Injection, Surjection, IsInjective
<1>4. QED
  BY <1>1, <1>3, FS_CountingElements DEF ExistsBijection

\* What is left of what is held once a clear has gone over it.
LEMMA HeldLoops ==
  ASSUME inMemory \in Seq(Exchange), NEW cs
  PROVE  \E f : /\ Loop(inMemory, {x \in Exchange : ClientOf[x] \notin cs}, f)
               /\ HeldBut(cs) = f[Len(inMemory)]
<1> DEFINE xs == {x \in Exchange : ClientOf[x] \notin cs}
<1> DEFINE Body(f) == [n \in 0..Len(inMemory) |->
             IF n = 0 THEN <<>>
             ELSE IF ClientOf[inMemory[n]] \notin cs THEN Append(f[n - 1], inMemory[n])
             ELSE f[n - 1]]
<1>0. Len(inMemory) \in Nat
  OBVIOUS
<1>1. ASSUME NEW f PROVE Loop(inMemory, xs, f) <=> f = Body(f)
  <2>1. \A n \in 1..Len(inMemory) : inMemory[n] \in xs <=> ClientOf[inMemory[n]] \notin cs
    OBVIOUS
  <2>2. ASSUME NEW n \in 0..Len(inMemory)
        PROVE  Body(f)[n] = (IF n = 0 THEN <<>> ELSE Further(inMemory, xs, f[n - 1], n))
    <3>1. CASE n = 0
      BY <3>1
    <3>2. CASE n # 0
      <4>1. n \in 1..Len(inMemory)
        BY <1>0, <3>2
      <4>2. inMemory[n] \in xs <=> ClientOf[inMemory[n]] \notin cs
        BY <2>1, <4>1
      <4>3. QED
        BY <3>2, <4>2, Zenon DEF Further
    <3>3. QED
      BY <3>1, <3>2
  <2>3. Body(f) = [n \in 0..Len(inMemory) |->
                     IF n = 0 THEN <<>> ELSE Further(inMemory, xs, f[n - 1], n)]
    <3>1. Body(f) = [n \in 0..Len(inMemory) |-> Body(f)[n]]
      OBVIOUS
    <3> HIDE DEF Body, xs
    <3>2. QED
      BY <2>2, <3>1
  <2> HIDE DEF Body, xs
  <2>4. QED
    BY <2>3 DEF Loop
<1>2. \E f : Loop(inMemory, xs, f)
  BY LoopRuns
<1>3. \E f : f = Body(f)
  BY <1>1, <1>2
<1> DEFINE kept == CHOOSE f : f = Body(f)
<1>4. kept = Body(kept)
  BY <1>3
<1>5. HeldBut(cs) = kept[Len(inMemory)]
  BY DEF HeldBut
<1> HIDE DEF Body, xs, kept
<1>6. Loop(inMemory, xs, kept)
  BY <1>1, <1>4
<1>7. QED
  BY <1>5, <1>6 DEF xs

LEMMA HeldAreKept ==
  ASSUME inMemory \in Seq(Exchange), Distinct(inMemory), NEW cs
  PROVE  /\ HeldBut(cs) \in Seq(Exchange) /\ Distinct(HeldBut(cs))
         /\ Len(HeldBut(cs)) <= Len(inMemory)
         /\ \A x \in ToSet(HeldBut(cs)) : x \in ToSet(inMemory) /\ ClientOf[x] \notin cs
<1> DEFINE xs == {x \in Exchange : ClientOf[x] \notin cs}
<1> DEFINE left == HeldBut(cs)
<1>1. Picks(Exchange, inMemory, xs, left, Len(inMemory))
  BY HeldLoops, LoopPicks
<1> HIDE DEF left
<1>2. /\ left \in Seq(Exchange) /\ Len(left) <= Len(inMemory) /\ Distinct(left)
      /\ \A j \in 1..Len(left) : \E i \in 1..Len(inMemory) : left[j] = inMemory[i] /\ inMemory[i] \in xs
  BY <1>1 DEF Picks
<1>3. \A x : x \in ToSet(left) <=> \E i \in 1..Len(left) : left[i] = x
  BY <1>2, SetOf
<1>4. \A x : x \in ToSet(inMemory) <=> \E i \in 1..Len(inMemory) : inMemory[i] = x
  BY SetOf
<1>5. \A x \in ToSet(left) : x \in ToSet(inMemory) /\ ClientOf[x] \notin cs
  BY <1>2, <1>3, <1>4
<1>6. QED
  BY <1>2, <1>5 DEF left

\* The references of what is stored.
RefsOf(xs) == UNION {{x} \X ChunksOf[x] : x \in xs}

LEMMA RefsAre ==
  ASSUME NEW xs
  PROVE  \A r : r \in RefsOf(xs) <=> \E x \in xs : \E h \in ChunksOf[x] : r = <<x, h>>
BY DEF RefsOf

LEMMA RefsGrow ==
  ASSUME NEW xs, NEW x
  PROVE  RefsOf(xs \cup {x}) = RefsOf(xs) \cup ({x} \X ChunksOf[x])
<1>1. \A r : r \in {x} \X ChunksOf[x] <=> \E h \in ChunksOf[x] : r = <<x, h>>
  OBVIOUS
<1>2. \A r : r \in RefsOf(xs \cup {x}) <=> r \in RefsOf(xs) \cup ({x} \X ChunksOf[x])
  BY <1>1, RefsAre
<1>3. QED
  BY <1>2

LEMMA RefsDrop ==
  ASSUME NEW xs, NEW of
  PROVE  {r \in RefsOf(xs) : r[1] \notin of} = RefsOf(xs \ of)
<1>1. \A x, h : <<x, h>>[1] = x
  OBVIOUS
<1>2. \A r : (r \in RefsOf(xs) /\ r[1] \notin of) <=> r \in RefsOf(xs \ of)
  BY <1>1, RefsAre
<1>3. QED
  BY <1>2

Chunk  == UNION {ChunksOf[x] : x \in Exchange}
Held   == ToSet(inMemory)
Queued == ToSet(queue)
Going(x) == putting.pc = "put" /\ putting.x = x

RecTypes ==
  /\ stage \in [Exchange -> {"none", "running", "filed", "over"}]
  /\ inMemory \in Seq(Exchange) /\ Distinct(inMemory)
  /\ used = Len(inMemory) /\ used <= MemBudget
  /\ queue \in Seq(Exchange) /\ Distinct(queue)
  /\ putting.pc = "put" => putting.x \in Exchange
  /\ stored \subseteq Exchange /\ logged \subseteq Exchange /\ cleared \subseteq Exchange
  /\ swept = [x \in Exchange |-> swept[x]]

\* An exchange is on its way to the file from one place at most, once it is
\* over and has its row; and what was cleared is nowhere.
Place(x) ==
  /\ stage[x] # "over" => (x \notin Queued /\ ~Going(x) /\ x \notin stored)
  /\ x \in Queued => (~Going(x) /\ x \notin stored)
  /\ Going(x) => x \notin stored
  /\ x \in Held => stage[x] \in {"filed", "over"}
  /\ (x \in Queued \/ Going(x) \/ x \in stored) => x \in logged
  /\ x \in cleared => /\ stage[x] = "over" /\ x \notin Held /\ x \notin Queued
                      /\ ~Going(x) /\ x \notin stored

\* The chunks of what is stored, and of what is about to be, are there or
\* were swept away since the writer asked.
Chunked ==
  /\ refs = RefsOf(stored)
  /\ \A x \in stored : ChunksOf[x] \subseteq chunks \cup swept[x]
  /\ \A x \in Exchange : Going(x) => ChunksOf[x] \subseteq putting.missing \cup chunks \cup swept[x]

Recorded == RecTypes /\ (\A x \in Exchange : Place(x)) /\ Chunked

\* A step that touches neither memory, queue, writer nor file.
LEMMA RecordedAlone ==
  ASSUME Recorded, UNCHANGED <<stage, logged, memoryVars, queue, putting, fileVars, cleared, swept>>
  PROVE  Recorded'
<1>1. UNCHANGED <<stage, logged, inMemory, used, queue, putting, stored, refs, chunks, cleared, swept>>
  BY DEF memoryVars, fileVars
<1>2. RecTypes'
  BY <1>1 DEF Recorded, RecTypes, Distinct
<1>3. \A x \in Exchange : Place(x)'
  BY <1>1 DEF Recorded, Place, Going, Held, Queued
<1>4. Chunked'
  BY <1>1 DEF Recorded, Chunked, Going, RefsOf
<1>5. QED
  BY <1>2, <1>3, <1>4 DEF Recorded

\* So is the file left alone, and what the writer puts in it.
LEMMA ChunkedAlone ==
  ASSUME Recorded, UNCHANGED <<putting, stored, refs, chunks, swept>>
  PROVE  Chunked'
BY DEF Recorded, Chunked, Going, RefsOf

LEMMA BeginRecorded ==
  ASSUME Recorded, NEW x \in Exchange, BeginExchange(x) \/ Logged(x)
  PROVE  Recorded'
<1>1. UNCHANGED <<inMemory, used, queue, putting, stored, refs, chunks, cleared, swept>>
  BY DEF BeginExchange, Logged, memoryVars, fileVars
<1>2. /\ logged \subseteq logged' /\ logged' \subseteq logged \cup {x}
      /\ \/ stage' = stage
         \/ stage[x] = "none" /\ stage' = [stage EXCEPT ![x] = "running"]
  BY DEF BeginExchange, Logged
<1>3. RecTypes'
  BY <1>1, <1>2 DEF Recorded, RecTypes, Distinct
<1>4. ASSUME NEW y \in Exchange PROVE Place(y)'
  <2>1. stage'[y] = stage[y] \/ (stage[y] = "none" /\ stage'[y] = "running")
    BY <1>2 DEF Recorded, RecTypes
  <2>2. (y \in Held' <=> y \in Held) /\ (y \in Queued' <=> y \in Queued) /\ (Going(y)' <=> Going(y))
    BY <1>1 DEF Held, Queued, Going
  <2>3. Place(y)
    BY DEF Recorded
  <2>4. QED
    BY <1>1, <1>2, <2>1, <2>2, <2>3 DEF Place
<1>5. QED
  BY <1>1, <1>3, <1>4, ChunkedAlone DEF Recorded

LEMMA CommitRecorded ==
  ASSUME Recorded, NEW x \in Exchange, Commit(x)
  PROVE  Recorded'
<1> DEFINE all == Append(inMemory, x)
<1>1. /\ stage[x] = "running" /\ stage' = [stage EXCEPT ![x] = "filed"]
      /\ inMemory' = (IF used + 1 > MemBudget /\ Len(all) > 1 THEN Tail(all) ELSE all)
      /\ used' = Len(inMemory')
      /\ UNCHANGED <<logged, queue, putting, stored, refs, chunks, cleared, swept>>
  BY DEF Commit, fileVars
<1>2. /\ inMemory \in Seq(Exchange) /\ Distinct(inMemory) /\ used = Len(inMemory)
      /\ used <= MemBudget /\ Len(inMemory) \in Nat /\ MemBudget \in Nat \ {0}
  BY BudgetsArePositive DEF Recorded, RecTypes
<1>3. x \notin Held /\ x \notin cleared
  BY <1>1 DEF Recorded, Place
<1>4. /\ all \in Seq(Exchange) /\ Len(all) = Len(inMemory) + 1
      /\ ToSet(all) = Held \cup {x} /\ Distinct(all)
  BY <1>2, <1>3, SetOfAppend DEF Held
<1> HIDE DEF all
<1>5. /\ inMemory' \in Seq(Exchange) /\ Distinct(inMemory') /\ used' <= MemBudget
      /\ Held' \subseteq Held \cup {x}
  <2>1. CASE used + 1 > MemBudget /\ Len(all) > 1
    <3>1. all # <<>>
      BY <2>1, EmptySeq
    <3>2. inMemory' = Tail(all)
      BY <1>1, <2>1
    <3>3. /\ Tail(all) \in Seq(Exchange) /\ Len(Tail(all)) = Len(all) - 1
          /\ ToSet(Tail(all)) \subseteq ToSet(all) /\ Distinct(Tail(all))
      BY <1>4, <3>1, SetOfTail
    <3>4. QED
      BY <1>1, <1>2, <1>4, <3>2, <3>3 DEF Held
  <2>2. CASE ~(used + 1 > MemBudget /\ Len(all) > 1)
    <3>1. inMemory' = all
      BY <1>1, <2>2
    <3>2. Len(all) <= MemBudget
      BY <1>2, <1>4, <2>2
    <3>3. QED
      BY <1>1, <1>4, <3>1, <3>2 DEF Held
  <2>3. QED
    BY <2>1, <2>2
<1>6. RecTypes'
  <2>1. stage' \in [Exchange -> {"none", "running", "filed", "over"}]
    BY <1>1 DEF Recorded, RecTypes
  <2>2. QED
    BY <1>1, <1>5, <2>1 DEF Recorded, RecTypes, Distinct
<1>7. ASSUME NEW y \in Exchange PROVE Place(y)'
  <2>1. stage'[y] = IF y = x THEN "filed" ELSE stage[y]
    BY <1>1 DEF Recorded, RecTypes
  <2>2. (y \in Queued' <=> y \in Queued) /\ (Going(y)' <=> Going(y))
    BY <1>1 DEF Queued, Going
  <2>3. Place(y) /\ Place(x)
    BY DEF Recorded
  <2>4. QED
    BY <1>1, <1>3, <1>5, <2>1, <2>2, <2>3 DEF Place
<1>8. QED
  BY <1>1, <1>6, <1>7, ChunkedAlone DEF Recorded

LEMMA OfferRecorded ==
  ASSUME Recorded, NEW x \in Exchange, Offer(x)
  PROVE  Recorded'
<1>1. /\ stage[x] = "filed" /\ stage' = [stage EXCEPT ![x] = "over"]
      /\ queue' = queue \/ (x \in logged /\ queue' = Append(queue, x))
      /\ UNCHANGED <<logged, inMemory, used, putting, stored, refs, chunks, cleared, swept>>
  BY Zenon DEF Offer, fileVars, memoryVars
<1>2. queue \in Seq(Exchange) /\ Distinct(queue)
  BY DEF Recorded, RecTypes
<1>3. x \notin Queued /\ ~Going(x) /\ x \notin stored /\ x \notin cleared
  BY <1>1 DEF Recorded, Place
<1>4. /\ queue' \in Seq(Exchange) /\ Distinct(queue')
      /\ Queued' = Queued \/ (x \in logged /\ Queued' = Queued \cup {x})
  <2>1. CASE queue' = queue
    BY <1>2, <2>1 DEF Queued
  <2>2. CASE x \in logged /\ queue' = Append(queue, x)
    <3>1. /\ Append(queue, x) \in Seq(Exchange) /\ Distinct(Append(queue, x))
          /\ ToSet(Append(queue, x)) = Queued \cup {x}
      BY <1>2, <1>3, SetOfAppend DEF Queued
    <3>2. QED
      BY <2>2, <3>1, Zenon DEF Queued
  <2>3. QED
    BY <1>1, <2>1, <2>2
<1>5. RecTypes'
  <2>1. stage' \in [Exchange -> {"none", "running", "filed", "over"}]
    BY <1>1 DEF Recorded, RecTypes
  <2>2. QED
    BY <1>1, <1>4, <2>1 DEF Recorded, RecTypes, Distinct
<1>6. ASSUME NEW y \in Exchange PROVE Place(y)'
  <2>1. stage'[y] = IF y = x THEN "over" ELSE stage[y]
    BY <1>1 DEF Recorded, RecTypes
  <2>2. (y \in Held' <=> y \in Held) /\ (Going(y)' <=> Going(y))
    BY <1>1 DEF Held, Going
  <2>3. Place(y)
    BY DEF Recorded
  <2>4. QED
    BY <1>1, <1>3, <1>4, <2>1, <2>2, <2>3 DEF Place
<1>7. QED
  BY <1>1, <1>5, <1>6, ChunkedAlone DEF Recorded

LEMMA FindRecorded ==
  ASSUME Recorded, FindMissing
  PROVE  Recorded'
<1> DEFINE x == Head(queue)
<1>1. /\ putting.pc = "idle" /\ queue # <<>> /\ queue' = Tail(queue)
      /\ UNCHANGED <<stage, logged, inMemory, used, stored, refs, chunks, cleared>>
  BY DEF FindMissing, memoryVars, fileVars
<1>2. \/ putting' = [pc |-> "put", x |-> x, missing |-> ChunksOf[x] \ chunks] /\ swept' = [swept EXCEPT ![x] = {}]
      \/ putting' = putting /\ swept' = swept
  BY DEF FindMissing
<1>3. queue \in Seq(Exchange) /\ Distinct(queue)
  BY DEF Recorded, RecTypes
<1>4. /\ queue' \in Seq(Exchange) /\ Distinct(queue') /\ Queued' \subseteq Queued
      /\ x \in Queued /\ x \in Exchange /\ x \notin Queued'
  BY <1>1, <1>3, SetOfTail DEF Queued
<1> HIDE DEF x
<1>5. stage[x] = "over" /\ x \notin stored /\ x \in logged /\ x \notin cleared
  BY <1>4 DEF Recorded, Place
<1>6. \A y : Going(y)' => y = x
  BY <1>1, <1>2 DEF Going
<1>7. RecTypes'
  <2>1. putting'.pc = "put" => putting'.x \in Exchange
    BY <1>2, <1>1, <1>4
  <2>2. swept' = [y \in Exchange |-> swept'[y]]
    BY <1>2 DEF Recorded, RecTypes
  <2>3. QED
    BY <1>1, <1>4, <2>1, <2>2 DEF Recorded, RecTypes, Distinct
<1>8. ASSUME NEW y \in Exchange PROVE Place(y)'
  <2>1. y \in Held' <=> y \in Held
    BY <1>1 DEF Held
  <2>2. Place(y)
    BY DEF Recorded
  <2>3. QED
    BY <1>1, <1>4, <1>5, <1>6, <2>1, <2>2 DEF Place
<1>9. Chunked'
  <2>1. refs' = RefsOf(stored')
    BY <1>1 DEF Recorded, Chunked, RefsOf
  <2>2. ASSUME NEW y \in stored' PROVE ChunksOf[y] \subseteq chunks' \cup swept'[y]
    <3>1. y \in stored /\ y \in Exchange /\ y # x
      BY <1>1, <1>5, <2>2 DEF Recorded, RecTypes
    <3>2. swept'[y] = swept[y]
      BY <1>2, <3>1 DEF Recorded, RecTypes
    <3>3. QED
      BY <1>1, <3>1, <3>2 DEF Recorded, Chunked
  <2>3. ASSUME NEW y \in Exchange, Going(y)'
        PROVE  ChunksOf[y] \subseteq putting'.missing \cup chunks' \cup swept'[y]
    <3>1. y = x /\ putting'.missing = ChunksOf[x] \ chunks
      BY <1>1, <1>2, <1>6, <2>3 DEF Going
    <3>2. QED
      BY <1>1, <3>1
  <2>4. QED
    BY <2>1, <2>2, <2>3 DEF Chunked
<1>10. QED
  BY <1>7, <1>8, <1>9 DEF Recorded

LEMMA PutRecorded ==
  ASSUME Recorded, PutExchange
  PROVE  Recorded'
<1> DEFINE x == putting.x
<1>1. /\ putting.pc = "put" /\ putting' = NoWrite
      /\ chunks' = chunks \cup putting.missing /\ stored' = stored \cup {x}
      /\ refs' = refs \cup ({x} \X ChunksOf[x])
      /\ UNCHANGED <<stage, logged, inMemory, used, queue, cleared, swept>>
  BY DEF PutExchange, memoryVars
<1>2. x \in Exchange /\ Going(x)
  BY <1>1 DEF Recorded, RecTypes, Going
<1> HIDE DEF x
<1>3. stage[x] = "over" /\ x \notin Queued /\ x \in logged /\ x \notin cleared
  BY <1>2 DEF Recorded, Place
<1>4. \A y : ~Going(y)'
  BY <1>1 DEF Going, NoWrite
<1>5. RecTypes'
  BY <1>1, <1>2 DEF Recorded, RecTypes, NoWrite, Distinct
<1>6. ASSUME NEW y \in Exchange PROVE Place(y)'
  <2>1. (y \in Held' <=> y \in Held) /\ (y \in Queued' <=> y \in Queued)
    BY <1>1 DEF Held, Queued
  <2>2. Place(y)
    BY DEF Recorded
  <2>3. QED
    BY <1>1, <1>3, <1>4, <2>1, <2>2 DEF Place
<1>7. Chunked'
  <2>1. refs' = RefsOf(stored')
    BY <1>1, RefsGrow DEF Recorded, Chunked
  <2>2. ASSUME NEW y \in stored' PROVE ChunksOf[y] \subseteq chunks' \cup swept'[y]
    <3>1. CASE y = x
      <4>1. ChunksOf[x] \subseteq putting.missing \cup chunks \cup swept[x]
        BY <1>2 DEF Recorded, Chunked
      <4>2. QED
        BY <1>1, <3>1, <4>1
    <3>2. CASE y \in stored
      <4>1. ChunksOf[y] \subseteq chunks \cup swept[y]
        BY <3>2 DEF Recorded, Chunked
      <4>2. QED
        BY <1>1, <4>1
    <3>3. QED
      BY <1>1, <2>2, <3>1, <3>2
  <2>3. QED
    BY <1>4, <2>1, <2>2 DEF Chunked
<1>8. QED
  BY <1>5, <1>6, <1>7 DEF Recorded

LEMMA PutFailsRecorded ==
  ASSUME Recorded, PutFails
  PROVE  Recorded'
<1>1. /\ putting' = NoWrite
      /\ UNCHANGED <<stage, logged, inMemory, used, queue, stored, refs, chunks, cleared, swept>>
  BY DEF PutFails, memoryVars, fileVars
<1>2. \A y : ~Going(y)'
  BY <1>1 DEF Going, NoWrite
<1>3. RecTypes'
  BY <1>1 DEF Recorded, RecTypes, NoWrite, Distinct
<1>4. ASSUME NEW y \in Exchange PROVE Place(y)'
  <2>1. (y \in Held' <=> y \in Held) /\ (y \in Queued' <=> y \in Queued)
    BY <1>1 DEF Held, Queued
  <2>2. Place(y)
    BY DEF Recorded
  <2>3. QED
    BY <1>1, <1>2, <2>1, <2>2 DEF Place
<1>5. Chunked'
  BY <1>1, <1>2 DEF Recorded, Chunked, RefsOf
<1>6. QED
  BY <1>3, <1>4, <1>5 DEF Recorded

LEMMA RestartRecorded ==
  ASSUME Recorded, NEW sameKey \in BOOLEAN, RestartRecorder(sameKey)
  PROVE  Recorded'
<1>1. /\ inMemory' = <<>> /\ used' = 0 /\ queue' = <<>> /\ putting' = NoWrite
      /\ stage' = [x \in Exchange |-> IF stage[x] = "none" THEN "none" ELSE "over"]
      /\ UNCHANGED <<logged, cleared, swept>>
  BY DEF RestartRecorder
<1>2. \/ stored' = stored /\ refs' = refs /\ chunks' = chunks
      \/ stored' = {} /\ refs' = {} /\ chunks' = {}
  BY Zenon DEF RestartRecorder, fileVars
<1>3. \A y : ~Going(y)' /\ y \notin Held' /\ y \notin Queued'
  BY <1>1, SetOfEmpty DEF Going, NoWrite, Held, Queued
<1>4. RecTypes'
  <2>1. inMemory' \in Seq(Exchange) /\ Distinct(inMemory') /\ used' = Len(inMemory')
        /\ queue' \in Seq(Exchange) /\ Distinct(queue')
    BY <1>1, EmptySeq, SetOfEmpty
  <2>2. used' <= MemBudget
    BY <1>1, BudgetsArePositive
  <2>3. QED
    BY <1>1, <1>2, <2>1, <2>2 DEF Recorded, RecTypes, NoWrite, Distinct
<1>5. ASSUME NEW y \in Exchange PROVE Place(y)'
  <2>1. stage'[y] = IF stage[y] = "none" THEN "none" ELSE "over"
    BY <1>1
  <2>2. Place(y)
    BY DEF Recorded
  <2>3. QED
    BY <1>1, <1>2, <1>3, <2>1, <2>2 DEF Place
<1>6. Chunked'
  <2>1. RefsOf({}) = {}
    BY DEF RefsOf
  <2>2. QED
    BY <1>1, <1>2, <1>3, <2>1 DEF Recorded, Chunked, RefsOf
<1>7. QED
  BY <1>4, <1>5, <1>6 DEF Recorded

LEMMA ClearRecorded ==
  ASSUME Recorded, NEW cs, ClearHeld(cs)
  PROVE  Recorded'
<1>1. /\ inMemory' = HeldBut(cs) /\ used' = Len(inMemory')
      /\ cleared' = cleared \cup ((Held \cap OfClients(cs)) \ (OnItsWay \cup stored))
      /\ UNCHANGED <<stage, logged, queue, putting, stored, refs, chunks, swept>>
  BY DEF ClearHeld, Held, fileVars
<1>2. /\ inMemory \in Seq(Exchange) /\ Distinct(inMemory)
      /\ Len(inMemory) <= MemBudget /\ Len(inMemory) \in Nat /\ MemBudget \in Nat
  BY BudgetsArePositive DEF Recorded, RecTypes
<1>3. /\ HeldBut(cs) \in Seq(Exchange) /\ Distinct(HeldBut(cs))
      /\ Len(HeldBut(cs)) <= Len(inMemory)
      /\ \A x \in ToSet(HeldBut(cs)) : x \in ToSet(inMemory) /\ ClientOf[x] \notin cs
  BY <1>2, HeldAreKept
<1>4. /\ inMemory' \in Seq(Exchange) /\ Distinct(inMemory') /\ used' <= MemBudget
      /\ \A x \in Held' : x \in Held /\ ClientOf[x] \notin cs
  <2>1. Len(HeldBut(cs)) \in Nat
    BY <1>3, LenProperties
  <2>2. QED
    BY <1>1, <1>2, <1>3, <2>1 DEF Held
<1>5. RecTypes'
  <2>1. cleared' \subseteq Exchange
    BY <1>1 DEF Recorded, RecTypes, OfClients
  <2>2. QED
    BY <1>1, <1>4, <2>1 DEF Recorded, RecTypes, Distinct
<1>6. ASSUME NEW y \in Exchange PROVE Place(y)'
  <2>1. (y \in Queued' <=> y \in Queued) /\ (Going(y)' <=> Going(y))
    BY <1>1 DEF Queued, Going
  <2>2. Place(y)
    BY DEF Recorded
  <2>3. y \in cleared' =>
          \/ y \in cleared
          \/ /\ y \in Held /\ ClientOf[y] \in cs /\ stage[y] # "filed" /\ y \notin Queued
             /\ ~Going(y) /\ y \notin stored
    BY <1>1 DEF OfClients, OnItsWay, Queued, Going
  <2>4. QED
    BY <1>1, <1>4, <2>1, <2>2, <2>3 DEF Place
<1>7. QED
  BY <1>1, <1>5, <1>6, ChunkedAlone DEF Recorded

LEMMA DropRecorded ==
  ASSUME Recorded, NEW d \in Droppers, DropStored(d)
  PROVE  Recorded'
<1> DEFINE of == dropping[d].of
<1>1. /\ stored' = stored \ of /\ refs' = {r \in refs : r[1] \notin of}
      /\ UNCHANGED <<stage, logged, inMemory, used, queue, putting, chunks, swept>>
  BY DEF DropStored, memoryVars
<1>2. cleared \subseteq cleared' /\ cleared' \subseteq cleared \cup FileOnly(of)
  BY DEF DropStored
<1> HIDE DEF of
<1>3. RecTypes'
  <2>1. cleared' \subseteq Exchange
    BY <1>2 DEF Recorded, RecTypes, FileOnly
  <2>2. QED
    BY <1>1, <2>1 DEF Recorded, RecTypes, Distinct
<1>4. ASSUME NEW y \in Exchange PROVE Place(y)'
  <2>1. (y \in Queued' <=> y \in Queued) /\ (Going(y)' <=> Going(y)) /\ (y \in Held' <=> y \in Held)
    BY <1>1 DEF Queued, Going, Held
  <2>2. Place(y)
    BY DEF Recorded
  <2>3. y \in cleared' =>
          \/ y \in cleared
          \/ y \in stored /\ y \in of /\ y \notin Queued /\ ~Going(y) /\ y \notin Held
    BY <1>2 DEF FileOnly, OnItsWay, Queued, Going, Held
  <2>4. QED
    BY <1>1, <2>1, <2>2, <2>3 DEF Place
<1>5. Chunked'
  <2>1. refs' = RefsOf(stored')
    BY <1>1, RefsDrop DEF Recorded, Chunked
  <2>2. QED
    BY <1>1, <2>1 DEF Recorded, Chunked, Going
<1>6. QED
  BY <1>3, <1>4, <1>5 DEF Recorded

LEMMA SweepRecorded ==
  ASSUME Recorded, NEW d \in Droppers, SweepChunks(d)
  PROVE  Recorded'
<1>1. /\ chunks' = chunks \ Unreferred
      /\ UNCHANGED <<stage, logged, inMemory, used, queue, putting, stored, refs, cleared>>
  BY DEF SweepChunks, memoryVars
<1>2. swept' = IF putting.pc = "put" THEN [swept EXCEPT ![putting.x] = @ \cup Unreferred] ELSE swept
  BY DEF SweepChunks
<1>3. /\ swept' = [y \in Exchange |-> swept'[y]]
      /\ \A y \in Exchange : swept[y] \subseteq swept'[y]
      /\ \A y \in Exchange : Going(y) => swept'[y] = swept[y] \cup Unreferred
  BY <1>2 DEF Recorded, RecTypes, Going
<1>4. RecTypes'
  BY <1>1, <1>3 DEF Recorded, RecTypes, Distinct
<1>5. ASSUME NEW y \in Exchange PROVE Place(y)'
  BY <1>1 DEF Recorded, Place, Queued, Going, Held
<1>6. Chunked'
  <2>1. refs' = RefsOf(stored')
    BY <1>1 DEF Recorded, Chunked, RefsOf
  <2>2. ASSUME NEW y \in stored PROVE ChunksOf[y] \subseteq chunks' \cup swept'[y]
    <3>1. y \in Exchange /\ ChunksOf[y] \subseteq chunks \cup swept[y]
      BY DEF Recorded, RecTypes, Chunked
    <3>2. ASSUME NEW h \in ChunksOf[y] PROVE h \notin Unreferred
      <4>1. <<y, h>> \in refs
        BY RefsAre DEF Recorded, Chunked
      <4>2. QED
        BY <4>1 DEF Unreferred
    <3>3. QED
      BY <1>1, <1>3, <3>1, <3>2
  <2>3. ASSUME NEW y \in Exchange, Going(y)'
        PROVE  ChunksOf[y] \subseteq putting'.missing \cup chunks' \cup swept'[y]
    <3>1. Going(y)
      BY <1>1, <2>3 DEF Going
    <3>2. ChunksOf[y] \subseteq putting.missing \cup chunks \cup swept[y]
      BY <3>1 DEF Recorded, Chunked
    <3>3. QED
      BY <1>1, <1>3, <3>1, <3>2
  <2>4. QED
    BY <1>1, <2>1, <2>2, <2>3 DEF Chunked
<1>7. QED
  BY <1>4, <1>5, <1>6 DEF Recorded

LEMMA RecordedHolds == RecSpec => []Recorded
<1>1. RecInit => Recorded
  <2> SUFFICES ASSUME RecInit PROVE Recorded
    OBVIOUS
  <2>1. inMemory = <<>> /\ queue = <<>> /\ used = 0 /\ stored = {} /\ refs = {} /\ logged = {}
        /\ cleared = {} /\ putting = NoWrite
        /\ stage = [x \in Exchange |-> "none"] /\ swept = [x \in Exchange |-> {}]
    BY DEF RecInit
  <2>2. \A x : x \notin Held /\ x \notin Queued /\ ~Going(x)
    BY <2>1, SetOfEmpty DEF Held, Queued, Going, NoWrite
  <2>3. RecTypes
    <3>1. inMemory \in Seq(Exchange) /\ Distinct(inMemory) /\ used = Len(inMemory)
          /\ queue \in Seq(Exchange) /\ Distinct(queue)
      BY <2>1, EmptySeq, SetOfEmpty
    <3>2. used <= MemBudget
      BY <2>1, BudgetsArePositive
    <3>3. QED
      BY <2>1, <3>1, <3>2 DEF RecTypes, NoWrite
  <2>4. \A x \in Exchange : Place(x)
    BY <2>1, <2>2 DEF Place
  <2>5. Chunked
    BY <2>1, <2>2 DEF Chunked, RefsOf
  <2>6. QED
    BY <2>3, <2>4, <2>5 DEF Recorded
<1>2. ASSUME Recorded, [RecNext]_recVars PROVE Recorded'
  <2> USE <1>2
  <2>1. ASSUME NEW c \in Clients, RecordClient(c) \/ StopRecording(c) PROVE Recorded'
    BY <2>1, RecordedAlone DEF RecordClient, StopRecording
  <2>2. CASE CloseQueue
    BY <2>2, RecordedAlone DEF CloseQueue
  <2>3. ASSUME NEW xs \in SUBSET stored \ {{}}, BeginPrune(xs) PROVE Recorded'
    BY <2>3, RecordedAlone DEF BeginPrune
  <2>4. CASE UNCHANGED recVars
    BY <2>4, RecordedAlone DEF recVars
  <2>5. QED
    BY <2>1, <2>2, <2>3, <2>4, BeginRecorded, CommitRecorded, OfferRecorded, FindRecorded,
       PutRecorded, PutFailsRecorded, RestartRecorded, ClearRecorded, DropRecorded,
       SweepRecorded, Zenon DEF RecNext
<1>3. QED
  BY <1>1, <1>2, PTL DEF RecSpec

\* A recording is stored with its chunks and its references, but for what a
\* sweep deletes under the writer; memory keeps each exchange once, within its
\* budget; and what an operator cleared is neither held nor stored again
\* (service/capture, store/recordings), for any exchanges, clients, chunks and
\* budgets.
THEOREM RecordingsSoundHolds == RecSpec => []RecordingsSound
<1>1. Recorded => RecordingsSound
  <2> SUFFICES ASSUME Recorded PROVE RecordingsSound
    OBVIOUS
  <2>1. FileSound
    BY DEF Recorded, Chunked, RefsOf, FileSound
  <2>2. Held \subseteq Exchange /\ Queued \subseteq Exchange /\ stored \subseteq Exchange
        /\ cleared \subseteq Exchange
    BY SetOf DEF Recorded, RecTypes, Held, Queued
  <2>3. Cardinality(ToSet(inMemory)) = Len(inMemory)
    BY SetOfCounts DEF Recorded, RecTypes
  <2>4. /\ used = Len(inMemory) /\ used <= MemBudget
        /\ \A x \in ToSet(inMemory) : stage[x] \in {"filed", "over"}
        /\ stored \cup ToSet(queue) \subseteq logged
    BY <2>2 DEF Recorded, RecTypes, Place, Held, Queued
  <2>5. cleared \cap (ToSet(inMemory) \cup stored) = {}
    BY <2>2 DEF Recorded, Place, Held
  <2>6. QED
    BY <2>1, <2>3, <2>4, <2>5 DEF RecordingsSound, HeldSound, StaysCleared
<1>2. QED
  BY <1>1, RecordedHolds, PTL

---------------------------------------------------------------------------
(* What the accounts list *)

\* Whatever is being read is read of accounts there may be, and the four parts
\* of what is remembered are there.
ListsTypes ==
  /\ on \subseteq Subscription
  /\ DOMAIN reads = Procs
  /\ \A r \in Procs : /\ DOMAIN reads[r] = {"pc", "kind", "all", "on", "waits", "got"}
                      /\ reads[r].on \subseteq Subscription
  /\ DOMAIN memo = {"served", "listed", "byAccount", "connected", "unread"}
  /\ DOMAIN memo.served = Providers /\ DOMAIN memo.listed = Providers
  /\ DOMAIN memo.byAccount = Subscription

\* A provider nothing is routed to has nothing listed.
ListedIsServed == \A p \in Providers : memo.served[p] = {} => memo.listed[p] = {}

ListsStand == ListsTypes /\ RoutesAreListed /\ ListedIsServed

LEMMA ListsBegin == ListsInit => ListsStand
<1> SUFFICES ASSUME ListsInit PROVE ListsStand
  OBVIOUS
<1>1. on \subseteq Subscription /\ reads = [r \in Procs |-> NoRead]
  BY DEF ListsInit
<1>2. memo = [served |-> [p \in Providers |-> {}], listed |-> [p \in Providers |-> {}],
              byAccount |-> [a \in Subscription |-> NoList], connected |-> {}, unread |-> {}]
  BY DEF ListsInit
<1>3. ListsTypes
  BY <1>1, <1>2 DEF ListsTypes, NoRead
<1>4. RoutesAreListed
  BY <1>2 DEF RoutesAreListed
<1>5. ListedIsServed
  BY <1>2 DEF ListedIsServed
<1>6. QED
  BY <1>3, <1>4, <1>5 DEF ListsStand

\* A read that begins is of the accounts as they are.
LEMMA ReadBegins ==
  ASSUME ListsTypes, NEW kind
  PROVE  /\ DOMAIN BeginRead(kind) = {"pc", "kind", "all", "on", "waits", "got"}
         /\ BeginRead(kind).on \subseteq Subscription
         /\ BeginRead(kind).pc = "reading"
BY DEF BeginRead, ListsTypes

---------------------------------------------------------------------------
(* What is remembered *)

\* What stands for the accounts read, and what it makes of what is remembered.
LEMMA RemembersListed ==
  ASSUME ListsStand, NEW stands, DOMAIN stands \subseteq Subscription, NEW m, m = Remembered(stands)
  PROVE  /\ DOMAIN m = {"served", "listed", "byAccount", "connected", "unread"}
         /\ DOMAIN m.served = Providers /\ DOMAIN m.listed = Providers
         /\ DOMAIN m.byAccount = Subscription
         /\ \A p \in Providers :
              \/ m.served[p] \subseteq UNION {UNION m.byAccount[a] : a \in {x \in Subscription : Serving[x] = p}}
              \/ p = DefaultProvider /\ m.listed[p] = {} /\ m.served[p] = Catalogue
         /\ \A p \in Providers : m.served[p] = {} => m.listed[p] = {}
         /\ \A a \in DOMAIN stands : stands[a] # NoList =>
              m.byAccount[a] = stands[a] /\ UNION stands[a] \subseteq m.listed[Serving[a]]
<1> DEFINE union(p) == IF Had(stands, p) # {} THEN UNION UNION {stands[a] : a \in Had(stands, p)} ELSE {}
           conn == {Serving[a] : a \in DOMAIN stands}
           unread == {p \in conn : Had(stands, p) = {}}
           part(p) == IF p \in NoneToAsk(stands) THEN Catalogue ELSE union(p)
<1>0. /\ DOMAIN memo = {"served", "listed", "byAccount", "connected", "unread"}
      /\ DOMAIN memo.served = Providers /\ DOMAIN memo.listed = Providers
      /\ DOMAIN memo.byAccount = Subscription
      /\ \A p \in Providers :
           \/ memo.served[p] \subseteq UNION {UNION memo.byAccount[a] : a \in {x \in Subscription : Serving[x] = p}}
           \/ p = DefaultProvider /\ memo.listed[p] = {} /\ memo.served[p] = Catalogue
      /\ \A p \in Providers : memo.served[p] = {} => memo.listed[p] = {}
  BY DEF ListsStand, ListsTypes, RoutesAreListed, ListedBy, ListedIsServed
<1>1. CASE ~ReadAny(stands)
  <2>1. m = [memo EXCEPT !.connected = conn, !.unread = unread]
    BY <1>1 DEF Remembered
  <2>2. \A a \in DOMAIN stands : stands[a] = NoList
    BY <1>1 DEF ReadAny
  <2>3. /\ DOMAIN m = DOMAIN memo
        /\ m.served = memo.served /\ m.listed = memo.listed /\ m.byAccount = memo.byAccount
    <3> HIDE DEF conn, unread
    <3>1. QED
      BY <1>0, <2>1
  <2>4. QED
    BY <1>0, <2>2, <2>3
<1>2. CASE ReadAny(stands)
  <2>1. m = [served |-> [p \in Providers |->
                          IF p \in unread /\ memo.served[p] # {} THEN memo.served[p] ELSE part(p)],
             listed |-> [p \in Providers |->
                          IF p \in unread /\ memo.listed[p] # {} THEN memo.listed[p] ELSE union(p)],
             byAccount |-> ByAccount(stands), connected |-> conn, unread |-> unread]
    BY <1>2 DEF Remembered
  <2>2. /\ DOMAIN m = {"served", "listed", "byAccount", "connected", "unread"}
        /\ m.served = [p \in Providers |->
                         IF p \in unread /\ memo.served[p] # {} THEN memo.served[p] ELSE part(p)]
        /\ m.listed = [p \in Providers |->
                         IF p \in unread /\ memo.listed[p] # {} THEN memo.listed[p] ELSE union(p)]
        /\ m.byAccount = [a \in Subscription |->
                            IF a \in DOMAIN stands /\ stands[a] # NoList THEN stands[a] ELSE memo.byAccount[a]]
    BY <2>1 DEF ByAccount
  <2>3. ASSUME NEW p \in Providers
        PROVE  \/ m.served[p] \subseteq UNION {UNION m.byAccount[a] : a \in {x \in Subscription : Serving[x] = p}}
               \/ p = DefaultProvider /\ m.listed[p] = {} /\ m.served[p] = Catalogue
    <3> DEFINE of == {x \in Subscription : Serving[x] = p}
    <3>1. CASE p \in unread /\ memo.served[p] # {}
      <4>0. m.served[p] = memo.served[p] /\ union(p) = {}
        BY <2>2, <3>1
      <4>1. m.served[p] = memo.served[p] /\ m.listed[p] = memo.listed[p]
        <5>1. m.listed[p] = IF p \in unread /\ memo.listed[p] # {} THEN memo.listed[p] ELSE union(p)
          <6> HIDE DEF union, unread, of
          <6>. QED
            BY <2>2
        <5> HIDE DEF union, unread, of
        <5>. QED
          BY <3>1, <4>0, <5>1
      <4>2. \A a \in of : m.byAccount[a] = memo.byAccount[a]
        BY <2>2, <3>1 DEF Had
      <4> HIDE DEF of
      <4>3. {UNION m.byAccount[a] : a \in of} = {UNION memo.byAccount[a] : a \in of}
        BY <4>2
      <4>4. QED
        BY <1>0, <4>1, <4>3 DEF of
    <3>2. CASE p \notin unread /\ Had(stands, p) # {}
      <4>1. m.served[p] = UNION UNION {stands[a] : a \in Had(stands, p)}
        BY <2>2, <3>2 DEF NoneToAsk
      <4>2. \A a \in Had(stands, p) : a \in of /\ m.byAccount[a] = stands[a]
        BY <2>2 DEF Had
      <4> HIDE DEF of
      <4>3. m.served[p] \subseteq UNION {UNION m.byAccount[a] : a \in of}
        <5> SUFFICES ASSUME NEW x \in m.served[p] PROVE \E a \in of : x \in UNION m.byAccount[a]
          OBVIOUS
        <5>1. PICK a \in Had(stands, p) : x \in UNION stands[a]
          BY <4>1
        <5>2. QED
          BY <4>2, <5>1
      <4>4. QED
        BY <4>3 DEF of
    <3>3. CASE Had(stands, p) = {} /\ (p \in unread => memo.served[p] = {})
      <4>0. p \in unread => memo.listed[p] = {}
        BY <1>0, <3>3
      <4>1. m.listed[p] = {} /\ m.served[p] = IF p \in NoneToAsk(stands) THEN Catalogue ELSE {}
        BY <2>2, <3>3, <4>0
      <4>2. p \in NoneToAsk(stands) => p = DefaultProvider
        BY DEF NoneToAsk
      <4>3. QED
        BY <4>1, <4>2
    <3>4. QED
      BY <3>1, <3>2, <3>3
  <2>6. ASSUME NEW p \in Providers, m.served[p] = {}
        PROVE  m.listed[p] = {}
    <3>1. CASE Had(stands, p) # {}
      BY <2>2, <2>6, <3>1 DEF NoneToAsk
    <3>2. CASE Had(stands, p) = {}
      <4>1. memo.listed[p] = {} \/ memo.served[p] # {}
        BY <1>0
      <4>2. p \in unread => memo.served[p] = {}
        BY <2>2, <2>6
      <4>. QED
        BY <2>2, <3>2, <4>1, <4>2
    <3>. QED
      BY <3>1, <3>2
  <2>4. ASSUME NEW a \in DOMAIN stands, stands[a] # NoList
        PROVE  m.byAccount[a] = stands[a] /\ UNION stands[a] \subseteq m.listed[Serving[a]]
    <3>1. a \in Had(stands, Serving[a]) /\ Serving[a] \in Providers
      BY <2>4 DEF Had, Providers
    <3>2. m.byAccount[a] = stands[a]
      BY <2>2, <2>4
    <3>3. m.listed[Serving[a]] = UNION UNION {stands[x] : x \in Had(stands, Serving[a])}
      BY <2>2, <3>1
    <3>4. QED
      BY <3>1, <3>2, <3>3
  <2>5. QED
    BY <2>2, <2>3, <2>4, <2>6
<1>3. QED
  BY <1>1, <1>2

---------------------------------------------------------------------------
(* The steps *)

LEMMA Remembering ==
  ASSUME ListsStand, NEW r \in Procs, Remember(r)
  PROVE  /\ ListsStand'
         /\ \A q \in Procs : q # r => reads'[q] = reads[q]
         /\ \A a \in {x \in reads[r].on : lastLists[x] # NoList} :
              memo'.byAccount[a] # NoList /\ UNION memo'.byAccount[a] \subseteq memo'.listed[Serving[a]]
<1> DEFINE stands == StandsFor(r)
<1>1. /\ DOMAIN stands = reads[r].on
      /\ \A a \in reads[r].on : stands[a] = IF reads[r].got[a] # NoList THEN reads[r].got[a] ELSE lastLists[a]
  BY DEF StandsFor
<1>2. memo' = Remembered(stands) /\ reads' = [reads EXCEPT ![r] = NoRead] /\ on' = on
  BY DEF Remember
<1> HIDE DEF stands
<1>3. DOMAIN stands \subseteq Subscription
  BY <1>1 DEF ListsStand, ListsTypes
<1>4. /\ DOMAIN memo' = {"served", "listed", "byAccount", "connected", "unread"}
      /\ DOMAIN memo'.served = Providers /\ DOMAIN memo'.listed = Providers
      /\ DOMAIN memo'.byAccount = Subscription
      /\ \A p \in Providers :
           \/ memo'.served[p] \subseteq UNION {UNION memo'.byAccount[a] : a \in {x \in Subscription : Serving[x] = p}}
           \/ p = DefaultProvider /\ memo'.listed[p] = {} /\ memo'.served[p] = Catalogue
      /\ \A p \in Providers : memo'.served[p] = {} => memo'.listed[p] = {}
      /\ \A a \in DOMAIN stands : stands[a] # NoList =>
           memo'.byAccount[a] = stands[a] /\ UNION stands[a] \subseteq memo'.listed[Serving[a]]
  BY <1>2, <1>3, RemembersListed
<1>5. /\ DOMAIN reads' = Procs
      /\ \A q \in Procs : reads'[q] = IF q = r THEN NoRead ELSE reads[q]
  BY <1>2 DEF ListsStand, ListsTypes
<1>6. ListsTypes'
  BY <1>2, <1>4, <1>5 DEF ListsStand, ListsTypes, NoRead
<1>7. RoutesAreListed' /\ ListedIsServed'
  BY <1>4 DEF RoutesAreListed, ListedBy, ListedIsServed
<1>8. QED
  BY <1>1, <1>4, <1>5, <1>6, <1>7 DEF ListsStand

\* Any other step of a reader leaves what is remembered, and ends no read.
LEMMA Reads ==
  ASSUME ListsStand, NEW r \in Procs, UNCHANGED <<on, memo>>, DOMAIN reads' = Procs,
         \A q \in Procs : \/ reads'[q] = reads[q]
                          \/ /\ DOMAIN reads'[q] = {"pc", "kind", "all", "on", "waits", "got"}
                             /\ reads'[q].on \subseteq Subscription
                             /\ reads'[q].pc # "idle"
  PROVE  ListsStand' /\ NotDropped
<1>1. ListsTypes'
  BY DEF ListsStand, ListsTypes
<1>2. RoutesAreListed' /\ ListedIsServed'
  BY DEF ListsStand, RoutesAreListed, ListedBy, ListedIsServed
<1>3. NotDropped
  BY DEF NotDropped
<1>4. QED
  BY <1>1, <1>2, <1>3 DEF ListsStand

LEMMA ListsStep ==
  ASSUME ListsStand, ListsNext
  PROVE  ListsStand' /\ NotDropped
<1>0. ListsTypes /\ \A r \in Reader : r \in Procs
  BY DEF ListsStand, Procs
<1>1. ASSUME NEW r \in Reader, List(r) PROVE ListsStand' /\ NotDropped
  <2> DEFINE fresh == BeginRead("fresh")
             later == [NoRead EXCEPT !.pc = "waiting", !.kind = "list"]
             mine == IF newestAt = 0 /\ refreshing' THEN later ELSE BeginRead("list")
  <2>1. /\ UNCHANGED <<on, memo>>
        /\ reads' = [[reads EXCEPT ![Refresher] = IF NeedsRefresh THEN fresh ELSE @] EXCEPT ![r] = mine]
    BY <1>1 DEF List, Others
  <2>2. /\ DOMAIN mine = {"pc", "kind", "all", "on", "waits", "got"} /\ mine.on \subseteq Subscription
        /\ mine.pc # "idle"
    BY <1>0, ReadBegins DEF NoRead
  <2>3. /\ DOMAIN fresh = {"pc", "kind", "all", "on", "waits", "got"} /\ fresh.on \subseteq Subscription
        /\ fresh.pc # "idle"
    BY <1>0, ReadBegins
  <2> HIDE DEF mine, fresh
  <2>4. DOMAIN reads' = Procs /\ \A q \in Procs : reads'[q] \in {mine, fresh, reads[q]}
    BY <1>0, <2>1 DEF ListsTypes
  <2>5. QED
    BY <1>0, <2>1, <2>2, <2>3, <2>4, Reads
<1>2. ASSUME NEW r \in Reader, Waited(r) \/ FreshList(r) PROVE ListsStand' /\ NotDropped
  <2>1. PICK kind \in {"list", "fresh"} : reads' = [reads EXCEPT ![r] = BeginRead(kind)]
    BY <1>2 DEF Waited, FreshList
  <2> DEFINE mine == BeginRead(kind)
  <2>2. /\ DOMAIN mine = {"pc", "kind", "all", "on", "waits", "got"} /\ mine.on \subseteq Subscription
        /\ mine.pc # "idle"
    BY <1>0, ReadBegins
  <2>3. UNCHANGED <<on, memo>>
    BY <1>2 DEF Waited, FreshList
  <2> HIDE DEF mine
  <2>4. DOMAIN reads' = Procs /\ \A q \in Procs : reads'[q] \in {mine, reads[q]}
    BY <1>0, <2>1 DEF ListsTypes, mine
  <2>5. QED
    BY <1>0, <2>2, <2>3, <2>4, Reads
<1>3. ASSUME NEW r \in Procs, NEW a \in Subscription, AnsweredLists(r, a) PROVE ListsStand' /\ NotDropped
  <2>1. /\ UNCHANGED <<on, memo>> /\ reads[r].pc = "reading"
        /\ reads' = [reads EXCEPT ![r].got[a] = IF a \in accounts THEN upstream[a] ELSE NoList,
                                  ![r].waits = @ \ {a}]
    BY <1>3 DEF AnsweredLists
  <2>2. /\ DOMAIN reads' = Procs /\ \A q \in Procs : q # r => reads'[q] = reads[q]
        /\ DOMAIN reads'[r] = DOMAIN reads[r] /\ reads'[r].pc = reads[r].pc /\ reads'[r].on = reads[r].on
    BY <1>0, <2>1 DEF ListsTypes
  <2>3. QED
    BY <1>0, <2>1, <2>2, Reads DEF ListsTypes
<1>4. ASSUME NEW r \in Procs, KeepLists(r) PROVE ListsStand' /\ NotDropped
  <2>1. UNCHANGED <<on, memo>> /\ reads' = [reads EXCEPT ![r].pc = "read"]
    BY <1>4 DEF KeepLists
  <2>2. /\ DOMAIN reads' = Procs /\ \A q \in Procs : q # r => reads'[q] = reads[q]
        /\ DOMAIN reads'[r] = DOMAIN reads[r] /\ reads'[r].pc = "read" /\ reads'[r].on = reads[r].on
    BY <1>0, <2>1 DEF ListsTypes
  <2>3. QED
    BY <1>0, <2>1, <2>2, Reads DEF ListsTypes
<1>5. ASSUME NEW r \in Procs, Remember(r) PROVE ListsStand' /\ NotDropped
  BY <1>5, Remembering DEF NotDropped
<1>6. CASE \/ \E a \in Subscription : AccountList(a) \/ Connect(a) \/ Disconnect(a) \/ SwitchAccount(a)
           \/ \E a \in Subscription, l \in {NoList} \cup {{x} : x \in Listings} : UpstreamSays(a, l)
           \/ ListTick
  <2>1. UNCHANGED <<reads, memo>> /\ on' \subseteq Subscription
    BY <1>0, <1>6 DEF AccountList, Connect, Disconnect, SwitchAccount, UpstreamSays, ListTick, ListsTypes
  <2>2. ListsTypes' /\ RoutesAreListed' /\ ListedIsServed' /\ NotDropped
    BY <2>1 DEF ListsStand, ListsTypes, RoutesAreListed, ListedBy, ListedIsServed, NotDropped
  <2>3. QED
    BY <2>2 DEF ListsStand
<1>7. QED
  BY <1>1, <1>2, <1>3, <1>4, <1>5, <1>6 DEF ListsNext

\* Whoever reads the lists at once, whatever the upstreams answer: what is routed
\* to a provider is what an account of it listed, or the catalogue where there
\* is none to ask, and a read that fails drops nothing an account is known for.
THEOREM ListsSoundHolds == ListsSpec => ListsSound
<1>1. ListsStand /\ [ListsNext]_listsVars => ListsStand'
  <2> SUFFICES ASSUME ListsStand, [ListsNext]_listsVars PROVE ListsStand'
    OBVIOUS
  <2>1. CASE UNCHANGED listsVars
    BY <2>1 DEF listsVars, ListsStand, ListsTypes, RoutesAreListed, ListedBy, ListedIsServed
  <2>2. QED
    BY <2>1, ListsStep
<1>2. ListsStand /\ [ListsNext]_listsVars => [NotDropped]_listsVars
  BY ListsStep
<1>3. ListsStand => RoutesAreListed
  BY DEF ListsStand
<1>4. QED
  BY <1>1, <1>2, <1>3, ListsBegin, PTL DEF ListsSpec, ListsSound

---------------------------------------------------------------------------
(* Which upstream serves a name *)

\* What is remembered of a provider's models was in some account's list.
RoutesTypes ==
  /\ DOMAIN says = Account /\ \A a \in Account : says[a] \in SaysOf[a]
  /\ DOMAIN known = {"served", "listed", "of", "unread"}
  /\ \A v \in Vendors : \A m \in known.listed[v] :
       \E a \in Account : Vendor[a] = v /\ \E l \in SaysOf[a] : m \in l

\* Some versions have a newest one: the one with the fewest later.
LEMMA SomeNewest ==
  ASSUME NEW ms \in SUBSET Model, ms # {}
  PROVE  Newest(ms) # {}
<1> DEFINE later(m) == {n \in ms : <<n, m>> \in Newer}
           counts == {Cardinality(later(m)) : m \in ms}
<1>1. IsFiniteSet(ms)
  BY NewerOrders, FS_Subset
<1>2. \A m \in ms : IsFiniteSet(later(m)) /\ Cardinality(later(m)) \in Nat
  BY <1>1, FS_Subset, FS_CardinalityType
<1>3. counts \in SUBSET Nat /\ counts # {}
  BY <1>2
<1>4. PICK c \in counts : \A k \in counts : c <= k
  <2> HIDE DEF counts
  <2>1. QED
    BY <1>3, LeastNumber
<1>5. PICK m \in ms : c = Cardinality(later(m))
  OBVIOUS
<1>6. ASSUME NEW n \in ms, <<n, m>> \in Newer PROVE FALSE
  <2>1. later(n) \subseteq later(m) /\ n \in later(m) /\ n \notin later(n)
    BY <1>6, NewerOrders
  <2>2. Cardinality(later(n)) <= Cardinality(later(m)) /\ Cardinality(later(n)) # Cardinality(later(m))
    <3> HIDE DEF later
    <3>1. QED
      BY <1>2, <2>1, FS_Subset
  <2>3. c <= Cardinality(later(n))
    BY <1>4
  <2>4. QED
    <3>1. Cardinality(later(n)) \in Nat /\ Cardinality(later(m)) \in Nat
      BY <1>2
    <3> HIDE DEF later
    <3>2. QED
      BY <1>5, <2>2, <2>3, <3>1
<1>7. m \in Newest(ms)
  BY <1>6 DEF Newest
<1>8. QED
  BY <1>7

LEMMA NewestAmong ==
  ASSUME NEW ms
  PROVE  Newest(ms) \subseteq ms
BY DEF Newest

\* Best is a version the account has on and lists, and there is one wherever
\* it has one.
LEMMA BestIsHad ==
  ASSUME NEW a, NEW versions, NEW m \in Best(a, versions)
  PROVE  m \in versions /\ Serves(a, m) /\ Lists(a, m)
BY NewestAmong DEF Best

LEMMA BestIsThere ==
  ASSUME NEW a, NEW versions \in SUBSET Model, NEW m \in versions, Serves(a, m), Lists(a, m)
  PROVE  /\ Best(a, versions) # {}
         /\ <<a, m>> \notin failingModels => \A n \in Best(a, versions) : <<a, n>> \notin failingModels
<1> DEFINE has == {n \in versions : Serves(a, n) /\ Lists(a, n)}
           works == {n \in has : <<a, n>> \notin failingModels}
<1>1. Best(a, versions) = Newest(IF works # {} THEN works ELSE has)
  BY DEF Best
<1>2. m \in has /\ has \in SUBSET Model /\ works \in SUBSET Model
  OBVIOUS
<1>3. <<a, m>> \notin failingModels => m \in works
  OBVIOUS
<1>4. \A n \in works : <<a, n>> \notin failingModels
  OBVIOUS
<1> HIDE DEF has, works
<1>5. Best(a, versions) # {}
  <2>1. CASE works # {}
    BY <1>1, <1>2, <2>1, SomeNewest
  <2>2. CASE works = {}
    BY <1>1, <1>2, <2>2, SomeNewest
  <2>3. QED
    BY <2>1, <2>2
<1>6. works # {} => \A n \in Best(a, versions) : <<a, n>> \notin failingModels
  BY <1>1, <1>4, NewestAmong
<1>7. QED
  BY <1>3, <1>5, <1>6

---------------------------------------------------------------------------
(* A family *)

\* A family that is served is so by an account that can take a request and has
\* the version on.
LEMMA FamilyIsTaken ==
  ASSUME NEW off, NEW f \in Families, resolveFamily(off, f).why = ""
  PROVE  /\ f \notin off
         /\ CanTake(VendorOfFamily[f], resolveFamily(off, f).allowed)
<1> DEFINE allowed == AllowedVersions(off, f)
           cands == Candidates(VendorOfFamily[f])
           tries == {s \in cands \X allowed : s[2] \in Best(s[1], allowed)}
           nothing(why) == [allowed |-> {}, serving |-> {}, failingModels |-> FALSE, why |-> why]
           why == WhyNoVersion(VendorOfFamily[f], allowed)
           something == [allowed |-> allowed, serving |-> {s[2] : s \in tries},
                         failingModels |-> tries # {} /\ tries \subseteq failingModels,
                         why |-> IF tries # {} THEN "" ELSE why]
<1>1. why # ""
  BY DEF WhyNoVersion
<1>2. \A w : nothing(w).why = w
  OBVIOUS
<1>3. \/ \E w \in {"not allowed", "no family", "pinned"} : resolveFamily(off, f) = nothing(w)
      \/ f \notin off /\ resolveFamily(off, f) = something
  BY DEF resolveFamily
<1>4. f \notin off /\ resolveFamily(off, f) = something
  BY <1>2, <1>3
<1>5. tries # {} /\ resolveFamily(off, f).allowed = allowed
  <2>1. something.why = (IF tries # {} THEN "" ELSE why) /\ something.allowed = allowed
    OBVIOUS
  <2> HIDE DEF something, tries, why
  <2>2. QED
    BY <1>1, <1>4, <2>1
<1>6. PICK a \in cands, m \in allowed : m \in Best(a, allowed)
  BY <1>5
<1>7. Serves(a, m)
  BY <1>6, BestIsHad
<1>8. CanTake(VendorOfFamily[f], allowed)
  BY <1>6, <1>7 DEF CanTake
<1>9. QED
  BY <1>4, <1>5, <1>8

\* One that follows the latest is served where an account has a version the
\* client is allowed, and does not fail where that version does not.
LEMMA FamilyIsServed ==
  ASSUME NEW off, NEW f \in Families, f \notin off, pins[f] = {},
         familyNamed(f) \subseteq Model,
         NEW a \in Candidates(VendorOfFamily[f]), NEW m \in familyNamed(f) \ off,
         Serves(a, m), Lists(a, m)
  PROVE  /\ resolveFamily(off, f).why = ""
         /\ <<a, m>> \notin failingModels => ~ resolveFamily(off, f).failingModels
<1> DEFINE allowed == AllowedVersions(off, f)
           cands == Candidates(VendorOfFamily[f])
           tries == {s \in cands \X allowed : s[2] \in Best(s[1], allowed)}
           why == WhyNoVersion(VendorOfFamily[f], allowed)
           something == [allowed |-> allowed, serving |-> {s[2] : s \in tries},
                         failingModels |-> tries # {} /\ tries \subseteq failingModels,
                         why |-> IF tries # {} THEN "" ELSE why]
<1>1. allowed = familyNamed(f) \ off /\ familyNamed(f) # {} /\ allowed # {} /\ m \in allowed
  BY DEF AllowedVersions
<1>2. resolveFamily(off, f) = something
  BY <1>1 DEF resolveFamily
<1>3. /\ Best(a, allowed) # {}
      /\ <<a, m>> \notin failingModels => \A n \in Best(a, allowed) : <<a, n>> \notin failingModels
  <2>1. allowed \in SUBSET Model
    BY <1>1
  <2> HIDE DEF allowed
  <2>2. QED
    BY <1>1, <2>1, BestIsThere
<1>4. PICK n : n \in Best(a, allowed)
  BY <1>3
<1>5. n \in allowed
  BY <1>4, BestIsHad
<1>6. <<a, n>> \in tries
  BY <1>4, <1>5
<1>7. <<a, m>> \notin failingModels => ~ (tries \subseteq failingModels)
  BY <1>3, <1>4, <1>6
<1>8. something.why = (IF tries # {} THEN "" ELSE why)
      /\ something.failingModels = (tries # {} /\ tries \subseteq failingModels)
  OBVIOUS
<1> HIDE DEF something, tries, why
<1>9. QED
  BY <1>2, <1>6, <1>7, <1>8

LEMMA ListedHere ==
  ASSUME RoutesTypes, NEW v \in Vendors, NEW m \in known.listed[v]
  PROVE  /\ m \in Model /\ m \notin Families
         /\ FamilyIn[m] # NoFamily => FamilyIn[m] \in Families /\ VendorOfFamily[FamilyIn[m]] = v
<1>1. PICK a \in Account : Vendor[a] = v /\ \E l \in SaysOf[a] : m \in l
  BY DEF RoutesTypes
<1>2. PICK l \in SaysOf[a] : m \in l
  BY <1>1
<1>3. QED
  BY <1>1, <1>2, FamilyOfItsLister, FamiliesAreNoModels DEF Families

LEMMA FamilyIsOfModels ==
  ASSUME RoutesTypes, NEW f \in Families, VendorOfFamily[f] \in Vendors
  PROVE  familyNamed(f) \subseteq Model
BY ListedHere DEF familyNamed

---------------------------------------------------------------------------
(* What is offered *)

\* A model that resolves is listed, and an account of its provider has it on.
LEMMA ModelResolves ==
  ASSUME NEW off, NEW n, n \notin Families, Resolve(off, n).why = ""
  PROVE  /\ n \notin off
         /\ Resolve(off, n).vendor = ServingProvider(n)
         /\ n \in known.listed[ServingProvider(n)]
         /\ Offers(ServingProvider(n), n)
         /\ ~ failingEverywhere(ServingProvider(n), n)
<1> DEFINE v == ServingProvider(n)
           r == [name |-> n, vendor |-> v, why |-> IF n \in off THEN "not allowed" ELSE unavailable(v, n)]
<1>1. Resolve(off, n) = r
  BY DEF Resolve
<1>2. r.why = (IF n \in off THEN "not allowed" ELSE unavailable(v, n)) /\ r.vendor = v
  OBVIOUS
<1>3. n \notin off /\ unavailable(v, n) = "" /\ Resolve(off, n).vendor = v
  <2> HIDE DEF r, v
  <2>1. QED
    BY <1>1, <1>2
<1> HIDE DEF r, v
<1>4. n \in known.listed[v] /\ Offers(v, n) /\ ~ failingEverywhere(v, n)
  BY <1>3 DEF unavailable
<1>5. QED
  BY <1>3, <1>4 DEF v

LEMMA FamilyResolves ==
  ASSUME NEW off, NEW f \in Families
  PROVE  /\ Resolve(off, f).vendor = VendorOfFamily[f]
         /\ Resolve(off, f).why = "" <=>
              resolveFamily(off, f).why = "" /\ ~ resolveFamily(off, f).failingModels
<1> DEFINE r == resolveFamily(off, f)
           c == [name |-> f, vendor |-> VendorOfFamily[f],
                 why |-> IF r.why = "" /\ r.failingModels THEN "failingModels" ELSE r.why]
<1>1. Resolve(off, f) = c
  BY DEF Resolve
<1>2. c.vendor = VendorOfFamily[f]
      /\ c.why = (IF r.why = "" /\ r.failingModels THEN "failingModels" ELSE r.why)
  OBVIOUS
<1> HIDE DEF c, r
<1>3. QED
  BY <1>1, <1>2 DEF r

LEMMA FamilyRouted ==
  ASSUME NEW off, NEW f \in Families
  PROVE  /\ familyRoute(off, f).vendor = VendorOfFamily[f]
         /\ familyRoute(off, f).why = resolveFamily(off, f).why
         /\ familyRoute(off, f).models = resolveFamily(off, f).allowed
BY DEF familyRoute

LEMMA FamilyOffered ==
  ASSUME NEW off, NEW f \in Families, Resolve(off, f).why = ""
  PROVE  /\ f \notin off /\ familyRoute(off, f).why = ""
         /\ familyRoute(off, f).vendor = VendorOfFamily[f]
         /\ CanTake(VendorOfFamily[f], familyRoute(off, f).models)
<1>1. resolveFamily(off, f).why = ""
  BY FamilyResolves, Zenon
<1>2. f \notin off /\ CanTake(VendorOfFamily[f], resolveFamily(off, f).allowed)
  BY <1>1, FamilyIsTaken, Zenon
<1>3. QED
  BY <1>1, <1>2, FamilyRouted

LEMMA OneIsTaken ==
  ASSUME NEW v, NEW n, Offers(v, n)
  PROVE  CanTake(v, {n})
BY DEF Offers, CanTake

LEMMA DirectlyRouted ==
  ASSUME NEW n, n \notin clientOff
  PROVE  /\ n \in Families => DirectRoute(n) = familyRoute(clientOff, n)
         /\ n \notin Families => /\ DirectRoute(n).vendor = ServingProvider(n)
                                 /\ DirectRoute(n).models = {n} /\ DirectRoute(n).why = ""
BY DEF DirectRoute

LEMMA AvailableIs ==
  ASSUME NEW off, NEW v, NEW n \in Available(off, v)
  PROVE  \/ n \in availableModels(off, v)
         \/ n \in Families /\ VendorOfFamily[n] = v /\ Resolve(off, n).why = ""
BY DEF Available

LEMMA OfferedRouted ==
  ASSUME RoutesTypes
  PROVE  OfferedIsRouted
<1>1. ASSUME NEW v \in Vendors, NEW n \in Available(clientOff, v)
      PROVE  DirectRoute(n).why = "" /\ DirectRoute(n).vendor = v /\ CanTake(v, DirectRoute(n).models)
  <2>1. CASE n \in availableModels(clientOff, v)
    <3>1. n \in known.listed[v] /\ Resolve(clientOff, n).why = "" /\ Resolve(clientOff, n).vendor = v
      BY <2>1 DEF availableModels
    <3>2. n \notin Families
      BY <3>1, ListedHere
    <3>3. /\ n \notin clientOff /\ Resolve(clientOff, n).vendor = ServingProvider(n)
          /\ Offers(ServingProvider(n), n)
      BY <3>1, <3>2, ModelResolves, Zenon
    <3>4. n \notin clientOff /\ v = ServingProvider(n) /\ Offers(v, n)
      BY <3>1, <3>3
    <3>5. DirectRoute(n).vendor = v /\ DirectRoute(n).models = {n} /\ DirectRoute(n).why = ""
      BY <3>2, <3>4, DirectlyRouted, Zenon
    <3>6. CanTake(v, {n})
      BY <3>4, OneIsTaken, Zenon
    <3>7. QED
      BY <3>5, <3>6
  <2>2. CASE n \in Families /\ VendorOfFamily[n] = v /\ Resolve(clientOff, n).why = ""
    <3>1. /\ n \notin clientOff /\ familyRoute(clientOff, n).why = ""
          /\ familyRoute(clientOff, n).vendor = VendorOfFamily[n]
          /\ CanTake(VendorOfFamily[n], familyRoute(clientOff, n).models)
      BY <2>2, FamilyOffered, Zenon
    <3>2. DirectRoute(n) = familyRoute(clientOff, n)
      BY <2>2, <3>1, DirectlyRouted, Zenon
    <3>3. QED
      BY <2>2, <3>1, <3>2
  <2>3. QED
    BY <2>1, <2>2, AvailableIs
<1>2. ASSUME OwnOffered # {}
      PROVE  SlotRoute.why = "" /\ CanTake(SlotRoute.vendor, SlotRoute.models)
  <2>1. Resolve(clientOff, slot).why = ""
    BY <1>2 DEF OwnOffered
  <2>2. CASE slot \in Families
    BY <2>1, <2>2, FamilyOffered DEF SlotRoute
  <2>3. CASE slot \notin Families
    <3> DEFINE v == ServingProvider(slot)
    <3>1. slot \notin clientOff /\ Offers(v, slot)
      BY <2>1, <2>3, ModelResolves
    <3>2. /\ modelRoute(clientOff, slot).why = "" /\ modelRoute(clientOff, slot).vendor = v
          /\ modelRoute(clientOff, slot).models = {slot}
      BY <3>1 DEF modelRoute
    <3>3. QED
      BY <2>3, <3>1, <3>2, OneIsTaken DEF SlotRoute
  <2>4. QED
    BY <2>2, <2>3
<1>3. QED
  BY <1>1, <1>2 DEF OfferedIsRouted

LEMMA RefusedWhenNone ==
  ASSUME RoutesTypes, accountsOn \subseteq Account
  PROVE  RefusedOnlyWhenNone
<1> SUFFICES ASSUME NEW f \in Families, f \notin clientOff, pins[f] = {},
                    NEW a \in Candidates(VendorOfFamily[f]), NEW m \in familyNamed(f) \ clientOff,
                    Serves(a, m), m \in UNION known.of[a] \/ known.of[a] = {}
             PROVE  familyRoute(clientOff, f).why = ""
  BY DEF RefusedOnlyWhenNone
<1>1. VendorOfFamily[f] \in Vendors
  BY DEF Candidates, Vendors
<1>2. familyNamed(f) \subseteq Model
  BY <1>1, FamilyIsOfModels
<1>3. Lists(a, m)
  BY DEF Lists
<1>4. resolveFamily(clientOff, f).why = ""
  BY <1>2, <1>3, FamilyIsServed
<1>5. QED
  BY <1>4, FamilyRouted

LEMMA NothingLost ==
  ASSUME RoutesTypes
  PROVE  NothingOutOfReach
<1> SUFFICES ASSUME NEW v \in Vendors, NEW m \in availableModels(clientOff, v), HasModel(v, m),
                    m \notin Available(clientOff, v)
             PROVE  /\ FamilyIn[m] # NoFamily
                    /\ \/ FamilyIn[m] \in Available(clientOff, v) \cup clientOff
                       \/ pins[FamilyIn[m]] # {}
  BY DEF NothingOutOfReach
<1> DEFINE f == FamilyIn[m]
<1>1. m \in known.listed[v] /\ Resolve(clientOff, m).why = "" /\ Resolve(clientOff, m).vendor = v
  BY DEF availableModels
<1>2. m \in Model /\ m \notin Families /\ (f # NoFamily => f \in Families /\ VendorOfFamily[f] = v)
  BY <1>1, ListedHere
<1>3. v \in byFamily /\ f # NoFamily
  BY DEF Available
<1>4. m \notin clientOff /\ ~ failingEverywhere(v, m)
  <2>1. /\ m \notin clientOff /\ Resolve(clientOff, m).vendor = ServingProvider(m)
        /\ ~ failingEverywhere(ServingProvider(m), m)
    BY <1>1, <1>2, ModelResolves, Zenon
  <2>2. QED
    BY <1>1, <2>1
<1>5. SUFFICES ASSUME f \notin clientOff, pins[f] = {} PROVE f \in Available(clientOff, v)
  BY <1>3
<1>6. familyNamed(f) \subseteq Model /\ m \in familyNamed(f)
  BY <1>1, <1>2, <1>3, FamilyIsOfModels DEF familyNamed
<1>7. PICK a \in Candidates(v) : Serves(a, m) /\ Lists(a, m) /\ <<a, m>> \notin failingModels
  <2> DEFINE has == {a \in Candidates(v) : Serves(a, m) /\ Lists(a, m)}
  <2>1. has # {}
    BY DEF HasModel
  <2>2. ~ (has \X {m} \subseteq failingModels)
    BY <1>4, <2>1 DEF failingEverywhere
  <2>3. QED
    BY <2>2
<1>8. resolveFamily(clientOff, f).why = "" /\ ~ resolveFamily(clientOff, f).failingModels
  BY <1>2, <1>3, <1>4, <1>5, <1>6, <1>7, FamilyIsServed
<1>9. Resolve(clientOff, f).why = ""
  BY <1>2, <1>3, <1>8, FamilyResolves
<1>10. QED
  BY <1>2, <1>3, <1>6, <1>9 DEF Available

---------------------------------------------------------------------------
\* What is remembered stays so through every step.

LEMMA RoutesBegin == RoutesInit => RoutesTypes
<1> SUFFICES ASSUME RoutesInit PROVE RoutesTypes
  OBVIOUS
<1>1. DOMAIN says = Account /\ \A a \in Account : says[a] \in SaysOf[a]
  BY DEF RoutesInit
<1>2. known = [served |-> [v \in Vendors |-> {}], listed |-> [v \in Vendors |-> {}],
               of |-> [a \in Account |-> {}], unread |-> {}]
  BY DEF RoutesInit, NothingKnown
<1>3. QED
  BY <1>1, <1>2 DEF RoutesTypes

LEMMA KnownAfter ==
  ASSUME RoutesTypes
  PROVE  /\ DOMAIN Remembers(known) = {"served", "listed", "of", "unread"}
         /\ \A v \in Vendors : \A m \in Remembers(known).listed[v] :
              \/ m \in known.listed[v]
              \/ \E a \in accountsOn : Vendor[a] = v /\ m \in says[a]
<1> DEFINE read == accountsOn \ unreadable
           of(v) == {a \in read : Vendor[a] = v}
           unread == {v \in Vendors : of(v) = {} /\ \E a \in accountsOn : Vendor[a] = v}
           routed == [v \in Vendors |-> IF v \in unread THEN known.served[v]
                        ELSE UNION {{m \in says[a] : Serves(a, m)} : a \in of(v)}]
           listed == [v \in Vendors |-> IF v \in unread THEN known.listed[v]
                                        ELSE UNION {says[a] : a \in of(v)}]
           lists == [a \in Account |-> IF a \in read THEN {says[a]} ELSE known.of[a]]
           kept == [known EXCEPT !.unread = unread]
           whole == [served |-> routed, listed |-> listed, of |-> lists, unread |-> unread]
<1>1. Remembers(known) = IF read = {} THEN kept ELSE whole
  BY DEF Remembers
<1>2. DOMAIN kept = {"served", "listed", "of", "unread"} /\ kept.listed = known.listed
  BY DEF RoutesTypes
<1>3. DOMAIN whole = {"served", "listed", "of", "unread"} /\ whole.listed = listed
  <2> HIDE DEF routed, listed, lists, unread
  <2>1. QED
    OBVIOUS
<1>4. ASSUME NEW v \in Vendors, NEW m \in listed[v]
      PROVE  m \in known.listed[v] \/ \E a \in accountsOn : Vendor[a] = v /\ m \in says[a]
  <2>1. m \in known.listed[v] \/ m \in UNION {says[a] : a \in of(v)}
    BY <1>4
  <2>2. QED
    BY <2>1
<1> HIDE DEF read, kept, whole, listed
<1>5. QED
  BY <1>1, <1>2, <1>3, <1>4

LEMMA RoutesStep ==
  ASSUME RoutesTypes, accountsOn \subseteq Account, [RoutesNext]_routesVars
  PROVE  RoutesTypes' /\ accountsOn' \subseteq Account
<1>1. ASSUME UNCHANGED <<says, known>> PROVE RoutesTypes'
  BY <1>1 DEF RoutesTypes, Vendors
<1>2. CASE UNCHANGED routesVars
  BY <1>1, <1>2 DEF routesVars
<1>3. CASE refreshFamilies
  <2>1. known' = Remembers(known) /\ says' = says /\ accountsOn' = accountsOn
    BY <1>3 DEF refreshFamilies
  <2>2. ASSUME NEW v \in Vendors, NEW m \in known'.listed[v]
        PROVE  \E a \in Account : Vendor[a] = v /\ \E l \in SaysOf[a] : m \in l
    <3>1. m \in known.listed[v] \/ \E a \in accountsOn : Vendor[a] = v /\ m \in says[a]
      BY <2>1, <2>2, KnownAfter
    <3>2. CASE m \in known.listed[v]
      BY <3>2 DEF RoutesTypes
    <3>3. CASE \E a \in accountsOn : Vendor[a] = v /\ m \in says[a]
      BY <3>3 DEF RoutesTypes
    <3>4. QED
      BY <3>1, <3>2, <3>3
  <2>3. DOMAIN known' = {"served", "listed", "of", "unread"}
    BY <2>1, KnownAfter
  <2>4. DOMAIN says' = Account /\ \A a \in Account : says'[a] \in SaysOf[a]
    BY <2>1 DEF RoutesTypes
  <2>5. QED
    BY <2>1, <2>2, <2>3, <2>4 DEF RoutesTypes, Vendors
<1>4. ASSUME NEW a \in Account, UpstreamChanges(a) PROVE RoutesTypes' /\ accountsOn' \subseteq Account
  <2>1. UNCHANGED <<known, accountsOn>>
    BY <1>4 DEF UpstreamChanges
  <2>2. DOMAIN says' = Account /\ \A b \in Account : says'[b] \in SaysOf[b]
    BY <1>4 DEF UpstreamChanges, RoutesTypes
  <2>3. QED
    BY <2>1, <2>2 DEF RoutesTypes, Vendors
<1>5. ASSUME NEW a \in Account, AccountChanges(a) PROVE RoutesTypes' /\ accountsOn' \subseteq Account
  BY <1>1, <1>5 DEF AccountChanges, Toggled
<1>6. ASSUME NEW a \in Account, NEW m, handleSetAccountModel(a, m) \/ Fails(a, m)
      PROVE  RoutesTypes' /\ accountsOn' \subseteq Account
  BY <1>1, <1>6 DEF handleSetAccountModel, Fails
<1>7. ASSUME NEW f \in Families, NEW version, SetPin(f, version)
      PROVE  RoutesTypes' /\ accountsOn' \subseteq Account
  BY <1>1, <1>7 DEF SetPin
<1>8. ASSUME NEW v \in Vendors, SetMode(v) PROVE RoutesTypes' /\ accountsOn' \subseteq Account
  BY <1>1, <1>8 DEF SetMode
<1>9. ASSUME NEW name \in Names, handleSetKeyModel(name) \/ Bind(name)
      PROVE  RoutesTypes' /\ accountsOn' \subseteq Account
  BY <1>1, <1>9 DEF handleSetKeyModel, Bind
<1>10. QED
  BY <1>2, <1>3, <1>4, <1>5, <1>6, <1>7, <1>8, <1>9 DEF RoutesNext, routesVars

\* Whatever the lists, the switches, the pins and the modes are, and however
\* stale what is remembered of them: what is offered is routed to an account
\* that can take it, a family is refused only where no account has a version
\* of it, and nothing an account lists is out of reach.
THEOREM RoutesSoundHolds == RoutesSpec => []RoutesSound
<1>1. RoutesInit => RoutesTypes /\ accountsOn \subseteq Account
  BY RoutesBegin DEF RoutesInit
<1>2. RoutesTypes /\ accountsOn \subseteq Account /\ [RoutesNext]_routesVars
      => RoutesTypes' /\ (accountsOn \subseteq Account)'
  BY RoutesStep
<1>3. RoutesTypes /\ accountsOn \subseteq Account => RoutesSound
  BY OfferedRouted, RefusedWhenNone, NothingLost DEF RoutesSound
<1>4. QED
  BY <1>1, <1>2, <1>3, PTL DEF RoutesSpec

(* Notices, and the operator's marks *)

\* The operator's mark of a notice that has not been gone since is there, and no
\* list is without the notice; one that was forgotten was gone first.
MarkStands(id) ==
  /\ ~sinceMark[id].gone => /\ id \in readMarks /\ id \in Ids(NoticeList(trouble))
                            /\ \A r \in Reading : onPage[r].reads => id \in Ids(onPage[r].list)
  /\ sinceMark[id].forgotten => sinceMark[id].gone /\ id \notin readMarks
NoticeTypes ==
  /\ DOMAIN trouble = {"serving", "account", "rows", "spent", "dead", "happened"}
  /\ DOMAIN onPage = Reading
  /\ \A id \in DOMAIN sinceMark : sinceMark[id] \in [gone : BOOLEAN, forgotten : BOOLEAN]
MarksStand == NoticeTypes /\ \A id \in DOMAIN sinceMark : MarkStands(id)

\* How often the state has changed is in no notice.
LEMMA ListedAsBefore ==
  ASSUME NEW t, DOMAIN t = {"serving", "account", "rows", "spent", "dead", "happened"},
         NEW n, NEW u, u = [t EXCEPT !.happened = n]
  PROVE  NoticeList(u) = NoticeList(t) /\ DOMAIN u = DOMAIN t
<1>1. /\ u.serving = t.serving /\ u.account = t.account /\ u.rows = t.rows /\ u.spent = t.spent
      /\ u.dead = t.dead /\ DOMAIN u = DOMAIN t
  OBVIOUS
<1>2. OnOnes(u) = OnOnes(t)
  BY <1>1 DEF OnOnes
<1>3. AccountNotices(u, OnOnes(u)) = AccountNotices(t, OnOnes(t))
  BY <1>1, <1>2, Zenon DEF AccountNotices
<1>4. AutoOff(u, OnOnes(u)) = AutoOff(t, OnOnes(t))
  BY <1>1, <1>2, Zenon DEF AutoOff
<1>5. ClientNotices(u) = ClientNotices(t)
  BY <1>1, Zenon DEF ClientNotices
<1>6. QED
  BY <1>1, <1>2, <1>3, <1>4, <1>5, Zenon DEF NoticeList

LEMMA MarksAtStart ==
  ASSUME NoticesInit
  PROVE  MarksStand
BY DEF NoticesInit, MarksStand, NoticeTypes

LEMMA MarksOutlive ==
  ASSUME MarksStand, NEW t, DOMAIN t = DOMAIN trouble, Changes(t)
  PROVE  MarksStand'
<1>1. /\ trouble' = [t EXCEPT !.happened = @ + 1] /\ readMarks' = readMarks /\ onPage' = onPage
      /\ sinceMark' = [id \in DOMAIN sinceMark |->
                         [sinceMark[id] EXCEPT !.gone = @ \/ id \notin Ids(NoticeList(t))]]
  BY DEF Changes
<1>2. NoticeList(trouble') = NoticeList(t) /\ DOMAIN trouble' = DOMAIN trouble
  BY <1>1, ListedAsBefore DEF MarksStand, NoticeTypes
<1>3. ASSUME NEW id \in DOMAIN sinceMark
      PROVE  /\ sinceMark'[id].gone = (sinceMark[id].gone \/ id \notin Ids(NoticeList(t)))
             /\ sinceMark'[id].forgotten = sinceMark[id].forgotten
             /\ sinceMark'[id] \in [gone : BOOLEAN, forgotten : BOOLEAN]
  <2>1. sinceMark[id] \in [gone : BOOLEAN, forgotten : BOOLEAN]
    BY DEF MarksStand, NoticeTypes
  <2>2. sinceMark'[id] = [sinceMark[id] EXCEPT !.gone = @ \/ id \notin Ids(NoticeList(t))]
    BY <1>1
  <2>3. QED
    BY <2>1, <2>2
<1>4. DOMAIN sinceMark' = DOMAIN sinceMark
  BY <1>1
<1>5. NoticeTypes'
  BY <1>1, <1>2, <1>3, <1>4 DEF MarksStand, NoticeTypes
<1>6. ASSUME NEW id \in DOMAIN sinceMark PROVE MarkStands(id)'
  BY <1>1, <1>2, <1>3 DEF MarksStand, MarkStands
<1>7. QED
  BY <1>4, <1>5, <1>6 DEF MarksStand

LEMMA MarksOverReads ==
  ASSUME MarksStand, NEW r \in Reading, WorkOut(r) \/ WithReadMarks(r)
  PROVE  MarksStand'
<1>1. CASE WorkOut(r)
  <2>1. /\ onPage' = [onPage EXCEPT ![r] = [list |-> NoticeList(trouble), reads |-> TRUE]]
        /\ trouble' = trouble /\ readMarks' = readMarks /\ sinceMark' = sinceMark
    BY <1>1 DEF WorkOut
  <2>2. /\ DOMAIN onPage' = Reading /\ onPage'[r].list = NoticeList(trouble)
        /\ \A q \in Reading \ {r} : onPage'[q] = onPage[q]
    BY <2>1 DEF MarksStand, NoticeTypes
  <2>3. ASSUME NEW id \in DOMAIN sinceMark PROVE MarkStands(id)'
    BY <2>1, <2>2 DEF MarksStand, MarkStands
  <2>4. QED
    BY <2>1, <2>2, <2>3 DEF MarksStand, NoticeTypes
<1>2. CASE WithReadMarks(r)
  <2>1. /\ onPage[r].reads /\ readMarks' = readMarks \cap Ids(onPage[r].list)
        /\ onPage' = [onPage EXCEPT ![r] = NotReading] /\ trouble' = trouble
        /\ sinceMark' = [id \in DOMAIN sinceMark |->
                           [sinceMark[id] EXCEPT !.forgotten = @ \/ id \notin Ids(onPage[r].list)]]
    BY <1>2 DEF WithReadMarks, StillMarked
  <2>2. /\ DOMAIN onPage' = Reading /\ ~onPage'[r].reads
        /\ \A q \in Reading \ {r} : onPage'[q] = onPage[q]
    BY <2>1 DEF MarksStand, NoticeTypes, NotReading
  <2>3. ASSUME NEW id \in DOMAIN sinceMark
        PROVE  /\ sinceMark'[id].gone = sinceMark[id].gone
               /\ sinceMark'[id].forgotten = (sinceMark[id].forgotten \/ id \notin Ids(onPage[r].list))
               /\ sinceMark'[id] \in [gone : BOOLEAN, forgotten : BOOLEAN]
    <3>1. sinceMark[id] \in [gone : BOOLEAN, forgotten : BOOLEAN]
      BY DEF MarksStand, NoticeTypes
    <3>2. sinceMark'[id] = [sinceMark[id] EXCEPT !.forgotten = @ \/ id \notin Ids(onPage[r].list)]
      BY <2>1
    <3>3. QED
      BY <3>1, <3>2
  <2>4. DOMAIN sinceMark' = DOMAIN sinceMark
    BY <2>1
  <2>5. ASSUME NEW id \in DOMAIN sinceMark PROVE MarkStands(id)'
    BY <2>1, <2>2, <2>3 DEF MarksStand, MarkStands
  <2>6. QED
    BY <2>1, <2>2, <2>3, <2>4, <2>5 DEF MarksStand, NoticeTypes
<1>3. QED
  BY <1>1, <1>2

LEMMA MarksByOperator ==
  ASSUME MarksStand, NEW n, MarkNotice(n) \/ UnmarkNotice(n)
  PROVE  MarksStand'
<1>1. CASE MarkNotice(n)
  <2>1. /\ readMarks' = readMarks \cup {n} /\ trouble' = trouble /\ onPage' = onPage
        /\ sinceMark' = [i \in DOMAIN sinceMark \cup {n} |->
                           IF i = n THEN MarkedNow(n) ELSE sinceMark[i]]
    BY <1>1 DEF MarkNotice
  <2>2. /\ MarkedNow(n) \in [gone : BOOLEAN, forgotten : BOOLEAN] /\ ~MarkedNow(n).forgotten
        /\ ~MarkedNow(n).gone => /\ n \in Ids(NoticeList(trouble))
                                /\ \A r \in Reading : onPage[r].reads => n \in Ids(onPage[r].list)
    BY DEF MarkedNow
  <2>3. /\ DOMAIN sinceMark' = DOMAIN sinceMark \cup {n} /\ sinceMark'[n] = MarkedNow(n)
        /\ \A id \in DOMAIN sinceMark \ {n} : sinceMark'[id] = sinceMark[id]
    BY <2>1
  <2>4. MarkStands(n)'
    BY <2>1, <2>2, <2>3 DEF MarkStands
  <2>5. ASSUME NEW id \in DOMAIN sinceMark \ {n} PROVE MarkStands(id)'
    BY <2>1, <2>3 DEF MarksStand, MarkStands
  <2>6. ASSUME NEW id \in DOMAIN sinceMark' PROVE sinceMark'[id] \in [gone : BOOLEAN, forgotten : BOOLEAN]
    <3>1. CASE id = n
      BY <3>1, <2>2, <2>3
    <3>2. CASE id # n
      BY <3>2, <2>3 DEF MarksStand, NoticeTypes
    <3>3. QED
      BY <3>1, <3>2
  <2>7. NoticeTypes'
    BY <2>1, <2>6 DEF MarksStand, NoticeTypes
  <2>8. QED
    BY <2>3, <2>4, <2>5, <2>7 DEF MarksStand
<1>2. CASE UnmarkNotice(n)
  <2>1. /\ readMarks' = readMarks \ {n} /\ trouble' = trouble /\ onPage' = onPage
        /\ sinceMark' = [i \in DOMAIN sinceMark \ {n} |-> sinceMark[i]]
    BY <1>2 DEF UnmarkNotice
  <2>2. DOMAIN sinceMark' = DOMAIN sinceMark \ {n} /\ \A id \in DOMAIN sinceMark \ {n} : sinceMark'[id] = sinceMark[id]
    BY <2>1
  <2>3. ASSUME NEW id \in DOMAIN sinceMark \ {n} PROVE MarkStands(id)'
    BY <2>1, <2>2 DEF MarksStand, MarkStands
  <2>4. QED
    BY <2>1, <2>2, <2>3 DEF MarksStand, NoticeTypes
<1>3. QED
  BY <1>1, <1>2

LEMMA MarksAlways ==
  ASSUME MarksStand, [NoticesNext]_noticesVars
  PROVE  MarksStand'
<1>1. CASE SwitchServing \/ ClientChanges \/ \E a \in Paid : AccountTrouble(a)
  <2>1. PICK t : DOMAIN t = DOMAIN trouble /\ Changes(t)
    <3>1. CASE SwitchServing
      <4>1. DOMAIN [trouble EXCEPT !.serving = ~@] = DOMAIN trouble
        OBVIOUS
      <4>2. QED
        BY <3>1, <4>1 DEF SwitchServing
    <3>2. CASE ClientChanges
      <4>1. \A v : /\ DOMAIN [trouble EXCEPT !.spent = v] = DOMAIN trouble
                   /\ DOMAIN [trouble EXCEPT !.dead = v] = DOMAIN trouble
                   /\ DOMAIN [trouble EXCEPT !.rows = v] = DOMAIN trouble
        OBVIOUS
      <4>2. QED
        BY <3>2, <4>1 DEF ClientChanges
    <3>3. CASE \E a \in Paid : AccountTrouble(a)
      <4>1. PICK a \in Paid : AccountTrouble(a)
        BY <3>3
      <4>2. \A v : /\ DOMAIN [trouble EXCEPT !.account[a].signin = v] = DOMAIN trouble
                   /\ DOMAIN [trouble EXCEPT !.account[a].full = v] = DOMAIN trouble
        OBVIOUS
      <4>3. /\ DOMAIN [trouble EXCEPT !.account[a].off = ~@] = DOMAIN trouble
            /\ DOMAIN [trouble EXCEPT !.account[a].cooling = ~@] = DOMAIN trouble
            /\ DOMAIN [trouble EXCEPT !.account[a].refused = ~@] = DOMAIN trouble
            /\ DOMAIN [trouble EXCEPT !.account[a].modelOff = ~@] = DOMAIN trouble
        OBVIOUS
      <4>4. QED
        BY <4>1, <4>2, <4>3 DEF AccountTrouble
    <3>4. QED
      BY <1>1, <3>1, <3>2, <3>3
  <2>2. QED
    BY <2>1, MarksOutlive
<1>2. CASE UNCHANGED noticesVars
  BY <1>2 DEF noticesVars, MarksStand, NoticeTypes, MarkStands
<1>3. QED
  BY <1>1, <1>2, MarksOverReads, MarksByOperator DEF NoticesNext

\* A mark lasts as long as what it is about, and no longer, whoever reads the
\* notices meanwhile and however the gateway's state changes under them.
THEOREM MarksFollowHolds == NoticesSpec => []MarksFollow
<1>1. NoticesInit => MarksStand
  BY MarksAtStart
<1>2. MarksStand /\ [NoticesNext]_noticesVars => MarksStand'
  BY MarksAlways
<1>3. MarksStand => MarksFollow
  BY DEF MarksStand, MarkStands, MarksFollow
<1>4. QED
  BY <1>1, <1>2, <1>3, PTL DEF NoticesSpec
=============================================================================
