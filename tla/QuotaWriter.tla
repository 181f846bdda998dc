---------------------------- MODULE QuotaWriter ----------------------------
(***************************************************************************)
(* pool/quota.go and service/accounts: what an account's quota row says.   *)
(* Every relayed answer may report the quota (NoteQuota); a report is kept *)
(* when it is due, and written by a goroutine, one at a time, that then    *)
(* writes what was noted meanwhile.  The usage poller and the operator's   *)
(* refresh write the same row with what they fetched.                      *)
(*                                                                         *)
(* Reports are numbered as they come.  What tells them apart otherwise is  *)
(* whether the account has room (outOfRoom) and the detail, which only a   *)
(* poll brings.                                                            *)
(***************************************************************************)
EXTENDS Naturals

CONSTANTS
    Goroutine,  \* the writers that may run
    Poll,       \* the poller, and the operator's refresh
    MaxReport   \* bound: reports that come

VARIABLES
    report,     \* the newest report
    noted,      \* quotaNote.stored: the newest one kept
    aged,       \* quotaWriteEvery has passed since
    busy,       \* quotaNote.writing
    waiting,    \* quotaNote.next
    writer,     \* each goroutine: where writeQuota is, and with what
    polls,      \* each poll: what it fetched
    quota,      \* the row; history: who wrote it last
    written,    \* history: the last note a goroutine wrote
    failed      \* history: that write failed

quotaVars == <<report, noted, aged, busy, waiting, writer, polls, quota, written, failed>>

NoReport == [n |-> 0, room |-> TRUE]
Unwritten == [q |-> NoReport, detail |-> 0, by |-> "nobody"]
WriteDone == [pc |-> "idle", q |-> NoReport, detail |-> 0]

QuotaInit ==
    /\ report = NoReport /\ noted = NoReport /\ aged = FALSE
    /\ busy = FALSE /\ waiting = NoReport
    /\ writer = [g \in Goroutine |-> WriteDone]
    /\ polls = [p \in Poll |-> NoReport]
    /\ quota = Unwritten /\ written = 0 /\ failed = FALSE

\* Kept if it changes whether the account can serve, or after a while.
DueNote(q) == noted = NoReport \/ aged \/ noted.room # q.room

Start(g, q) == writer' = [writer EXCEPT ![g] = [pc |-> "read", q |-> q, detail |-> 0]]

\* Mutant: a write is started for every note.
NoteAtOnce(room) ==
    LET q == [n |-> report.n + 1, room |-> room]
    IN  /\ report.n < MaxReport /\ report' = q /\ DueNote(q)
        /\ noted' = q /\ aged' = FALSE /\ busy' = TRUE /\ UNCHANGED waiting
        /\ \E g \in Goroutine : writer[g].pc = "idle" /\ Start(g, q)
        /\ UNCHANGED <<polls, quota, written, failed>>

NoteQuota(room) ==
    LET q == [n |-> report.n + 1, room |-> room]
    IN  /\ report.n < MaxReport /\ report' = q
        /\ IF ~DueNote(q) THEN UNCHANGED <<noted, aged, busy, waiting, writer>>
           ELSE /\ noted' = q /\ aged' = FALSE
                /\ IF busy THEN waiting' = q /\ UNCHANGED <<busy, writer>>
                   ELSE /\ busy' = TRUE /\ UNCHANGED waiting
                        /\ \E g \in Goroutine : writer[g].pc = "idle" /\ Start(g, q)
        /\ UNCHANGED <<polls, quota, written, failed>>

Age ==
    /\ ~aged /\ aged' = TRUE
    /\ UNCHANGED <<report, noted, busy, waiting, writer, polls, quota, written, failed>>

\* storeQuota: the detail of the row is kept, as a report has none, unless the
\* row cannot be read.
ReadDetail(g) ==
    /\ writer[g].pc = "read"
    /\ \E detail \in {quota.detail, 0} :
         writer' = [writer EXCEPT ![g].pc = "write", ![g].detail = detail]
    /\ UNCHANGED <<report, noted, aged, busy, waiting, polls, quota, written, failed>>

WriteNote(g) ==
    /\ writer[g].pc = "write"
    /\ quota' = [q |-> writer[g].q, detail |-> writer[g].detail, by |-> "note"]
    /\ written' = writer[g].q.n /\ failed' = FALSE
    /\ writer' = [writer EXCEPT ![g].pc = "after"]
    /\ UNCHANGED <<report, noted, aged, busy, waiting, polls>>

WriteFails(g) ==
    /\ writer[g].pc = "write" /\ failed' = TRUE
    /\ writer' = [writer EXCEPT ![g].pc = "after"]
    /\ UNCHANGED <<report, noted, aged, busy, waiting, polls, quota, written>>

\* Mutant: the goroutine ends without looking at what came meanwhile.
EndWriting(g) ==
    /\ writer[g].pc = "after"
    /\ busy' = FALSE /\ writer' = [writer EXCEPT ![g] = WriteDone] /\ UNCHANGED waiting
    /\ UNCHANGED <<report, noted, aged, polls, quota, written, failed>>

\* writeQuota, under the mutex: what is waiting, or the end.
NextNote(g) ==
    /\ writer[g].pc = "after"
    /\ IF waiting = NoReport
         THEN busy' = FALSE /\ writer' = [writer EXCEPT ![g] = WriteDone] /\ UNCHANGED waiting
         ELSE Start(g, waiting) /\ waiting' = NoReport /\ UNCHANGED busy
    /\ UNCHANGED <<report, noted, aged, polls, quota, written, failed>>

\* Poller.Refresh: the provider is asked, and what it said written later.
Fetch(p, room) ==
    /\ polls[p].n = 0 /\ report.n > 0
    /\ polls' = [polls EXCEPT ![p] = [n |-> report.n, room |-> room]]
    /\ UNCHANGED <<report, noted, aged, busy, waiting, writer, quota, written, failed>>

WriteFetched(p) ==
    /\ polls[p].n # 0
    /\ quota' = [q |-> polls[p], detail |-> polls[p].n, by |-> "poll"]
    /\ polls' = [polls EXCEPT ![p] = NoReport]
    /\ UNCHANGED <<report, noted, aged, busy, waiting, writer, written, failed>>

QuotaNext ==
    \/ \E room \in BOOLEAN : NoteQuota(room) \/ \E p \in Poll : Fetch(p, room)
    \/ Age
    \/ \E g \in Goroutine : ReadDetail(g) \/ WriteNote(g) \/ WriteFails(g) \/ NextNote(g)
    \/ \E p \in Poll : WriteFetched(p)

QuotaSpec == QuotaInit /\ [][QuotaNext]_quotaVars

---------------------------------------------------------------------------
\* The notes are written by one goroutine at a time, in the order they came, each
\* at most once; what they leave in the row is the last one written, until a poll
\* writes there; and when none is being written that one is the newest kept,
\* unless its write failed.  What is newer than that one and was not kept says
\* the same of the account's room (NoteQuota, writeQuota).
EndsAtNewest ==
    LET Writing == {g \in Goroutine : writer[g].pc \in {"read", "write"}}
    IN  /\ \A g, h \in Goroutine : (writer[g].pc # "idle" /\ writer[h].pc # "idle") => g = h
        /\ \A g \in Writing : writer[g].q.n > written
        /\ waiting # NoReport => (busy /\ waiting.n > written)
        /\ quota.by = "poll" \/ quota.q.n = written
        /\ (~busy /\ ~failed) => written = noted.n
        /\ report.room = noted.room

\* "A figure noted while one is in flight replaces any waiting and is written
\* next, so the row ends at the newest and never goes back" (NoteQuota): the row
\* is never older than a note that was written to it.  Not so: a poll that asked
\* before the note came, and writes after, puts its older figure over it.
RowNeverGoesBack == quota.q.n >= written
=============================================================================
