---------------------------- MODULE LiveScreens ----------------------------
(***************************************************************************)
(* A tab of the admin UI kept current (docs/data-architecture.md): its     *)
(* stream of notices (web/src/api/live.ts, handleEvents), the panel that   *)
(* reads again when told (useOnChange and useLoader of web/src/ui/hooks.ts *)
(* with the turns of runs.ts), the hub that tells it (LiveHub) and the     *)
(* read that answers it (ReadCache).                                       *)
(*                                                                         *)
(* One panel, on every topic; the other readers of its URL only read.  The *)
(* timers that settle, gather and retry fire at any moment.  A stream that *)
(* ends - dropped, or past its life - loses the notices not yet read, and  *)
(* the browser opens it again; one refused is opened again by the tab.     *)
(***************************************************************************)
EXTENDS ReadCache

CONSTANTS
    Tab,        \* the tab, among the readers
    Acts,       \* what the operator does: "hide" the tab, "reload" the panel
    MaxEvents   \* bound: streams dropped, reads that fail, what other
                \*   readers ask and the operator does

ASSUME ScreenAssumption == Tab \in Reader /\ MaxEvents \in Nat

VARIABLES
    source,     \* LiveStream.source: its EventSource
    dropped,    \* LiveStream.dropped
    visible,    \* LiveStream.visible
    settling,   \* LiveStream.settle: open() is to be called
    due,        \* LiveStream.due has the panel: it is told when gathered
    busy,       \* useOnChange's busy and again
    again,
    run,        \* Runs.latest: the mode of the run that has the turn
    shown,      \* the panel's data
    failed,     \* whether the last read failed
    missed,     \* history: whether a change may have passed the panel by, in
                \*   one of the gaps of Accept and Tick, and no read since
    events      \* history: what counts against MaxEvents

panelVars  == <<due, busy, again, run, shown, failed, missed>>
sourceVars == <<source, dropped, visible, settling, events>>
vars == <<hubVars, cacheVars, panelVars, sourceVars>>

Init ==
    /\ HubInit /\ CacheInit
    /\ source = "open" /\ dropped = FALSE /\ visible = TRUE /\ settling = FALSE
    /\ due = FALSE /\ busy = FALSE /\ again = FALSE /\ run = "none"
    /\ shown = Zero /\ failed = FALSE /\ missed = FALSE
    /\ events = 0

---------------------------------------------------------------------------
\* The panel.

\* The panel's read is sent; one sent on an open stream makes up for a gap.
Reads == Asks(Tab) /\ missed' = (missed /\ ~open)

\* One call of tick: run(true), which begin refuses while any run has the turn.
\* The refused tick is over at once, and what it was told of is in no read.
Tick ==
    IF run = "none"
      THEN run' = "background" /\ busy' = TRUE /\ Reads
      ELSE busy' = FALSE /\ missed' = TRUE /\ UNCHANGED <<run, requestVars>>

\* fire: a tick, or another once the one in hand is over.
Fire ==
    IF busy
      THEN again' = TRUE /\ UNCHANGED <<busy, run, missed, requestVars>>
      ELSE Tick /\ UNCHANGED again

Tell ==
    /\ due /\ due' = FALSE
    /\ Fire
    /\ UNCHANGED <<shown, failed, rowVars, hubVars, sourceVars>>

\* The floor, every FLOOR_MS while the stream is down.
Floor ==
    /\ source # "open" /\ visible
    /\ Fire
    /\ UNCHANGED <<due, shown, failed, rowVars, hubVars, sourceVars>>

\* Mutant: fire forgets the notice that came while it was reading.
ReceiveOnce ==
    /\ phase[Tab] \in {"answered", "failed"}
    /\ shown' = IF phase[Tab] = "answered" THEN answer[Tab] ELSE shown
    /\ failed' = (phase[Tab] = "failed")
    /\ again' = FALSE /\ run' = "none" /\ busy' = FALSE
    /\ Ends(Tab)
    /\ UNCHANGED <<due, missed, rowVars, hubVars, sourceVars>>

\* The run that has the turn ends: a good answer is shown, a failure keeps what
\* is; and the loop of fire goes round if a notice came meanwhile.
Receive ==
    /\ phase[Tab] \in {"answered", "failed"}
    /\ shown' = IF phase[Tab] = "answered" THEN answer[Tab] ELSE shown
    /\ failed' = (phase[Tab] = "failed")
    /\ again' = FALSE
    /\ IF run = "background" /\ again
         THEN Reads /\ UNCHANGED <<run, busy>>
         ELSE /\ run' = "none" /\ busy' = FALSE
              /\ Ends(Tab) /\ UNCHANGED missed
    /\ UNCHANGED <<due, rowVars, hubVars, sourceVars>>

\* reload, or a change of deps: it takes the turn of any run in flight, whose
\* request is aborted, and whose loop ends on the run it may not begin.
Reload ==
    /\ "reload" \in Acts /\ events < MaxEvents
    /\ run' = "replace" /\ busy' = FALSE /\ again' = FALSE
    /\ Reads
    /\ events' = events + 1
    /\ UNCHANGED <<due, shown, failed, rowVars, hubVars,
                   source, dropped, visible, settling>>

---------------------------------------------------------------------------
\* The stream.

\* A notice, or a resync, is taken off the stream: the panel is told soon.
Deliver ==
    /\ source = "open" /\ open /\ queue # <<>>
    /\ queue' = Tail(queue) /\ due' = TRUE
    /\ UNCHANGED <<version, told, ripe, open, behind>>
    /\ UNCHANGED <<busy, again, run, shown, failed, missed, cacheVars, sourceVars>>

\* handleEvents has subscribed; its first bytes are on their way.  A stream the
\* tab closed itself comes back with nothing read of the time it was closed.
Accept ==
    /\ source = "connecting" /\ ~open
    /\ Subscribe
    /\ missed' = (missed \/ ~dropped)
    /\ UNCHANGED <<due, busy, again, run, shown, failed, cacheVars, sourceVars>>

OnOpen ==
    /\ source = "connecting" /\ open
    /\ source' = "open" /\ dropped' = FALSE
    /\ due' = (due \/ dropped)
    /\ UNCHANGED <<busy, again, run, shown, failed, missed>>
    /\ UNCHANGED <<visible, settling, events, hubVars, cacheVars>>

\* onerror of a stream that had been accepted: the browser opens it again.
Drop ==
    /\ source \in {"connecting", "open"} /\ open /\ events < MaxEvents
    /\ Unsubscribe
    /\ source' = "connecting" /\ dropped' = TRUE /\ events' = events + 1
    /\ UNCHANGED <<visible, settling, cacheVars, panelVars>>

\* onerror of one refused (a 401, a 502), which the browser does not retry.
Refuse ==
    /\ source = "connecting" /\ ~open
    /\ source' = "refused" /\ dropped' = TRUE /\ due' = TRUE
    /\ UNCHANGED <<visible, settling, events, hubVars, cacheVars>>
    /\ UNCHANGED <<busy, again, run, shown, failed, missed>>

Retry ==
    /\ source = "refused"
    /\ source' = "connecting"
    /\ UNCHANGED <<dropped, visible, settling, events, hubVars, cacheVars, panelVars>>

\* visibilitychange.
Hide ==
    /\ "hide" \in Acts /\ visible /\ events < MaxEvents
    /\ visible' = FALSE /\ settling' = TRUE /\ events' = events + 1
    /\ UNCHANGED <<source, dropped, hubVars, cacheVars, panelVars>>

Show ==
    /\ ~visible
    /\ visible' = TRUE /\ settling' = TRUE /\ due' = TRUE
    /\ UNCHANGED <<busy, again, run, shown, failed, missed>>
    /\ UNCHANGED <<source, dropped, events, hubVars, cacheVars>>

\* open(): close() for a hidden tab, a stream for one that has none.
Settle ==
    /\ settling /\ settling' = FALSE
    /\ IF visible
         THEN /\ source' = IF source = "none" THEN "connecting" ELSE source
              /\ UNCHANGED streamVars
         ELSE /\ source' = "none"
              /\ open' = FALSE /\ queue' = <<>> /\ behind' = FALSE
    /\ UNCHANGED <<version, told, ripe>>
    /\ UNCHANGED <<dropped, visible, events, cacheVars, panelVars>>

---------------------------------------------------------------------------
\* The writers, the hub and the reads, which touch none of the tab's state.

Writes(t) == Commit(t) /\ UNCHANGED <<panelVars, sourceVars>>
Marks(t)  == Mark(t) /\ UNCHANGED <<panelVars, sourceVars>>
Starts(r) == (Hit(r) \/ Miss(r)) /\ UNCHANGED <<panelVars, sourceVars>>
Serves(r) == (Keep(r) \/ \E t \in Topic : Query(r, t)) /\ UNCHANGED <<panelVars, sourceVars>>
Fails(r)  ==
    /\ events < MaxEvents /\ events' = events + 1
    /\ Fail(r)
    /\ UNCHANGED <<panelVars, source, dropped, visible, settling>>

Announces == Flush /\ UNCHANGED <<cacheVars, panelVars, sourceVars>>
Waits(t)  == IntervalPasses(t) /\ UNCHANGED <<cacheVars, panelVars, sourceVars>>

\* Another reader of the URL asks, and has its answer.
OtherAsks(r) ==
    /\ r # Tab /\ phase[r] = "none" /\ events < MaxEvents
    /\ Asks(r)
    /\ events' = events + 1
    /\ UNCHANGED <<rowVars, hubVars, panelVars, source, dropped, visible, settling>>

OtherReceives(r) ==
    /\ r # Tab /\ phase[r] \in {"answered", "failed"}
    /\ Ends(r)
    /\ UNCHANGED <<rowVars, hubVars, panelVars, sourceVars>>

Next ==
    \/ \E t \in Topic : Writes(t) \/ Marks(t) \/ Waits(t)
    \/ \E r \in Reader : Starts(r) \/ Serves(r) \/ Fails(r) \/ OtherAsks(r) \/ OtherReceives(r)
    \/ Announces
    \/ Tell \/ Floor \/ Receive \/ Reload
    \/ Deliver \/ Accept \/ OnOpen \/ Drop \/ Refuse \/ Retry
    \/ Hide \/ Show \/ Settle

Spec == Init /\ [][Next]_vars

\* Goroutines and timers run, a mutex lets each waiter in (hence SF for the
\* entry's lock), and a stream asked for is not refused for ever; nobody has to
\* write, ask, hide a tab or show it again.
FairSpec ==
    /\ Spec
    /\ \A t \in Topic : WF_vars(Marks(t)) /\ WF_vars(Waits(t))
    /\ \A r \in Reader : SF_vars(Starts(r)) /\ WF_vars(Serves(r))
    /\ WF_vars(Announces) /\ WF_vars(Tell) /\ WF_vars(Receive)
    /\ WF_vars(Deliver) /\ SF_vars(Accept) /\ WF_vars(OnOpen)
    /\ WF_vars(Retry) /\ WF_vars(Settle)

---------------------------------------------------------------------------
TypeOK ==
    /\ HubTypeOK /\ CacheTypeOK
    /\ source \in {"none", "connecting", "refused", "open"}
    /\ {dropped, visible, settling, due, busy, again, failed} \subseteq BOOLEAN
    /\ run \in {"none", "background", "replace"}
    /\ shown \in [Topic -> 0..MaxWrites]
    /\ events \in 0..MaxEvents

\* The tab's read under way will show all that was marked of t.
Reading(t) ==
    \/ phase[Tab] = "sent"
    \/ phase[Tab] = "computing" /\ t \in left[Tab]
    \/ phase[Tab] \in {"computing", "answered"} /\ answer[Tab][t] >= version[t]

\* NothingLost: while a screen lacks a write that has been marked, its last read
\* did not fail and no gap hid the write, word of it is on its way: a notice not
\* yet announced, queued or gathered, a resync owed, a stream to be opened again,
\* or a read that will show it (live.go, live.ts, hooks.ts).
NothingLost ==
    (visible /\ ~failed /\ phase[Tab] # "failed" /\ ~missed) =>
      \A t \in Topic : shown[t] < version[t] =>
        \/ Announced(t) \/ due \/ again \/ Reading(t)
        \/ source # "open" /\ (dropped \/ ~open)

\* CatchesUp: once nobody writes, a visible screen shows what was written in the
\* end - streams dropped, refused or too slow, and other readers of the URL
\* notwithstanding - unless its last read failed, which is left to the next
\* notice (useLoader), or a gap hid the write.
CatchesUp == []<>(visible /\ ~failed /\ ~missed => shown = data)

\* ShowsWhatItMissed: the same without the gaps, as live.ts and hooks.ts say: a
\* tab "reads every panel again once when it is shown, which is the one notice
\* it needs", and "a notice while one is reading is read again once it ends".
ShowsWhatItMissed == []<>(visible /\ ~failed => shown = data)
=============================================================================
