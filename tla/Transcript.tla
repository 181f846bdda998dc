----------------------------- MODULE Transcript -----------------------------
(***************************************************************************)
(* A chat read back from its recorded requests (admin/chats.go): each      *)
(* request carries the whole conversation again, and the page shows what   *)
(* it added to its thread, in windows, over a cache of what was counted    *)
(* before; and the chat's context, with the times it fell                  *)
(* (store/context.go).  A session is several threads at once: the main one *)
(* and a side one, the main replaced, root and all, when it is compacted.  *)
(***************************************************************************)
EXTENDS Naturals, Sequences, SequencesExt, FiniteSets, FiniteSetsExt, TLC

CONSTANTS
    CompactionFloor,    \* compactionFloor
    BigEnough,          \* the messages a client compacts after
    ListedEvents,       \* ChatEvents' limit
    MaxCounts,          \* maxTurnCounts
    MaxEvents,          \* bound: requests of the chat
    MaxCompacted        \* bound: compactions

VARIABLES
    convo,      \* the client's threads: which conversation, and its messages
    chatRows,   \* the chat's rows with what was recorded of each, oldest first
    counted     \* turnCounts: by row, what was counted of it

transcriptVars == <<convo, chatRows, counted>>

Thread == {"main", "side"}

TranscriptInit ==
    /\ convo = ("main" :> [root |-> 1, said |-> <<<<"main", 0, "asked">>, <<"main", 0, "answer">>>>]
                @@ "side" :> [root |-> 1, said |-> <<>>])
    /\ chatRows = <<>> /\ counted = <<>>

LastId == Len(chatRows)

---------------------------------------------------------------------------
\* The client, and the rows of what it asks.

\* A request of a thread, the main one of a session taken up again: the person
\* or the agent says one more message, or it sends what it has again.  It is
\* answered, or fails; and what is recorded of it may not be read into Messages.
AskOnThread(t, again, answered, odd) ==
    LET said == IF again THEN convo[t].said ELSE Append(convo[t].said, <<t, LastId + 1, "asked">>)
        id == IF chatRows = <<>> THEN 1 ELSE Last(chatRows).id + 1
    IN
    /\ id <= MaxEvents /\ (again \/ ~answered => ~odd)
    /\ t = "side" => answered /\ ~again /\ ~odd
    /\ again => convo[t].said # <<>> /\ Last(convo[t].said)[3] = "asked"
    /\ chatRows' = Append(chatRows,
          [id |-> id, thread |-> t, root |-> <<t, convo[t].root>>, system |-> t, said |-> said,
           answered |-> answered, recorded |-> TRUE, odd |-> odd,
           model |-> IF t = "main" THEN "big" ELSE "small",
           prompt |-> IF t = "main" THEN Len(said) * Len(said) ELSE 1])
    /\ convo' = [convo EXCEPT ![t].said = IF answered THEN Append(said, <<t, id, "answer">>) ELSE said]
    /\ UNCHANGED counted

\* The answer was the end of the client's patience: it goes back to what it
\* asked, and asks it again.
DropAnswer(t) ==
    /\ convo[t].said # <<>> /\ Last(convo[t].said)[3] = "answer"
    /\ convo' = [convo EXCEPT ![t].said = Front(@)]
    /\ UNCHANGED <<chatRows, counted>>

\* The main conversation is replaced by its summary, under the same system.
Compact ==
    /\ Len(convo["main"].said) > BigEnough /\ Last(convo["main"].said)[3] = "answer"
    /\ convo["main"].root <= MaxCompacted
    /\ convo' = [convo EXCEPT !["main"] = [root |-> @.root + 1, said |-> <<>>]]
    /\ UNCHANGED <<chatRows, counted>>

\* The oldest recording is let go of.
DropRecording ==
    /\ chatRows # <<>> /\ chatRows[1].recorded
    /\ chatRows' = [chatRows EXCEPT ![1].recorded = FALSE]
    /\ UNCHANGED <<convo, counted>>

---------------------------------------------------------------------------
\* The transcript.

\* ChatEvents: the latest.
ChatEvents == IF Len(chatRows) <= ListedEvents THEN chatRows
              ELSE SubSeq(chatRows, Len(chatRows) - ListedEvents + 1, Len(chatRows))

\* partHash of the first message and of the system prompt, whose cache markers
\* are moved from turn to turn.
\* Mutant: with the markers where they are.
MarkedRoot(row) == <<row.root, Len(row.said)>>
RootOf(row) == row.root

\* readTurn: a turn's count.
ReadTurn(row) ==
    [id |-> row.id, unread |-> row.odd, root |-> RootOf(row), system |-> row.system,
     messages |-> Len(row.said), answered |-> row.answered, prompt |-> row.prompt]

Within(id, from, to) == (from = 0 \/ id >= from) /\ (to = 0 \/ id <= to)

\* put: the map starts over when it is full.
PutCount(m, count) ==
    (count.id :> count) @@ (IF Cardinality(DOMAIN m) >= MaxCounts THEN <<>> ELSE m)

\* Each recorded row's count: read, of those in the window, else from the cache
\* if it is there.
TurnsRead(from, to) ==
    FoldLeft(LAMBDA s, row :
        IF ~row.recorded THEN s
        ELSE IF ~Within(row.id, from, to) /\ row.id \in DOMAIN s.m
          THEN [s EXCEPT !.all = Append(@, s.m[row.id])]
          ELSE [all |-> Append(s.all, ReadTurn(row)), m |-> PutCount(s.m, ReadTurn(row))],
        [all |-> <<>>, m |-> counted], ChatEvents)

\* The threads, by root, in the order they began: the main one carries the
\* largest prompt, and any other with its system is the main one too.
Roots(all) ==
    FoldLeft(LAMBDA s, c : IF c.unread \/ c.root \in Range(s) THEN s ELSE Append(s, c.root), <<>>, all)
Peak(all, r) == Max({c.prompt : c \in {d \in Range(all) : ~d.unread /\ d.root = r}})
SystemOf(all, r) == (CHOOSE c \in Range(all) : ~c.unread /\ c.root = r).system

\* Mutant: the thread that began first is the main one.
BeganFirst(all, order) == order[1]
MainRoot(all, order) ==
    LET i == CHOOSE k \in DOMAIN order :
               /\ \A j \in DOMAIN order : Peak(all, order[j]) <= Peak(all, order[k])
               /\ \A j \in 1 .. k - 1 : Peak(all, order[j]) < Peak(all, order[k])
    IN order[i]

ThreadsBeside(all, order, main) ==
    [i \in DOMAIN order |->
       [root |-> order[i],
        main |-> order[i] = main \/ SystemOf(all, order[i]) = SystemOf(all, main)]]
Threads(all, order) ==
    IF order = <<>> THEN <<>> ELSE ThreadsBeside(all, order, MainRoot(all, order))
MainFirst(threads) ==
    SelectSeq(threads, LAMBDA t : t.main) \o SelectSeq(threads, LAMBDA t : ~t.main)
Numbered(all) == MainFirst(Threads(all, Roots(all)))

ThreadOf(threads, c) == CHOOSE i \in DOMAIN threads : threads[i].root = c.root

\* Mutant: the turns before the window are not counted.
SeenInWindow(seen, c, thread, shown) ==
    IF shown THEN (thread :> c.messages + (IF c.answered THEN 1 ELSE 0)) @@ seen ELSE seen
\* What the next turn of the thread is set against.
SeenAfter(seen, c, thread, shown) == (thread :> c.messages + (IF c.answered THEN 1 ELSE 0)) @@ seen

\* A turn, its thread having been carried so far.
TurnAfter(c, thread, before) ==
    LET restarted == ~c.unread /\ c.messages < before
    IN [id |-> c.id, thread |-> thread, unread |-> c.unread, restarted |-> restarted,
        offset |-> IF c.unread \/ restarted THEN 0 ELSE before,
        messages |-> c.messages, answered |-> c.answered]
CarriedTo(seen, thread) == IF thread \in DOMAIN seen THEN seen[thread] ELSE 0

WithTurn(s, c, thread, shown) ==
    [seen |-> IF c.unread THEN s.seen ELSE SeenAfter(s.seen, c, thread, shown),
     turns |-> IF shown THEN Append(s.turns, TurnAfter(c, thread, CarriedTo(s.seen, thread)))
               ELSE s.turns]
TurnsOf(all, threads, from, to) ==
    FoldLeft(LAMBDA s, c : WithTurn(s, c, IF c.unread THEN 0 ELSE ThreadOf(threads, c),
                                    Within(c.id, from, to)),
             [seen |-> <<>>, turns |-> <<>>], all).turns
Turns(all, from, to) == TurnsOf(all, Numbered(all), from, to)

\* The whole chat, read with nothing cached.
Whole == LET listed == SelectSeq(ChatEvents, LAMBDA row : row.recorded)
         IN [i \in DOMAIN listed |-> ReadTurn(listed[i])]

\* The windows a page asks for: of either bound or none.
RowBounds == {0} \cup {row.id : row \in Range(ChatEvents)}

HandleChatTranscript(from, to) ==
    /\ counted' = TurnsRead(from, to).m
    /\ UNCHANGED <<convo, chatRows>>

---------------------------------------------------------------------------
\* The context: the models that carried the conversation, as one sequence.
AnsweredRows == SelectSeq(ChatEvents, LAMBDA row : row.answered)
PeakOf(rows, m) == Max({0} \cup {r.prompt : r \in {x \in Range(rows) : x.model = m}})
\* Mutant: those beside it with them.
EveryRow(rows) == rows
MainRows(rows) ==
    SelectSeq(rows, LAMBDA r : PeakOf(rows, r.model) * 2 >= Max({PeakOf(rows, m) : m \in {"big", "small"}}))

Falls(rows) ==
    Cardinality({i \in 2 .. Len(rows) :
        rows[i - 1].prompt >= CompactionFloor /\ rows[i].prompt * 2 < rows[i - 1].prompt})
ContextOf == Falls(MainRows(AnsweredRows))

TranscriptNext ==
    \/ \E t \in Thread, again, answered, odd \in BOOLEAN : AskOnThread(t, again, answered, odd)
    \/ DropAnswer("main")
    \/ Compact \/ DropRecording
    \/ \E from \in RowBounds : HandleChatTranscript(from, 0)

TranscriptSpec == TranscriptInit /\ [][TranscriptNext]_transcriptVars

---------------------------------------------------------------------------
\* Properties.

\* A window shows of each turn what the whole transcript shows of it, whatever
\* was counted before.
WindowsAgree(turns) ==
    \A from, to \in RowBounds : to = 0 \/ from <= to =>
        Turns(TurnsRead(from, to).all, from, to) = SelectSeq(turns, LAMBDA t : Within(t.id, from, to))

\* Since a thread was last read from its start, each message of it is shown
\* once, its answers with them, and none is passed over.
ShownOf(t) == [i \in 1 .. t.messages - t.offset |-> t.offset + i]
              \o IF t.answered THEN <<t.messages + 1>> ELSE <<>>
LastRestart(its) == Max({1} \cup {i \in DOMAIN its : its[i].restarted})
ShownSince(its, first) == FlattenSeq([i \in 1 .. Len(its) - first + 1 |-> ShownOf(its[first + i - 1])])
InOrder(shown) == shown = [i \in DOMAIN shown |-> i]
ThreadShown(its) == InOrder(ShownSince(its, LastRestart(its)))
EachOnce(turns) ==
    \A th \in {t.thread : t \in Range(turns)} \ {0} :
        ThreadShown(SelectSeq(turns, LAMBDA t : t.thread = th))

\* A thread is one conversation of the client's.
ThreadsApart(all, rows, threads) ==
    \A i, j \in DOMAIN all :
        ~all[i].unread /\ ~all[j].unread =>
            (ThreadOf(threads, all[i]) = ThreadOf(threads, all[j]) <=> rows[i].root = rows[j].root)

\* Once the main conversation has grown past the side one, it is the main one,
\* what was compacted with it.
MainIsMain(all, rows, threads) ==
    (\E c \in Range(all) : ~c.unread /\ c.prompt > 1) =>
        \A i \in DOMAIN all :
            ~all[i].unread => (threads[ThreadOf(threads, all[i])].main <=> rows[i].thread = "main")

\* The context fell as often as the conversation was replaced.
FallsAreCompactions ==
    LET mains == SelectSeq(AnsweredRows, LAMBDA row : row.thread = "main")
    IN ContextOf = Cardinality({i \in 2 .. Len(mains) : mains[i].root # mains[i - 1].root})

\* The whole transcript, its threads and its windows, and the context's falls.
RecordedRows == SelectSeq(ChatEvents, LAMBDA row : row.recorded)
ShowsWhole(all, rows, threads, turns) ==
    WindowsAgree(turns) /\ EachOnce(turns) /\ ThreadsApart(all, rows, threads) /\ MainIsMain(all, rows, threads)
TranscriptSound ==
    /\ ShowsWhole(Whole, RecordedRows, Numbered(Whole), Turns(Whole, 0, 0))
    /\ FallsAreCompactions
=============================================================================
