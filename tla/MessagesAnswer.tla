---------------------------- MODULE MessagesAnswer ----------------------------
(***************************************************************************)
(* api/anthropic, the answer half: what the ChatGPT backend streams        *)
(* (fromresponses.go) or Code Assist does (fromgemini.go), said as the     *)
(* events of an Anthropic stream, and the sink around either (sink.go):    *)
(* it tells a stream from a whole answer, pings a silent one, gathers one  *)
(* message for a caller that did not stream, and ends what upstream broke  *)
(* off.  A text, an arguments string or a summary is one delta.            *)
(*                                                                         *)
(* And the second half of api.Chain: those events, Claude's own or another *)
(* upstream's, said in the dialect the client speaks: a Responses stream   *)
(* for Codex (api/openai, stream.go) and a Gemini one (api/gemini,         *)
(* frommessages.go).  Both read one event at a time and keep no more than  *)
(* they will say, so each is a fold over the events so far; the whole      *)
(* answer of a client that does not stream is made from the gathered       *)
(* message instead.                                                        *)
(***************************************************************************)
EXTENDS Naturals, SequencesExt, FiniteSets, TLC

CONSTANTS MaxItems      \* bound: items, or parts, of one answer

VARIABLES
    asked,      \* the request: its upstream, whether it streams, its thinking
    items,      \* the backend's items: what each is and how much of it has come
    conv,       \* converter or geminiConverter, and the events it has said
    sink        \* responsesSink: the shape of the answer, what the client has

answerVars == <<asked, items, conv, sink>>

Thinkings == {"none", "omitted", "shown"}
Fresh0 == [started |-> FALSE, finished |-> FALSE, next |-> 0, open |-> <<>>, seen |-> {},
           calls |-> FALSE, refused |-> FALSE, signed |-> FALSE, out |-> <<>>]

AnswerInit ==
    /\ asked \in [up : {"responses", "gemini"}, stream : BOOLEAN, thinking : Thinkings]
    /\ items = <<>> /\ conv = Fresh0
    /\ sink = [shape |-> "none", sent |-> "nothing"]

---------------------------------------------------------------------------
\* The events: what each is, the block it is of, and the kind of block, the
\* item a delta says, or the stop reason.
Ev(e, i, x) == [e |-> e, i |-> i, x |-> x]
Emit(c, ev) == [c EXCEPT !.out = Append(@, ev)]

\* start: message_start, once; the ping after it is left out.
Start(c) == IF c.started THEN c
            ELSE Emit([c EXCEPT !.started = TRUE], Ev("message_start", 0, "-"))

\* begin, delta and stop, on the open block at a position of the answer.
Begin(c, key, kind) ==
    Emit([c EXCEPT !.next = @ + 1, !.seen = @ \cup {key}, !.signed = FALSE,
                   !.open = Append(@, [key |-> key, i |-> c.next, kind |-> kind, streamed |-> FALSE])],
         Ev("block_start", c.next, kind))

OpenAt(c, key) == SelectSeq(c.open, LAMBDA b : b.key = key)
IsOpen(c, key) == OpenAt(c, key) # <<>>

Delta(c, key, x) ==
    Emit([c EXCEPT !.open = [j \in DOMAIN @ |-> IF @[j].key = key THEN [@[j] EXCEPT !.streamed = TRUE]
                                                                  ELSE @[j]]],
         Ev("delta", OpenAt(c, key)[1].i, x))

Stop(c, key) ==
    IF ~IsOpen(c, key) THEN c
    ELSE Emit([c EXCEPT !.open = SelectSeq(@, LAMBDA b : b.key # key)],
              Ev("block_stop", OpenAt(c, key)[1].i, "-"))

\* closeAll, and closeOpen of the Gemini converter, which holds one.
CloseAll(c) ==
    [c EXCEPT !.open = <<>>,
              !.out = @ \o [j \in DOMAIN c.open |-> Ev("block_stop", c.open[j].i, "-")]]

StopReason(c, incomplete) ==
    IF c.refused \/ incomplete = "content_filter" THEN "refusal"
    ELSE IF incomplete = "max_output_tokens" THEN "max_tokens"
    ELSE IF c.calls THEN "tool_use" ELSE "end_turn"

Finish(c, reason) ==
    Emit([CloseAll(Start(c)) EXCEPT !.finished = TRUE], Ev("message_stop", 0, reason))

\* Mutant: an answer that fails leaves its blocks as they are.
FailOpen(c) ==
    IF c.finished THEN c ELSE Emit([c EXCEPT !.finished = TRUE], Ev("error", 0, "-"))

Fail(c) ==
    IF c.finished THEN c ELSE Emit([CloseAll(c) EXCEPT !.finished = TRUE], Ev("error", 0, "-"))

---------------------------------------------------------------------------
\* fromresponses.go.  Positions are <<item>> and, for a message's part,
\* <<item, 0>>; the kinds of item are "message", a "refusal" in one,
\* "reasoning", "call" and "search".
Item(o) == ToString(o)
Part(o) == ToString(o) \o "/0"

OpenText(c, o) ==
    LET d == [c EXCEPT !.refused = @ \/ items'[o].is = "refusal"]
    IN IF IsOpen(d, Part(o)) THEN d ELSE Begin(Start(d), Part(o), "text")

ItemAdded(c, o) ==
    CASE items'[o].is = "reasoning" /\ asked.thinking # "none" -> Begin(c, Item(o), "thinking")
      [] items'[o].is = "call" -> Begin([c EXCEPT !.calls = TRUE], Item(o), "tool_use")
      [] OTHER -> c

\* A delta of an item that holds a block open for it.
ItemDelta(c, o) ==
    IF ~IsOpen(c, Item(o)) \/ (items'[o].is = "reasoning" /\ asked.thinking # "shown") THEN c
    ELSE Delta(c, Item(o), Item(o))

\* Mutant: a done item says what it holds, whether or not it has streamed.
UnseenAlways(c, key) == TRUE
\* What of a done item has not streamed.
Unseen(c, key) == ~\E j \in DOMAIN c.open : c.open[j].key = key /\ c.open[j].streamed

MessageDone(c, o, listed) ==
    IF listed /\ Part(o) \notin c.seen
      THEN Stop(Delta(OpenText(c, o), Part(o), Part(o)), Part(o))
      ELSE Stop(c, Part(o))

\* A reasoning item or a call: opened if it was not, and said if it did not
\* stream; the signature goes last.
BlockDone(c, o, kind, says, signs) ==
    LET k == Item(o)
        b == IF IsOpen(c, k) THEN c ELSE Begin(c, k, kind)
        d == IF says /\ Unseen(b, k) THEN Delta(b, k, k) ELSE b
    IN Stop(IF signs THEN Delta(d, k, "signature") ELSE d, k)

WebSearch(c, o) ==
    LET call == Item(o) \o "/call" result == Item(o) \o "/result"
        asking == Stop(Delta(Begin(c, call, "server_tool_use"), call, "query"), call)
    IN Stop(Begin(asking, result, "web_search_tool_result"), result)

ItemDone(c, o, listed) ==
    CASE items'[o].is \in {"message", "refusal"} -> MessageDone(c, o, listed)
      [] items'[o].is = "reasoning" ->
           IF asked.thinking = "none" THEN c
           ELSE BlockDone(c, o, "thinking", asked.thinking = "shown", TRUE)
      [] items'[o].is = "call" -> BlockDone([c EXCEPT !.calls = TRUE], o, "tool_use", TRUE, FALSE)
      [] items'[o].is = "search" -> WebSearch(c, o)

---------------------------------------------------------------------------
\* fromgemini.go: each event holds the parts since the last, and a run of one
\* kind is one block.
GeminiKind(c, kind) ==
    IF c.open # <<>> /\ Last(c.open).kind = kind THEN c
    ELSE Begin(CloseAll(c), ToString(c.next), kind)

GeminiDelta(c, x) == Delta(c, Last(c.open).key, x)
Sign(c) == [GeminiDelta(c, "signature") EXCEPT !.signed = TRUE]

\* call: the block that carries its signature, then the call, all of it.
Call(c, o, signed) ==
    LET carrier == IF c.open # <<>> /\ Last(c.open).kind = "thinking" /\ ~c.signed THEN c
                   ELSE Begin(CloseAll(c), ToString(c.next), "thinking")
        before == IF signed /\ asked.thinking # "none" THEN Sign(carrier) ELSE c
        said == GeminiDelta(Begin(CloseAll(before), ToString(before.next), "tool_use"), Item(o))
    IN [CloseAll(said) EXCEPT !.calls = TRUE]

GeminiPart(c, o, is, signed) ==
    CASE is = "call" -> Call(c, o, signed)
      [] is = "reasoning" ->
           IF asked.thinking = "none" THEN c
           ELSE LET b == GeminiKind(c, "thinking")
                    d == IF asked.thinking = "shown" THEN GeminiDelta(b, Item(o)) ELSE b
                IN IF signed THEN Sign(d) ELSE d
      [] is = "message" -> GeminiDelta(GeminiKind(c, "text"), Item(o))

GeminiEnd(c, why) ==
    CASE why = "STOP" -> Finish(c, IF c.calls THEN "tool_use" ELSE "end_turn")
      [] why = "MAX_TOKENS" -> Finish(c, "max_tokens")
      [] why = "SAFETY" -> Finish(c, "refusal")
      [] why = "MALFORMED_FUNCTION_CALL" -> Fail(c)

---------------------------------------------------------------------------
\* The answer comes: a refusal, or a 200 whose first bytes tell which it is.
Sniff(shape) ==
    /\ sink.shape = "none" /\ shape \in {"refused", "empty", "stream", "whole"}
    /\ sink' = [shape |-> shape,
                sent |-> IF shape = "stream" /\ asked.stream THEN "stream" ELSE "nothing"]
    /\ UNCHANGED <<asked, items, conv>>

\* The backend says something: as it streams, or in the body of a whole answer.
Comes(up) ==
    /\ sink.shape \in {"stream", "whole"} /\ asked.up = up
    /\ ~conv.finished /\ UNCHANGED <<asked, sink>>

\* response.created, or an event of Gemini's with nothing in it.
Created ==
    /\ Comes(asked.up) /\ sink.shape = "stream"
    /\ conv' = Start(conv) /\ UNCHANGED items

\* output_item.added.
AddItem(is) ==
    /\ Comes("responses") /\ sink.shape = "stream" /\ Len(items) < MaxItems
    /\ items' = Append(items, [is |-> is, done |-> FALSE, deltas |-> 0])
    /\ conv' = ItemAdded(Start(conv), Len(items'))

\* content_part.added.  What it opens streams, before the item is done.
AddPart(o) ==
    /\ Comes("responses") /\ sink.shape = "stream"
    /\ items[o].is \in {"message", "refusal"} /\ ~items[o].done /\ Part(o) \notin conv.seen
    /\ items' = items /\ conv' = OpenText(conv, o)

\* output_text.delta, opening its part if content_part.added did not; a
\* summary's; a call's arguments'.
StreamItem(o) ==
    /\ Comes("responses") /\ ~items[o].done /\ items[o].deltas = 0 /\ items[o].is # "search"
    /\ items' = [items EXCEPT ![o].deltas = 1]
    /\ conv' = IF items[o].is \in {"message", "refusal"} THEN Delta(OpenText(conv, o), Part(o), Part(o))
               ELSE ItemDelta(conv, o)

\* content_part.done.
PartDone(o) ==
    /\ Comes("responses") /\ ~items[o].done /\ items[o].deltas = 1
    /\ conv' = Stop(conv, Part(o)) /\ UNCHANGED items

\* output_item.done, of an item that may list what it streamed or may not.
DoneItem(o, listed) ==
    /\ Comes("responses") /\ ~items[o].done
    /\ items[o].deltas = 1 \/ (listed /\ Part(o) \notin conv.seen)
    /\ items' = [items EXCEPT ![o].done = TRUE]
    /\ conv' = ItemDone(Start(conv), o, listed)

\* An item that comes done only: a whole answer has no other.
DoneOnly(is) ==
    /\ Comes("responses") /\ Len(items) < MaxItems
    /\ items' = Append(items, [is |-> is, done |-> TRUE, deltas |-> 0])
    /\ conv' = ItemDone(Start(conv), Len(items'), TRUE)

\* response.completed or incomplete; response.failed, error, or one of
\* Gemini's in place of an answer.
Completed(incomplete) ==
    /\ Comes("responses") /\ \A o \in DOMAIN items : items[o].done
    /\ conv' = Finish(conv, StopReason(conv, incomplete)) /\ UNCHANGED items

Failed == Comes(asked.up) /\ conv' = Fail(conv) /\ UNCHANGED items

\* handle of Gemini's: a part, and the reason it finished, if it did.
GeminiSays(is, signed, why) ==
    /\ Comes("gemini") /\ Len(items) < MaxItems
    /\ items' = Append(items, [is |-> is, done |-> TRUE, deltas |-> 0])
    /\ conv' = LET c == GeminiPart(Start(conv), Len(items'), is, signed)
               IN IF why = "" THEN c ELSE GeminiEnd(c, why)

\* Mutant: the pinger does not look whether the answer is done.
PingEver ==
    /\ sink.sent = "stream" /\ sink.shape # "closed"
    /\ Len(conv.out) < 3 * MaxItems /\ conv' = Emit(conv, Ev("ping", 0, "-"))
    /\ UNCHANGED <<asked, items, sink>>

\* ping, its ticker's: under the lock, while there is an answer under way.  (Of
\* the pings of one answer, one is enough here.)
Ping ==
    /\ sink.sent = "stream" /\ sink.shape # "closed" /\ conv.started /\ ~conv.finished
    /\ \A j \in DOMAIN conv.out : conv.out[j].e # "ping"
    /\ conv' = Emit(conv, Ev("ping", 0, "-"))
    /\ UNCHANGED <<asked, items, sink>>

\* Close, with a last frame handled before it if one was cut off.  A whole
\* answer of Gemini's that does not say it finished is finished; any other
\* that is not is failed.  A gathered message goes out as its error's status
\* or as 200, and what cannot be read, or is too large, as 502.
Close(readable) ==
    /\ sink.shape \notin {"none", "closed"} /\ UNCHANGED <<asked, items>>
    /\ LET unread == sink.shape = "whole" /\ ~readable
           c == IF unread \/ sink.shape = "refused" \/ conv.finished THEN conv
                ELSE IF sink.shape = "whole" /\ asked.up = "gemini" THEN GeminiEnd(conv, "STOP")
                ELSE Fail(conv)
       IN /\ conv' = IF unread THEN [c EXCEPT !.out = <<>>] ELSE c
          /\ sink' = [shape |-> "closed",
                      sent |-> IF sink.shape = "refused" THEN "refusal"
                               ELSE IF unread THEN "unread"
                               ELSE IF asked.stream THEN "stream"
                               ELSE IF Last(c.out).e = "error" THEN "error" ELSE "message"]

AnswerNext ==
    \/ \E shape \in {"refused", "empty", "stream", "whole"} : Sniff(shape)
    \/ Created \/ Failed \/ Ping
    \/ \E is \in {"message", "refusal", "reasoning", "call", "search"} : AddItem(is) \/ DoneOnly(is)
    \/ \E o \in DOMAIN items : AddPart(o) \/ StreamItem(o) \/ PartDone(o) \/ \E listed \in BOOLEAN : DoneItem(o, listed)
    \/ \E incomplete \in {"", "max_output_tokens", "content_filter"} : Completed(incomplete)
    \/ \E is \in {"message", "reasoning", "call"}, signed \in BOOLEAN,
          why \in {"", "STOP", "MAX_TOKENS", "SAFETY", "MALFORMED_FUNCTION_CALL"} :
         GeminiSays(is, signed, why)
    \/ \E readable \in BOOLEAN : Close(readable)

AnswerSpec == AnswerInit /\ [][AnswerNext]_answerVars

---------------------------------------------------------------------------
Said(e)   == {j \in DOMAIN conv.out : conv.out[j].e = e}
Ends      == Said("message_stop") \cup Said("error")
OpenedBy(i, j) == \E k \in Said("block_start") : k < j /\ conv.out[k].i = i
StoppedBy(i, j) == \E k \in Said("block_stop") : k < j /\ conv.out[k].i = i

\* The client's SDK can accumulate whatever goes out: message_start first,
\* blocks numbered in the order they open, each stopped once, deltas and stops
\* only of an open one, and after the one end nothing, with no block open.
WellFormed ==
    LET out == conv.out IN
    /\ \A j \in DOMAIN out : out[j].e = "message_start" => j = 1
    /\ out # <<>> /\ out[1].e # "message_start" => out[1].e = "error"
    /\ \A j \in Said("block_start") : out[j].i = Cardinality({k \in Said("block_start") : k < j})
    /\ \A j \in Said("delta") \cup Said("block_stop") :
         OpenedBy(out[j].i, j) /\ ~StoppedBy(out[j].i, j)
    /\ \A j \in Ends : j = Len(out)
    /\ Ends # {} => \A j \in Said("block_start") : StoppedBy(out[j].i, Len(out))

\* What the backend said of an item is in the answer, and once, whether it
\* streamed it or only listed it.
SaidOf(o) == {j \in Said("delta") : conv.out[j].x \in {Item(o), Part(o)}}
Shows(o)  == items[o].is # "search" /\ (items[o].is = "reasoning" => asked.thinking = "shown")
SaidOnce  == sink.sent # "unread" =>
    \A o \in DOMAIN items : items[o].done /\ Shows(o) => Cardinality(SaidOf(o)) = 1

\* A stop reason of tool_use has a tool_use block to run, and no other reason
\* but a refusal or a cut has one.
StopTellsTools ==
    \A j \in Said("message_stop") :
        LET calls == \E k \in Said("block_start") : conv.out[k].x = "tool_use"
        IN /\ conv.out[j].x = "tool_use" => calls
           /\ conv.out[j].x = "end_turn" => ~calls

\* A caller that streamed has an end once the sink is closed; one that did not
\* has a message only of an answer that ended well.
EndsAsItWas ==
    sink.shape = "closed" =>
        /\ sink.sent \in {"stream", "message", "error"} => Ends # {}
        /\ sink.sent = "message" => Said("error") = {}

AnswerIsWhole == WellFormed /\ SaidOnce /\ StopTellsTools /\ EndsAsItWas

---------------------------------------------------------------------------
\* openai.Stream: the open block, the items done, and the frames sent.
NewStream == [open |-> "", text |-> <<>>, items |-> <<>>, finished |-> FALSE, frames |-> <<>>]

Send(s, frame, what) == [s EXCEPT !.frames = Append(@, [f |-> frame, x |-> what])]

\* Blocks of a kind it does not know are text.
ItemKind(kind) == IF kind \in {"tool_use", "thinking"} THEN kind ELSE "text"

\* stopBlock: the item whole, in output_item.done and for the last frame.
StopBlock(s) ==
    IF s.open = "" THEN s
    ELSE LET item == <<s.open, s.text>>
         IN Send([s EXCEPT !.open = "", !.items = Append(@, item)], "item_done", item)

StartBlock(s, kind) ==
    LET t == StopBlock(s)
    IN Send([t EXCEPT !.open = ItemKind(kind), !.text = <<>>], "item_added", ItemKind(kind))

\* deltaBlock: arguments wait for the item, and a signature is not told.
DeltaBlock(s, x) ==
    IF s.open = "" \/ x = "signature" THEN s
    ELSE LET t == [s EXCEPT !.text = Append(@, x)]
         IN IF s.open = "tool_use" THEN t ELSE Send(t, "delta", x)

\* complete and Fail, once.
CompleteTurn(s, reason) ==
    IF s.finished THEN s
    ELSE LET t == StopBlock(s)
         IN Send([t EXCEPT !.finished = TRUE],
                 IF reason = "max_tokens" THEN "incomplete" ELSE "completed", t.items)

FailTurn(s) == IF s.finished THEN s ELSE Send([s EXCEPT !.finished = TRUE], "failed", s.items)

\* Mutant: a block that stops says nothing of its own.
HandleUnstopped(s, ev) ==
    CASE ev.e = "message_start" -> Send(s, "created", "-")
      [] ev.e = "ping"          -> Send(s, "in_progress", "-")
      [] ev.e = "block_start"   -> Send([s EXCEPT !.open = ItemKind(ev.x)], "item_added", ItemKind(ev.x))
      [] ev.e = "delta"         -> DeltaBlock(s, ev.x)
      [] ev.e = "block_stop"    -> StopBlock(s)
      [] ev.e = "message_stop"  -> CompleteTurn(s, ev.x)
      [] ev.e = "error"         -> FailTurn(s)

Handle(s, ev) ==
    CASE ev.e = "message_start" -> Send(s, "created", "-")
      [] ev.e = "ping"          -> Send(s, "in_progress", "-")
      [] ev.e = "block_start"   -> StartBlock(s, ev.x)
      [] ev.e = "delta"         -> DeltaBlock(s, ev.x)
      [] ev.e = "block_stop"    -> StopBlock(s)
      [] ev.e = "message_stop"  -> CompleteTurn(s, ev.x)
      [] ev.e = "error"         -> FailTurn(s)

\* The frames so far, and, once the sink has closed, Finish.
CodexStream ==
    LET s == FoldLeft(Handle, NewStream, conv.out)
    IN IF sink.shape = "closed" THEN FailTurn(s) ELSE s

---------------------------------------------------------------------------
\* geminiStream: the blocks open, by index; the thinking block that waits for
\* the part it is carried on; and the parts sent.
NewGemini == [blocks |-> <<>>, signature |-> <<>>, finished |-> FALSE, parts |-> <<>>]

BlockAt(s, i) == SelectSeq(s.blocks, LAMBDA b : b.i = i)

\* sign: what waits goes on this part, once.
SignPart(s, is, says) ==
    [s EXCEPT !.parts = Append(@, [is |-> is, says |-> says, carries |-> s.signature]),
              !.signature = <<>>]

Thought(s, x) ==
    IF asked.thinking # "shown" THEN s
    ELSE [s EXCEPT !.parts = Append(@, [is |-> "thought", says |-> <<x>>, carries |-> <<>>])]

\* blockParts, of a block that ended: a thinking block with a signature waits,
\* a call is said.
BlockParts(s, b) ==
    CASE b.kind = "thinking" -> IF b.signed THEN [s EXCEPT !.signature = <<b.i>>] ELSE s
      [] b.kind = "tool_use" -> SignPart(s, "call", b.says)
      [] OTHER -> s

GeminiDeltaOf(s, b, x) ==
    LET told == [s EXCEPT !.blocks = [j \in DOMAIN @ |->
                    IF @[j].i # b.i THEN @[j]
                    ELSE IF x = "signature" THEN [@[j] EXCEPT !.signed = TRUE]
                                            ELSE [@[j] EXCEPT !.says = Append(@, x)]]]
    IN CASE x = "signature" -> told
         [] x # "signature" /\ b.kind = "text" -> SignPart(told, "text", <<x>>)
         [] x # "signature" /\ b.kind = "thinking" -> Thought(told, x)
         [] OTHER -> told

LastPart(s, why) ==
    [SignPart(s, why, <<>>) EXCEPT !.finished = TRUE]

GeminiFails(s) ==
    IF s.finished THEN s
    ELSE [s EXCEPT !.finished = TRUE,
                   !.parts = Append(@, [is |-> "error", says |-> <<>>, carries |-> <<>>])]

HandleGemini(s, ev) ==
    IF s.finished THEN s
    ELSE CASE ev.e = "block_start" ->
                [s EXCEPT !.blocks = Append(@, [i |-> ev.i, kind |-> ev.x, says |-> <<>>, signed |-> FALSE])]
           [] ev.e = "delta" ->
                IF BlockAt(s, ev.i) = <<>> THEN s ELSE GeminiDeltaOf(s, BlockAt(s, ev.i)[1], ev.x)
           [] ev.e = "block_stop" ->
                IF BlockAt(s, ev.i) = <<>> THEN s
                ELSE BlockParts([s EXCEPT !.blocks = SelectSeq(@, LAMBDA b : b.i # ev.i)],
                                BlockAt(s, ev.i)[1])
           [] ev.e = "message_stop" -> LastPart(s, "finish")
           [] ev.e = "error" -> GeminiFails(s)
           [] OTHER -> s

GeminiStream ==
    LET s == FoldLeft(HandleGemini, NewGemini, conv.out)
    IN IF sink.shape = "closed" THEN GeminiFails(s) ELSE s

---------------------------------------------------------------------------
\* gatherer: the message an SDK accumulates, as kind and text per block.
Blocks ==
    [j \in 1..conv.next |->
        LET start == CHOOSE k \in Said("block_start") : conv.out[k].i = j - 1
            deltas == SelectSeq(conv.out, LAMBDA ev : ev.e = "delta" /\ ev.i = j - 1)
        IN [kind   |-> conv.out[start].x,
            signed |-> \E d \in Range(deltas) : d.x = "signature",
            says   |-> SelectSeq([k \in DOMAIN deltas |-> deltas[k].x], LAMBDA x : x # "signature")]]

\* AnthropicToResponses: blocks of a kind it does not know are left out.
CodexWhole(blocks) ==
    LET known == SelectSeq(blocks, LAMBDA b : b.kind \in {"text", "thinking", "tool_use"})
    IN [j \in DOMAIN known |-> <<known[j].kind, known[j].says>>]

\* messagesExchange.Complete, of the Gemini API.
GeminiWhole(blocks) ==
    LET Take(s, b) ==
          CASE b.kind = "thinking" ->
                 LET t == IF b.signed THEN [s EXCEPT !.signature = <<s.i>>] ELSE s
                 IN IF b.says # <<>> THEN Thought(t, b.says[1]) ELSE t
            [] b.kind = "text" /\ b.says # <<>> -> SignPart(s, "text", b.says)
            [] b.kind = "tool_use" -> SignPart(s, "call", b.says)
            [] OTHER -> s
        Step(s, b) == LET t == Take(s, b) IN [t EXCEPT !.i = @ + 1]
        z == FoldLeft(Step, [i |-> 0, signature |-> <<>>, parts |-> <<>>], blocks)
    IN SignPart(z, "finish", <<>>).parts

---------------------------------------------------------------------------
EndedWell == sink.shape = "closed" /\ Said("message_stop") # {}

\* Codex reads whole items, one at a time, and one frame that ends its turn,
\* the last.
Quiet == {"delta", "in_progress"}
ReadsWell(frames) ==
    /\ \A j \in DOMAIN frames :
         frames[j].f \in {"completed", "incomplete", "failed"} <=> j = Len(frames)
    /\ \A j, k \in DOMAIN frames :
         frames[j].f = "item_added" /\ k > j /\ frames[k].f \notin Quiet =>
           \E m \in (j + 1)..k : frames[m].f \in {"item_done", "failed"}
    /\ \A k \in DOMAIN frames :
         frames[k].f = "item_done" =>
           \E j \in 1..(k - 1) :
              /\ frames[j].f = "item_added" /\ frames[j].x = frames[k].x[1]
              /\ frames[k].x[1] # "tool_use" =>
                   SelectSeq(SubSeq(frames, j, k), LAMBDA f : f.f = "delta")
                     = [n \in DOMAIN frames[k].x[2] |-> [f |-> "delta", x |-> frames[k].x[2][n]]]

CodexReadsIt == sink.shape = "closed" /\ asked.up = "gemini" => ReadsWell(CodexStream.frames)

\* One block at a time, which is how the backends were measured to answer.
InTurn == \A j \in Said("block_start") : \A i \in 0..(conv.out[j].i - 1) : StoppedBy(i, j)

\* A client that streamed is told what one that did not is: the same items
\* for Codex, the same parts, carrying the same blocks, for Gemini.
StreamedAsWhole ==
    EndedWell /\ InTurn =>
        LET blocks == Blocks
        IN /\ asked.up = "gemini" => CodexStream.items = CodexWhole(blocks)
           /\ asked.up = "responses" => GeminiStream.parts = GeminiWhole(blocks)

TranslatedWell == CodexReadsIt /\ StreamedAsWhole

\* "a thinking block, ended: its text and signature carried in the
\* thoughtSignature of the next part" (api/gemini/frommessages.go).
EveryThoughtCarried ==
    EndedWell /\ asked.up = "responses" =>
        LET blocks == Blocks
            parts == GeminiStream.parts
        IN \A j \in DOMAIN blocks :
             blocks[j].kind = "thinking" /\ blocks[j].signed =>
                \E p \in Range(parts) : p.carries = <<j - 1>>
=============================================================================
