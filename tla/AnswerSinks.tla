---------------------------- MODULE AnswerSinks ----------------------------
(***************************************************************************)
(* Where an upstream answer that has to change is written: nativeSink      *)
(* unwraps Code Assist's for a Gemini client (api/gemini/native.go), and   *)
(* reshapingSink tells the three shapes of Claude's answer apart for a     *)
(* dialect that translates it (api/sink.go).  The upstream answers with a  *)
(* status and, a piece at a time, a stream or one body; it may stop short. *)
(***************************************************************************)
EXTENDS Naturals, Sequences, SequencesExt

CONSTANTS
    MaxHeldPieces,  \* maxHeld, maxBufferedAnswer: in pieces
    MaxUpPieces     \* bound: pieces of one answer

VARIABLES
    call,   \* the request's sink, and what the upstream answers it in
    arrived,   \* history: the pieces that arrived
    snk,    \* the sink: what it holds, gathered and knows
    got     \* the client: the headers it got, and what after them

sinksVars == <<call, arrived, snk, got>>

\* What a piece of an answer is: a text or a thought, one that is signed, a
\* call, the end, a refused prompt, an error of the backend's, or no event.
Speech == {"text", "thought", "signed", "call"}
Endings == {"finish", "blocked"}
Pieces == Speech \cup Endings \cup {"error", "odd"}

SinksInit ==
    /\ call \in [sink : {"native", "reshaping"}, stream : BOOLEAN, status : {200, 429}, sse : BOOLEAN]
    /\ call.stream \/ call.sink = "native" \/ ~call.sse
    /\ arrived = <<>>
    /\ snk = [started |-> FALSE, held |-> <<>>, over |-> FALSE, parts |-> <<>>, seen |-> FALSE, finish |-> "none",
              err |-> FALSE, ended |-> FALSE, failed |-> FALSE, closed |-> FALSE]
    /\ got = [heads |-> <<>>, form |-> "none", chunks |-> <<>>, whole |-> FALSE]

---------------------------------------------------------------------------
\* What the client is written.

Headed(g, status, form) == [g EXCEPT !.heads = Append(@, status), !.form = form]
WriteJSON(g, status, chunks, whole) ==
    [Headed(g, status, "json") EXCEPT !.chunks = chunks, !.whole = whole]
\* send: the headers before the first chunk.
SendChunk(g, chunk) ==
    LET h == IF g.heads = <<>> THEN Headed(g, 200, "sse") ELSE g
    IN [h EXCEPT !.chunks = Append(@, chunk)]

---------------------------------------------------------------------------
\* nativeSink.  A pair of the sink and the client, after some events.

PlainPart(p) == p \in {"text", "thought", "signed"}
IsThought(p) == p = "thought"

\* gathered.add: a run of plain parts that are all thought, or not, is one; a
\* signed part starts its own.
Gather(parts, p) ==
    IF p \notin Speech THEN parts
    ELSE IF PlainPart(p) /\ parts # <<>> /\ PlainPart(Last(Last(parts))) /\ IsThought(Last(Last(parts))) = IsThought(p)
            /\ p # "signed"
      THEN [parts EXCEPT ![Len(parts)] = Append(@, p)]
      ELSE Append(parts, <<p>>)

\* event: an error, or a chunk, sent on or gathered.
NativeEvent(s, p) ==
    CASE p = "odd" -> s
      [] p = "error" /\ call.stream -> [snk |-> [s.snk EXCEPT !.failed = TRUE], got |-> SendChunk(s.got, p)]
      [] p = "error" -> [s EXCEPT !.snk.failed = TRUE, !.snk.err = TRUE]
      [] p # "error" /\ call.stream ->
             [snk |-> [s.snk EXCEPT !.ended = @ \/ p \in Endings], got |-> SendChunk(s.got, p)]
      [] OTHER -> [s EXCEPT !.snk.parts = Gather(@, p), !.snk.seen = TRUE,
                            !.snk.finish = IF p \in Endings THEN p ELSE @]

Hold(s, p) == IF Len(s.held) < MaxHeldPieces THEN [s EXCEPT !.held = Append(@, p)] ELSE [s EXCEPT !.over = TRUE]

NativeWrite(p) ==
    LET s == [snk EXCEPT !.started = TRUE] IN
    IF call.status # 200 \/ ~call.sse THEN snk' = Hold(s, p) /\ UNCHANGED got
    ELSE LET r == NativeEvent([snk |-> s, got |-> got], p) IN snk' = r.snk /\ got' = r.got

\* Mutant: what the stream said last is taken for its end.
CloseQuietly(r) == r.got
\* What a stream still owes: nothing, or an error for what it never finished.
CloseStream(r) ==
    IF r.got.heads = <<>> THEN WriteJSON(r.got, 502, <<"error">>, FALSE)
    ELSE IF ~r.snk.ended /\ ~r.snk.failed THEN SendChunk(r.got, "error")
    ELSE r.got

\* The gathered answer; an error of the backend's with its own status.
CloseGathered(r) ==
    IF r.snk.err THEN WriteJSON(r.got, 429, <<"error">>, FALSE)
    ELSE IF ~r.snk.seen THEN WriteJSON(r.got, 502, <<"error">>, FALSE)
    ELSE WriteJSON(r.got, 200, r.snk.parts, TRUE)

\* A whole body is read if it arrived to its end and none of it was let go.
Readable(ends) == ends /\ ~snk.over

\* "last": a frame the stream stopped after, with no blank line behind it.
NativeClose(ends, last) ==
    IF call.status # 200 THEN WriteJSON(got, call.status, snk.held, FALSE)
    ELSE LET events == IF call.sse THEN last ELSE IF Readable(ends) THEN snk.held ELSE <<>>
             r == FoldLeft(NativeEvent, [snk |-> snk, got |-> got], events)
         IN IF call.stream THEN CloseStream(r) ELSE CloseGathered(r)

---------------------------------------------------------------------------
\* reshapingSink, over a StreamWriter that says what it is written and, in
\* Finish, an end for what had none.

ReshapingWrite(p) ==
    LET s == [snk EXCEPT !.started = TRUE] IN
    IF call.status = 200 /\ call.sse
      THEN /\ snk' = [s EXCEPT !.ended = @ \/ p \in Endings \cup {"error"}]
           /\ got' = LET h == IF snk.started THEN got ELSE Headed(got, 200, "sse")
                     IN IF snk.ended \/ p = "odd" THEN h ELSE [h EXCEPT !.chunks = Append(@, p)]
    ELSE snk' = Hold(s, p) /\ UNCHANGED got

\* Mutant: the fragment of an answer too large is converted as if it were whole.
FitsAnyway(s) == TRUE
Fits(s) == ~s.over

ReshapingClose(ends) ==
    IF call.status = 200 /\ call.sse
      THEN IF snk.ended THEN got ELSE SendChunk(got, "error")
    ELSE IF ~Fits(snk) THEN WriteJSON(got, 502, <<"error">>, FALSE)
    ELSE IF call.status # 200 THEN WriteJSON(got, call.status, snk.held, FALSE)
    ELSE IF ~ends THEN WriteJSON(got, 502, <<"error">>, FALSE)
    ELSE WriteJSON(got, 200, snk.held, TRUE)

---------------------------------------------------------------------------
\* The upstream, and the handler around the sink.

Arrive(p) ==
    /\ ~snk.closed /\ Len(arrived) < MaxUpPieces
    /\ arrived' = Append(arrived, p)
    /\ IF call.sink = "native" THEN NativeWrite(p) ELSE ReshapingWrite(p)
    /\ UNCHANGED call

\* The upstream is done, or breaks off, and the sink is closed.  Nothing arrived:
\* the handler writes why.
CloseSink(ends, last) ==
    /\ ~snk.closed
    /\ last # <<>> => call.sse /\ call.status = 200 /\ call.sink = "native" /\ Len(arrived) < MaxUpPieces /\ snk.started
    /\ snk' = [snk EXCEPT !.closed = TRUE]
    /\ arrived' = arrived \o last
    /\ got' = IF ~snk.started THEN WriteJSON(got, 502, <<"error">>, FALSE)
              ELSE IF call.sink = "native" THEN NativeClose(ends, last)
              ELSE ReshapingClose(ends)
    /\ UNCHANGED call

SinksNext ==
    \/ \E p \in Pieces : Arrive(p)
    \/ \E ends \in BOOLEAN, last \in {<<>>} \cup {<<p>> : p \in Pieces} : CloseSink(ends, last)

SinksSpec == SinksInit /\ [][SinksNext]_sinksVars

---------------------------------------------------------------------------
\* Properties.

\* The client gets one status and one body, whatever arrived.
OneAnswer == Len(got.heads) <= 1 /\ (snk.closed => Len(got.heads) = 1)

\* A refusal keeps the upstream's status, and only an answer has 200.
StatusKept ==
    snk.closed /\ snk.started /\ ~snk.over /\ call.status # 200 => got.heads = <<call.status>>

\* A stream that never arrived to its end ends in an error.
CutIsSaid ==
    snk.closed /\ got.form = "sse" =>
        LET ends == {i \in DOMAIN got.chunks : got.chunks[i] \in Endings \cup {"error"}}
        IN ends # {}
           /\ ((\A i \in DOMAIN arrived : arrived[i] \notin Endings) => Last(got.chunks) = "error" \/ "error" \in Range(arrived))

\* One answer in place of a stream says all that arrived, in its order, and has
\* been joined where it could.
WholeIsWhole ==
    snk.closed /\ got.whole =>
        /\ ~snk.over /\ "error" \notin Range(IF call.sink = "native" THEN arrived ELSE <<>>)
        /\ call.sink = "native" =>
             /\ FlattenSeq(got.chunks) = SelectSeq(arrived, LAMBDA p : p \in Speech)
             /\ \A i \in 1 .. Len(got.chunks) - 1 :
                  \/ got.chunks[i + 1] = <<"call">> \/ got.chunks[i] = <<"call">>
                  \/ IsThought(Last(got.chunks[i])) # IsThought(Head(got.chunks[i + 1]))
                  \/ Head(got.chunks[i + 1]) = "signed"
        /\ call.sink = "reshaping" => got.chunks = arrived

SinksSound == OneAnswer /\ StatusKept /\ CutIsSaid /\ WholeIsWhole
=============================================================================
