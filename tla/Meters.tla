------------------------------- MODULE Meters ---------------------------------
(***************************************************************************)
(* What an answer cost and how it ended, read off its bytes as they pass,  *)
(* however they are cut into chunks: anthropic/ssescan.go,                 *)
(* openai/meter.go, google/meter.go, and the readers of answers that are   *)
(* not streams.  A body is a sequence of cells, <<what, n>>: the parts of  *)
(* lines that a chunk may fall between.  A usage object is a key of two    *)
(* halves and a cell <<"u", n>>, whose figures are Stated[n].              *)
(***************************************************************************)
EXTENDS Integers, Sequences, FiniteSetsExt

CONSTANTS
    Answering,      \* what answers: [wire, typed, body], body a sequence of cells
    Stated,         \* what each usage object says: [input, output, cached], one number each,
                    \* or none where it leaves the figure out
    MaxPending,     \* the cells held while waiting for a newline
    MaxChunk,       \* the cells a chunk has readTo most
    MaxWhole        \* the cells kept of an answer that is no stream

VARIABLES
    passing,         \* the answer that is being read
    readTo, upto,       \* cells the meter has read, and the end of the chunk it was fed
    meter           \* the scanner

metersVars == <<passing, readTo, upto, meter>>

Wire == passing.wire
Cell(i) == passing.body[i][1]
Line(s, e) == Cell(s)          \* what the line s..e is, of one that is not empty

NoUsage == [input |-> 0, output |-> 0, cached |-> 0]
NewMeter(a) ==
    [reads |-> a.typed,         \* "stream", "whole", or "sniff" until its first byte
     from |-> 0, mode |-> "hold", event |-> "", wanted |-> FALSE, capture |-> 0, carry |-> 0,
     usage |-> NoUsage, error |-> "", first |-> 0, stopped |-> FALSE, done |-> FALSE]

MetersInit ==
    /\ passing \in Answering /\ readTo = 0 /\ upto = 0 /\ meter = NewMeter(passing)

---------------------------------------------------------------------------
\* Events.
QuietEvents == {"created", "message_start"}
ErrorEvents == {"failed", "error"}
KeptEvents == {"completed", "incomplete", "failed", "error"}   \* openai: whose data is read

\* quietEvent, Provider.Event: the event carries or finishes something.
MarksContent(name) == name \notin QuietEvents \cup ErrorEvents

SaidOr(figure, was) == IF figure = {} THEN was ELSE CHOOSE k \in figure : TRUE
\* What of the input was not read from the cache.
NetInput(u) == Max({SaidOr(u.input, 0) - SaidOr(u.cached, 0), 0})

\* applyUsage: Google's are all assigned, one it leaves out as none.  And the
\* mutant of Figures: whoever leaves it out.
FiguresAll(old, n) ==
    LET u == Stated[n]
    IN [input |-> NetInput(u), output |-> SaidOr(u.output, 0), cached |-> SaidOr(u.cached, 0)]
\* applyTo of each: the figures, in the vocabulary where input leaves out what
\* was read from the cache.  Anthropic's and OpenAI's stay where one is left
\* out, but for OpenAI's cached, which goes with the input or the output.
Figures(old, n) ==
    LET u == Stated[n]
    IN CASE Wire = "anthropic" ->
              [input |-> SaidOr(u.input, old.input), output |-> SaidOr(u.output, old.output),
               cached |-> SaidOr(u.cached, old.cached)]
         [] Wire = "openai" /\ u.input \cup u.output # {} ->
              [input |-> IF u.input = {} THEN old.input ELSE NetInput(u),
               output |-> SaidOr(u.output, old.output), cached |-> SaidOr(u.cached, 0)]
         [] Wire = "google" -> FiguresAll(old, n)
         [] OTHER -> old

\* A payload that parses, and the answer's own usage, which comes last in it.
Parses(s, e) == s < e /\ Cell(s) = "{" /\ Cell(e) = "}"
UsageAt(s, e) == {i \in s..e : Cell(i) = "u"}
Applied(m, s, e) ==
    IF UsageAt(s, e) = {} THEN m
    ELSE [m EXCEPT !.usage = Figures(@, passing.body[Max(UsageAt(s, e))][2])]

\* Mutant of Failing: the reading goes on after it.
FailingOn(m, code) == [m EXCEPT !.error = code]
\* fail.
Failing(m, code) == [m EXCEPT !.error = code, !.stopped = TRUE]
Marked(m, i) == [m EXCEPT !.first = IF @ = 0 THEN i ELSE @]

\* sseScanner.data of each: what a data line says, under the event before it.
MessagesData(m, s, e) ==
    CASE m.event = "error" -> Failing(m, "error")
      [] m.event \in {"message_start", "message_delta"} -> Applied(m, s, e)
      [] OTHER -> m
ResponsesData(m, s, e) ==
    CASE m.event = "completed" -> Applied(m, s, e)
      [] m.event \in {"incomplete", "failed"} -> Failing(Applied(m, s, e), m.event)
      [] m.event = "error" -> Failing(m, "error")
      [] OTHER -> m
\* streamMeter.line: an error in the answer's place, a usage that stands until
\* the next, a finish that is the model declining.
GeminiData(m, s, e) ==
    LET used == Applied(m, s, e)
        Says(what) == \E i \in s..e : Cell(i) = what
    IN CASE Says("error") -> Failing(m, "error")
         [] ~Says("error") /\ Says("declined") -> Failing(used, "declined")
         [] OTHER -> IF Says("text") THEN Marked(used, e) ELSE used

\* line: the cells s..e, without the newline.
ReadLine(m, s, e) ==
    CASE s > e -> IF Wire = "google" THEN m ELSE [m EXCEPT !.event = ""]
      [] s <= e /\ Line(s, e) = "event:" /\ Wire # "google" ->
           LET name == IF s < e THEN Cell(s + 1) ELSE ""
               named == [m EXCEPT !.event = IF Wire = "anthropic" \/ name \in KeptEvents
                                            THEN name ELSE ""]
           IN IF MarksContent(name) THEN Marked(named, e) ELSE named
      [] s <= e /\ Line(s, e) = "data:" /\ Parses(s + 1, e) ->
           (CASE Wire = "anthropic" -> MessagesData(m, s + 1, e)
              [] Wire = "openai" -> ResponsesData(m, s + 1, e)
              [] Wire = "google" -> GeminiData(m, s + 1, e))
      [] OTHER -> m

---------------------------------------------------------------------------
\* A line past what is held: openai reads it as it passes.

\* Mutant of CutFeed: a key that two chunks share is not seen.
CutFeedAlone(m, s, e) ==
    LET keys == {i \in s..(e - 1) : Cell(i) = "usa" /\ Cell(i + 1) = "ge"}
    IN IF ~m.wanted THEN m
       ELSE [m EXCEPT !.capture = IF keys = {} THEN @ ELSE Max(keys) + 2, !.carry = e]
\* cutFeed: the place after the last key seen, one that began in the tail of
\* the chunk before included.
CutFeed(m, s, e) ==
    LET begin == IF m.carry = 0 THEN s ELSE m.carry
        keys == {i \in begin..(e - 1) : Cell(i) = "usa" /\ Cell(i + 1) = "ge"}
    IN IF ~m.wanted THEN m
       ELSE [m EXCEPT !.capture = IF keys = {} THEN @ ELSE Max(keys) + 2, !.carry = e]

\* startCut.
StartCut(m, s, e) ==
    CutFeed([m EXCEPT !.mode = "cut", !.wanted = m.event # "" /\ Cell(s) = "data:",
                      !.capture = 0, !.carry = 0], s, e)

\* cutDone: the usage from what was kept, and the failure.
CutDone(m, e) ==
    LET used == IF m.wanted /\ m.capture \in 1..e /\ Cell(m.capture) = "u"
                THEN [m EXCEPT !.usage = Figures(@, passing.body[m.capture][2])] ELSE m
        ended == IF m.wanted /\ m.event \in {"failed", "error", "incomplete"}
                 THEN Failing(used, m.event) ELSE used
    IN [ended EXCEPT !.mode = "hold", !.wanted = FALSE, !.capture = 0, !.carry = 0]

---------------------------------------------------------------------------
\* Feed.

Fed == readTo < upto
Newline == {i \in (readTo + 1)..upto : Cell(i) = "nl"}
Reading == ~meter.stopped /\ meter.reads = "stream"

\* The relay writes a chunk and feeds it.  anthropic drops what it holds when
\* the chunk would be too much with it.
FeedChunk(n) ==
    /\ ~Fed /\ ~meter.done /\ upto + n <= Len(passing.body) /\ upto' = upto + n
    /\ meter' = IF Reading /\ Wire = "anthropic" /\ (readTo - meter.from) + n > MaxPending
                THEN [meter EXCEPT !.from = readTo] ELSE meter
    /\ UNCHANGED <<passing, readTo>>

\* Nothing is read any more, or only kept.
PassOver ==
    /\ Fed /\ (meter.stopped \/ meter.reads = "whole") /\ readTo' = upto
    /\ UNCHANGED <<passing, upto, meter>>

\* sniffMeter: the first chunk that is not only white space decides.
Sniff ==
    LET said == {i \in (readTo + 1)..upto : Cell(i) \notin {"sp", "nl"}}
    IN /\ Fed /\ meter.reads = "sniff"
       /\ IF said = {} THEN readTo' = upto /\ meter' = [meter EXCEPT !.from = upto]
          ELSE /\ meter' = [meter EXCEPT !.reads = IF Cell(Min(said)) = "{" THEN "whole" ELSE "stream"]
               /\ UNCHANGED readTo
       /\ UNCHANGED <<passing, upto>>

\* A newline in what is left of the chunk: the line it ends.
FeedLine ==
    LET e == Min(Newline)
        read == CASE meter.mode = "skip" -> [meter EXCEPT !.mode = "hold"]
                  [] meter.mode = "cut" -> CutDone(CutFeed(meter, readTo + 1, e - 1), e - 1)
                  [] meter.mode = "hold" -> ReadLine(meter, meter.from + 1, e - 1)
    IN /\ Fed /\ Reading /\ Newline # {}
       /\ readTo' = e /\ meter' = [read EXCEPT !.from = e] /\ UNCHANGED <<passing, upto>>

\* None: the rest of the chunk is held, or, past the limit, openai cuts the
\* line and google skips it.
FeedPart ==
    /\ Fed /\ Reading /\ Newline = {}
    /\ meter' = CASE meter.mode = "cut" -> CutFeed(meter, readTo + 1, upto)
                  [] meter.mode = "hold" /\ Wire = "openai" /\ upto - meter.from > MaxPending ->
                       StartCut(meter, meter.from + 1, upto)
                  [] meter.mode = "hold" /\ Wire = "google" /\ upto - meter.from > MaxPending ->
                       [meter EXCEPT !.mode = "skip"]
                  [] OTHER -> meter
    /\ readTo' = upto /\ UNCHANGED <<passing, upto>>

\* jsonUsage, jsonMeter.Done: an answer that was kept whole.
KeptWhole == upto - meter.from <= MaxWhole /\ upto > meter.from
MeterDone ==
    /\ ~Fed /\ ~meter.done
    /\ LET s == Min({upto} \cup {i \in (meter.from + 1)..upto : Cell(i) \notin {"sp", "nl"}}) IN
       meter' = [(IF meter.reads = "whole" /\ KeptWhole /\ Parses(s, upto)
                  THEN IF Wire = "google" THEN GeminiData(meter, s, upto) ELSE Applied(meter, s, upto)
                  ELSE meter) EXCEPT !.done = TRUE]
    /\ UNCHANGED <<passing, readTo, upto>>

MetersNext ==
    \/ \E n \in 1..MaxChunk : FeedChunk(n)
    \/ PassOver \/ Sniff \/ FeedLine \/ FeedPart \/ MeterDone

MetersSpec == MetersInit /\ [][MetersNext]_metersVars

---------------------------------------------------------------------------
\* Properties.

\* What the whole lines up to cell x say, in the upstream's own terms.
LineEnds(x) == {i \in 1..x : Cell(i) = "nl"}
Begins(e) == Max({0} \cup LineEnds(e - 1)) + 1
Of(e, what) == Begins(e) < e /\ Cell(Begins(e)) = what
\* The name of the event line e is data of: no empty line between.
Under(e) ==
    LET heads == {i \in LineEnds(e - 1) : Of(i, "event:") /\ \A b \in LineEnds(e - 1) : b > i => Begins(b) < b}
    IN IF heads = {} THEN "" ELSE Cell(Begins(Max(heads)) + 1)
Carries(e, what) == Of(e, "data:") /\ \E i \in Begins(e)..e : Cell(i) = what
Fails(e) ==
    \/ Of(e, "data:") /\ Under(e) \in {"error", "failed", "incomplete"}
    \/ Wire = "google" /\ (Carries(e, "error") \/ Carries(e, "declined"))
Heeded(x) == LET f == {e \in LineEnds(x) : Fails(e)} IN IF f = {} THEN LineEnds(x) ELSE LineEnds(Min(f))
Counts(e) ==
    /\ Carries(e, "u")
    /\ Wire # "google" => Under(e) \in {"message_start", "message_delta", "completed", "incomplete", "failed"}
    /\ Wire = "google" => ~Carries(e, "error")
StatedAt(e) == Stated[passing.body[Max({i \in Begins(e)..e : Cell(i) = "u"})][2]]

\* The last line that states a figure is the turn's figure: "usage on
\* message_delta is cumulative"; or the last line that states any, of Google's:
\* "the last one's is the turn's".
Turn(x, F(_)) ==
    LET lines == {e \in Heeded(x) : Counts(e) /\ (Wire = "google" \/ F(StatedAt(e)) # {})}
    IN IF lines = {} THEN 0 ELSE SaidOr(F(StatedAt(Max(lines))), 0)
Input(u) == u.input
Output(u) == u.output
Cached(u) == u.cached

\* No line that counts grows past what is held; openai reads those as well.
Readable == Wire = "openai" \/ \A e \in LineEnds(upto) : Counts(e) => e - Begins(e) + MaxChunk <= MaxPending

Asked == passing.typed = "stream" \/ (passing.typed = "sniff" /\ meter.reads = "stream")

\* However the bytes fell into chunks, and however long openai's last line
\* grew, what is recorded is what the lines say: each token once, whichever
\* side of the cache it came from, and the failure a 200 went on to report.
ReadsWhatPassed ==
    Asked /\ readTo = upto =>
      /\ Readable =>
           /\ meter.usage.input = IF Wire = "anthropic" THEN Turn(readTo, Input)
                                  ELSE Max({Turn(readTo, Input) - Turn(readTo, Cached), 0})
           /\ meter.usage.output = Turn(readTo, Output)
           /\ meter.usage.cached = Turn(readTo, Cached)
      /\ meter.error # "" <=> \E e \in LineEnds(readTo) : Fails(e)

\* An answer kept whole states its figures once.
ReadsWhole ==
    meter.done /\ meter.reads = "whole" /\ upto = Len(passing.body) /\ KeptWhole
    /\ Wire # "anthropic" /\ (\A i \in 1..upto : Cell(i) # "error") =>
      \A i \in 1..upto : Cell(i) = "u" =>
        LET u == Stated[passing.body[i][2]]
        IN meter.usage.input + meter.usage.cached = Max({SaidOr(u.input, 0), SaidOr(u.cached, 0)})

\* A failure ends the reading: nothing after it changes what was recorded.
FailureStands == meter.error # "" /\ meter.reads = "stream" => meter.stopped

\* The first content is marked when it passes, readTo the first line that has any.
MarkedFirst ==
    Asked /\ readTo = upto /\ meter.first # 0 /\ Wire # "google" =>
      \A e \in LineEnds(readTo) : Of(e, "event:") /\ Cell(Begins(e) + 1) \notin QuietEvents \cup ErrorEvents
                                => meter.first < e

MetersSound == ReadsWhatPassed /\ ReadsWhole /\ FailureStands /\ MarkedFirst
=============================================================================
