------------------------------ MODULE NextTurn ------------------------------
(***************************************************************************)
(* A conversation of a Messages client whose name is served by ChatGPT's   *)
(* backend, by Code Assist, or by Claude, as the operator binds it: each   *)
(* turn sends the whole history again, rebuilt for the upstream            *)
(* (api/anthropic/toresponses.go and togemini.go).  Neither upstream keeps *)
(* the model's reasoning: it goes back with the turn, from the thinking    *)
(* blocks of a client that keeps them, else from what the gateway kept     *)
(* under the call or the text it led to (reasoningstore.go).               *)
(***************************************************************************)
EXTENDS Naturals, Sequences, SequencesExt, FiniteSets

CONSTANTS
    Replies,        \* texts the model may say
    ClientTools,    \* the tools the client declares, in order
    DeferredTools,  \* those with defer_loading
    Shortened,      \* upstreamToolName, geminiToolName: the name each goes up by
    UserParts,      \* what a block of a user turn may be
    Habits,         \* what a client asks for with every request
    StoreMax,       \* maxReasoningBytes, in reasoning items
    MaxParts,       \* bound: items of one answer
    MaxMade,        \* bound: reasonings and calls made
    MaxTurns        \* bound: turns in the history

VARIABLES
    bound,      \* the upstream the client's name is served by
    habit,      \* what the client asks for, and whether it keeps its thinking
    history,    \* its turns
    kept,       \* reasoningStore.order, the next to go first
    sent,       \* the last request as it went up
    answer,     \* the answer under way: its blocks, and converter.pending
    made,       \* reasonings and calls made so far
    ledTo       \* history: what each reasoning led to

talkVars == <<bound, habit, history, kept, sent, answer, made, ledTo>>

Wires == {"chatgpt", "gemini", "claude"}
Block(is, what, from) == [is |-> is, what |-> what, from |-> from]
NoAnswer == [on |-> FALSE, blocks |-> <<>>, pending |-> <<>>]
Unsent(to) == [to |-> to, input |-> <<>>, offered |-> {}, names |-> {},
               choice |-> "none", effort |-> "none", thoughts |-> FALSE]

TalkInit ==
    /\ bound \in Wires /\ habit \in Habits
    /\ history = <<>> /\ kept = <<>> /\ sent = Unsent("none") /\ answer = NoAnswer
    /\ made = 0 /\ ledTo = <<>>

Nothing == <<"none", 0>>

---------------------------------------------------------------------------
\* reasoningstore.go.

Size(s) == FoldLeft(LAMBDA n, e : n + Len(e.items), 0, s)
Without(s, key) == SelectSeq(s, LAMBDA e : e.key # key)

Put(s, key, items) ==
    IF items = <<>> \/ Len(items) > StoreMax THEN s
    ELSE LET all == Append(Without(s, key), [key |-> key, items |-> items])
             fits == {i \in DOMAIN all : Size(SubSeq(all, i, Len(all))) <= StoreMax}
             first == CHOOSE i \in fits : \A j \in fits : i <= j
         IN SubSeq(all, first, Len(all))

Get(key) ==
    LET hit == SelectSeq(kept, LAMBDA e : e.key = key)
    IN IF hit = <<>> THEN <<>> ELSE hit[1].items

\* MoveToBack of each entry read, in the order they are.
Touched(keys) ==
    FoldLeft(LAMBDA s, key : LET hit == SelectSeq(s, LAMBDA e : e.key = key) IN Without(s, key) \o hit,
             kept, keys)

Held(s) == UNION {Range(e.items) : e \in Range(s)}

---------------------------------------------------------------------------
\* Messages to Responses.

\* inputParts: a file of Anthropic's has no equivalent; a count leaves it out.
Refused(part) == part = "file"
InputParts(part) == IF part \in {"blank", "echo", "file"} THEN <<>>
                    ELSE IF part = "reference" THEN <<"text">> ELSE <<part>>

\* toolResultOutput: a list of parts when it holds pictures, else a string.
ToolResultOutput(part) == IF part = "image" THEN "parts" ELSE "string"

UserItems(blocks) ==
    FoldLeft(LAMBDA s, b :
        CASE b.is = "result" -> Append(s, Block("output", b.what, ToolResultOutput(b.from)))
          [] InputParts(b.from) = <<>> -> s
          [] s # <<>> /\ Last(s).is = "message" ->
                 [s EXCEPT ![Len(s)].what = @ \o InputParts(b.from)]
          [] OTHER -> Append(s, Block("message", InputParts(b.from), "user")),
        <<>>, blocks)

\* assistantItems.  s: the items, the text not yet put out, whether what goes
\* out next has its reasoning before it already, and the keys read.
\* Mutant: what the store holds goes in whatever the client carried.
RestoreAlways(s, key) ==
    LET read == [i \in DOMAIN Get(key) |-> Block("reasoning", Get(key)[i].id, Get(key)[i].from)]
    IN [s EXCEPT !.items = @ \o read, !.keys = Append(@, key), !.carried = FALSE]
Restore(s, key) == IF s.carried THEN [s EXCEPT !.carried = FALSE] ELSE RestoreAlways(s, key)

Flush(s) ==
    IF s.text = <<>> THEN s
    ELSE LET r == Restore(s, <<"text", s.text>>)
         IN [r EXCEPT !.items = Append(@, Block("message", s.text, "assistant")), !.text = <<>>]

AssistantItems(blocks) ==
    LET step(s, b) ==
          CASE b.is = "text" -> [s EXCEPT !.text = Append(@, b.what)]
            [] b.is = "call" ->
                 LET r == Restore(Flush(s), <<"call", b.what>>)
                 IN [r EXCEPT !.items = Append(@, Block("call", b.what, Shortened[b.from]))]
            [] b.is = "thinking" /\ b.from = "chatgpt" ->
                 LET f == Flush(s)
                 IN [f EXCEPT !.items = Append(@, Block("reasoning", b.what, b.from)), !.carried = TRUE]
            [] OTHER -> s       \* Anthropic's, or Gemini's
    IN Flush(FoldLeft(step, [items |-> <<>>, text |-> <<>>, carried |-> FALSE, keys |-> <<>>], blocks))

ConvertMessages(turns) ==
    FoldLeft(LAMBDA s, t :
        IF t.role = "user" THEN [s EXCEPT !.items = @ \o UserItems(t.blocks)]
        ELSE LET a == AssistantItems(t.blocks)
             IN [items |-> s.items \o a.items, keys |-> s.keys \o a.keys],
        [items |-> <<>>, keys |-> <<>>], turns)

---------------------------------------------------------------------------
\* Messages to Gemini.

PartOf(is, what, sig) == [is |-> is, what |-> what, sig |-> sig]
NoSig == [id |-> 0, from |-> "none"]
Synthetic == [id |-> 0, from |-> "synthetic"]

GeminiUserParts(blocks) ==
    FoldLeft(LAMBDA s, b :
        IF b.is # "result" THEN s \o [i \in DOMAIN InputParts(b.from) |-> PartOf("text", InputParts(b.from)[i], NoSig)]
        ELSE Append(s, PartOf("response", b.what, NoSig))
             \o IF b.from = "image" THEN <<PartOf("media", "image", NoSig)>> ELSE <<>>,
        <<>>, blocks)

\* modelParts: the signature on a call, carried back or kept.
ModelParts(blocks) ==
    LET step(s, b) ==
          CASE b.is = "text" -> [s EXCEPT !.parts = Append(@, PartOf("text", b.what, NoSig))]
            [] b.is = "call" ->
                 LET held == Get(<<"call", b.what>>)
                     sig  == IF s.pending # NoSig THEN s.pending
                             ELSE IF held = <<>> THEN NoSig ELSE Last(held)
                 IN [parts |-> Append(s.parts, PartOf("call", b.what, sig)), pending |-> NoSig,
                     keys |-> IF s.pending = NoSig THEN Append(s.keys, <<"call", b.what>>) ELSE s.keys]
            [] b.is = "thinking" /\ b.from = "gemini" /\ b.what # 0 ->
                 [s EXCEPT !.pending = [id |-> b.what, from |-> b.from]]
            [] OTHER -> s
    IN FoldLeft(step, [parts |-> <<>>, pending |-> NoSig, keys |-> <<>>], blocks)

Add(out, role, parts) ==
    IF parts = <<>> THEN out
    ELSE IF out # <<>> /\ Last(out).role = role
      THEN [out EXCEPT ![Len(out)].parts = @ \o parts]
      ELSE Append(out, [role |-> role, parts |-> parts])

\* Mutant: a call with no signature is sent without one.
LeaveUnsigned(content) == content
\* A model turn's first call carries a signature, gemini-cli's if none is known.
SignFirst(content) ==
    LET calls == {i \in DOMAIN content.parts : content.parts[i].is = "call"}
        first == CHOOSE i \in calls : \A j \in calls : i <= j
    IN IF content.role = "user" \/ calls = {} \/ content.parts[first].sig # NoSig THEN content
       ELSE [content EXCEPT !.parts[first].sig = Synthetic]

GeminiContents(turns) ==
    LET read == FoldLeft(LAMBDA s, t :
                  IF t.role = "user" THEN [s EXCEPT !.out = Add(@, "user", GeminiUserParts(t.blocks))]
                  ELSE LET m == ModelParts(t.blocks)
                       IN [out |-> Add(s.out, "model", m.parts), keys |-> s.keys \o m.keys],
                  [out |-> <<>>, keys |-> <<>>], turns)
    IN [items |-> [i \in DOMAIN read.out |-> SignFirst(read.out[i])], keys |-> read.keys]

---------------------------------------------------------------------------
\* Tools.

\* The deferred tools are loaded once a search has answered with references.
LoadedTools(turns) ==
    IF \E t \in Range(turns) : t.role = "user" /\ \E b \in Range(t.blocks) : b.from = "reference"
      THEN DeferredTools ELSE {}

Offered(turns) == {t \in Range(ClientTools) : t \in DeferredTools => t \in LoadedTools(turns)}

\* Mutant: the later of two tools of one name takes it.
LastTakesIt(tools) == FALSE
\* convertTool, geminiTool: refused when two go up by one name.
Collide(tools) == \E t, u \in tools : t # u /\ Shortened[t] = Shortened[u]

\* Translation.Tools, of the names that changed.
Renamed(tools) == {[up |-> Shortened[t], own |-> t] : t \in {x \in tools : Shortened[x] # x}}

\* converter.toolName: the caller's name of a function.
ToolName(names, up) ==
    LET hit == {n \in names : n.up = up}
    IN IF hit = {} THEN up ELSE (CHOOSE n \in hit : TRUE).own

\* An Anthropic search with domains: which the upstream cannot be told.
SearchRefused(to) == \/ habit.search = "blocked" /\ to \in {"chatgpt", "gemini"}
                     \/ habit.search = "allowed" /\ to = "gemini"

---------------------------------------------------------------------------
\* What is asked of the model.

ConvertToolChoice == CASE habit.choice = "any" -> "required" [] OTHER -> habit.choice
GeminiToolChoice == CASE habit.choice \in {"any", "tool"} -> "ANY"
                      [] habit.choice = "none" -> "NONE" [] OTHER -> "AUTO"

\* An effort said outright goes before a budget; thinking off is the least.
ConvertThinking ==
    CASE habit.effort # "none" -> habit.effort
      [] habit.thinking = "disabled" -> "low"
      [] habit.thinking = "enabled" /\ habit.budget < 4096 -> "low"
      [] habit.thinking = "enabled" /\ habit.budget < 16384 -> "medium"
      [] habit.thinking = "enabled" /\ habit.budget < 32768 -> "high"
      [] habit.thinking = "enabled" -> "xhigh"
      [] OTHER -> "none"
\* A budget, the model's own (-1) for the higher efforts.
GeminiThinking ==
    CASE habit.effort \in {"high", "xhigh", "max"} -> "own"
      [] habit.effort # "none" -> habit.effort
      [] habit.thinking = "enabled" -> "budget"
      [] OTHER -> "none"
Thinks == habit.thinking \in {"enabled", "adaptive"}

\* convertFormat, geminiFormat.
FormatRefused == habit.format \notin {"none", "json_schema"}

---------------------------------------------------------------------------
\* Requests.

\* Nothing is refused in a count: what has no equivalent is left out.
Refuses(to, turns) ==
    \/ habit.mcp
    \/ SearchRefused(to) \/ FormatRefused \/ Collide(Offered(turns))
    \/ \E t \in Range(turns) : t.role = "user" /\ \E b \in Range(t.blocks) : Refused(b.from)
    \/ to = "gemini" /\ GeminiContents(turns).items = <<>>

Rebuilt(to, turns) ==
    LET read == IF to = "chatgpt" THEN ConvertMessages(turns) ELSE GeminiContents(turns)
        tools == Offered(turns)
    IN [request |-> [to |-> to, input |-> read.items, offered |-> tools, names |-> Renamed(tools),
                     choice |-> IF to = "chatgpt" THEN ConvertToolChoice ELSE GeminiToolChoice,
                     effort |-> IF to = "chatgpt" THEN ConvertThinking ELSE GeminiThinking,
                     thoughts |-> Thinks],
        keys |-> read.keys]

\* The next user turn: the results of the calls of the turn before, or text.
UserTurn(part) ==
    LET calls == IF history = <<>> THEN <<>>
                 ELSE SelectSeq(Last(history).blocks, LAMBDA b : b.is = "call")
    IN [role |-> "user",
        blocks |-> IF calls = <<>> THEN <<Block("part", 0, part)>>
                   ELSE [i \in DOMAIN calls |-> Block("result", calls[i].what, part)]]

\* A request to Claude goes as it came.
Ask(part) ==
    LET turns == Append(history, UserTurn(part)) IN
    /\ ~answer.on /\ Len(history) < MaxTurns
    /\ IF bound # "claude" /\ Refuses(bound, turns)
         THEN /\ sent' = Unsent("refused")
              /\ UNCHANGED <<history, kept, answer>>
         ELSE /\ history' = turns /\ answer' = [NoAnswer EXCEPT !.on = TRUE]
              /\ IF bound = "claude"
                   THEN /\ sent' = [Unsent("claude") EXCEPT !.offered = Offered(turns)]
                        /\ UNCHANGED kept
                   ELSE /\ sent' = Rebuilt(bound, turns).request
                        /\ kept' = Touched(Rebuilt(bound, turns).keys)
    /\ UNCHANGED <<bound, habit, made, ledTo>>

\* countExchange: the reasonings are read for the estimate too.
CountTokens ==
    /\ ~answer.on /\ bound # "claude" /\ history # <<>>
    /\ kept' = Touched(Rebuilt(bound, history).keys)
    /\ UNCHANGED <<bound, habit, history, sent, answer, made, ledTo>>

Rebind(to) ==
    /\ ~answer.on /\ bound' = to /\ bound # to
    /\ UNCHANGED <<habit, history, kept, sent, answer, made, ledTo>>

---------------------------------------------------------------------------
\* Answers, an item or a part at a time.

Room == answer.on /\ Len(answer.blocks) < MaxParts /\ Len(answer.pending) < MaxParts

\* converter.keep: what was reasoned since the last item, under what it led to.
Keep(key) ==
    LET thought == {p.id : p \in Range(answer.pending)} IN
    /\ ledTo' = [r \in 1 .. made' |-> IF r \in thought THEN key
                                      ELSE IF r \in DOMAIN ledTo THEN ledTo[r] ELSE Nothing]
    /\ kept' = Put(kept, key, answer.pending)

\* A reasoning item of ChatGPT's.
Reason ==
    LET r == made + 1 IN
    /\ Room /\ sent.to = "chatgpt" /\ made < MaxMade
    /\ made' = r /\ ledTo' = Append(ledTo, Nothing)
    /\ answer' = [answer EXCEPT !.pending = Append(@, [id |-> r, from |-> "chatgpt"]),
                                 !.blocks = IF Thinks THEN Append(@, Block("thinking", r, "chatgpt")) ELSE @]
    /\ UNCHANGED <<bound, habit, history, kept, sent>>

\* A message of ChatGPT's; text of the others'.
Say(t) ==
    /\ Room
    /\ answer' = [answer EXCEPT !.pending = <<>>, !.blocks = Append(@, Block("text", t, ""))]
    /\ made' = made
    /\ IF sent.to = "chatgpt" THEN Keep(<<"text", <<t>>>>) ELSE UNCHANGED <<kept, ledTo>>
    /\ UNCHANGED <<bound, habit, history, sent>>

ThinkingOpen == answer.blocks # <<>> /\ Last(answer.blocks).is = "thinking"

\* A thought of Gemini's, of Claude's: a block when it was asked for.
Think ==
    /\ Room /\ sent.to \in {"gemini", "claude"} /\ Thinks
    /\ ~ThinkingOpen
    /\ answer' = [answer EXCEPT !.blocks = Append(@, Block("thinking", 0, sent.to))]
    /\ UNCHANGED <<bound, habit, history, kept, sent, made, ledTo>>

\* A function call, under the caller's name of it.
CallItem(tool) ==
    LET id == made + 1 IN
    /\ Room /\ made < MaxMade /\ tool \in sent.offered
    /\ made' = id
    /\ answer' = [answer EXCEPT !.pending = <<>>,
          !.blocks = Append(@, Block("call", id,
                               IF sent.to = "claude" THEN tool ELSE ToolName(sent.names, Shortened[tool])))]
    /\ IF sent.to = "chatgpt" THEN Keep(<<"call", id>>)
       ELSE kept' = kept /\ ledTo' = Append(ledTo, Nothing)
    /\ UNCHANGED <<bound, habit, history, sent>>

\* A call of Gemini's with its signature: kept against the call, and on the
\* open thinking block, or on one of its own, for a caller that asked.
SignedCall(tool) ==
    LET id == made + 2 sig == made + 1
        blocks == answer.blocks
        open == ThinkingOpen /\ Last(blocks).what = 0
        signed == IF ~Thinks THEN blocks
                  ELSE IF open THEN [blocks EXCEPT ![Len(blocks)].what = sig]
                  ELSE Append(blocks, Block("thinking", sig, "gemini"))
    IN
    /\ Room /\ made + 1 < MaxMade /\ sent.to = "gemini" /\ tool \in sent.offered
    /\ made' = id
    /\ ledTo' = ledTo \o << <<"call", id>>, Nothing >>
    /\ kept' = Put(kept, <<"call", id>>, <<[id |-> sig, from |-> "gemini"]>>)
    /\ answer' = [answer EXCEPT !.blocks =
                     Append(signed, Block("call", id, ToolName(sent.names, Shortened[tool])))]
    /\ UNCHANGED <<bound, habit, history, sent>>

\* The client adds the turn to its history, less the thinking it does not keep.
TakeAnswer ==
    LET blocks == IF habit.keeps THEN answer.blocks
                  ELSE SelectSeq(answer.blocks, LAMBDA b : b.is # "thinking")
    IN
    /\ answer.on /\ blocks # <<>>
    /\ history' = Append(history, [role |-> "assistant", blocks |-> blocks])
    /\ answer' = NoAnswer /\ sent' = Unsent("none")
    /\ UNCHANGED <<bound, habit, kept, made, ledTo>>

\* A broken answer: the client asks again.
BreakOff ==
    /\ answer.on /\ history' = Front(history) /\ answer' = NoAnswer /\ sent' = Unsent("none")
    /\ UNCHANGED <<bound, habit, kept, made, ledTo>>

\* The person goes back a turn, and says something else.
Rewind ==
    /\ ~answer.on /\ Len(history) >= 2 /\ Last(history).role = "assistant"
    /\ history' = SubSeq(history, 1, Len(history) - 2)
    /\ UNCHANGED <<bound, habit, kept, sent, answer, made, ledTo>>

\* The gateway stops and starts again: what it kept is gone.
RestartGateway ==
    /\ kept' = <<>> /\ kept # <<>> /\ ~answer.on
    /\ UNCHANGED <<bound, habit, history, sent, answer, made, ledTo>>

TalkNext ==
    \/ \E p \in UserParts : Ask(p)
    \/ CountTokens \/ \E v \in Wires : Rebind(v)
    \/ Reason \/ Think \/ \E t \in Replies : Say(t)
    \/ \E t \in Range(ClientTools) : CallItem(t) \/ SignedCall(t)
    \/ TakeAnswer \/ BreakOff \/ Rewind \/ RestartGateway

TalkSpec == TalkInit /\ [][TalkNext]_talkVars

---------------------------------------------------------------------------
\* Properties.

Led(r) == IF r \in DOMAIN ledTo THEN ledTo[r] ELSE Nothing

\* Where an input of ChatGPT's holds an item, and what a reasoning there is of.
At(is) == {i \in DOMAIN sent.input : sent.input[i].is = is}
LeadsTo(i, j) ==
    /\ i < j /\ \A k \in i .. j - 1 : sent.input[k].is = "reasoning"
    /\ \/ Led(sent.input[i].what) = <<"call", sent.input[j].what>> /\ sent.input[j].is = "call"
       \/ /\ sent.input[j].is = "message" /\ sent.input[j].from = "assistant"
          /\ Led(sent.input[i].what) = <<"text", <<Head(sent.input[j].what)>> >>

\* Each reasoning goes back before what it led to.
ReasoningInPlace ==
    sent.to = "chatgpt" =>
        \A i \in At("reasoning") :
            Led(sent.input[i].what)[1] # "none" => \E j \in DOMAIN sent.input : LeadsTo(i, j)

\* What led to a call goes back once, and goes back as long as it is kept.
CallsKeepTheirs ==
    sent.to = "chatgpt" =>
        \A j \in At("call") : \A r \in DOMAIN ledTo :
            ledTo[r] = <<"call", sent.input[j].what>> =>
                LET put == {i \in At("reasoning") : sent.input[i].what = r}
                IN /\ Cardinality(put) <= 1
                   /\ [id |-> r, from |-> "chatgpt"] \in Held(kept) => put # {}

\* Gemini's turns alternate, and the first call of each is signed: by what led
\* to it, when that is kept.
GeminiTakesIt ==
    sent.to = "gemini" =>
        \A i \in DOMAIN sent.input :
            LET parts == sent.input[i].parts
                calls == {j \in DOMAIN parts : parts[j].is = "call"}
            IN /\ i > 1 => sent.input[i].role # sent.input[i - 1].role
               /\ parts # <<>>
               /\ calls # {} => \E j \in calls : parts[j].sig # NoSig /\ \A k \in calls : j <= k
               /\ \A j \in calls :
                    /\ parts[j].sig.from = "gemini" => Led(parts[j].sig.id) = <<"call", parts[j].what>>
                    /\ \A e \in Range(kept) : e.key = <<"call", parts[j].what>> => parts[j].sig.id # 0

\* The model's call of any tool it was offered comes back under its own name.
NamesComeBack ==
    sent.to \in {"chatgpt", "gemini"} =>
        \A t \in sent.offered : ToolName(sent.names, Shortened[t]) = t

\* What a client's next turn says to the model (toresponses.go, togemini.go,
\* reasoningstore.go): its reasoning where it belongs, whoever carried it, and
\* whatever was rewound, evicted or lost; its tools by their own names.
NextTurnSound == ReasoningInPlace /\ CallsKeepTheirs /\ GeminiTakesIt /\ NamesComeBack

\* No upstream is sent the reasoning of the other ("each upstream refuses the
\* other's", api/anthropic/reasoning.go).
OwnReasoningOnly ==
    /\ sent.to = "chatgpt" => \A i \in At("reasoning") : sent.input[i].from = "chatgpt"
    /\ sent.to = "gemini" =>
         \A i \in DOMAIN sent.input : \A j \in DOMAIN sent.input[i].parts :
             sent.input[i].parts[j].sig.from # "chatgpt"

=============================================================================
