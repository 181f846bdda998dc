---------------------------- MODULE ClaudeTurns ----------------------------
(***************************************************************************)
(* A conversation of a Gemini client, or of Codex, with Claude.  Each turn *)
(* sends the client's whole history, in its own shape, and it is rebuilt   *)
(* as Messages (api/gemini/tomessages.go, api/openai/request.go); Claude's *)
(* answer is said in the client's shape (frommessages.go, stream.go).  A   *)
(* Gemini client's name may be Google's for some of the turns, which takes *)
(* the history as it came (native.go).  What the two sides really said is  *)
(* kept in "spoken".                                                       *)
(***************************************************************************)
EXTENDS Naturals, Sequences, SequencesExt, FiniteSets

CONSTANTS
    Clients,        \* what kind of client, and what it keeps of an answer
    Toolsets,       \* by kind: the tools declared, each a name and a namespace
    Fitting,        \* the names Claude takes as they are
    AnswerShapes,        \* what an answer may hold, in order
    MaxSpoken,      \* bound: turns in the history
    MaxMarks        \* bound: thoughts and calls made

VARIABLES
    client,     \* the client: its kind, ids, signatures, thoughts, order
    spoken,     \* history: the turns as they were
    theirs,     \* the client's history: its contents, or its items
    posted,     \* the last request as it went up
    marks       \* thoughts and calls made so far

turnsVars == <<client, spoken, theirs, posted, marks>>

Unposted == [on |-> FALSE, to |-> "none", refused |-> FALSE, thinks |-> FALSE,
             messages |-> <<>>, tools |-> <<>>, origins |-> {}]

TurnsInit ==
    /\ client \in Clients
    /\ spoken = <<>> /\ theirs = <<>> /\ posted = Unposted /\ marks = 0

NoTool == [name |-> <<>>, ns |-> "none"]
Piece(is, id, tool) == [is |-> is, id |-> id, tool |-> tool]
TurnOf(role, blocks) == [role |-> role, blocks |-> blocks]

\* add, appendBlock: a run of one role is one message.
AddBlocks(out, role, blocks) ==
    IF blocks = <<>> THEN out
    ELSE IF out # <<>> /\ Last(out).role = role THEN [out EXCEPT ![Len(out)].blocks = @ \o blocks]
    ELSE Append(out, TurnOf(role, blocks))

---------------------------------------------------------------------------
\* Gemini to Messages.

ClaudeToolName(name) == IF name \in Fitting THEN name ELSE Append(name, "hash")

\* Two declarations that map to one name are refused.
MapAlike(tools) == \E t, u \in Range(tools) : t # u /\ ClaudeToolName(t.name) = ClaudeToolName(u.name)
GeminiTools(tools) == [i \in DOMAIN tools |-> [as |-> ClaudeToolName(tools[i].name), tool |-> tools[i]]]

\* A part of the client's: what it is, its call's id or <<>>, the name, and the
\* thinking block its signature carries, or 0.
PartSaid(is, id, name, sig) == [is |-> is, id |-> id, name |-> name, sig |-> sig]

\* A model content: what each part brings, and its call among those waiting.
ModelContent(s, i, c) ==
    LET nth(j) == Cardinality({k \in 1 .. j : c.parts[k].is = "call"})
        id(j) == IF c.parts[j].id = <<>> THEN <<i, nth(j)>> ELSE c.parts[j].id
        brings(j) ==
            (IF c.parts[j].sig > 0 THEN <<Piece("thinking", <<c.parts[j].sig>>, <<>>)>> ELSE <<>>)
            \o CASE c.parts[j].is = "call" -> <<Piece("call", id(j), ClaudeToolName(c.parts[j].name))>>
                 [] c.parts[j].is = "text" -> <<Piece("text", <<>>, <<>>)>>
                 [] OTHER -> <<>>
        calls == SelectSeq([j \in DOMAIN c.parts |-> j], LAMBDA j : c.parts[j].is = "call")
        waits == IF s.last = "model" THEN s.pending ELSE <<>>
    IN [s EXCEPT !.out = AddBlocks(@, "assistant", FlattenSeq([j \in DOMAIN c.parts |-> brings(j)])),
                 !.pending = waits \o [k \in DOMAIN calls |-> [id |-> id(calls[k]), name |-> c.parts[calls[k]].name]],
                 !.carried = @ /\ (calls = <<>> \/ \E p \in Range(c.parts) : p.sig > 0),
                 !.last = "model"]

\* The waiting call a response answers: by its id, else the first of the name.
\* Mutant: the first of the name, whatever the id.
AnswersFirst(pending, p) ==
    LET named == {j \in DOMAIN pending : pending[j].name = p.name}
    IN IF named = {} THEN 0 ELSE CHOOSE j \in named : \A k \in named : j <= k
AnswersWaiting(pending, p) ==
    LET by == {j \in DOMAIN pending : pending[j].id = p.id}
        named == IF by # {} THEN by ELSE {j \in DOMAIN pending : pending[j].name = p.name}
    IN IF named = {} THEN 0 ELSE CHOOSE j \in named : \A k \in named : j <= k

\* A user content: the results first; one that answers nothing is refused.
UserContent(s, c) ==
    LET step(t, p) ==
          IF p.is # "response" THEN [t EXCEPT !.rest = Append(@, Piece("text", <<>>, <<>>))]
          ELSE LET j == AnswersWaiting(t.pending, p)
               IN IF j = 0 THEN [t EXCEPT !.refused = TRUE]
                  ELSE [t EXCEPT !.results = Append(@, Piece("result", t.pending[j].id, <<>>)),
                                 !.pending = RemoveAt(@, j)]
        r == FoldLeft(step, [pending |-> s.pending, refused |-> s.refused, results |-> <<>>, rest |-> <<>>], c.parts)
    IN [s EXCEPT !.out = AddBlocks(@, "user", r.results \o r.rest), !.pending = r.pending,
                 !.refused = r.refused, !.last = "user"]

ConvertContents(contents) ==
    FoldLeftDomain(LAMBDA s, i : IF contents[i].role = "model" THEN ModelContent(s, i, contents[i])
                                 ELSE UserContent(s, contents[i]),
                   [out |-> <<>>, pending |-> <<>>, carried |-> TRUE, refused |-> FALSE, last |-> "none"],
                   contents)

\* Mutant: thinking is asked for whatever the history carries.
ThinkAnyway(carried) == client.wants
\* thinkingConfig: on where every turn that called a tool has its thinking.
ThinkingOn(carried) == client.wants /\ carried

ToMessages(contents, tools) ==
    LET c == ConvertContents(contents)
    IN IF MapAlike(tools) \/ c.refused \/ c.out = <<>> THEN [Unposted EXCEPT !.refused = TRUE]
       ELSE [on |-> TRUE, to |-> "claude", refused |-> FALSE, thinks |-> ThinkingOn(c.carried),
             messages |-> c.out, tools |-> GeminiTools(tools),
             origins |-> {g \in Range(GeminiTools(tools)) : g.as # g.tool.name}]

---------------------------------------------------------------------------
\* Codex to Messages.

\* convertTools: a child whose name is taken goes up under its namespace too,
\* and a tool whose name is still taken is left out.
ConvertTools(tools) ==
    LET step(s, t) ==
          LET taken(n) == \E u \in Range(s) : u.as = n
              as == IF taken(t.name) /\ t.ns # "none" THEN <<t.ns>> \o t.name ELSE t.name
          IN IF taken(as) THEN s ELSE Append(s, [as |-> as, tool |-> t])
    IN FoldLeft(step, <<>>, tools)

Origins(ups) == {u \in Range(ups) : u.tool.ns # "none" \/ u.as # u.tool.name}

\* Mutant: a call of the history goes up by its bare name.
BareName(origins, tool) == tool.name
\* upstreamNames: a call of the history is named as its tool goes up.
UpstreamName(origins, tool) ==
    LET hit == {o \in origins : o.tool = tool}
    IN IF hit = {} THEN tool.name ELSE (CHOOSE o \in hit : TRUE).as

\* convertInput: reasoning is left out.
ConvertInput(contents, origins) ==
    FoldLeft(LAMBDA out, item :
        CASE item.is = "message" -> AddBlocks(out, item.role, <<Piece("text", <<>>, <<>>)>>)
          [] item.is = "call" ->
                 AddBlocks(out, "assistant", <<Piece("call", item.id, UpstreamName(origins, item.tool))>>)
          [] item.is = "output" -> AddBlocks(out, "user", <<Piece("result", item.id, <<>>)>>)
          [] OTHER -> out,
        <<>>, contents)

ResponsesToAnthropic(contents, tools) ==
    LET ups == ConvertTools(tools) IN
    [on |-> TRUE, to |-> "claude", refused |-> FALSE, thinks |-> FALSE,
     messages |-> ConvertInput(contents, Origins(ups)), tools |-> ups, origins |-> Origins(ups)]

---------------------------------------------------------------------------
\* The client's turns.

CallsOf(turn) == SelectSeq(turn.blocks, LAMBDA b : b.is = "call")
OpenCalls == IF spoken = <<>> THEN <<>> ELSE CallsOf(Last(spoken))

\* The results of every call, in the client's order, and some text.
InOrder(calls) == IF client.reverses THEN Reverse(calls) ELSE calls
SpokenTurn(text) ==
    TurnOf("user", [i \in DOMAIN OpenCalls |-> Piece("result", InOrder(OpenCalls)[i].id, <<>>)]
                 \o IF text THEN <<Piece("text", 0, <<>>)>> ELSE <<>>)

TheirTurn(text) ==
    LET calls == InOrder(OpenCalls) IN
    IF client.kind = "codex"
      THEN [i \in DOMAIN calls |-> [is |-> "output", id |-> <<calls[i].id>>, tool |-> NoTool, role |-> "user"]]
           \o IF text THEN <<[is |-> "message", id |-> <<>>, tool |-> NoTool, role |-> "user"]>> ELSE <<>>
      ELSE LET results == [i \in DOMAIN calls |->
                   PartSaid("response", IF client.ids THEN <<calls[i].id>> ELSE <<>>, calls[i].tool.name, 0)]
               texts == IF text THEN <<PartSaid("text", <<>>, <<>>, 0)>> ELSE <<>>
           IN IF client.splits /\ calls # <<>> /\ text
                THEN <<[role |-> "user", parts |-> results], [role |-> "user", parts |-> texts]>>
                ELSE <<[role |-> "user", parts |-> texts \o results]>>

\* A request: to Google as it came.
Post(to, text, tools) ==
    LET now == theirs \o TheirTurn(text) IN
    /\ ~posted.on /\ Len(spoken) < MaxSpoken
    /\ text \/ OpenCalls # <<>>
    /\ to = "google" => client.kind = "gemini"
    /\ LET request == IF client.kind = "codex" THEN ResponsesToAnthropic(now, tools)
                      ELSE IF to = "google"
                        THEN [Unposted EXCEPT !.on = TRUE, !.to = to,
                                 !.tools = [i \in DOMAIN tools |-> [as |-> tools[i].name, tool |-> tools[i]]]]
                        ELSE ToMessages(now, tools)
       IN /\ posted' = request
          /\ IF request.refused THEN UNCHANGED <<theirs, spoken>>
             ELSE theirs' = now /\ spoken' = Append(spoken, SpokenTurn(text))
    /\ UNCHANGED <<client, marks>>

---------------------------------------------------------------------------
\* Answers.

\* The blocks of an answer of a shape, over the tools that went up.
Made(shape) ==
    [i \in DOMAIN shape |->
        LET tool == posted.tools[((shape[i].nth - 1) % Len(posted.tools)) + 1].tool
        IN Piece(shape[i].is, marks + i, IF shape[i].is = "call" THEN tool ELSE NoTool)]

\* toolName, the origin on the way back: how the caller declared it.
DeclaredAs(as) ==
    LET hit == {o \in posted.origins : o.as = as}
    IN IF hit = {} THEN [name |-> as, ns |-> "none"] ELSE (CHOOSE o \in hit : TRUE).tool
AsOf(tool) == LET up == SelectSeq(posted.tools, LAMBDA u : u.tool = tool) IN up[1].as

\* Mutant: the thinking before a call is carried no further.
SignTextOnly(s, part) ==
    IF part.is = "call" THEN [s EXCEPT !.parts = Append(@, part)]
    ELSE [s EXCEPT !.parts = Append(@, [part EXCEPT !.sig = s.sig]), !.sig = 0]
\* sign: the thinking carried goes on the part, once.
CarryThought(s, part) == [s EXCEPT !.parts = Append(@, [part EXCEPT !.sig = s.sig]), !.sig = 0]

\* blockParts of geminiStream: Claude's blocks as parts, the thinking on what
\* follows it, the last on an empty part.  A thought is shown to who asked.
ClaudeParts(blocks) ==
    LET step(s, b) ==
          CASE b.is = "thinking" -> [s EXCEPT !.sig = b.id,
                                       !.parts = IF client.shows THEN Append(@, PartSaid("thought", <<>>, <<>>, 0)) ELSE @]
            [] b.is = "text" -> CarryThought(s, PartSaid("text", <<>>, <<>>, 0))
            [] b.is = "call" -> CarryThought(s, PartSaid("call", <<b.id>>, DeclaredAs(AsOf(b.tool)).name, 0))
        r == FoldLeft(step, [parts |-> <<>>, sig |-> 0], blocks)
    IN IF r.sig = 0 THEN r.parts ELSE Append(r.parts, PartSaid("empty", <<>>, <<>>, r.sig))

\* What the client keeps of its parts.
KeptPart(p) == [p EXCEPT !.id = IF client.ids THEN @ ELSE <<>>, !.sig = IF client.signs THEN @ ELSE 0]

\* messageItem, functionCallItem, reasoningItem of Stream.
CodexItems(blocks) ==
    [i \in DOMAIN blocks |->
        [is |-> CASE blocks[i].is = "text" -> "message" [] blocks[i].is = "thinking" -> "reasoning" [] OTHER -> "call",
         id |-> <<blocks[i].id>>, role |-> "assistant",
         tool |-> IF blocks[i].is = "call" THEN DeclaredAs(AsOf(blocks[i].tool)) ELSE NoTool]]

\* Google's own parts: unwrapped, with no thinking of Claude's.
OwnParts(blocks) ==
    [i \in DOMAIN blocks |-> PartSaid(blocks[i].is, IF blocks[i].is = "call" THEN <<blocks[i].id>> ELSE <<>>,
                                        blocks[i].tool.name, 0)]

ClaudeAnswers(shape) ==
    LET blocks == Made(shape) IN
    /\ posted.on /\ posted.tools # <<>> /\ marks + Len(shape) <= MaxMarks
    /\ \A b \in Range(blocks) : b.is = "thinking" => posted.thinks \/ client.kind = "codex"
    /\ marks' = marks + Len(shape)
    /\ spoken' = Append(spoken, TurnOf("assistant", blocks))
    /\ theirs' = theirs \o
          IF client.kind = "codex" THEN CodexItems(blocks)
          ELSE <<[role |-> "model",
                  parts |-> LET p == IF posted.to = "google" THEN OwnParts(blocks) ELSE ClaudeParts(blocks)
                            IN [i \in DOMAIN p |-> KeptPart(p[i])]]>>
    /\ posted' = Unposted
    /\ UNCHANGED client

TurnsNext ==
    \/ \E to \in {"claude", "google"}, text \in BOOLEAN, tools \in Toolsets[client.kind] : Post(to, text, tools)
    \/ \E shape \in AnswerShapes : ClaudeAnswers(shape)

TurnsSpec == TurnsInit /\ [][TurnsNext]_turnsVars

---------------------------------------------------------------------------
\* Properties.

ToClaude == posted.on /\ posted.to = "claude"

\* What of a turn the client's shape can carry: of two thoughts in a row the
\* last, and none of a client that drops the signatures.
Carries == client.kind = "gemini" /\ client.signs
Carried(blocks) ==
    LET stays(i) == blocks[i].is = "thinking" =>
                       Carries /\ (i = Len(blocks) \/ blocks[i + 1].is # "thinking")
    IN SelectSeq([i \in DOMAIN blocks |-> i], stays)

\* The answer's blocks come back as they were, the results on their own calls,
\* turn by turn.
SameBlock(was, now) ==
    /\ was.is = now.is
    /\ was.is = "thinking" => now.id = <<was.id>>
    /\ (was.is = "call" /\ \E u \in Range(posted.tools) : u.tool = was.tool) => now.tool = AsOf(was.tool)

IdOf(t, call) ==
    LET kept == Carried(spoken[t].blocks)
        k == CHOOSE j \in DOMAIN kept : spoken[t].blocks[kept[j]].id = call
    IN posted.messages[t].blocks[k].id

SameConversation ==
    ToClaude =>
        /\ Len(posted.messages) = Len(spoken)
        /\ \A t \in DOMAIN spoken :
             LET kept == Carried(spoken[t].blocks) now == posted.messages[t] IN
             /\ now.role = spoken[t].role /\ Len(now.blocks) = Len(kept)
             /\ \A j \in DOMAIN kept : SameBlock(spoken[t].blocks[kept[j]], now.blocks[j])
             /\ \A j \in DOMAIN kept :
                  spoken[t].blocks[kept[j]].is = "result" =>
                      now.blocks[j].id = IdOf(t - 1, spoken[t].blocks[kept[j]].id)

\* Thinking is asked for only where each turn that calls a tool starts with it.
ThinkingAccepted ==
    posted.thinks =>
        \A t \in DOMAIN posted.messages :
            LET b == posted.messages[t].blocks
            IN posted.messages[t].role = "assistant" /\ (\E x \in Range(b) : x.is = "call")
                 => Head(b).is = "thinking"

TurnsSound == SameConversation /\ ThinkingAccepted
=============================================================================
