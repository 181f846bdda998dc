------------------------------- MODULE Passes -------------------------------
(***************************************************************************)
(* internal/relay/passes: the rewrites a Messages request takes on its way *)
(* to Anthropic, and the names put back in its answer.  Lone surrogates    *)
(* are repaired, the attribution block put first, the system prompt and    *)
(* the empty blocks normalised, refused tool names respelled, images       *)
(* fitted.  The passes run one after the other, each on the body the last  *)
(* one left, with what they share in                                       *)
(* `look` (the prologue peeked from the body) and `names`.  Requests run   *)
(* side by side and meet in the image cache and at the gate that admits    *)
(* one decode at a time.                                                   *)
(*                                                                         *)
(* A text is a sequence of tokens: "id" is Claude Code's identity line,    *)
(* "env" its environment line and "git" that line reworded, "hi" and "lo"  *)
(* the halves of a surrogate pair and "fffd" what replaces a lone one.     *)
(***************************************************************************)
EXTENDS Integers, Sequences, SequencesExt, FiniteSets, FiniteSetsExt

CONSTANTS
    Outbound,    \* the requests
    Bodies,      \* the bodies clients send
    Edge,        \* image -> "small", "large", "huge" or "broken"
    Weight,      \* image -> what keeping it fitted costs
    ManyImages,  \* past this many images the stricter size holds
    CacheMax     \* what the cache may keep (max)

VARIABLES
    going,       \* Outbound -> the body as it stands
    fromClient,  \* Outbound -> the body as the client sent it
    at,          \* Outbound -> the pass it is in
    look,        \* Outbound -> the system field as peeked (State.Prologue)
    names,       \* Outbound -> tool name sent -> the client's (State.Names)
    fits,        \* Outbound -> image -> fitted or not, of the images looked at
    gate,        \* the request decoding, or "none" (decoding)
    remembered,  \* image -> its entry: ImageCache.entries
    order        \* ImageCache.order

passVars == <<going, fromClient, at, look, names, fits, gate, remembered, order>>

Mcp == "mcp_x"          Mcp2 == "mcp__x"
Todo == "todowrite"     Todo2 == "todowrite_"

\* refusedName and accepted: the names the upstream refuses, respelled.
RefusedName(n) == n \in {Mcp, Todo}
Accepted(n) == IF n = Todo THEN Todo2 ELSE Mcp2

\* A body: its system entries (none, one, or the key said twice), its
\* messages, tools, the tool it insists on, and whether it parses and is
\* written without spaces.
LastSystem(b) == IF b.system = <<>> THEN [form |-> "none", blocks |-> <<>>] ELSE Last(b.system)
ImagesOf(b) == {x \in UNION {Range(m) : m \in Range(b.messages)} : x.type = "image"}
ImageCount(b) == FoldSeq(LAMBDA m, n : n + Len(SelectSeq(m, LAMBDA x : x.type = "image")), 0, b.messages)

Peek(b) == [valid |-> b.valid, system |-> IF b.valid THEN LastSystem(b)
                                          ELSE [form |-> "none", blocks |-> <<>>]]

EachSystem(b, F(_)) ==
    [b EXCEPT !.system = [i \in DOMAIN b.system |->
        [b.system[i] EXCEPT !.blocks = [j \in DOMAIN b.system[i].blocks |-> F(b.system[i].blocks[j])]]]]
EachBlock(b, F(_)) == [b EXCEPT !.messages = [i \in DOMAIN b.messages |->
                          [j \in DOMAIN b.messages[i] |-> F(b.messages[i][j])]]]

---------------------------------------------------------------------------
\* FixLoneSurrogates: a high half with no low half after it, or a low half
\* with no high half before it.
Lone(t, i) == \/ t[i] = "hi" /\ ~(i < Len(t) /\ t[i + 1] = "lo")
              \/ t[i] = "lo" /\ ~(i > 1 /\ t[i - 1] = "hi")
Repaired(t) == [i \in DOMAIN t |-> IF Lone(t, i) THEN "fffd" ELSE t[i]]

FixLoneSurrogates(b) ==
    EachBlock(EachSystem(b, Repaired), LAMBDA x : [x EXCEPT !.text = Repaired(x.text)])

\* A mutant: the prologue is not read again from the repaired bytes.
SurrogatesOnly(q) ==
    /\ at[q] = <<"surrogates">>
    /\ going' = [going EXCEPT ![q] = FixLoneSurrogates(@)]
    /\ at' = [at EXCEPT ![q] = <<"attribution">>]
    /\ UNCHANGED <<fromClient, look, names, fits, gate, remembered, order>>
Surrogates(q) ==
    /\ at[q] = <<"surrogates">>
    /\ going' = [going EXCEPT ![q] = FixLoneSurrogates(@)]
    /\ look' = [look EXCEPT ![q] = IF going'[q] = going[q] THEN @ ELSE Peek(going'[q])]
    /\ at' = [at EXCEPT ![q] = <<"attribution">>]
    /\ UNCHANGED <<fromClient, names, fits, gate, remembered, order>>

\* EnsureAttribution: nothing for a body that leads with an accepted block.
\* Spliced where the system key is said once; else the envelope is rebuilt
\* from the blocks that were peeked.
Attributed(b, p) ==
    LET lead == <<"id">>
    IN  CASE p.system.form = "other" -> b
          [] p.system.blocks # <<>> /\ p.system.blocks[1] = lead -> b
          [] ~p.valid -> b
          [] OTHER ->
             LET blocks == IF Len(b.system) = 1 THEN b.system[1].blocks ELSE p.system.blocks
             IN  [b EXCEPT !.system = <<[form |-> "blocks", blocks |-> <<lead>> \o blocks]>>]

EnsureAttribution(q) ==
    /\ at[q] = <<"attribution">>
    /\ going' = [going EXCEPT ![q] = Attributed(@, look[q])]
    /\ at' = [at EXCEPT ![q] = <<"system-text">>]
    /\ UNCHANGED <<fromClient, look, names, fits, gate, remembered, order>>

---------------------------------------------------------------------------
Reworded(t) == [i \in DOMAIN t |-> IF t[i] = "env" THEN "git" ELSE t[i]]
IsEmptyText(x) == x.type = "text" /\ x.text = <<>>

\* `"text":""` in the bytes: an empty text of a body written without spaces.
SeesEmptyText(b) ==
    /\ ~b.spaced
    /\ \/ \E s \in Range(b.system) : s.form = "blocks" /\ <<>> \in Range(s.blocks)
       \/ \E m \in Range(b.messages) : \E x \in Range(m) : IsEmptyText(x)
SeesEnvLine(b) ==
    \/ \E s \in Range(b.system) : \E t \in Range(s.blocks) : "env" \in Range(t)
    \/ \E m \in Range(b.messages) : \E x \in Range(m) : "env" \in Range(x.text)

\* normaliseSystemValue: a string is only reworded; blocks are reworded and
\* the empty ones dropped, the field with the last of them.
NormalBlocks(s) == \* a mutant: nothing is done about the last empty block
    <<[s EXCEPT !.blocks = [i \in DOMAIN s.blocks |-> Reworded(s.blocks[i])]]>>
NormalSystem(s) ==
    LET blocks == IF s.form = "blocks" THEN SelectSeq(s.blocks, LAMBDA t : t # <<>>) ELSE s.blocks
        put == [s EXCEPT !.blocks = [i \in DOMAIN blocks |-> Reworded(blocks[i])]]
    IN  IF s.form = "blocks" /\ s.blocks # <<>> /\ blocks = <<>> THEN <<>> ELSE <<put>>

\* Spliced where the key is said once, else through the whole envelope,
\* which keeps the last; either way only when something changes.
NormaliseSystem(b) ==
    IF ~b.valid \/ ~(SeesEnvLine(b) \/ SeesEmptyText(b)) \/ b.system = <<>>
       \/ NormalSystem(LastSystem(b)) = <<LastSystem(b)>>
    THEN b
    ELSE [b EXCEPT !.system = NormalSystem(LastSystem(b))]

SystemText(q) ==
    /\ at[q] = <<"system-text">>
    /\ going' = [going EXCEPT ![q] = NormaliseSystem(@)]
    /\ at' = [at EXCEPT ![q] = <<"empty-text">>]
    /\ UNCHANGED <<fromClient, look, names, fits, gate, remembered, order>>

\* dropEmptyBlocks: a message of nothing but empty texts keeps them.
WithoutEmpty(m) ==
    LET left == SelectSeq(m, LAMBDA x : ~IsEmptyText(x)) IN IF left = <<>> THEN m ELSE left

EmptyText(q) ==
    /\ at[q] = <<"empty-text">>
    /\ going' = [going EXCEPT ![q] =
                  IF @.valid /\ SeesEmptyText(@)
                  THEN [@ EXCEPT !.messages = [i \in DOMAIN @ |-> WithoutEmpty(@[i])]]
                  ELSE @]
    /\ at' = [at EXCEPT ![q] = <<"tool-names">>]
    /\ UNCHANGED <<fromClient, look, names, fits, gate, remembered, order>>

---------------------------------------------------------------------------
\* named: a refused name is respelled unless the client declared a tool by
\* the respelling.
RenameAlways(b, n) == IF RefusedName(n) THEN Accepted(n) ELSE n \* a mutant: two tools become one
Rename(b, n) == IF RefusedName(n) /\ Accepted(n) \notin Range(b.tools) THEN Accepted(n) ELSE n

NamesIn(b) == Range(b.tools) \cup {b.choice}
              \cup {x.name : x \in UNION {Range(m) : m \in Range(b.messages)}}
NamesRefused(b) == {n \in NamesIn(b) : Rename(b, n) # n}

\* RewriteRefusedToolNames: the declarations, the choice and the calls of
\* the transcript.
RewriteRefusedToolNames(b) ==
    [EachBlock(b, LAMBDA x : IF x.type = "tool_use" THEN [x EXCEPT !.name = Rename(b, @)] ELSE x)
        EXCEPT !.tools = [i \in DOMAIN b.tools |-> Rename(b, b.tools[i])],
               !.choice = Rename(b, b.choice)]

ToolNames(q) ==
    /\ at[q] = <<"tool-names">>
    /\ LET b == going[q]
       IN  IF b.valid /\ NamesRefused(b) # {}
           THEN /\ going' = [going EXCEPT ![q] = RewriteRefusedToolNames(b)]
                /\ names' = [names EXCEPT ![q] =
                     [m \in {Accepted(n) : n \in NamesRefused(b)} |->
                        CHOOSE n \in NamesRefused(b) : Accepted(n) = m]]
           ELSE UNCHANGED <<going, names>>
    /\ at' = [at EXCEPT ![q] = <<IF going[q].fit THEN "images" ELSE "relayed">>]
    /\ UNCHANGED <<fromClient, look, fits, gate, remembered, order>>

---------------------------------------------------------------------------
\* shrinkOne: only an image over the size that can be decoded, and is not
\* too large to decode, is fitted.
ShrinkOne(i) == Edge[i] = "large"
Cost(i) == IF ShrinkOne(i) THEN Weight[i] ELSE 1
HeldImages(k) == FoldFunction(LAMBDA i, n : i + n, 0, [i \in DOMAIN k |-> Cost(i)])

Looked(q, i, shrunk) ==
    /\ fits' = [fits EXCEPT ![q] = [j \in DOMAIN @ \cup {i} |-> IF j = i THEN shrunk ELSE @[j]]]
    /\ at' = [at EXCEPT ![q] = <<"images">>]

\* ShrinkImages: nothing for a body under the threshold; else each image
\* goes through the cache.
FewImages(q) ==
    /\ at[q] = <<"images">> /\ (~going[q].valid \/ ImageCount(going[q]) <= ManyImages)
    /\ at' = [at EXCEPT ![q] = <<"relayed">>]
    /\ UNCHANGED <<going, fromClient, look, names, fits, gate, remembered, order>>

NextImage(q, i) ==
    /\ at[q] = <<"images">> /\ going[q].valid /\ ImageCount(going[q]) > ManyImages
    /\ i \in {x.image : x \in ImagesOf(going[q])} \ DOMAIN fits[q]
    /\ IF i \in DOMAIN remembered
       THEN Looked(q, i, remembered[i])
       ELSE /\ at' = [at EXCEPT ![q] = <<"wait", i>>]
            /\ UNCHANGED fits
    /\ UNCHANGED <<going, fromClient, look, names, gate, remembered, order>>

\* Whoever waited may find it in the cache now.
EnterGate(q, i) ==
    /\ at[q] = <<"wait", i>> /\ gate = "none"
    /\ IF i \in DOMAIN remembered
       THEN /\ Looked(q, i, remembered[i])
            /\ UNCHANGED gate
       ELSE /\ gate' = q
            /\ at' = [at EXCEPT ![q] = <<"decode", i>>]
            /\ UNCHANGED fits
    /\ UNCHANGED <<going, fromClient, look, names, remembered, order>>

LeaveGate(q, i) ==
    /\ at[q] = <<"decode", i>> /\ gate = q
    /\ gate' = "none"
    /\ at' = [at EXCEPT ![q] = <<"keep", i>>]
    /\ UNCHANGED <<going, fromClient, look, names, fits, remembered, order>>

\* The oldest entries go while more is held than may be, the newest never.
\* The fewest are dropped: those a shorter cut would leave over the limit.
Evicted(k, o) ==
    LET over(n) == Len(o) - n > 1 /\ HeldImages(Restrict(k, Range(SubSeq(o, n + 1, Len(o))))) > CacheMax
        n == Min({x \in 0..Len(o) : ~over(x)})
    IN  SubSeq(o, n + 1, Len(o))

\* A mutant: what another request put there meanwhile is not looked for.
KeepAgain(q, i) ==
    /\ at[q] = <<"keep", i>>
    /\ order' = Append(order, i)
    /\ remembered' = [j \in DOMAIN remembered \cup {i} |-> IF j = i THEN ShrinkOne(i) ELSE remembered[j]]
    /\ Looked(q, i, ShrinkOne(i))
    /\ UNCHANGED <<going, fromClient, look, names, gate>>
KeepFitted(q, i) ==
    /\ at[q] = <<"keep", i>>
    /\ IF i \in DOMAIN remembered THEN UNCHANGED <<remembered, order>>
       ELSE LET grown == [j \in DOMAIN remembered \cup {i} |-> IF j = i THEN ShrinkOne(i) ELSE remembered[j]]
            IN  /\ order' = Evicted(grown, Append(order, i))
                /\ remembered' = Restrict(grown, Range(order'))
    /\ Looked(q, i, ShrinkOne(i))
    /\ UNCHANGED <<going, fromClient, look, names, gate>>

ImagesDone(q) ==
    /\ at[q] = <<"images">> /\ going[q].valid /\ ImageCount(going[q]) > ManyImages
    /\ {x.image : x \in ImagesOf(going[q])} \subseteq DOMAIN fits[q]
    /\ going' = [going EXCEPT ![q] =
                  EachBlock(@, LAMBDA x : IF x.type = "image" /\ fits[q][x.image]
                                          THEN [x EXCEPT !.small = TRUE] ELSE x)]
    /\ at' = [at EXCEPT ![q] = <<"relayed">>]
    /\ UNCHANGED <<fromClient, look, names, fits, gate, remembered, order>>

---------------------------------------------------------------------------
PassesInit ==
    /\ fromClient \in [Outbound -> Bodies]
    /\ going = fromClient
    /\ at = [q \in Outbound |-> <<"surrogates">>]
    /\ look = [q \in Outbound |-> Peek(fromClient[q])]
    /\ names = [q \in Outbound |-> <<>>]
    /\ fits = [q \in Outbound |-> <<>>]
    /\ gate = "none" /\ remembered = <<>> /\ order = <<>>

PassesNext ==
    \E q \in Outbound :
       \/ Surrogates(q) \/ EnsureAttribution(q) \/ SystemText(q) \/ EmptyText(q) \/ ToolNames(q)
       \/ FewImages(q) \/ ImagesDone(q)
       \/ \E i \in DOMAIN Edge :
             NextImage(q, i) \/ EnterGate(q, i) \/ LeaveGate(q, i) \/ KeepFitted(q, i)

PassesSpec == PassesInit /\ [][PassesNext]_passVars

---------------------------------------------------------------------------
\* What the upstream is known to refuse (the measurements quoted in the
\* passes) is not in a body that has been through them: no lone half of a
\* pair; the identity line leads; no environment line and no empty block in
\* the system prompt, no empty block in a message that has others; no
\* refused tool name; no image over the size where many are sent.  Excused:
\* a body that does not parse, one written with spaces as to its empty
\* texts, a name whose respelling is taken, an image too large to decode.
Acceptable(b) ==
    /\ \A s \in Range(b.system) : \A t \in Range(s.blocks) : \A i \in DOMAIN t : ~Lone(t, i)
    /\ \A m \in Range(b.messages) : \A x \in Range(m) : \A i \in DOMAIN x.text : ~Lone(x.text, i)
    /\ LastSystem(b).form # "other" => LastSystem(b).blocks # <<>> /\ LastSystem(b).blocks[1] = <<"id">>
    /\ \A t \in Range(LastSystem(b).blocks) : "env" \notin Range(t)
    /\ ~b.spaced => /\ <<>> \notin Range(LastSystem(b).blocks)
                    /\ \A m \in Range(b.messages) :
                          (\E x \in Range(m) : IsEmptyText(x)) => \A x \in Range(m) : IsEmptyText(x)
    /\ \A n \in NamesIn(b) : RefusedName(n) => Accepted(n) \in Range(b.tools)
    /\ b.fit /\ ImageCount(b) > ManyImages =>
          \A x \in ImagesOf(b) : Edge[x.image] = "large" => x.small

\* Nothing else of it changed: with the tool names put back and what was
\* dropped, reworded or repaired set aside, the tools, the choice, the
\* messages and the system prompt are the client's, in the client's order.
Back(q, n) == IF n \in DOMAIN names[q] THEN names[q][n] ELSE n
Plain(t) == Reworded(Repaired(t))
PlainMessages(b, Name(_)) ==
    [i \in DOMAIN b.messages |->
       LET left == SelectSeq(b.messages[i], LAMBDA x : ~IsEmptyText(x))
       IN  [j \in DOMAIN left |-> [type |-> left[j].type, text |-> Plain(left[j].text),
                                   name |-> Name(left[j].name), image |-> left[j].image]]]
PlainSystem(b) ==
    LET texts == SelectSeq(LastSystem(b).blocks, LAMBDA t : t # <<>> /\ t # <<"id">>)
    IN  [i \in DOMAIN texts |-> Plain(texts[i])]
Unaltered(q) ==
    /\ [i \in DOMAIN going[q].tools |-> Back(q, going[q].tools[i])] = fromClient[q].tools
    /\ Back(q, going[q].choice) = fromClient[q].choice
    /\ PlainMessages(going[q], LAMBDA n : Back(q, n)) = PlainMessages(fromClient[q], LAMBDA n : n)
    /\ PlainSystem(going[q]) = PlainSystem(fromClient[q])

\* The cache: what it says of an image is what decoding it says, its order
\* names each entry once, and it keeps no more than it may unless that is
\* one entry.
CacheTrue ==
    /\ \A i \in DOMAIN remembered : remembered[i] = ShrinkOne(i)
    /\ Range(order) = DOMAIN remembered /\ Len(order) = Cardinality(DOMAIN remembered)
    /\ HeldImages(remembered) <= CacheMax \/ Len(order) = 1
OneDecode == Cardinality({q \in Outbound : at[q][1] = "decode"}) <= 1

\* The passes leave a body the upstream takes, change nothing else of it,
\* and share one cache that stays true and bounded, with one decode at a time.
PassesSound ==
    /\ \A q \in Outbound : at[q] = <<"relayed">> =>
          /\ going[q].valid => Acceptable(going[q]) /\ Unaltered(q)
          /\ fromClient[q].valid /\ LastSystem(fromClient[q]).blocks = <<<<"id">>>> /\ fromClient[q] = FixLoneSurrogates(fromClient[q])
                /\ ~SeesEmptyText(fromClient[q]) /\ NamesRefused(fromClient[q]) = {} /\ ~fromClient[q].fit /\ ~SeesEnvLine(fromClient[q])
             => going[q] = fromClient[q]
    /\ CacheTrue /\ OneDecode

-----------------------------------------------------------------------------
(***************************************************************************)
(* The names in an answer put back on its way to the client: the tool      *)
(* names the request was sent with become the client's own (NameRestorer,  *)
(* in the relay), and the model becomes the name the client asked by       *)
(* (ModelRenamer, around the client's writer).  The upstream's bytes       *)
(* arrive cut anywhere.                                                    *)
(*                                                                         *)
(* A streamed answer is a sequence of pieces: "e1" "e2" are the halves of  *)
(* `event:` and "carries" or "other" the event's name; "k1" "k2" the       *)
(* halves of `"model":"` and "value" what follows it; "n1" the start of a  *)
(* name field and "n2" a name as it was sent; "quote", "text" and "nl"     *)
(* (a line's end) the rest.  A JSON answer is one of "top", its own model, *)
(* and "text".                                                             *)
(***************************************************************************)

CONSTANTS
    Answers,        \* what upstreams answer: [stream, named, pieces]
    MaxNameBuffer   \* what the restorer holds of one line

VARIABLES
    upAnswer,    \* the answer
    came,      \* how much of it has arrived
    buf,       \* NameRestorer.buf
    raw,       \* NameRestorer.raw
    pending,   \* ModelRenamer.pending
    midLine, renaming,
    gotten,    \* what the client was sent
    over       \* whether the answer has ended

answerNamesVars == <<upAnswer, came, buf, raw, pending, midLine, renaming, gotten, over>>

IndexFrom(s, x, i) == \* of the first x at or after i, 0 if none
    LET those == {j \in i..Len(s) : s[j] = x} IN IF those = {} THEN 0 ELSE CHOOSE j \in those : \A k \in those : j <= k
KeyIn(s) == \* where the first whole model key starts, 0 if none
    LET those == {j \in 1..Len(s) - 1 : s[j] = "k1" /\ s[j + 1] = "k2"}
    IN  IF those = {} THEN 0 ELSE CHOOSE j \in those : \A k \in those : j <= k
Rest(s, i) == SubSeq(s, i, Len(s))

---------------------------------------------------------------------------
\* NameRestorer: whole lines, each sent name the client's again.
OwnNames(s) == [i \in DOMAIN s |-> IF i > 1 /\ s[i] = "n2" /\ s[i - 1] = "n1" THEN "own" ELSE s[i]]

LastLineEnd(s) ==
    LET those == {j \in DOMAIN s : s[j] = "nl"} IN IF those = {} THEN 0 ELSE CHOOSE j \in those : \A k \in those : j >= k

\* What one chunk lets out, and what the restorer is left with; there is none
\* for a request whose tool names all went as they were.
TranslateAtOnce(chunk) == \* a mutant: a name is looked for in each chunk alone
    [out |-> IF upAnswer.named THEN OwnNames(chunk) ELSE chunk, buf |-> <<>>, raw |-> FALSE]
Translate(chunk) ==
    LET all == buf \o chunk
        end == LastLineEnd(all)
    IN  CASE ~upAnswer.named -> [out |-> chunk, buf |-> <<>>, raw |-> FALSE]
          [] raw -> [out |-> chunk, buf |-> buf, raw |-> TRUE]
          [] upAnswer.named /\ ~raw /\ end = 0 /\ Len(all) > MaxNameBuffer -> [out |-> all, buf |-> <<>>, raw |-> TRUE]
          [] upAnswer.named /\ ~raw /\ end = 0 /\ Len(all) <= MaxNameBuffer -> [out |-> <<>>, buf |-> all, raw |-> FALSE]
          [] OTHER -> [out |-> OwnNames(SubSeq(all, 1, end)), buf |-> Rest(all, end + 1), raw |-> FALSE]

Leftover == IF raw THEN <<>> ELSE OwnNames(buf)

---------------------------------------------------------------------------
\* renameEvents: what can go out of b, what has to wait, and where in the
\* stream it stands.
RECURSIVE RenameEvents(_, _, _, _)
RenameEvents(out, b, mid, ren) ==
    LET wait(o, r) == [out |-> o, rest |-> r, mid |-> mid, ren |-> ren]
        nl == IndexFrom(b, "nl", 1)
    IN
    IF b = <<>> THEN wait(out, b)
    ELSE IF ~mid /\ b = <<"e1">> THEN wait(out, b)
    ELSE IF ~mid /\ Len(b) > 1 /\ b[1] = "e1" /\ b[2] = "e2"
    THEN IF nl = 0 THEN wait(out, b)
         ELSE RenameEvents(out \o SubSeq(b, 1, nl), Rest(b, nl + 1), FALSE, b[3] = "carries")
    ELSE IF ~mid /\ b[1] = "nl" THEN RenameEvents(Append(out, "nl"), Rest(b, 2), FALSE, FALSE)
    ELSE
    LET line == IF nl = 0 THEN b ELSE SubSeq(b, 1, nl)
        key == KeyIn(line)
        close == IF key = 0 THEN 0 ELSE IndexFrom(line, "quote", key + 2)
    IN
    IF ren /\ close > 0
    THEN RenameEvents(out \o SubSeq(b, 1, key + 1) \o <<"asked">>, Rest(b, close), TRUE, FALSE)
    ELSE IF ren /\ nl = 0 /\ key > 0
    THEN [out |-> out \o SubSeq(b, 1, key - 1), rest |-> Rest(b, key), mid |-> TRUE, ren |-> ren]
    ELSE IF ren /\ nl = 0
    THEN LET keep == IF Last(b) = "k1" THEN 1 ELSE 0
         IN  [out |-> out \o SubSeq(b, 1, Len(b) - keep), rest |-> Rest(b, Len(b) - keep + 1),
              mid |-> TRUE, ren |-> ren]
    ELSE RenameEvents(out \o line, Rest(b, Len(line) + 1), nl = 0, ren)

\* Write: a JSON answer is held whole.
WriteAlone(p) == \* a mutant: what was held back is not looked at with what follows
    LET r == RenameEvents(<<>>, p, midLine, renaming)
    IN  /\ pending' = <<>> /\ midLine' = r.mid /\ renaming' = r.ren
        /\ gotten' = gotten \o r.out \o r.rest
Write(p) ==
    IF ~upAnswer.stream
    THEN /\ pending' = pending \o p
         /\ UNCHANGED <<midLine, renaming, gotten>>
    ELSE LET r == RenameEvents(<<>>, pending \o p, midLine, renaming)
         IN  /\ pending' = r.rest /\ midLine' = r.mid /\ renaming' = r.ren
             /\ gotten' = gotten \o r.out

\* The relay has read a chunk: through the restorer, to the client's writer.
Relayed(n) ==
    /\ ~over /\ came + n <= Len(upAnswer.pieces)
    /\ LET t == Translate(SubSeq(upAnswer.pieces, came + 1, came + n))
       IN  /\ buf' = t.buf /\ raw' = t.raw
           /\ Write(t.out)
    /\ came' = came + n
    /\ UNCHANGED <<upAnswer, over>>

\* ReplaceTopLevel: only a model the answer says once at its top.
TopRenamed(s) ==
    IF Len(SelectSeq(s, LAMBDA x : x = "top")) = 1
    THEN [i \in DOMAIN s |-> IF s[i] = "top" THEN "asked" ELSE s[i]] ELSE s

\* The body has ended, or broken off: the tail is written and Finish writes
\* what is still held.
Finished ==
    /\ ~over
    /\ LET t == Leftover
           r == RenameEvents(<<>>, pending \o t, midLine, renaming)
       IN  gotten' = IF upAnswer.stream THEN gotten \o r.out \o r.rest ELSE TopRenamed(pending \o t)
    /\ over' = TRUE /\ buf' = <<>> /\ pending' = <<>>
    /\ UNCHANGED <<upAnswer, came, raw, midLine, renaming>>

AnswerNamesInit ==
    /\ upAnswer \in Answers
    /\ came = 0 /\ buf = <<>> /\ raw = FALSE /\ pending = <<>>
    /\ midLine = FALSE /\ renaming = FALSE /\ gotten = <<>> /\ over = FALSE

AnswerNamesNext ==
    \/ \E n \in 1..Len(upAnswer.pieces) : Relayed(n)
    \/ Finished

AnswerNamesSpec == AnswerNamesInit /\ [][AnswerNamesNext]_answerNamesVars

---------------------------------------------------------------------------
\* What an answer should read like, defined on the whole of it: in each
\* event that carries the model, the value of the first model field.
EventOf(s, i) == \* the event line in force at i: after it no blank line
    LET starts == {j \in 1..i : s[j] = "e1" /\ j < Len(s) /\ s[j + 1] = "e2"
                                /\ (j = 1 \/ s[j - 1] = "nl") /\ IndexFrom(s, "nl", j) # 0}
        blanks == {j \in 2..i : s[j] = "nl" /\ s[j - 1] = "nl"}
        last == IF starts = {} THEN 0 ELSE CHOOSE j \in starts : \A k \in starts : k <= j
    IN  IF last = 0 \/ \E j \in blanks : j > last THEN 0 ELSE last
ModelFields(s) == \* key -> its closing quote, of the fields to rename
    LET closes(i) == LET q == IndexFrom(s, "quote", i + 2)
                         n == IndexFrom(s, "nl", i)
                     IN  IF q # 0 /\ (n = 0 \/ q < n) THEN q ELSE 0
        isField(i) == i < Len(s) /\ s[i] = "k1" /\ s[i + 1] = "k2" /\ closes(i) # 0
                      /\ EventOf(s, i) # 0 /\ s[EventOf(s, i) + 2] = "carries"
    IN  {<<i, closes(i)>> : i \in {x \in DOMAIN s : isField(x)
                                   /\ ~\E y \in 1..x - 1 : isField(y) /\ EventOf(s, y) = EventOf(s, x)}}
Expected(s) ==
    LET inside(j) == \E f \in ModelFields(s) : j > f[1] + 1 /\ j < f[2]
        first(j) == \E f \in ModelFields(s) : j = f[1] + 2 /\ j < f[2]
        shown == [j \in DOMAIN s |-> IF first(j) THEN "asked" ELSE IF inside(j) THEN "gone" ELSE s[j]]
    IN  SelectSeq(shown, LAMBDA x : x # "gone")

AsSent(s) == [i \in DOMAIN s |-> IF s[i] = "own" THEN "n2" ELSE s[i]]

\* However the bytes are cut, the client ends with the whole answer renamed,
\* and with its own tool names unless one line outgrew the buffer; on the
\* way it has a beginning of that, and every line that has ended.
AnswerNamed ==
    LET s == SubSeq(upAnswer.pieces, 1, came)
        end == LastLineEnd(s)
    IN  IF upAnswer.stream
        THEN /\ over => AsSent(gotten) = AsSent(Expected(s))
             /\ over /\ ~raw => gotten = Expected(IF upAnswer.named THEN OwnNames(s) ELSE s)
             /\ IsPrefix(AsSent(gotten), AsSent(Expected(upAnswer.pieces))) \/ over
             /\ Len(gotten) >= Len(Expected(SubSeq(s, 1, end)))
        ELSE /\ over => AsSent(gotten) = AsSent(TopRenamed(s))
             /\ ~over => gotten = <<>>
=============================================================================
