----------------------------- MODULE MCSurface -------------------------------
(***************************************************************************)
(* What clients meet, for TLC, side by side: how a client is set up, the   *)
(* lists of models and the choice among them, the translation of answers,  *)
(* a conversation with another vendor, the vendors' refusals, a request    *)
(* from its credential to its row, its body's rewrites, conversations with *)
(* Claude, the vendors' plans, lists and tests, and the pages that say how *)
(* the gateway is.  A behaviour plays one of them, "part"; they share no   *)
(* variable, and the others stay where they began.                         *)
(***************************************************************************)
EXTENDS MessagesAnswer, NextTurn, ModelLists, ModelRoutes, ClientSetup, Passes,
        Inference, ClaudeTurns, AnswerSinks, Uptime, Notices,
        Subscriptions, Refusals

CONSTANT Parts      \* the parts the run plays

VARIABLE part

\* ModelLists: one account of each of two vendors.
MCServing == "a" :> "p" @@ "b" :> "q"

\* ModelRoutes: two versions of a family at one vendor, one listed by either of
\* its accounts, and another vendor's model.
MCVendor == "a1" :> "anthropic" @@ "a2" :> "anthropic" @@ "b1" :> "openai"
MCFamilyIn == "o1" :> "opus" @@ "o2" :> "opus" @@ "s1" :> "none"
MCVendorOfFamily == "opus" :> "anthropic"
MCPrefixOf == "o1" :> "anthropic" @@ "o2" :> "anthropic" @@ "s1" :> "openai"
MCNewer == {<<"o2", "o1">>}
MCSaysOf == "a1" :> {{"o1", "o2"}, {"o2"}} @@ "a2" :> {{"o1"}} @@ "b1" :> {{"s1"}}

\* NextTurn: a client that thinks and one that does not, and two tools whose
\* names are too long and are shortened to the same one.
Habit(thinking, budget) ==
    [thinking |-> thinking, keeps |-> budget > 0, budget |-> budget, effort |-> "none",
     choice |-> "auto", search |-> "none", format |-> "none", mcp |-> FALSE]
MCHabits == {Habit("none", 0), Habit("enabled", 4096)}
LongNames == <<"long1", "long2">>
MCShortened == "long1" :> "long" @@ "long2" :> "long"

\* Passes: bodies with each of the faults, sent twice over.
Text(t) == [type |-> "text", text |-> t, name |-> "none", image |-> "none", small |-> FALSE]
Use(n) == [type |-> "tool_use", text |-> <<>>, name |-> n, image |-> "none", small |-> FALSE]
Image(i) == [type |-> "image", text |-> <<>>, name |-> "none", image |-> i, small |-> FALSE]
SystemBlocks(s) == [form |-> "blocks", blocks |-> s]
Sent(system, messages, tools, choice, fit) ==
    [valid |-> TRUE, spaced |-> FALSE, system |-> system, messages |-> messages, tools |-> tools,
     choice |-> choice, fit |-> fit]
Both == <<"mcp_x", "todowrite">>
PlainBody == Sent(<<SystemBlocks(<<<<"id">>>>)>>, <<<<Text(<<"word">>), Image("thumb")>>>>, <<"ok">>, "ok", FALSE)
MCBodies ==
    {PlainBody,
     Sent(<<>>, <<<<Text(<<>>)>>, <<Text(<<>>), Text(<<"lo", "env">>)>>>>, <<>>, "none", FALSE),
     Sent(<<[form |-> "string", blocks |-> <<<<"env", "hi">>>>]>>,
          <<<<Use("mcp_x")>>, <<Use("todowrite")>>>>, Both, "mcp_x", FALSE),
     Sent(<<SystemBlocks(<<<<"word">>>>), SystemBlocks(<<<<"hi", "hi", "lo">>, <<>>>>)>>,
          <<<<Use("mcp_x")>>>>, <<"mcp_x", "mcp__x">>, "none", FALSE),
     Sent(<<[form |-> "other", blocks |-> <<>>]>>, <<<<Image("l1")>>, <<Image("l1")>>>>, <<>>, "none", FALSE),
     Sent(<<SystemBlocks(<<<<>>>>)>>, <<<<Image("l1"), Text(<<>>)>>, <<Image("l2"), Image("thumb")>>>>, <<>>, "none", TRUE),
     Sent(<<SystemBlocks(<<<<"id">>, <<"env">>>>)>>, <<<<Image("l2")>>, <<Image("l1"), Image("huge")>>>>, <<>>, "none", TRUE),
     Sent(<<SystemBlocks(<<<<"id">>>>)>>, <<<<Image("l2")>>>>, <<>>, "none", TRUE),
     [Sent(<<SystemBlocks(<<<<"word">>, <<>>>>)>>, <<<<Text(<<>>), Text(<<"word">>)>>>>, <<>>, "none", FALSE)
        EXCEPT !.spaced = TRUE],
     [Sent(<<SystemBlocks(<<<<"env">>, <<"hi">>>>)>>, <<<<Use("mcp_x")>>>>, <<"mcp_x">>, "none", TRUE)
        EXCEPT !.valid = FALSE]}
\* Two requests meet only in the fitting of images: one of them has some.
OneFits == fromClient["c2"].fit
MCEdge == "thumb" :> "small" @@ "l1" :> "large" @@ "l2" :> "large" @@ "huge" :> "huge"
MCWeight == "thumb" :> 1 @@ "l1" :> 2 @@ "l2" :> 2 @@ "huge" :> 9

\* Passes, the answer's names: model fields first, second and never closed, keys cut short,
\* names and event lines where they count and where they do not.
Event(name, data) == <<"e1", "e2", name, "nl">> \o data \o <<"nl", "nl">>
ModelField == <<"k1", "k2", "value", "quote">>
Streamed(s) == {[stream |-> TRUE, named |-> n, pieces |-> s] : n \in BOOLEAN}
Json(s) == {[stream |-> FALSE, named |-> TRUE, pieces |-> s]}
TwoTops == <<"top", "text", "top">>
MCAnswers ==
    Streamed(Event("carries", <<"text">> \o ModelField \o <<"text">> \o ModelField) \o Event("other", ModelField))
    \cup Streamed(Event("other", <<"n1", "n2", "quote">> \o ModelField)
                   \o Event("carries", <<"k1", "text">> \o ModelField))
    \cup Streamed(Event("carries", <<"text", "nl", "k1", "k2", "value", "nl">> \o ModelField)
                   \o <<"nl", "text", "e1", "e2">> \o ModelField)
    \cup Streamed(<<"e1", "text", "nl">> \o Event("carries", <<"text", "k1">>) \o Event("carries", ModelField))
    \cup Streamed(ModelField \o <<"nl">>
                   \o Event("carries", <<"n1", "text", "text", "text", "text", "text", "n1", "n2">> \o ModelField))
    \cup Json(<<"text", "n1", "n2", "text", "top", "text">>)
    \cup Json(TwoTops)

\* Inference: what each kind of refusal and of body takes, with budgets over and
\* under what the versions give.
Creds(place, value) ==
    [p \in {"authorization", "x-api-key", "x-goog-api-key", "query"} |-> IF p = place THEN value ELSE "none"]
Shape(api, body, model, max, thinking) ==
    [creds |-> Creds("x-api-key", "good"), api |-> api, call |-> "known", body |-> body, model |-> model,
     max |-> max, thinking |-> thinking, fits |-> TRUE, counts |-> FALSE, names |-> FALSE,
     title |-> FALSE, chat |-> FALSE]
MCShapes ==
    {[Shape("messages", "plain", "slot", 1, 0) EXCEPT !.creds = Creds("query", "good")],
     [Shape("gemini", "gzip", "slot", 4, 4) EXCEPT !.creds = Creds("query", "good"), !.chat = TRUE],
     [Shape("gemini", "plain", "slot", 1, 0) EXCEPT !.call = "unknown"],
     Shape("gemini", "bomb", "slot", 1, 0), Shape("messages", "cut", "slot", 1, 0),
     Shape("messages", "br", "slot", 9, 4), Shape("responses", "br", "slot", 1, 0),
     [Shape("messages", "plain", "slot", 9, 8) EXCEPT !.names = TRUE, !.title = TRUE, !.chat = TRUE],
     [Shape("responses", "plain", "fam", 9, 5) EXCEPT !.fits = FALSE],
     [Shape("messages", "plain", "m3", 9, 5) EXCEPT !.counts = TRUE],
     Shape("messages", "gzip", "fam", 9, 5)}
MCOutCap == "m1" :> 5 @@ "m2" :> 8 @@ "m3" :> 0 @@ "none" :> 0
MCSpeaks == "m1" :> "messages" @@ "m2" :> "messages" @@ "m3" :> "responses" @@ "none" :> "messages"

\* ClaudeTurns: Codex, and Gemini clients that keep ids and signatures or not;
\* tools of one name in two namespaces, and names that become alike.
ClientOf(kind, ids, signs, wants, reverses, splits) ==
    [kind |-> kind, ids |-> ids, signs |-> signs, wants |-> wants, shows |-> wants,
     reverses |-> reverses, splits |-> splits]
MCClients ==
    {ClientOf("codex", TRUE, FALSE, FALSE, TRUE, FALSE), ClientOf("gemini", TRUE, TRUE, TRUE, TRUE, FALSE),
     ClientOf("gemini", FALSE, TRUE, TRUE, FALSE, TRUE), ClientOf("gemini", FALSE, FALSE, TRUE, FALSE, FALSE)}
ToolIn(ns, n) == [name |-> n, ns |-> ns]
OwnTool(n) == ToolIn("none", n)
MCToolsets ==
    "codex" :> {<<OwnTool(<<"f">>), ToolIn("n", <<"f">>), ToolIn("n", <<"g">>)>>,
                <<ToolIn("n", <<"f">>), ToolIn("m", <<"g">>), ToolIn("m", <<"f">>)>>}
    @@ "gemini" :> {<<OwnTool(<<"f">>), OwnTool(<<"a.b">>)>>,
                    <<OwnTool(<<"a.b">>), OwnTool(<<"a.b", "hash">>)>>}
MCFitting == {<<"f">>, <<"g">>, <<"a.b", "hash">>}
Element(is, n) == [is |-> is, nth |-> n]
MCAnswerShapes ==
    {<<Element("text", 1)>>, <<Element("call", 1), Element("call", 2)>>,
     <<Element("thinking", 1), Element("call", 2), Element("call", 2)>>,
     <<Element("thinking", 1), Element("thinking", 1), Element("text", 1), Element("thinking", 1)>>}

\* Notices: a client that fails, one that worked in between, one that works again.
MCRowsSeen ==
    {<<"failed", "failed">>, <<"failed", "worked", "failed">>, <<"failed", "failed", "worked", "worked">>}

\* Subscriptions: a plan of each vendor's, ChatGPT's with other windows than the
\* usual, Google's with two lines of models.
Allowance(of, line, length) == [names |-> of, line |-> line, length |-> length]
MCVendorFor == "c1" :> "anthropic" @@ "o1" :> "openai" @@ "g1" :> "google"
MCAllowances ==
    "c1" :> <<Allowance(<<"session">>, "plan", 5), Allowance(<<"weekly">>, "plan", 168)>>
    @@ "o1" :> <<Allowance(<<"primary">>, "plan", 160), Allowance(<<"secondary">>, "plan", 72),
                 Allowance(<<"spark">>, "extra", 5)>>
    @@ "g1" :> <<Allowance(<<"flash", "pro">>, "gemini", 5), Allowance(<<"argon">>, "gemini", 168),
                 Allowance(<<"opus">>, "claude", 168)>>

\* Refusals: delays that are figures, are none, or are too long.
DelayOf(unit, n) == [unit |-> unit, n |-> n]
MCDelaysTold ==
    {<<>>, <<DelayOf("s", 3)>>, <<DelayOf("ms", 120)>>, <<DelayOf("h", 1), DelayOf("s", 7)>>,
     <<DelayOf("s", 2000000), DelayOf("s", 0)>>, <<DelayOf("s", 3000000)>>}

\* ModelLists: ids that do not say what the picker shows them as, and models no
\* picker shows.
ShownAs(family, version, level) == [named |-> TRUE, family |-> family, version |-> version, level |-> level]
Unshown == [ShownAs("none", <<>>, "none") EXCEPT !.named = FALSE]
GeminiId(version, family, rest, shown, priority) ==
    [gemini |-> TRUE, version |-> version, family |-> family, rest |-> rest, shown |-> shown,
     quota |-> TRUE, claude |-> FALSE, priority |-> priority]
OtherId(family, shown) == [GeminiId(<<>>, family, "", shown, 0) EXCEPT !.gemini = FALSE]
MCCatalogIds ==
    <<[OtherId("haiku", ShownAs("none", <<>>, "none")) EXCEPT !.claude = TRUE],
      GeminiId(<<2, 5>>, "flash", "", ShownAs("flash-lite", <<3, 5>>, "none"), 2),
      GeminiId(<<3>>, "flash", "agent", ShownAs("flash", <<3, 5>>, "high"), 0),
      GeminiId(<<3, 5>>, "flash", "low", ShownAs("flash", <<3, 5>>, "medium"), 1),
      GeminiId(<<3, 10>>, "flash", "preview", Unshown, 2),
      GeminiId(<<4>>, "argon", "high", ShownAs("argon", <<4>>, "high"), 0),
      [GeminiId(<<4>>, "argon", "low", ShownAs("argon", <<4>>, "low"), 0) EXCEPT !.quota = FALSE],
      OtherId("oss", ShownAs("none", <<>>, "medium"))>>
MCOfferedLists == {<<>>, <<4, 1, 2, 3>>, <<8, 6, 4, 3>>, <<7, 3, 1, 5>>, <<2, 7, 6, 4>>}
MCPickerOrders == {<<6, 3, 4>>, <<4, 2, 6>>}

EveryPart ==
    {"lists", "routes", "answer", "talk", "setup", "passes", "named", "inference", "turns",
     "sinks", "uptime", "notices", "plans", "refusals", "tests"}
ASSUME KnownParts == Parts \subseteq EveryPart

SurfaceInit ==
    /\ part \in Parts
    /\ ListsInit /\ (part = "lists" \/ (accounts = {} /\ \A a \in Subscription : upstream[a] = {{"m"}}))
    /\ RoutesInit /\ (part = "routes" \/ \A a \in Account : says[a] = CHOOSE l \in SaysOf[a] : TRUE)
    /\ AnswerInit /\ (part = "answer" \/ asked = [up |-> "gemini", stream |-> TRUE, thinking |-> "none"])
    /\ TalkInit /\ (part = "talk" \/ (bound = "claude" /\ habit = Habit("none", 0)))
    /\ SetupInit
    /\ PassesInit /\ IF part = "passes" THEN OneFits ELSE fromClient = [q \in Outbound |-> PlainBody]
    /\ AnswerNamesInit /\ (part = "named" \/ upAnswer = [stream |-> FALSE, named |-> TRUE, pieces |-> TwoTops])
    /\ InferenceInit /\ (part = "inference" \/ ~holder.direct)
    /\ TurnsInit /\ (part = "turns" \/ client.kind = "codex")
    /\ SinksInit /\ (part = "sinks" \/ call = [sink |-> "native", stream |-> TRUE, status |-> 200, sse |-> TRUE])
    /\ UptimeInit /\ NoticesInit
    /\ SubscriptionsInit /\ (part = "plans" \/ \A a \in Subscribed : left[a][1].used = 0)
    /\ RefusalsInit /\ (part = "refusals" \/ askedOf = "google")
    /\ VendorListsInit
    /\ (part = "tests" \/ (listVendor = "google" /\ offeredNow = <<>> /\ pickerNow = <<6, 3, 4>>))

Only(p) ==
    /\ part = p /\ part' = p
    /\ IF p = "lists" THEN TRUE ELSE UNCHANGED listsVars
    /\ IF p = "routes" THEN TRUE ELSE UNCHANGED routesVars
    /\ IF p = "answer" THEN TRUE ELSE UNCHANGED answerVars
    /\ IF p = "talk" THEN TRUE ELSE UNCHANGED talkVars
    /\ IF p = "setup" THEN TRUE ELSE UNCHANGED setupVars
    /\ IF p = "passes" THEN TRUE ELSE UNCHANGED passVars
    /\ IF p = "named" THEN TRUE ELSE UNCHANGED answerNamesVars
    /\ IF p = "inference" THEN TRUE ELSE UNCHANGED inferenceVars
    /\ IF p = "turns" THEN TRUE ELSE UNCHANGED turnsVars
    /\ IF p = "sinks" THEN TRUE ELSE UNCHANGED sinksVars
    /\ IF p = "uptime" THEN TRUE ELSE UNCHANGED uptimeVars
    /\ IF p = "notices" THEN TRUE ELSE UNCHANGED noticesVars
    /\ IF p = "plans" THEN TRUE ELSE UNCHANGED subscriptionVars
    /\ IF p = "refusals" THEN TRUE ELSE UNCHANGED refusalVars
    /\ IF p = "tests" THEN TRUE ELSE UNCHANGED vendorListVars

SurfaceNext ==
    \/ Only("lists") /\ ListsNext
    \/ Only("routes") /\ RoutesNext
    \/ Only("answer") /\ AnswerNext
    \/ Only("talk") /\ TalkNext
    \/ Only("setup") /\ SetupNext
    \/ Only("passes") /\ PassesNext
    \/ Only("named") /\ AnswerNamesNext
    \/ Only("inference") /\ InferenceNext
    \/ Only("turns") /\ TurnsNext
    \/ Only("sinks") /\ SinksNext
    \/ Only("uptime") /\ UptimeNext
    \/ Only("notices") /\ NoticesNext
    \/ Only("plans") /\ SubscriptionsNext
    \/ Only("refusals") /\ RefusalsNext
    \/ Only("tests") /\ VendorListsNext

\* A module's properties are asked of its own part alone: the others stay at a
\* beginning that satisfies theirs.

\* Whatever a name is bound to in turn, each upstream is sent the conversation
\* with its own reasoning in place and its calls under names it takes.
NextTurnKept == part = "talk" => NextTurnSound

\* What a client is answered is whole, or says it is not: translated from another
\* vendor's stream, with its names put back, unwrapped or gathered; and a
\* refusal holds back what it is about, for as long as it says.
AnswersSound ==
    /\ part = "answer" => AnswerIsWhole /\ TranslatedWell
    /\ part = "named" => AnswerNamed
    /\ part = "sinks" => SinksSound
    /\ part = "refusals" => RefusalsSound

\* What is sent for a client is what it asked, in a form its upstream accepts:
\* its body rewritten, its model and budget fitted to each attempt and its row
\* true to the last, its history as both sides said it, and its model from a
\* list in the vendor's order.
RequestsSound ==
    /\ part = "passes" => PassesSound
    /\ part = "inference" => InferenceSound
    /\ part = "turns" => TurnsSound
    /\ part = "tests" => VendorListsSound

\* The public pages and the operator's say what is so: the status page of the
\* gateway's stops, crashes and pauses, the notices of what is wrong now, and
\* the accounts' windows of what is left.
PagesSound ==
    /\ part = "uptime" => UptimeSound
    /\ part = "notices" => NoticesSound
    /\ part = "plans" => SubscriptionsSound

\* What tells two states apart: the part played, and what it plays with; which
\* of a key's handlers does what does not, nor how a link came to work no more,
\* nor what a key's history was once a race has hidden it, nor which of two
\* accounts is in trouble, nor which of two keys spent.
Alike(is) == [d \in Range(is) |-> Cardinality({h \in DOMAIN is : is[h] = d})]
LinkView(l) == <<l.is = "waiting", IF l.is = "expired" \/ l.is = "waiting" THEN l.carries ELSE 0>>
KeyView ==
    IF {"create", "use", "write"} \subseteq lost THEN <<>>
    ELSE <<secret, configured, based, lately, LinkView(links.install), LinkView(links.update), agentLinks,
           secret \in holders, Alike(does), lost,
           "use" \in lost \/ brought, servedSince /\ "write" \notin lost>>
MarksOf(a) == {n \in DOMAIN sinceMark : n[2] = a}
NoticesView ==
    <<[trouble EXCEPT !.account = Alike(
          [a \in Paid |-> <<trouble.account[a], {<<n[1], n \in readMarks, sinceMark[n]>> : n \in MarksOf(a)},
                            [r \in Reading |-> {n.id[1] : n \in {m \in Range(onPage[r].list) : m.id[2] = a}}]>>])],
      [r \in Reading |-> <<onPage[r].reads, {n \in Range(onPage[r].list) : n.id[2] \notin Paid}>>],
      {<<n, n \in readMarks, sinceMark[n]>> : n \in {m \in DOMAIN sinceMark : m[2] \notin Paid}},
      {n \in readMarks : n \notin DOMAIN sinceMark}>>
PlansView ==
    <<left, barred, quotaKept, toldOf, Alike([k \in Spenders |-> [a \in Subscribed |-> weights[a][k]]]), spendings>>
SurfaceView ==
    <<part,
      CASE part = "lists" -> listsVars
        [] part = "routes" -> routesVars
        [] part = "answer" -> answerVars
        [] part = "talk" -> talkVars
        [] part = "setup" -> KeyView
        [] part = "passes" -> passVars
        [] part = "named" -> answerNamesVars
        [] part = "inference" -> inferenceVars
        [] part = "turns" -> turnsVars
        [] part = "sinks" -> sinksVars
        [] part = "uptime" -> uptimeVars
        [] part = "notices" -> NoticesView
        [] part = "plans" -> PlansView
        [] part = "refusals" -> refusalVars
        [] part = "tests" -> vendorListVars>>

SurfaceSpec ==
    SurfaceInit
    /\ [][SurfaceNext]_<<part, listsVars, routesVars, answerVars, talkVars, setupVars,
                         passVars, answerNamesVars, inferenceVars, turnsVars, sinksVars,
                         uptimeVars, noticesVars, subscriptionVars, refusalVars, vendorListVars>>
=============================================================================
