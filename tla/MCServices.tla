----------------------------- MODULE MCServices ------------------------------
(***************************************************************************)
(* The gateway's services for TLC, side by side in one run: a behaviour    *)
(* plays one of them, "part", and the others stay where they began, since  *)
(* none of them shares a variable with another.                            *)
(***************************************************************************)
EXTENDS ConnDrain, Availability, QuotaWriter, Limits, Recordings, Titles,
        RelayAttempts, ClientNames, Operator, Meters, UsageLog, SignIn, Transcript, TLC

VARIABLE part

MCClientOf == "x1" :> "c1" @@ "x2" :> "c2"
MCChunksOf == "x1" :> {"a"} @@ "x2" :> {"a", "b"}

\* ClientNames: a type with one slot of its own, whose agent may manage it, and
\* a custom client, whose agent may not yet.
MCKinds == {[own |-> {100}, first |-> 100 :> "large", custom |-> FALSE],
            [own |-> {100}, first |-> 100 :> "large", custom |-> TRUE]}

\* Meters: turns whose usage comes in parts, in one place or on every line,
\* with a line longer than is held, a failure, or no stream at all.
MCStated == <<[input |-> {5}, output |-> {}, cached |-> {3}], [input |-> {}, output |-> {2}, cached |-> {}],
              [input |-> {}, output |-> {4}, cached |-> {}], [input |-> {6}, output |-> {3}, cached |-> {2}],
              [input |-> {1}, output |-> {1}, cached |-> {}]>>
MCCells(words) == [i \in DOMAIN words |-> <<words[i], 0>>]
MCUse(n) == MCCells(<<"usa", "ge">>) \o <<<<"u", n>>>>
MCLong == MCCells([i \in 1..12 |-> "x"])
MCText == MCCells(<<"x">>)
MCOn(name, cells) == MCCells(<<"event:", name, "nl", "data:", "{">>) \o cells \o MCCells(<<"}", "nl", "nl">>)
MCData(cells) == MCCells(<<"data:", "{">>) \o cells \o MCCells(<<"}", "nl", "nl">>)
MCBody(from, typed, body) == [wire |-> from, typed |-> typed, body |-> body]
MCAnswering == {
    MCBody("anthropic", "stream", MCOn("message_start", MCUse(1)) \o MCOn("text", MCText)
        \o MCOn("message_delta", MCUse(2)) \o MCOn("message_delta", MCUse(3))),
    MCBody("anthropic", "stream", MCOn("message_start", MCUse(1))
        \o MCOn("text", MCLong \o MCCells(<<"event:", "error">>) \o MCLong)
        \o MCOn("message_delta", MCUse(2))),
    MCBody("anthropic", "stream", MCOn("message_start", MCUse(1)) \o MCOn("error", MCText)
        \o MCOn("message_delta", MCUse(2))),
    MCBody("openai", "sniff", MCCells(<<"nl">>)
        \o MCOn("completed", MCUse(5) \o MCLong \o MCUse(4))),
    MCBody("openai", "stream", MCOn("text", MCText) \o MCOn("failed", MCLong \o MCLong \o MCUse(4))
        \o MCOn("completed", MCUse(5))),
    MCBody("openai", "sniff", MCCells(<<"sp", "{">>) \o MCUse(4) \o MCCells(<<"}">>)),
    MCBody("google", "stream", MCData(MCUse(4) \o MCCells(<<"text">>))
        \o MCData(MCUse(2)) \o MCData(MCCells(<<"declined">>)) \o MCData(MCUse(5))),
    MCBody("google", "whole", MCCells(<<"{">>) \o MCUse(4) \o MCCells(<<"text", "}">>))}

\* UsageLog: a chat, requests in none, a refusal, and two keys of one name.
MCRow(sort, from, of, ill, cost, lasted) ==
    [refused |-> sort = 1, change |-> FALSE, own |-> sort # 0, key |-> from, chat |-> of, failed |-> ill, tokens |-> cost, took |-> lasted]
MCContents == {MCRow(0, "k1", "t1", FALSE, 2, 1), MCRow(0, "k2", "", TRUE, 1, 3), MCRow(1, "k2", "", TRUE, 0, 2)}
MCNameOf == "k1" :> "laptop" @@ "k2" :> "laptop"
MCFilters == {[keys |-> {}, outcome |-> "", kinds |-> {}], [keys |-> {"k2"}, outcome |-> "failed", kinds |-> {0}]}

\* SignIn: an account stored before its id was known, two accounts of one
\* address, and ones known by their address.
MCIs(email, uuid) == [email |-> email, uuid |-> uuid]
MCOf(who, email, uuid) == [owner |-> who, email |-> email, uuid |-> uuid]
MCSetting == {
    [id |-> "anthropic", device |-> FALSE, address |-> FALSE,
     answers |-> "ann" :> MCIs("e1", "u1") @@ "bob" :> MCIs("e2", "u2"),
     rows |-> {<<MCOf("ann", "e1", "")>>}],
    [id |-> "openai", device |-> TRUE, address |-> FALSE,
     answers |-> "ann" :> MCIs("e1", "u1") @@ "team" :> MCIs("e1", "u2"),
     rows |-> {<<MCOf("ann", "e1", "u1")>>}],
    [id |-> "google", device |-> FALSE, address |-> TRUE,
     answers |-> "ann" :> MCIs("e1", "p1") @@ "bob" :> MCIs("e2", "p2"),
     rows |-> {<<>>}]}

ServicesInit ==
    /\ part \in {"conns", "availability", "quota", "admission", "budget", "recordings",
                 "titles", "relay", "names", "operator", "meters", "usage", "signin", "transcript"}
    /\ DrainInit /\ AvailInit /\ QuotaInit /\ AdmissionInit /\ BudgetInit /\ RecInit
    /\ TitlesInit /\ Init
    /\ NamesInit /\ clientRow.manage # kind.custom /\ (part = "names" \/ kind.custom)
    /\ OperatorInit
    /\ MetersInit /\ (part = "meters" \/ passing.typed = "whole")
    /\ UsageLogInit
    /\ SignInInit /\ (part = "signin" \/ vendor.address)
    /\ TranscriptInit

Only(p) ==
    /\ part = p /\ part' = p
    /\ IF p = "conns" THEN TRUE ELSE UNCHANGED drainVars
    /\ IF p = "availability" THEN TRUE ELSE UNCHANGED availVars
    /\ IF p = "quota" THEN TRUE ELSE UNCHANGED quotaVars
    /\ IF p = "admission" THEN TRUE ELSE UNCHANGED admissionVars
    /\ IF p = "budget" THEN TRUE ELSE UNCHANGED budgetVars
    /\ IF p = "recordings" THEN TRUE ELSE UNCHANGED recVars
    /\ IF p = "titles" THEN TRUE ELSE UNCHANGED titlesVars
    /\ IF p = "relay" THEN TRUE ELSE UNCHANGED vars
    /\ IF p = "names" THEN TRUE ELSE UNCHANGED namesVars
    /\ IF p = "operator" THEN TRUE ELSE UNCHANGED operatorState
    /\ IF p = "meters" THEN TRUE ELSE UNCHANGED metersVars
    /\ IF p = "usage" THEN TRUE ELSE UNCHANGED usageVars
    /\ IF p = "signin" THEN TRUE ELSE UNCHANGED signInVars
    /\ IF p = "transcript" THEN TRUE ELSE UNCHANGED transcriptVars

ServicesNext ==
    \/ Only("conns") /\ DrainNext
    \/ Only("availability") /\ AvailNext
    \/ Only("quota") /\ QuotaNext
    \/ Only("admission") /\ AdmissionNext
    \/ Only("budget") /\ BudgetNext
    \/ Only("recordings") /\ RecNext
    \/ Only("titles") /\ TitlesNext
    \/ Only("relay") /\ Next
    \/ Only("names") /\ NamesNext
    \/ Only("operator") /\ OperatorNext
    \/ Only("meters") /\ MetersNext
    \/ Only("usage") /\ UsageLogNext
    \/ Only("signin") /\ SignInNext
    \/ Only("transcript") /\ TranscriptNext

ServicesSpec ==
    ServicesInit
    /\ [][ServicesNext]_<<part, drainVars, availVars, quotaVars, admissionVars, budgetVars,
                          recVars, titlesVars, vars, namesVars, operatorState, metersVars, usageVars,
                          signInVars, transcriptVars>>

---------------------------------------------------------------------------
\* What the operator's console rests on: the sessions of the admin account, the
\* usage read off answers, the log and the transcripts drawn from it, and the
\* accounts that signing in brings.  Each is asked of its own part: the others
\* stay at a beginning that satisfies theirs.
ConsoleSound ==
    /\ part = "operator" => OperatorSound
    /\ part = "meters" => MetersSound
    /\ part = "usage" => UsageLogSound
    /\ part = "signin" => SignInSound
    /\ part = "transcript" => TranscriptSound

\* What tells two states apart: the part played, and what it plays with; which
\* of the recorders, of the browsers or of the tabs does what does not, nor how
\* long past a result is that no failure can be counted from in the ticks left,
\* nor what an attempt that is over was for, nor a grant nobody uses, nor which
\* password one is (only whether it is the account's: each is chosen once), nor
\* what a call has already been held to.
Alike(does, those) == [d \in {does[h] : h \in those} |-> Cardinality({h \in those : does[h] = d})]
Came(t) == IF t = 0 THEN "never" ELSE IF t < now THEN "past" ELSE "now"
TooLate(t) == IF t # 0 /\ t + AutoOffAfter > MaxNow THEN MaxNow ELSE t
RecordersView ==
    <<now, IF row.is = "works" THEN <<>> ELSE <<Came(row.at), IF row.is = "lasting" THEN TooLate(row.at) ELSE 0>>,
      offBy, Came(failing.at), TooLate(failing.since), IF held > now THEN held ELSE 0, held # 0, held > failing.at \/ recut,
      trying, checking, Alike(rec, Recorder), op, TooLate(lapse)>>
Now(n) == IF n = 0 THEN "no" ELSE IF n = password THEN "the account's" ELSE "another"
ClerkView == [h \in Clerk |-> LET c == clerk[h] IN
    [c EXCEPT !.read = IF c.does \in {"login", "change"} \/ c.pc = "mint" THEN Now(c.read) ELSE "no",
              !.new = IF c.pc \in {"endAll", "open"} \/ c.new = 0 THEN Now(c.new) ELSE "its own"]]
ClerksView == <<password # 0, chosen, loginLinks, {Now(s) : s \in sessions}, Alike(ClerkView, Browser),
                [h \in Shell |-> ClerkView[h]], setups, spent, forced>>
CallView(c) ==
    IF "kept" \notin DOMAIN c THEN c
    ELSE [c EXCEPT !.on = c.pc = "check" /\ (@ \/ c.kept), !.kept = c.pc = "check" /\ @]
NamesView == <<kind, clientRow, off, slots, drawn, offered, flips, [h \in Caller |-> CallView(calls[h])],
               made, onFile + unfiled>>
Attempts ==
    LET worked == {tabs[t].n : t \in {u \in Tab : "n" \in DOMAIN tabs[u]}}
    IN  [n \in DOMAIN flows |->
           <<flows[n].pending, IF flows[n].pending THEN flows[n].account ELSE NoRow,
             IF flows[n].pending \/ n \in worked THEN codes[n] ELSE codes[n].by = Nobody>>]
InUse == {accounts[r].grant : r \in Stored} \cup {tabs[t].grant : t \in {u \in Tab : "grant" \in DOMAIN tabs[u]}}
GrantsView ==
    LET inUse == InUse  kept == Held \cup astray \cup Replaced
    IN  [g \in DOMAIN grants |-> IF g \in inUse THEN <<grants[g], g \in astray>> ELSE Standing(g) => g \in kept]
RowsView == [r \in DOMAIN accounts |-> IF r \in Stored THEN [accounts[r] EXCEPT !.had = {}] ELSE NoRow]
TabsView == <<vendor, Attempts, RowsView, GrantsView, Alike(tabs, Tab), leaving>>
ServicesView ==
    <<part,
      CASE part = "conns" -> drainVars
        [] part = "availability" -> RecordersView
        [] part = "quota" -> quotaVars
        [] part = "admission" -> admissionVars
        [] part = "budget" -> budgetVars
        [] part = "recordings" -> recVars
        [] part = "titles" -> titlesVars
        [] part = "relay" -> vars
        [] part = "names" -> NamesView
        [] part = "operator" -> ClerksView
        [] part = "meters" -> metersVars
        [] part = "usage" -> usageVars
        [] part = "signin" -> TabsView
        [] part = "transcript" -> transcriptVars>>
=============================================================================
