------------------------------ MODULE Inference -------------------------------
(***************************************************************************)
(* One request through the client-facing surface (httpapi/gateway): the    *)
(* gateway's switch, the key, the body, where it goes, what is sent on     *)
(* each attempt, what is answered, and the row of the request log, with    *)
(* the operator changing the client meanwhile.  The key is read once, what *)
(* its name stands for later, and the version that serves a family only    *)
(* when an account is leased.                                              *)
(***************************************************************************)
EXTENDS Naturals, Sequences, FiniteSets

CONSTANTS
    Inbound,            \* the requests
    Shapes,         \* what a request may be (MC modules)
    Real,           \* models
    Family,         \* the family's name, which a slot may follow
    Versions,       \* its versions, of one provider
    OutCap,         \* a model's output cap in the gateway's list, 0 unknown
    Speaks,         \* the dialect of the provider that serves a model
    MaxTries,       \* maxAttempts
    MaxTurned       \* bound: changes the operator makes

ASSUME FamilyIsServed ==
    Versions \subseteq Real /\ Versions # {} /\ Family \notin Real \cup {"none"} /\ "none" \notin Real

\* A model's cap is a number, 0 when unknown, and a request is of this form,
\* naming whatever it likes.
ASSUME RequestsAre ==
    /\ \A m \in Real : OutCap[m] \in Nat
    /\ Shapes \subseteq [creds : [{"authorization", "x-api-key", "x-goog-api-key", "query"} -> STRING],
                         api : STRING, call : STRING, body : STRING, model : STRING, max : Nat, thinking : Nat,
                         fits : BOOLEAN, counts : BOOLEAN, names : BOOLEAN, title : BOOLEAN, chat : BOOLEAN]

VARIABLES
    switch,           \* settings.Switch
    holder,         \* the key and its client: [disabled, direct, barred, to]
    leasable,       \* the models some account has on
    turned,         \* changes made
    asks,           \* each request: where it is, its key, its body
    file,           \* usage_events of each: a sequence of rows
    counted         \* Running's, InFlight's and Trimmer's counts of requests

inferenceVars == <<switch, holder, leasable, turned, asks, file, counted>>
operatorVars == <<switch, holder, leasable, turned>>

NoAsk == [pc |-> "none"]
StandsAt(q, pc) == asks[q].pc = pc
Step(q, s) == asks' = [asks EXCEPT ![q] = s]
NoBody == [model |-> "none", max |-> 0, thinking |-> 0]

InferenceInit ==
    /\ switch = TRUE /\ turned = 0 /\ leasable = Real
    /\ holder \in [disabled : {FALSE}, direct : BOOLEAN, barred : {{}}, to : {Family}]
    /\ asks = [q \in Inbound |-> NoAsk] /\ file = [q \in Inbound |-> <<>>]
    /\ counted = [running |-> {}, inflight |-> {}, trimmer |-> {}]

---------------------------------------------------------------------------
\* How a request ends: what the client is answered, and its row, or none.

Row(s, status, rejected, error) ==
    [status |-> status, rejected |-> rejected, model |-> s.model, error |-> error, naming |-> FALSE]

Answered(q, s, status) == Step(q, [s EXCEPT !.pc = "leaving", !.answer = status])
Filed(q, row) == file' = [file EXCEPT ![q] = Append(@, row)]
Unfiled == UNCHANGED file

\* A refusal with its row (rejection), and one without.
Refuse(q, s, status, why) == Answered(q, s, status) /\ Filed(q, Row(s, status, TRUE, why))
Turn(q, s, status) == Answered(q, s, status) /\ Unfiled

\* serving: off, every client-facing route refuses.
Serve(q, shape) ==
    LET s == [pc |-> "auth", shape |-> shape, key |-> holder, model |-> "none", slot |-> FALSE,
              family |-> FALSE, body |-> NoBody, sent |-> <<>>, tries |-> 0, err |-> "none", answer |-> 0,
              leased |-> "none", held |-> 0, considered |-> FALSE, came |-> turned]
    IN /\ StandsAt(q, "none")
       /\ IF switch THEN Step(q, s) /\ Unfiled ELSE Turn(q, s, 404)
       /\ UNCHANGED <<operatorVars, counted>>

\* extractCredential: in whichever header the client uses, and in the address
\* on the Gemini API's routes alone.
Credential(shape) ==
    LET given == SelectSeq(<<"authorization", "x-api-key", "x-goog-api-key", "query">>,
                           LAMBDA place : shape.creds[place] # "none" /\ (place = "query" => shape.api = "gemini"))
    IN IF given = <<>> THEN "none" ELSE shape.creds[Head(given)]

\* requireAPIKey: the key as it is read now is the request's from here on.
\* Whether the limiter and the budget let it is not told here.
requireAPIKey(q) ==
    LET s == [asks[q] EXCEPT !.key = holder]
        cred == Credential(s.shape)
    IN /\ StandsAt(q, "auth")
       /\ \/ Turn(q, s, 429)                                    \* the address's own bucket
          \/ cred # "good" /\ Refuse(q, s, 401, "no such key")
          \/ cred = "good" /\ Turn(q, s, 500)                   \* Authenticate fails
          \/ cred = "good" /\ holder.disabled /\ Refuse(q, s, 403, "disabled")
          \/ /\ cred = "good" /\ ~holder.disabled
             /\ \/ Refuse(q, s, 429, "rate")
                \/ Turn(q, s, 429)                              \* over its budget
                \/ Step(q, [s EXCEPT !.pc = IF s.shape.api = "gemini" THEN "call" ELSE "body"]) /\ Unfiled
       /\ UNCHANGED <<operatorVars, counted>>

\* ReadSized and DecodeBody: opened when it is gzip, and then only to the
\* limit; any other coding is left to the upstream, which here is to say to
\* whoever reads it next.
Opened(body) ==
    CASE body \in {"plain", "gzip"} -> {"json"}
      [] body = "br" -> {"coded"}
      [] OTHER -> {}                                            \* cut short, not gzip, too large

\* geminiCall: the model and the method are in the path, and the model goes
\* into the body, which is opened for it.
geminiCall(q) ==
    LET s == asks[q]
    IN /\ StandsAt(q, "call")
       /\ IF s.shape.call = "unknown" THEN Turn(q, s, 404)
          ELSE IF Opened(s.shape.body) = {} THEN Turn(q, s, 400)
          ELSE Step(q, [s EXCEPT !.pc = "body"]) /\ Unfiled
       /\ UNCHANGED <<operatorVars, counted>>

\* The body read, opened and decoded: the Messages surface only looks for a
\* model in it, which a coded body does not show.  Counted by the trimmer from
\* before the read, by InFlight once decoded.
ReadBody(q) ==
    LET s == asks[q]
        coded == Opened(s.shape.body) = {"coded"}
        reads == Opened(s.shape.body) # {} /\ (coded => s.shape.api = "messages")
    IN /\ StandsAt(q, "body")
       /\ IF reads THEN Step(q, [s EXCEPT !.pc = "route", !.shape.model = IF coded THEN "none" ELSE @]) /\ Unfiled
                   ELSE Turn(q, s, 400)
       /\ counted' = [counted EXCEPT !.trimmer = @ \cup {q}, !.inflight = IF reads THEN @ \cup {q} ELSE @]
       /\ UNCHANGED operatorVars

\* A request naming no model goes to the default provider as it is.
Servable(s, ms) == {m \in ms : m \in leasable \cup {"none"} /\ m \notin s.key.barred}

\* Route: the client's name as it is bound now, what it may not have as it
\* was when its key was read.  A family is refused when no version is left,
\* a bound model when no account has it on, a direct one by its key alone.
Route(q) ==
    LET s == asks[q]
        target == IF ~s.key.direct THEN holder.to
                  ELSE IF s.shape.model = "slot" THEN "none" ELSE s.shape.model
        named == s.key.direct \/ s.shape.model = "slot"
        family == target = Family
        routed == [s EXCEPT !.pc = "prepare", !.slot = ~s.key.direct \/ family, !.family = family]
    IN /\ StandsAt(q, "route")
       /\ \/ /\ ~named                                          \* none of the client's names
             /\ Refuse(q, s, 404, "own names only")
          \/ /\ named /\ s.key.direct /\ target \in s.key.barred
             /\ Refuse(q, s, 403, "not allowed")
          \/ /\ named /\ target \notin s.key.barred /\ family
             /\ IF Servable(s, Versions) = {} THEN Refuse(q, [s EXCEPT !.slot = TRUE], 404, "no account")
                ELSE \E m \in Servable(s, Versions) :
                       Step(q, [routed EXCEPT !.model = m]) /\ Unfiled
          \/ /\ named /\ ~family /\ (s.key.direct => target \notin s.key.barred)
             /\ IF ~s.key.direct /\ Servable(s, {target}) = {}
                  THEN Refuse(q, [s EXCEPT !.slot = TRUE, !.model = target], 404, "not on")
                  ELSE Step(q, [routed EXCEPT !.model = target]) /\ Unfiled
          \/ /\ named /\ family /\ ~s.key.direct /\ target \in s.key.barred
             /\ Refuse(q, [s EXCEPT !.slot = TRUE], 404, "not allowed")
       /\ UNCHANGED <<operatorVars, counted>>

---------------------------------------------------------------------------
\* What is sent.

\* Mutant: a thinking budget equal to the new maximum is kept.
FitOver(b, limit) ==
    IF limit = 0 \/ b.max <= limit THEN b
    ELSE [b EXCEPT !.max = limit, !.thinking = IF @ > limit THEN limit - 1 ELSE @]
\* FitMaxTokens: only lowered, and the thinking budget only to stay below.
Fit(b, limit) ==
    IF limit = 0 \/ b.max <= limit THEN b
    ELSE [b EXCEPT !.max = limit, !.thinking = IF @ >= limit THEN limit - 1 ELSE @]

Named(b, m) == [b EXCEPT !.model = m]

\* translate: for an upstream that does not speak the caller's dialect.  A
\* count such an upstream does not make is answered here (api.Answerer).
Translated(s) ==
    CASE Speaks[s.model] = s.shape.api -> "as it came"
      [] Speaks[s.model] # s.shape.api /\ ~s.shape.fits -> "refused"
      [] OTHER -> IF s.shape.counts THEN "answered" ELSE "rebuilt"

Prepare(q) ==
    LET s == asks[q]
        to == Translated(s)
        body == [model |-> s.model, max |-> s.shape.max, thinking |-> s.shape.thinking]
    IN /\ StandsAt(q, "prepare")
       /\ \/ to = "refused" /\ Refuse(q, s, 400, "untranslatable")
          \/ to = "answered" /\ Answered(q, s, 200) /\ Filed(q, Row(s, 200, FALSE, ""))
          \/ /\ to \in {"as it came", "rebuilt"}
             /\ Step(q, [s EXCEPT !.pc = "try",
                                  !.body = IF s.slot /\ ~s.family THEN Fit(body, OutCap[s.model]) ELSE body])
             /\ Unfiled
       /\ counted' = IF asks'[q].pc = "try" THEN [counted EXCEPT !.running = @ \cup {q}] ELSE counted
       /\ UNCHANGED operatorVars

\* Mutant: each attempt fits the body the one before it sent.
RebindAgain(s, m) == Fit(Named(IF s.sent = <<>> THEN s.body ELSE s.sent[Len(s.sent)], m), OutCap[m])
\* WithRebind, forAttempt: the version leased, in the body as it came.
WithRebind(s, m) == IF s.family THEN Fit(Named(s.body, m), OutCap[m]) ELSE s.body

\* A retry is on another account; one that has no version left answers with
\* the last refusal, if there was one.
Attempt(q) ==
    LET s == asks[q]
        versions == IF s.family THEN Versions ELSE {s.model}
    IN /\ StandsAt(q, "try")
       /\ \/ \E m \in Servable(s, versions) :
               LET sent == [s EXCEPT !.sent = Append(@, WithRebind(s, m)), !.tries = @ + 1,
                                     !.leased = IF s.family THEN m ELSE "none"]
               IN \/ \E status \in {200, 400} :                 \* relayed, whole or cut short
                       Step(q, [sent EXCEPT !.pc = "done", !.answer = status])
                  \/ sent.tries < MaxTries /\ \E held \in {0, 429} :
                       Step(q, [sent EXCEPT !.held = IF held = 0 THEN @ ELSE held])
                  \/ sent.tries = MaxTries /\ Step(q, [sent EXCEPT !.pc = "done", !.err = "network"])
                  \/ Step(q, [sent EXCEPT !.pc = "done", !.err = "gone"])
          \/ Step(q, [s EXCEPT !.pc = "done", !.answer = s.held,
                               !.err = CASE s.held # 0 -> "none"
                                         [] s.held = 0 /\ Servable(s, versions) = {} -> "off"
                                         [] OTHER -> "none left"])
       /\ UNCHANGED <<operatorVars, file, counted>>

\* Mutant: the row names the version it was routed by.
ServedFirst(s) == s.model
\* The version that served a family, as the account leased had it.
Served(s) == IF s.leased = "none" THEN s.model ELSE s.leased

relayFailure(err) ==
    CASE err = "off" -> 404 [] err = "none left" -> 503 [] err = "network" -> 502 [] err = "gone" -> 0

\* done and record: when nothing reached the client it is answered here,
\* unless it is the one that left.
Record(q) ==
    LET s == [asks[q] EXCEPT !.model = Served(asks[q])]
        naming == s.shape.names /\ s.shape.title
        row(status, error) == [Row(s, status, FALSE, error) EXCEPT !.naming = naming]
    IN /\ StandsAt(q, "done")
       /\ IF s.err # "none" /\ s.answer = 0
            THEN /\ Filed(q, row(0, s.err))
                 /\ Step(q, [s EXCEPT !.pc = "leaving", !.answer = relayFailure(s.err)])
            ELSE /\ Filed(q, row(s.answer, "")) /\ Step(q, [s EXCEPT !.pc = "title"])
       /\ counted' = [counted EXCEPT !.running = @ \ {q}]
       /\ UNCHANGED operatorVars

\* After the answer: the name it carries is read, or one is asked for.
Consider(q) ==
    LET s == asks[q]
    IN /\ StandsAt(q, "title")
       /\ Step(q, [s EXCEPT !.pc = "leaving", !.considered = s.shape.chat /\ ~s.shape.names])
       /\ UNCHANGED <<operatorVars, file, counted>>

\* What was deferred, last first.
Leave(q) ==
    /\ StandsAt(q, "leaving")
    /\ Step(q, [asks[q] EXCEPT !.pc = "left"])
    /\ counted' = [counted EXCEPT !.trimmer = @ \ {q}, !.inflight = @ \ {q}]
    /\ UNCHANGED <<operatorVars, file>>

---------------------------------------------------------------------------
\* The operator.

Turned == turned < MaxTurned /\ turned' = turned + 1 /\ UNCHANGED <<asks, file, counted>>
Flipped(s, x) == IF x \in s THEN s \ {x} ELSE s \cup {x}

OperatorTurns ==
    /\ Turned
    /\ \/ switch' = ~switch /\ UNCHANGED <<holder, leasable>>
       \/ holder' = [holder EXCEPT !.disabled = ~@] /\ UNCHANGED <<switch, leasable>>
       \/ \E m \in Real \cup {Family} :
            holder' = [holder EXCEPT !.barred = Flipped(@, m)] /\ UNCHANGED <<switch, leasable>>
       \/ \E m \in (Real \cap leasable) \cup {Family} :         \* binds what may be bound
            m \notin holder.barred /\ holder' = [holder EXCEPT !.to = m] /\ UNCHANGED <<switch, leasable>>
       \/ \E m \in Real : leasable' = Flipped(leasable, m) /\ UNCHANGED <<switch, holder>>

InferenceNext ==
    \/ \E q \in Inbound : \E shape \in Shapes : Serve(q, shape)
    \/ \E q \in Inbound : requireAPIKey(q) \/ geminiCall(q) \/ ReadBody(q) \/ Route(q) \/ Prepare(q) \/ Attempt(q)
                      \/ Record(q) \/ Consider(q) \/ Leave(q)
    \/ OperatorTurns

InferenceSpec == InferenceInit /\ [][InferenceNext]_inferenceVars

---------------------------------------------------------------------------
\* Properties.

Ended == {q \in Inbound : StandsAt(q, "left")}
WentUp(q) == asks[q].sent # <<>>
Least(a, b) == IF a < b THEN a ELSE b

\* What was attempted is in the log once, under the version that served it
\* and with the status the client saw, 0 where it got the gateway's own word
\* for a failure; a row marked rejected is of a request that went nowhere, and
\* only a request that went nowhere has none (recorder.go, auth.go).
Accounted(q) ==
    LET s == asks[q] rows == file[q]
    IN /\ Len(rows) = 0 => ~WentUp(q) /\ s.answer \in {400, 404, 429, 500}
       /\ Len(rows) # 0 =>
            /\ Len(rows) = 1
            /\ rows[1].rejected => ~WentUp(q) /\ rows[1].status = s.answer
            /\ WentUp(q) => /\ rows[1].model = s.sent[Len(s.sent)].model
                            /\ rows[1].status \in {s.answer, 0}
                            /\ rows[1].status = 0 => s.answer \in {0, 404, 502, 503}
            /\ rows[1].naming => ~s.considered

\* What goes up names a real model, asks for no more than that model gives and
\* no less than the client did, and thinks for less than it asks for, whatever
\* an earlier attempt was fitted to (outputcap.go); a client that names the
\* model has its own numbers.
SentRight(q) ==
    LET s == asks[q]
    IN \A i \in DOMAIN s.sent :
         LET b == s.sent[i]
         IN /\ b.model # Family
            /\ b.max = IF s.slot /\ OutCap[b.model] # 0 THEN Least(s.shape.max, OutCap[b.model]) ELSE s.shape.max
            /\ s.shape.thinking < s.shape.max => b.thinking < b.max
            /\ b.max = s.shape.max => b.thinking = s.shape.thinking

\* With nothing changed since it came, a request is served only what the
\* operator lets its client have, as what its name stands for.
AsTheOperatorSays(q) ==
    LET s == asks[q]
    IN (WentUp(q) /\ s.came = turned) =>
         /\ switch /\ ~holder.disabled
         /\ \A i \in DOMAIN s.sent :
              LET m == s.sent[i].model
              IN /\ m \notin holder.barred
                 /\ m # "none" => m \in leasable
                 /\ ~holder.direct => m = holder.to \/ (holder.to = Family /\ m \in Versions)

\* Once a request has ended, nothing still counts it.
NothingLeftOpen == \A q \in Ended : q \notin counted.running \cup counted.inflight \cup counted.trimmer

InferenceSound ==
    /\ \A q \in Ended : Accounted(q) /\ SentRight(q) /\ AsTheOperatorSays(q)
    /\ NothingLeftOpen
=============================================================================
