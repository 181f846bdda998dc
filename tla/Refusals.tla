------------------------------ MODULE Refusals -------------------------------
(***************************************************************************)
(* What a refusal says of the account that met it.  Google's says whether  *)
(* the account, one model of it or Google itself is at fault, and how long *)
(* that lasts (provider/google/errors.go); ChatGPT's, whether the plan is  *)
(* at its limit or has no Codex at all (provider/openai/wire.go Inspect).  *)
(* The pool sits out what was refused, for as long as it was told, and the *)
(* log names the failure in one word, in whichever shape it came.          *)
(***************************************************************************)
EXTENDS Integers, Sequences, SequencesExt, FiniteSets

CONSTANTS
    RefusedModels,      \* models asked for
    DelaysTold,         \* the delays a refusal carries, each a sequence of [unit, n]
    MaxTurnsOfFate      \* bound: changes at the upstream

VARIABLES
    askedOf,           \* whose account it is
    fateOf,         \* what the upstream does with each model, and with "every" one
    sitsOut,        \* what the pool sits out: each model, "every" one
    worded,         \* the last failure: its cause, and the word it is kept under
    turnsOfFate

refusalVars == <<askedOf, fateOf, sitsOut, worded, turnsOfFate>>

Scopes == RefusedModels \cup {"every"}
Sitting == [out |-> TRUE, cause |-> "none", kind |-> "none", lasts |-> 0, told |-> <<>>]
NotSitting == [Sitting EXCEPT !.out = FALSE]
\* maxRetryDelay, in hundredths of a second.
MaxDelay == 30 * 24 * 3600 * 100

RefusalsInit ==
    /\ askedOf \in {"google", "openai"} /\ fateOf = [s \in Scopes |-> "fine"]
    /\ sitsOut = [s \in Scopes |-> NotSitting]
    /\ worded = [cause |-> "none", reason |-> "none", word |-> "none"] /\ turnsOfFate = 0

---------------------------------------------------------------------------
\* The upstream.

FatesOf(s) ==
    CASE askedOf = "openai" -> IF s = "every" THEN {"limited", "notIncluded", "overloaded"} ELSE {}
      [] s = "every" -> {"unverified"}
      [] OTHER -> {"rate", "spent", "notInPlan", "noCapacity"}

TurnFate(s) ==
    /\ turnsOfFate < MaxTurnsOfFate /\ turnsOfFate' = turnsOfFate + 1
    /\ \E f \in FatesOf(s) \cup {"fine"} : f # fateOf[s] /\ fateOf' = [fateOf EXCEPT ![s] = f]
    /\ UNCHANGED <<askedOf, sitsOut, worded>>

\* A google.rpc.Status, and the status it came with: a reason that may be left
\* out, delays, and the limit its message names.
Rpc(status, name, reasons, limits, delays) ==
    [status : {status}, name : {name}, reason : reasons, limit : limits, delays : delays,
     type : {"none"}, code : {"none"}, resets : {0}]
\* An error of ChatGPT's backend: a type or a code names it.
Backend(status, types, codes, resets) ==
    [status : {status}, name : {"none"}, reason : {"none"}, limit : {"none"}, delays : {<<>>},
     type : types, code : codes, resets : resets]
RefusalsFor(cause) ==
    CASE cause = "unverified" -> Rpc(403, "permission_denied", {"validation_required"}, {"none"}, {<<>>})
      [] cause = "rate" -> Rpc(429, "resource_exhausted", {"rate_limit_exceeded", "none"},
                               {"none", "20", "0.5"}, DelaysTold)
      [] cause = "spent" -> Rpc(429, "resource_exhausted", {"quota_exhausted", "none"},
                                {"none", "20"}, DelaysTold)
      [] cause = "notInPlan" -> Rpc(429, "resource_exhausted", {"quota_exhausted", "none"},
                                    {"0", "0,", "0."}, DelaysTold)
      [] cause = "noCapacity" -> UNION {Rpc(s, "unavailable",
                                            {"model_capacity_exhausted", "model_capacity_exceeded"},
                                            {"none"}, DelaysTold) : s \in {429, 503}}
      [] cause = "limited" -> Backend(429, {"usage_limit_reached"}, {"none"}, {0, 5})
      [] cause = "notIncluded" -> Backend(429, {"usage_not_included", "error"},
                                          {"usage_not_included"}, {0})
      [] OTHER -> Backend(503, {"none", "error"}, {"server_is_overloaded"}, {0})

---------------------------------------------------------------------------
\* The gateway's reading of it.

\* A delay in hundredths of a second; none in another unit.
Figure(d) == CASE d.unit = "s" -> d.n * 100 [] d.unit = "ms" -> d.n \div 10 [] OTHER -> 0
Usable(d) == Figure(d) > 0 /\ Figure(d) <= MaxDelay

\* Mutant: the first delay told, or none.
FirstOnly(delays) == IF delays # <<>> /\ Usable(Head(delays)) THEN Figure(Head(delays)) ELSE 0
\* retryDelay: of the delays told, the first that is one.
RetryDelay(delays) ==
    LET usable == SelectSeq(delays, Usable)
    IN IF usable = <<>> THEN 0 ELSE Figure(Head(usable))

\* zeroLimit: "limit: 0", with no figure after it.
ZeroLimit(limit) == limit \in {"0", "0,", "0."}

NoVerdict == [kind |-> "none", model |-> FALSE, lasts |-> 0]
\* Mutant: what Google lacks is read as a limit of the account's.
CapacityAsLimit(status, r) ==
    CASE r.reason = "validation_required" -> [NoVerdict EXCEPT !.kind = "forbidden"]
      [] status = 429 /\ ZeroLimit(r.limit) -> [NoVerdict EXCEPT !.kind = "forbidden", !.model = TRUE]
      [] status = 429 -> [NoVerdict EXCEPT !.model = TRUE, !.lasts = RetryDelay(r.delays)]
      [] OTHER -> NoVerdict
\* verdict.
VerdictOf(status, r) ==
    CASE r.reason = "validation_required" -> [NoVerdict EXCEPT !.kind = "forbidden"]
      [] r.reason \in {"model_capacity_exhausted", "model_capacity_exceeded"} ->
           [NoVerdict EXCEPT !.kind = "server", !.model = TRUE]
      [] status = 429 /\ ZeroLimit(r.limit) -> [NoVerdict EXCEPT !.kind = "forbidden", !.model = TRUE]
      [] status = 429 -> [NoVerdict EXCEPT !.model = TRUE, !.lasts = RetryDelay(r.delays)]
      [] OTHER -> NoVerdict

\* kind: the type, unless it says no more than "error".
BackendKind(r) == IF r.type \notin {"none", "error"} THEN r.type ELSE r.code
\* Inspect, of ChatGPT's.
Inspected(r) ==
    CASE BackendKind(r) = "usage_limit_reached" -> [NoVerdict EXCEPT !.lasts = r.resets * 100]
      [] BackendKind(r) = "usage_not_included" -> [NoVerdict EXCEPT !.kind = "forbidden"]
      [] OTHER -> NoVerdict

\* Mutant: a failure as an array, or inside a stream, is read as none.
OfObjects(form, r) ==
    CASE form # "object" -> "other" [] r.reason # "none" -> r.reason [] OTHER -> r.name
\* errorCode, and ErrorCode of the body or of the "code: message" the meter
\* wrote: one word.
WordFor(form, r) == CASE r.reason # "none" -> r.reason [] OTHER -> r.name

StatusKind(status) ==
    CASE status = 429 -> "rate_limited" [] status = 403 -> "forbidden" [] OTHER -> "server"

SitOutFor(scope, cause, kind, lasts, told) ==
    sitsOut' = [sitsOut EXCEPT ![scope] =
        [out |-> TRUE, cause |-> cause, kind |-> kind, lasts |-> lasts, told |-> told]]

Asking(m) == ~sitsOut["every"].out /\ ~sitsOut[m].out
CauseFor(m) == IF fateOf["every"] # "fine" THEN fateOf["every"] ELSE fateOf[m]

\* A refusal, before a body or, of Google's, after a 200: then there is nothing
\* to sit out.
GoogleRefuses(m) ==
    /\ askedOf = "google" /\ Asking(m) /\ CauseFor(m) # "fine"
    /\ \E r \in RefusalsFor(CauseFor(m)), form \in {"object", "array", "stream"} :
         LET v == VerdictOf(r.status, r) IN
         /\ IF form = "stream" THEN UNCHANGED sitsOut
            ELSE SitOutFor(IF v.model THEN m ELSE "every", CauseFor(m),
                           IF v.kind # "none" THEN v.kind ELSE StatusKind(r.status), v.lasts, r.delays)
         /\ worded' = [cause |-> CauseFor(m), reason |-> r.reason, word |-> WordFor(form, r)]
    /\ UNCHANGED <<askedOf, fateOf, turnsOfFate>>

ChatgptRefuses(m) ==
    /\ askedOf = "openai" /\ Asking(m) /\ CauseFor(m) # "fine"
    /\ \E r \in RefusalsFor(CauseFor(m)) :
         LET v == Inspected(r) IN
         /\ SitOutFor("every", CauseFor(m),
                      IF v.kind # "none" THEN v.kind ELSE StatusKind(r.status), v.lasts, <<>>)
         /\ worded' = [cause |-> CauseFor(m), reason |-> BackendKind(r), word |-> BackendKind(r)]
    /\ UNCHANGED <<askedOf, fateOf, turnsOfFate>>

\* The time is over.
SitOver(s) ==
    /\ sitsOut[s].out /\ sitsOut' = [sitsOut EXCEPT ![s] = NotSitting]
    /\ UNCHANGED <<askedOf, fateOf, worded, turnsOfFate>>

RefusalsNext ==
    \/ \E m \in RefusedModels : GoogleRefuses(m) \/ ChatgptRefuses(m)
    \/ \E s \in Scopes : TurnFate(s) \/ SitOver(s)

---------------------------------------------------------------------------
\* Only what was refused is sat out: a Google account is out for every model
\* when it was the account's own fault and never for one of its models, and a
\* model when it was that model's; what Google has too little of is not held
\* against the account for long, and what a plan lacks is not waited for.
OutForItsOwn ==
    \A s \in Scopes : sitsOut[s].out =>
        /\ s = "every" <=> sitsOut[s].cause \in {"unverified", "limited", "notIncluded", "overloaded"}
        /\ sitsOut[s].kind =
             CASE sitsOut[s].cause \in {"unverified", "notInPlan", "notIncluded"} -> "forbidden"
               [] sitsOut[s].cause \in {"noCapacity", "overloaded"} -> "server"
               [] OTHER -> "rate_limited"

\* A time is set only by a limit that says it, and then always: one of the
\* figures told, never one that is none nor past thirty days.
WaitsAsTold ==
    \A s \in Scopes : sitsOut[s].out =>
        LET figures == {Figure(d) : d \in {e \in Range(sitsOut[s].told) : Usable(e)}}
        IN CASE sitsOut[s].cause \in {"rate", "spent"} ->
                  IF figures = {} THEN sitsOut[s].lasts = 0 ELSE sitsOut[s].lasts \in figures
             [] sitsOut[s].cause = "limited" -> sitsOut[s].lasts \in {0, 500}
             [] OTHER -> sitsOut[s].lasts = 0

\* A failure has one word for what it was: its own reason where it gives one,
\* in a body, an array or a stream.
WordedAlike ==
    worded.cause # "none" =>
        worded.word = (IF worded.reason # "none" THEN worded.reason ELSE "resource_exhausted")

RefusalsSound == OutForItsOwn /\ WaitsAsTold /\ WordedAlike
=============================================================================
