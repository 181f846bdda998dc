----------------------------- MODULE ReadCache -----------------------------
(***************************************************************************)
(* A read of the admin API kept by Admin.cached (httpapi/admin/live.go):   *)
(* its answer is tagged with the versions of the topics it is computed     *)
(* from, read before it is computed, and served again until one changes.   *)
(* Reads of one URL take turns, by the entry's lock.                       *)
(*                                                                         *)
(* One URL, read by several readers, and the writers it is computed from:  *)
(* a store function commits its rows, then marks their topic as it         *)
(* returns (the deferred Store.changed).  A write that failed marks it     *)
(* too, which costs a read and is left out.  What a topic covers is the    *)
(* number of writes to it; a read queries each topic's rows by itself.  An *)
(* answer past its maxAge, or evicted, is one that is not found; ETags and *)
(* 304s leave the reader with the same answer and are left out.            *)
(***************************************************************************)
EXTENDS LiveHub

CONSTANTS
    Reader,     \* who reads the URL
    NoAnswer,
    MaxWrites   \* bound: writes to each topic

ASSUME CacheAssumption == MaxWrites \in Nat

VARIABLES
    data,       \* what each topic's rows hold
    writing,    \* topics a writer has written and not marked yet
    entry,      \* cachedRead: the tag (versions) and the answer (body)
    phase,      \* where each reader's request is
    tag,        \* the versions it read
    answer,     \* what it has computed, or is answered
    left,       \* the topics it has still to query
    asked       \* history: the versions when the request was sent

cacheVars   == <<data, writing, entry, phase, tag, answer, left, asked>>
requestVars == <<entry, phase, tag, answer, left, asked>>
rowVars     == <<data, writing>>

Zero == [t \in Topic |-> 0]

CacheInit ==
    /\ data = Zero /\ writing = {}
    /\ entry = NoAnswer
    /\ phase = [r \in Reader |-> "none"]
    /\ tag = [r \in Reader |-> Zero] /\ asked = tag /\ answer = tag
    /\ left = [r \in Reader |-> {}]

Commit(t) ==
    /\ t \notin writing /\ version[t] < MaxWrites
    /\ data' = [data EXCEPT ![t] = @ + 1]
    /\ writing' = writing \cup {t}
    /\ UNCHANGED <<requestVars, hubVars>>

Mark(t) ==
    /\ t \in writing
    /\ Changed(t)
    /\ writing' = writing \ {t}
    /\ UNCHANGED <<data, requestVars>>

\* The request is sent (a conjunct of the reader's own actions).
Asks(r) ==
    /\ phase' = [phase EXCEPT ![r] = "sent"]
    /\ asked' = [asked EXCEPT ![r] = version]
    /\ answer' = [answer EXCEPT ![r] = Zero] /\ tag' = [tag EXCEPT ![r] = Zero]
    /\ left' = [left EXCEPT ![r] = {}]
    /\ UNCHANGED entry

\* The answer, or the failure, is the reader's.
Ends(r) ==
    /\ phase' = [phase EXCEPT ![r] = "none"]
    /\ asked' = [asked EXCEPT ![r] = Zero]
    /\ answer' = [answer EXCEPT ![r] = Zero] /\ tag' = [tag EXCEPT ![r] = Zero]
    /\ UNCHANGED <<entry, left>>

Unlocked == \A r \in Reader : phase[r] # "computing"

Hit(r) ==
    /\ phase[r] = "sent" /\ Unlocked
    /\ entry # NoAnswer /\ entry.tag = version
    /\ phase' = [phase EXCEPT ![r] = "answered"]
    /\ answer' = [answer EXCEPT ![r] = entry.answer]
    /\ UNCHANGED <<entry, tag, left, asked, rowVars, hubVars>>

\* Of a topic that changed, of an answer never computed, or past its maxAge.
Miss(r) ==
    /\ phase[r] = "sent" /\ Unlocked
    /\ phase' = [phase EXCEPT ![r] = "computing"]
    /\ tag' = [tag EXCEPT ![r] = version]
    /\ left' = [left EXCEPT ![r] = Topic]
    /\ UNCHANGED <<entry, answer, asked, rowVars, hubVars>>

Query(r, t) ==
    /\ phase[r] = "computing" /\ t \in left[r]
    /\ answer' = [answer EXCEPT ![r][t] = data[t]]
    /\ left' = [left EXCEPT ![r] = @ \ {t}]
    /\ UNCHANGED <<entry, phase, tag, asked, rowVars, hubVars>>

\* Mutant: the versions are read once the answer is computed.
KeepTaggedAfter(r) ==
    /\ phase[r] = "computing" /\ left[r] = {}
    /\ entry' = [tag |-> version, answer |-> answer[r]]
    /\ phase' = [phase EXCEPT ![r] = "answered"]
    /\ UNCHANGED <<tag, answer, left, asked, rowVars, hubVars>>

Keep(r) ==
    /\ phase[r] = "computing" /\ left[r] = {}
    /\ entry' = [tag |-> tag[r], answer |-> answer[r]]
    /\ phase' = [phase EXCEPT ![r] = "answered"]
    /\ UNCHANGED <<tag, answer, left, asked, rowVars, hubVars>>

\* Anything but a 200: passed on, and not kept.
Fail(r) ==
    /\ phase[r] = "computing"
    /\ phase' = [phase EXCEPT ![r] = "failed"]
    /\ left' = [left EXCEPT ![r] = {}]
    /\ UNCHANGED <<entry, tag, answer, asked, rowVars, hubVars>>

Serve(r) == Hit(r) \/ Miss(r) \/ (\E t \in Topic : Query(r, t)) \/ Keep(r)

\* FreshAnswer: an answer holds at least every write marked when it was asked
\* for: a kept one (Admin.cached) is never one a change has overtaken, whoever
\* computed it and whatever was written meanwhile.
FreshAnswer == \A r \in Reader : phase[r] = "answered" =>
                 \A t \in Topic : answer[r][t] >= asked[r][t]

CacheTypeOK ==
    /\ data \in [Topic -> 0..MaxWrites] /\ writing \subseteq Topic
    /\ entry \in [tag : [Topic -> 0..MaxWrites], answer : [Topic -> 0..MaxWrites]]
                   \cup {NoAnswer}
    /\ phase \in [Reader -> {"none", "sent", "computing", "answered", "failed"}]
    /\ {tag, answer, asked} \subseteq [Reader -> [Topic -> 0..MaxWrites]]
    /\ left \in [Reader -> SUBSET Topic]
=============================================================================
