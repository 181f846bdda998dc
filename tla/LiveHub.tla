------------------------------ MODULE LiveHub ------------------------------
(***************************************************************************)
(* The hub of internal/live: each topic's version counts its changes, and  *)
(* Run announces what changed to the open streams, a topic at most once    *)
(* per its interval.  A stream too slow for its channel is marked behind   *)
(* and owed one Resync in place of what it missed.                         *)
(*                                                                         *)
(* One stream, of a tab that shows every topic of Topics.  A wake and the  *)
(* tick both end in flush, so Flush may come at any moment; an interval    *)
(* that has passed is one bit, ripe.                                       *)
(***************************************************************************)
EXTENDS Naturals, Sequences, SequencesExt

CONSTANTS
    Topics,     \* Topics: in the order flush announces them
    AtOnce,     \* those with no interval
    Resync,     \* the notice that notices were lost
    Buffer      \* buffer: how many notices a stream holds

Topic == {Topics[i] : i \in DOMAIN Topics}

ASSUME HubAssumption ==
    /\ Topics \in Seq(Topic) /\ IsInjective(Topics) /\ AtOnce \subseteq Topic
    /\ Resync \notin Topic
    /\ Buffer \in Nat \ {0}

VARIABLES
    version,    \* Hub.version
    told,       \* Hub.told: the version last announced
    ripe,       \* whether the interval has passed since (lastSent)
    open,       \* whether the tab's stream is subscribed
    queue,      \* its channel: topics and Resync
    behind      \* Sub.behind

streamVars == <<open, queue, behind>>
hubVars    == <<version, told, ripe, streamVars>>

Notice == Topic \cup {Resync}

HubInit ==
    /\ version = [t \in Topic |-> 0] /\ told = version
    /\ ripe = [t \in Topic |-> TRUE]
    /\ open = TRUE /\ queue = <<>> /\ behind = FALSE

Changed(t) ==
    /\ version' = [version EXCEPT ![t] = @ + 1]
    /\ UNCHANGED <<told, ripe, streamVars>>

Due(t) == version[t] # told[t] /\ ripe[t]

\* flush's loop: what it announces of the first n topics.
NewsOf[n \in 0..Len(Topics)] ==
    IF n = 0 THEN <<>>
    ELSE IF Due(Topics[n]) THEN Append(NewsOf[n - 1], Topics[n])
    ELSE NewsOf[n - 1]

\* What send gives a stream that is not behind: as much as its channel holds.
Room == Buffer - Len(queue)
Sent(news) == queue \o SubSeq(news, 1, IF Len(news) < Room THEN Len(news) ELSE Room)

\* Mutant: a notice the channel has no room for is dropped and forgotten.
SendOrDrop(news) == queue' = Sent(news) /\ UNCHANGED behind

\* send for each notice, and then the Resync owed: a stream marked behind by
\* this flush is full, so its Resync waits for the next.
Send(news) ==
    IF ~behind
      THEN queue' = Sent(news) /\ behind' = (Len(news) > Room)
      ELSE /\ queue' = IF Room > 0 THEN Append(queue, Resync) ELSE queue
           /\ behind' = (Room = 0)

Flush ==
    /\ (\E t \in Topic : Due(t)) \/ (behind /\ Room > 0)
    /\ told' = [t \in Topic |-> IF Due(t) THEN version[t] ELSE told[t]]
    /\ ripe' = [t \in Topic |-> ripe[t] /\ (Due(t) => t \in AtOnce)]
    /\ IF open THEN Send(NewsOf[Len(Topics)]) ELSE UNCHANGED <<queue, behind>>
    /\ UNCHANGED <<version, open>>

IntervalPasses(t) ==
    /\ ~ripe[t]
    /\ ripe' = [ripe EXCEPT ![t] = TRUE]
    /\ UNCHANGED <<version, told, streamVars>>

Subscribe ==
    /\ open' = TRUE /\ queue' = <<>> /\ behind' = FALSE
    /\ UNCHANGED <<version, told, ripe>>

Unsubscribe ==
    /\ open' = FALSE /\ queue' = <<>> /\ behind' = FALSE
    /\ UNCHANGED <<version, told, ripe>>

\* A change to t that the tab's stream has yet to take off its channel.
Announced(t) ==
    version[t] # told[t] \/ behind \/ \E i \in DOMAIN queue : queue[i] \in {t, Resync}

HubTypeOK ==
    /\ version \in [Topic -> Nat] /\ told \in [Topic -> Nat]
    /\ ripe \in [Topic -> BOOLEAN]
    /\ open \in BOOLEAN /\ behind \in BOOLEAN
    /\ queue \in Seq(Notice) /\ Len(queue) <= Buffer
=============================================================================
