-------------------------------- MODULE Titles --------------------------------
(***************************************************************************)
(* service/titles: the name of one chat, whose row in chat_titles has      *)
(* three writers: the gateway, which asks a model for it after a request   *)
(* of the chat has ended (Consider, run, ask); the client, whose own       *)
(* naming request is read on its way past (CaptureTitle); and the          *)
(* operator.  Each worker of a handover has a Titler of its own, and no    *)
(* writer holds anything over another between its read and its write.      *)
(***************************************************************************)
EXTENDS Naturals, SequencesExt, FiniteSets

CONSTANTS
    Worker,         \* workers of this gateway, one draining
    Backoff,        \* retitleBackoff, in ticks
    MaxTalk,        \* bound: messages in the chat
    MaxFiled,       \* bound: requests filed against it
    MaxTitleTick    \* bound: the clock

ASSUME BackoffIsATime == Backoff \in Nat

VARIABLES
    talk,       \* the chat: kinds of messages, in the order a request sends them
    filed,      \* rows of usage_events with its id
    title,      \* its row of chat_titles
    titler,     \* each worker's run for it: inFlight is pc # "idle"
    renamed,    \* Titler.renamed of each worker, 0 for none
    captured,   \* goroutines of CaptureTitle under way
    pruning,    \* Prune is between its two statements
    titleTick   \* the clock

titlesVars == <<talk, filed, title, titler, renamed, captured, pruning, titleTick>>

\* A row, and who wrote it: RetitleChat, SetClientTitle or SetManualTitle.
Untitled == [by |-> "nobody", manual |-> FALSE, requests |-> 0, turns |-> 0]
NoRun    == [pc |-> "idle", body |-> <<>>, requests |-> 0, read |-> Untitled, raced |-> FALSE]

TitlesInit ==
    /\ talk = <<"typed">> /\ filed = 0 /\ title = Untitled /\ captured = 0
    /\ titler = [w \in Worker |-> NoRun] /\ renamed = [w \in Worker |-> 0]
    /\ pruning = FALSE /\ titleTick = 1

---------------------------------------------------------------------------
\* What is read of a body: "typed" by the user; "note", a reminder or a tool's
\* results with the user's role; the agent's "reply" in text, or its "call".
TypedIn(body)   == {i \in DOMAIN body : body[i] = "typed"}
UserTurns(body) == Cardinality(TypedIn(body))

\* The first message and the agent's text, up to the user's next message.
OpeningExchange(body) ==
    {i \in DOMAIN body : \/ body[i] = "typed" /\ \A j \in TypedIn(body) : i <= j
                         \/ /\ body[i] = "reply"
                            /\ Cardinality({j \in TypedIn(body) : j < i}) = 1}

\* Mutant: a title the operator typed is outgrown like any other.
DueWhateverTyped(current, turns) ==
    current.requests > 0 /\ current.turns < 2 /\ turns >= 2

RenameDue(current, turns) ==
    ~current.manual /\ current.requests > 0 /\ current.turns < 2 /\ turns >= 2

MayRename(w) == renamed[w] = 0 \/ titleTick - renamed[w] >= Backoff

---------------------------------------------------------------------------
\* Whatever writes the row, the runs under way have read another.
Writes(row, w) ==
    /\ title' = row
    /\ titler' = [v \in Worker |->
                    IF v = w THEN NoRun
                    ELSE [titler[v] EXCEPT !.raced = @ \/ (titler[v].pc \notin {"idle", "read"}
                                                           /\ row # title)]]

ReleaseTitler(w) == titler' = [titler EXCEPT ![w] = NoRun]
Steps(w, run) == titler' = [titler EXCEPT ![w] = run]

\* The chat goes on: the user types, the agent answers and calls its tools.
SayMore(kind) ==
    /\ Len(talk) < MaxTalk
    /\ (kind \in {"reply", "call"}) = (Last(talk) \in {"typed", "note"})
    /\ talk' = Append(talk, kind)
    /\ UNCHANGED <<filed, title, titler, renamed, captured, pruning, titleTick>>

\* Record, which may file nothing: the write fails, or no history is kept.
Files(n) == filed' = n /\ n \in {filed, filed + 1} /\ n <= MaxFiled

\* A request of the chat ends, its body what had been said when it began: it
\* is filed, and the chat is considered for a name if no run has claimed it.
Consider(w, body, n) ==
    /\ Files(n)
    /\ IF titler[w].pc = "idle" THEN Steps(w, [NoRun EXCEPT !.pc = "read", !.body = body])
                                ELSE UNCHANGED titler
    /\ UNCHANGED <<talk, title, renamed, captured, pruning, titleTick>>

\* A naming request of the client's ends: its answer is the name.
NamingEnds(n) ==
    /\ Files(n) /\ captured = 0 /\ captured' = 1
    /\ UNCHANGED <<talk, title, titler, renamed, pruning, titleTick>>

\* run: what the chat is called, if that can be read.
ReadTitle(w) ==
    /\ titler[w].pc = "read"
    /\ Steps(w, [titler[w] EXCEPT !.pc = "count", !.read = title])
    /\ UNCHANGED <<talk, filed, title, renamed, captured, pruning, titleTick>>

\* run: how many requests it has, and whether a first name or a rename is due.
TitlerRuns(w) ==
    /\ titler[w].pc = "count"
    /\ LET rename == titler[w].read # Untitled
           due == rename => RenameDue(titler[w].read, UserTurns(titler[w].body)) /\ MayRename(w)
       IN /\ IF due THEN Steps(w, [titler[w] EXCEPT !.pc = "ask", !.requests = filed])
                    ELSE ReleaseTitler(w)
          /\ renamed' = IF rename /\ due THEN [renamed EXCEPT ![w] = titleTick] ELSE renamed
    /\ UNCHANGED <<talk, filed, title, captured, pruning, titleTick>>

\* ask: the model answers a name; what an account served is filed.
Named(w, n) ==
    /\ titler[w].pc = "ask" /\ Files(n)
    /\ Steps(w, [titler[w] EXCEPT !.pc = "write"])
    /\ UNCHANGED <<talk, title, renamed, captured, pruning, titleTick>>

\* Any failure on the way is no title: a read's, the client at a limit, no
\* account, a refusal or an answer with no name in it, a write's.
NotNamed(w, n) ==
    /\ titler[w].pc # "idle" /\ (titler[w].pc = "ask" \/ n = filed) /\ Files(n)
    /\ ReleaseTitler(w)
    /\ UNCHANGED <<talk, title, renamed, captured, pruning, titleTick>>

\* RetitleChat, over whatever is there by now, and no longer typed.
RetitleChat(w) ==
    /\ titler[w].pc = "write"
    /\ Writes([by |-> "gateway", manual |-> FALSE, requests |-> titler[w].requests,
               turns |-> UserTurns(titler[w].body)], w)
    /\ UNCHANGED <<talk, filed, renamed, captured, pruning, titleTick>>

\* Mutant: the client's own name is written like the gateway's.
ClientTitleAnyway ==
    /\ captured = 1 /\ captured' = 0
    /\ Writes([Untitled EXCEPT !.by = "client"], 0)
    /\ UNCHANGED <<talk, filed, renamed, pruning, titleTick>>

\* SetClientTitle: over nothing, or over a title the gateway wrote; or it fails.
SetClientTitle ==
    /\ captured = 1 /\ captured' = 0
    /\ \/ /\ title = Untitled \/ (~title.manual /\ title.requests > 0)
          /\ Writes([Untitled EXCEPT !.by = "client"], 0)
       \/ UNCHANGED <<title, titler>>
    /\ UNCHANGED <<talk, filed, renamed, pruning, titleTick>>

\* SetManualTitle leaves the counts that were there.
SetManualTitle ==
    /\ Writes([title EXCEPT !.by = "operator", !.manual = TRUE], 0)
    /\ UNCHANGED <<talk, filed, renamed, captured, pruning, titleTick>>

\* Prune: events first, then the titles of chats with none left.
PruneUsage(n) ==
    /\ ~pruning /\ pruning' = TRUE /\ n < filed /\ filed' = n
    /\ UNCHANGED <<talk, title, titler, renamed, captured, titleTick>>

\* Mutant: every title goes with the events.
PruneAllTitles ==
    /\ pruning /\ pruning' = FALSE /\ Writes(Untitled, 0)
    /\ UNCHANGED <<talk, filed, renamed, captured, titleTick>>

PruneChatTitles ==
    /\ pruning /\ pruning' = FALSE
    /\ IF filed = 0 THEN Writes(Untitled, 0) ELSE UNCHANGED <<title, titler>>
    /\ UNCHANGED <<talk, filed, renamed, captured, titleTick>>

\* A worker is gone: what it was asking, and when it last did, with it.
WorkerGone(w) ==
    /\ ReleaseTitler(w) /\ renamed' = [renamed EXCEPT ![w] = 0]
    /\ UNCHANGED <<talk, filed, title, captured, pruning, titleTick>>

TitleTick ==
    /\ titleTick < MaxTitleTick /\ titleTick' = titleTick + 1
    /\ UNCHANGED <<talk, filed, title, titler, renamed, captured, pruning>>

TitlesNext ==
    \/ \E kind \in {"typed", "note", "reply", "call"} : SayMore(kind)
    \/ \E w \in Worker, i \in DOMAIN talk, n \in filed..(filed + 1) :
         talk[i] \in {"typed", "note"} /\ Consider(w, SubSeq(talk, 1, i), n)
    \/ \E n \in filed..(filed + 1) : NamingEnds(n)
    \/ \E w \in Worker :
         \/ ReadTitle(w) \/ TitlerRuns(w) \/ RetitleChat(w) \/ WorkerGone(w)
         \/ \E n \in filed..(filed + 1) : Named(w, n) \/ NotNamed(w, n)
    \/ SetClientTitle \/ SetManualTitle \/ TitleTick
    \/ \E n \in 0..MaxFiled : PruneUsage(n)
    \/ PruneChatTitles

TitlesSpec == TitlesInit /\ [][TitlesNext]_titlesVars

---------------------------------------------------------------------------
Written(w) == titler[w].pc = "write" /\ titler'[w].pc = "idle" /\ title'.by = "gateway"

\* The gateway replaces a title only if, when its run read it, that title was
\* the gateway's own from before the user's second message - and its opening
\* exchange is then all in the request the new one is made from.
ReplacesItsOwn ==
    \A w \in Worker :
        (Written(w) /\ title # title' /\ title # Untitled /\ ~titler[w].raced) =>
            /\ title.by = "gateway" /\ title.turns < 2 /\ title'.turns >= 2
            /\ \E j \in TypedIn(titler[w].body) :
                  \A i \in OpeningExchange(titler[w].body) : i < j

\* The client's name replaces the gateway's and no other, and a title goes for
\* good only when the chat has no request left in the log.
OthersKeep ==
    /\ (title'.by = "client" /\ title'.by # title.by) => title.by \in {"nobody", "gateway"}
    /\ (title'.by = "nobody" /\ title.by # "nobody") => filed = 0

TitlesStep == ReplacesItsOwn /\ OthersKeep

\* No writer of a title takes another's place by mistake: not the gateway, the
\* client, the operator or the pruner.
TitlesKeepTheirPlace == [][TitlesStep]_titlesVars

\* "The titler never renames a manual title, so it stays until the operator
\* types another" (store/chats.go, above SetManualTitle).
ManualStays == [][title.manual => title'.by # "gateway"]_titlesVars
=============================================================================
