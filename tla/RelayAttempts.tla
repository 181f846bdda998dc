--------------------------- MODULE RelayAttempts ---------------------------
(***************************************************************************)
(* One client request through internal/relay: the attempts of Relay.Do, on *)
(* one account after another, the hold of a stream's opening (stall.go),   *)
(* the keepalive that sends the client a status and comments meanwhile,    *)
(* and the last word of the gateway's handler.  The pool, the upstream,    *)
(* the client and time are the environment: the pool leases any account    *)
(* the request has not tried, or fails (other requests use it up), the     *)
(* upstream says anything or nothing, the client may hang up, and the      *)
(* gateway's own Timeout for the request may run out.                      *)
(*                                                                         *)
(* Time is counted in ticks, by counters of what is left: KeepaliveEvery,  *)
(* ProgressGap and StallTimeout are in ticks.  An answer's bytes are two   *)
(* facts: the form it reaches the client in (events of a stream, or a      *)
(* status with a body) and whose words it is.                              *)
(***************************************************************************)
EXTENDS Naturals, Sequences

CONSTANTS
    Accounts,           \* the wire's provider's accounts
    None,               \* no account, no refusal
    MaxAttempts,        \* maxAttempts
    KeepaliveEvery,     \* keepaliveEvery
    ProgressGap,        \* progressGap
    StallTimeout,       \* Relay.StallTimeout, 0 when the hold is off
    HoldContentEvents,  \* holdContentEvents
    Streaming           \* Prologue.Stream: the client asked for a stream

Retryable == {"unauthorized", "limited"}  \* 401; 429, 403, 5xx (529)
Refusals  == Retryable \cup {"invalid"}   \* another 4xx is the request's fault
Statuses  == Refusals \cup {"ok", "bad_gateway"}
Errors    == {"network", "cooling", "unserved", "ended", "gone", "broken"}
HowItEnds == {"hung up", "timed out"}     \* what ends the request's context

ASSUME RelayAssumption ==
    /\ None \notin Accounts \cup Statuses \cup Errors \cup HowItEnds
    /\ MaxAttempts \in Nat \ {0} /\ HoldContentEvents \in Nat \ {0}
    /\ KeepaliveEvery \in Nat \ {0} /\ ProgressGap \in Nat \ {0}
    /\ StallTimeout \in Nat /\ Streaming \in BOOLEAN

VARIABLES
    pc,         \* where Do is
    attempt,    \* the number of the attempt: len(asked), or one more
    lease,      \* the account leased
    tried,      \* accounts Acquire is to pass over
    refreshed,  \* accounts whose token this request has refreshed
    last,       \* the refusal set aside: its status, or None
    res,        \* Result: status (None for 0), err (None for nil), stalls
    committed,  \* keepalive.committed
    hold,       \* holdUntilContent: content events seen, ticks left in all,
                \*   ticks the content may still pause
    due,        \* ticks until the next keepalive
    wire,       \* what the client was sent but comments: answers, in order
    asked,      \* history: the account of each attempt, the upstream's reply
    blamed,     \* history: the attempts reported to the pool as failures
    credited,   \* history: the attempts reported to it as successes
    ended,      \* history: how the request's context had ended, once found so
    quiet,      \* history: ticks the client had no byte within the attempt
    heldFor     \* history: ticks the hold has lasted, and since content arrived

vars == <<pc, attempt, lease, tried, refreshed, last, res, committed, hold,
          due, wire, asked, blamed, credited, ended, quiet, heldFor>>

health  == <<tried, refreshed>>
clock   == <<hold, due, quiet, heldFor>>
history == <<asked, blamed, credited, ended>>

Answers   == {"stream", "plain"}          \* 200: an SSE stream in plain text, or not
Forms     == {"events", "body"}
Words     == {"upstream", "gateway"}
Replies   == Refusals \cup Answers \cup {"waiting", "network", "ended"}
Phases    == {"acquire", "ask", "refresh", "hold", "relay", "close", "done"}

NoTime == [all |-> 0, still |-> 0]
NoHold == [content |-> 0, left |-> 0, gap |-> 0]

Init ==
    /\ pc = "acquire" /\ attempt = 0 /\ lease = None
    /\ tried = {} /\ refreshed = {} /\ last = None
    /\ res = [status |-> None, err |-> None, stalls |-> 0]
    /\ committed = FALSE /\ hold = NoHold /\ due = 0
    /\ wire = <<>> /\ asked = <<>> /\ blamed = {} /\ credited = {} /\ ended = None
    /\ quiet = 0 /\ heldFor = NoTime

\* whileWaiting pings only for a stream on a relay that holds; a hold always does.
Pinging == pc = "hold" \/ (pc = "ask" /\ StallTimeout > 0 /\ Streaming)

Say(form, words) == wire' = Append(wire, [form |-> form, words |-> words])

Reply(r) == asked' = [asked EXCEPT ![attempt].reply = r]

\* report, and the account is passed over by the attempts that follow.
Blame == blamed' = blamed \cup {attempt} /\ UNCHANGED credited
Fail  == Blame /\ tried' = tried \cup {lease} /\ UNCHANGED refreshed

\* The client has hung up, or the gateway's Timeout has run out.
ContextEnds == ended' \in HowItEnds

\* The gateway's failure to get an answer, which ends Do.
EndWith(err) == pc' = "close" /\ res' = [res EXCEPT !.err = err]

\* replay: the refusal's status, headers and body, whatever went out before.
Replay ==
    /\ pc' = "close" /\ res' = [res EXCEPT !.status = last]
    /\ Say("body", "upstream")

---------------------------------------------------------------------------
\* The loop's head: an account, or what Do returns when the pool has none.

Acquire ==
    /\ pc = "acquire" /\ attempt < MaxAttempts
    /\ \E a \in Accounts \ tried :
         /\ lease' = a
         /\ asked' = Append(asked, [account |-> a, reply |-> "waiting"])
    /\ attempt' = attempt + 1 /\ pc' = "ask"
    /\ due' = KeepaliveEvery /\ quiet' = 0
    /\ UNCHANGED <<health, last, res, committed, hold, wire, blamed, credited,
                   ended, heldFor>>

\* Mutant: the pool's own error replaces the refusal.
NothingButTheError(err) == EndWith(err) /\ UNCHANGED wire

\* ErrAllCoolingUp after a network failure leaves that failure the answer; any
\* other error ("unserved", or the context's) is the answer itself.
NothingToLease(err) ==
    IF last # None THEN Replay
    ELSE /\ IF res.err # None /\ err = "cooling"
              THEN pc' = "close" /\ UNCHANGED res
              ELSE EndWith(err)
         /\ UNCHANGED wire

AcquireFails ==
    /\ pc = "acquire" /\ attempt < MaxAttempts
    /\ \/ \E err \in {"cooling", "unserved"} : NothingToLease(err) /\ UNCHANGED ended
       \/ NothingToLease("ended") /\ ContextEnds
    /\ attempt' = attempt + 1
    /\ UNCHANGED <<lease, health, last, committed, clock, asked, blamed, credited>>

\* Mutant: what was said in the stream is not recorded as an answer.
ExhaustedUnrecorded ==
    /\ pc = "acquire" /\ attempt = MaxAttempts /\ pc' = "close"
    /\ IF last # None
         THEN res' = [res EXCEPT !.status = last] /\ Say("events", "upstream")
         ELSE /\ UNCHANGED res
              /\ IF committed THEN Say("events", "gateway") ELSE UNCHANGED wire
    /\ UNCHANGED <<attempt, lease, health, last, committed, clock, history>>

\* After the last attempt: the last refusal, or what went wrong, is said in the
\* stream when a keepalive has sent its status.
Exhausted ==
    /\ pc = "acquire" /\ attempt = MaxAttempts
    /\ \/ last # None /\ ~committed /\ Replay
       \/ /\ last # None /\ committed
          /\ pc' = "close" /\ res' = [res EXCEPT !.status = last]
          /\ Say("events", "upstream")
       \/ /\ last = None /\ committed /\ res.err # None
          /\ pc' = "close" /\ res' = [res EXCEPT !.status = "bad_gateway"]
          /\ Say("events", "gateway")
       \/ /\ last = None /\ ~(committed /\ res.err # None)
          /\ pc' = "close" /\ UNCHANGED <<res, wire>>
    /\ UNCHANGED <<attempt, lease, health, last, committed, clock, history>>

---------------------------------------------------------------------------
\* Client.Do, with whileWaiting's keepalive beside it.

NetworkError ==
    /\ pc = "ask"
    /\ Reply("network") /\ Fail
    /\ pc' = "acquire" /\ res' = [res EXCEPT !.err = "network"]
    /\ UNCHANGED <<attempt, lease, last, committed, clock, wire, ended>>

\* The client hung up on an upstream yet to answer, or the Timeout ran out.
Abandoned ==
    /\ pc = "ask"
    /\ Reply("ended") /\ EndWith("ended") /\ ContextEnds
    /\ UNCHANGED <<attempt, lease, health, last, committed, clock, wire, blamed, credited>>

\* Mutant: a 401 has the token refreshed again, instead of cooling the account down.
RefusedForever(s) ==
    /\ pc = "ask" /\ attempt < MaxAttempts
    /\ Reply(s) /\ last' = s
    /\ IF s = "unauthorized"
         THEN pc' = "refresh" /\ UNCHANGED <<health, blamed, credited>>
         ELSE Fail /\ pc' = "acquire"
    /\ UNCHANGED <<attempt, lease, res, committed, clock, wire, ended>>

\* A refusal another attempt may do better on.  A 401 has the account's token
\* refreshed first, once, and the account stays in.
Refused(s) ==
    /\ pc = "ask" /\ attempt < MaxAttempts
    /\ Reply(s) /\ last' = s
    /\ \/ /\ s = "unauthorized" /\ lease \notin refreshed
          /\ refreshed' = refreshed \cup {lease} /\ pc' = "refresh"
          /\ UNCHANGED <<blamed, credited, tried>>
       \/ /\ s # "unauthorized" \/ lease \in refreshed
          /\ Fail /\ pc' = "acquire"
    /\ UNCHANGED <<attempt, lease, res, committed, clock, wire, ended>>

Repaired ==
    /\ pc = "refresh" /\ pc' = "acquire"
    /\ UNCHANGED <<attempt, lease, health, last, res, committed, clock, wire, history>>

NotRepaired ==
    /\ pc = "refresh" /\ pc' = "acquire" /\ Fail
    /\ UNCHANGED <<attempt, lease, last, res, committed, clock, wire, asked, ended>>

\* A refusal that is the answer: the request's own fault, or the last attempt.
Final(s) ==
    /\ pc = "ask" /\ (s \in Retryable => attempt = MaxAttempts)
    /\ Reply(s)
    /\ IF s \in Retryable THEN Blame ELSE UNCHANGED <<blamed, credited>>
    /\ res' = [res EXCEPT !.status = s]
    /\ \/ committed /\ pc' = "close" /\ Say("events", "upstream")
       \/ ~committed /\ pc' = "relay" /\ UNCHANGED wire
    /\ UNCHANGED <<attempt, lease, health, last, committed, clock, ended>>

\* A 200.  Its opening is held once per request, while there is another attempt.
MayHold(s) ==
    StallTimeout > 0 /\ res.stalls = 0 /\ attempt < MaxAttempts /\ s = "stream"

Answered(s) ==
    /\ pc = "ask"
    /\ Reply(s)
    /\ \/ /\ MayHold(s)
          /\ pc' = "hold" /\ due' = KeepaliveEvery /\ heldFor' = NoTime
          /\ hold' = [content |-> 0, left |-> StallTimeout, gap |-> ProgressGap]
          /\ UNCHANGED <<res, quiet>>
       \/ /\ ~MayHold(s)
          /\ pc' = "relay" /\ res' = [res EXCEPT !.status = "ok"]
          /\ UNCHANGED clock
    /\ UNCHANGED <<attempt, lease, health, last, committed, wire, blamed, credited, ended>>

---------------------------------------------------------------------------
\* holdUntilContent.

\* How long it waits now: in all, or the pause content may make.
Until == IF hold.content > 0 /\ hold.gap < hold.left THEN hold.gap ELSE hold.left

\* keepalive.ping when it is due, whatever woke the loop.
Alive ==
    IF due = 0
      THEN committed' = TRUE /\ due' = KeepaliveEvery /\ quiet' = 0
      ELSE UNCHANGED <<committed, due, quiet>>

\* The hold gives way: the request is sent again, or the answer is relayed.
Resend ==
    /\ pc' = "acquire" /\ res' = [res EXCEPT !.stalls = @ + 1] /\ hold' = NoHold
Release ==
    /\ pc' = "relay" /\ res' = [res EXCEPT !.status = "ok"] /\ hold' = NoHold

\* Mutant: the deadline is for each event, not for the hold.
KeepExtended(e) ==
    /\ \/ e = "quiet" /\ hold' = [hold EXCEPT !.left = StallTimeout] /\ UNCHANGED heldFor
       \/ /\ e = "content" /\ hold.content + 1 < HoldContentEvents
          /\ hold' = [hold EXCEPT !.content = @ + 1, !.gap = ProgressGap]
          /\ heldFor' = [heldFor EXCEPT !.still = 0]
    /\ UNCHANGED <<pc, res>>

\* classifyHeld: an event that keeps the hold open, and one that ends it.  A
\* body that reaches maxHeld, ends or breaks off is released, as a settled one.
Keep(e) ==
    /\ \/ e = "quiet" /\ UNCHANGED <<hold, heldFor>>
       \/ /\ e = "content" /\ hold.content + 1 < HoldContentEvents
          /\ hold' = [hold EXCEPT !.content = @ + 1, !.gap = ProgressGap]
          /\ heldFor' = [heldFor EXCEPT !.still = 0]
    /\ UNCHANGED <<pc, res>>
Decide(e) ==
    \/ e = "error" /\ Resend
    \/ e = "content" /\ hold.content + 1 = HoldContentEvents /\ Release
    \/ e = "settling" /\ Release

\* Mutant: an event puts the keepalive off.
HeldEventPostpones ==
    /\ pc = "hold" /\ due' = KeepaliveEvery /\ UNCHANGED <<committed, quiet>>
    /\ \E e \in {"quiet", "content", "settling", "error"} : Keep(e) \/ (Decide(e) /\ UNCHANGED heldFor)
    /\ UNCHANGED <<attempt, lease, health, last, wire, history>>

HeldEvent ==
    /\ pc = "hold" /\ Alive
    /\ \E e \in {"quiet", "content", "settling", "error"} : Keep(e) \/ (Decide(e) /\ UNCHANGED heldFor)
    /\ UNCHANGED <<attempt, lease, health, last, wire, history>>

HeldTimer ==
    /\ pc = "hold" /\ (due = 0 \/ Until = 0)
    /\ Alive
    /\ \/ Until > 0 /\ UNCHANGED <<pc, res, hold>>
       \/ Until = 0 /\ Resend
    /\ UNCHANGED <<attempt, lease, health, last, wire, history, heldFor>>

\* whileWaiting's ticker.
Ping ==
    /\ pc = "ask" /\ Pinging /\ due = 0 /\ Alive
    /\ UNCHANGED <<pc, attempt, lease, health, last, res, hold, wire, history, heldFor>>

Tick ==
    /\ Pinging /\ due > 0 /\ (pc = "hold" => Until > 0)
    /\ due' = due - 1 /\ quiet' = quiet + 1
    /\ IF pc = "hold"
         THEN /\ hold' = [hold EXCEPT !.left = @ - 1,
                            !.gap = IF hold.content > 0 THEN @ - 1 ELSE @]
              /\ heldFor' = [all |-> heldFor.all + 1, still |-> heldFor.still + 1]
         ELSE UNCHANGED <<hold, heldFor>>
    /\ UNCHANGED <<pc, attempt, lease, health, last, res, committed, wire, history>>

---------------------------------------------------------------------------
\* Relay.relay, and the handler's end of the request.

\* The body is copied to its end, or until the client goes, or the upstream (or
\* the Timeout, which cancels its request) breaks it off.  A 200 with no error in the stream, in a coding the relay can read,
\* is the account's success.
Relayed ==
    /\ pc = "relay" /\ pc' = "close"
    /\ \E err \in {res.err, "gone", "broken"} : res' = [res EXCEPT !.err = err]
    /\ \E readable \in BOOLEAN :
         credited' = IF res.status = "ok" /\ readable THEN credited \cup {attempt} ELSE credited
    /\ Say(IF asked[attempt].reply = "stream" THEN "events" ELSE "body", "upstream")
    /\ UNCHANGED <<attempt, lease, health, last, committed, clock, asked, blamed, ended>>

\* A Result with an error and no status is answered by relayFailure: the pool's
\* errors always, any other unless the request's context has ended by then.
Unanswered == res.status = None /\ res.err # None

RelayFailure ==
    \/ ended = None /\ Say("body", "gateway") /\ UNCHANGED ended
    \/ ended # None /\ UNCHANGED <<wire, ended>>
    \/ ended = None /\ res.err = "network" /\ ContextEnds /\ UNCHANGED wire

Close ==
    /\ pc = "close" /\ pc' = "done"
    /\ IF Unanswered THEN RelayFailure ELSE UNCHANGED <<wire, ended>>
    /\ UNCHANGED <<attempt, lease, health, last, res, committed, clock, asked, blamed, credited>>

Done == pc = "done" /\ UNCHANGED vars

Next ==
    \/ Acquire \/ AcquireFails \/ Exhausted
    \/ NetworkError \/ Abandoned
    \/ \E s \in Retryable : Refused(s)
    \/ Repaired \/ NotRepaired
    \/ \E s \in Refusals : Final(s)
    \/ \E s \in Answers : Answered(s)
    \/ HeldEvent \/ HeldTimer \/ Ping \/ Tick
    \/ Relayed \/ Close \/ Done

Spec == Init /\ [][Next]_vars

---------------------------------------------------------------------------
\* Result, heldScan, and what the histories are made of.
Result  == [status : Statuses \cup {None}, err : Errors \cup {None}, stalls : 0..1]
Hold    == [content : 0..HoldContentEvents, left : 0..StallTimeout, gap : 0..ProgressGap]
Lasted  == [all : 0..StallTimeout, still : 0..StallTimeout]
Answer  == [form : Forms, words : Words]
Attempt == [account : Accounts, reply : Replies]

\* Every variable holds what the code's own types and the loop's bound allow.
TypeOK ==
    /\ pc \in Phases /\ attempt \in 0..MaxAttempts /\ lease \in Accounts \cup {None}
    /\ tried \subseteq Accounts /\ refreshed \subseteq Accounts
    /\ last \in Retryable \cup {None}
    /\ res \in Result /\ committed \in BOOLEAN
    /\ hold \in Hold /\ heldFor \in Lasted /\ due \in 0..KeepaliveEvery /\ quiet \in Nat
    /\ wire \in Seq(Answer) /\ asked \in Seq(Attempt) /\ Len(asked) <= attempt
    /\ blamed \subseteq 1..attempt /\ credited \subseteq 1..attempt
    /\ ended \in HowItEnds \cup {None}

\* The client is answered exactly once, whatever the attempts went through,
\* unless it hung up or the gateway's own Timeout ran out before an answer came:
\* never a second answer after one that ended the stream, and nothing of an
\* attempt that gave way to another (Relay.Do, relayFailure).
AnsweredOnce ==
    /\ pc \in {"acquire", "ask", "refresh", "hold"} => wire = <<>>
    /\ Len(wire) <= 1
    /\ pc = "done" => Len(wire) = 1 \/ ended # None

\* Once an upstream has refused the request, what the client is told in the end,
\* if anything, is an upstream's words and not the gateway's own: it is the
\* refusal that names the limit and carries the reset.
UpstreamsWords ==
    pc = "done" /\ last # None /\ Len(wire) = 1 => wire[1].words = "upstream"

\* "The caller hung up; there is nobody left to answer": that only a client that
\* has left is given no answer is not so of the code.
AnsweredWhileThere == pc = "done" => Len(wire) = 1 \/ ended = "hung up"

\* What the client of a request is told in the end: one answer, in the words of
\* an upstream if one has refused it.
AnsweredRight == AnsweredOnce /\ UpstreamsWords

Over(n) == n < Len(asked) \/ pc \in {"acquire", "close", "done"}

\* The pool is told the truth about every attempt: an account is blamed for a
\* refusal or a network error and for nothing else (not for a stall, nor for a
\* client that hung up or a request out of time), for every such failure but a 401 its first refresh
\* repaired, and then is not asked again; the one credited is the one whose 200
\* the client was given.
FairBlame ==
    /\ \A n \in blamed : asked[n].reply \in Retryable \cup {"network"}
    /\ \A n \in 1..Len(asked) : Over(n) =>
         /\ asked[n].reply \in {"limited", "network"} => n \in blamed
         /\ \A m \in 1..(n - 1) :
              /\ m \in blamed => asked[m].account # asked[n].account
              /\ asked[m] = asked[n] /\ asked[n].reply = "unauthorized" => n \in blamed
    /\ \A n \in credited :
         n \notin blamed /\ n = Len(asked) /\ asked[n].reply \in Answers

\* A stream whose opening is held is let go or sent again within StallTimeout,
\* and within ProgressGap of its content stopping, whatever the upstream sends
\* meanwhile: its pings extend neither.
HoldBounded ==
    pc = "hold" =>
      /\ heldFor.all <= StallTimeout
      /\ hold.content > 0 => heldFor.still <= ProgressGap

\* A client waiting for a stream is never without a byte for two keepalive
\* intervals of an attempt: the waiting and the hold each have their own clock,
\* and the upstream's pings, which are held, do not put the keepalive off.
NotSilent == Pinging => quiet <= 2 * KeepaliveEvery

\* A client that waits, waits within the times of the code.
NeverKeptWaiting == HoldBounded /\ NotSilent

=============================================================================
