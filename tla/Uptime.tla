------------------------------- MODULE Uptime -------------------------------
(***************************************************************************)
(* The gateway's record of its own availability (service/uptime): the      *)
(* state sampled every minute, the stops it sees written exactly, a crash  *)
(* read from the gap between two samples, and the status page built of     *)
(* both.  Time is in units of which Every make a minute, so that samples,  *)
(* stops and crashes fall anywhere in their minute.                        *)
(***************************************************************************)
EXTENDS Naturals, Sequences, SequencesExt, FiniteSets, FiniteSetsExt, TLC

CONSTANTS
    Every,          \* units of a minute, between two samples
    Tolerance,      \* the longest gap read as the gateway running
    History,        \* how far back the report reaches
    BarLength,      \* units of a bar
    CacheFor,       \* cacheFor
    MaxIncidents,   \* maxIncidents
    MaxClock,       \* bound: units of time
    MaxHappenings   \* bound: stops, crashes, starts and changes of state

VARIABLES
    clockNow,   \* the time, in units
    gateway,    \* whether it runs, its state, when it next samples, what it was
    samples,    \* uptime_samples: by minute, the state
    outages,    \* uptime_outages: [start, end], end 0 while it is open
    page        \* the report cached, and when

uptimeVars == <<clockNow, gateway, samples, outages, page>>

\* State: the order is badness.
Badness == "none" :> 0 @@ "up" :> 1 @@ "paused" :> 2 @@ "degraded" :> 3 @@ "down" :> 4
WorseOf(a, b) == IF Badness[a] < Badness[b] THEN b ELSE a
NoPage == [at |-> 0]

\* was[u]: what the gateway really was in the unit that ends at u.
UptimeInit ==
    /\ clockNow = 1 /\ samples = <<>> /\ outages = {} /\ page = NoPage
    /\ gateway = [run |-> "new", is |-> "up", due |-> 0, sampled |-> FALSE,
                  was |-> <<"new">>, happened |-> 0, last |-> 0]

GatewayServes == gateway.run = "serving"
DueNow == gateway.due = clockNow

\* One thing happens in a unit, after its sample.
Happens(g) ==
    /\ gateway.happened < MaxHappenings /\ gateway.last < clockNow
    /\ gateway' = [g EXCEPT !.happened = @ + 1, !.last = clockNow]

\* A report is used for a minute.
Fresh(t) == page # NoPage /\ t - page.at < CacheFor

\* The first sample is taken at once; a tick of the sampler may come a unit
\* late.
PassUnit ==
    /\ clockNow < MaxClock /\ (gateway.run = "new" => clockNow < Every)
    /\ clockNow' = clockNow + 1
    /\ LET g == [gateway EXCEPT !.was = Append(@, IF GatewayServes THEN gateway.is ELSE gateway.run)]
       IN IF GatewayServes /\ gateway.due <= clockNow
          THEN gateway.sampled /\ DueNow /\ Happens(g)
          ELSE gateway' = g
    /\ page' = IF Fresh(clockNow + 1) THEN page ELSE NoPage
    /\ UNCHANGED <<samples, outages>>

\* uptimeState changes: the switch, or the last usable account.
BecomeState(is) ==
    /\ GatewayServes /\ is # gateway.is /\ ~DueNow /\ Happens([gateway EXCEPT !.is = is])
    /\ UNCHANGED <<clockNow, samples, outages, page>>

\* Stopping, as the listeners close.
StopServing ==
    /\ GatewayServes /\ ~DueNow /\ Happens([gateway EXCEPT !.run = "stopped"])
    /\ outages' = IF \E o \in outages : o.start = clockNow THEN outages
                  ELSE outages \cup {[start |-> clockNow, end |-> 0]}
    /\ page' = NoPage /\ UNCHANGED <<clockNow, samples>>

\* Killed: nothing is written.
CrashServing ==
    /\ GatewayServes /\ ~DueNow /\ Happens([gateway EXCEPT !.run = "crashed"])
    /\ page' = NoPage /\ UNCHANGED <<clockNow, samples, outages>>

\* Mutant: a start ends no stop but one of this moment.
EndThisOne(o) == IF o.end = 0 /\ o.start = clockNow THEN [o EXCEPT !.end = clockNow] ELSE o
\* EndOutages.
EndOutage(o) == IF o.end = 0 /\ o.start <= clockNow THEN [o EXCEPT !.end = clockNow] ELSE o

\* Started, once the listeners are bound; Run then samples at once.
StartServing ==
    /\ ~GatewayServes
    /\ gateway.run # "new" => gateway.last < clockNow
    /\ gateway' = [gateway EXCEPT !.run = "serving", !.due = clockNow, !.sampled = FALSE,
                                 !.last = clockNow]
    /\ outages' = {EndOutage(o) : o \in outages}
    /\ page' = NoPage /\ UNCHANGED <<clockNow, samples>>

Minute(t) == t - (t % Every)

KeptState(old, is) == WorseOf(old, is)

\* Sample, RecordUptime.
TakeSample ==
    /\ GatewayServes /\ clockNow >= gateway.due
    /\ LET m == Minute(clockNow)
           is == IF m \in DOMAIN samples THEN KeptState(samples[m], gateway.is) ELSE gateway.is
       IN samples' = (m :> is) @@ samples
    /\ gateway' = [gateway EXCEPT !.due = @ + Every, !.sampled = TRUE]
    /\ UNCHANGED <<clockNow, outages, page>>

Ago(n) == IF clockNow > n THEN clockNow - n ELSE 0

\* Prune, on start and daily.
PruneHistory ==
    /\ GatewayServes
    /\ samples' = [m \in {k \in DOMAIN samples : k >= Ago(History)} |-> samples[m]]
    /\ outages' = {o \in outages : o.end = 0 \/ o.end >= Ago(History)}
    /\ UNCHANGED <<clockNow, gateway, page>>

---------------------------------------------------------------------------
\* The report.

Longer(spans, start, end, is) ==
    IF end <= start THEN spans
    ELSE IF spans # <<>> /\ Last(spans).state = is /\ Last(spans).end >= start
      THEN Append(Front(spans), [Last(spans) EXCEPT !.end = Max({@, end})])
    ELSE Append(spans, [start |-> start, end |-> end, state |-> is])

\* Mutant: any gap is the gateway running.
AnyGap(gapEnd, sampleEnd) == TRUE
RunsThrough(gapEnd, sampleEnd) == gapEnd <= sampleEnd + Tolerance

\* timeline: each sample covers its minute, a short gap carries its state on,
\* and a long one is down.
Timeline(now) ==
    LET minutes == SelectSeq([i \in 1 .. now + 1 |-> i - 1],
                             LAMBDA m : m \in DOMAIN samples /\ m + History + Tolerance >= now)
        cover(spans, i) ==
          LET start == minutes[i]
              end == start + Every
              next == IF i < Len(minutes) /\ minutes[i + 1] < now THEN minutes[i + 1] ELSE now
          IN IF RunsThrough(next, end) THEN Longer(spans, start, Max({end, next}), samples[start])
             ELSE Longer(Longer(spans, start, end, samples[start]), end, next, "down")
        spans == FoldLeft(cover, <<>>, [i \in DOMAIN minutes |-> i])
    IN IF spans # <<>> /\ Last(spans).end > now
       THEN [spans EXCEPT ![Len(spans)].end = now] ELSE spans

\* merged: sorted, with neighbours of one state joined.
MergedSpans(spans) ==
    FoldLeft(LAMBDA out, sp : Longer(out, sp.start, sp.end, sp.state), <<>>,
             SortSeq(spans, LAMBDA a, b : a.start < b.start))

\* What an outage leaves of a span.
Beside(sp, start, end) ==
    IF sp.end <= start \/ end <= sp.start THEN <<sp>>
    ELSE (IF sp.start < start THEN <<[sp EXCEPT !.end = start]>> ELSE <<>>)
         \o (IF end < sp.end THEN <<[sp EXCEPT !.start = end]>> ELSE <<>>)

\* Mutant: the minutes are taken as they were sampled.
AsSampled(spans, stops, now) == spans
\* overlay: a recorded stop is down for as long as it lasted.
Overlay(spans, stops, now) ==
    FoldLeft(LAMBDA out, o :
        LET end == IF o.end = 0 \/ o.end > now THEN now ELSE o.end
        IN IF end <= o.start THEN out
           ELSE MergedSpans(FlattenSeq([i \in DOMAIN out |-> Beside(out[i], o.start, end)])
                            \o <<[start |-> o.start, end |-> end, state |-> "down"]>>),
        spans, SetToSortSeq(stops, LAMBDA a, b : a.start < b.start))

\* measure: how long the spans were so between the two times.
Spent(spans, is, from, to) ==
    FoldLeft(LAMBDA n, sp :
        LET s == Max({sp.start, from})
            e == Min({sp.end, to})
        IN IF sp.state = is /\ e > s THEN n + (e - s) ELSE n, 0, spans)

\* up, of what is counted: the paused time is not.
Share(spans, from, to) ==
    LET up == Spent(spans, "up", from, to)
    IN [up |-> up, counted |-> up + Spent(spans, "degraded", from, to) + Spent(spans, "down", from, to)]
WorstIn(spans, from, to) ==
    FoldLeft(LAMBDA w, sp : IF Spent(<<sp>>, sp.state, from, to) > 0 THEN WorseOf(w, sp.state) ELSE w,
             "none", spans)

\* The stretches that were not up, newest first; the last has no end while it
\* goes on.
Incidents(spans, now, horizon) ==
    LET bad == SelectSeq(Reverse(spans), LAMBDA sp : sp.state \in {"degraded", "down"} /\ sp.end > horizon)
        said(sp) == [start |-> Max({sp.start, horizon}), end |-> IF sp.end < now THEN sp.end ELSE 0,
                     state |-> sp.state]
    IN [i \in 1 .. Min({Len(bad), MaxIncidents}) |-> said(bad[i])]

\* Build.
Build(now) ==
    LET spans == Overlay(Timeline(now), {o \in outages : o.end = 0 \/ o.end >= Ago(History)}, now)
        bar(b) == WorstIn(spans, b * BarLength, Min({(b + 1) * BarLength, now}))
    IN [at |-> now, state |-> gateway.is, sampled |-> gateway.sampled,
        share |-> Share(spans, Ago(History), now),
        bars |-> [b \in 0 .. (now \div BarLength) |-> bar(b)],
        incidents |-> Incidents(spans, now, Ago(History))]

\* Report: cached for a minute.
ReadReport ==
    /\ GatewayServes /\ ~Fresh(clockNow)
    /\ page' = Build(clockNow)
    /\ UNCHANGED <<clockNow, gateway, samples, outages>>

UptimeNext ==
    \/ PassUnit
    \/ \E is \in {"up", "paused", "degraded"} : BecomeState(is)
    \/ StopServing \/ CrashServing \/ StartServing \/ TakeSample \/ PruneHistory \/ ReadReport

---------------------------------------------------------------------------
Was(u) == gateway.was[u]
InWindow(u) == u > page.at - Min({History, page.at - 1}) /\ u <= page.at
Covers(in, u) == in.start < u /\ (in.end = 0 \/ u <= in.end)
Listed == Range(page.incidents)
ListsAll == Len(page.incidents) < MaxIncidents

\* The status page shows every moment of a stop the gateway saw as down, in
\* the list and in the bars, whatever the samples of its minute say: "the page
\* shows it, to the second".
StopsAreShown ==
    \A u \in 1 .. page.at : InWindow(u) /\ Was(u) = "stopped" =>
        /\ ListsAll => \E in \in Listed : in.state = "down" /\ Covers(in, u)
        /\ page.bars[(u - 1) \div BarLength] = "down"

\* A gateway killed for longer than the tolerance was down, and the page says
\* so; what it says was down is no more than a minute away from a time the
\* gateway really was.
LongCrash(u) == u + Tolerance + 2 * Every <= page.at
                /\ \A v \in u .. u + Tolerance + 2 * Every : Was(v) = "crashed"
CrashesAreShown ==
    /\ \A u \in 1 .. page.at :
         (LongCrash(u) /\ (\E m \in DOMAIN samples : m < u) /\ InWindow(u + Every) /\ ListsAll) =>
            \E in \in Listed : in.state = "down" /\ Covers(in, u + Every)
    /\ \A in \in Listed, u \in 1 .. page.at :
         in.state = "down" /\ Covers(in, u) =>
            \E v \in u .. Min({u + Every, page.at}) : Was(v) \in {"stopped", "crashed"}

\* A gateway that was up but while its operator paused it has a full share,
\* and one that was up but for short stops it saw lost exactly their time.
ShareIsFair ==
    /\ (/\ \A u \in 1 .. page.at : Was(u) \in {"new", "up", "paused"}
        /\ \A m \in DOMAIN samples : samples[m] # "degraded")
       => page.share.up = page.share.counted
    /\ (\A u \in 1 .. page.at :
           /\ Was(u) \in {"new", "up", "stopped"}
           /\ \A m \in DOMAIN samples : samples[m] = "up"
           /\ u + 2 <= page.at => \E v \in u .. u + 2 : Was(v) # "stopped")
       => page.share.counted - page.share.up
            = Cardinality({u \in 1 .. page.at : InWindow(u) /\ Was(u) = "stopped"})

\* A minute whose sample found no account to serve is drawn degraded or worse.
LongDegraded(u) == u > 1 /\ u + 2 * Every <= page.at
                   /\ \A v \in u .. u + 2 * Every : Was(v) = "degraded"
DegradedIsKept ==
    \A u \in 1 .. page.at :
        (LongDegraded(u) /\ InWindow(u)) =>
            \E v \in u .. u + 2 * Every :
                page.bars[(v - 1) \div BarLength] \in {"degraded", "down"}

\* The incidents are the newest, none overlaps the next, only the newest goes
\* on, and none that goes on is a stop once the gateway that answers has
\* taken its first sample.
EndOf(in) == IF in.end = 0 THEN page.at ELSE in.end
IncidentsAreApart ==
    /\ \A i, j \in DOMAIN page.incidents : i < j =>
         /\ EndOf(page.incidents[j]) <= page.incidents[i].start
         /\ page.incidents[j].state = page.incidents[i].state =>
               EndOf(page.incidents[j]) < page.incidents[i].start
    /\ \A in \in Listed : in.state = "down" /\ in.end = 0 => ~page.sampled \/ Was(page.at) # page.state

UptimeSound ==
    page # NoPage => StopsAreShown /\ CrashesAreShown /\ ShareIsFair /\ DegradedIsKept /\ IncidentsAreApart
=============================================================================
