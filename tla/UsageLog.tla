------------------------------- MODULE UsageLog -------------------------------
(***************************************************************************)
(* The request history as the screens read it: pages walked by cursor, the *)
(* download, the usage report, the list of chats and the filters' values,  *)
(* each several reads while requests are recorded late and pruned          *)
(* (store/usage.go, requestlog.go, usagereport.go, chats.go, facets.go,    *)
(* names.go, maintenance.go; admin/usage.go, export.go, facets.go).        *)
(***************************************************************************)
EXTENDS Naturals, FiniteSets, SequencesExt

CONSTANTS
    Contents,       \* what a row may hold: [refused, change, own, key, chat, failed, tokens, took]
    NameOf,         \* the names table: the name a key has, or had when it was deleted
    Filters,        \* RequestFilter: [keys, outcome, kinds], an empty set for any
    PageSize,       \* rows of a page
    KeepDays,           \* usage.retention-days, in ticks
    FacetsFor,      \* facetsFor, in ticks
    MaxLogged,        \* bound: rows recorded
    MaxLogTick        \* bound: the last tick

\* A page has a row, a menu is kept for a while, and what a row counts are
\* numbers.
ASSUME LogAssumption ==
    /\ PageSize \in Nat \ {0} /\ FacetsFor \in Nat \ {0} /\ KeepDays \in Nat
    /\ \A c \in Contents : c.failed \in BOOLEAN /\ c.tokens \in Nat /\ c.took \in Nat

VARIABLES
    usageRows,        \* usage_events, every row there was, in the order of their ids
    stillThere,           \* the ids that are still there
    logTick,
    screen,         \* the one read that is open: a walk, a report, the chats or a menu
    facets          \* facetCache: [at, values, reading], at 0 for nothing read

usageVars == <<usageRows, stillThere, logTick, screen, facets>>

\* kind: refused first, since a refusal of the gateway's own request is still a
\* refusal; then an agent's change, the gateway's own, and what it relayed.
KindOf(c) == IF c.refused THEN 1 ELSE IF c.change THEN 3 ELSE IF c.own THEN 2 ELSE 0
\* Relayed and internal requests count; refusals and agents' changes do not.
Counted == {0, 2}
Closed == [pc |-> "none"]

UsageLogInit ==
    /\ usageRows = <<>> /\ stillThere = {} /\ logTick = 1
    /\ screen = Closed /\ facets = [at |-> 0, values |-> {}, reading |-> FALSE]

---------------------------------------------------------------------------
\* RecordUsage: a row of the moment its request began, whenever it is written.
RecordUsage(c, at) ==
    /\ Len(usageRows) < MaxLogged
    /\ usageRows' = Append(usageRows, [at |-> at, kind |-> KindOf(c), key |-> c.key, chat |-> c.chat,
                                   failed |-> c.failed, tokens |-> c.tokens, took |-> c.took, wrote |-> logTick])
    /\ stillThere' = stillThere \cup {Len(usageRows) + 1}
    /\ UNCHANGED <<logTick, screen, facets>>

\* PruneHistory.
PruneHistory ==
    LET old == {i \in stillThere : usageRows[i].at + KeepDays < logTick}
    IN /\ old # {} /\ stillThere' = stillThere \ old
       /\ UNCHANGED <<usageRows, logTick, screen, facets>>

Ticks == logTick < MaxLogTick /\ logTick' = logTick + 1
         /\ UNCHANGED <<usageRows, stillThere, screen, facets>>

---------------------------------------------------------------------------
\* The request log.

\* RequestFilter.where.
Fits(i, f) ==
    LET r == usageRows[i]
    IN /\ f.keys = {} \/ r.key \in f.keys
       /\ f.outcome = "" \/ (f.outcome = "failed") = r.failed
       /\ f.kinds = {} \/ r.kind \in f.kinds

\* ORDER BY.
OrderBy(ids, Before(_, _)) ==
    CHOOSE s \in [1 .. Cardinality(ids) -> ids] : \A i, j \in DOMAIN s : i < j => Before(s[i], s[j])

\* at DESC, id DESC.
LogOrder(i, j) == usageRows[i].at > usageRows[j].at \/ (usageRows[i].at = usageRows[j].at /\ i > j)
Older(i, cursor) ==
    cursor.id = 0 \/ usageRows[i].at < cursor.at \/ (usageRows[i].at = cursor.at /\ i < cursor.id)

\* Mutant of RecentUsage: rows of the cursor's own moment are passed over.
RecentUsageAt(size, cursor, f) ==
    LET after == {i \in stillThere : Fits(i, f) /\ (cursor.id = 0 \/ usageRows[i].at < cursor.at)}
        rows == OrderBy(after, LogOrder)
    IN SubSeq(rows, 1, Min({size, Len(rows)}))
\* RecentUsage: a page of the rows after the cursor.
RecentUsage(size, cursor, f) ==
    LET rows == OrderBy({i \in stillThere : Fits(i, f) /\ Older(i, cursor)}, LogOrder)
    IN SubSeq(rows, 1, Min({size, Len(rows)}))

\* UsageCursor: the last row shown, none after a page that was not full.
CursorAfter(page) ==
    IF Len(page) < PageSize THEN [at |-> 0, id |-> 0]
    ELSE [at |-> usageRows[Last(page)].at, id |-> Last(page)]

Leafed(page) == IF CursorAfter(page).id = 0 THEN "done" ELSE "more"

\* handleRecentRequests without a cursor; handleExportRequests.
OpenPage(f) ==
    LET page == RecentUsage(PageSize, [at |-> 0, id |-> 0], f)
    IN /\ screen.pc = "none"
       /\ screen' = [pc |-> Leafed(page), filter |-> f, cursor |-> CursorAfter(page), shown |-> page,
                     there |-> stillThere]
       /\ UNCHANGED <<usageRows, stillThere, logTick, facets>>

\* The next page; the download's next round.
NextPage ==
    LET page == RecentUsage(PageSize, screen.cursor, screen.filter)
    IN /\ screen.pc = "more"
       /\ screen' = [screen EXCEPT !.pc = Leafed(page), !.cursor = CursorAfter(page), !.shown = @ \o page]
       /\ UNCHANGED <<usageRows, stillThere, logTick, facets>>

---------------------------------------------------------------------------
\* The usage report, and the chats.

Rows(since) == {i \in stillThere : usageRows[i].kind \in Counted /\ usageRows[i].at >= since}
TokensOf(ids) == SumFunction([i \in ids |-> usageRows[i].tokens])
Sums(ids) == [requests |-> Cardinality(ids), tokens |-> TokensOf(ids),
              errors |-> Cardinality({i \in ids : usageRows[i].failed})]

\* crossSet.add: a cell for each day and name, not for each key: two keys that
\* had one name are one line of a chart.
Crossed(ids) ==
    [cell \in {<<usageRows[i].at, NameOf[usageRows[i].key]>> : i \in ids} |->
        Sums({i \in ids : <<usageRows[i].at, NameOf[usageRows[i].key]>> = cell})]

\* UsageIn's one grouped query: the totals, each dimension's buckets, by id, and
\* the keys crossed with the days.
UsageIn(since) ==
    LET ids == Rows(since)
        keys == {usageRows[i].key : i \in ids}
        days == {usageRows[i].at : i \in ids}
    IN /\ screen.pc = "none" /\ logTick >= since
       /\ screen' = [pc |-> "percentiles", since |-> since, totals |-> Sums(ids),
                     byKey |-> [k \in keys |-> Sums({i \in ids : usageRows[i].key = k})],
                     byDay |-> [d \in days |-> Sums({i \in ids : usageRows[i].at = d})],
                     cross |-> Crossed(ids), median |-> 0, were |-> stillThere, calm |-> TRUE]
       /\ UNCHANGED <<usageRows, stillThere, logTick, facets>>

\* Mutant of durationPercentile: what took longest comes first.
SlowestPercentile(since, n, pct) ==
    LET byTime == OrderBy(Rows(since), LAMBDA i, j : usageRows[i].took > usageRows[j].took
                                                \/ (usageRows[i].took = usageRows[j].took /\ i < j))
        place == Max({(n * pct) \div 100, 1})
    IN IF place > Len(byTime) THEN 0 ELSE usageRows[byTime[place]].took
\* durationPercentile: a second query, at the offset the first one's count
\* gives; past the end it is 0.
Quicker(i, j) ==
    usageRows[i].took < usageRows[j].took \/ (usageRows[i].took = usageRows[j].took /\ i < j)
durationPercentile(since, n, pct) ==
    LET byTime == OrderBy(Rows(since), Quicker)
        place == Max({(n * pct) \div 100, 1})
    IN IF place > Len(byTime) THEN 0 ELSE usageRows[byTime[place]].took

Percentiles ==
    /\ screen.pc = "percentiles"
    /\ screen' = [screen EXCEPT !.pc = "reported", !.calm = (stillThere = screen.were),
                    !.median = IF screen.totals.requests = 0 THEN 0
                               ELSE durationPercentile(screen.since, screen.totals.requests, 50)]
    /\ UNCHANGED <<usageRows, stillThere, logTick, facets>>

\* ChatsIn: the count, the chats by tokens, and what is in none, in turn.
ChatIds(since) == {usageRows[i].chat : i \in Rows(since)} \ {""}
ChatsOf(since) ==
    [c \in ChatIds(since) |-> Sums({i \in Rows(since) : usageRows[i].chat = c})]
CountChats(since) ==
    /\ screen.pc = "none"
    /\ screen' = [pc |-> "list", since |-> since, total |-> Cardinality(ChatIds(since)),
                 listed |-> <<>>, none |-> Sums({}), were |-> stillThere, calm |-> TRUE]
    /\ UNCHANGED <<usageRows, stillThere, logTick, facets>>
ListChats ==
    /\ screen.pc = "list"
    /\ screen' = [screen EXCEPT !.pc = "rest", !.listed = ChatsOf(screen.since),
                              !.calm = (stillThere = screen.were)]
    /\ UNCHANGED <<usageRows, stillThere, logTick, facets>>
\* Mutant of Unattributed: refusals, which have no chat, are counted with it.
UnattributedAll ==
    /\ screen.pc = "rest"
    /\ screen' = [screen EXCEPT !.pc = "shown", !.calm = @ /\ (stillThere = screen.were),
                   !.none = Sums({i \in stillThere : usageRows[i].at >= screen.since /\ usageRows[i].chat = ""})]
    /\ UNCHANGED <<usageRows, stillThere, logTick, facets>>
\* unattributed.
Unattributed ==
    /\ screen.pc = "rest"
    /\ screen' = [screen EXCEPT !.pc = "shown", !.calm = @ /\ (stillThere = screen.were),
                   !.none = Sums({i \in Rows(screen.since) : usageRows[i].chat = ""})]
    /\ UNCHANGED <<usageRows, stillThere, logTick, facets>>
---------------------------------------------------------------------------
\* The filters' values, read at most once a minute.

FacetsFresh == facets.at # 0 /\ logTick - facets.at < FacetsFor
\* RequestFacets, of the keys: every key a row names.
RequestFacets == {usageRows[i].key : i \in stillThere}

\* get: what is fresh at once, or else the reading under way, started if
\* there is none.
AskFacets ==
    /\ screen.pc = "none"
    /\ IF FacetsFresh THEN UNCHANGED facets ELSE facets' = [facets EXCEPT !.reading = TRUE]
    /\ screen' = IF FacetsFresh THEN [pc |-> "menu", asked |-> logTick, values |-> facets.values]
                                ELSE [pc |-> "waiting", asked |-> logTick]
    /\ UNCHANGED <<usageRows, stillThere, logTick>>
\* take: it may fail, which keeps what there was.
TakeFacets ==
    /\ facets.reading
    /\ \/ facets' = [at |-> logTick, values |-> RequestFacets, reading |-> FALSE]
       \/ facets' = [facets EXCEPT !.reading = FALSE]
    /\ UNCHANGED <<usageRows, stillThere, logTick, screen>>
\* get, once the reading is done: the menu if it is fresh now, an error if not.
GetFacets ==
    /\ screen.pc = "waiting" /\ ~facets.reading
    /\ screen' = IF FacetsFresh THEN [pc |-> "menu", asked |-> screen.asked, values |-> facets.values]
                                ELSE [pc |-> "refused"]
    /\ UNCHANGED <<usageRows, stillThere, logTick, facets>>

\* The screen is left, before its read is done or after.
CloseScreen ==
    /\ screen.pc # "none" /\ screen' = Closed
    /\ UNCHANGED <<usageRows, stillThere, logTick, facets>>

UsageLogNext ==
    \/ \E c \in Contents, back \in 0..1 : back < logTick /\ RecordUsage(c, logTick - back)
    \/ PruneHistory \/ Ticks
    \/ (\E f \in Filters : OpenPage(f)) \/ NextPage
    \/ \E since \in {1, logTick} : UsageIn(since) \/ CountChats(since)
    \/ Percentiles \/ ListChats \/ Unattributed
    \/ AskFacets \/ TakeFacets \/ GetFacets \/ CloseScreen

UsageLogSpec == UsageLogInit /\ [][UsageLogNext]_usageVars

---------------------------------------------------------------------------
\* Properties.

\* A walk shows rows newest first and none twice, whatever was recorded or
\* pruned between its pages.
ShownOnce ==
    screen.pc \in {"more", "done"} =>
      \A i, j \in DOMAIN screen.shown : i < j => LogOrder(screen.shown[i], screen.shown[j])

\* "What arrives in the file is what was on the screen" (export.go): a walk
\* that came to its end has shown every row that was there as it began, fits
\* its filter, and is still there.
NoneMissed ==
    screen.pc = "done" =>
      \A i \in screen.there \cap stillThere : Fits(i, screen.filter) => i \in Range(screen.shown)

\* The report's keys add up to its totals and its days too, and the cells of a
\* chart to the day they are of, whatever names the keys share.
RequestsIn(buckets) == SumFunction([b \in DOMAIN buckets |-> buckets[b].requests])
TokensIn(buckets) == SumFunction([b \in DOMAIN buckets |-> buckets[b].tokens])
ErrorsIn(buckets) == SumFunction([b \in DOMAIN buckets |-> buckets[b].errors])
AddsUp(buckets, t) ==
    RequestsIn(buckets) = t.requests /\ TokensIn(buckets) = t.tokens /\ ErrorsIn(buckets) = t.errors
ReportAddsUp ==
    screen.pc \in {"percentiles", "reported"} =>
      /\ AddsUp(screen.byKey, screen.totals) /\ AddsUp(screen.byDay, screen.totals)
      /\ \A day \in DOMAIN screen.byDay :
           AddsUp([cell \in {c \in DOMAIN screen.cross : c[1] = day} |-> screen.cross[cell]], screen.byDay[day])

\* The median is how long one of the report's requests took, no more than about
\* half of them took longer and fewer than half less, unless some were pruned or
\* recorded between the two queries.
MedianIsOfThem ==
    screen.pc = "reported" /\ screen.calm /\ screen.totals.requests > 0 =>
      LET ids == {i \in screen.were : usageRows[i].kind \in Counted /\ usageRows[i].at >= screen.since}
          longer == {i \in ids : usageRows[i].took > screen.median}
      IN /\ \E i \in ids : usageRows[i].took = screen.median
         /\ 2 * Cardinality(longer) <= Cardinality(ids) + 1
         /\ 2 * Cardinality({i \in ids : usageRows[i].took < screen.median}) < Cardinality(ids)

\* The chats and what is in none of them are all the requests, when
\* nothing came or went between the reads.
ChatsAddUp ==
    screen.pc = "shown" /\ screen.calm /\ stillThere = screen.were =>
      /\ Cardinality(DOMAIN screen.listed) = screen.total
      /\ RequestsIn(screen.listed) + screen.none.requests = Cardinality(Rows(screen.since))
      /\ TokensIn(screen.listed) + screen.none.tokens = TokensOf(Rows(screen.since))

\* A menu offers every key that was recorded a minute before it was asked for
\* and is still in the history.
MenuIsRecent ==
    screen.pc = "menu" =>
      \A i \in stillThere : usageRows[i].wrote + FacetsFor <= screen.asked => usageRows[i].key \in screen.values

UsageLogSound ==
    ShownOnce /\ NoneMissed /\ ReportAddsUp /\ MedianIsOfThem /\ ChatsAddUp /\ MenuIsRecent
=============================================================================
