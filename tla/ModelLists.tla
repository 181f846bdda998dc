----------------------------- MODULE ModelLists -----------------------------
(***************************************************************************)
(* What the gateway knows of the models its accounts serve                 *)
(* (service/models/list.go): each account's last list, and what every      *)
(* route, family and menu is read from, remembered off all of them.  Lists *)
(* are read by the one refresh in the background, by an operator who asks  *)
(* (FreshList, AccountList), and by any reader of the model list that finds an *)
(* account with none: several at once, each with the accounts it read when *)
(* it began.                                                               *)
(*                                                                         *)
(* And what one vendor's account lists, ranked (provider/google/wire.go    *)
(* ModelList, provider/openai/wire.go ModelList), and the test of an       *)
(* account: one short turn to the model named, or to one picked of the     *)
(* list, and whether all of it came back (provider/*/probe.go,             *)
(* httpapi/admin/accounts.go).  Ids are positions in CatalogIds, which is  *)
(* in the order of their spelling.  The two share no state.                *)
(***************************************************************************)
EXTENDS Integers, Sequences, SequencesExt, FiniteSets, FiniteSetsExt, TLC

CONSTANTS
    Reader,         \* requests and pages that read the list
    Refresher,      \* the goroutine of Catalog.refresh
    Subscription,   \* accounts that may be connected
    Serving,        \* the provider of each
    DefaultProvider,\* the gateway's first relay
    Catalogue,      \* what the public catalogue says of that one
    Listings,       \* what an upstream may list for an account
    NewestTTL, ListRetry,   \* in ticks
    MaxListTick,    \* bound: the clock
    MaxChanges      \* bound: changes of accounts and of upstreams

ASSUME TimesAreSet == NewestTTL \in Nat \ {0} /\ ListRetry \in Nat \ {0}

VARIABLES
    listTick,       \* the clock
    changes,        \* changes so far
    accounts, on,   \* the accounts stored, and those switched on
    upstream,       \* what each upstream answers: {a list}, or {} when it cannot be read
    lastLists,      \* Catalog.lastLists: {the list}, or {}
    memo,           \* served, listed, accountLists, connected, unread
    newestAt, nextRead,
    refreshing,     \* a refresh is in flight
    reads,          \* each read under way
    wholeAt         \* history: when every account was last asked, or tried

listsVars == <<listTick, changes, accounts, on, upstream, lastLists, memo, newestAt, nextRead,
               refreshing, reads, wholeAt>>

NoList == {}
Providers == {Serving[a] : a \in Subscription}
Procs == Reader \cup {Refresher}
NoRead == [pc |-> "idle", kind |-> "none", all |-> {}, on |-> {}, waits |-> {}, got |-> <<>>]

ListsInit ==
    /\ listTick = 1 /\ changes = 0
    /\ \E s \in SUBSET Subscription : accounts = s /\ on = s
    /\ upstream \in [Subscription -> {{l} : l \in Listings}]
    /\ lastLists = [a \in Subscription |-> NoList]
    /\ memo = [served |-> [p \in Providers |-> {}], listed |-> [p \in Providers |-> {}],
               byAccount |-> [a \in Subscription |-> NoList], connected |-> {}, unread |-> {}]
    /\ newestAt = 0 /\ nextRead = 0
    /\ refreshing = FALSE
    /\ reads = [r \in Procs |-> NoRead]
    /\ wholeAt = 0

---------------------------------------------------------------------------
\* Reading.

\* readLists: every account's upstream, or only of those with no list yet.
BeginRead(kind) ==
    [pc |-> "reading", kind |-> kind, all |-> accounts, on |-> on,
     waits |-> {a \in on : kind = "fresh" \/ lastLists[a] = NoList},
     got |-> [a \in on |-> IF kind = "fresh" THEN NoList ELSE lastLists[a]]]

\* refreshFamilies, as anything that needs the lists calls it.
NeedsRefresh == listTick >= nextRead /\ ~refreshing
Refreshing == refreshing' = (refreshing \/ NeedsRefresh)

Others(r) == [reads EXCEPT ![Refresher] = IF NeedsRefresh THEN BeginRead("fresh") ELSE @]

\* List: only a gateway that has read nothing yet waits for the refresh.
List(r) ==
    /\ reads[r].pc = "idle"
    /\ Refreshing
    /\ reads' = [Others(r) EXCEPT ![r] = IF newestAt = 0 /\ refreshing'
                                           THEN [NoRead EXCEPT !.pc = "waiting", !.kind = "list"]
                                           ELSE BeginRead("list")]
    /\ UNCHANGED <<listTick, changes, accounts, on, upstream, lastLists, memo, newestAt, nextRead, wholeAt>>

\* The refresh has ended, or the caller's time has.
Waited(r) ==
    /\ reads[r].pc = "waiting"
    /\ reads' = [reads EXCEPT ![r] = BeginRead("list")]
    /\ UNCHANGED <<listTick, changes, accounts, on, upstream, lastLists, memo, newestAt, nextRead,
                   refreshing, wholeAt>>

FreshList(r) ==
    /\ reads[r].pc = "idle"
    /\ reads' = [reads EXCEPT ![r] = BeginRead("fresh")]
    /\ UNCHANGED <<listTick, changes, accounts, on, upstream, lastLists, memo, newestAt, nextRead,
                   refreshing, wholeAt>>

\* ListFor: one account's upstream answers.
AnsweredLists(r, a) ==
    /\ reads[r].pc = "reading" /\ a \in reads[r].waits
    /\ reads' = [reads EXCEPT ![r].got[a] = IF a \in accounts THEN upstream[a] ELSE NoList,
                              ![r].waits = @ \ {a}]
    /\ UNCHANGED <<listTick, changes, accounts, on, upstream, lastLists, memo, newestAt, nextRead,
                   refreshing, wholeAt>>

\* AccountList, read again: it is kept, and nothing is remembered of it.
AccountList(a) ==
    /\ a \in accounts /\ upstream[a] # NoList
    /\ lastLists' = [lastLists EXCEPT ![a] = upstream[a]]
    /\ UNCHANGED <<listTick, changes, accounts, on, upstream, memo, newestAt, nextRead,
                   refreshing, reads, wholeAt>>

\* readLists, when all have answered: what was read is kept, and what was kept
\* of the accounts it began with.
KeepLists(r) ==
    LET got == reads[r].got IN
    /\ reads[r].pc = "reading" /\ reads[r].waits = {}
    /\ lastLists' = [a \in Subscription |->
                       IF a \notin reads[r].all THEN NoList
                       ELSE IF a \in DOMAIN got /\ got[a] # NoList THEN got[a] ELSE lastLists[a]]
    /\ reads' = [reads EXCEPT ![r].pc = "read"]
    /\ UNCHANGED <<listTick, changes, accounts, on, upstream, memo, newestAt, nextRead, refreshing, wholeAt>>

---------------------------------------------------------------------------
\* Remembering.

\* Mutant: only what was read this time.
StandsThisTime(r) == [a \in reads[r].on |-> reads[r].got[a]]
\* What stands for each account switched on: what it said, else its last list.
StandsFor(r) ==
    [a \in reads[r].on |-> IF reads[r].got[a] # NoList THEN reads[r].got[a] ELSE lastLists[a]]

Had(stands, p) == {a \in DOMAIN stands : Serving[a] = p /\ stands[a] # NoList}

\* No account of the default provider gave a list: its models are the public
\* catalogue's, so the screens have some to show.
NoneToAsk(stands) == {p \in {DefaultProvider} : Catalogue # {} /\ Had(stands, p) = {}}
ReadAny(stands) == NoneToAsk(stands) # {} \/ \E a \in DOMAIN stands : stands[a] # NoList

\* Mutant: an account that could not be read is forgotten.
ByReadOnly(stands) == [a \in Subscription |-> IF a \in DOMAIN stands THEN stands[a] ELSE NoList]
\* accountLists: the new ones over the old.
ByAccount(stands) ==
    [a \in Subscription |-> IF a \in DOMAIN stands /\ stands[a] # NoList THEN stands[a] ELSE memo.byAccount[a]]

\* remember, over what list has merged of each provider: one that could not be
\* read keeps what it last said, if it ever said anything.
Remembered(stands) ==
    LET union(p) == IF Had(stands, p) # {} THEN UNION UNION {stands[a] : a \in Had(stands, p)}
                    ELSE {}
        conn == {Serving[a] : a \in DOMAIN stands}
        unread == {p \in conn : Had(stands, p) = {}}
        part(p) == IF p \in NoneToAsk(stands) THEN Catalogue ELSE union(p)
        kept(old, new(_)) == [p \in Providers |-> IF p \in unread /\ old[p] # {} THEN old[p] ELSE new(p)]
    IN IF ~ReadAny(stands) THEN [memo EXCEPT !.connected = conn, !.unread = unread]
       ELSE [served |-> kept(memo.served, part), listed |-> kept(memo.listed, union),
             byAccount |-> ByAccount(stands), connected |-> conn, unread |-> unread]

\* list, from the lists to its answer; a refresh is over with it.
Remember(r) ==
    LET stands == StandsFor(r)
        read == ReadAny(stands)
        whole == read /\ \A a \in reads[r].on : reads[r].got[a] # NoList
    IN
    /\ reads[r].pc = "read"
    /\ memo' = Remembered(stands)
    /\ nextRead' = listTick + (IF whole THEN NewestTTL ELSE ListRetry)
    /\ newestAt' = IF read THEN listTick ELSE newestAt
    /\ refreshing' = (refreshing /\ r # Refresher)
    /\ reads' = [reads EXCEPT ![r] = NoRead]
    /\ wholeAt' = IF reads[r].kind = "fresh" THEN listTick ELSE wholeAt
    /\ UNCHANGED <<listTick, changes, accounts, on, upstream, lastLists>>

---------------------------------------------------------------------------
\* What changes meanwhile.

Change == changes < MaxChanges /\ changes' = changes + 1

Connect(a) ==
    /\ Change /\ a \notin accounts
    /\ accounts' = accounts \cup {a} /\ on' = on \cup {a}
    /\ UNCHANGED <<listTick, upstream, lastLists, memo, newestAt, nextRead, refreshing, reads, wholeAt>>

Disconnect(a) ==
    /\ Change /\ a \in accounts
    /\ accounts' = accounts \ {a} /\ on' = on \ {a}
    /\ UNCHANGED <<listTick, upstream, lastLists, memo, newestAt, nextRead, refreshing, reads, wholeAt>>

SwitchAccount(a) ==
    /\ Change /\ a \in accounts
    /\ on' = IF a \in on THEN on \ {a} ELSE on \cup {a}
    /\ UNCHANGED <<listTick, accounts, upstream, lastLists, memo, newestAt, nextRead, refreshing, reads, wholeAt>>

UpstreamSays(a, l) ==
    /\ Change /\ upstream[a] # l /\ upstream' = [upstream EXCEPT ![a] = l]
    /\ UNCHANGED <<listTick, accounts, on, lastLists, memo, newestAt, nextRead, refreshing, reads, wholeAt>>

ListTick ==
    /\ listTick < MaxListTick /\ listTick' = listTick + 1
    /\ UNCHANGED <<changes, accounts, on, upstream, lastLists, memo, newestAt, nextRead, refreshing, reads, wholeAt>>

ListsNext ==
    \/ \E r \in Reader : List(r) \/ Waited(r) \/ FreshList(r)
    \/ \E r \in Procs : KeepLists(r) \/ Remember(r) \/ \E a \in Subscription : AnsweredLists(r, a)
    \/ \E a \in Subscription : AccountList(a) \/ Connect(a) \/ Disconnect(a) \/ SwitchAccount(a)
    \/ \E a \in Subscription, l \in {NoList} \cup {{x} : x \in Listings} : UpstreamSays(a, l)
    \/ ListTick

ListsSpec == ListsInit /\ [][ListsNext]_listsVars

---------------------------------------------------------------------------
\* Properties.

ListedBy(p) == UNION {UNION memo.byAccount[a] : a \in {x \in Subscription : Serving[x] = p}}

\* What is routed to a provider with an account, an account of it listed, so a
\* version of a family can always be found there (Catalog.Lists, pool.Best);
\* the catalogue's models are routed only where there is no account to ask.
RoutesAreListed ==
    \A p \in Providers :
        \/ memo.served[p] \subseteq ListedBy(p)
        \/ p = DefaultProvider /\ memo.listed[p] = {} /\ memo.served[p] = Catalogue

\* "An account whose list cannot be read stands in with the last one it gave,
\* so a model only its plan has is not dropped for one bad read" (List): a read
\* leaves whatever such an account is known to list among what is offered.
NotDropped ==
    \A r \in Procs : reads[r].pc = "read" /\ reads'[r].pc = "idle" =>
        \A a \in {x \in reads[r].on : lastLists[x] # NoList} :
            memo'.byAccount[a] # NoList /\ UNION memo'.byAccount[a] \subseteq memo'.listed[Serving[a]]

\* RoutesAreListed and NotDropped, of every state and every step.
ListsSound == []RoutesAreListed /\ [][NotDropped]_listsVars

\* "The lists are read again in the background (refreshFamilies, every
\* newestTTL)" (List): whoever reads the model list, its lists a newestTTL old,
\* finds them being read.
ReadAgain ==
    [][\A r \in Reader :
         reads[r].pc = "idle" /\ reads'[r].pc # "idle" /\ reads'[r].kind = "list"
           => refreshing' \/ listTick < wholeAt + NewestTTL]_listsVars


---------------------------------------------------------------------------
\* A vendor's list and the test of an account.

CONSTANTS
    CatalogIds,     \* every model: its id in parts, and what the vendor's picker shows of it
    OfferedLists,   \* what an account may be offered, in the vendor's order, each once
    PickerOrders,   \* the orders a picker may show, of ids
    MaxListings     \* bound: what an account is offered changes

VARIABLES
    listVendor,     \* whose account it is
    offeredNow,     \* its models, in the order the vendor says them
    pickerNow,      \* the picker's order
    listingNow,     \* the list as it was last read, and what it was read of
    testNow,        \* the account's last test
    listings        \* how often what it is offered changed

vendorListVars == <<listVendor, offeredNow, pickerNow, listingNow, testNow, listings>>

NoTest ==
    [ran |-> FALSE, named |-> 0, model |-> 0, met |-> "none", ok |-> FALSE, error |-> "none", of |-> <<>>]

VendorListsInit ==
    /\ listVendor \in {"anthropic", "openai", "google"}
    /\ offeredNow \in OfferedLists /\ pickerNow \in PickerOrders
    /\ listingNow = [ids |-> <<>>, of |-> <<>>, picker |-> <<>>] /\ testNow = NoTest /\ listings = 0

\* The vendor offers others, or shows them in another order.
OfferOthers ==
    /\ listings < MaxListings /\ listings' = listings + 1
    /\ offeredNow' \in OfferedLists /\ pickerNow' \in PickerOrders
    /\ UNCHANGED <<listVendor, listingNow, testNow>>

---------------------------------------------------------------------------
\* Google's ranks.

Levels == <<"high", "", "medium", "low", "extra-low">>
LevelOf(word, otherwise) ==
    IF word \in Range(Levels) THEN CHOOSE i \in DOMAIN Levels : Levels[i] = word ELSE otherwise
Tiers == <<"pro", "flash", "flash-lite">>

\* place: the picker's families, then the sizes, then any other.
Placed(family, order) ==
    IF family \in Range(order) THEN CHOOSE i \in DOMAIN order : order[i] = family
    ELSE Len(order) + (IF family \in Range(Tiers) THEN CHOOSE i \in DOMAIN Tiers : Tiers[i] = family
                       ELSE Len(Tiers) + 1)

\* rank, read off the id: its version, its family, and the rest of it.
RankOfId(id, order) ==
    LET m == CatalogIds[id] IN
    [gemini |-> m.gemini, family |-> IF m.gemini THEN m.family ELSE "none",
     tier |-> Placed(IF m.gemini THEN m.family ELSE "none", order),
     version |-> IF m.gemini THEN m.version ELSE <<>>,
     preview |-> m.gemini /\ m.rest = "preview", level |-> IF m.gemini THEN LevelOf(m.rest, 2) ELSE 2]

\* Mutant: an id is ranked by itself, whatever its name says.
ById(id, order) == RankOfId(id, order)
\* rankNamed: a picker's name says the version, the family and the level over
\* the id.
RankNamed(id, order) ==
    LET r == RankOfId(id, order)
        shown == CatalogIds[id].shown
        f == IF shown.family = "none" THEN r
             ELSE [r EXCEPT !.gemini = TRUE, !.family = shown.family,
                            !.tier = Placed(shown.family, order), !.version = shown.version]
    IN IF shown.level = "none" THEN f ELSE [f EXCEPT !.level = LevelOf(shown.level, r.level)]

NewerVersion(v, w) ==
    LET at(s, i) == IF i <= Len(s) THEN s[i] ELSE 0
    IN \E i \in 1 .. Max({Len(v), Len(w)}) : /\ at(v, i) > at(w, i)
                                             /\ \A j \in 1 .. i - 1 : at(v, j) = at(w, j)
SameVersion(v, w) == ~NewerVersion(v, w) /\ ~NewerVersion(w, v)

\* before, in the order of what tells two apart.
RanksBefore(a, b) ==
    IF a.gemini # b.gemini THEN a.gemini
    ELSE IF a.tier # b.tier THEN a.tier < b.tier
    ELSE IF ~SameVersion(a.version, b.version) THEN NewerVersion(a.version, b.version)
    ELSE IF a.preview # b.preview THEN ~a.preview
    ELSE a.level < b.level

\* sortModelsBy: ties by the id, so a map's order never shows.
SortedModels(ids, rank(_)) ==
    SortSeq(ids, LAMBDA i, j : \/ RanksBefore(rank(i), rank(j))
                               \/ ~RanksBefore(rank(j), rank(i)) /\ i < j)

\* pickerOrder: the families as the picker's ids meet them.
PickerFamilies(picker) ==
    LET families == [i \in DOMAIN picker |->
                       IF picker[i] \in Range(offeredNow) THEN RankNamed(picker[i], <<>>)
                       ELSE RankOfId(picker[i], <<>>)]
        firsts == SelectSeq([i \in DOMAIN picker |-> i],
                    LAMBDA i : /\ families[i].gemini
                               /\ \A j \in 1 .. i - 1 : families[j].family # families[i].family)
    IN [k \in DOMAIN firsts |-> families[firsts[k]].family]

---------------------------------------------------------------------------
\* The lists.

\* Google's: those the picker names and gives a quota, less Anthropic's.
GoogleList ==
    LET kept == SelectSeq(offeredNow,
                    LAMBDA i : LET m == CatalogIds[i] IN m.shown.named /\ m.quota /\ ~m.claude)
        order == PickerFamilies(pickerNow)
    IN SortedModels(kept, LAMBDA i : RankNamed(i, order))

\* ChatGPT's: the listed ones, ranked first, by the list's own order among
\* equals.
ChatgptList ==
    LET kept == SelectSeq(offeredNow, LAMBDA i : CatalogIds[i].quota)
        ranked(i) == CatalogIds[kept[i]].priority
        before(i, j) == IF ranked(i) = 0 \/ ranked(j) = 0 THEN ranked(i) # 0 /\ ranked(j) = 0
                        ELSE ranked(i) < ranked(j)
        order == SortSeq([i \in DOMAIN kept |-> i], LAMBDA i, j : before(i, j) \/ (~before(j, i) /\ i < j))
    IN [k \in DOMAIN order |-> kept[order[k]]]

VendorList ==
    CASE listVendor = "google" -> GoogleList
      [] listVendor = "openai" -> ChatgptList
      [] OTHER -> offeredNow

ReadVendorList ==
    /\ listingNow' = [ids |-> VendorList, of |-> offeredNow, picker |-> pickerNow]
    /\ UNCHANGED <<listVendor, offeredNow, pickerNow, testNow, listings>>

---------------------------------------------------------------------------
\* The test.

\* quotaResponse.models: ids of the quota, ranked by themselves.
QuotaModels ==
    SortedModels(SelectSeq(offeredNow, LAMBDA i : CatalogIds[i].quota), LAMBDA i : RankOfId(i, <<>>))

FirstOf(s, is(_)) == LET them == SelectSeq(s, is) IN IF them = <<>> THEN Head(s) ELSE Head(them)
\* firstModel, probeModel, smallestModel; of a list that is not empty.
ModelToTest ==
    CASE listVendor = "openai" -> Head(ChatgptList)
      [] listVendor = "google" ->
           FirstOf(QuotaModels, LAMBDA i : LET r == RankOfId(i, <<>>) IN r.gemini /\ r.family = "flash")
      [] OTHER -> FirstOf(offeredNow, LAMBDA i : CatalogIds[i].family = "haiku")
NothingToTest ==
    CASE listVendor = "openai" -> ChatgptList = <<>>
      [] listVendor = "google" -> QuotaModels = <<>>
      [] OTHER -> offeredNow = <<>>

\* What a turn meets: Claude's is one JSON body, the others' a stream.
Fates == {"unreachable", "refused", "cut", "whole"}
         \cup IF listVendor = "anthropic" THEN {"garbled"} ELSE {"errorInside", "endedEarly"}

\* Mutant: a stream with no error in it went well.
EndsUnsaid(met) ==
    LET well == met \in {"whole", "endedEarly"} IN [ok |-> well, error |-> IF well THEN "none" ELSE met]
\* The end of Probe, of every vendor.
Outcomes(met) == [ok |-> met = "whole", error |-> IF met = "whole" THEN "none" ELSE met]

\* Probe: with no model named, of the list, which may be refused or empty.
TestAccount(named) ==
    /\ \E listed \in IF named = 0 THEN BOOLEAN ELSE {TRUE}, met \in Fates :
         testNow' =
             IF named = 0 /\ (~listed \/ NothingToTest)
             THEN [NoTest EXCEPT !.ran = TRUE, !.met = "list", !.error = "list", !.of = offeredNow]
             ELSE [ran |-> TRUE, named |-> named, model |-> IF named = 0 THEN ModelToTest ELSE named, met |-> met,
                   ok |-> Outcomes(met).ok, error |-> Outcomes(met).error, of |-> offeredNow]
    /\ UNCHANGED <<listVendor, offeredNow, pickerNow, listingNow, listings>>

VendorListsNext ==
    \/ OfferOthers \/ ReadVendorList
    \/ \E named \in {0, 1} : TestAccount(named)

---------------------------------------------------------------------------
\* Where two of a list stand, by what they are shown as.
AsShown(m) == m.shown.family # "none"
VersionShown(i) == LET m == CatalogIds[i] IN IF AsShown(m) THEN m.shown.version ELSE m.version
FamilyShown(i) == LET m == CatalogIds[i] IN IF AsShown(m) THEN m.shown.family ELSE m.family
LevelShown(i) == LET m == CatalogIds[i] IN LevelOf(IF m.shown.level # "none" THEN m.shown.level ELSE m.rest, 2)

\* Google's list has each model an account may chat with once, each family's
\* together, newest first, and of a version the most thinking first: as the
\* picker names them, which their ids may not say; and the picker's first
\* family leads.
ListRanked ==
    LET ids == listingNow.ids IN
    (listVendor = "google" /\ ids # <<>>) =>
        /\ IsInjective(ids)
        /\ \A i, j, k \in DOMAIN ids : i < j /\ j < k /\ FamilyShown(ids[i]) = FamilyShown(ids[k])
             => FamilyShown(ids[i]) = FamilyShown(ids[j])
        /\ \A i, j \in DOMAIN ids : (i < j /\ FamilyShown(ids[i]) = FamilyShown(ids[j])) =>
             /\ ~NewerVersion(VersionShown(ids[j]), VersionShown(ids[i]))
             /\ ((SameVersion(VersionShown(ids[j]), VersionShown(ids[i]))
                  /\ CatalogIds[ids[i]].rest # "preview" /\ CatalogIds[ids[j]].rest # "preview")
                 => LevelShown(ids[i]) <= LevelShown(ids[j]))
        /\ LET first == Head(listingNow.picker) IN
           first \in Range(ids) => FamilyShown(Head(ids)) = FamilyShown(first)

\* ChatGPT's list keeps the backend's ranking, and the order it said the
\* others in.
RankingKept ==
    LET ids == listingNow.ids IN
    listVendor = "openai" => \A i, j \in DOMAIN ids : i < j =>
        LET p == CatalogIds[ids[i]].priority
            q == CatalogIds[ids[j]].priority
            said(k) == CHOOSE n \in DOMAIN listingNow.of : listingNow.of[n] = k
        IN \/ p # 0 /\ (q = 0 \/ p < q)
           \/ p = q /\ said(ids[i]) < said(ids[j])

\* A test is passed exactly when the whole of a turn came back, of the model it
\* was asked about, or of one the account is offered; and of Flash, or Haiku,
\* where there is one.  A failure says what it was.
TestTellsTrue ==
    testNow.ran =>
        /\ testNow.ok <=> testNow.met = "whole"
        /\ testNow.ok <=> testNow.error = "none"
        /\ testNow.named # 0 => testNow.model = testNow.named
        /\ (testNow.named = 0 /\ testNow.ok) =>
             LET family == IF listVendor = "google" THEN "flash" ELSE "haiku"
                 kin == {i \in Range(testNow.of) : CatalogIds[i].family = family /\ CatalogIds[i].quota
                                                   /\ (listVendor = "google" => CatalogIds[i].gemini)}
             IN /\ testNow.model \in Range(testNow.of)
                /\ (listVendor # "openai" /\ kin # {}) =>
                     CatalogIds[testNow.model].family = family

VendorListsSound == ListRanked /\ RankingKept /\ TestTellsTrue
=============================================================================
