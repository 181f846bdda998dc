---------------------------- MODULE Subscriptions ----------------------------
(***************************************************************************)
(* What an account's subscription has left, as its vendor says it and the  *)
(* gateway keeps it: the windows of an answer's headers or of the usage    *)
(* endpoint (provider/*/usage.go, limits.go, quota.go), stored by their    *)
(* length (store.QuotaFromWindows), read by the pool as room and by the    *)
(* accounts screen as rows; and each client's share of it (keyshare.go).   *)
(* Hours are told by phases: an allowance is new, then half gone, then     *)
(* about to reset.                                                         *)
(***************************************************************************)
EXTENDS Integers, Sequences, SequencesExt, FiniteSets, FiniteSetsExt, TLC

CONSTANTS
    Subscribed,     \* the accounts
    VendorFor,      \* whose each is
    Allowances,     \* by account, its allowances: what draws on each, its line and length
    Spenders,       \* client keys
    MaxSpending     \* bound: changes of what is left

VARIABLES
    left,       \* by account, of each allowance: what is used, and how far its window is
    barred,     \* accounts their vendor refuses with no window full
    quotaKept,  \* account_quota
    toldOf,     \* by account, what was left when it was read
    weights,    \* by account, the weight each key sent it in its windows
    spendings   \* how often what is left changed

subscriptionVars == <<left, barred, quotaKept, toldOf, weights, spendings>>

FiveHours == 5
SevenDays == 168
Unread == [five |-> -1, seven |-> -1, fiveOpen |-> TRUE, sevenOpen |-> TRUE, detail |-> <<>>]
Untouched == [used |-> 0, phase |-> 1]

\* An account new, or used before the gateway knew it.
SubscriptionsInit ==
    /\ \E used \in {0, 60} :
         left = [a \in Subscribed |->
                    [i \in DOMAIN Allowances[a] |-> [Untouched EXCEPT !.used = used]]]
    /\ barred = {} /\ quotaKept = [a \in Subscribed |-> Unread] /\ toldOf = <<>>
    /\ weights = [a \in Subscribed |-> [k \in Spenders |-> 0]] /\ spendings = 0

---------------------------------------------------------------------------
\* The vendor.

\* Hours left of a window, by its phase; one not used yet is whole whenever it
\* is asked.
HoursLeft(length, is) ==
    IF is.used = 0 \/ is.phase = 1 THEN length ELSE IF is.phase = 2 THEN length \div 2 ELSE 3

SpendsMore == spendings < MaxSpending /\ spendings' = spendings + 1

SpendSome(a, i, k) ==
    /\ SpendsMore /\ left[a][i].used < 100
    /\ left' = [left EXCEPT ![a][i].used = IF @ = 0 THEN 60 ELSE 100]
    /\ weights' = [weights EXCEPT ![a][k] = IF @ = 0 THEN 1 ELSE 3]
    /\ UNCHANGED <<barred, quotaKept, toldOf>>
PassTime(a, i) ==
    /\ SpendsMore /\ left[a][i].used > 0
    /\ left' = [left EXCEPT ![a][i] = IF @.phase = 3 THEN Untouched ELSE [@ EXCEPT !.phase = @ + 1]]
    /\ UNCHANGED <<barred, quotaKept, toldOf, weights>>
BarOrNot(a) ==
    /\ SpendsMore /\ VendorFor[a] # "google"
    /\ barred' = IF a \in barred THEN barred \ {a} ELSE barred \cup {a}
    /\ UNCHANGED <<left, quotaKept, toldOf, weights>>

\* The vendor serves no one on the account: a window of the plan is full, or it
\* says so; Google's, every allowance the gateway draws on.
Plan(a) == {i \in DOMAIN Allowances[a] : Allowances[a][i].line = "plan"}
Drawn(a) == {i \in DOMAIN Allowances[a] : Allowances[a][i].line \notin {"plan", "claude", "extra"}}
ServesNoOne(a, used, bars) ==
    IF VendorFor[a] = "google" THEN \A i \in Drawn(a) : used[i].used = 100
    ELSE a \in bars \/ \E i \in Plan(a) : used[i].used = 100

---------------------------------------------------------------------------
\* What the gateway reads.

\* windowOf: the shortest length that holds what is left.
WindowOf(hours) == IF hours <= FiveHours THEN FiveHours ELSE SevenDays

\* The rows kept as the detail: Anthropic's limits array as it came, which says
\* itself which are active and not how long any is; of ChatGPT's windows, each
\* its own; of Google's models, each, the Claude ones left out.
RowsKept(a, marked) ==
    LET row(i) == [line |-> Allowances[a][i].line, used |-> left[a][i].used,
                   active |-> i \in marked,
                   length |-> CASE VendorFor[a] = "google" ->
                                     WindowOf(HoursLeft(Allowances[a][i].length, left[a][i]))
                                [] VendorFor[a] = "openai" -> Allowances[a][i].length
                                [] OTHER -> 0,
                   resets |-> IF left[a][i].used = 0 THEN 0
                              ELSE HoursLeft(Allowances[a][i].length, left[a][i])]
        of(i) == [n \in DOMAIN Allowances[a][i].names |-> row(i) @@ [name |-> Allowances[a][i].names[n]]]
        told == SelectSeq([i \in DOMAIN Allowances[a] |-> i], LAMBDA i : Allowances[a][i].line # "claude")
    IN FlattenSeq([j \in DOMAIN told |-> of(told[j])])

\* near: a tenth off is the same window.
About(length, wanted) ==
    LET off == IF length > wanted THEN length - wanted ELSE wanted - length
    IN off * 10 <= wanted

\* Mutant: the first window is the five-hour one, the second the weekly.
ByPosition(windows, limited) ==
    LET w(i) == IF i <= Len(windows) THEN windows[i] ELSE [used |-> -1, open |-> TRUE]
    IN [five |-> w(1).used, seven |-> w(2).used, fiveOpen |-> w(1).open /\ ~limited,
        sevenOpen |-> w(2).open /\ ~limited, detail |-> <<>>]
\* QuotaFromWindows: by length, and the full ones closed when the vendor serves
\* no one, both when none is full.
QuotaFromWindows(windows, limited) ==
    LET last(wanted) == LET is == SelectSeq(windows, LAMBDA w : About(w.length, wanted))
                        IN IF is = <<>> THEN [used |-> -1, open |-> TRUE] ELSE Last(is)
        five == last(FiveHours)
        seven == last(SevenDays)
        none == five.used < 100 /\ seven.used < 100
    IN [five |-> five.used, seven |-> seven.used,
        fiveOpen |-> five.open /\ ~(limited /\ (none \/ five.used >= 100)),
        sevenOpen |-> seven.open /\ ~(limited /\ (none \/ seven.used >= 100)),
        detail |-> <<>>]

\* The windows of the plan, for the columns; Google has none.
Windows(a) ==
    LET plan == SelectSeq([i \in DOMAIN Allowances[a] |-> i], LAMBDA i : i \in Plan(a))
    IN [j \in DOMAIN plan |->
         [length |-> Allowances[a][plan[j]].length, used |-> left[a][plan[j]].used,
          open |-> left[a][plan[j]].used < 100 /\ (VendorFor[a] = "anthropic" => a \notin barred)]]

\* Mutant: an account is limited as soon as one of its models is spent.
OneSpent(a) == \E i \in Drawn(a) : left[a][i].used = 100
\* quota: every row spent.
AllSpent(a) ==
    LET spent == {i \in DOMAIN Allowances[a] : Allowances[a][i].line # "claude"}
    IN spent # {} /\ \A i \in spent : left[a][i].used = 100

\* What each vendor's usage endpoint says besides the windows.
LimitedBy(a) ==
    CASE VendorFor[a] = "google" -> AllSpent(a)
      [] VendorFor[a] = "openai" -> ServesNoOne(a, left[a], barred)
      [] OTHER -> FALSE

\* What Anthropic marks as active: one row, whichever, which is its own affair.
Marks(a) == IF VendorFor[a] = "anthropic" THEN {{i} : i \in DOMAIN Allowances[a]} ELSE {{}}

\* FetchUsage, kept.
ReadUsage(a) ==
    /\ \E marked \in Marks(a) :
         /\ quotaKept' = [quotaKept EXCEPT ![a] =
               [QuotaFromWindows(Windows(a), LimitedBy(a)) EXCEPT !.detail = RowsKept(a, marked)]]
         /\ toldOf' = (a :> [left |-> left[a], barred |-> barred, marked |-> marked]) @@ toldOf
    /\ UNCHANGED <<left, barred, weights, spendings>>

\* quotaFromHeaders, of an answer: the plan's windows alone, and the limit
\* reached, if one was.
ReadHeaders(a) ==
    /\ VendorFor[a] = "openai"
    /\ quotaKept' = [quotaKept EXCEPT ![a] =
          [QuotaFromWindows(Windows(a), ServesNoOne(a, left[a], barred)) EXCEPT
             !.detail = SelectSeq(RowsKept(a, {}), LAMBDA r : r.line = "plan")]]
    /\ toldOf' = (a :> [left |-> left[a], barred |-> barred, marked |-> {}]) @@ toldOf
    /\ UNCHANGED <<left, barred, weights, spendings>>

SubscriptionsNext ==
    \E a \in Subscribed :
        \/ ReadUsage(a) \/ ReadHeaders(a) \/ BarOrNot(a)
        \/ \E i \in DOMAIN Allowances[a] : PassTime(a, i) \/ \E k \in Spenders : SpendSome(a, i, k)

---------------------------------------------------------------------------
\* What is read of it.

\* The pool's: closed, or known and at its limit.
NoRoom(q) == ~q.fiveOpen \/ ~q.sevenOpen \/ (Max({q.five, q.seven}) >= 99)

\* Mutant: the models of a line are one row.
FoldLines(r, s) == r.line = s.line
\* Rows that draw on one allowance are one row of the screen: of a line, and
\* alike in use, reset and length.
FoldsWith(r, s) == r.line = s.line /\ r.used = s.used /\ r.resets = s.resets /\ r.length = s.length

\* limitRows of Anthropic's: what the array says.
ArrayRows(rows) ==
    [i \in DOMAIN rows |-> [names |-> {rows[i].name}, percent |-> rows[i].used, length |-> rows[i].length,
                            resets |-> rows[i].resets, active |-> rows[i].active]]
\* limitRows of the others': folded for Google, and the fullest is the one that
\* binds.
WorkedRows(a) ==
    LET rows == quotaKept[a].detail
        firsts == IF VendorFor[a] # "google" THEN [i \in DOMAIN rows |-> i]
                  ELSE SelectSeq([i \in DOMAIN rows |-> i],
                         LAMBDA i : \A j \in 1 .. i - 1 : ~FoldsWith(rows[j], rows[i]))
        fullest == {i \in DOMAIN firsts :
                       /\ rows[firsts[i]].used > 0
                       /\ \A j \in DOMAIN firsts : rows[firsts[j]].used <= rows[firsts[i]].used}
        names(f) == IF VendorFor[a] # "google" THEN {rows[f].name}
                    ELSE {rows[j].name : j \in {k \in DOMAIN rows : FoldsWith(rows[f], rows[k])}}
    IN [i \in DOMAIN firsts |->
          [names |-> names(firsts[i]), percent |-> rows[firsts[i]].used, length |-> rows[firsts[i]].length,
           resets |-> rows[firsts[i]].resets, active |-> fullest # {} /\ i = Min(fullest)]]
LimitRows(a) == IF VendorFor[a] = "anthropic" THEN ArrayRows(quotaKept[a].detail) ELSE WorkedRows(a)

\* fraction, and shareOf: in eighths of a point, as weights are by fours.
WeightOf(a) == MapThenSumSet(LAMBDA k : weights[a][k], Spenders)
Points(a, k, used) == IF WeightOf(a) = 0 THEN 0 ELSE (24 * weights[a][k] * Max({used, 0})) \div WeightOf(a)
KnownOnes == {a \in Subscribed : quotaKept[a].five >= 0 \/ quotaKept[a].seven >= 0}
PointsOf(k, vendors) ==
    MapThenSumSet(LAMBDA a : Points(a, k, quotaKept[a].five), {a \in KnownOnes : VendorFor[a] \in vendors})
ShareOfPool(k, vendors) ==
    LET accounts == Cardinality({a \in KnownOnes : VendorFor[a] \in vendors})
    IN IF accounts = 0 THEN 0 ELSE PointsOf(k, vendors) \div accounts

---------------------------------------------------------------------------
Told == DOMAIN toldOf
UsedIn(a, name) ==
    LET i == CHOOSE j \in DOMAIN Allowances[a] : name \in Range(Allowances[a][j].names)
    IN toldOf[a].left[i]
LengthOf(a, name) ==
    LET i == CHOOSE j \in DOMAIN Allowances[a] : name \in Range(Allowances[a][j].names)
    IN Allowances[a][i].length

\* An account is out of room exactly when its vendor, as it was last read,
\* serves no one on it, whichever road the figures came by and whatever the
\* lengths of its windows: a plan that reports others, one window about to be
\* a week, a spent allowance beside one that is not, or a refusal with no
\* window full.
RoomAsTold ==
    \A a \in Told : NoRoom(quotaKept[a]) <=> ServesNoOne(a, toldOf[a].left, toldOf[a].barred)

\* Every window, and every model's allowance, is in one row of the screen, with
\* its own use; where the gateway works out which row binds, at most one does,
\* and none is fuller; and Anthropic's are those Anthropic marked.
RowsTell ==
    \A a \in Told :
        LET rows == LimitRows(a) IN
        /\ \A r \in Range(rows), n \in UNION {s.names : s \in Range(rows)} :
             n \in r.names => /\ r.percent = UsedIn(a, n).used
                              /\ r.resets > 0 <=> UsedIn(a, n).used > 0
        /\ \A i, j \in DOMAIN rows : i # j => rows[i].names \cap rows[j].names = {}
        /\ IF VendorFor[a] = "anthropic"
           THEN {n \in UNION {r.names : r \in Range(rows)} : \E r \in Range(rows) : r.active /\ n \in r.names}
                    = UNION {Range(Allowances[a][i].names) : i \in toldOf[a].marked}
           ELSE /\ Cardinality({i \in DOMAIN rows : rows[i].active}) <= 1
                /\ \A i, j \in DOMAIN rows : rows[i].active => rows[j].percent <= rows[i].percent

\* A length read off a reset is no shorter than what is left, and is the
\* allowance's own until it is about to reset; ChatGPT's come with theirs, and
\* Anthropic's rows say none.
LengthsHold ==
    \A a \in {t \in Told : VendorFor[t] # "anthropic"} : \A r \in Range(LimitRows(a)) : \A n \in r.names :
        /\ VendorFor[a] = "google" => r.length >= HoursLeft(LengthOf(a, n), UsedIn(a, n))
        /\ UsedIn(a, n).phase < 3 => r.length = LengthOf(a, n)

\* The figure kept as the five-hour window's, which the pool waits on and the
\* shares are of, is that of a window of about five hours, and the weekly one's
\* of about a week, in whatever order the vendor named them; a window it does
\* not have is unknown, which is not idle.
FiguresInPlace ==
    \A a \in Told :
        LET usedOf(wanted) == {toldOf[a].left[i].used : i \in {j \in Plan(a) :
                                  10 * Allowances[a][j].length \in 9 * wanted .. 11 * wanted}}
        IN /\ IF usedOf(5) = {} THEN quotaKept[a].five = -1 ELSE quotaKept[a].five \in usedOf(5)
           /\ IF usedOf(168) = {} THEN quotaKept[a].seven = -1 ELSE quotaKept[a].seven \in usedOf(168)

\* The clients' shares of a subscription are all of it: of an account with any
\* traffic they add up to what it used, and of a vendor's pool to the mean.
SharesAddUp ==
    \A vendors \in {{"anthropic"}, {"openai"}, {"anthropic", "openai"}} :
        LET of == {a \in KnownOnes : VendorFor[a] \in vendors}
            used == MapThenSumSet(LAMBDA a : IF WeightOf(a) = 0 THEN 0 ELSE 24 * Max({quotaKept[a].five, 0}), of)
        IN of # {} => MapThenSumSet(LAMBDA k : ShareOfPool(k, vendors), Spenders) = used \div Cardinality(of)

SubscriptionsSound == RoomAsTold /\ RowsTell /\ LengthsHold /\ FiguresInPlace /\ SharesAddUp
=============================================================================
