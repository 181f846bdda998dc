------------------------------- MODULE Notices -------------------------------
(***************************************************************************)
(* What the Overview lists as wrong now (admin/notices.go): worked out of  *)
(* the state on every read, with the operator's read marks beside it       *)
(* (store/notices.go), which last as long as their problem.  The state     *)
(* itself, which the rest of the gateway keeps, changes freely here.       *)
(***************************************************************************)
EXTENDS Naturals, Sequences, SequencesExt, FiniteSets, FiniteSetsExt, TLC

CONSTANTS
    Paid,           \* the accounts, all of one provider
    Reading,        \* screens reading the notices
    StreakAt,       \* streakAt
    RateMin,        \* rateMin
    MaxTrouble,     \* bound: changes of the state
    RowsSeen        \* the client's requests of the last clientWindow, as they may be

VARIABLES
    trouble,    \* the state the notices are worked out of
    readMarks,      \* notices_read
    onPage,     \* by screen, the notices it has worked out, its marks yet to be set
    sinceMark       \* by notice: since its mark, whether it was gone since

noticesVars == <<trouble, readMarks, onPage, sinceMark>>

NearlyFull == 90
AtLimit == 99
Healthy == [off |-> FALSE, signin |-> "good", cooling |-> FALSE, full |-> 0, refused |-> FALSE,
            modelOff |-> FALSE]
NotReading == [list |-> <<>>, reads |-> FALSE]

NoticesInit ==
    /\ trouble = [serving |-> TRUE, account |-> [a \in Paid |-> Healthy],
                  rows |-> <<>>, spent |-> 0, dead |-> 0, happened |-> 0]
    /\ readMarks = {} /\ onPage = [r \in Reading |-> NotReading] /\ sinceMark = <<>>

---------------------------------------------------------------------------
\* The list.

Notice(id, severity) == [id |-> id, severity |-> severity]
When(condition, id, severity) == IF condition THEN <<Notice(id, severity)>> ELSE <<>>

\* The pool's Status: what an account is usable for.
UsableNow(a) == ~a.off /\ a.signin # "ended" /\ ~a.cooling /\ ~a.refused /\ a.full < AtLimit

\* Mutant: what else is wrong is not said of an account that must be signed in
\* again soon.
OneOnly(a, s) ==
    IF s.signin = "ended" THEN When(TRUE, <<"reauth", a>>, "error")
    ELSE IF s.signin = "soon" THEN When(TRUE, <<"reauth-soon", a>>, "warn")
    ELSE When(s.cooling, <<"cooling", a>>, "warn")
         \o When(s.full >= NearlyFull, <<"quota", a>>, IF s.full >= 100 THEN "error" ELSE "warn")
\* accountNotices, of an account that is on.
OfAccount(a, s) ==
    IF s.signin = "ended" THEN When(TRUE, <<"reauth", a>>, "error")
    ELSE When(s.signin = "soon", <<"reauth-soon", a>>, "warn")
         \o When(s.cooling, <<"cooling", a>>, "warn")
         \o When(s.full >= NearlyFull, <<"quota", a>>, IF s.full >= 100 THEN "error" ELSE "warn")

OnOnes(t) == SetToSeq({a \in Paid : ~t.account[a].off})

AccountNotices(t, ones) ==
    FlattenSeq([i \in DOMAIN ones |-> OfAccount(ones[i], t.account[ones[i]])])
    \o When(ones # <<>> /\ \A a \in Paid : ~UsableNow(t.account[a]), <<"no-account", "p">>, "error")

\* Mutant: a request that worked does not end the run of failures.
FailedOfAll(rows) == [streak |-> Len(SelectSeq(rows, LAMBDA r : r = "failed")), requests |-> Len(rows),
                      failures |-> Len(SelectSeq(rows, LAMBDA r : r = "failed"))]
\* ClientOutcomes, in order.
Outcome(rows) ==
    FoldLeft(LAMBDA o, r :
        IF r = "worked" THEN [o EXCEPT !.requests = @ + 1, !.streak = 0]
        ELSE [streak |-> o.streak + 1, requests |-> o.requests + 1, failures |-> o.failures + 1],
        [streak |-> 0, requests |-> 0, failures |-> 0], rows)

\* clientNotices.
ClientNotices(t) ==
    LET o == Outcome(t.rows)
    IN When(o.streak >= StreakAt \/ (o.requests >= RateMin /\ 2 * o.failures > o.requests),
            <<"client-failing", "c">>, "error")
       \o When(t.spent >= NearlyFull, <<"budget", "c">>, IF t.spent >= 100 THEN "error" ELSE "warn")
       \o When(t.dead > 0, <<"slots", "c">>, "warn")

AutoOff(t, ones) ==
    FlattenSeq([i \in DOMAIN ones |-> When(t.account[ones[i]].modelOff, <<"auto-off", ones[i]>>, "warn")])

Rank == "error" :> 0 @@ "warn" :> 1 @@ "info" :> 2
OfRank(list, r) == SelectSeq(list, LAMBDA n : Rank[n.severity] = r)

\* notices: sorted by severity, each as it was added.
NoticeList(t) ==
    LET ones == OnOnes(t)
        added == When(~t.serving, <<"gateway-off", "p">>, "error")
                 \o AccountNotices(t, ones) \o AutoOff(t, ones) \o ClientNotices(t)
    IN OfRank(added, 0) \o OfRank(added, 1) \o OfRank(added, 2)

Ids(list) == {n.id : n \in Range(list)}

---------------------------------------------------------------------------
\* The state changes.

Changes(t) ==
    /\ trouble.happened < MaxTrouble /\ trouble' = [t EXCEPT !.happened = @ + 1]
    \* What is not so any more is known to have been gone.
    /\ sinceMark' = [id \in DOMAIN sinceMark |-> [sinceMark[id] EXCEPT !.gone = @ \/ id \notin Ids(NoticeList(t))]]
    /\ UNCHANGED <<readMarks, onPage>>

SwitchServing == Changes([trouble EXCEPT !.serving = ~@])
AccountTrouble(a) ==
    \/ \E s \in {"good", "soon", "ended"} \ {trouble.account[a].signin} :
            Changes([trouble EXCEPT !.account[a].signin = s])
    \/ \E f \in {0, 90, 99, 100} \ {trouble.account[a].full} :
            Changes([trouble EXCEPT !.account[a].full = f])
    \/ Changes([trouble EXCEPT !.account[a].off = ~@])
    \/ Changes([trouble EXCEPT !.account[a].cooling = ~@])
    \/ Changes([trouble EXCEPT !.account[a].refused = ~@])
    \/ Changes([trouble EXCEPT !.account[a].modelOff = ~@])
ClientChanges ==
    \/ \E s \in {0, 90, 100} \ {trouble.spent} : Changes([trouble EXCEPT !.spent = s])
    \/ \E d \in {0, 2} \ {trouble.dead} : Changes([trouble EXCEPT !.dead = d])
    \/ \E rows \in RowsSeen \ {trouble.rows} : Changes([trouble EXCEPT !.rows = rows])

---------------------------------------------------------------------------
\* The page, and the marks.

\* handleNotices: what is wrong now.
WorkOut(r) ==
    /\ ~onPage[r].reads
    /\ onPage' = [onPage EXCEPT ![r] = [list |-> NoticeList(trouble), reads |-> TRUE]]
    /\ UNCHANGED <<trouble, readMarks, sinceMark>>

\* Mutant: no mark is forgotten.
ForgetNone(list) == readMarks
\* ForgetNoticesRead: the marks of those that are not on the list.
StillMarked(list) == readMarks \cap Ids(list)

\* withReadMarks.
WithReadMarks(r) ==
    /\ onPage[r].reads
    /\ readMarks' = StillMarked(onPage[r].list)
    /\ sinceMark' = [id \in DOMAIN sinceMark |->
                    [sinceMark[id] EXCEPT !.forgotten = @ \/ id \notin Ids(onPage[r].list)]]
    /\ onPage' = [onPage EXCEPT ![r] = NotReading]
    /\ UNCHANGED trouble

\* What is remembered of a mark at the start: its notice may be gone already, or
\* a screen is still to finish with a list without it.
MarkedNow(id) ==
    [gone |-> id \notin Ids(NoticeList(trouble))
              \/ \E r \in Reading : onPage[r].reads /\ id \notin Ids(onPage[r].list),
     forgotten |-> FALSE]
\* handleNoticesRead, of a notice some screen still shows.
MarkNotice(id) ==
    /\ readMarks' = readMarks \cup {id}
    /\ sinceMark' = [i \in DOMAIN sinceMark \cup {id} |->
                      IF i = id THEN MarkedNow(id) ELSE sinceMark[i]]
    /\ UNCHANGED <<trouble, onPage>>
UnmarkNotice(id) ==
    /\ id \in readMarks /\ readMarks' = readMarks \ {id}
    /\ sinceMark' = [i \in DOMAIN sinceMark \ {id} |-> sinceMark[i]]
    /\ UNCHANGED <<trouble, onPage>>

Markable == {<<"cooling", a>> : a \in Paid} \cup {<<"client-failing", "c">>}

NoticesNext ==
    \/ SwitchServing \/ ClientChanges
    \/ \E a \in Paid : AccountTrouble(a)
    \/ \E r \in Reading : WorkOut(r) \/ WithReadMarks(r)
    \/ \E id \in Markable : MarkNotice(id) \/ UnmarkNotice(id)

NoticesSpec == NoticesInit /\ [][NoticesNext]_noticesVars

---------------------------------------------------------------------------
Listing == NoticeList(trouble)

\* No trouble is silent: an account that is on and cannot serve has a notice of
\* its own, or was refused by its upstream without a full window, which only
\* shows once no account of its provider can serve; and then that is said, as
\* an error.
TroubleIsSaid ==
    /\ \A a \in Paid : LET s == trouble.account[a] IN
         ~s.off /\ ~UsableNow(s) =>
            (\E n \in Range(Listing) : n.id[1] \in {"reauth", "cooling", "quota"} /\ n.id[2] = a) \/ s.refused
    /\ (\E a \in Paid : ~trouble.account[a].off) /\ (\A a \in Paid : ~UsableNow(trouble.account[a])) =>
            \E n \in Range(Listing) : n = Notice(<<"no-account", "p">>, "error")

\* A gateway with nothing wrong has nothing listed: an account that is off is
\* no one's trouble, nor is a client whose last request worked and that failed
\* no more than it worked.
QuietIsEmpty ==
    /\ \A n \in Range(Listing) : n.id[2] \in Paid => ~trouble.account[n.id[2]].off
    /\ \A n \in Range(Listing) : n.id[1] = "client-failing" =>
         LET failed == {i \in DOMAIN trouble.rows : trouble.rows[i] = "failed"}
         IN \/ \A i \in Len(trouble.rows) - StreakAt + 1 .. Len(trouble.rows) : i \in failed
            \/ Cardinality(failed) > Cardinality(DOMAIN trouble.rows \ failed)

\* The worst first, each once.
WorstFirst ==
    /\ \A i, j \in DOMAIN Listing : i < j => Rank[Listing[i].severity] <= Rank[Listing[j].severity]
    /\ Cardinality(Ids(Listing)) = Len(Listing)

\* A notice marked read stays read while its problem lasts, however many
\* screens read the list meanwhile; and a list that was without it forgets the
\* mark, so that the problem is news when it comes back.
MarksFollow ==
    \A id \in DOMAIN sinceMark :
        /\ ~sinceMark[id].gone => id \in readMarks
        /\ sinceMark[id].forgotten => id \notin readMarks

NoticesSound == TroubleIsSaid /\ QuietIsEmpty /\ WorstFirst /\ MarksFollow
=============================================================================
