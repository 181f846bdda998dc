-------------------------------- MODULE SignIn --------------------------------
(***************************************************************************)
(* Connecting an account: sign-ins started, approved by whoever the        *)
(* browser is signed in as, redeemed by a pasted code or a device code     *)
(* asked about, and stored as a new account or the renewal of one          *)
(* (oauth/pending.go, oauth.go; httpapi/admin/oauth.go; store/accounts.go; *)
(* each provider's oauth.go and accounts.go, openai/device.go).            *)
(***************************************************************************)
EXTENDS Naturals, FiniteSets, Sequences

CONSTANTS
    Setting,        \* providers and who signs in: [id, device, address, answers, rows]
    Tab,            \* screens a sign-in is completed from
    MaxSignIns      \* bound: sign-ins started

\* Whom a row of the store is of, as it names them: by the provider's id, or, if
\* it is older than that was kept, by an address only they answer with; by the
\* address alone where the id is a project's.
NamesOwner(v, stored) ==
    LET said == v.answers
        who == stored.owner
    IN IF v.address THEN stored.email = said[who].email
       ELSE \/ stored.uuid = said[who].uuid
            \/ stored.uuid = "" /\ \A p \in DOMAIN said : said[p].email = stored.email <=> p = who

\* A provider tells the people who sign in apart, by its id of them or by their
\* address; and the store has a row of each at most.
ASSUME PeopleAreTold ==
    \A v \in Setting :
        LET Named(p) == IF v.address THEN v.answers[p].email ELSE v.answers[p].uuid
        IN  /\ v.answers \in [DOMAIN v.answers -> [email : STRING, uuid : STRING]]
            /\ \A p, q \in DOMAIN v.answers : Named(p) # "" /\ (Named(p) = Named(q) => p = q)
            /\ \A stored \in v.rows :
                 /\ stored \in Seq([owner : DOMAIN v.answers, email : STRING, uuid : STRING])
                 /\ \A i, j \in DOMAIN stored :
                      NamesOwner(v, stored[i]) /\ (stored[i].owner = stored[j].owner => i = j)

VARIABLES
    vendor,         \* the provider signed in at, one of Setting
    flows,          \* Pending.flows: [account, expired] of each attempt
    codes,          \* the provider's codes, one an attempt: who approved it, and if it is spent
    accounts,       \* accounts: [email, uuid, grant], whose it was as it was added, and
                    \* if the sign-in that added it could look for one of theirs
    grants,         \* grants the provider has given: who to, and if it still stands
    tabs,           \* the handler each tab has running
    leaving,        \* a deletion under way: the row, and the grant it gave back
    astray          \* grants lost by a fault: an answer, a write or a process that was lost

signInVars == <<vendor, flows, codes, accounts, grants, tabs, leaving, astray>>

Nobody == "nobody"
NoRow == 0
FreeTab == [pc |-> "free"]
Standing(g) == grants[g].stands

\* A row of the store before any of this: who it is of, and what it knows of
\* them.
SignInInit ==
    /\ vendor \in Setting
    /\ flows = <<>> /\ codes = <<>>
    /\ \E stored \in vendor.rows :
         /\ accounts = [i \in DOMAIN stored |->
                [email |-> stored[i].email, uuid |-> stored[i].uuid, owner |-> stored[i].owner,
                 grant |-> i, had |-> {}, there |-> TRUE, looked |-> TRUE]]
         /\ grants = [i \in DOMAIN stored |-> [to |-> stored[i].owner, stands |-> TRUE]]
    /\ tabs = [t \in Tab |-> FreeTab] /\ leaving = FreeTab /\ astray = {}

Stored == {r \in DOMAIN accounts : accounts[r].there}

---------------------------------------------------------------------------
\* Starting and approving.

\* StartFor: what is kept of an attempt.
NewFlow(account) == [account |-> account, pending |-> TRUE]
\* StartDevice: a code nobody has approved.
NewCode == [by |-> Nobody, spent |-> FALSE, handed |-> FALSE]
\* handleOAuthStart, startDevice: the attempt keeps which account it renews,
\* none for one that adds whichever is approved.
StartSignIn(account) ==
    /\ Len(codes) < MaxSignIns /\ account \in Stored \cup {NoRow}
    /\ flows' = Append(flows, NewFlow(account))
    /\ codes' = Append(codes, NewCode)
    /\ UNCHANGED <<vendor, accounts, grants, tabs, leaving, astray>>

\* The operator approves it at the provider, as whom the browser is signed in.
Approve(n, who) ==
    /\ codes[n].by = Nobody
    /\ codes' = [codes EXCEPT ![n].by = who]
    /\ UNCHANGED <<vendor, flows, accounts, grants, tabs, leaving, astray>>

\* evictLocked, once its time is up, and Consume.
Dropped(n) == [flows EXCEPT ![n].pending = FALSE]
Evict(n) ==
    /\ flows[n].pending /\ flows' = Dropped(n)
    /\ UNCHANGED <<vendor, codes, accounts, grants, tabs, leaving, astray>>

---------------------------------------------------------------------------
\* Redeeming what was approved.

\* ParseCallback: what is pasted may be another attempt's code, if it says no
\* state; nothing is pasted for a device's.
Pastes(n) == IF vendor.device THEN {n} ELSE {m \in DOMAIN codes : codes[m].by # Nobody}
\* handleOAuthComplete, handleOAuthPoll: the attempt of the state the tab kept,
\* Peeked at and left.
Redeem(t, n, pasted) ==
    /\ tabs[t].pc = "free" /\ flows[n].pending
    /\ pasted \in Pastes(n)
    /\ tabs' = [tabs EXCEPT ![t] = [pc |-> "redeeming", n |-> n, pasted |-> pasted,
                                    account |-> flows[n].account]]
    /\ UNCHANGED <<vendor, flows, codes, accounts, grants, leaving, astray>>

GotGrant(t, grant) ==
    tabs' = [tabs EXCEPT ![t] = [pc |-> "consented", n |-> @.n, account |-> @.account, grant |-> grant]]
TurnedAway(t) == tabs' = [tabs EXCEPT ![t] = FreeTab]
NextGrant == Len(grants) + 1
Given(who, stands) == grants' = Append(grants, [to |-> who, stands |-> stands])

\* The provider takes a code once, and with the verifier of its own attempt.
Redeemable(t) ==
    LET c == codes[tabs[t].pasted]
    IN tabs[t].pasted = tabs[t].n /\ c.by # Nobody /\ ~c.spent

\* abandon: the grant of a sign-in that came to nothing.
Abandon(t) == Given(codes[tabs[t].n].by, FALSE)
\* setup, fetchEmail: Google's exchange has two more questions to ask with the
\* tokens, and hands the grant back if one of them fails.
Unfinished(t) == vendor.address /\ TurnedAway(t) /\ Abandon(t)
\* Exchange of a pasted code: the tokens, or a failure that leaves the attempt
\* to be tried again, whatever became of its answer.
ExchangeCode(t) ==
    /\ ~vendor.device /\ tabs[t].pc = "redeeming"
    /\ \/ ~Redeemable(t) /\ TurnedAway(t) /\ UNCHANGED <<codes, grants, astray>>
       \/ /\ Redeemable(t) /\ codes' = [codes EXCEPT ![tabs[t].n].spent = TRUE]
          /\ \/ GotGrant(t, NextGrant) /\ Given(codes[tabs[t].n].by, TRUE) /\ UNCHANGED astray
             \/ Unfinished(t) /\ UNCHANGED astray
             \/ TurnedAway(t) /\ Given(codes[tabs[t].n].by, TRUE) /\ astray' = astray \cup {NextGrant}
    /\ UNCHANGED <<vendor, flows, accounts, leaving>>

\* Mutant of PollDevice: an exchange that failed leaves the attempt.
PollDeviceAgain(t) ==
    /\ vendor.device /\ tabs[t].pc = "redeeming"
    /\ IF ~Redeemable(t) THEN TurnedAway(t) /\ UNCHANGED <<flows, codes, grants, astray>>
       ELSE /\ codes' = [codes EXCEPT ![tabs[t].n].spent = TRUE, ![tabs[t].n].handed = TRUE]
            /\ \/ GotGrant(t, NextGrant) /\ Given(codes[tabs[t].n].by, TRUE) /\ UNCHANGED <<flows, astray>>
               \/ TurnedAway(t) /\ UNCHANGED <<flows, grants, astray>>
    /\ UNCHANGED <<vendor, accounts, leaving>>
\* PollDevice: not approved, or handed over already, which is answered alike;
\* or the code handed over, and then the exchange, whose failure ends the
\* attempt (ErrDeviceSpent); or no answer, the approval kept or lost with it.
PollDevice(t) ==
    /\ vendor.device /\ tabs[t].pc = "redeeming"
    /\ \/ ~Redeemable(t) /\ TurnedAway(t) /\ UNCHANGED <<flows, codes, grants, astray>>
       \/ /\ Redeemable(t) /\ codes' = [codes EXCEPT ![tabs[t].n].spent = TRUE, ![tabs[t].n].handed = TRUE]
          /\ \/ GotGrant(t, NextGrant) /\ Given(codes[tabs[t].n].by, TRUE) /\ UNCHANGED <<flows, astray>>
             \/ TurnedAway(t) /\ flows' = Dropped(tabs[t].n) /\ UNCHANGED <<grants, astray>>
             \/ /\ TurnedAway(t) /\ flows' = Dropped(tabs[t].n) /\ Given(codes[tabs[t].n].by, TRUE)
                /\ astray' = astray \cup {NextGrant}
       \/ /\ Redeemable(t) /\ TurnedAway(t) /\ UNCHANGED <<flows, grants, astray>>
          /\ codes' \in {codes, [codes EXCEPT ![tabs[t].n].spent = TRUE]}
    /\ UNCHANGED <<vendor, accounts, leaving>>

---------------------------------------------------------------------------
\* storeConsent.

\* What the exchange said of who approved; Google's id is a project's, and says
\* nothing of who it is (identity).
SaidOf(g) == vendor.answers[grants[g].to]
Identity(g) == IF vendor.address THEN "" ELSE SaidOf(g).uuid

\* Mutant of sameAccount: the address is enough.
sameAddress(r, g) == accounts[r].email = SaidOf(g).email
\* sameAccount: by the provider's id where both have one, by address otherwise.
sameAccount(r, g) ==
    IF accounts[r].uuid # "" /\ Identity(g) # "" THEN accounts[r].uuid = Identity(g)
    ELSE SaidOf(g).email # "" /\ accounts[r].email = SaidOf(g).email

\* Mutant of ByIdentity: an account from before ids were kept is not found.
ByIdAlone(g) == {r \in Stored : accounts[r].uuid = SaidOf(g).uuid}
\* AccountByIdentity: by id; else, of the accounts without one, by address; by
\* address alone where there is no id.
ByIdentity(g) ==
    LET known == {r \in Stored : accounts[r].uuid = Identity(g)}
        unnamed == {r \in Stored : accounts[r].uuid = "" /\ accounts[r].email = SaidOf(g).email}
    IN IF Identity(g) = "" THEN {r \in Stored : accounts[r].email = SaidOf(g).email}
       ELSE IF known # {} THEN known ELSE unnamed
FirstOf(rs) == IF rs = {} THEN NoRow ELSE CHOOSE r \in rs : \A s \in rs : r <= s

\* The store fails: the grant is in no row, and is not handed back.
StoreFails(t) == TurnedAway(t) /\ astray' = astray \cup {tabs[t].grant}

\* Consume, and which stored account, if any, these tokens renew.  A failure to
\* read the one that reconnects ends it; a failure to look for one is taken for
\* there being none.
Consented(t) ==
    LET c == tabs[t]
        reconnect == c.account # NoRow
        target == IF reconnect THEN c.account ELSE FirstOf(ByIdentity(c.grant))
        wrong == reconnect /\ (c.account \notin Stored \/ ~sameAccount(c.account, c.grant))
    IN /\ c.pc = "consented"
       /\ flows' = Dropped(c.n)
       /\ \/ tabs' = [tabs EXCEPT ![t] = [pc |-> IF wrong THEN "handing back" ELSE "storing",
                                          grant |-> c.grant, target |-> target, looked |-> TRUE]]
             /\ UNCHANGED astray
          \/ reconnect /\ StoreFails(t)
          \/ ~reconnect /\ UNCHANGED astray
             /\ tabs' = [tabs EXCEPT ![t] = [pc |-> "storing", grant |-> c.grant, target |-> NoRow,
                                             looked |-> FALSE]]
       /\ UNCHANGED <<vendor, codes, accounts, grants, leaving>>

\* Revoke: the provider takes the grant back, or could not be reached.
Revoke(g) ==
    \/ grants' = [grants EXCEPT ![g].stands = FALSE] /\ UNCHANGED astray
    \/ astray' = astray \cup {g} /\ UNCHANGED grants
\* Mutant of HandBack: the grant is dropped, and stands.
HandBackNot(t) ==
    /\ tabs[t].pc = "handing back" /\ TurnedAway(t)
    /\ UNCHANGED <<vendor, flows, codes, accounts, grants, leaving, astray>>
\* handBack: best effort.
HandBack(t) ==
    /\ tabs[t].pc = "handing back" /\ TurnedAway(t) /\ Revoke(tabs[t].grant)
    /\ UNCHANGED <<vendor, flows, codes, accounts, leaving>>

\* New tokens in place of a row's own, whose grant stays with the provider.
Regranted(was, g) == [was EXCEPT !.grant = g, !.had = @ \cup {was.grant}]
\* The row as its renewal or its conflict leaves it, and the address a sign-in
\* without one is stored under.
EmailOf(g) == IF SaidOf(g).email = "" THEN "unknown@" ELSE SaidOf(g).email
UuidAfter(r, g) == IF SaidOf(g).uuid # "" THEN SaidOf(g).uuid ELSE accounts[r].uuid
Clashing(r, g) ==
    \E s \in Stored \ {r} : accounts[s].email = EmailOf(g) /\ accounts[s].uuid = UuidAfter(r, g)

\* RenewAccount: the row of that id, if it is still there and no other has the
\* identity it would take; else nothing, and the grant is kept by nobody.
RenewAccount(t) ==
    LET c == tabs[t]
    IN /\ c.pc = "storing" /\ c.target # NoRow
       /\ IF c.target \in Stored /\ ~Clashing(c.target, c.grant)
          THEN /\ accounts' = [accounts EXCEPT ![c.target] =
                    [Regranted(@, c.grant) EXCEPT
                        !.email = EmailOf(c.grant),
                        !.uuid = UuidAfter(c.target, c.grant)]]
               /\ UNCHANGED astray
          ELSE astray' = astray \cup {c.grant} /\ UNCHANGED accounts
       /\ TurnedAway(t)
       /\ UNCHANGED <<vendor, flows, codes, grants, leaving>>

NewAccount(g, looked) == [email |-> EmailOf(g), uuid |-> SaidOf(g).uuid, owner |-> grants[g].to,
                          grant |-> g, had |-> {}, there |-> TRUE, looked |-> looked]
\* UpsertAccount: a new row, or the tokens of the one that has the same
\* provider, address and id by now.
UpsertAccount(t) ==
    LET g == tabs[t].grant
        same == {r \in Stored : accounts[r].email = EmailOf(g) /\ accounts[r].uuid = SaidOf(g).uuid}
    IN /\ tabs[t].pc = "storing" /\ tabs[t].target = NoRow
       /\ accounts' = IF same = {} THEN Append(accounts, NewAccount(g, tabs[t].looked))
                     ELSE [r \in DOMAIN accounts |-> IF r \in same THEN Regranted(accounts[r], g)
                                                     ELSE accounts[r]]
       /\ TurnedAway(t)
       /\ UNCHANGED <<vendor, flows, codes, grants, leaving, astray>>

\* The write of either fails.
NotStored(t) ==
    /\ tabs[t].pc = "storing" /\ StoreFails(t)
    /\ UNCHANGED <<vendor, flows, codes, accounts, grants, leaving>>

---------------------------------------------------------------------------
\* Deleting an account meanwhile, and a restart.

\* handleDeleteAccount: the grant the row has is handed back, best effort...
GiveUp(r) ==
    /\ leaving.pc = "free" /\ r \in Stored
    /\ leaving' = [pc |-> "deleting", row |-> r]
    /\ Revoke(accounts[r].grant)
    /\ UNCHANGED <<vendor, flows, codes, accounts, tabs>>
\* ... and then the row goes, with whatever grant it has by now.
DeleteAccount ==
    /\ leaving.pc = "deleting" /\ leaving' = [pc |-> "deleted"]
    /\ accounts' = [accounts EXCEPT ![leaving.row].there = FALSE]
    /\ UNCHANGED <<vendor, flows, codes, grants, tabs, astray>>

\* A restart: attempts live in memory only, and a handler dies where it is.
ProcessEnds ==
    /\ flows' = [n \in DOMAIN flows |-> [flows[n] EXCEPT !.pending = FALSE]]
    /\ tabs' = [t \in Tab |-> FreeTab]
    /\ astray' = astray \cup {tabs[t].grant : t \in {u \in Tab : "grant" \in DOMAIN tabs[u]}}
    /\ leaving' = IF leaving.pc = "deleting" THEN [pc |-> "deleted"] ELSE leaving
    /\ UNCHANGED <<vendor, codes, accounts, grants>>

SignInNext ==
    \/ \E account \in Stored \cup {NoRow} : StartSignIn(account)
    \/ \E n \in DOMAIN codes : (\E who \in DOMAIN vendor.answers : Approve(n, who)) \/ Evict(n)
    \/ \E t \in Tab :
         \/ \E n, pasted \in DOMAIN codes : Redeem(t, n, pasted)
         \/ ExchangeCode(t) \/ PollDevice(t) \/ Consented(t) \/ HandBack(t)
         \/ RenewAccount(t) \/ UpsertAccount(t) \/ NotStored(t)
    \/ (\E r \in Stored : GiveUp(r)) \/ DeleteAccount \/ ProcessEnds

SignInSpec == SignInInit /\ [][SignInNext]_signInVars

---------------------------------------------------------------------------
\* Properties.

\* "Put one person's subscription behind another's name" (handleOAuthComplete):
\* the grant of a row is of whoever it was added for, whatever was reconnected,
\* pasted, approved as someone else or renamed meanwhile.
NoStranger == \A r \in Stored : grants[accounts[r].grant].to = accounts[r].owner

\* "It still must not create a second row": two sign-ins of one account at once
\* are one row; but for the row of a sign-in that could not look for one, which
\* storeConsent adds beside it.
OneRowEach ==
    \A r, s \in Stored :
        accounts[r].owner = accounts[s].owner /\ accounts[r].looked /\ accounts[s].looked => r = s

\* Every grant that stands is a row's or was a deleted row's, a handler's, one a
\* renewal replaced, or one a fault lost: none that was refused is kept.
Replaced == UNION {accounts[r].had : r \in DOMAIN accounts}
Held == {accounts[r].grant : r \in DOMAIN accounts}
            \cup {tabs[t].grant : t \in {u \in Tab : "grant" \in DOMAIN tabs[u]}}
NothingDangles ==
    \A g \in DOMAIN grants : Standing(g) => g \in Held \cup astray \cup Replaced

\* A device's attempt whose code was handed over is not asked about again
\* unless a handler still has it in hand: "asking again cannot finish it".
DeviceEnds ==
    vendor.device => \A n \in DOMAIN codes :
        codes[n].handed /\ flows[n].pending =>
            \E t \in Tab : tabs[t].pc \in {"redeeming", "consented"} /\ tabs[t].n = n

SignInSound == NoStranger /\ OneRowEach /\ NothingDangles /\ DeviceEnds
=============================================================================
