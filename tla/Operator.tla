------------------------------- MODULE Operator --------------------------------
(***************************************************************************)
(* The one admin account: first-run setup, signing in by password or by a  *)
(* single-use link, changing and deleting the password (store/admin.go,    *)
(* store/links.go, admin/operator.go, admin/sessions.go), and the commands *)
(* that do it from the shell.  Every derivation of a password queues for   *)
(* one of two places, so a handler acts long after what it read.           *)
(* Passwords are numbers, a new one each time.                             *)
(***************************************************************************)
EXTENDS Naturals, FiniteSets

CONSTANTS
    Browser,        \* calls of the admin surface under way at once
    Shell,          \* commands
    Places,         \* kdfGate's capacity
    LoginLink,      \* sign-in links that may be minted
    MaxPassword     \* bound: passwords ever chosen

ASSUME OnePlace == Places \in Nat \ {0} /\ Browser \cap Shell = {}

VARIABLES
    password,       \* admin.password_hash: the password's number, 0 for no row
    chosen,         \* passwords chosen so far
    loginLinks,     \* login_links: the live ones, and the lapsed
    sessions,       \* the server's sessions: the password each was let in under
    clerk,          \* each call or command: where it is and what it has read
    setups,         \* history: setups that succeeded since the account was last absent
    spent,          \* history: how often each link has signed someone in
    forced          \* history: passwords set over, or in place of, what the writer had read

operatorState == <<password, chosen, loginLinks, sessions, clerk, setups, spent, forced>>

Clerk == Browser \cup Shell
Free == [pc |-> "free", does |-> "none", read |-> 0, new |-> 0]

OperatorInit ==
    /\ password = 0 /\ chosen = 0
    /\ loginLinks = [l \in LoginLink |-> "unborn"] /\ sessions = {}
    /\ clerk = [h \in Clerk |-> Free]
    /\ setups = 0 /\ spent = [l \in LoginLink |-> 0] /\ forced = FALSE

Clerks(h, pc) == clerk[h].pc = pc
Walks(h, c) == clerk' = [clerk EXCEPT ![h] = c]
StepsTo(h, pc) == Walks(h, [clerk[h] EXCEPT !.pc = pc])
Goodbye(h) == Walks(h, Free)
account == <<password, chosen, loginLinks, setups, spent, forced>>

\* startSession.  One let in by a password that is not the account's any more
\* is kept as 0.
NewSession(with) == sessions' = sessions \cup {IF with = password THEN with ELSE 0}

---------------------------------------------------------------------------
\* handleAdminLogin, handleChangePassword and handleDeleteAdminAccount read the
\* hash first, and check what was typed against that; the last two are for a
\* session that is open (RequireAdmin).
AsksBy(h, does) ==
    /\ Clerks(h, "free") /\ h \in Browser /\ password # 0
    /\ does \in {"change", "delete"} => sessions # {}
    /\ Walks(h, [pc |-> "queue", does |-> does, read |-> password, new |-> 0])
    /\ UNCHANGED <<account, sessions>>

\* handleSetup: AdminExists before anything is derived.
AsksSetup(h) ==
    /\ Clerks(h, "free") /\ h \in Browser /\ password = 0
    /\ Walks(h, [Free EXCEPT !.pc = "choose", !.does = "setup"])
    /\ UNCHANGED <<account, sessions>>

\* cmdPasswd, with and without -if-unset.
cmdPasswd(h, ifUnset) ==
    /\ Clerks(h, "free") /\ h \in Shell
    /\ IF ifUnset /\ password # 0 THEN Goodbye(h)
       ELSE Walks(h, [Free EXCEPT !.pc = "choose", !.does = IF ifUnset THEN "unset" ELSE "passwd",
                                 !.read = password])
    /\ UNCHANGED <<account, sessions>>

\* The new password, which is long enough.
Choose(h) ==
    /\ Clerks(h, "choose")
    /\ \/ Goodbye(h) /\ UNCHANGED chosen                          \* too short, or not repeated
       \/ /\ chosen < MaxPassword /\ chosen' = chosen + 1
          /\ Walks(h, [clerk[h] EXCEPT !.pc = "queue", !.new = chosen + 1])
    /\ UNCHANGED <<password, loginLinks, setups, spent, forced, sessions>>

\* withKDF: one of the places, or the caller leaves.
Deriving == {h \in Clerk : Clerks(h, "derive")}
Queued(h) ==
    /\ Clerks(h, "queue")
    /\ \/ Cardinality(Deriving) < Places /\ StepsTo(h, "derive")
       \/ Goodbye(h)
    /\ UNCHANGED <<account, sessions>>

\* hashPassword, of the new; verifyPassword, of what was typed, against the
\* hash as it was read.
Derived(h) ==
    LET c == clerk[h]
    IN /\ Clerks(h, "derive")
       /\ \/ c.new # 0 /\ StepsTo(h, "write")
          \/ c.new = 0 /\ Goodbye(h)
          \/ c.new = 0 /\ StepsTo(h, CASE c.does = "login" -> "open" [] c.does = "change" -> "choose"
                                [] c.does = "delete" -> "drop")
       /\ UNCHANGED <<account, sessions>>

\* Mutant: the setup's password is written whatever the table holds.
InsertOver(h) ==
    /\ Clerks(h, "write") /\ clerk[h].does = "setup"
    /\ password' = clerk[h].new /\ setups' = setups + 1 /\ StepsTo(h, "open")
    /\ UNCHANGED <<chosen, loginLinks, spent, forced, sessions>>
\* CreateAdmin: INSERT OR IGNORE, so of two setups one is told.
Insert(h) ==
    /\ Clerks(h, "write") /\ clerk[h].does = "setup"
    /\ IF password # 0 THEN Goodbye(h) /\ UNCHANGED <<password, setups>>
       ELSE password' = clerk[h].new /\ setups' = setups + 1 /\ StepsTo(h, "open")
    /\ UNCHANGED <<chosen, loginLinks, spent, forced, sessions>>

\* SetAdminPassword: an upsert, over whatever the row holds by now.
SetPassword(h) ==
    /\ Clerks(h, "write") /\ clerk[h].does \in {"change", "passwd", "unset"}
    /\ password' = clerk[h].new
    /\ forced' = (forced \/ password # clerk[h].read \/ h \in Shell)
    /\ IF h \in Shell THEN Goodbye(h) ELSE StepsTo(h, "endAll")
    /\ UNCHANGED <<chosen, loginLinks, setups, spent, sessions>>

\* Mutant: the links outlive the account they were passes to.
DropRow(h) ==
    /\ Clerks(h, "drop") /\ password' = 0 /\ setups' = 0 /\ forced' = FALSE
    /\ loginLinks' = loginLinks /\ StepsTo(h, "endAll")
    /\ UNCHANGED <<chosen, spent, sessions>>
\* DeleteAdmin: the account and its links, in one transaction.
DeleteAdmin(h) ==
    /\ Clerks(h, "drop") /\ password' = 0 /\ setups' = 0 /\ forced' = FALSE
    /\ loginLinks' = [l \in LoginLink |-> IF loginLinks[l] = "unborn" THEN "unborn" ELSE "gone"]
    /\ StepsTo(h, "endAll")
    /\ UNCHANGED <<chosen, spent, sessions>>

\* Mutant: a change ends the sessions of a reset, not of a change.
EndReset(h) ==
    /\ Clerks(h, "endAll") /\ UNCHANGED account
    /\ IF clerk[h].does = "change" THEN StepsTo(h, "open") /\ UNCHANGED sessions
                                   ELSE Goodbye(h) /\ sessions' = {}
\* destroyAll; a change then opens its own.
EndAll(h) ==
    /\ Clerks(h, "endAll") /\ sessions' = {}
    /\ IF clerk[h].does = "change" THEN StepsTo(h, "open") ELSE Goodbye(h)
    /\ UNCHANGED account

OpensSession(h) ==
    /\ Clerks(h, "open") /\ Goodbye(h) /\ UNCHANGED account
    /\ NewSession(IF clerk[h].new # 0 THEN clerk[h].new ELSE clerk[h].read)

---------------------------------------------------------------------------
\* Links and sessions.

\* cmdLoginURL, MintLoginLink: of an account there is, then the row; the
\* lapsed ones go.
AskLink(h) ==
    /\ Clerks(h, "free") /\ h \in Shell /\ password # 0
    /\ Walks(h, [Free EXCEPT !.pc = "mint", !.read = password]) /\ UNCHANGED <<account, sessions>>

MintLoginLink(h) ==
    /\ Clerks(h, "mint") /\ Goodbye(h)
    /\ \E l \in LoginLink :
         /\ loginLinks[l] = "unborn"
         /\ loginLinks' = [k \in LoginLink |-> IF k = l THEN "live"
                             ELSE IF loginLinks[k] = "lapsed" THEN "gone" ELSE loginLinks[k]]
    /\ forced' = (forced \/ password # clerk[h].read)
    /\ UNCHANGED <<password, chosen, setups, spent, sessions>>

LinkLapses(l) ==
    /\ loginLinks[l] = "live" /\ loginLinks' = [loginLinks EXCEPT ![l] = "lapsed"]
    /\ UNCHANGED <<password, chosen, setups, spent, forced, sessions, clerk>>

\* Mutant of SpendLoginLink: read first, deleted by the next sweep.
SpendKept(h, l) ==
    /\ Clerks(h, "free") /\ h \in Browser /\ loginLinks[l] \in {"live", "lapsed"}
    /\ loginLinks' = loginLinks
    /\ IF loginLinks[l] = "live" THEN spent' = [spent EXCEPT ![l] = @ + 1] /\ NewSession(password)
                                 ELSE UNCHANGED <<spent, sessions>>
    /\ UNCHANGED <<password, chosen, setups, forced, clerk>>
\* TokenLogin: the redemption that deletes the row learns whether it had
\* lapsed, and opens the session.
SpendLoginLink(h, l) ==
    /\ Clerks(h, "free") /\ h \in Browser /\ loginLinks[l] \in {"live", "lapsed"}
    /\ loginLinks' = [loginLinks EXCEPT ![l] = "gone"]
    /\ IF loginLinks[l] = "live" THEN spent' = [spent EXCEPT ![l] = @ + 1] /\ NewSession(password)
                                 ELSE UNCHANGED <<spent, sessions>>
    /\ UNCHANGED <<password, chosen, setups, forced, clerk>>

\* handleAdminLogout, and its twelve hours being up.
SessionEnds ==
    /\ \E s \in sessions : sessions' = sessions \ {s}
    /\ UNCHANGED <<account, clerk>>

\* Sessions are only in memory; a call under way goes with the worker.
RestartsAdmin ==
    /\ sessions' = {}
    /\ clerk' = [h \in Clerk |-> IF h \in Browser THEN Free ELSE clerk[h]]
    /\ UNCHANGED account

OperatorNext ==
    \/ \E h \in Clerk :
         \/ \E does \in {"login", "change", "delete"} : AsksBy(h, does)
         \/ AsksSetup(h)
         \/ \E ifUnset \in BOOLEAN : cmdPasswd(h, ifUnset)
         \/ Choose(h) \/ Queued(h) \/ Derived(h) \/ Insert(h) \/ SetPassword(h)
         \/ DeleteAdmin(h) \/ EndAll(h) \/ OpensSession(h) \/ AskLink(h) \/ MintLoginLink(h)
         \/ \E l \in LoginLink : SpendLoginLink(h, l)
    \/ \E l \in LoginLink : LinkLapses(l)
    \/ SessionEnds \/ RestartsAdmin

OperatorSpec == OperatorInit /\ [][OperatorNext]_operatorState

---------------------------------------------------------------------------
\* Properties.

\* "the window closes the moment a password exists" (operator.go): between two
\* resets one setup claims the gateway, however many were under way, and the
\* password is that one's until someone who knew it, or the shell, changes it.
OneClaim == setups <= 1

\* "it works once, and never again" (links.go).
LinksSpentOnce == \A l \in LoginLink : spent[l] <= 1

\* "Both or neither" (DeleteAdmin): with no account there is no way past it,
\* but for a link that was being minted as it went.
NoWayPast == (password = 0 /\ ~forced) => \A l \in LoginLink : loginLinks[l] # "live"

\* "Ending them is the point of changing it" (handleChangePassword): once a
\* change or a reset is done, every session is of the password as it is, or
\* was let in before it; a shell's change ends none.
Ending == \E h \in Clerk : Clerks(h, "endAll")
SessionsAreCurrent ==
    (~Ending /\ ~forced) => sessions \subseteq {0, password}

\* "Two at a time" (kdfGate).
GateHolds == Cardinality(Deriving) <= Places

OperatorSound == OneClaim /\ LinksSpentOnce /\ NoWayPast /\ SessionsAreCurrent /\ GateHolds

=============================================================================
