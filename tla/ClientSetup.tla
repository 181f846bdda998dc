---------------------------- MODULE ClientSetup -----------------------------
(***************************************************************************)
(* Setting up one client: its key (store/keys.go), whether it is set up    *)
(* (clients.configured_at, lastUse), and the one-time links its page and   *)
(* its agent make (service/install).  An operator shows the key, makes     *)
(* links, regenerates the key or deletes it, while commands are run and    *)
(* requests come in; every handler does several steps, on the database and *)
(* in memory.  Secrets are numbers, a new one each time; a link's files    *)
(* are the secret they carry, 0 for an update's.                           *)
(***************************************************************************)
EXTENDS Naturals, FiniteSets

CONSTANTS
    Handler,        \* what may be under way at once
    MaxSecret,      \* bound: secrets the key has had
    MaxAgentLinks   \* maxAgentLinks

ASSUME SomeLinks == MaxSecret \in Nat \ {0} /\ MaxAgentLinks \in Nat

VARIABLES
    secret,         \* api_keys: the secret that authenticates; 0 once deleted
    configured,     \* clients.configured_at is set
    based,          \* clients.base is known
    lately,         \* keysUsed: its use was written within the minute
    links,          \* Links.byClient, by kind
    agentLinks,     \* Links.byAgent: those still waiting
    holders,        \* the secrets machines and operators have been given
    does,           \* each handler: where it is, and the secret it has in hand
    brought,        \* history: a command brought this secret, or a request came with it
    servedSince,    \* history: a request with it has ended
    lost            \* history: writes that failed, and changes of the key that
                    \*   caught a handler with the old secret in hand

setupVars == <<secret, configured, based, lately, links, agentLinks, holders, does,
               brought, servedSince, lost>>
linkVars  == <<links, agentLinks>>
histories == <<brought, servedSince, lost>>

NoLink  == [is |-> "none", carries |-> 0]
NoLinks == [install |-> NoLink, update |-> NoLink]
OffDuty     == [pc |-> "off", with |-> 0]

\* CreateClient: the key's plaintext is answered once.
SetupInit ==
    /\ secret = 1 /\ configured = FALSE /\ based = FALSE /\ lately = FALSE
    /\ links = NoLinks /\ agentLinks = 0 /\ holders = {1}
    /\ does = [h \in Handler |-> OffDuty]
    /\ brought = FALSE /\ servedSince = FALSE /\ lost = {}

HandlerAt(h, pc, s) == does' = [does EXCEPT ![h] = [pc |-> pc, with |-> s]]
HandlerEnds(h)        == does' = [does EXCEPT ![h] = OffDuty]
AtStep(h, pc)      == does[h].pc = pc

\* sweep, first thing in every call of Links: an expired link holds no files.
Swept == [k \in DOMAIN links |->
            IF links[k].is = "expired" THEN [links[k] EXCEPT !.carries = 0] ELSE links[k]]

----------------------------------------------------------------------------
(* The page: the key and its install command *)

\* refuseConfigured: offered until the key is first used.
AskKey(h, what) ==
    /\ AtStep(h, "off") /\ ~configured /\ HandlerAt(h, what, 0)
    /\ UNCHANGED <<secret, configured, based, lately, linkVars, holders, histories>>

\* handleKeySecret: KeySecret, and the answer.
Reveal(h) ==
    /\ AtStep(h, "reveal") /\ HandlerEnds(h)
    /\ holders' = IF secret = 0 THEN holders ELSE holders \cup {secret}
    /\ UNCHANGED <<secret, configured, based, lately, linkVars, histories>>

\* handleKeyInstall: the client, then its secret.
ReadForInstall(h) ==
    /\ AtStep(h, "install")
    /\ IF secret = 0 THEN HandlerEnds(h) ELSE HandlerAt(h, "create", secret)
    /\ UNCHANGED <<secret, configured, based, lately, linkVars, holders, histories>>

\* Create: the page's link replaces the last of its kind.
CreateInstall(h) ==
    /\ AtStep(h, "create") /\ HandlerEnds(h)
    /\ links' = [Swept EXCEPT !.install = [is |-> "waiting", carries |-> does[h].with]]
    /\ UNCHANGED <<secret, configured, based, lately, agentLinks, holders, histories>>

\* handleKeyUpdate: of a client that is set up; Agent.updateConfig, of one
\* whose address is known as well.
AskUpdate(h, by) ==
    /\ AtStep(h, "off") /\ configured /\ (by = "agent" => based)
    /\ HandlerAt(h, by, 0)
    /\ UNCHANGED <<secret, configured, based, lately, linkVars, holders, histories>>

\* MakeUpdate and Create: refused once the key is gone, and to an agent that
\* has as many waiting as it may.
MakeUpdate(h) ==
    /\ \/ /\ AtStep(h, "page") /\ agentLinks' = agentLinks
          /\ links' = IF secret = 0 THEN links
                      ELSE [Swept EXCEPT !.update = [is |-> "waiting", carries |-> 0]]
       \/ /\ AtStep(h, "agent") /\ links' = IF secret = 0 THEN links ELSE Swept
          /\ agentLinks' = IF secret = 0 \/ agentLinks >= MaxAgentLinks THEN agentLinks
                           ELSE agentLinks + 1
    /\ HandlerEnds(h)
    /\ UNCHANGED <<secret, configured, based, lately, holders, histories>>

----------------------------------------------------------------------------
(* Regenerating and deleting the key *)

\* Whoever has read the old secret, or come with it, and is not done.
Caught ==
    LET at == {does[h].pc : h \in Handler}
    IN  (at \cap {"create"})
        \cup (IF {"mark", "touch", "write", "markUsed"} \cap at = {} THEN {} ELSE {"use"})

\* RotateKey: the new secret; then the client to be set up again; then its use
\* to be written at once.
NewSecret(h) ==
    /\ AtStep(h, "off") /\ secret \in 1..(MaxSecret - 1)
    /\ secret' = secret + 1 /\ HandlerAt(h, "unmark", secret + 1)
    /\ lost' = lost \cup Caught /\ brought' = FALSE
    /\ UNCHANGED <<configured, based, lately, linkVars, holders, servedSince>>

Unmark(h) ==
    /\ AtStep(h, "unmark") /\ configured' = FALSE /\ HandlerAt(h, "forgetUse", does[h].with)
    /\ servedSince' = FALSE
    /\ UNCHANGED <<secret, based, lately, linkVars, holders, brought, lost>>

\* The second statement fails: the operator is told there is no new secret.
UnmarkFails(h) ==
    /\ AtStep(h, "unmark") /\ HandlerEnds(h) /\ lost' = lost \cup {"rotation"}
    /\ UNCHANGED <<secret, configured, based, lately, linkVars, holders, brought, servedSince>>

\* DeleteKey: its client goes with it.
DeleteKey(h) ==
    /\ AtStep(h, "off") /\ secret # 0
    /\ secret' = 0 /\ configured' = FALSE /\ based' = FALSE /\ HandlerAt(h, "forgetUse", 0)
    /\ lost' = lost \cup Caught /\ brought' = FALSE
    /\ UNCHANGED <<lately, linkVars, holders, servedSince>>

\* Mutant of ForgetUse: the minute's write stands for the new secret too.
KeepUse(h) ==
    /\ AtStep(h, "forgetUse") /\ lately' = lately /\ servedSince' = FALSE
    /\ IF does[h].with # 0 /\ secret = 0 THEN HandlerEnds(h) ELSE HandlerAt(h, "forget", does[h].with)
    /\ UNCHANGED <<secret, configured, based, linkVars, holders, brought, lost>>

\* lastUse.forget; RotateKey then reads the key back.
ForgetUse(h) ==
    /\ AtStep(h, "forgetUse") /\ lately' = FALSE /\ servedSince' = FALSE
    /\ IF does[h].with # 0 /\ secret = 0 THEN HandlerEnds(h) ELSE HandlerAt(h, "forget", does[h].with)
    /\ UNCHANGED <<secret, configured, based, linkVars, holders, brought, lost>>

\* Mutant of ForgetLinks: only the agent's links go.
ForgetAgents(h) ==
    /\ AtStep(h, "forget") /\ HandlerEnds(h)
    /\ links' = links /\ agentLinks' = 0
    /\ holders' = IF does[h].with = 0 THEN holders ELSE holders \cup {does[h].with}
    /\ UNCHANGED <<secret, configured, based, lately, histories>>

\* Links.Forget, and the answer: a new secret is shown once.
ForgetLinks(h) ==
    /\ AtStep(h, "forget") /\ HandlerEnds(h)
    /\ links' = NoLinks /\ agentLinks' = 0
    /\ holders' = IF does[h].with = 0 THEN holders ELSE holders \cup {does[h].with}
    /\ UNCHANGED <<secret, configured, based, lately, histories>>

----------------------------------------------------------------------------
(* Commands run on machines *)

\* handleInstall: Take, the one fetch a link allows.
TakeInstall(h) ==
    /\ AtStep(h, "off") /\ links.install.is = "waiting"
    /\ links' = [Swept EXCEPT !.install = [is |-> "used", carries |-> 0]]
    /\ HandlerAt(h, "mark", links.install.carries)
    /\ lost' = IF links.install.carries = secret THEN lost ELSE lost \cup {"use"}
    /\ UNCHANGED <<secret, configured, based, lately, agentLinks, holders, brought, servedSince>>

TakeUpdate(h) ==
    /\ AtStep(h, "off")
    /\ \/ /\ links.update.is = "waiting" /\ agentLinks' = agentLinks
          /\ links' = [Swept EXCEPT !.update = [is |-> "used", carries |-> 0]]
       \/ /\ agentLinks > 0 /\ agentLinks' = agentLinks - 1 /\ links' = Swept
    /\ HandlerAt(h, "base", 0)
    /\ UNCHANGED <<secret, configured, based, lately, holders, histories>>

\* MarkConfigured: an UPDATE of the client's row, if there is one.
MarkFetched(h) ==
    /\ AtStep(h, "mark") /\ HandlerAt(h, "base", does[h].with)
    /\ \/ configured' = (secret # 0) /\ UNCHANGED lost
       \/ UNCHANGED configured /\ lost' = lost \cup {"write"}
    /\ brought' = (brought \/ does[h].with = secret)
    /\ UNCHANGED <<secret, based, lately, linkVars, holders, servedSince>>

\* SetClientBase, and the script, key and all.
SendScript(h) ==
    /\ AtStep(h, "base") /\ HandlerEnds(h)
    /\ based' = (secret # 0)
    /\ holders' = IF does[h].with = 0 THEN holders ELSE holders \cup {does[h].with}
    /\ UNCHANGED <<secret, configured, lately, linkVars, histories>>

----------------------------------------------------------------------------
(* Requests *)

\* AuthenticateKey: any secret but the current one is refused.
AuthenticateKey(h) ==
    /\ AtStep(h, "off") /\ secret \in holders /\ HandlerAt(h, "touch", secret)
    /\ brought' = TRUE
    /\ UNCHANGED <<secret, configured, based, lately, linkVars, holders, servedSince, lost>>

\* TouchKey: due at most once a minute.
TouchKey(h) ==
    /\ AtStep(h, "touch")
    /\ IF lately THEN HandlerEnds(h) /\ servedSince' = (servedSince \/ does[h].with = secret)
                 ELSE HandlerAt(h, "write", does[h].with) /\ UNCHANGED servedSince
    /\ lately' = TRUE
    /\ UNCHANGED <<secret, configured, based, linkVars, holders, brought, lost>>

WriteUse(h) ==
    /\ AtStep(h, "write")
    /\ \/ HandlerAt(h, "markUsed", does[h].with) /\ UNCHANGED <<lately, lost>>
       \/ HandlerEnds(h) /\ lately' = FALSE /\ lost' = lost \cup {"write"}
    /\ UNCHANGED <<secret, configured, based, linkVars, holders, brought, servedSince>>

MarkUsed(h) ==
    /\ AtStep(h, "markUsed") /\ HandlerEnds(h)
    /\ \/ configured' = (secret # 0) /\ servedSince' = (servedSince \/ does[h].with = secret) /\ UNCHANGED lost
       \/ UNCHANGED <<configured, servedSince>> /\ lost' = lost \cup {"write"}
    /\ UNCHANGED <<secret, based, lately, linkVars, holders, brought>>

----------------------------------------------------------------------------
(* Time, and a restart *)

MinuteGone ==
    /\ lately /\ lately' = FALSE
    /\ UNCHANGED <<secret, configured, based, linkVars, holders, does, histories>>

LinkExpires(k) ==
    /\ links[k].is = "waiting" /\ links' = [links EXCEPT ![k].is = "expired"]
    /\ UNCHANGED <<secret, configured, based, lately, agentLinks, holders, does, histories>>

AgentLinkExpires ==
    /\ agentLinks > 0 /\ agentLinks' = agentLinks - 1
    /\ UNCHANGED <<secret, configured, based, lately, links, holders, does, histories>>

\* What is in memory is forgotten, and what was under way cut short.
RestartSetup ==
    /\ links' = NoLinks /\ agentLinks' = 0 /\ lately' = FALSE
    /\ does' = [h \in Handler |-> OffDuty]
    /\ LET at == {does[h].pc : h \in Handler}
       IN lost' = lost \cup (IF at \cap {"unmark", "forgetUse"} = {} THEN {} ELSE {"rotation"})
                       \cup (IF at \cap {"mark", "write", "markUsed"} = {} THEN {} ELSE {"write"})
    /\ UNCHANGED <<secret, configured, based, holders, brought, servedSince>>

HandlerStep(h) ==
    \/ \E what \in {"reveal", "install"} : AskKey(h, what)
    \/ \E by \in {"page", "agent"} : AskUpdate(h, by)
    \/ Reveal(h) \/ ReadForInstall(h) \/ CreateInstall(h) \/ MakeUpdate(h)
    \/ NewSecret(h) \/ Unmark(h) \/ UnmarkFails(h) \/ DeleteKey(h) \/ ForgetUse(h) \/ ForgetLinks(h)
    \/ TakeInstall(h) \/ TakeUpdate(h) \/ MarkFetched(h) \/ SendScript(h)
    \/ AuthenticateKey(h) \/ TouchKey(h) \/ WriteUse(h) \/ MarkUsed(h)

\* Bound: no further than a rotation that was cut short, of which nothing is
\* claimed.
SetupNext ==
    /\ "rotation" \notin lost
    /\ \/ \E h \in Handler : HandlerStep(h)
       \/ MinuteGone \/ \E k \in DOMAIN links : LinkExpires(k)
       \/ AgentLinkExpires \/ RestartSetup

SetupSpec == SetupInit /\ [][SetupNext]_setupVars

----------------------------------------------------------------------------
Changing == \E h \in Handler : does[h].pc \in {"unmark", "forgetUse", "forget"}

\* Once the key has changed, no command carries a secret that does not work,
\* unless a page was making it with the old one in hand at that very moment:
\* "its key changed, or the client is gone" (Links.Forget).
NoDeadCommand ==
    ~Changing /\ {"create", "rotation"} \cap lost = {} =>
        links.install.carries \in {0, secret}

\* A client is set up with the key it has, and not the one before: some
\* command brought that secret, or a request came with it.
SetUpWithThis ==
    ~Changing /\ {"use", "rotation"} \cap lost = {} =>
        (configured => brought)

\* And a client whose request has been through is set up, though only the
\* first of each minute writes anything: its page no longer shows the key.
UsedIsSetUp ==
    ~Changing /\ {"write", "rotation"} \cap lost = {}
    /\ (\A h \in Handler : does[h].pc \notin {"write", "markUsed"}) =>
        (servedSince => configured)

\* A client's page and its links tell the truth of its key, however it is
\* rotated, deleted and used meanwhile.
SetupSound == NoDeadCommand /\ SetUpWithThis /\ UsedIsSetUp

\* "Once a client is set up its key is never shown again until it is
\* regenerated" and "a new one is made with the new secret" (admin/keys.go),
\* whoever was under way.
EveryCommandWorks == ~Changing => links.install.carries \in {0, secret}
SetUpMeansIt      == ~Changing => (configured => brought)
=============================================================================
