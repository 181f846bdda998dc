---------------------------- MODULE ClientNames -----------------------------
(***************************************************************************)
(* The model names of one client (store/clients.go, client_slots): set by  *)
(* the operator on its page (admin/clients.go) and, while the operator     *)
(* lets it, by the client's own agent over the MCP server                  *)
(* (httpapi/agent).  Each call reads the client, checks what it was asked  *)
(* against what is read and what the accounts offer, and only then writes. *)
(* A slot's id is a number: the type's own, then one drawn for each added. *)
(***************************************************************************)
EXTENDS Naturals, FiniteSets, Functions

CONSTANTS
    Kinds,          \* the client types: [own, first, custom, naming]
    Name,           \* model names
    Binding,        \* models and families a name can be bound to
    Opus,           \* the family a name follows when none is given
    Page, Agents,   \* calls of the operator's page, and of the agent, at once
    MaxSlot,        \* bound: ids drawn for added names
    MaxMade,        \* bound: changes an agent makes
    MaxFlips        \* bound: switches thrown and models come or gone

Caller == Page \cup Agents
ASSUME SomeBindings == Opus \in Binding /\ Page \cap Agents = {}
ASSUME SomeCallers == IsFiniteSet(Caller) /\ MaxSlot \in Nat
\* Type.Initial: no two slots of a type get one name; newSlotID: nor is an id
\* that is drawn ever a type's.
ASSUME KindsApart == \A k \in Kinds : /\ \A s, t \in k.own : k.first[s] = k.first[t] => s = t
                                      /\ k.own \cap 1..(MaxSlot + 1) = {}

VARIABLES
    kind,           \* clients.type, for good
    clientRow,      \* the client's row: there, mode, manage, disabled
    off,            \* api_keys.models_off
    slots,          \* client_slots: id -> [name, to]
    drawn,          \* ids drawn so far
    offered,        \* what the menu has now, for a client with nothing off
    flips,          \* switches thrown and models come or gone
    calls,          \* each call under way
    made, onFile,   \* changes agents have made, rows saying so, and
    unfiled         \* those no row says: no history is kept, or its write failed

namesVars == <<kind, clientRow, off, slots, drawn, offered, flips, calls, made, onFile, unfiled>>
theRest == <<kind, clientRow, off, drawn, offered, flips>>

NoCall == [pc |-> "idle"]
Slots == DOMAIN slots
Call(h) == calls[h]
Moves(h, c) == calls' = [calls EXCEPT ![h] = c]
Finish(h) == Moves(h, NoCall)

\* Type.Removable: a type's own slots stay, but for a custom client's.
Removable(s) == kind.custom \/ s \notin kind.own

\* Bindable: on the menu, and not off for the client when it was read.
Bindable(c) == c.to \in offered /\ c.on

\* ClientSlotNamed, slotNamed: at most one.
SlotsNamed(n) == {s \in Slots : slots[s].name = n}

\* Type.Initial: the type's slots under their names, following their targets;
\* the operator has let the agent manage them, or not.
NamesInit ==
    /\ kind \in Kinds
    /\ clientRow \in [there : {TRUE}, mode : {"binding"}, manage : BOOLEAN, disabled : {FALSE}]
    /\ off = {} /\ drawn = 0 /\ flips = 0
    /\ slots = [s \in kind.own |-> [name |-> kind.first[s], to |-> Opus]]
    /\ offered = Binding
    /\ calls = [h \in Caller |-> NoCall] /\ made = 0 /\ onFile = 0 /\ unfiled = 0

----------------------------------------------------------------------------
(* The operator's page *)

\* loadClient: what was read is what the checks go by.
PageAsks(h) ==
    /\ Call(h).pc = "idle" /\ clientRow.there
    /\ \/ \E s \in Slots, n \in Name \cup {""}, b \in Binding :
            Moves(h, [pc |-> "check", does |-> "set", slot |-> s, name |-> n, to |-> b,
                      on |-> b \notin off, kept |-> slots[s].to = b])
       \/ \E n \in Name, b \in Binding \cup {""} :
            Moves(h, [pc |-> "check", does |-> "add", slot |-> 0, name |-> n,
                      to |-> IF b = "" THEN Opus ELSE b, on |-> b \notin off, kept |-> b = ""])
       \/ \E s \in Slots : Moves(h, [pc |-> "write", does |-> "remove", slot |-> s])
    /\ UNCHANGED <<theRest, slots, made, onFile, unfiled>>

Flip == flips < MaxFlips /\ flips' = flips + 1
thrown == <<kind, slots, drawn, calls, made, onFile, unfiled>>

\* SetClientMode: only a custom client names real models.
SetClientMode(m) ==
    /\ Flip /\ clientRow.there /\ (m = "direct" => kind.custom) /\ clientRow' = [clientRow EXCEPT !.mode = m]
    /\ UNCHANGED <<off, offered, thrown>>

SetClientAgentManage ==
    /\ Flip /\ clientRow.there /\ clientRow' = [clientRow EXCEPT !.manage = ~@] /\ UNCHANGED <<off, offered, thrown>>

SetClientDisabled ==
    /\ Flip /\ clientRow.there /\ clientRow' = [clientRow EXCEPT !.disabled = ~@] /\ UNCHANGED <<off, offered, thrown>>

SetKeyModel(b) ==
    /\ Flip /\ clientRow.there /\ off' = IF b \in off THEN off \ {b} ELSE off \cup {b}
    /\ UNCHANGED <<clientRow, offered, thrown>>

\* Accounts come and go, and the operator offers families or their versions.
MenuChanges(b) ==
    /\ Flip /\ offered' = IF b \in offered THEN offered \ {b} ELSE offered \cup {b}
    /\ UNCHANGED <<clientRow, off, thrown>>

\* Deleting the key: clients and client_slots go with it.
DeleteClient ==
    /\ Flip /\ clientRow.there /\ clientRow' = [clientRow EXCEPT !.there = FALSE] /\ slots' = <<>>
    /\ UNCHANGED <<kind, off, drawn, offered, calls, made, onFile, unfiled>>

----------------------------------------------------------------------------
(* The client's agent *)

\* Guard: the key, and its client not disabled, once for every call a request
\* brings (the server's own switch only adds requests that never come).
AgentComes(h) ==
    /\ Call(h).pc = "idle" /\ clientRow.there /\ ~clientRow.disabled
    /\ Moves(h, [pc |-> "came"])
    /\ UNCHANGED <<theRest, slots, made, onFile, unfiled>>

\* The last call of the batch has been answered.
AgentLeaves(h) ==
    /\ Call(h).pc = "came" /\ Finish(h) /\ UNCHANGED <<theRest, slots, made, onFile, unfiled>>

\* self: the client is gone.
SelfGone(h) ==
    /\ Call(h).pc = "came" /\ ~clientRow.there /\ Finish(h) /\ UNCHANGED <<theRest, slots, made, onFile, unfiled>>

\* Mutant of MayManage: whatever the switch says.
MayAlways == TRUE

\* manage: what the client's row says as the tool is called.
MayManage == clientRow.manage

\* manage, bindModel, addModel, removeModel, up to what they check.
ToolCalled(h) ==
    /\ Call(h).pc = "came" /\ clientRow.there /\ made < MaxMade
    /\ \E does \in {"set", "add", "remove"}, n \in Name, b \in Binding \cup {""} :
        /\ does = "remove" => b = ""
        /\ LET refused == \/ ~MayManage
                          \/ does = "set" /\ (clientRow.mode = "direct" \/ b = "")
                          \/ does # "add" /\ SlotsNamed(n) = {}
           IN  IF refused THEN Moves(h, [pc |-> "audit", changed |-> FALSE])
               ELSE IF does = "remove"
               THEN Moves(h, [pc |-> "write", does |-> does, slot |-> CHOOSE s \in SlotsNamed(n) : TRUE])
               ELSE Moves(h, [pc |-> "check", does |-> does,
                              slot |-> IF does = "add" THEN 0 ELSE CHOOSE s \in SlotsNamed(n) : TRUE,
                              name |-> IF does = "add" THEN n ELSE "",
                              to |-> IF b = "" THEN Opus ELSE b, on |-> b \notin off,
                              kept |-> does = "add" /\ b = ""])
    /\ UNCHANGED <<theRest, slots, made, onFile, unfiled>>

\* Record: a row, unless no history is kept or the write fails or runs late,
\* which the agent is not told of.
RecordChange ==
    \/ onFile' = onFile + 1 /\ UNCHANGED unfiled
    \/ unfiled' = unfiled + 1 /\ UNCHANGED onFile

\* Mutant of Audit: every call is recorded as a change.
AuditAll(h) ==
    /\ Call(h).pc = "audit" /\ RecordChange
    /\ Moves(h, [pc |-> "came"])
    /\ UNCHANGED <<theRest, slots, made>>

\* audit: a change made, or a refusal.
Audit(h) ==
    /\ Call(h).pc = "audit"
    /\ IF Call(h).changed THEN RecordChange ELSE UNCHANGED <<onFile, unfiled>>
    /\ Moves(h, [pc |-> "came"])
    /\ UNCHANGED <<theRest, slots, made>>

----------------------------------------------------------------------------
(* Checking and writing, the page's and the agent's *)

AnswerCall(h, changed) ==
    IF h \in Page THEN Finish(h) ELSE Moves(h, [pc |-> "audit", changed |-> changed])

\* Mutant of Check: an agent's binding is not held to the menu.
CheckPageOnly(h) ==
    /\ Call(h).pc = "check"
    /\ IF Call(h).kept \/ h \in Agents \/ Bindable(Call(h))
       THEN Moves(h, [Call(h) EXCEPT !.pc = "write"])
       ELSE AnswerCall(h, FALSE)
    /\ UNCHANGED <<theRest, slots, made, onFile, unfiled>>

\* available, NewSlot: a binding made anew has to be on offer; one the slot
\* had, and a new name's Opus, need not.
Check(h) ==
    /\ Call(h).pc = "check"
    /\ IF Call(h).kept \/ Bindable(Call(h))
       THEN Moves(h, [Call(h) EXCEPT !.pc = "write"])
       ELSE AnswerCall(h, FALSE)
    /\ UNCHANGED <<theRest, slots, made, onFile, unfiled>>

\* UNIQUE (key_id, name).
NameTaken(n, s) == \E t \in Slots \ {s} : slots[t].name = n

\* Mutant of Renamed: what the call read is written back.
RenamedAnyway(c) == IF c.name = "" THEN kind.first[CHOOSE s \in kind.own : TRUE] ELSE c.name

\* SetSlot: an empty name keeps the one it has, as the write finds it.
Renamed(c) == IF c.name = "" THEN slots[c.slot].name ELSE c.name

\* SetSlot, AddSlot, RemoveSlot: each one transaction, refused as the rows are
\* then; Finds is that none is.
Finds(c) ==
    /\ clientRow.there
    /\ c.does # "add" => c.slot \in Slots
    /\ c.does = "set" => ~NameTaken(Renamed(c), c.slot)
    /\ c.does = "add" => ~NameTaken(c.name, MaxSlot + 1)
    /\ c.does = "remove" => Removable(c.slot)

\* newSlotID: one nobody has had.
Write(h) ==
    LET c == Call(h) IN
    /\ c.pc = "write"
    /\ IF Finds(c)
       THEN /\ c.does = "add" => drawn < MaxSlot
            /\ drawn' = IF c.does = "add" THEN drawn + 1 ELSE drawn
            /\ slots' = CASE c.does = "set" -> [slots EXCEPT ![c.slot] = [name |-> Renamed(c), to |-> c.to]]
                          [] c.does = "add" -> [s \in Slots \cup {drawn + 1} |->
                                                  IF s \in Slots THEN slots[s] ELSE [name |-> c.name, to |-> c.to]]
                          [] c.does = "remove" -> Restrict(slots, Slots \ {c.slot})
            /\ made' = IF h \in Agents THEN made + 1 ELSE made
            /\ AnswerCall(h, TRUE)
       ELSE AnswerCall(h, FALSE) /\ UNCHANGED <<drawn, slots, made>>
    /\ UNCHANGED <<kind, clientRow, off, offered, flips, onFile, unfiled>>

NamesNext ==
    \/ \E h \in Page : PageAsks(h)
    \/ \E h \in Agents : \/ AgentComes(h) \/ AgentLeaves(h) \/ SelfGone(h)
                         \/ ToolCalled(h) \/ Audit(h)
    \/ \E h \in Caller : Check(h) \/ Write(h)
    \/ \E m \in {"binding", "direct"} : clientRow.mode # m /\ SetClientMode(m)
    \/ SetClientAgentManage \/ SetClientDisabled
    \/ \E b \in Binding : SetKeyModel(b) \/ MenuChanges(b)
    \/ DeleteClient

NamesSpec == NamesInit /\ [][NamesNext]_namesVars

----------------------------------------------------------------------------
\* What a name means is never in doubt, and the names a client's files use
\* are there as long as it is: a type's own slots stay.
AlwaysAnswers ==
    clientRow.there => /\ \A n \in Name : Cardinality(SlotsNamed(n)) <= 1
                       /\ kind.custom \/ kind.own \subseteq Slots

\* Every change an agent has made is on record, or about to be, or was lost to
\* a write that failed or a history that is not kept; and nothing else is.
OnRecord ==
    made = onFile + unfiled + Cardinality({h \in Caller : Call(h).pc = "audit" /\ Call(h).changed})

\* An agent's change is to the name it was asked for, whatever has been renamed
\* since, and renames none; and it is made on a call that found the switch on.
AgentKeepsNames ==
    made' # made =>
        \E h \in Agents : LET c == Call(h) IN
            /\ c.pc = "write" /\ calls'[h] # c
            /\ \A s \in Slots \ {c.slot} : s \in DOMAIN slots' /\ slots'[s] = slots[s]
            /\ c.does = "set" => slots'[c.slot].name = slots[c.slot].name

\* A call is let as far as the client's rows only by an agent that may manage
\* it as the tool is called, from a client that was not switched off when its
\* request came.
AgentMay ==
    \A h \in Agents :
        Call(h).pc = "came" /\ calls'[h].pc \in {"check", "write"} => clientRow.manage

\* A slot comes to be bound to something new only as the menu has it, between
\* the read and the write, or because it is where the slot stood at the read.
BoundFromMenu ==
    \A h \in Caller :
        Call(h).pc = "check" /\ calls'[h].pc = "write" =>
            Call(h).kept \/ (Call(h).to \in offered /\ Call(h).on)

\* A name of a client means one thing, and its agent changes only what it may.
NamesStep == AlwaysAnswers' /\ OnRecord' /\ AgentKeepsNames /\ AgentMay /\ BoundFromMenu
NamesSound == [][NamesStep]_namesVars

\* "A binding the slot already has may stay, available or not - a rename sends
\* it back unchanged - but a new one has to be available" (handleSetSlot),
\* though an agent may have bound it elsewhere in between.
RenameKeepsBinding ==
    [][\A h \in Caller : LET c == Call(h) IN
         c.pc = "write" /\ c.does = "set" /\ c.kept /\ c.slot \in Slots /\ slots' # slots
         /\ clientRow.there /\ calls'[h].pc # "write" /\ c.slot \in DOMAIN slots'
            => slots'[c.slot].to = slots[c.slot].to]_namesVars
=============================================================================
