----------------------------- MODULE ModelRoutes -----------------------------
(***************************************************************************)
(* Which upstream serves a name, and which names a client is offered       *)
(* (service/models: route.go, family.go, available.go).  What is routed is *)
(* read off two things that move apart: the lists as they were last read,  *)
(* and the operator's switches, pins and modes as they are now.  Versions  *)
(* of a family are ordered by Newer; a name is a model or a family.        *)
(***************************************************************************)
EXTENDS Naturals, FiniteSets, FiniteSetsExt

CONSTANTS
    Account, Vendor,    \* the accounts, and the provider of each
    FirstVendor,        \* the default provider
    Model,
    FamilyIn,           \* a model's family, or NoFamily
    VendorOfFamily,
    PrefixOf,           \* the provider a model's id looks like one of
    Newer,              \* <<m, n>>: m is the later release
    SaysOf,             \* what an account's upstream may list, a set of sets
    NoFamily,
    MaxFlips            \* bound: changes of any of it

ASSUME FamiliesAreNoModels == (DOMAIN VendorOfFamily) \cap (Model \cup {NoFamily}) = {}

\* The list familiesOf leaves a family's versions in orders them (family.go).
ASSUME NewerOrders ==
    /\ IsFiniteSet(Model)
    /\ \A m \in Model : <<m, m>> \notin Newer
    /\ \A k, m, n \in Model : <<k, m>> \in Newer /\ <<m, n>> \in Newer => <<k, n>> \in Newer

\* A model's family is one of the provider that lists it (familyIn).
ASSUME FamilyOfItsLister ==
    \A a \in Account : \A l \in SaysOf[a] : \A m \in l :
        /\ m \in Model
        /\ FamilyIn[m] # NoFamily =>
             FamilyIn[m] \in DOMAIN VendorOfFamily /\ VendorOfFamily[FamilyIn[m]] = Vendor[a]

Vendors == {Vendor[a] : a \in Account}
Families == DOMAIN VendorOfFamily
Names == Model \cup Families

VARIABLES
    flips,
    says, unreadable,   \* each upstream's list, and those that answer none
    accountsOn, spent,  \* switched on; with a dead token and no time left
    modelsOff,          \* account_models_off: <<account, model>>
    failingModels,      \* availability's: <<account, model>>
    known,              \* what was remembered of the lists: served, listed, of, connected, unread
    pins,               \* Catalog.pins: {the version}, or {}
    byFamily,           \* Catalog.modes: the providers offered by family
    slot,               \* the client's slot: a model, or the family it follows
    clientOff           \* api_key_models_off

routesVars == <<flips, says, unreadable, accountsOn, spent, modelsOff, failingModels, known, pins,
                byFamily, slot, clientOff>>

---------------------------------------------------------------------------
\* The accounts as they are now, and the lists as they were read.

Serves(a, m) == <<a, m>> \notin modelsOff
Candidates(v) == {a \in accountsOn \ spent : Vendor[a] = v}
Offers(v, m) == \E a \in Candidates(v) : Serves(a, m)

\* Mutant: an account whose list was not read serves no family.
ListsRead(a, m) == m \in UNION known.of[a]
\* An account whose list has not been read is taken to list it.
Lists(a, m) == known.of[a] = {} \/ m \in UNION known.of[a]

Newest(ms) == {m \in ms : ~\E n \in ms : <<n, m>> \in Newer}

\* Best, as the set of it: the newest an account lists and has on, one
\* that is not failing there before any that is.
Best(a, versions) ==
    LET has == {m \in versions : Serves(a, m) /\ Lists(a, m)}
        works == {m \in has : <<a, m>> \notin failingModels}
    IN Newest(IF works # {} THEN works ELSE has)

familyNamed(f) == {m \in known.listed[VendorOfFamily[f]] : FamilyIn[m] = f}

---------------------------------------------------------------------------
\* A family, as a client may be served it now.

\* Mutant: only the newest version is tried.
NewestOnly(off, f) == Newest(familyNamed(f) \ off)
AllowedVersions(off, f) == (IF pins[f] = {} THEN familyNamed(f) ELSE familyNamed(f) \cap pins[f]) \ off

\* familyUnavailable.
WhyNoVersion(v, versions) ==
    LET lists == {s \in {x \in accountsOn : Vendor[x] = v} \X versions : Lists(s[1], s[2])}
    IN CASE lists = {} -> "not listed"
         [] lists \subseteq modelsOff -> "off"
         [] OTHER -> "no account"

resolveFamily(off, f) ==
    LET allowed == AllowedVersions(off, f)
        cands == Candidates(VendorOfFamily[f])
        served == {s \in cands \X allowed : s[2] \in Best(s[1], allowed)}
        nothing(why) == [allowed |-> {}, serving |-> {}, failingModels |-> FALSE, why |-> why]
    IN CASE f \in off -> nothing("not allowed")
         [] f \notin off /\ familyNamed(f) = {} -> nothing("no family")
         [] f \notin off /\ familyNamed(f) # {} /\ pins[f] # {} /\ pins[f] \cap familyNamed(f) = {} -> nothing("pinned")
         [] OTHER ->
              IF allowed = {} THEN nothing("not allowed")
              ELSE [allowed |-> allowed, serving |-> {s[2] : s \in served},
                    failingModels |-> served # {} /\ served \subseteq failingModels,
                    why |-> IF served # {} THEN "" ELSE WhyNoVersion(VendorOfFamily[f], allowed)]

---------------------------------------------------------------------------
\* A model: whose it is, and why it cannot be served.

ProviderOf(m) ==
    IF PrefixOf[m] = FirstVendor THEN {FirstVendor}
    ELSE LET lists == {v \in Vendors : m \in known.served[v]}
             looks == {v \in known.unread : PrefixOf[m] = v}
         IN IF lists # {} THEN lists ELSE looks

ServingProvider(m) ==
    LET vs == ProviderOf(m)
    IN IF vs = {} \/ FirstVendor \in vs THEN FirstVendor ELSE CHOOSE v \in vs : TRUE

failingEverywhere(v, m) ==
    LET has == {a \in Candidates(v) : Serves(a, m) /\ Lists(a, m)}
    IN has # {} /\ has \X {m} \subseteq failingModels

unavailable(v, m) ==
    CASE m \notin known.listed[v] -> "not listed"
      [] m \in known.listed[v] /\ Offers(v, m) -> IF failingEverywhere(v, m) THEN "failingModels" ELSE ""
      [] OTHER -> IF ~\E a \in accountsOn : Vendor[a] = v THEN "not listed"
                  ELSE IF ~\E a \in accountsOn : Vendor[a] = v /\ Serves(a, m) THEN "off" ELSE "no account"

Resolve(off, name) ==
    IF name \in Families
      THEN LET r == resolveFamily(off, name)
           IN [name |-> name, vendor |-> VendorOfFamily[name],
               why |-> IF r.why = "" /\ r.failingModels THEN "failingModels" ELSE r.why]
      ELSE LET v == ServingProvider(name)
           IN [name |-> name, vendor |-> v, why |-> IF name \in off THEN "not allowed" ELSE unavailable(v, name)]

---------------------------------------------------------------------------
\* What is offered.

availableModels(off, v) ==
    {m \in known.listed[v] : Resolve(off, m).why = "" /\ Resolve(off, m).vendor = v}

\* Mutant: the family's models are left out by their family's having any.
AvailableOf(off, v) ==
    IF v \notin byFamily THEN availableModels(off, v)
    ELSE {f \in Families : VendorOfFamily[f] = v /\ Resolve(off, f).why = ""}

Available(off, v) ==
    IF v \notin byFamily THEN availableModels(off, v)
    ELSE {f \in Families : VendorOfFamily[f] = v /\ familyNamed(f) # {} /\ Resolve(off, f).why = ""}
         \cup {m \in availableModels(off, v) : FamilyIn[m] = NoFamily}

\* For: a client with slots is offered its own that resolve.
OwnOffered == {n \in {slot} : Resolve(clientOff, n).why = ""}

Bindable(name) ==
    LET c == Resolve(clientOff, name) IN
    /\ c.why = ""
    /\ name \in Families => c.vendor \in byFamily
    /\ name \in Model /\ c.vendor \in byFamily => FamilyIn[name] = NoFamily

---------------------------------------------------------------------------
\* Where a request goes.

familyRoute(off, f) ==
    LET r == resolveFamily(off, f)
    IN [vendor |-> VendorOfFamily[f], models |-> r.allowed, why |-> r.why]

modelRoute(off, m) ==
    LET v == ServingProvider(m)
    IN [vendor |-> v, models |-> {m},
        why |-> CASE m \in off -> "not allowed"
                  [] m \notin off /\ ~Offers(v, m) -> "off"
                  [] OTHER -> ""]

\* Route, of a request naming the client's slot.
SlotRoute == IF slot \in Families THEN familyRoute(clientOff, slot) ELSE modelRoute(clientOff, slot)

\* Route, of one naming a model or a family outright, and the gateway's own
\* check that the client may.
DirectRoute(name) ==
    IF name \in clientOff THEN [vendor |-> FirstVendor, models |-> {}, why |-> "not allowed"]
    ELSE IF name \in Families THEN familyRoute(clientOff, name)
    ELSE [vendor |-> ServingProvider(name), models |-> {name}, why |-> ""]

---------------------------------------------------------------------------
\* What changes.

\* A read of the lists that is whole: the merged list leaves out what is off
\* on every account, an account's own does not.
Remembers(old) ==
    LET read == accountsOn \ unreadable
        of(v) == {a \in read : Vendor[a] = v}
        unread == {v \in Vendors : of(v) = {} /\ \E a \in accountsOn : Vendor[a] = v}
    IN IF read = {} THEN [old EXCEPT !.unread = unread]
       ELSE [served |-> [v \in Vendors |-> IF v \in unread THEN old.served[v]
                           ELSE UNION {{m \in says[a] : Serves(a, m)} : a \in of(v)}],
             listed |-> [v \in Vendors |-> IF v \in unread THEN old.listed[v] ELSE UNION {says[a] : a \in of(v)}],
             of |-> [a \in Account |-> IF a \in read THEN {says[a]} ELSE old.of[a]],
             unread |-> unread]

NothingKnown ==
    [served |-> [v \in Vendors |-> {}], listed |-> [v \in Vendors |-> {}],
     of |-> [a \in Account |-> {}], unread |-> {}]

RoutesInit ==
    /\ flips = 0
    /\ says \in [Account -> UNION {SaysOf[a] : a \in Account}] /\ \A a \in Account : says[a] \in SaysOf[a]
    /\ accountsOn = Account
    /\ unreadable = {} /\ spent = {} /\ modelsOff = {} /\ failingModels = {}
    /\ known = NothingKnown
    /\ pins = [f \in Families |-> {}]
    /\ byFamily = Vendors
    /\ slot \in Families
    /\ clientOff = {}

Flip == flips < MaxFlips /\ flips' = flips + 1
Toggled(s, x) == IF x \in s THEN s \ {x} ELSE s \cup {x}

refreshFamilies ==
    /\ known' = Remembers(known)
    /\ UNCHANGED <<flips, says, unreadable, accountsOn, spent, modelsOff, failingModels, pins, byFamily, slot, clientOff>>

UpstreamChanges(a) ==
    /\ Flip
    /\ \/ unreadable' = Toggled(unreadable, a) /\ UNCHANGED says
       \/ \E l \in SaysOf[a] : says' = [says EXCEPT ![a] = l] /\ UNCHANGED unreadable
    /\ UNCHANGED <<accountsOn, spent, modelsOff, failingModels, known, pins, byFamily, slot, clientOff>>

AccountChanges(a) ==
    /\ Flip
    /\ \/ accountsOn' = Toggled(accountsOn, a) /\ UNCHANGED spent
       \/ spent' = Toggled(spent, a) /\ UNCHANGED accountsOn
    /\ UNCHANGED <<says, unreadable, modelsOff, failingModels, known, pins, byFamily, slot, clientOff>>

handleSetAccountModel(a, m) ==
    /\ Flip /\ modelsOff' = Toggled(modelsOff, <<a, m>>)
    /\ UNCHANGED <<says, unreadable, accountsOn, spent, failingModels, known, pins, byFamily, slot, clientOff>>

Fails(a, m) ==
    /\ Flip /\ failingModels' = Toggled(failingModels, <<a, m>>)
    /\ UNCHANGED <<says, unreadable, accountsOn, spent, modelsOff, known, pins, byFamily, slot, clientOff>>

\* SetPin: a version some account lists, or none for the latest.
SetPin(f, version) ==
    /\ Flip /\ version \subseteq familyNamed(f)
    /\ pins' = [pins EXCEPT ![f] = version]
    /\ UNCHANGED <<says, unreadable, accountsOn, spent, modelsOff, failingModels, known, byFamily, slot, clientOff>>

SetMode(v) ==
    /\ Flip /\ byFamily' = Toggled(byFamily, v)
    /\ UNCHANGED <<says, unreadable, accountsOn, spent, modelsOff, failingModels, known, pins, slot, clientOff>>

handleSetKeyModel(name) ==
    /\ Flip /\ clientOff' = Toggled(clientOff, name)
    /\ UNCHANGED <<says, unreadable, accountsOn, spent, modelsOff, failingModels, known, pins, byFamily, slot>>

\* A slot bound to another name, or to a new one (NewSlot).
Bind(name) ==
    /\ Flip /\ Bindable(name) /\ slot' = name
    /\ UNCHANGED <<says, unreadable, accountsOn, spent, modelsOff, failingModels, known, pins, byFamily, clientOff>>

RoutesNext ==
    \/ refreshFamilies
    \/ \E a \in Account : UpstreamChanges(a) \/ AccountChanges(a)
    \/ \E a \in Account, m \in Model :
         m \in UNION SaysOf[a] /\ (handleSetAccountModel(a, m) \/ Fails(a, m))
    \/ \E f \in Families : \E version \in {{}} \cup {{m} : m \in Model} : SetPin(f, version)
    \/ \E v \in Vendors : SetMode(v)
    \/ \E name \in Names : handleSetKeyModel(name) \/ Bind(name)

RoutesSpec == RoutesInit /\ [][RoutesNext]_routesVars

---------------------------------------------------------------------------
\* Properties.

CanTake(v, ms) == \E a \in Candidates(v), m \in ms : Serves(a, m)

\* "none of them advertises a model that would only be met as a refusal"
\* (available.go): whatever a client is offered, by its own names or outright,
\* is routed, to the provider it was offered from, and an account there can
\* take it.
OfferedIsRouted ==
    /\ \A v \in Vendors : \A n \in Available(clientOff, v) :
         DirectRoute(n).why = "" /\ DirectRoute(n).vendor = v /\ CanTake(v, DirectRoute(n).models)
    /\ OwnOffered # {} => SlotRoute.why = "" /\ CanTake(SlotRoute.vendor, SlotRoute.models)

\* "a request is refused only when no account has any" (family.go, 1): a
\* family that follows the latest and is listed is served while any account
\* that can take a request may have a version of it on that the client is
\* allowed.
RefusedOnlyWhenNone ==
    \A f \in Families :
        (/\ f \notin clientOff /\ pins[f] = {}
         /\ \E a \in Candidates(VendorOfFamily[f]), m \in familyNamed(f) \ clientOff :
              Serves(a, m) /\ (m \in UNION known.of[a] \/ known.of[a] = {}))
        => familyRoute(clientOff, f).why = ""

HasModel(v, m) == \E a \in Candidates(v) : Serves(a, m) /\ Lists(a, m)

\* "nothing an account lists is out of reach" (family.go): a model that could
\* be offered is, in either mode, as itself or within its family, unless the
\* operator set the family to another version or took it from the client.
NothingOutOfReach ==
    \A v \in Vendors : \A m \in {x \in availableModels(clientOff, v) : HasModel(v, x)} :
        \/ m \in Available(clientOff, v)
        \/ /\ FamilyIn[m] # NoFamily
           /\ \/ FamilyIn[m] \in Available(clientOff, v) \cup clientOff
              \/ pins[FamilyIn[m]] # {}

\* What a client is offered is routed, to an account that can take it; a request
\* is refused only when no account has any of what it asks; and nothing an
\* account lists is out of reach.
RoutesSound == OfferedIsRouted /\ RefusedOnlyWhenNone /\ NothingOutOfReach

\* "a model is available to a client when a connected, switched-on account of
\* its provider lists it, and at least one such account has it on"
\* (available.go): one that lists it has it on, or its list is not read.
OfferedWhereListed ==
    \A v \in Vendors : \A m \in availableModels(clientOff, v) : HasModel(v, m)

\* "modelRoute is a request for a slot bound to one model: refused when
\* the client may not have it or no account has it on" (route.go): a model every
\* account that lists it has off is sent nowhere.
OffIsRefused ==
    \A m \in Model :
        (/\ \A a \in Account : known.of[a] # {}
         /\ \E a \in Account : m \in UNION known.of[a]
         /\ \A a \in Account : m \in UNION known.of[a] => ~Serves(a, m))
        => modelRoute(clientOff, m).why # ""

=============================================================================
