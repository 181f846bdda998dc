----------------------------- MODULE MCAccountPool -----------------------------
EXTENDS AccountPool, TLC

CONSTANTS r1, r2, old, new

\* Which of the three scenes below a behaviour plays.
VARIABLE scene

\* Two accounts; the second lacks the newest version of the family.
Plans == <<{old, new}, {old}>>
Asked == {<<old>>, <<new, old>>}

\* What happens beside requests: the operator pauses the account tried first;
\* models fail on both accounts, the first one's quota fills, and either is
\* reconnected.
Upkeep == {<<"pause", 1>>, <<"room", 1>>} \union ({"models"} \X {1, 2}) \union {<<"reset", 1>>}

\* A wait that doubles, and is then its longest.
Doubling == [auth |-> [base |-> 1, max |-> 3]]

Requests == Permutations({r1, r2})

MCInit == Init /\ scene \in {"conversation", "failing", "family"}

\* Accounts fail but once, and nobody says to wait longer than two.
Lightly == \A a \in Account : failures'[a] <= 1 /\ told'[a] <= now + 2

\* Two requests of one conversation at once, for a model both accounts have,
\* while the operator pauses one of them.
Conversation ==
    /\ scene = "conversation" /\ UNCHANGED scene
    /\ \/ \E r \in Request : Arrive(r) \/ Work(r)
       \/ TogglePause(1)
       \/ Tick
    /\ want' \in [Request -> {<<>>, <<old>>}]
    /\ Lightly /\ UNCHANGED hold

OneRequest ==
    \E r \in Request : /\ \A q \in Request \ {r} : pc[q] = "idle"
                       /\ Arrive(r) \/ Work(r)

\* One request at a time, for a model both have, while accounts fail again and
\* again, for any of the waits, one fills up, and one is reconnected.
Failing ==
    /\ scene = "failing" /\ UNCHANGED scene
    /\ OneRequest \/ Reset(1) \/ NoteRoom(1) \/ Tick
    /\ want' \in [Request -> {<<>>, <<old>>}]
    /\ UNCHANGED hold

\* One request at a time, for anything, while models fail on their accounts.
Family ==
    /\ scene = "family" /\ UNCHANGED scene
    /\ OneRequest \/ Operate \/ Tick
    /\ Lightly /\ UNCHANGED <<paused, full>>

\* What tells two states apart: not a wait that is over, a conversation's account
\* that is kept no longer, what a provider said that a backoff may last as long
\* as, or the model of an attempt that failed.
Still(t) == IF t > now THEN t ELSE 0
Ahead ==
    <<[x \in Account |-> Still(cool[x])], [x \in Account |-> [m \in Model |-> Still(hold[x][m])]],
      [x \in Account |-> IF told[x] > now + Backoff["auth"].max THEN told[x] ELSE 0],
      IF now - last.at <= AffinityTTL THEN last.account ELSE NoAccount,
      [r \in Request |-> IF pc[r] \in {"list", "prefer", "pick"} THEN NoModel ELSE serving[r]]>>
PoolView == <<scene, now, store, failures, open, pc, asking, cand, chosen, lease, Ahead>>

MCSpec == MCInit /\ [][Conversation \/ Failing \/ Family]_<<vars, scene>>
=============================================================================
