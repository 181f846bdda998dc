----------------------------- MODULE TokenRefresh -----------------------------
(***************************************************************************)
(* How the gateway replaces one account's rotating refresh token           *)
(* (internal/pool/pool.go: Refresh, refresh), while other goroutines ask   *)
(* for the same, another worker of a handover does it from its own process *)
(* (internal/handover/lock.go), an operator reconnects or deletes the      *)
(* account (internal/httpapi/admin), and a worker may die between any two  *)
(* steps.                                                                  *)
(*                                                                         *)
(* Accounts share nothing here -- the in-flight record, the file lock and  *)
(* the row are all per account -- so the module is about one account.      *)
(* The token endpoint's answers are numbered in the order it gives them.   *)
(* Answer n's access token expires at n (they all live as long, so later   *)
(* answers expire later), and its refresh token, when it carries one, is   *)
(* token n.                                                                *)
(***************************************************************************)
EXTENDS Integers

CONSTANTS
  Worker,      \* the gateway processes: two of them overlap in a handover
  Thread,      \* the goroutines that refresh, reconnect or delete
  WorkerOf,    \* the worker each goroutine runs in
  NoThread,
  MaxToken,    \* bound: answers the token endpoint gives
  Ops,         \* the operations goroutines perform, of {"refresh", "consent", "delete"}
  LockUsable   \* whether the file lock can be taken at all (FileLock's unusable path)

ASSUME RefreshAssumption ==
  /\ WorkerOf \in [Thread -> Worker]
  /\ NoThread \notin Thread
  /\ MaxToken \in Nat \ {0}
  /\ LockUsable \in BOOLEAN

Token == 1 .. MaxToken
NoToken == 0

VARIABLES
  row,         \* the accounts row: token, exp (expires_at), due (exp is near or past),
               \* dead (refresh_dead_at), and present, until it is deleted
  fate,        \* what became of each refresh token, at the provider and in our hands
  lock,        \* the goroutine holding the account's file lock
  refreshing,  \* per worker: the goroutine whose refreshCall is in flight
  pc,          \* where each goroutine is
  seen,        \* the row's exp when a goroutine found it due (NoToken: it forces a refresh)
  before,      \* the row's exp when the refresh set out (NoToken: the read failed)
  tok,         \* the refresh token a goroutine read to exchange, or to revoke
  got,         \* the answer it was given and has not stored
  call,        \* the refresh a waiting goroutine waits for
  result       \* what a refresh came to, for the goroutine that asked

vars == <<row, fate, lock, refreshing, pc, seen, before, tok, got, call, result>>
mine == <<seen, before, tok, got, call, result>>

(***************************************************************************)
(* fate: "kept" is an answer that carried no refresh token, the one        *)
(* exchanged being still good (Google never rotates); "spent" is exchanged *)
(* for an answer that reached us; "orphaned" is exchanged and the answer   *)
(* lost (a crash, a failed write, a timeout); "stray" is usable, and lost  *)
(* in one of those ways or not taken back when we tried to revoke it.      *)
(***************************************************************************)
Fate == {"unissued", "live", "kept", "spent", "orphaned", "stray", "revoked"}

Result == {"none", "ok", "dead", "error", "cancelled"}

\* Steps of refresh() done under the file lock.
UnderLock == {"reread", "tokens", "exchange", "refused", "persist"}

\* Every step of a refresh, from taking the in-flight record to leaving it.
Leading == UnderLock \union {"look", "lock", "finish"}

PC == Leading \union
      {"idle", "leased", "wait", "return", "target", "renew", "handback",
       "revoke", "remove"}

Usable(k) == fate[k] \in {"live", "stray"}

\* n is the number of the endpoint's next answer.
IsNext(n) == \A k \in Token : fate[k] = "unissued" <=> k >= n

Goto(t, step) == pc' = [pc EXCEPT ![t] = step]

Init ==
  /\ row = [present |-> TRUE, token |-> 1, exp |-> 1, dead |-> FALSE, due |-> FALSE]
  /\ fate = [k \in Token |-> IF k = 1 THEN "live" ELSE "unissued"]
  /\ lock = NoThread
  /\ refreshing = [w \in Worker |-> NoThread]
  /\ pc = [t \in Thread |-> "idle"]
  /\ seen = [t \in Thread |-> NoToken]
  /\ before = [t \in Thread |-> NoToken]
  /\ tok = [t \in Thread |-> NoToken]
  /\ got = [t \in Thread |-> NoToken]
  /\ call = [t \in Thread |-> NoThread]
  /\ result = [t \in Thread |-> "none"]

-----------------------------------------------------------------------------
(* Asking for a refresh *)

(***************************************************************************)
(* A goroutine finds it needs a fresh access token: Acquire or AccessToken *)
(* reads a row that is due, or a 401 or the Refresh button forces it.      *)
(* seen is kept for the due ones only.                                     *)
(***************************************************************************)
Lease(t) ==
  /\ "refresh" \in Ops
  /\ pc[t] = "idle"
  /\ row.present
  /\ seen' = [seen EXCEPT ![t] = IF row.due THEN row.exp ELSE NoToken]
  /\ Goto(t, "leased")
  /\ UNCHANGED <<row, fate, lock, refreshing, before, tok, got, call, result>>

\* Refresh, with a call in flight in this process: wait for it.
Join(t) ==
  /\ pc[t] = "leased"
  /\ refreshing[WorkerOf[t]] # NoThread
  /\ call' = [call EXCEPT ![t] = refreshing[WorkerOf[t]]]
  /\ Goto(t, "wait")
  /\ UNCHANGED <<row, fate, lock, refreshing, seen, before, tok, got, result>>

\* Mutant of Lead: the in-flight record is not looked at.
LeadRegardless(t) ==
  /\ pc[t] = "leased"
  /\ refreshing' = [refreshing EXCEPT ![WorkerOf[t]] = t]
  /\ Goto(t, "look")
  /\ UNCHANGED <<row, fate, lock, mine>>

\* Refresh, with none in flight: this goroutine's is now.
Lead(t) ==
  /\ pc[t] = "leased"
  /\ refreshing[WorkerOf[t]] = NoThread
  /\ refreshing' = [refreshing EXCEPT ![WorkerOf[t]] = t]
  /\ Goto(t, "look")
  /\ UNCHANGED <<row, fate, lock, mine>>

\* A waiter's own context ends; the refresh it waited for goes on.
Cancel(t) ==
  /\ pc[t] = "wait"
  /\ result' = [result EXCEPT ![t] = "cancelled"]
  /\ call' = [call EXCEPT ![t] = NoThread]
  /\ Goto(t, "return")
  /\ UNCHANGED <<row, fate, lock, refreshing, seen, before, tok, got>>

\* Mutant of Finish: the call's channel is never closed.
FinishUntold(t) ==
  /\ pc[t] = "finish"
  /\ refreshing' = [refreshing EXCEPT ![WorkerOf[t]] = NoThread]
  /\ Goto(t, "return")
  /\ UNCHANGED <<row, fate, lock, mine>>

\* Mutant of Finish: waiters are told the refresh is over, not what it did.
FinishOver(t) ==
  LET told == {u \in Thread : pc[u] = "wait" /\ call[u] = t} IN
  /\ pc[t] = "finish"
  /\ refreshing' = [refreshing EXCEPT ![WorkerOf[t]] = NoThread]
  /\ pc' = [u \in Thread |-> IF u = t \/ u \in told THEN "return" ELSE pc[u]]
  /\ result' = [u \in Thread |-> IF u \in told THEN "ok" ELSE result[u]]
  /\ call' = [u \in Thread |-> IF u \in told THEN NoThread ELSE call[u]]
  /\ UNCHANGED <<row, fate, lock, seen, before, tok, got>>

\* The call is done: off the in-flight record, and its waiters read its error.
Finish(t) ==
  LET told == {u \in Thread : pc[u] = "wait" /\ call[u] = t} IN
  /\ pc[t] = "finish"
  /\ refreshing' = [refreshing EXCEPT ![WorkerOf[t]] = NoThread]
  /\ pc' = [u \in Thread |-> IF u = t \/ u \in told THEN "return" ELSE pc[u]]
  /\ result' = [u \in Thread |-> IF u \in told THEN result[t] ELSE result[u]]
  /\ call' = [u \in Thread |-> IF u \in told THEN NoThread ELSE call[u]]
  /\ UNCHANGED <<row, fate, lock, seen, before, tok, got>>

\* The caller has its answer.
Return(t) ==
  /\ pc[t] = "return"
  /\ seen' = [seen EXCEPT ![t] = NoToken]
  /\ result' = [result EXCEPT ![t] = "none"]
  /\ Goto(t, "idle")
  /\ UNCHANGED <<row, fate, lock, refreshing, before, tok, got, call>>

-----------------------------------------------------------------------------
(* refresh(): under the in-flight record, then under the file lock *)

\* What Done changes, besides the goroutine's place.
hand == <<lock, before, tok, got, result>>

\* What a refresh returns, and the file lock let go with it.
Done(t, outcome) ==
  /\ result' = [result EXCEPT ![t] = outcome]
  /\ lock' = IF lock = t THEN NoThread ELSE lock
  /\ before' = [before EXCEPT ![t] = NoToken]
  /\ tok' = [tok EXCEPT ![t] = NoToken]
  /\ got' = [got EXCEPT ![t] = NoToken]
  /\ Goto(t, "finish")

\* The row before the lock. A read that fails is not an error yet.
Look(t) ==
  /\ pc[t] = "look"
  /\ \/ /\ row.present /\ row.dead
        /\ Done(t, "dead")
     \/ /\ row.present /\ ~row.dead
        /\ before' = [before EXCEPT ![t] = row.exp]
        /\ Goto(t, "lock")
        /\ UNCHANGED <<lock, tok, got, result>>
     \/ /\ Goto(t, "lock")
        /\ UNCHANGED hand
  /\ UNCHANGED <<row, fate, refreshing, seen, call>>

\* Mutant of TakeLock: another process's lock does not keep this one out.
TakeLockShared(t) ==
  /\ pc[t] = "lock"
  /\ LockUsable
  /\ lock' = t
  /\ Goto(t, "reread")
  /\ UNCHANGED <<row, fate, refreshing, mine>>

TakeLock(t) ==
  /\ pc[t] = "lock"
  /\ LockUsable
  /\ lock = NoThread
  /\ lock' = t
  /\ Goto(t, "reread")
  /\ UNCHANGED <<row, fate, refreshing, mine>>

\* A lock that cannot be taken at all is logged and skipped.
SkipLock(t) ==
  /\ pc[t] = "lock"
  /\ ~LockUsable
  /\ Goto(t, "reread")
  /\ UNCHANGED <<row, fate, lock, refreshing, mine>>

\* lockWait runs out while another holds the lock.
LockTimeout(t) ==
  /\ pc[t] = "lock"
  /\ lock # NoThread
  /\ Done(t, "error")
  /\ UNCHANGED <<row, fate, refreshing, seen, call>>

\* Whoever held the lock stored an answer after the one this refresh set out
\* to replace, and it is not due.
AlreadyDone(t) == before[t] # NoToken /\ row.exp > before[t] /\ ~row.due

\* The row again, under the lock; or the read fails, or finds no account.
Reread(t) ==
  /\ pc[t] = "reread"
  /\ \/ Done(t, "error")
     \/ row.present /\ row.dead /\ Done(t, "dead")
     \/ row.present /\ ~row.dead /\ AlreadyDone(t) /\ Done(t, "ok")
     \/ /\ row.present /\ ~row.dead /\ ~AlreadyDone(t)
        /\ before' = [before EXCEPT ![t] = NoToken]
        /\ Goto(t, "tokens")
        /\ UNCHANGED <<lock, tok, got, result>>
  /\ UNCHANGED <<row, fate, refreshing, seen, call>>

\* The refresh token, a read of its own.
ReadTokens(t) ==
  /\ pc[t] = "tokens"
  /\ \/ Done(t, "error")
     \/ /\ row.present
        /\ tok' = [tok EXCEPT ![t] = row.token]
        /\ Goto(t, "exchange")
        /\ UNCHANGED <<lock, before, got, result>>
  /\ UNCHANGED <<row, fate, refreshing, seen, call>>

-----------------------------------------------------------------------------
(* The exchange: from here on the token endpoint has a say *)

\* The refresh token is presented, and rotated: this answer's is the only
\* usable one from now on.
Rotated(t, n) ==
  /\ fate' = [fate EXCEPT ![tok[t]] = "spent", ![n] = "live"]
  /\ got' = [got EXCEPT ![t] = n]
  /\ Goto(t, "persist")
  /\ UNCHANGED <<lock, before, tok, result>>

\* It is kept: the answer carries no refresh token.
Kept(t, n) ==
  /\ fate' = [fate EXCEPT ![n] = "kept"]
  /\ got' = [got EXCEPT ![t] = n]
  /\ Goto(t, "persist")
  /\ UNCHANGED <<lock, before, tok, result>>

\* It is rotated, and the answer never comes.
AnswerLost(t, n) ==
  /\ fate' = [fate EXCEPT ![tok[t]] = "orphaned", ![n] = "stray"]
  /\ Done(t, "error")

\* A token that is not usable is refused for good: invalid_grant.
Refused(t) ==
  /\ ~Usable(tok[t])
  /\ Goto(t, "refused")
  /\ UNCHANGED <<fate, hand>>

\* Mutant of Unreached: any failure is taken for a refusal for good.
UnreachedForGood(t) == Goto(t, "refused") /\ UNCHANGED <<fate, hand>>

\* The endpoint is not reached, or answers nothing that can be used.
Unreached(t) == Done(t, "error") /\ UNCHANGED fate

Exchange(t) ==
  /\ pc[t] = "exchange"
  /\ \/ /\ Usable(tok[t])
        /\ \E n \in Token : IsNext(n) /\ (Rotated(t, n) \/ Kept(t, n) \/ AnswerLost(t, n))
     \/ Refused(t)
     \/ Unreached(t)
  /\ UNCHANGED <<row, refreshing, seen, call>>

\* MarkRefreshDead, by account id alone; a write that fails is logged.
MarkDead(t) ==
  /\ pc[t] = "refused"
  /\ row' \in {row, [row EXCEPT !.dead = row.present]}
  /\ Done(t, "dead")
  /\ UNCHANGED <<fate, refreshing, seen, call>>

\* The refresh token an answer leaves the account with.
TokenOf(t) == IF fate[got[t]] = "kept" THEN tok[t] ELSE got[t]

\* What losing the answers these goroutines hold leaves: the token each spent
\* orphaned, the one each carried held by nothing.
Lose(gone) ==
  LET Orphan(k) == \E t \in gone : pc[t] = "persist" /\ tok[t] = k /\ fate[k] = "spent"
      Stray(k)  == \E t \in gone : got[t] = k /\ fate[k] = "live"
  IN fate' = [k \in Token |->
                IF Orphan(k) THEN "orphaned" ELSE IF Stray(k) THEN "stray" ELSE fate[k]]

\* Mutant of Persist: the write runs on the caller's context, which may end.
PersistAbandoned(t) ==
  /\ pc[t] = "persist"
  /\ \/ /\ row.present
        /\ row' = [row EXCEPT !.token = TokenOf(t), !.exp = got[t], !.due = FALSE]
        /\ Done(t, "ok")
     \/ /\ Done(t, "error")
        /\ UNCHANGED row
  /\ UNCHANGED <<fate, refreshing, seen, call>>

(***************************************************************************)
(* UpdateAccountTokens, by account id alone, whatever the row holds by     *)
(* now.  It does not touch refresh_dead_at.  A write that fails loses the  *)
(* answer; a deleted account is ErrAccountNotFound, and nothing revokes    *)
(* what the answer carried.                                                *)
(***************************************************************************)
Persist(t) ==
  /\ pc[t] = "persist"
  /\ \/ /\ row.present
        /\ row' = [row EXCEPT !.token = TokenOf(t), !.exp = got[t], !.due = FALSE]
        /\ Done(t, "ok")
        /\ UNCHANGED fate
     \/ /\ row.present
        /\ Lose({t})
        /\ Done(t, "error")
        /\ UNCHANGED row
     \/ /\ ~row.present
        /\ Done(t, "error")
        /\ UNCHANGED <<row, fate>>
  /\ UNCHANGED <<refreshing, seen, call>>

-----------------------------------------------------------------------------
(* The operator: reconnecting and deleting the account *)

\* A finished sign-in: a grant of its own, whatever became of the old one.
Consent(t) ==
  /\ "consent" \in Ops
  /\ pc[t] = "idle"
  /\ \E n \in Token :
       /\ IsNext(n)
       /\ fate' = [fate EXCEPT ![n] = "live"]
       /\ got' = [got EXCEPT ![t] = n]
  /\ Goto(t, "target")
  /\ UNCHANGED <<row, lock, refreshing, seen, before, tok, call, result>>

\* storeConsent reads the account it renews; removed meanwhile, the grant is
\* handed back.
ReadTarget(t) ==
  /\ pc[t] = "target"
  /\ Goto(t, IF row.present THEN "renew" ELSE "handback")
  /\ UNCHANGED <<row, fate, lock, refreshing, mine>>

\* RenewAccount: new credentials, and what a consent flow repairs. A write
\* that fails, or finds the account gone, leaves the grant behind.
Renew(t) ==
  /\ pc[t] = "renew"
  /\ \/ /\ row.present
        /\ row' = [present |-> TRUE, token |-> got[t], exp |-> got[t], dead |-> FALSE, due |-> FALSE]
        /\ UNCHANGED fate
     \/ /\ Lose({t})
        /\ UNCHANGED row
     \/ /\ ~row.present
        /\ UNCHANGED <<row, fate>>
  /\ got' = [got EXCEPT ![t] = NoToken]
  /\ Goto(t, "idle")
  /\ UNCHANGED <<lock, refreshing, seen, before, tok, call, result>>

\* The provider takes a token back, or cannot be reached.
Revoked(k) ==
  fate' = [fate EXCEPT ![k] = IF Usable(k) THEN "revoked" ELSE @]

RevokeFailed(k) ==
  fate' = [fate EXCEPT ![k] = IF Usable(k) THEN "stray" ELSE @]

HandBack(t) ==
  /\ pc[t] = "handback"
  /\ Revoked(got[t]) \/ RevokeFailed(got[t])
  /\ got' = [got EXCEPT ![t] = NoToken]
  /\ Goto(t, "idle")
  /\ UNCHANGED <<row, lock, refreshing, seen, before, tok, call, result>>

\* handleDeleteAccount reads the token it will revoke...
ReadDoomed(t) ==
  /\ "delete" \in Ops
  /\ pc[t] = "idle"
  /\ row.present
  /\ tok' = [tok EXCEPT ![t] = row.token]
  /\ Goto(t, "revoke")
  /\ UNCHANGED <<row, fate, lock, refreshing, seen, before, got, call, result>>

\* ... revokes it, best effort...
RevokeDoomed(t) ==
  /\ pc[t] = "revoke"
  /\ Revoked(tok[t]) \/ RevokeFailed(tok[t])
  /\ Goto(t, "remove")
  /\ UNCHANGED <<row, lock, refreshing, mine>>

\* ... and forgets the account.
Remove(t) ==
  /\ pc[t] = "remove"
  /\ row' = [row EXCEPT !.present = FALSE]
  /\ tok' = [tok EXCEPT ![t] = NoToken]
  /\ Goto(t, "idle")
  /\ UNCHANGED <<fate, lock, refreshing, seen, before, got, call, result>>

-----------------------------------------------------------------------------
(* What nobody here decides *)

\* The access token nears its expiry: not before the refresh that stored it
\* has returned, the one taking moments and the other about an hour.
Expire ==
  /\ row.present /\ ~row.due
  /\ \A t \in Thread : pc[t] # "finish"
  /\ row' = [row EXCEPT !.due = TRUE]
  /\ UNCHANGED <<fate, lock, refreshing, pc, mine>>

\* The provider ends a grant: its lifetime, or the account's owner.
ProviderRevokes(k) ==
  /\ fate[k] = "live"
  /\ fate' = [fate EXCEPT ![k] = "revoked"]
  /\ UNCHANGED <<row, lock, refreshing, pc, mine>>

\* A worker dies between any two steps, and another takes its place: what it
\* held in memory is gone, and the kernel lets go of its flock.
Crash(w) ==
  LET gone == {t \in Thread : WorkerOf[t] = w}
      Forget(f, v) == [t \in Thread |-> IF t \in gone THEN v ELSE f[t]]
  IN
  /\ Lose(gone)
  /\ lock' = IF lock \in gone THEN NoThread ELSE lock
  /\ refreshing' = [refreshing EXCEPT ![w] = NoThread]
  /\ pc' = Forget(pc, "idle")
  /\ seen' = Forget(seen, NoToken)
  /\ before' = Forget(before, NoToken)
  /\ tok' = Forget(tok, NoToken)
  /\ got' = Forget(got, NoToken)
  /\ call' = Forget(call, NoThread)
  /\ result' = Forget(result, "none")
  /\ UNCHANGED row

-----------------------------------------------------------------------------
\* A goroutine's steps once it has begun something: what the scheduler runs.
Work(t) ==
  \/ Join(t) \/ Lead(t) \/ Finish(t) \/ Return(t)
  \/ Look(t) \/ TakeLock(t) \/ SkipLock(t) \/ LockTimeout(t)
  \/ Reread(t) \/ ReadTokens(t) \/ Exchange(t) \/ MarkDead(t) \/ Persist(t)
  \/ ReadTarget(t) \/ Renew(t) \/ HandBack(t)
  \/ RevokeDoomed(t) \/ Remove(t)

Begin(t) == Lease(t) \/ Consent(t) \/ ReadDoomed(t)

Environment ==
  \/ Expire
  \/ \E w \in Worker : Crash(w)
  \/ \E k \in Token : ProviderRevokes(k)

Next ==
  \/ \E t \in Thread : Begin(t) \/ Work(t) \/ Cancel(t)
  \/ Environment

Spec == Init /\ [][Next]_vars

\* Goroutines are scheduled; contexts need not end, nor anything else happen.
FairSpec == Spec /\ \A t \in Thread : WF_vars(Work(t))

-----------------------------------------------------------------------------
TypeOK ==
  /\ row \in [present : BOOLEAN, token : Token, exp : Token, dead : BOOLEAN, due : BOOLEAN]
  /\ fate \in [Token -> Fate]
  /\ lock \in Thread \union {NoThread}
  /\ refreshing \in [Worker -> Thread \union {NoThread}]
  /\ pc \in [Thread -> PC]
  /\ seen \in [Thread -> Token \union {NoToken}]
  /\ before \in [Thread -> Token \union {NoToken}]
  /\ tok \in [Thread -> Token \union {NoToken}]
  /\ got \in [Thread -> Token \union {NoToken}]
  /\ call \in [Thread -> Thread \union {NoThread}]
  /\ result \in [Thread -> Result]

-----------------------------------------------------------------------------
(* Correctness *)

\* Goroutines between reading the stored refresh token and being done with it.
Exchanging == {t \in Thread : pc[t] \in {"exchange", "refused", "persist"}}

\* SingleFlight: "one in-flight refresh per account", in each process, with
\* the file lock or without it (Pool.Refresh).
SingleFlight ==
  \A t, u \in Thread :
    pc[t] \in Leading /\ pc[u] \in Leading /\ WorkerOf[t] = WorkerOf[u] => t = u

\* OneExchange: across processes, nobody reads the refresh token to exchange
\* while another has it in hand or holds its unsaved replacement (FileLock
\* held around refresh()).
OneExchange == \A t, u \in Exchanging : t = u

\* Both: one refresh in a process, one exchange across them.
OneAtATime == SingleFlight /\ OneExchange

\* NeverSpent: no exchange presents a token that an exchange of ours already
\* spent, which the provider would refuse for good -- "the slower process
\* would spend one that is already spent".
NeverSpent == \A t \in Thread : pc[t] = "exchange" => fate[tok[t]] # "spent"

\* Custody: a stored token that is spent is about to be replaced: the
\* goroutine that exchanged it holds the answer, whatever became of the
\* request that asked.
Custody ==
  row.present /\ fate[row.token] = "spent" =>
    \E t \in Thread : pc[t] = "persist" /\ tok[t] = row.token

\* DeadIsRefused: an account is marked dead only when the provider would
\* refuse the refresh token it has stored.
DeadIsRefused == row.present /\ row.dead => ~Usable(row.token)

\* OkIsReplaced: a goroutine that found the access token due and is told its
\* refresh worked will not read that one again, whoever replaced it: "Returning
\* nil here hands the waiter a token that was never replaced".
OkIsReplaced ==
  \A t \in Thread :
    pc[t] = "return" /\ result[t] = "ok" /\ seen[t] # NoToken => row.exp # seen[t]

\* NeverOlder: what is stored is never replaced by an earlier answer.
NeverOlder == [][row'.exp >= row.exp]_row

\* Answered: a goroutine that asks for a refresh, or waits for another's, gets
\* an answer.
Answered == \A t \in Thread : pc[t] = "leased" ~> pc[t] = "idle"

\* Where the one working credential is, read off the token the row names.
place ==
  CASE Usable(row.token)              -> "stored"
    [] fate[row.token] = "spent"      -> "hand"
    [] fate[row.token] = "orphaned"   -> "lost"
    [] fate[row.token] = "revoked"    -> "revoked"
    [] OTHER                          -> "none"

Keeping == INSTANCE TokenCustody WITH place <- place, dead <- row.dead

\* KeepsCustody: refreshes, however many ask, in however many processes, with
\* crashes between any two steps, keep the one working credential in one
\* place, as TokenCustody says.
KeepsCustody == Keeping!Spec

=============================================================================
