-------------------------- MODULE SecretsProofs --------------------------
(***************************************************************************)
(* Secrets that are replaced while others have the old one in hand: what   *)
(* TokenRefresh keeps for any number of workers, goroutines and answers of *)
(* the token endpoint, and ClientSetup for any number of handlers, commands*)
(* and requests that come with a client's key.                             *)
(***************************************************************************)
EXTENDS TokenRefresh, ClientSetup, TLAPS

\* A goroutine that holds the replacement of a token, or a new grant.
Holding == {"persist", "target", "renew", "handback"}

\* What a goroutine goes on to use, it has.
Hands ==
  \A t \in Thread :
    /\ pc[t] \in {"exchange", "refused", "persist"} => tok[t] # NoToken
    /\ pc[t] \in Holding => got[t] # NoToken

Typed == TypeOK /\ Hands

LEMMA NoTokenIsNone == NoToken \notin Token
BY RefreshAssumption DEF NoToken, Token, RefreshAssumption

\* What the typing steps need of the sets of constants.
LEMMA StepNames ==
  /\ "idle" \in PC /\ "leased" \in PC /\ "wait" \in PC /\ "return" \in PC
  /\ "look" \in PC /\ "lock" \in PC /\ "finish" \in PC
  /\ "reread" \in PC /\ "tokens" \in PC /\ "exchange" \in PC /\ "refused" \in PC
  /\ "persist" \in PC /\ "target" \in PC /\ "renew" \in PC /\ "handback" \in PC
  /\ "revoke" \in PC /\ "remove" \in PC
BY DEF PC, Leading, UnderLock

LEMMA FateNames ==
  /\ "unissued" \in Fate /\ "live" \in Fate /\ "kept" \in Fate /\ "spent" \in Fate
  /\ "orphaned" \in Fate /\ "stray" \in Fate /\ "revoked" \in Fate
BY DEF Fate

LEMMA ResultNames ==
  "none" \in Result /\ "ok" \in Result /\ "dead" \in Result /\ "error" \in Result
    /\ "cancelled" \in Result
BY DEF Result

\* Losing answers leaves every token a fate.
LEMMA LoseType ==
  ASSUME TypeOK, NEW gone, Lose(gone)
  PROVE  fate' \in [Token -> Fate]
BY FateNames DEF Lose, TypeOK

\* Type correctness: every goroutine is at a step the module names, and
\* tokens, rows and outcomes are what they are said to be, of pool.go's
\* Refresh and the operator's reconnect and delete alike.
LEMMA TypeCorrect == Spec => []Typed
<1> USE StepNames, FateNames, ResultNames
<1>1. Init => Typed
  BY RefreshAssumption DEF RefreshAssumption, Init, Typed, Hands, Holding, TypeOK, Token
<1>2. Typed /\ [Next]_vars => Typed'
  <2> SUFFICES ASSUME Typed, Next \/ UNCHANGED vars PROVE Typed'
    OBVIOUS
  <2> USE NoTokenIsNone DEF Typed, TypeOK, Hands, Holding, Goto, mine
  <2>1. ASSUME NEW t \in Thread, Lease(t) PROVE Typed'
    BY <2>1 DEF Lease
  <2>2. ASSUME NEW t \in Thread, Consent(t) PROVE Typed'
    BY <2>2 DEF Consent
  <2>3. ASSUME NEW t \in Thread, ReadDoomed(t) PROVE Typed'
    BY <2>3 DEF ReadDoomed
  <2>4. ASSUME NEW t \in Thread, Join(t) PROVE Typed'
    BY <2>4, RefreshAssumption DEF Join, RefreshAssumption
  <2>5. ASSUME NEW t \in Thread, Lead(t) PROVE Typed'
    BY <2>5, RefreshAssumption DEF Lead, RefreshAssumption
  <2>6. ASSUME NEW t \in Thread, Cancel(t) PROVE Typed'
    BY <2>6 DEF Cancel
  <2>7. ASSUME NEW t \in Thread, Finish(t) PROVE Typed'
    BY <2>7, RefreshAssumption DEF Finish, RefreshAssumption
  <2>8. ASSUME NEW t \in Thread, Return(t) PROVE Typed'
    BY <2>8 DEF Return
  <2>9. ASSUME NEW t \in Thread, Look(t) PROVE Typed'
    BY <2>9 DEF Look, Done, hand
  <2>10. ASSUME NEW t \in Thread, TakeLock(t) PROVE Typed'
    BY <2>10 DEF TakeLock
  <2>11. ASSUME NEW t \in Thread, SkipLock(t) PROVE Typed'
    BY <2>11 DEF SkipLock
  <2>12. ASSUME NEW t \in Thread, LockTimeout(t) PROVE Typed'
    BY <2>12 DEF LockTimeout, Done
  <2>13. ASSUME NEW t \in Thread, Reread(t) PROVE Typed'
    BY <2>13 DEF Reread, Done
  <2>14. ASSUME NEW t \in Thread, ReadTokens(t) PROVE Typed'
    BY <2>14 DEF ReadTokens, Done
  <2>15. ASSUME NEW t \in Thread, Exchange(t) PROVE Typed'
    BY <2>15 DEF Exchange, Rotated, Kept, AnswerLost, Refused, Unreached, Done, hand
  <2>16. ASSUME NEW t \in Thread, MarkDead(t) PROVE Typed'
    BY <2>16 DEF MarkDead, Done
  <2>17. ASSUME NEW t \in Thread, Persist(t) PROVE Typed'
    <3>1. row' \in [present : BOOLEAN, token : Token, exp : Token, dead : BOOLEAN, due : BOOLEAN]
      <4>1. CASE row' = row
        BY <4>1
      <4>2. CASE row' = [row EXCEPT !.token = TokenOf(t), !.exp = got[t], !.due = FALSE]
        BY <4>2, <2>17 DEF Persist, TokenOf
      <4>3. QED
        BY <2>17, <4>1, <4>2 DEF Persist
    <3>2. fate' \in [Token -> Fate]
      BY <2>17, LoseType DEF Persist
    <3>3. QED
      BY <2>17, <3>1, <3>2 DEF Persist, Done
  <2>18. ASSUME NEW t \in Thread, ReadTarget(t) PROVE Typed'
    BY <2>18 DEF ReadTarget
  <2>19. ASSUME NEW t \in Thread, Renew(t) PROVE Typed'
    <3>1. fate' \in [Token -> Fate]
      BY <2>19, LoseType DEF Renew
    <3>2. row' \in [present : BOOLEAN, token : Token, exp : Token, dead : BOOLEAN, due : BOOLEAN]
      <4>1. CASE row' = row
        BY <4>1
      <4>2. CASE row' = [present |-> TRUE, token |-> got[t], exp |-> got[t],
                         dead |-> FALSE, due |-> FALSE]
        BY <4>2, <2>19 DEF Renew
      <4>3. QED
        BY <2>19, <4>1, <4>2 DEF Renew
    <3>3. QED
      BY <2>19, <3>1, <3>2 DEF Renew
  <2>20. ASSUME NEW t \in Thread, HandBack(t) PROVE Typed'
    BY <2>20 DEF HandBack, Revoked, RevokeFailed
  <2>21. ASSUME NEW t \in Thread, RevokeDoomed(t) PROVE Typed'
    BY <2>21 DEF RevokeDoomed, Revoked, RevokeFailed
  <2>22. ASSUME NEW t \in Thread, Remove(t) PROVE Typed'
    BY <2>22 DEF Remove
  <2>23. ASSUME Expire PROVE Typed'
    BY <2>23 DEF Expire
  <2>24. ASSUME NEW w \in Worker, Crash(w) PROVE Typed'
    BY <2>24 DEF Crash, Lose
  <2>25. ASSUME NEW k \in Token, ProviderRevokes(k) PROVE Typed'
    BY <2>25 DEF ProviderRevokes
  <2>26. CASE UNCHANGED vars
    BY <2>26 DEF vars
  <2>27. QED
    BY <2>1, <2>2, <2>3, <2>4, <2>5, <2>6, <2>7, <2>8, <2>9, <2>10, <2>11, <2>12, <2>13,
       <2>14, <2>15, <2>16, <2>17, <2>18, <2>19, <2>20, <2>21, <2>22, <2>23, <2>24, <2>25, <2>26
    DEF Next, Begin, Work, Environment
<1>3. QED
  BY <1>1, <1>2, PTL DEF Spec

\* TypeOK: in every reachable state, for any number of workers and goroutines.
THEOREM TypeHolds == Spec => []TypeOK
<1>1. Typed => TypeOK
  BY DEF Typed
<1>2. QED
  BY <1>1, TypeCorrect, PTL

-----------------------------------------------------------------------------
(* One refresh per process *)

\* A goroutine leading a refresh is the one on its process's record.
OnRecord == \A t \in Thread : pc[t] \in Leading => refreshing[WorkerOf[t]] = t

\* SingleFlight, in each process, whether or not the file lock can be taken.
THEOREM SingleFlightHolds == Spec => []SingleFlight
<1>1. Init => OnRecord
  BY DEF Init, OnRecord, Leading, UnderLock
<1>2. Typed /\ OnRecord /\ [Next]_vars => OnRecord'
  <2> SUFFICES ASSUME Typed, OnRecord, Next \/ UNCHANGED vars PROVE OnRecord'
    OBVIOUS
  <2> USE RefreshAssumption
      DEF RefreshAssumption, Typed, TypeOK, OnRecord, Goto, mine, Leading, UnderLock
  <2>1. ASSUME NEW t \in Thread, Begin(t) PROVE OnRecord'
    BY <2>1 DEF Begin, Lease, Consent, ReadDoomed
  <2>2. ASSUME NEW t \in Thread, Join(t) \/ Lead(t) PROVE OnRecord'
    BY <2>2 DEF Join, Lead
  <2>3. ASSUME NEW t \in Thread, Cancel(t) \/ Finish(t) \/ Return(t) PROVE OnRecord'
    BY <2>3 DEF Cancel, Finish, Return
  <2>4. ASSUME NEW t \in Thread, Look(t) \/ TakeLock(t) \/ SkipLock(t) \/ LockTimeout(t)
        PROVE OnRecord'
    BY <2>4 DEF Look, TakeLock, SkipLock, LockTimeout, Done
  <2>5. ASSUME NEW t \in Thread, Reread(t) \/ ReadTokens(t) PROVE OnRecord'
    BY <2>5 DEF Reread, ReadTokens, Done
  <2>6. ASSUME NEW t \in Thread, Exchange(t) \/ MarkDead(t) \/ Persist(t) PROVE OnRecord'
    BY <2>6 DEF Exchange, Rotated, Kept, AnswerLost, Refused, Unreached, MarkDead, Persist, Done
  <2>7. ASSUME NEW t \in Thread,
               ReadTarget(t) \/ Renew(t) \/ HandBack(t) \/ RevokeDoomed(t) \/ Remove(t)
        PROVE OnRecord'
    BY <2>7 DEF ReadTarget, Renew, HandBack, RevokeDoomed, Remove
  <2>8. ASSUME Environment PROVE OnRecord'
    <3>1. ASSUME NEW w \in Worker, Crash(w) PROVE OnRecord'
      <4>1. SUFFICES ASSUME NEW t \in Thread, pc'[t] \in Leading PROVE refreshing'[WorkerOf[t]] = t
        BY DEF Leading, UnderLock
      <4>2. WorkerOf[t] # w /\ pc'[t] = pc[t]
        BY <3>1, <4>1 DEF Crash
      <4>3. QED
        BY <3>1, <4>1, <4>2 DEF Crash
    <3>2. QED
      BY <2>8, <3>1 DEF Environment, Expire, ProviderRevokes
  <2>9. CASE UNCHANGED vars
    BY <2>9 DEF vars
  <2>10. QED
    BY <2>1, <2>2, <2>3, <2>4, <2>5, <2>6, <2>7, <2>8, <2>9 DEF Next, Work
<1>3. OnRecord => SingleFlight
  BY DEF OnRecord, SingleFlight
<1>4. QED
  BY <1>1, <1>2, <1>3, TypeCorrect, PTL DEF Spec

-----------------------------------------------------------------------------
(* One exchange across processes *)

\* Past the file lock, it is held.
Locked == \A t \in Thread : pc[t] \in UnderLock => lock = t

\* OneExchange, with a file lock that can be taken: across any number of
\* processes, their crashes, and the operator's reconnects and deletes.
THEOREM LockedHolds == ASSUME LockUsable PROVE Spec => []Locked
<1>1. Init => Locked
  BY DEF Init, Locked, UnderLock
<1>2. Typed /\ Locked /\ [Next]_vars => Locked'
  <2> SUFFICES ASSUME Typed, Locked, Next \/ UNCHANGED vars PROVE Locked'
    OBVIOUS
  <2> USE LockUsable, RefreshAssumption
      DEF RefreshAssumption, Typed, TypeOK, Locked, Goto, mine, UnderLock
  <2>1. ASSUME NEW t \in Thread, Begin(t) PROVE Locked'
    BY <2>1 DEF Begin, Lease, Consent, ReadDoomed
  <2>2. ASSUME NEW t \in Thread, Join(t) \/ Lead(t) PROVE Locked'
    BY <2>2 DEF Join, Lead
  <2>3. ASSUME NEW t \in Thread, Cancel(t) \/ Finish(t) \/ Return(t) PROVE Locked'
    BY <2>3 DEF Cancel, Finish, Return
  <2>4. ASSUME NEW t \in Thread, Look(t) \/ TakeLock(t) \/ SkipLock(t) \/ LockTimeout(t)
        PROVE Locked'
    BY <2>4 DEF Look, TakeLock, SkipLock, LockTimeout, Done, hand
  <2>5. ASSUME NEW t \in Thread, Reread(t) \/ ReadTokens(t) PROVE Locked'
    BY <2>5 DEF Reread, ReadTokens, Done
  <2>6. ASSUME NEW t \in Thread, Exchange(t) \/ MarkDead(t) \/ Persist(t) PROVE Locked'
    BY <2>6 DEF Exchange, Rotated, Kept, AnswerLost, Refused, Unreached, MarkDead, Persist, Done, hand
  <2>7. ASSUME NEW t \in Thread,
               ReadTarget(t) \/ Renew(t) \/ HandBack(t) \/ RevokeDoomed(t) \/ Remove(t)
        PROVE Locked'
    BY <2>7 DEF ReadTarget, Renew, HandBack, RevokeDoomed, Remove
  <2>8. ASSUME Environment PROVE Locked'
    <3>1. ASSUME NEW w \in Worker, Crash(w) PROVE Locked'
      <4>1. SUFFICES ASSUME NEW t \in Thread, pc'[t] \in UnderLock PROVE lock' = t
        OBVIOUS
      <4>2. WorkerOf[t] # w /\ pc'[t] = pc[t]
        BY <3>1, <4>1 DEF Crash
      <4>3. lock = t
        BY <4>1, <4>2
      <4>4. QED
        BY <3>1, <4>2, <4>3 DEF Crash
    <3>2. QED
      BY <2>8, <3>1 DEF Environment, Expire, ProviderRevokes
  <2>9. CASE UNCHANGED vars
    BY <2>9 DEF vars
  <2>10. QED
    BY <2>1, <2>2, <2>3, <2>4, <2>5, <2>6, <2>7, <2>8, <2>9 DEF Next, Work
<1>3. QED
  BY <1>1, <1>2, TypeCorrect, PTL DEF Spec

THEOREM OneExchangeHolds == ASSUME LockUsable PROVE Spec => []OneExchange
<1>1. Locked => OneExchange
  BY DEF Locked, OneExchange, Exchanging, UnderLock
<1>2. QED
  BY <1>1, LockedHolds, PTL

-----------------------------------------------------------------------------
(* The one working credential *)

Consenting == {"target", "renew", "handback"}
InHand == {"exchange", "refused", "persist"}

\* No token is used that the endpoint has yet to issue.
KnownTokens ==
  /\ fate[row.token] # "unissued"
  /\ \A t \in Thread : pc[t] \in InHand => fate[tok[t]] # "unissued"

\* What a refresh is about to store is not spent, be it the answer's token or
\* the one the answer left good.
GoodAnswers ==
  \A t \in Thread : pc[t] = "persist" =>
    /\ fate[got[t]] \notin {"spent", "unissued"}
    /\ fate[got[t]] = "kept" => fate[tok[t]] # "spent"

\* A reconnect's grant is nobody else's until it is stored.
GrantsApart ==
  \A t \in Thread : pc[t] \in Consenting =>
    /\ fate[got[t]] \notin {"spent", "unissued"}
    /\ row.token # got[t]
    /\ \A u \in Thread :
         /\ pc[u] \in InHand => tok[u] # got[t]
         /\ u # t /\ pc[u] \in Holding => got[u] # got[t]

\* Custody and NeverSpent are not inductive without what precedes.
OneWorks == KnownTokens /\ GoodAnswers /\ GrantsApart /\ Custody /\ NeverSpent

\* The endpoint's next answer is one it has not given.
LEMMA NextIsUnissued ==
  ASSUME NEW n \in Token, IsNext(n)
  PROVE  fate[n] = "unissued"
BY DEF IsNext, Token

\* Losing answers only turns spent into orphaned, and live into stray.
LEMMA LoseFates ==
  ASSUME Typed, NEW gone, Lose(gone), NEW k \in Token
  PROVE  /\ fate'[k] = fate[k]
            \/ (fate[k] = "spent" /\ fate'[k] = "orphaned")
            \/ (fate[k] = "live" /\ fate'[k] = "stray")
         /\ \A t \in gone : pc[t] = "persist" /\ tok[t] = k => fate'[k] # "spent"
BY DEF Typed, TypeOK, Lose

\* OneWorks is kept by every step, with a file lock that can be taken.
LEMMA OneWorksHolds == ASSUME LockUsable PROVE Spec => []OneWorks
<1>1. Init => OneWorks
  BY RefreshAssumption
     DEF RefreshAssumption, Init, OneWorks, KnownTokens, GoodAnswers, GrantsApart, Custody, NeverSpent,
         Consenting, InHand, Holding, Token
<1>2. Typed /\ Locked /\ OneWorks /\ [Next]_vars => OneWorks'
  <2> SUFFICES ASSUME Typed, Locked, OneWorks, Next \/ UNCHANGED vars PROVE OneWorks'
    OBVIOUS
  <2> USE NoTokenIsNone
      DEF Typed, TypeOK, Hands, Holding, Consenting, InHand, Goto, mine,
          OneWorks, KnownTokens, GoodAnswers, GrantsApart, Custody, NeverSpent
  <2>1. ASSUME NEW t \in Thread, Lease(t) PROVE OneWorks'
    BY <2>1 DEF Lease
  <2>2. ASSUME NEW t \in Thread, Join(t) PROVE OneWorks'
    BY <2>2 DEF Join
  <2>3. ASSUME NEW t \in Thread, Lead(t) PROVE OneWorks'
    BY <2>3 DEF Lead
  <2>4. ASSUME NEW t \in Thread, Cancel(t) PROVE OneWorks'
    BY <2>4 DEF Cancel
  <2>5. ASSUME NEW t \in Thread, Finish(t) PROVE OneWorks'
    BY <2>5 DEF Finish
  <2>6. ASSUME NEW t \in Thread, Return(t) PROVE OneWorks'
    BY <2>6 DEF Return
  <2>7. ASSUME NEW t \in Thread, Look(t) PROVE OneWorks'
    BY <2>7 DEF Look, Done, hand
  <2>8. ASSUME NEW t \in Thread, TakeLock(t) PROVE OneWorks'
    BY <2>8 DEF TakeLock
  <2>9. ASSUME NEW t \in Thread, SkipLock(t) PROVE OneWorks'
    BY <2>9 DEF SkipLock
  <2>10. ASSUME NEW t \in Thread, LockTimeout(t) PROVE OneWorks'
    BY <2>10 DEF LockTimeout, Done
  <2>11. ASSUME NEW t \in Thread, Reread(t) PROVE OneWorks'
    BY <2>11 DEF Reread, Done
  <2>12. ASSUME NEW t \in Thread, MarkDead(t) PROVE OneWorks'
    BY <2>12 DEF MarkDead, Done
  <2>13. ASSUME NEW t \in Thread, ReadTarget(t) PROVE OneWorks'
    BY <2>13 DEF ReadTarget
  <2>14. ASSUME NEW t \in Thread, ReadDoomed(t) PROVE OneWorks'
    BY <2>14 DEF ReadDoomed
  <2>15. ASSUME NEW t \in Thread, Remove(t) PROVE OneWorks'
    BY <2>15 DEF Remove
  <2>16. ASSUME NEW t \in Thread, RevokeDoomed(t) PROVE OneWorks'
    BY <2>16 DEF RevokeDoomed, Revoked, RevokeFailed, Usable
  <2>17. ASSUME NEW t \in Thread, HandBack(t) PROVE OneWorks'
    BY <2>17 DEF HandBack, Revoked, RevokeFailed, Usable
  <2>18. ASSUME NEW t \in Thread, Consent(t) PROVE OneWorks'
    <3>1. PICK n \in Token : /\ fate[n] = "unissued"
                             /\ fate' = [fate EXCEPT ![n] = "live"]
                             /\ got' = [got EXCEPT ![t] = n]
      BY <2>18, NextIsUnissued DEF Consent
    <3>2. /\ pc[t] = "idle" /\ pc' = [pc EXCEPT ![t] = "target"]
          /\ row' = row /\ tok' = tok
      BY <2>18 DEF Consent
    <3>3. /\ row.token # n
          /\ \A u \in Thread : pc[u] \in InHand => tok[u] # n
          /\ \A u \in Thread : pc[u] \in Holding => got[u] # n
      BY <3>1
    <3>4. KnownTokens' /\ GoodAnswers' /\ NeverSpent' /\ Custody'
      BY <3>1, <3>2, <3>3
    <3>5. GrantsApart'
      BY <3>1, <3>2, <3>3
    <3>6. QED
      BY <3>4, <3>5
  <2>19. ASSUME NEW t \in Thread, ReadTokens(t) PROVE OneWorks'
    BY <2>19 DEF ReadTokens, Done, Locked, UnderLock
  <2>20. ASSUME NEW t \in Thread, Exchange(t) PROVE OneWorks'
    <3>1. /\ pc[t] = "exchange" /\ tok[t] \in Token
          /\ row' = row /\ fate[tok[t]] \notin {"spent", "unissued"}
      BY <2>20 DEF Exchange
    <3>2. \A u \in Thread : pc[u] \in InHand => u = t
      BY <3>1 DEF Locked, UnderLock
    <3>3. CASE \E n \in Token : IsNext(n) /\ Rotated(t, n)
      <4>1. PICK n \in Token : IsNext(n) /\ Rotated(t, n)
        BY <3>3
      <4>2. fate[n] = "unissued" /\ n # tok[t] /\ n # row.token
        BY <4>1, <3>1 DEF IsNext, Token
      <4>3. \A u \in Thread : pc[u] \in Consenting => got[u] # n /\ got[u] # tok[t] /\ got[u] # row.token
        BY <4>2, <3>1
      <4>4. /\ fate' = [fate EXCEPT ![tok[t]] = "spent", ![n] = "live"]
            /\ got' = [got EXCEPT ![t] = n] /\ tok' = tok
            /\ pc' = [pc EXCEPT ![t] = "persist"]
        BY <4>1 DEF Rotated
      <4>5. KnownTokens' /\ GoodAnswers' /\ NeverSpent'
        BY <3>1, <3>2, <4>2, <4>4
      <4>6. Custody'
        BY <3>1, <3>2, <4>2, <4>4
      <4>7. GrantsApart'
        BY <3>1, <3>2, <4>2, <4>3, <4>4
      <4>8. QED
        BY <4>5, <4>6, <4>7
    <3>4. CASE \E n \in Token : IsNext(n) /\ Kept(t, n)
      <4>1. PICK n \in Token : IsNext(n) /\ Kept(t, n)
        BY <3>4
      <4>2. fate[n] = "unissued" /\ n # tok[t] /\ n # row.token
        BY <4>1, <3>1 DEF IsNext, Token
      <4>3. \A u \in Thread : pc[u] \in Consenting => got[u] # n /\ got[u] # tok[t]
        BY <4>2, <3>1
      <4>4. /\ fate' = [fate EXCEPT ![n] = "kept"]
            /\ got' = [got EXCEPT ![t] = n] /\ tok' = tok
            /\ pc' = [pc EXCEPT ![t] = "persist"]
        BY <4>1 DEF Kept
      <4>5. KnownTokens' /\ GoodAnswers' /\ NeverSpent' /\ Custody'
        BY <3>1, <3>2, <4>2, <4>4
      <4>6. GrantsApart'
        BY <3>1, <3>2, <4>2, <4>3, <4>4
      <4>7. QED
        BY <4>5, <4>6
    <3>5. CASE \E n \in Token : IsNext(n) /\ AnswerLost(t, n)
      <4>1. PICK n \in Token : IsNext(n) /\ AnswerLost(t, n)
        BY <3>5
      <4>2. fate[n] = "unissued" /\ n # tok[t] /\ n # row.token
        BY <4>1, <3>1 DEF IsNext, Token
      <4>3. /\ fate' = [fate EXCEPT ![tok[t]] = "orphaned", ![n] = "stray"]
            /\ got' = [got EXCEPT ![t] = NoToken] /\ tok' = [tok EXCEPT ![t] = NoToken]
            /\ pc' = [pc EXCEPT ![t] = "finish"]
        BY <4>1 DEF AnswerLost, Done
      <4>4. KnownTokens' /\ GoodAnswers' /\ NeverSpent' /\ Custody'
        BY <3>1, <3>2, <4>2, <4>3
      <4>5. GrantsApart'
        BY <3>1, <3>2, <4>2, <4>3
      <4>6. QED
        BY <4>4, <4>5
    <3>6. CASE Refused(t) \/ Unreached(t)
      BY <3>1, <3>2, <3>6 DEF Refused, Unreached, Done, hand
    <3>7. QED
      BY <2>20, <3>3, <3>4, <3>5, <3>6 DEF Exchange
  <2>21. ASSUME NEW t \in Thread, Persist(t) PROVE OneWorks'
    <3>1. /\ pc[t] = "persist" /\ got[t] \in Token /\ tok[t] \in Token
          /\ pc' = [pc EXCEPT ![t] = "finish"]
          /\ got' = [got EXCEPT ![t] = NoToken] /\ tok' = [tok EXCEPT ![t] = NoToken]
      BY <2>21 DEF Persist, Done
    <3>2. \A u \in Thread : pc[u] \in InHand => u = t
      BY <3>1 DEF Locked, UnderLock
    <3>3. CASE row' = [row EXCEPT !.token = TokenOf(t), !.exp = got[t], !.due = FALSE] /\ fate' = fate
      <4>1. /\ row'.token = TokenOf(t)
            /\ fate[TokenOf(t)] \notin {"spent", "unissued"}
        BY <3>1, <3>3 DEF TokenOf
      <4>2. \A u \in Thread : pc[u] \in Consenting => got[u] # TokenOf(t)
        BY <3>1 DEF TokenOf
      <4>3. QED
        BY <3>1, <3>2, <3>3, <4>1, <4>2
    <3>4. CASE row' = row /\ row.present /\ Lose({t})
      <4>1. fate'[row.token] # "spent"
        BY <3>1, <3>2, <3>4, LoseFates
      <4>2. QED
        BY <3>1, <3>2, <3>4, <4>1, LoseFates
    <3>5. CASE row' = row /\ ~row.present /\ fate' = fate
      BY <3>1, <3>2, <3>5
    <3>6. QED
      BY <2>21, <3>3, <3>4, <3>5 DEF Persist
  <2>22. ASSUME NEW t \in Thread, Renew(t) PROVE OneWorks'
    <3>1. /\ pc[t] = "renew" /\ got[t] \in Token
          /\ pc' = [pc EXCEPT ![t] = "idle"]
          /\ got' = [got EXCEPT ![t] = NoToken] /\ tok' = tok
      BY <2>22 DEF Renew
    <3>2. CASE row'.token = got[t] /\ fate' = fate
      BY <3>1, <3>2
    <3>3. CASE row' = row /\ Lose({t})
      <4>1. KnownTokens' /\ GoodAnswers' /\ NeverSpent'
        BY <3>1, <3>3, LoseFates
      <4>2. Custody'
        BY <3>1, <3>3, LoseFates
      <4>3. GrantsApart'
        BY <3>1, <3>3, LoseFates
      <4>4. QED
        BY <4>1, <4>2, <4>3
    <3>4. CASE row' = row /\ fate' = fate
      BY <3>1, <3>4
    <3>5. QED
      BY <2>22, <3>2, <3>3, <3>4 DEF Renew
  <2>23. ASSUME Expire PROVE OneWorks'
    BY <2>23 DEF Expire
  <2>24. ASSUME NEW w \in Worker, Crash(w) PROVE OneWorks'
    BY <2>24, LoseFates DEF Crash
  <2>25. ASSUME NEW k \in Token, ProviderRevokes(k) PROVE OneWorks'
    BY <2>25 DEF ProviderRevokes
  <2>26. CASE UNCHANGED vars
    BY <2>26 DEF vars
  <2>27. QED
    BY <2>1, <2>2, <2>3, <2>4, <2>5, <2>6, <2>7, <2>8, <2>9, <2>10, <2>11, <2>12, <2>13,
       <2>14, <2>15, <2>16, <2>17, <2>18, <2>19, <2>20, <2>21, <2>22, <2>23, <2>24, <2>25, <2>26
    DEF Next, Begin, Work, Environment
<1>3. QED
  BY <1>1, <1>2, TypeCorrect, LockedHolds, PTL DEF Spec

\* Custody: a stored token that is spent is about to be replaced, for any
\* number of processes and whatever crashes, with a file lock that can be taken.
THEOREM CustodyHolds == ASSUME LockUsable PROVE Spec => []Custody
<1>1. OneWorks => Custody
  BY DEF OneWorks
<1>2. QED
  BY <1>1, OneWorksHolds, PTL

\* NeverSpent: no exchange presents a token already spent, reconnects and
\* deletes included.
THEOREM NeverSpentHolds == ASSUME LockUsable PROVE Spec => []NeverSpent
<1>1. OneWorks => NeverSpent
  BY DEF OneWorks
<1>2. QED
  BY <1>1, OneWorksHolds, PTL

\* One refresh in a process and one exchange across processes, when the file
\* lock can be taken (Pool.Refresh, FileLock).
THEOREM OneAtATimeHolds == ASSUME LockUsable PROVE Spec => []OneAtATime
  BY SingleFlightHolds, OneExchangeHolds, PTL DEF OneAtATime

-----------------------------------------------------------------------------
(* A refresh that worked has replaced what was due *)

\* Every answer is stored at most once: the one a goroutine is to store is
\* neither stored, nor found due by anybody, nor another's to store.
StoredOnce ==
  /\ fate[row.exp] # "unissued"
  /\ \A t \in Thread :
       /\ seen[t] # NoToken => fate[seen[t]] # "unissued"
       /\ pc[t] \in Holding =>
            /\ fate[got[t]] # "unissued"
            /\ got[t] # row.exp
            /\ \A u \in Thread :
                 /\ got[t] # seen[u]
                 /\ u # t /\ pc[u] \in Holding => got[u] # got[t]

\* What was found due is due until it is replaced, and nothing is due when a
\* refresh that worked is about to say so.
DueIsReplaced ==
  \A t \in Thread :
    /\ seen[t] # NoToken /\ seen[t] = row.exp => row.due
    /\ pc[t] = "finish" /\ result[t] = "ok" => ~row.due

Replacing == StoredOnce /\ DueIsReplaced /\ OkIsReplaced

\* No token goes back to what it was before the endpoint issued it.
IssuedStays == \A k \in Token : fate[k] # "unissued" => fate'[k] # "unissued"

\* A step that stores nothing, finds nothing due and is given no answer.
LEMMA ReplacingKept ==
  ASSUME Typed, Replacing, IssuedStays,
         row' = row, seen' = seen,
         \A t \in Thread : pc'[t] \in Holding => pc[t] \in Holding /\ got'[t] = got[t],
         \A t \in Thread : pc'[t] = "finish" /\ result'[t] = "ok" => ~row.due,
         \A t \in Thread :
           pc'[t] = "return" /\ result'[t] = "ok" =>
             ~row.due \/ (pc[t] = "return" /\ result[t] = "ok")
  PROVE  Replacing'
<1>1. \A t \in Thread : pc[t] \in Holding => got[t] \in Token
  BY DEF Typed, TypeOK, Hands
<1>2. \A t \in Thread : seen[t] # NoToken => seen[t] \in Token
  BY DEF Typed, TypeOK
<1>3. StoredOnce'
  BY <1>1, <1>2 DEF Typed, TypeOK, Replacing, StoredOnce, IssuedStays
<1>4. DueIsReplaced'
  BY DEF Replacing, DueIsReplaced
<1>5. OkIsReplaced'
  BY DEF Replacing, DueIsReplaced, OkIsReplaced
<1>6. QED
  BY <1>3, <1>4, <1>5 DEF Replacing

\* OkIsReplaced, with a file lock or without one, and whatever the operator and
\* the crashes do.
THEOREM OkIsReplacedHolds == Spec => []OkIsReplaced
<1>1. Init => Replacing
  BY RefreshAssumption
     DEF RefreshAssumption, Init, Replacing, StoredOnce, DueIsReplaced, OkIsReplaced, Holding, Token
<1>2. Typed /\ Replacing /\ [Next]_vars => Replacing'
  <2> SUFFICES ASSUME Typed, Replacing, Next \/ UNCHANGED vars PROVE Replacing'
    OBVIOUS
  <2> USE NoTokenIsNone DEF Goto, mine
  <2> USE DEF Typed, TypeOK, Hands
  <2>1. ASSUME NEW t \in Thread, Lease(t) PROVE Replacing'
    BY <2>1 DEF Lease, Replacing, StoredOnce, DueIsReplaced, OkIsReplaced, Holding
  <2>2. ASSUME NEW t \in Thread, Consent(t) PROVE Replacing'
    <3>1. PICK n \in Token : /\ fate[n] = "unissued"
                             /\ fate' = [fate EXCEPT ![n] = "live"]
                             /\ got' = [got EXCEPT ![t] = n]
      BY <2>2, NextIsUnissued DEF Consent
    <3>2. /\ pc[t] = "idle" /\ pc' = [pc EXCEPT ![t] = "target"]
          /\ row' = row /\ seen' = seen /\ result' = result
      BY <2>2 DEF Consent
    <3>3. /\ row.exp # n
          /\ \A u \in Thread : seen[u] # n
          /\ \A u \in Thread : pc[u] \in Holding => got[u] # n
      BY <3>1 DEF Replacing, StoredOnce
    <3>4. QED
      BY <3>1, <3>2, <3>3 DEF Replacing, StoredOnce, DueIsReplaced, OkIsReplaced, Holding
  <2>3. ASSUME NEW t \in Thread, ReadDoomed(t) \/ Join(t) \/ Lead(t) \/ Cancel(t)
        PROVE Replacing'
    BY <2>3, ReplacingKept
    DEF ReadDoomed, Join, Lead, Cancel, IssuedStays, Holding, Replacing, DueIsReplaced
  <2>4. ASSUME NEW t \in Thread, Finish(t) PROVE Replacing'
    BY <2>4, ReplacingKept DEF Finish, IssuedStays, Holding, Replacing, DueIsReplaced
  <2>5. ASSUME NEW t \in Thread, Return(t) PROVE Replacing'
    BY <2>5 DEF Return, Replacing, StoredOnce, DueIsReplaced, OkIsReplaced, Holding
  <2>6. ASSUME NEW t \in Thread, Look(t) \/ TakeLock(t) \/ SkipLock(t) \/ LockTimeout(t)
        PROVE Replacing'
    BY <2>6, ReplacingKept
    DEF Look, TakeLock, SkipLock, LockTimeout, Done, hand, IssuedStays, Holding, Replacing, DueIsReplaced
  <2>7. ASSUME NEW t \in Thread, Reread(t) \/ ReadTokens(t) PROVE Replacing'
    BY <2>7, ReplacingKept
    DEF Reread, ReadTokens, AlreadyDone, Done, IssuedStays, Holding, Replacing, DueIsReplaced
  <2>8. ASSUME NEW t \in Thread, Exchange(t) PROVE Replacing'
    <3>1. /\ pc[t] = "exchange" /\ row' = row /\ seen' = seen /\ tok[t] \in Token
      BY <2>8 DEF Exchange
    <3>2. CASE \E n \in Token : IsNext(n) /\ (Rotated(t, n) \/ Kept(t, n))
      <4>1. PICK n \in Token : IsNext(n) /\ (Rotated(t, n) \/ Kept(t, n))
        BY <3>2
      <4>2. /\ fate[n] = "unissued" /\ fate'[n] # "unissued" /\ IssuedStays
            /\ got' = [got EXCEPT ![t] = n] /\ pc' = [pc EXCEPT ![t] = "persist"]
            /\ result' = result
        BY <4>1, NextIsUnissued DEF Rotated, Kept, IssuedStays
      <4>3. /\ row.exp # n
            /\ \A u \in Thread : seen[u] # n
            /\ \A u \in Thread : pc[u] \in Holding => got[u] # n
        BY <4>2 DEF Replacing, StoredOnce
      <4>4. QED
        BY <3>1, <4>2, <4>3
        DEF Replacing, StoredOnce, DueIsReplaced, OkIsReplaced, Holding, IssuedStays
    <3>3. CASE \E n \in Token : IsNext(n) /\ AnswerLost(t, n)
      BY <3>1, <3>3, ReplacingKept
      DEF AnswerLost, Done, IssuedStays, Holding, Replacing, DueIsReplaced
    <3>4. CASE Refused(t) \/ Unreached(t)
      BY <3>1, <3>4, ReplacingKept
      DEF Refused, Unreached, Done, hand, IssuedStays, Holding, Replacing, DueIsReplaced
    <3>5. QED
      BY <2>8, <3>2, <3>3, <3>4 DEF Exchange
  <2>9. ASSUME NEW t \in Thread, MarkDead(t) PROVE Replacing'
    BY <2>9 DEF MarkDead, Done, Replacing, StoredOnce, DueIsReplaced, OkIsReplaced, Holding
  <2>10. ASSUME NEW t \in Thread, Persist(t) PROVE Replacing'
    <3>1. /\ pc[t] = "persist" /\ got[t] \in Token /\ seen' = seen
          /\ pc' = [pc EXCEPT ![t] = "finish"] /\ got' = [got EXCEPT ![t] = NoToken]
      BY <2>10 DEF Persist, Done, Holding
    <3>2. CASE /\ row' = [row EXCEPT !.token = TokenOf(t), !.exp = got[t], !.due = FALSE]
               /\ fate' = fate /\ Done(t, "ok")
      BY <3>1, <3>2 DEF Done, Replacing, StoredOnce, DueIsReplaced, OkIsReplaced, Holding
    <3>3. CASE row' = row /\ (Lose({t}) \/ fate' = fate) /\ Done(t, "error")
      <4>1. IssuedStays
        BY <3>3, LoseFates DEF IssuedStays
      <4>2. QED
        BY <3>1, <3>3, <4>1, ReplacingKept DEF Done, Holding, Replacing, DueIsReplaced
    <3>4. QED
      BY <2>10, <3>2, <3>3 DEF Persist
  <2>11. ASSUME NEW t \in Thread, Renew(t) PROVE Replacing'
    <3>1. /\ pc[t] = "renew" /\ got[t] \in Token /\ seen' = seen /\ result' = result
          /\ pc' = [pc EXCEPT ![t] = "idle"] /\ got' = [got EXCEPT ![t] = NoToken]
      BY <2>11 DEF Renew, Holding
    <3>2. CASE /\ row' = [present |-> TRUE, token |-> got[t], exp |-> got[t],
                          dead |-> FALSE, due |-> FALSE]
               /\ fate' = fate
      BY <3>1, <3>2 DEF Replacing, StoredOnce, DueIsReplaced, OkIsReplaced, Holding
    <3>3. CASE row' = row /\ (Lose({t}) \/ fate' = fate)
      <4>1. IssuedStays
        BY <3>3, LoseFates DEF IssuedStays
      <4>2. QED
        BY <3>1, <3>3, <4>1, ReplacingKept DEF Holding, Replacing, DueIsReplaced
    <3>4. QED
      BY <2>11, <3>2, <3>3 DEF Renew
  <2>12. ASSUME NEW t \in Thread, ReadTarget(t) \/ HandBack(t) \/ RevokeDoomed(t)
         PROVE Replacing'
    BY <2>12, ReplacingKept
    DEF ReadTarget, HandBack, RevokeDoomed, Revoked, RevokeFailed, IssuedStays, Holding,
        Replacing, DueIsReplaced
  <2>13. ASSUME NEW t \in Thread, Remove(t) PROVE Replacing'
    BY <2>13 DEF Remove, Replacing, StoredOnce, DueIsReplaced, OkIsReplaced, Holding
  <2>14. ASSUME Expire PROVE Replacing'
    BY <2>14 DEF Expire, Replacing, StoredOnce, DueIsReplaced, OkIsReplaced, Holding
  <2>15. ASSUME NEW k \in Token, ProviderRevokes(k) PROVE Replacing'
    BY <2>15, ReplacingKept DEF ProviderRevokes, IssuedStays, Holding, Replacing, DueIsReplaced
  <2>16. ASSUME NEW w \in Worker, Crash(w) PROVE Replacing'
    <3>1. IssuedStays
      BY <2>16, LoseFates DEF Crash, IssuedStays
    <3>2. QED
      BY <2>16, <3>1 DEF Crash, Replacing, StoredOnce, DueIsReplaced, OkIsReplaced, Holding, IssuedStays
  <2>17. CASE UNCHANGED vars
    BY <2>17 DEF vars, Replacing, StoredOnce, DueIsReplaced, OkIsReplaced, Holding
  <2>18. QED
    BY <2>1, <2>2, <2>3, <2>4, <2>5, <2>6, <2>7, <2>8, <2>9, <2>10, <2>11, <2>12, <2>13,
       <2>14, <2>15, <2>16, <2>17 DEF Next, Begin, Work, Environment
<1>3. QED
  BY <1>1, <1>2, TypeCorrect, PTL DEF Spec, Replacing
-----------------------------------------------------------------------------
(* Without reconnects, who holds the file lock is alone to write the row *)

(***************************************************************************)
(* A reconnect writes the row under no lock, with a grant as old as its    *)
(* consent: with one, an older answer may replace a newer, and a refusal   *)
(* may mark the new grant dead (token_reconnect_race).  Without one, what  *)
(* a refresh has in hand is the row's own.                                 *)
(***************************************************************************)
OneWriter ==
  /\ fate[row.exp] # "unissued"
  /\ DeadIsRefused
  /\ \A t \in Thread :
       /\ pc[t] \notin Consenting
       /\ pc[t] \in InHand => tok[t] = row.token
       /\ pc[t] = "persist" => got[t] > row.exp
       /\ pc[t] = "refused" => ~Usable(tok[t])
       /\ row.present /\ row.dead => pc[t] \notin InHand \union {"tokens"}

\* The endpoint's next answer is later than any it has given.
LEMMA NextIsLater ==
  ASSUME NEW n \in Token, IsNext(n), NEW k \in Token, fate[k] # "unissued"
  PROVE  n > k
BY RefreshAssumption DEF IsNext, Token, RefreshAssumption

\* A token that is not usable stays so, once issued.
SpentStays == \A k \in Token : fate[k] # "unissued" /\ ~Usable(k) => ~Usable(k)'

\* A step that takes nobody further towards a new row.
LEMMA OneWriterKept ==
  ASSUME Typed, KnownTokens, OneWriter, IssuedStays, SpentStays,
         row' = row \/ row' = [row EXCEPT !.due = TRUE] \/ row' = [row EXCEPT !.present = FALSE],
         \A t \in Thread : pc'[t] \in Consenting => pc[t] \in Consenting,
         \A t \in Thread : pc'[t] \in InHand =>
           pc'[t] = pc[t] /\ tok'[t] = tok[t] /\ got'[t] = got[t],
         \A t \in Thread : pc'[t] = "tokens" => pc[t] = "tokens" \/ ~(row.present /\ row.dead)
  PROVE  OneWriter'
<1>1. row'.token = row.token /\ row'.exp = row.exp /\ row'.dead = row.dead
      /\ (row'.present => row.present) /\ row.token \in Token /\ row.exp \in Token
  BY DEF Typed, TypeOK
<1>2. \A t \in Thread : pc[t] \in InHand => tok[t] \in Token
  BY DEF Typed, TypeOK, Hands, InHand
<1>3. fate'[row'.exp] # "unissued" /\ DeadIsRefused'
  BY <1>1 DEF OneWriter, KnownTokens, DeadIsRefused, IssuedStays, SpentStays, Usable
<1>4. ASSUME NEW t \in Thread
      PROVE  /\ pc'[t] \notin Consenting
             /\ pc'[t] \in InHand => tok'[t] = row'.token
             /\ pc'[t] = "persist" => got'[t] > row'.exp
             /\ row'.present /\ row'.dead => pc'[t] \notin InHand \union {"tokens"}
  BY <1>1 DEF OneWriter, InHand
<1>5. ASSUME NEW t \in Thread, pc'[t] = "refused" PROVE ~Usable(tok[t])' /\ tok'[t] = tok[t]
  BY <1>2, <1>5 DEF OneWriter, KnownTokens, SpentStays, InHand, Usable
<1>6. QED
  BY <1>3, <1>4, <1>5 DEF OneWriter, Usable

\* OneWriter is kept by every step, with a file lock that can be taken and
\* nobody reconnecting the account: with deletes, crashes and any number of
\* processes.
LEMMA OneWriterHolds ==
  ASSUME LockUsable, "consent" \notin Ops
  PROVE  Spec => []OneWriter
<1>1. Init => OneWriter
  BY RefreshAssumption
     DEF RefreshAssumption, Init, OneWriter, DeadIsRefused, Consenting, InHand, Token
<1>2. Typed /\ Locked /\ OneWorks /\ OneWriter /\ [Next]_vars => OneWriter'
  <2> SUFFICES ASSUME Typed, Locked, OneWorks, OneWriter, Next \/ UNCHANGED vars PROVE OneWriter'
    OBVIOUS
  <2> USE NoTokenIsNone DEF Goto, mine
  <2> USE DEF Typed, TypeOK, Hands
  <2>0. KnownTokens /\ \A t \in Thread : pc[t] \notin Consenting
    BY DEF OneWorks, OneWriter
  <2>1. ASSUME NEW t \in Thread,
               Lease(t) \/ ReadDoomed(t) \/ Join(t) \/ Lead(t) \/ Cancel(t) \/ Finish(t) \/ Return(t)
        PROVE OneWriter'
    BY <2>0, <2>1, OneWriterKept
    DEF Lease, ReadDoomed, Join, Lead, Cancel, Finish, Return, IssuedStays, SpentStays, Usable,
        InHand, Consenting
  <2>2. ASSUME NEW t \in Thread, Consent(t) PROVE OneWriter'
    BY <2>2 DEF Consent
  <2>3. ASSUME NEW t \in Thread, Look(t) \/ TakeLock(t) \/ SkipLock(t) \/ LockTimeout(t) \/ Reread(t)
        PROVE OneWriter'
    BY <2>0, <2>3, OneWriterKept
    DEF Look, TakeLock, SkipLock, LockTimeout, Reread, Done, hand, IssuedStays, SpentStays, Usable,
        InHand, Consenting
  <2>4. ASSUME NEW t \in Thread, ReadTokens(t) PROVE OneWriter'
    <3>1. CASE Done(t, "error")
      BY <2>0, <2>4, <3>1, OneWriterKept
      DEF ReadTokens, Done, IssuedStays, SpentStays, Usable, InHand, Consenting
    <3>2. CASE ~Done(t, "error")
      BY <2>4, <3>2
      DEF ReadTokens, OneWriter, DeadIsRefused, Usable, InHand, Consenting
    <3>3. QED
      BY <3>1, <3>2
  <2>5. ASSUME NEW t \in Thread, Exchange(t) PROVE OneWriter'
    <3>1. /\ pc[t] = "exchange" /\ row' = row /\ tok[t] = row.token /\ ~(row.present /\ row.dead)
          /\ row.token \in Token /\ row.exp \in Token
          /\ \A u \in Thread : pc[u] \in InHand => u = t
      BY <2>5 DEF Exchange, OneWriter, Locked, UnderLock, InHand
    <3>2. CASE \E n \in Token : IsNext(n) /\ (Rotated(t, n) \/ Kept(t, n))
      <4>1. PICK n \in Token : IsNext(n) /\ (Rotated(t, n) \/ Kept(t, n))
        BY <3>2
      <4>2. n > row.exp
        BY <4>1, NextIsLater DEF OneWriter
      <4>3. /\ fate'[row.exp] # "unissued"
            /\ got' = [got EXCEPT ![t] = n] /\ pc' = [pc EXCEPT ![t] = "persist"] /\ tok' = tok
        BY <4>1 DEF Rotated, Kept, OneWriter
      <4>4. QED
        BY <3>1, <4>2, <4>3 DEF OneWriter, DeadIsRefused, InHand, Consenting
    <3>3. CASE \E n \in Token : IsNext(n) /\ AnswerLost(t, n)
      <4>1. PICK n \in Token : IsNext(n) /\ AnswerLost(t, n)
        BY <3>3
      <4>2. fate'[row.exp] # "unissued" /\ pc' = [pc EXCEPT ![t] = "finish"]
        BY <4>1 DEF AnswerLost, Done, OneWriter
      <4>3. QED
        BY <3>1, <4>1, <4>2 DEF AnswerLost, Done, OneWriter, DeadIsRefused, InHand, Consenting
    <3>4. CASE Refused(t)
      BY <3>1, <3>4 DEF Refused, hand, OneWriter, DeadIsRefused, Usable, InHand, Consenting
    <3>5. CASE Unreached(t)
      BY <2>0, <2>5, <3>5, OneWriterKept
      DEF Exchange, Unreached, Done, IssuedStays, SpentStays, Usable, InHand, Consenting
    <3>6. QED
      BY <2>5, <3>2, <3>3, <3>4, <3>5 DEF Exchange
  <2>6. ASSUME NEW t \in Thread, MarkDead(t) PROVE OneWriter'
    <3>1. /\ pc[t] = "refused" /\ fate' = fate /\ tok[t] = row.token /\ ~Usable(row.token)
          /\ row'.token = row.token /\ row'.exp = row.exp
          /\ pc' = [pc EXCEPT ![t] = "finish"]
      BY <2>6 DEF MarkDead, Done, OneWriter, InHand
    <3>2. \A u \in Thread : pc[u] \in InHand \union {"tokens"} => u = t
      BY <3>1 DEF Locked, UnderLock, InHand
    <3>3. QED
      BY <3>1, <3>2 DEF OneWriter, DeadIsRefused, Usable, InHand, Consenting
  <2>7. ASSUME NEW t \in Thread, Persist(t) PROVE OneWriter'
    <3>1. /\ pc[t] = "persist" /\ got[t] \in Token /\ tok[t] \in Token
          /\ pc' = [pc EXCEPT ![t] = "finish"] /\ ~(row.present /\ row.dead)
          /\ fate[got[t]] # "unissued"
      BY <2>7 DEF Persist, Done, OneWriter, InHand, OneWorks, GoodAnswers, Holding
    <3>2. \A u \in Thread : pc[u] \in InHand \union {"tokens"} => u = t
      BY <3>1 DEF Locked, UnderLock, InHand
    <3>3. CASE /\ row.present /\ fate' = fate
               /\ row' = [row EXCEPT !.token = TokenOf(t), !.exp = got[t], !.due = FALSE]
      <4>1. row'.exp = got[t] /\ row'.dead = row.dead /\ row'.present = row.present
        BY <3>3
      <4>2. QED
        BY <3>1, <3>2, <3>3, <4>1 DEF OneWriter, DeadIsRefused, InHand, Consenting
    <3>4. CASE row' = row /\ (Lose({t}) \/ fate' = fate)
      <4>1. IssuedStays /\ SpentStays
        BY <3>4, LoseFates DEF IssuedStays, SpentStays, Usable
      <4>2. QED
        BY <2>0, <2>7, <3>4, <4>1, OneWriterKept DEF Persist, Done, InHand, Consenting
    <3>5. QED
      BY <2>7, <3>3, <3>4 DEF Persist
  <2>8. ASSUME NEW t \in Thread, ReadTarget(t) \/ Renew(t) \/ HandBack(t) PROVE OneWriter'
    BY <2>0, <2>8 DEF ReadTarget, Renew, HandBack, Consenting
  <2>9. ASSUME NEW t \in Thread, RevokeDoomed(t) \/ Remove(t) PROVE OneWriter'
    <3>1. IssuedStays /\ SpentStays
      BY <2>9 DEF RevokeDoomed, Remove, Revoked, RevokeFailed, IssuedStays, SpentStays, Usable
    <3>2. QED
      BY <2>0, <2>9, <3>1, OneWriterKept DEF RevokeDoomed, Remove, InHand, Consenting
  <2>10. ASSUME Expire PROVE OneWriter'
    BY <2>0, <2>10, OneWriterKept
    DEF Expire, IssuedStays, SpentStays, Usable, InHand, Consenting
  <2>11. ASSUME NEW k \in Token, ProviderRevokes(k) PROVE OneWriter'
    BY <2>0, <2>11, OneWriterKept
    DEF ProviderRevokes, IssuedStays, SpentStays, Usable, InHand, Consenting
  <2>12. ASSUME NEW w \in Worker, Crash(w) PROVE OneWriter'
    <3>1. IssuedStays /\ SpentStays
      BY <2>12, LoseFates DEF Crash, IssuedStays, SpentStays, Usable
    <3>2. QED
      BY <2>0, <2>12, <3>1, OneWriterKept DEF Crash, InHand, Consenting
  <2>13. CASE UNCHANGED vars
    BY <2>13 DEF vars, OneWriter, DeadIsRefused, Usable
  <2>14. QED
    BY <2>1, <2>2, <2>3, <2>4, <2>5, <2>6, <2>7, <2>8, <2>9, <2>10, <2>11, <2>12, <2>13
    DEF Next, Begin, Work, Environment
<1>3. QED
  BY <1>1, <1>2, TypeCorrect, LockedHolds, OneWorksHolds, PTL DEF Spec

\* DeadIsRefused: without reconnects, an account marked dead stores a token the
\* provider would refuse.
THEOREM DeadIsRefusedHolds ==
  ASSUME LockUsable, "consent" \notin Ops
  PROVE  Spec => []DeadIsRefused
<1>1. OneWriter => DeadIsRefused
  BY DEF OneWriter
<1>2. QED
  BY <1>1, OneWriterHolds, PTL

\* NeverOlder: without reconnects, no step stores an earlier answer over a
\* later one.
THEOREM NeverOlderHolds ==
  ASSUME LockUsable, "consent" \notin Ops
  PROVE  Spec => NeverOlder
<1>1. Typed /\ OneWriter /\ [Next]_vars => [row'.exp >= row.exp]_row
  <2> SUFFICES ASSUME Typed, OneWriter, Next \/ UNCHANGED vars PROVE row'.exp >= row.exp
    OBVIOUS
  <2>1. row.exp \in Nat
    BY RefreshAssumption DEF Typed, TypeOK, Token, RefreshAssumption
  <2>2. \A t \in Thread : pc[t] # "renew"
    BY DEF OneWriter, Consenting
  <2>3. ASSUME NEW t \in Thread, Persist(t) PROVE row'.exp >= row.exp
    <3>1. got[t] > row.exp /\ got[t] \in Nat
      BY <2>3, RefreshAssumption
      DEF Persist, OneWriter, Typed, TypeOK, Hands, Holding, Token, RefreshAssumption
    <3>2. CASE row' = [row EXCEPT !.token = TokenOf(t), !.exp = got[t], !.due = FALSE]
      <4>1. row'.exp = got[t]
        BY <3>2 DEF Typed, TypeOK
      <4>2. QED
        BY <2>1, <3>1, <4>1
    <3>3. CASE row' = row
      BY <2>1, <3>3
    <3>4. QED
      BY <2>3, <3>2, <3>3 DEF Persist
  <2>4. ASSUME NEW t \in Thread, MarkDead(t) \/ Remove(t) PROVE row'.exp = row.exp
    BY <2>4 DEF MarkDead, Remove, Typed, TypeOK
  <2>5. ASSUME Expire PROVE row'.exp = row.exp
    BY <2>5 DEF Expire, Typed, TypeOK
  <2>6. CASE UNCHANGED row
    BY <2>1, <2>6
  <2>7. ASSUME NEW t \in Thread, Begin(t) \/ Cancel(t) PROVE row' = row
    BY <2>7 DEF Begin, Lease, Consent, ReadDoomed, Cancel
  <2>8. ASSUME NEW t \in Thread, Work(t), ~Persist(t), ~MarkDead(t), ~Remove(t) PROVE row' = row
    BY <2>2, <2>8
    DEF Work, Join, Lead, Finish, Return, Look, TakeLock, SkipLock, LockTimeout, Reread, ReadTokens,
        Exchange, ReadTarget, Renew, HandBack, RevokeDoomed
  <2>9. ASSUME Environment, ~Expire PROVE row' = row
    BY <2>9 DEF Environment, Crash, ProviderRevokes
  <2>10. QED
    BY <2>1, <2>3, <2>4, <2>5, <2>6, <2>7, <2>8, <2>9 DEF Next, vars
<1>2. QED
  BY <1>1, TypeCorrect, OneWriterHolds, PTL DEF Spec, NeverOlder
-----------------------------------------------------------------------------
(* Refreshing implements TokenCustody *)

\* While the account stays, and nobody reconnects it: the answer in hand has
\* replaced the stored token, or left it good, and the stored one is never an
\* answer that carried none.
InCustody ==
  /\ row.present
  /\ fate[row.token] # "kept"
  /\ \A t \in Thread :
       /\ pc[t] \notin {"revoke", "remove"}
       /\ pc[t] # "persist" => got[t] = NoToken
       /\ pc[t] = "persist" =>
            \/ fate[got[t]] = "kept"
            \/ fate[tok[t]] = "spent" /\ fate[got[t]] \in {"live", "revoked"}

\* The stored token's fate, as a place.
LEMMA Places ==
  ASSUME Typed, KnownTokens, InCustody
  PROVE  /\ place = "stored"  <=> fate[row.token] \in {"live", "stray"}
         /\ place = "hand"    <=> fate[row.token] = "spent"
         /\ place = "lost"    <=> fate[row.token] = "orphaned"
         /\ place = "revoked" <=> fate[row.token] = "revoked"
<1>1. fate[row.token] \in {"live", "stray", "spent", "orphaned", "revoked"}
  BY DEF Typed, TypeOK, Fate, KnownTokens, InCustody
<1>2. QED
  BY <1>1 DEF place, Usable

\* A step that leaves the row, its token's fate and the answers in hand alone.
LEMMA CustodyKept ==
  ASSUME Typed, InCustody, row' = row \/ row' = [row EXCEPT !.due = TRUE],
         fate'[row.token] # "kept",
         \A t \in Thread : pc'[t] \notin {"revoke", "remove"},
         \A t \in Thread : pc'[t] # "persist" => got'[t] = NoToken,
         \A t \in Thread : pc'[t] = "persist" =>
           /\ pc[t] = "persist" /\ tok'[t] = tok[t] /\ got'[t] = got[t]
           /\ fate'[tok[t]] = fate[tok[t]]
           /\ \/ fate'[got[t]] = fate[got[t]]
              \/ fate[got[t]] # "kept" /\ fate'[got[t]] = "revoked"
  PROVE  InCustody'
<1>1. row'.present = row.present /\ row'.token = row.token
  BY DEF Typed, TypeOK
<1>2. QED
  BY <1>1 DEF InCustody

\* InCustody is kept by every step of refreshes, of crashes and of the provider.
LEMMA InCustodyHolds ==
  ASSUME LockUsable, "consent" \notin Ops, "delete" \notin Ops
  PROVE  Spec => []InCustody
<1>1. Init => InCustody
  BY RefreshAssumption DEF RefreshAssumption, Init, InCustody, Token
<1>2. Typed /\ Locked /\ OneWorks /\ OneWriter /\ InCustody /\ [Next]_vars => InCustody'
  <2> SUFFICES ASSUME Typed, Locked, OneWorks, OneWriter, InCustody, Next \/ UNCHANGED vars
               PROVE  InCustody'
    OBVIOUS
  <2> USE NoTokenIsNone DEF Goto, mine
  <2> USE DEF Typed, TypeOK, Hands
  <2>0. /\ \A t \in Thread : pc[t] \notin Consenting \union {"revoke", "remove"}
        /\ fate[row.token] # "kept"
        /\ \A t \in Thread : pc[t] # "persist" => got[t] = NoToken
    BY DEF OneWriter, InCustody
  <2>1. ASSUME NEW t \in Thread, Begin(t) PROVE InCustody'
    BY <2>0, <2>1, CustodyKept DEF Begin, Lease, Consent, ReadDoomed
  <2>2. ASSUME NEW t \in Thread, Join(t) \/ Lead(t) \/ Cancel(t) \/ Finish(t) \/ Return(t)
        PROVE InCustody'
    BY <2>0, <2>2, CustodyKept DEF Join, Lead, Cancel, Finish, Return
  <2>3. ASSUME NEW t \in Thread,
               \/ Look(t) \/ TakeLock(t) \/ SkipLock(t) \/ LockTimeout(t)
               \/ Reread(t) \/ ReadTokens(t)
        PROVE InCustody'
    BY <2>0, <2>3, CustodyKept
    DEF Look, TakeLock, SkipLock, LockTimeout, Reread, ReadTokens, Done, hand
  <2>4. ASSUME NEW t \in Thread, Exchange(t) PROVE InCustody'
    <3>1. /\ pc[t] = "exchange" /\ row' = row /\ tok[t] = row.token /\ row.token \in Token
          /\ \A u \in Thread : pc[u] \in InHand => u = t
      BY <2>4 DEF Exchange, OneWriter, Locked, UnderLock, InHand
    <3>2. CASE \E n \in Token : IsNext(n) /\ Rotated(t, n)
      <4>1. PICK n \in Token : IsNext(n) /\ Rotated(t, n)
        BY <3>2
      <4>2. n # row.token
        BY <4>1, NextIsUnissued DEF OneWorks, KnownTokens
      <4>3. QED
        BY <2>0, <3>1, <4>1, <4>2 DEF Rotated, InCustody, InHand
    <3>3. CASE \E n \in Token : IsNext(n) /\ Kept(t, n)
      <4>1. PICK n \in Token : IsNext(n) /\ Kept(t, n)
        BY <3>3
      <4>2. n # row.token
        BY <4>1, NextIsUnissued DEF OneWorks, KnownTokens
      <4>3. QED
        BY <2>0, <3>1, <4>1, <4>2 DEF Kept, InCustody, InHand
    <3>4. CASE \E n \in Token : IsNext(n) /\ AnswerLost(t, n)
      BY <2>0, <3>1, <3>4 DEF AnswerLost, Done, InCustody, InHand
    <3>5. CASE Refused(t) \/ Unreached(t)
      BY <2>0, <3>1, <3>5, CustodyKept DEF Refused, Unreached, Done, hand, InHand
    <3>6. QED
      BY <2>4, <3>2, <3>3, <3>4, <3>5 DEF Exchange
  <2>5. ASSUME NEW t \in Thread, MarkDead(t) PROVE InCustody'
    <3>1. row'.present = row.present /\ row'.token = row.token
      BY <2>5 DEF MarkDead
    <3>2. QED
      BY <2>5, <3>1 DEF MarkDead, Done, InCustody
  <2>6. ASSUME NEW t \in Thread, Persist(t) PROVE InCustody'
    <3>1. /\ pc[t] = "persist" /\ got[t] \in Token /\ tok[t] = row.token
          /\ pc' = [pc EXCEPT ![t] = "finish"] /\ got' = [got EXCEPT ![t] = NoToken]
          /\ \A u \in Thread : pc[u] \in InHand => u = t
      BY <2>6 DEF Persist, Done, OneWriter, Locked, UnderLock, InHand, Holding
    <3>2. CASE /\ row' = [row EXCEPT !.token = TokenOf(t), !.exp = got[t], !.due = FALSE]
               /\ fate' = fate
      <4>1. row'.token = TokenOf(t) /\ row'.present = row.present
        BY <3>2
      <4>2. fate[TokenOf(t)] # "kept"
        BY <2>0, <3>1 DEF TokenOf
      <4>3. QED
        BY <3>1, <3>2, <4>1, <4>2 DEF InCustody, InHand
    <3>3. CASE row' = row /\ (Lose({t}) \/ fate' = fate)
      <4>1. fate'[row.token] # "kept"
        BY <2>0, <3>3, LoseFates
      <4>2. QED
        BY <3>1, <3>3, <4>1 DEF InCustody, InHand
    <3>4. QED
      BY <2>6, <3>2, <3>3 DEF Persist
  <2>7. ASSUME NEW t \in Thread,
               ReadTarget(t) \/ Renew(t) \/ HandBack(t) \/ RevokeDoomed(t) \/ Remove(t)
        PROVE InCustody'
    BY <2>0, <2>7 DEF ReadTarget, Renew, HandBack, RevokeDoomed, Remove, Consenting
  <2>8. ASSUME Expire PROVE InCustody'
    BY <2>0, <2>8, CustodyKept DEF Expire
  <2>9. ASSUME NEW k \in Token, ProviderRevokes(k) PROVE InCustody'
    BY <2>9 DEF ProviderRevokes, InCustody, Holding
  <2>10. ASSUME NEW w \in Worker, Crash(w) PROVE InCustody'
    <3>1. row' = row /\ fate'[row.token] # "kept"
      BY <2>0, <2>10, LoseFates DEF Crash
    <3>2. \A u \in Thread : pc'[u] # "idle" =>
            pc'[u] = pc[u] /\ tok'[u] = tok[u] /\ got'[u] = got[u] /\ WorkerOf[u] # w
      BY <2>10 DEF Crash
    <3>3. ASSUME NEW t \in Thread, pc'[t] = "persist"
          PROVE  fate'[tok[t]] = fate[tok[t]] /\ fate'[got[t]] = fate[got[t]]
      <4>1. /\ pc[t] = "persist" /\ WorkerOf[t] # w
            /\ tok[t] \in Token /\ got[t] \in Token
        BY <3>2, <3>3 DEF Holding
      <4>2. \A u \in Thread : WorkerOf[u] = w => pc[u] \notin InHand \union Consenting
        BY <2>0, <4>1 DEF Locked, UnderLock, InHand
      <4>3. \A u \in Thread : WorkerOf[u] = w => got[u] = NoToken
        BY <4>2 DEF InCustody, InHand
      <4>4. QED
        BY <2>10, <4>1, <4>2, <4>3 DEF Crash, Lose, InHand
    <3>4. \A u \in Thread : /\ pc'[u] \notin {"revoke", "remove"}
                            /\ pc'[u] # "persist" => got'[u] = NoToken
      BY <2>0, <2>10 DEF Crash
    <3>5. QED
      BY <3>1, <3>2, <3>3, <3>4, CustodyKept
  <2>11. CASE UNCHANGED vars
    BY <2>11 DEF vars, InCustody
  <2>12. QED
    BY <2>1, <2>2, <2>3, <2>4, <2>5, <2>6, <2>7, <2>8, <2>9, <2>10, <2>11
    DEF Next, Work, Environment
<1>3. QED
  BY <1>1, <1>2, TypeCorrect, LockedHolds, OneWorksHolds, OneWriterHolds, PTL DEF Spec

\* KeepsCustody: refreshing implements TokenCustody, for any number of processes
\* and goroutines, crashes between any two steps included, while the account is
\* neither reconnected nor deleted.
THEOREM KeepsCustodyHolds ==
  ASSUME LockUsable, "consent" \notin Ops, "delete" \notin Ops
  PROVE  Spec => KeepsCustody
<1>1. Init => Keeping!Init
  BY RefreshAssumption DEF RefreshAssumption, Init, Keeping!Init, place, Usable, Token
<1>2. /\ Typed /\ Locked /\ OneWorks /\ OneWriter /\ InCustody
      /\ Typed' /\ OneWorks' /\ InCustody' /\ [Next]_vars
      => [Keeping!Next]_<<place, row.dead>>
  <2> SUFFICES ASSUME Typed, Locked, OneWorks, OneWriter, InCustody,
                      Typed', OneWorks', InCustody', Next \/ UNCHANGED vars
               PROVE  Keeping!Next \/ (place' = place /\ row'.dead = row.dead)
    OBVIOUS
  <2> USE DEF Goto, mine
  <2> DEFINE was == fate[row.token]
             is == fate'[row'.token]
  <2>1. KnownTokens /\ KnownTokens' /\ row.token \in Token /\ row'.token \in Token
    BY DEF OneWorks, Typed, TypeOK
  <2>2. /\ was \in {"live", "stray", "spent", "orphaned", "revoked"}
        /\ is \in {"live", "stray", "spent", "orphaned", "revoked"}
    BY <2>1 DEF Typed, TypeOK, Fate, KnownTokens, InCustody
  <2>3. /\ place = "stored"  <=> was \in {"live", "stray"}
        /\ place = "hand"    <=> was = "spent"
        /\ place = "lost"    <=> was = "orphaned"
        /\ place = "revoked" <=> was = "revoked"
    BY Places, <2>1
  <2>4. /\ place' = "stored"  <=> is \in {"live", "stray"}
        /\ place' = "hand"    <=> is = "spent"
        /\ place' = "lost"    <=> is = "orphaned"
        /\ place' = "revoked" <=> is = "revoked"
    BY <2>2 DEF place, Usable
  <2> HIDE DEF was, is
  \* A step that leaves the stored token's fate to the same place.
  <2>5. ASSUME row'.dead = row.dead,
               is = was \/ (was = "live" /\ is = "stray")
        PROVE  place' = place /\ row'.dead = row.dead
    BY <2>2, <2>3, <2>4, <2>5
  <2>6. ASSUME row' = row, fate' = fate PROVE place' = place /\ row'.dead = row.dead
    BY <2>5, <2>6 DEF was, is
  <2>7. ASSUME NEW t \in Thread, Begin(t) \/ Cancel(t) PROVE row' = row /\ fate' = fate
    BY <2>7 DEF Begin, Lease, Consent, ReadDoomed, Cancel
  <2>8. ASSUME NEW t \in Thread, Work(t), ~Exchange(t), ~MarkDead(t), ~Persist(t)
        PROVE  row' = row /\ fate' = fate
    <3>1. pc[t] \notin Consenting \union {"revoke", "remove"}
      BY DEF OneWriter, InCustody
    <3>2. QED
      BY <2>8, <3>1
      DEF Work, Join, Lead, Finish, Return, Look, TakeLock, SkipLock, LockTimeout, Reread,
          ReadTokens, ReadTarget, Renew, HandBack, RevokeDoomed, Remove, Consenting
  <2>9. ASSUME NEW t \in Thread, Exchange(t)
        PROVE  Keeping!Next \/ (place' = place /\ row'.dead = row.dead)
    <3>1. row' = row /\ tok[t] = row.token /\ was # "unissued"
      BY <2>1, <2>9 DEF Exchange, OneWriter, InHand, KnownTokens, was
    <3>2. CASE Usable(tok[t]) /\ \E n \in Token : IsNext(n) /\ Rotated(t, n)
      <4>1. was \in {"live", "stray"} /\ is = "spent"
        BY <2>1, <3>1, <3>2, NextIsUnissued DEF Rotated, Usable, Typed, TypeOK, was, is
      <4>2. QED
        BY <2>3, <2>4, <3>1, <4>1 DEF Keeping!Next, Keeping!Rotate
    <3>3. CASE Usable(tok[t]) /\ \E n \in Token : IsNext(n) /\ Kept(t, n)
      <4>1. is = was
        BY <2>1, <3>1, <3>3, NextIsUnissued DEF Kept, Typed, TypeOK, was, is
      <4>2. QED
        BY <2>5, <3>1, <4>1
    <3>4. CASE Usable(tok[t]) /\ \E n \in Token : IsNext(n) /\ AnswerLost(t, n)
      <4>1. was \in {"live", "stray"} /\ is = "orphaned"
        BY <2>1, <3>1, <3>4, NextIsUnissued DEF AnswerLost, Usable, Typed, TypeOK, was, is
      <4>2. QED
        BY <2>3, <2>4, <3>1, <4>1 DEF Keeping!Next, Keeping!Lose
    <3>5. CASE Refused(t) \/ Unreached(t)
      BY <2>6, <3>1, <3>5 DEF Refused, Unreached
    <3>6. QED
      BY <2>9, <3>2, <3>3, <3>4, <3>5 DEF Exchange
  <2>10. ASSUME NEW t \in Thread, MarkDead(t)
         PROVE  Keeping!Next \/ (place' = place /\ row'.dead = row.dead)
    <3>1. /\ pc[t] = "refused" /\ tok[t] = row.token /\ ~Usable(row.token) /\ fate' = fate
          /\ \A u \in Thread : pc[u] \in InHand => u = t
      BY <2>10 DEF MarkDead, OneWriter, Locked, UnderLock, InHand
    <3>2. was # "spent"
      BY <3>1 DEF OneWorks, Custody, InCustody, InHand, was
    <3>3. place \in {"lost", "revoked"}
      BY <2>2, <2>3, <3>1, <3>2 DEF Usable, was
    <3>4. CASE row' = row
      BY <2>6, <3>1, <3>4
    <3>5. CASE row' = [row EXCEPT !.dead = row.present]
      <4>1. row'.dead = TRUE /\ row'.token = row.token
        BY <3>5 DEF Typed, TypeOK, InCustody
      <4>2. place' = place
        BY <2>2, <2>3, <2>4, <3>1, <4>1 DEF was, is
      <4>3. QED
        BY <3>3, <4>1, <4>2 DEF Keeping!Next, Keeping!Mark
    <3>6. QED
      BY <2>10, <3>4, <3>5 DEF MarkDead
  <2>11. ASSUME NEW t \in Thread, Persist(t)
         PROVE  Keeping!Next \/ (place' = place /\ row'.dead = row.dead)
    <3>1. /\ pc[t] = "persist" /\ got[t] \in Token /\ tok[t] = row.token
          /\ \/ fate[got[t]] = "kept"
             \/ was = "spent" /\ fate[got[t]] \in {"live", "revoked"}
      BY <2>11 DEF Persist, OneWriter, InHand, InCustody, Typed, TypeOK, Hands, Holding, was
    <3>2. CASE /\ row' = [row EXCEPT !.token = TokenOf(t), !.exp = got[t], !.due = FALSE]
               /\ fate' = fate
      <4>1. row'.token = TokenOf(t) /\ row'.dead = row.dead
        BY <3>2 DEF Typed, TypeOK
      <4>2. CASE fate[got[t]] = "kept"
        BY <2>5, <3>1, <3>2, <4>1, <4>2 DEF TokenOf, was, is
      <4>3. CASE was = "spent" /\ fate[got[t]] \in {"live", "revoked"}
        <5>1. is \in {"live", "revoked"}
          BY <3>1, <3>2, <4>1, <4>3 DEF TokenOf, is
        <5>2. QED
          BY <2>3, <2>4, <4>1, <4>3, <5>1 DEF Keeping!Next, Keeping!Store
      <4>4. QED
        BY <3>1, <4>2, <4>3
    <3>3. CASE row' = row /\ Lose({t})
      <4>1. is = was \/ (was = "spent" /\ is = "orphaned") \/ (was = "live" /\ is = "stray")
        BY <2>1, <3>3, LoseFates DEF was, is
      <4>2. CASE was = "spent" /\ is = "orphaned"
        BY <2>3, <2>4, <3>3, <4>2 DEF Keeping!Next, Keeping!Lose
      <4>3. QED
        BY <2>5, <3>3, <4>1, <4>2
    <3>4. CASE row' = row /\ fate' = fate
      BY <2>6, <3>4
    <3>5. QED
      BY <2>11, <3>2, <3>3, <3>4 DEF Persist
  <2>12. ASSUME Expire PROVE place' = place /\ row'.dead = row.dead
    <3>1. row'.token = row.token /\ row'.dead = row.dead /\ fate' = fate
      BY <2>12 DEF Expire, Typed, TypeOK
    <3>2. QED
      BY <2>5, <3>1 DEF was, is
  <2>13. ASSUME NEW k \in Token, ProviderRevokes(k)
         PROVE  Keeping!Next \/ (place' = place /\ row'.dead = row.dead)
    <3>1. row' = row /\ fate[k] = "live" /\ fate' = [fate EXCEPT ![k] = "revoked"]
      BY <2>13 DEF ProviderRevokes
    <3>2. CASE k = row.token
      <4>1. was = "live" /\ is = "revoked"
        BY <2>1, <3>1, <3>2 DEF Typed, TypeOK, was, is
      <4>2. QED
        BY <2>3, <2>4, <3>1, <4>1 DEF Keeping!Next, Keeping!Revoke
    <3>3. CASE k # row.token
      BY <2>1, <2>5, <3>1, <3>3 DEF Typed, TypeOK, was, is
    <3>4. QED
      BY <3>2, <3>3
  <2>14. ASSUME NEW w \in Worker, Crash(w)
         PROVE  Keeping!Next \/ (place' = place /\ row'.dead = row.dead)
    <3>1. row' = row
      BY <2>14 DEF Crash
    <3>2. is = was \/ (was = "spent" /\ is = "orphaned") \/ (was = "live" /\ is = "stray")
      BY <2>1, <2>14, <3>1, LoseFates DEF Crash, was, is
    <3>3. CASE was = "spent" /\ is = "orphaned"
      BY <2>3, <2>4, <3>1, <3>3 DEF Keeping!Next, Keeping!Lose
    <3>4. QED
      BY <2>5, <3>1, <3>2, <3>3
  <2>15. CASE UNCHANGED vars
    BY <2>6, <2>15 DEF vars
  <2>16. QED
    BY <2>6, <2>7, <2>8, <2>9, <2>10, <2>11, <2>12, <2>13, <2>14, <2>15 DEF Next, Environment
<1>3. QED
  BY <1>1, <1>2, TypeCorrect, LockedHolds, OneWorksHolds, OneWriterHolds, InCustodyHolds, PTL
  DEF Spec, KeepsCustody, Keeping!Spec

---------------------------------------------------------------------------
(* Setting a client up *)

DutySteps == {"off", "reveal", "install", "create", "page", "agent", "unmark", "forgetUse", "forget",
                 "mark", "base", "touch", "write", "markUsed"}
LinkState == {"none", "waiting", "used", "expired"}
HandlerState == [pc : DutySteps, with : Nat]
LinkRecord == [is : LinkState, carries : Nat]

\* A request's handler has a secret in hand; and none has been given no secret.
SetupTypes ==
  /\ secret \in Nat /\ configured \in BOOLEAN /\ lately \in BOOLEAN
  /\ brought \in BOOLEAN /\ servedSince \in BOOLEAN
  /\ links \in [install : LinkRecord, update : LinkRecord]
  /\ does \in [Handler -> HandlerState]
  /\ 0 \notin holders /\ holders \subseteq Nat
  /\ \A h \in Handler : does[h].pc \in {"touch", "write", "markUsed"} => does[h].with # 0

\* Some handler has one of these to do.
SomeAt(steps) == \E h \in Handler : does[h].pc \in steps

\* The page's command carries what works, or whoever changed the key last has
\* yet to forget it.
CommandStands ==
  "create" \notin lost /\ "rotation" \notin lost =>
    /\ \A h \in Handler : does[h].pc = "create" => does[h].with = secret
    /\ \/ links.install.carries = 0 \/ links.install.carries = secret
       \/ \E h \in Handler : does[h].pc \in {"unmark", "forgetUse", "forget"} /\ does[h].with = secret

\* Whoever will set the client up came with the secret it has.
SetterStands ==
  "use" \notin lost /\ "rotation" \notin lost =>
    /\ \A h \in Handler : /\ does[h].pc \in {"touch", "write", "markUsed"} => brought
                          /\ does[h].pc = "mark" => does[h].with = secret
    /\ configured /\ ~brought => SomeAt({"unmark"})

\* That its use was written, or is being written, means that it is set up, or
\* is about to be; and a change of the key is not over before both are undone.
UseStands ==
  "write" \notin lost /\ "rotation" \notin lost =>
    /\ lately => \/ secret = 0 \/ configured
                 \/ SomeAt({"write", "markUsed"}) \/ SomeAt({"unmark", "forgetUse"})
    /\ servedSince => \/ configured
                      \/ SomeAt({"write", "markUsed"}) \/ SomeAt({"unmark", "forgetUse"})
    /\ secret = 0 /\ servedSince => SomeAt({"unmark", "forgetUse"})

SetupStands == SetupTypes /\ CommandStands /\ SetterStands /\ UseStands

LEMMA HandlerGoes ==
  ASSUME SetupTypes, NEW h \in Handler, NEW step \in DutySteps, NEW s \in Nat, HandlerAt(h, step, s)
  PROVE  /\ does' \in [Handler -> HandlerState]
         /\ does'[h].pc = step /\ does'[h].with = s
         /\ \A g \in Handler : g # h => does'[g] = does[g]
BY DEF SetupTypes, HandlerAt, HandlerState

LEMMA HandlerStops ==
  ASSUME SetupTypes, NEW h \in Handler, HandlerEnds(h)
  PROVE  /\ does' \in [Handler -> HandlerState]
         /\ does'[h].pc = "off" /\ does'[h].with = 0
         /\ \A g \in Handler : g # h => does'[g] = does[g]
BY DEF SetupTypes, HandlerEnds, HandlerState, OffDuty, DutySteps

LEMMA OnDuty ==
  ASSUME SetupTypes, NEW h \in Handler
  PROVE  does[h].with \in Nat /\ does[h].pc \in DutySteps
BY DEF SetupTypes, HandlerState

LEMMA SweptLinks ==
  ASSUME SetupTypes
  PROVE  /\ Swept \in [install : LinkRecord, update : LinkRecord]
         /\ Swept.install.carries = 0 \/ Swept.install.carries = links.install.carries
<1>1. DOMAIN links = {"install", "update"}
  BY DEF SetupTypes
<1>2. links.install \in LinkRecord /\ links.update \in LinkRecord
  BY DEF SetupTypes
<1>3. QED
  BY <1>1, <1>2 DEF Swept, LinkRecord

LEMMA Install ==
  ASSUME SetupTypes, NEW s \in Nat, NEW is \in LinkState
  PROVE  /\ [Swept EXCEPT !.install = [is |-> is, carries |-> s]] \in [install : LinkRecord, update : LinkRecord]
         /\ [Swept EXCEPT !.install = [is |-> is, carries |-> s]].install.carries = s
         /\ [Swept EXCEPT !.update = [is |-> is, carries |-> s]] \in [install : LinkRecord, update : LinkRecord]
         /\ [Swept EXCEPT !.update = [is |-> is, carries |-> s]].install.carries = Swept.install.carries
<1>1. Swept \in [install : LinkRecord, update : LinkRecord]
  BY SweptLinks
<1>2. [is |-> is, carries |-> s] \in LinkRecord
  BY DEF LinkRecord
<1> HIDE DEF LinkRecord
<1>3. QED
  BY <1>1, <1>2

LEMMA Begun == NoLinks \in [install : LinkRecord, update : LinkRecord] /\ NoLinks.install.carries = 0
BY DEF NoLinks, NoLink, LinkRecord, LinkState

LEMMA SetupBegins == SetupInit => SetupStands
<1> SUFFICES ASSUME SetupInit PROVE SetupStands
  OBVIOUS
<1>1. links \in [install : LinkRecord, update : LinkRecord] /\ links.install.carries = 0
  BY DEF SetupInit, NoLinks, NoLink, LinkRecord, LinkState
<1>2. does \in [Handler -> HandlerState] /\ \A h \in Handler : does[h].pc = "off"
  BY DEF SetupInit, OffDuty, HandlerState, DutySteps
<1>3. /\ secret \in Nat /\ configured \in BOOLEAN /\ lately \in BOOLEAN
      /\ brought \in BOOLEAN /\ servedSince \in BOOLEAN
  BY DEF SetupInit
<1>4. 0 \notin holders /\ holders \subseteq Nat
  <2>1. holders = {1}
    BY DEF SetupInit
  <2>2. QED
    BY <2>1
<1>5. SetupTypes
  BY <1>1, <1>2, <1>3, <1>4 DEF SetupTypes
<1>6. QED
  BY <1>1, <1>2, <1>5 DEF SetupStands, CommandStands, SetterStands, UseStands, SetupInit

---------------------------------------------------------------------------
(* The page *)

LEMMA PageStands ==
  ASSUME SetupStands, NEW h \in Handler,
         \/ \E what \in {"reveal", "install"} : AskKey(h, what)
         \/ \E by \in {"page", "agent"} : AskUpdate(h, by)
         \/ Reveal(h) \/ ReadForInstall(h) \/ CreateInstall(h) \/ MakeUpdate(h)
  PROVE  SetupStands'
<1>0. SetupTypes
  BY DEF SetupStands
<1> USE DEF AtStep, linkVars, histories
<1>1. CASE \E what \in {"reveal", "install"} : AskKey(h, what)
  <2> PICK what \in {"reveal", "install"} : AskKey(h, what)
    BY <1>1
  <2>1. /\ does' \in [Handler -> HandlerState]
        /\ does'[h].pc = what
        /\ \A g \in Handler : g # h => does'[g] = does[g]
    BY <1>0, HandlerGoes DEF AskKey, DutySteps
  <2>2. SetupTypes'
    BY <2>1 DEF SetupStands, SetupTypes, AskKey
  <2>3. CommandStands' /\ SetterStands'
    BY <2>1 DEF SetupStands, CommandStands, SetterStands, SomeAt, AskKey
  <2>4. UseStands'
    BY <2>1 DEF SetupStands, UseStands, SomeAt, AskKey
  <2>5. QED
    BY <2>2, <2>3, <2>4 DEF SetupStands
<1>2. CASE \E by \in {"page", "agent"} : AskUpdate(h, by)
  <2> PICK by \in {"page", "agent"} : AskUpdate(h, by)
    BY <1>2
  <2>1. /\ does' \in [Handler -> HandlerState]
        /\ does'[h].pc = by
        /\ \A g \in Handler : g # h => does'[g] = does[g]
    BY <1>0, HandlerGoes DEF AskUpdate, DutySteps
  <2>2. SetupTypes'
    BY <2>1 DEF SetupStands, SetupTypes, AskUpdate
  <2>3. CommandStands' /\ SetterStands'
    BY <2>1 DEF SetupStands, CommandStands, SetterStands, SomeAt, AskUpdate
  <2>4. UseStands'
    BY <2>1 DEF SetupStands, UseStands, SomeAt, AskUpdate
  <2>5. QED
    BY <2>2, <2>3, <2>4 DEF SetupStands
<1>3. CASE Reveal(h)
  <2>1. /\ does' \in [Handler -> HandlerState]
        /\ does'[h].pc = "off"
        /\ \A g \in Handler : g # h => does'[g] = does[g]
    BY <1>0, <1>3, HandlerStops DEF Reveal
  <2>2. SetupTypes'
    BY <1>3, <2>1 DEF SetupStands, SetupTypes, Reveal
  <2>3. CommandStands' /\ SetterStands'
    BY <1>3, <2>1 DEF SetupStands, CommandStands, SetterStands, SomeAt, Reveal
  <2>4. UseStands'
    BY <1>3, <2>1 DEF SetupStands, UseStands, SomeAt, Reveal
  <2>5. QED
    BY <2>2, <2>3, <2>4 DEF SetupStands
<1>4. CASE ReadForInstall(h)
  <2>1. /\ does' \in [Handler -> HandlerState]
        /\ does'[h].pc \in {"off", "create"}
        /\ does'[h].pc = "create" => does'[h].with = secret
        /\ \A g \in Handler : g # h => does'[g] = does[g]
    BY <1>0, <1>4, HandlerGoes, HandlerStops DEF ReadForInstall, SetupTypes, DutySteps
  <2>2. SetupTypes'
    BY <1>4, <2>1 DEF SetupStands, SetupTypes, ReadForInstall
  <2>3. CommandStands' /\ SetterStands'
    BY <1>4, <2>1 DEF SetupStands, CommandStands, SetterStands, SomeAt, ReadForInstall
  <2>4. UseStands'
    BY <1>4, <2>1 DEF SetupStands, UseStands, SomeAt, ReadForInstall
  <2>5. QED
    BY <2>2, <2>3, <2>4 DEF SetupStands
<1>5. CASE CreateInstall(h)
  <2>1. /\ does' \in [Handler -> HandlerState]
        /\ does'[h].pc = "off"
        /\ \A g \in Handler : g # h => does'[g] = does[g]
    BY <1>0, <1>5, HandlerStops DEF CreateInstall
  <2>2. links' \in [install : LinkRecord, update : LinkRecord] /\ links'.install.carries = does[h].with
    BY <1>0, <1>5, OnDuty, Install DEF CreateInstall, LinkState
  <2>3. SetupTypes'
    BY <1>5, <2>1, <2>2 DEF SetupStands, SetupTypes, CreateInstall
  <2>4. CommandStands' /\ SetterStands'
    BY <1>5, <2>1, <2>2 DEF SetupStands, CommandStands, SetterStands, SomeAt, CreateInstall
  <2>5. UseStands'
    BY <1>5, <2>1 DEF SetupStands, UseStands, SomeAt, CreateInstall
  <2>6. QED
    BY <2>3, <2>4, <2>5 DEF SetupStands
<1>6. CASE MakeUpdate(h)
  <2>1. /\ does' \in [Handler -> HandlerState]
        /\ does'[h].pc = "off"
        /\ \A g \in Handler : g # h => does'[g] = does[g]
    BY <1>0, <1>6, HandlerStops DEF MakeUpdate
  <2>2. /\ links' \in [install : LinkRecord, update : LinkRecord]
        /\ links'.install.carries = 0 \/ links'.install.carries = links.install.carries
    <3>1. \/ links' = links \/ links' = Swept
          \/ links' = [Swept EXCEPT !.update = [is |-> "waiting", carries |-> 0]]
      BY <1>6 DEF MakeUpdate
    <3>2. QED
      BY <1>0, <3>1, SweptLinks, Install DEF SetupTypes, LinkState
  <2>3. /\ does[h].pc \in {"page", "agent"}
        /\ UNCHANGED <<secret, configured, lately, holders, brought, servedSince, lost>>
    BY <1>6 DEF MakeUpdate
  <2>4. SetupTypes'
    BY <2>1, <2>2, <2>3 DEF SetupStands, SetupTypes
  <2>5. CommandStands' /\ SetterStands'
    BY <2>1, <2>2, <2>3 DEF SetupStands, CommandStands, SetterStands, SomeAt
  <2>6. UseStands'
    BY <2>1, <2>3 DEF SetupStands, UseStands, SomeAt
  <2>7. QED
    BY <2>4, <2>5, <2>6 DEF SetupStands
<1>7. QED
  BY <1>1, <1>2, <1>3, <1>4, <1>5, <1>6
---------------------------------------------------------------------------
(* The key *)

\* Whoever has the old secret in hand is caught by a change of the key.
LEMMA CaughtThem ==
  ASSUME lost' = lost \cup Caught
  PROVE  /\ "create" \notin lost' => "create" \notin lost /\ \A h \in Handler : does[h].pc # "create"
         /\ "use" \notin lost' =>
              /\ "use" \notin lost
              /\ \A h \in Handler : does[h].pc \notin {"mark", "touch", "write", "markUsed"}
         /\ "rotation" \notin lost' => "rotation" \notin lost
         /\ "write" \notin lost' => "write" \notin lost
<1> DEFINE at == {does[h].pc : h \in Handler}
<1>1. Caught = (at \cap {"create"})
               \cup (IF {"mark", "touch", "write", "markUsed"} \cap at = {} THEN {} ELSE {"use"})
  BY DEF Caught
<1>2. \A h \in Handler : does[h].pc \in at
  OBVIOUS
<1> HIDE DEF at
<1>3. QED
  BY <1>1, <1>2

LEMMA KeyStands ==
  ASSUME SetupStands, NEW h \in Handler,
         NewSecret(h) \/ Unmark(h) \/ UnmarkFails(h) \/ DeleteKey(h) \/ ForgetUse(h) \/ ForgetLinks(h)
  PROVE  SetupStands'
<1>0. SetupTypes
  BY DEF SetupStands
<1> USE DEF AtStep, linkVars, histories
<1>1. CASE NewSecret(h)
  <2>1. /\ does' \in [Handler -> HandlerState]
        /\ does'[h].pc = "unmark" /\ does'[h].with = secret'
        /\ secret' \in Nat /\ secret' # 0
        /\ \A g \in Handler : g # h => does'[g] = does[g]
    BY <1>0, <1>1, OnDuty, HandlerGoes DEF NewSecret, SetupTypes, DutySteps
  <2>2. SetupTypes'
    BY <1>1, <2>1, CaughtThem DEF SetupStands, SetupTypes, NewSecret
  <2>3. CommandStands'
    BY <1>1, <2>1, CaughtThem DEF SetupStands, CommandStands, NewSecret
  <2>4. SetterStands'
    BY <1>1, <1>0, <2>1, CaughtThem DEF SetupStands, SetterStands, SomeAt, NewSecret
  <2>5. UseStands'
    BY <1>1, <1>0, <2>1, CaughtThem DEF SetupStands, UseStands, SomeAt, SetupTypes, NewSecret
  <2>6. QED
    BY <2>2, <2>3, <2>4, <2>5 DEF SetupStands
<1>2. CASE Unmark(h)
  <2>1. /\ does' \in [Handler -> HandlerState]
        /\ does'[h].pc = "forgetUse" /\ does'[h].with = does[h].with
        /\ \A g \in Handler : g # h => does'[g] = does[g]
    BY <1>0, <1>2, OnDuty, HandlerGoes DEF Unmark, SetupTypes, DutySteps
  <2>2. SetupTypes'
    BY <1>2, <2>1 DEF SetupStands, SetupTypes, Unmark
  <2>3. CommandStands'
    BY <1>2, <2>1 DEF SetupStands, CommandStands, Unmark
  <2>4. SetterStands'
    BY <1>2, <1>0, <2>1 DEF SetupStands, SetterStands, SomeAt, Unmark
  <2>5. UseStands'
    BY <1>2, <1>0, <2>1 DEF SetupStands, UseStands, SomeAt, SetupTypes, Unmark
  <2>6. QED
    BY <2>2, <2>3, <2>4, <2>5 DEF SetupStands
<1>3. CASE UnmarkFails(h)
  <2>1. /\ does' \in [Handler -> HandlerState]
        /\ does'[h].pc = "off" /\ does'[h].with = 0
        /\ \A g \in Handler : g # h => does'[g] = does[g]
    BY <1>0, <1>3, OnDuty, HandlerStops DEF UnmarkFails, SetupTypes, DutySteps
  <2>2. SetupTypes'
    BY <1>3, <2>1 DEF SetupStands, SetupTypes, UnmarkFails
  <2>3. CommandStands'
    BY <1>3, <2>1 DEF SetupStands, CommandStands, UnmarkFails
  <2>4. SetterStands'
    BY <1>3, <1>0, <2>1 DEF SetupStands, SetterStands, SomeAt, UnmarkFails
  <2>5. UseStands'
    BY <1>3, <1>0, <2>1 DEF SetupStands, UseStands, SomeAt, SetupTypes, UnmarkFails
  <2>6. QED
    BY <2>2, <2>3, <2>4, <2>5 DEF SetupStands
<1>4. CASE DeleteKey(h)
  <2>1. /\ does' \in [Handler -> HandlerState]
        /\ does'[h].pc = "forgetUse" /\ does'[h].with = 0
        /\ \A g \in Handler : g # h => does'[g] = does[g]
    BY <1>0, <1>4, OnDuty, HandlerGoes DEF DeleteKey, SetupTypes, DutySteps
  <2>2. SetupTypes'
    BY <1>4, <2>1, CaughtThem DEF SetupStands, SetupTypes, DeleteKey
  <2>3. CommandStands'
    BY <1>4, <2>1, CaughtThem DEF SetupStands, CommandStands, DeleteKey
  <2>4. SetterStands'
    BY <1>4, <1>0, <2>1, CaughtThem DEF SetupStands, SetterStands, SomeAt, DeleteKey
  <2>5. UseStands'
    BY <1>4, <1>0, <2>1, CaughtThem DEF SetupStands, UseStands, SomeAt, SetupTypes, DeleteKey
  <2>6. QED
    BY <2>2, <2>3, <2>4, <2>5 DEF SetupStands
<1>5. CASE ForgetUse(h)
  <2>1. /\ does' \in [Handler -> HandlerState]
        /\ \/ does'[h].pc = "off" /\ does[h].with # 0 /\ secret = 0
           \/ does'[h].pc = "forget" /\ does'[h].with = does[h].with
        /\ \A g \in Handler : g # h => does'[g] = does[g]
    BY <1>0, <1>5, OnDuty, HandlerGoes, HandlerStops DEF ForgetUse, SetupTypes, DutySteps
  <2>2. SetupTypes'
    BY <1>5, <2>1 DEF SetupStands, SetupTypes, ForgetUse
  <2>3. CommandStands'
    BY <1>5, <2>1 DEF SetupStands, CommandStands, ForgetUse
  <2>4. SetterStands'
    BY <1>5, <1>0, <2>1 DEF SetupStands, SetterStands, SomeAt, ForgetUse
  <2>5. UseStands'
    BY <1>5, <1>0, <2>1 DEF SetupStands, UseStands, SomeAt, SetupTypes, ForgetUse
  <2>6. QED
    BY <2>2, <2>3, <2>4, <2>5 DEF SetupStands
<1>6. CASE ForgetLinks(h)
  <2>1. /\ does' \in [Handler -> HandlerState]
        /\ does'[h].pc = "off" /\ does'[h].with = 0
        /\ does[h].with \in Nat
        /\ links' \in [install : LinkRecord, update : LinkRecord] /\ links'.install.carries = 0
        /\ \A g \in Handler : g # h => does'[g] = does[g]
    BY <1>0, <1>6, OnDuty, HandlerStops, Begun DEF ForgetLinks, SetupTypes, DutySteps
  <2>2. SetupTypes'
    BY <1>6, <2>1 DEF SetupStands, SetupTypes, ForgetLinks
  <2>3. CommandStands'
    BY <1>6, <2>1 DEF SetupStands, CommandStands, ForgetLinks
  <2>4. SetterStands'
    BY <1>6, <1>0, <2>1 DEF SetupStands, SetterStands, SomeAt, ForgetLinks
  <2>5. UseStands'
    BY <1>6, <1>0, <2>1 DEF SetupStands, UseStands, SomeAt, SetupTypes, ForgetLinks
  <2>6. QED
    BY <2>2, <2>3, <2>4, <2>5 DEF SetupStands
<1>7. QED
  BY <1>1, <1>2, <1>3, <1>4, <1>5, <1>6

---------------------------------------------------------------------------
(* Commands *)

LEMMA CommandsStand ==
  ASSUME SetupStands, NEW h \in Handler,
         TakeInstall(h) \/ TakeUpdate(h) \/ MarkFetched(h) \/ SendScript(h)
  PROVE  SetupStands'
<1>0. SetupTypes
  BY DEF SetupStands
<1> USE DEF AtStep, linkVars, histories
<1>1. CASE TakeInstall(h)
  <2>1. /\ does' \in [Handler -> HandlerState]
        /\ does'[h].pc = "mark" /\ does'[h].with = links.install.carries
        /\ links' \in [install : LinkRecord, update : LinkRecord] /\ links'.install.carries = 0
        /\ \A g \in Handler : g # h => does'[g] = does[g]
    <3>1. /\ links.install.carries \in Nat
          /\ HandlerAt(h, "mark", links.install.carries)
          /\ links' = [Swept EXCEPT !.install = [is |-> "used", carries |-> 0]]
      BY <1>0, <1>1 DEF TakeInstall, SetupTypes, LinkRecord
    <3>2. "mark" \in DutySteps /\ "used" \in LinkState
      BY DEF DutySteps, LinkState
    <3>3. links' \in [install : LinkRecord, update : LinkRecord] /\ links'.install.carries = 0
      BY <1>0, <3>1, <3>2, Install
    <3>4. QED
      BY <1>0, <3>1, <3>2, <3>3, HandlerGoes
  <2>2. SetupTypes'
    BY <1>1, <2>1 DEF SetupStands, SetupTypes, TakeInstall
  <2>3. CommandStands'
    BY <1>1, <2>1 DEF SetupStands, CommandStands, TakeInstall
  <2>4. SetterStands'
    BY <1>1, <1>0, <2>1 DEF SetupStands, SetterStands, SomeAt, TakeInstall
  <2>5. UseStands'
    BY <1>1, <1>0, <2>1 DEF SetupStands, UseStands, SomeAt, SetupTypes, TakeInstall
  <2>6. QED
    BY <2>2, <2>3, <2>4, <2>5 DEF SetupStands
<1>2. CASE TakeUpdate(h)
  <2>1. /\ does' \in [Handler -> HandlerState]
        /\ does'[h].pc = "base" /\ does'[h].with = 0
        /\ links' \in [install : LinkRecord, update : LinkRecord]
        /\ links'.install.carries = 0 \/ links'.install.carries = links.install.carries
        /\ \A g \in Handler : g # h => does'[g] = does[g]
    <3>1. /\ HandlerAt(h, "base", 0)
          /\ \/ links' = [Swept EXCEPT !.update = [is |-> "used", carries |-> 0]]
             \/ links' = Swept
      BY <1>2 DEF TakeUpdate
    <3>2. "base" \in DutySteps /\ "used" \in LinkState
      BY DEF DutySteps, LinkState
    <3>3. /\ links' \in [install : LinkRecord, update : LinkRecord]
          /\ links'.install.carries = 0 \/ links'.install.carries = links.install.carries
      BY <1>0, <3>1, <3>2, SweptLinks, Install
    <3>4. QED
      BY <1>0, <3>1, <3>2, <3>3, HandlerGoes
  <2>2. SetupTypes'
    BY <1>2, <2>1 DEF SetupStands, SetupTypes, TakeUpdate
  <2>3. CommandStands'
    BY <1>2, <2>1 DEF SetupStands, CommandStands, TakeUpdate
  <2>4. SetterStands'
    BY <1>2, <1>0, <2>1 DEF SetupStands, SetterStands, SomeAt, TakeUpdate
  <2>5. UseStands'
    BY <1>2, <1>0, <2>1 DEF SetupStands, UseStands, SomeAt, SetupTypes, TakeUpdate
  <2>6. QED
    BY <2>2, <2>3, <2>4, <2>5 DEF SetupStands
<1>3. CASE MarkFetched(h)
  <2>1. /\ does' \in [Handler -> HandlerState]
        /\ does'[h].pc = "base" /\ does'[h].with = does[h].with
        /\ \A g \in Handler : g # h => does'[g] = does[g]
    BY <1>0, <1>3, OnDuty, HandlerGoes DEF MarkFetched, SetupTypes, DutySteps
  <2>2. SetupTypes'
    BY <1>3, <2>1 DEF SetupStands, SetupTypes, MarkFetched
  <2>3. CommandStands'
    BY <1>3, <2>1 DEF SetupStands, CommandStands, MarkFetched
  <2>4. SetterStands'
    BY <1>3, <1>0, <2>1 DEF SetupStands, SetterStands, SomeAt, MarkFetched
  <2>5. UseStands'
    BY <1>3, <1>0, <2>1 DEF SetupStands, UseStands, SomeAt, SetupTypes, MarkFetched
  <2>6. QED
    BY <2>2, <2>3, <2>4, <2>5 DEF SetupStands
<1>4. CASE SendScript(h)
  <2>1. /\ does' \in [Handler -> HandlerState]
        /\ does'[h].pc = "off" /\ does'[h].with = 0 /\ does[h].with \in Nat
        /\ \A g \in Handler : g # h => does'[g] = does[g]
    BY <1>0, <1>4, OnDuty, HandlerStops DEF SendScript, SetupTypes, DutySteps
  <2>2. SetupTypes'
    BY <1>4, <2>1 DEF SetupStands, SetupTypes, SendScript
  <2>3. CommandStands'
    BY <1>4, <2>1 DEF SetupStands, CommandStands, SendScript
  <2>4. SetterStands'
    BY <1>4, <1>0, <2>1 DEF SetupStands, SetterStands, SomeAt, SendScript
  <2>5. UseStands'
    BY <1>4, <1>0, <2>1 DEF SetupStands, UseStands, SomeAt, SetupTypes, SendScript
  <2>6. QED
    BY <2>2, <2>3, <2>4, <2>5 DEF SetupStands
<1>5. QED
  BY <1>1, <1>2, <1>3, <1>4

---------------------------------------------------------------------------
(* Requests *)

LEMMA RequestsStand ==
  ASSUME SetupStands, NEW h \in Handler,
         AuthenticateKey(h) \/ TouchKey(h) \/ WriteUse(h) \/ MarkUsed(h)
  PROVE  SetupStands'
<1>0. SetupTypes
  BY DEF SetupStands
<1> USE DEF AtStep, linkVars, histories
<1>1. CASE AuthenticateKey(h)
  <2>1. /\ does' \in [Handler -> HandlerState]
        /\ does'[h].pc = "touch" /\ does'[h].with = secret /\ secret # 0
        /\ \A g \in Handler : g # h => does'[g] = does[g]
    BY <1>0, <1>1, OnDuty, HandlerGoes DEF AuthenticateKey, SetupTypes, DutySteps
  <2>2. SetupTypes'
    BY <1>1, <2>1 DEF SetupStands, SetupTypes, AuthenticateKey
  <2>3. CommandStands'
    BY <1>1, <2>1 DEF SetupStands, CommandStands, AuthenticateKey
  <2>4. SetterStands'
    BY <1>1, <1>0, <2>1 DEF SetupStands, SetterStands, SomeAt, AuthenticateKey
  <2>5. UseStands'
    BY <1>1, <1>0, <2>1 DEF SetupStands, UseStands, SomeAt, SetupTypes, AuthenticateKey
  <2>6. QED
    BY <2>2, <2>3, <2>4, <2>5 DEF SetupStands
<1>2. CASE TouchKey(h)
  <2>1. /\ does' \in [Handler -> HandlerState]
        /\ \/ lately /\ does'[h].pc = "off"
           \/ ~lately /\ does'[h].pc = "write" /\ does'[h].with = does[h].with
        /\ \A g \in Handler : g # h => does'[g] = does[g]
    BY <1>0, <1>2, OnDuty, HandlerGoes, HandlerStops DEF TouchKey, SetupTypes, DutySteps
  <2>2. SetupTypes'
    BY <1>2, <2>1 DEF SetupStands, SetupTypes, TouchKey
  <2>3. CommandStands'
    BY <1>2, <2>1 DEF SetupStands, CommandStands, TouchKey
  <2>4. SetterStands'
    BY <1>2, <1>0, <2>1 DEF SetupStands, SetterStands, SomeAt, TouchKey
  <2>5. UseStands'
    BY <1>2, <1>0, <2>1 DEF SetupStands, UseStands, SomeAt, SetupTypes, TouchKey
  <2>6. QED
    BY <2>2, <2>3, <2>4, <2>5 DEF SetupStands
<1>3. CASE WriteUse(h)
  <2>1. /\ does' \in [Handler -> HandlerState]
        /\ \/ does'[h].pc = "off" /\ "write" \in lost'
           \/ does'[h].pc = "markUsed" /\ does'[h].with = does[h].with
        /\ \A g \in Handler : g # h => does'[g] = does[g]
    BY <1>0, <1>3, OnDuty, HandlerGoes, HandlerStops DEF WriteUse, SetupTypes, DutySteps
  <2>2. SetupTypes'
    BY <1>3, <2>1 DEF SetupStands, SetupTypes, WriteUse
  <2>3. CommandStands'
    BY <1>3, <2>1 DEF SetupStands, CommandStands, WriteUse
  <2>4. SetterStands'
    BY <1>3, <1>0, <2>1 DEF SetupStands, SetterStands, SomeAt, WriteUse
  <2>5. UseStands'
    BY <1>3, <1>0, <2>1 DEF SetupStands, UseStands, SomeAt, SetupTypes, WriteUse
  <2>6. QED
    BY <2>2, <2>3, <2>4, <2>5 DEF SetupStands
<1>4. CASE MarkUsed(h)
  <2>1. /\ does' \in [Handler -> HandlerState]
        /\ does'[h].pc = "off" /\ does'[h].with = 0
        /\ \A g \in Handler : g # h => does'[g] = does[g]
    BY <1>0, <1>4, OnDuty, HandlerStops DEF MarkUsed, SetupTypes, DutySteps
  <2>2. SetupTypes'
    BY <1>4, <2>1 DEF SetupStands, SetupTypes, MarkUsed
  <2>3. CommandStands'
    BY <1>4, <2>1 DEF SetupStands, CommandStands, MarkUsed
  <2>4. SetterStands'
    BY <1>4, <1>0, <2>1 DEF SetupStands, SetterStands, SomeAt, MarkUsed
  <2>5. UseStands'
    BY <1>4, <1>0, <2>1 DEF SetupStands, UseStands, SomeAt, SetupTypes, MarkUsed
  <2>6. QED
    BY <2>2, <2>3, <2>4, <2>5 DEF SetupStands
<1>5. QED
  BY <1>1, <1>2, <1>3, <1>4

---------------------------------------------------------------------------
(* Time, a restart, and the whole *)

LEMMA TimeStands ==
  ASSUME SetupStands,
         MinuteGone \/ (\E k \in DOMAIN links : LinkExpires(k)) \/ AgentLinkExpires
  PROVE  SetupStands'
<1>0. SetupTypes
  BY DEF SetupStands
<1> USE DEF histories
<1>1. CASE MinuteGone
  BY <1>0, <1>1 DEF MinuteGone, SetupStands, SetupTypes, CommandStands, SetterStands, UseStands, SomeAt, linkVars
<1>2. CASE \E k \in DOMAIN links : LinkExpires(k)
  <2> PICK k \in DOMAIN links : LinkExpires(k)
    BY <1>2
  <2>1. k \in {"install", "update"} /\ links.install \in LinkRecord /\ links.update \in LinkRecord
    BY <1>0 DEF SetupTypes
  <2>2. links' = [links EXCEPT ![k].is = "expired"]
    BY DEF LinkExpires
  <2>3. links' \in [install : LinkRecord, update : LinkRecord] /\ links'.install.carries = links.install.carries
    BY <1>0, <2>1, <2>2 DEF SetupTypes, LinkRecord, LinkState
  <2>4. QED
    BY <1>0, <2>3 DEF LinkExpires, SetupStands, SetupTypes, CommandStands, SetterStands, UseStands, SomeAt
<1>3. CASE AgentLinkExpires
  BY <1>0, <1>3 DEF AgentLinkExpires, SetupStands, SetupTypes, CommandStands, SetterStands, UseStands, SomeAt
<1>4. QED
  BY <1>1, <1>2, <1>3

LEMMA RestartStands ==
  ASSUME SetupStands, RestartSetup
  PROVE  SetupStands'
<1>0. SetupTypes
  BY DEF SetupStands
<1> USE DEF histories
<1>1. does' \in [Handler -> HandlerState] /\ \A h \in Handler : does'[h].pc = "off"
  BY DEF RestartSetup, OffDuty, HandlerState, DutySteps
<1>2. links' \in [install : LinkRecord, update : LinkRecord] /\ links'.install.carries = 0
  BY Begun DEF RestartSetup
<1>3. /\ "rotation" \notin lost' => /\ "rotation" \notin lost
                                    /\ \A h \in Handler : does[h].pc \notin {"unmark", "forgetUse"}
      /\ "write" \notin lost' => /\ "write" \notin lost
                                 /\ \A h \in Handler : does[h].pc \notin {"mark", "write", "markUsed"}
      /\ "use" \notin lost' => "use" \notin lost
  <2> DEFINE at == {does[h].pc : h \in Handler}
  <2>1. lost' = lost \cup (IF at \cap {"unmark", "forgetUse"} = {} THEN {} ELSE {"rotation"})
                     \cup (IF at \cap {"mark", "write", "markUsed"} = {} THEN {} ELSE {"write"})
    BY DEF RestartSetup
  <2>2. \A h \in Handler : does[h].pc \in at
    OBVIOUS
  <2> HIDE DEF at
  <2>3. QED
    BY <2>1, <2>2
<1>4. SetupTypes'
  BY <1>0, <1>1, <1>2 DEF RestartSetup, SetupTypes
<1>5. CommandStands'
  BY <1>1, <1>2 DEF CommandStands
<1>6. SetterStands'
  BY <1>1, <1>3 DEF RestartSetup, SetupStands, SetterStands, SomeAt
<1>7. UseStands'
  BY <1>1, <1>3 DEF RestartSetup, SetupStands, UseStands, SomeAt
<1>8. QED
  BY <1>4, <1>5, <1>6, <1>7 DEF SetupStands

LEMMA SetupStep ==
  ASSUME SetupStands, [SetupNext]_setupVars
  PROVE  SetupStands'
<1>1. CASE UNCHANGED setupVars
  BY <1>1 DEF setupVars, SetupStands, SetupTypes, CommandStands, SetterStands, UseStands, SomeAt
<1>2. CASE \E h \in Handler : HandlerStep(h)
  BY <1>2, PageStands, KeyStands, CommandsStand, RequestsStand DEF HandlerStep
<1>3. CASE MinuteGone \/ (\E k \in DOMAIN links : LinkExpires(k)) \/ AgentLinkExpires
  BY <1>3, TimeStands
<1>4. CASE RestartSetup
  BY <1>4, RestartStands
<1>5. QED
  BY <1>1, <1>2, <1>3, <1>4 DEF SetupNext

\* A client's page and its links tell the truth of its key, whatever number of
\* handlers, requests and commands are under way: no command carries a secret
\* that no longer works, a client is set up with the key it has, and one whose
\* requests come through is set up.
THEOREM SetupSoundHolds == SetupSpec => []SetupSound
<1>1. SetupStands => SetupSound
  <2> SUFFICES ASSUME SetupStands, ~Changing PROVE SetupSound
    BY DEF SetupSound, NoDeadCommand, SetUpWithThis, UsedIsSetUp
  <2>1. NoDeadCommand
    BY DEF SetupStands, CommandStands, NoDeadCommand, Changing
  <2>2. SetUpWithThis
    BY DEF SetupStands, SetterStands, SetUpWithThis, Changing, SomeAt
  <2>3. UsedIsSetUp
    BY DEF SetupStands, UseStands, UsedIsSetUp, Changing, SomeAt
  <2>4. QED
    BY <2>1, <2>2, <2>3 DEF SetupSound
<1>2. QED
  BY <1>1, SetupBegins, SetupStep, PTL DEF SetupSpec
=============================================================================
