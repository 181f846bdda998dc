----------------------------- MODULE TokenCustody -----------------------------
(***************************************************************************)
(* What keeping one account's rotating credential comes to, whatever takes *)
(* part in it: there is one copy that works, and it is in one place --     *)
(* stored, or in the hands of the refresh that is about to store it --     *)
(* until an outage or a crash loses it or the provider takes it back.      *)
(* Only then may the account be marked dead.                               *)
(*                                                                         *)
(* The last paragraph of Pool.Refresh's comment is the reason for it:      *)
(* "the only usable credential for this account exists in this process'    *)
(* memory".                                                                *)
(***************************************************************************)
VARIABLES
  place,  \* where the working credential is
  dead    \* whether the account is marked as needing a human

Init == place = "stored" /\ dead = FALSE

\* The stored one is exchanged, and the answer in hand.
Rotate == place = "stored" /\ place' = "hand" /\ UNCHANGED dead

\* The answer is stored; the provider may have taken it back meanwhile.
Store == place = "hand" /\ place' \in {"stored", "revoked"} /\ UNCHANGED dead

\* An answer that never comes, a write that fails, a crash.
Lose == place \in {"stored", "hand"} /\ place' = "lost" /\ UNCHANGED dead

\* The provider ends the grant.
Revoke == place = "stored" /\ place' = "revoked" /\ UNCHANGED dead

\* The account is marked as needing a human, and stays so.
Mark == place \in {"lost", "revoked"} /\ dead' = TRUE /\ UNCHANGED place

Next == Rotate \/ Store \/ Lose \/ Revoke \/ Mark

Spec == Init /\ [][Next]_<<place, dead>>
=============================================================================
