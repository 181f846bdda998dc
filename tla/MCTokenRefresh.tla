---------------------------- MODULE MCTokenRefresh ----------------------------
(* Small instances of TokenRefresh. *)
EXTENDS TokenRefresh, TLC

CONSTANTS old, new, a, b, c

\* A handover: two goroutines in the old worker, one in the new.
Handover == (a :> old) @@ (b :> old) @@ (c :> new)

\* One goroutine in each.
Apart == (a :> old) @@ (c :> new)

\* Two in one worker.
Together == (a :> old) @@ (b :> old)

SameWorker == Permutations({a, b})
=============================================================================
