------------------------------- MODULE Mutex -------------------------------
(***************************************************************************)
(* What a reentrant lock promises its callers, without saying how: one     *)
(* owner at a time, levels that nest, trylock that may fail, lock that     *)
(* gives up only when it was called with a token and that token has been   *)
(* cancelled.                                                              *)
(***************************************************************************)
EXTENDS Naturals

CONSTANTS Tasks, Null, MaxDepth

VARIABLES owner,       \* the task that owns the lock, or Null
          depth,       \* how many levels it holds
          asking,      \* for each task, the call it is in, or Null
          cancelled    \* has the source of the tokens been cancelled

vars == <<owner, depth, asking, cancelled>>

Init ==
    /\ owner = Null
    /\ depth = 0
    /\ asking = [t \in Tasks |-> Null]
    /\ cancelled = FALSE

\* The documented interface: trylock(rl), lock(rl; cancel=nothing), lock(rl; cancel=tok).
Ask(t, m) ==
    /\ owner # t
    /\ asking[t] = Null
    /\ asking' = [asking EXCEPT ![t] = m]
    /\ UNCHANGED <<owner, depth, cancelled>>

Acquire(t) ==
    /\ asking[t] # Null
    /\ owner = Null
    /\ owner' = t
    /\ depth' = 1
    /\ asking' = [asking EXCEPT ![t] = Null]
    /\ UNCHANGED cancelled

\* trylock returns false; lock throws the CancellationRequest.
GiveUp(t) ==
    /\ asking[t] = "trylock" \/ (asking[t] = "lock_token" /\ cancelled)
    /\ asking' = [asking EXCEPT ![t] = Null]
    /\ UNCHANGED <<owner, depth, cancelled>>

Reenter(t) ==
    /\ owner = t
    /\ depth < MaxDepth
    /\ depth' = depth + 1
    /\ UNCHANGED <<owner, asking, cancelled>>

Release(t) ==
    /\ owner = t
    /\ depth' = depth - 1
    /\ owner' = IF depth = 1 THEN Null ELSE t
    /\ UNCHANGED <<asking, cancelled>>

Cancel ==
    /\ cancelled' = TRUE
    /\ UNCHANGED <<owner, depth, asking>>

Next ==
    \/ Cancel
    \/ \E t \in Tasks :
        \/ Acquire(t) \/ GiveUp(t) \/ Reenter(t) \/ Release(t)
        \/ \E m \in {"trylock", "lock", "lock_token"} : Ask(t, m)

Spec == Init /\ [][Next]_vars
=============================================================================
