-------------------------- MODULE MCReentrantLock --------------------------
(* ReentrantLock for three tasks: one calls lock without a token, one with a *)
(* token, and one mixes trylock with lock under a token.                     *)
EXTENDS ReentrantLock

CONSTANTS t1, t2, t3

MixedCalls ==
    [t \in Tasks |-> CASE t = t1 -> {"lock"}
                       [] t = t2 -> {"lock_token"}
                       [] OTHER -> {"trylock", "lock_token"}]
=============================================================================
