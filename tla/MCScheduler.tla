---------------------------- MODULE MCScheduler ----------------------------
(* Scheduler for TLC: the actors other than Io are interchangeable.          *)
EXTENDS Scheduler, TLC

Symmetry == Permutations(Actors \ {Io})
=============================================================================
