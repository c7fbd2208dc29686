----------------------------- MODULE MCPagePool -----------------------------
(* PagePool for TLC: pages and mutators are interchangeable.                 *)
EXTENDS PagePool, TLC

Symmetry == Permutations(Pages) \cup Permutations(Mutators)
=============================================================================
