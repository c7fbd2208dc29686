------------------------ MODULE MCWorkStealingQueue ------------------------
(* WorkStealingQueue for TLC: thieves and items are interchangeable.         *)
EXTENDS WorkStealingQueue, TLC

Symmetry == Permutations(Thieves) \cup Permutations(Items)
=============================================================================
