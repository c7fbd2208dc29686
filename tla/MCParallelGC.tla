---------------------------- MODULE MCParallelGC ----------------------------
(* ParallelGC for TLC: a root array whose two references are scanned in two  *)
(* chunks and that both lead to the same object, and a finalized object.     *)
(* Two collections with one collector thread, or one with two.               *)
EXTENDS ParallelGC

CONSTANTS g1, g2, a, c, f

Order == <<g1, g2>>
TwoThenOne == <<2, 1>>
HeapRefs == [o \in Objects |->
    CASE o = a -> <<c, c>> [] o = c -> <<a>> [] o = f -> <<c>>]
QueuedRoots == [t \in {Initiator, g1, g2} |-> IF t = g1 THEN <<a>> ELSE <<>>]
=============================================================================
