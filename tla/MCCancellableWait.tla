------------------------- MODULE MCCancellableWait -------------------------
(* CancellableWait for TLC: the waits that Base makes, with the floors that  *)
(* they stage, and the symmetry of the tasks and of the cancellers.          *)
EXTENDS CancellableWait, TLC

\* wait(c; cancel = nothing), wait(c), and a value-mode wait.
MainCalls == {[kind |-> "shield", floor |-> 0], [kind |-> "cancel", floor |-> 0],
              [kind |-> "value", floor |-> 1]}

\* The same, and the teardown wait after a request of severity 1 was acknowledged.
AllCalls == MainCalls \cup {[kind |-> "teardown", floor |-> 2]}

Symmetry == Permutations(Tasks) \cup Permutations(Cancellers)
=============================================================================
