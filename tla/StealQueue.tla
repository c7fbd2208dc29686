----------------------------- MODULE StealQueue -----------------------------
(* What the mark loop needs of a work-stealing queue                         *)
(* (src/work-stealing-queue.h): its owner pushes and pops at one end, thieves *)
(* take from the other, every operation in one step, and each item goes to   *)
(* one taker.  A steal may come back with nothing at any time; a pop comes   *)
(* back with nothing only when the queue is empty.                           *)
EXTENDS Naturals, Sequences

CONSTANTS Items, Owner, Thieves, Null

VARIABLES items,   \* the queue, oldest first
          ret      \* ret[a]: what the last pop or steal of a returned

vars == <<items, ret>>

Init == items = <<>> /\ ret = [a \in Thieves \cup {Owner} |-> Null]

Push(v) == items' = Append(items, v) /\ UNCHANGED ret

Pop ==
    /\ items # <<>>
    /\ items' = SubSeq(items, 1, Len(items) - 1)
    /\ ret' = [ret EXCEPT ![Owner] = items[Len(items)]]

PopEmpty ==
    /\ items = <<>>
    /\ ret' = [ret EXCEPT ![Owner] = Null]
    /\ UNCHANGED items

Steal(h) ==
    /\ items # <<>>
    /\ items' = Tail(items)
    /\ ret' = [ret EXCEPT ![h] = Head(items)]

StealNothing(h) ==
    /\ ret' = [ret EXCEPT ![h] = Null]
    /\ UNCHANGED items

Next ==
    \/ \E v \in Items : Push(v)
    \/ Pop \/ PopEmpty
    \/ \E h \in Thieves : Steal(h) \/ StealNothing(h)

Spec == Init /\ [][Next]_vars
=============================================================================
