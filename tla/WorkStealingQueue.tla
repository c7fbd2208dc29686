-------------------------- MODULE WorkStealingQueue --------------------------
(* The work-stealing queue of the mark loop (src/work-stealing-queue.h): an  *)
(* owner that pushes and pops at bottom, thieves that steal at top, and a    *)
(* circular array that the owner replaces by one of twice the size.  Loads   *)
(* and stores are sequentially consistent (the header's fences are taken to  *)
(* give that); an item is several words, so that a copy racing with a write  *)
(* of its slot reads Torn.  Between two mark phases the indices are reset    *)
(* and the replaced arrays freed (gc_mark_clean_reclaim_sets).               *)
EXTENDS Integers, Sequences

CONSTANTS Items, Owner, Thieves, Null, Torn,
          InitCapacity,   \* of the first array
          MaxIndex        \* bound: pushes between two resets

ASSUME CapacityPositive == InitCapacity \in Nat \ {0} /\ MaxIndex \in Nat
ASSUME OwnerNoThief == Owner \notin Thieves

VARIABLES
    top, bottom,
    arrays,    \* the arrays allocated so far, the last one is q->array
    pc,        \* pc[a]: the next step of actor a
    t,         \* t[a]: top as a read it
    ary,       \* ary[h]: the array thief h read (an index of arrays)
    dest,      \* dest[a]: the item being pushed, or copied out
    ret        \* ret[a]: what the last pop or steal of a returned

queue == <<top, bottom, arrays>>
local == <<t, ary, dest>>
vars == <<queue, pc, local, ret>>

Actors == Thieves \cup {Owner}
array == arrays[Len(arrays)]
Capacity(a) == Len(a)
Slot(a, i) == (i % Capacity(a)) + 1    \* i & mask
Goto(a, l) == pc' = [pc EXCEPT ![a] = l]
Forget(a) ==
    /\ t' = [t EXCEPT ![a] = 0] /\ dest' = [dest EXCEPT ![a] = Null]
    /\ ary' = [h \in Thieves |-> IF h = a THEN 1 ELSE ary[h]]
Give(a, v) == ret' = [ret EXCEPT ![a] = v] /\ Forget(a)

\* A new array is not initialized: what is in it is no item.
create_ws_array(capacity) == [i \in 1..capacity |-> Torn]

Init ==
    /\ top = 0 /\ bottom = 0 /\ arrays = <<create_ws_array(InitCapacity)>>
    /\ pc = [a \in Actors |-> "idle"]
    /\ t = [a \in Actors |-> 0] /\ ary = [h \in Thieves |-> 1]
    /\ dest = [a \in Actors |-> Null] /\ ret = [a \in Actors |-> Null]

-----------------------------------------------------------------------------
(* ws_queue_push by the owner: read top, replace the array when it is full,  *)
(* write the slot in two steps, then let the thieves see it.                 *)
PushLoad(v) ==
    /\ pc[Owner] = "idle" /\ bottom < MaxIndex
    /\ t' = [t EXCEPT ![Owner] = top] /\ dest' = [dest EXCEPT ![Owner] = v]
    /\ Goto(Owner, "push_grow")
    /\ UNCHANGED <<queue, ary, ret>>

\* Mutant: one item too many before the array is replaced.
FullLate == bottom - t[Owner] > Capacity(array)

Full == bottom - t[Owner] > Capacity(array) - 1

Grown ==
    LET new == create_ws_array(2 * Capacity(array))
        from == t[Owner]..(t[Owner] + Capacity(array) - 1)
    IN  [s \in DOMAIN new |->
           IF \E i \in from : Slot(new, i) = s
           THEN array[Slot(array, CHOOSE i \in from : Slot(new, i) = s)]
           ELSE new[s]]

PushGrow ==
    /\ pc[Owner] = "push_grow" /\ Goto(Owner, "push_copy")
    /\ arrays' = IF Full THEN Append(arrays, Grown) ELSE arrays
    /\ t' = [t EXCEPT ![Owner] = 0]
    /\ UNCHANGED <<top, bottom, ary, dest, ret>>

Write(v) == arrays' = [arrays EXCEPT ![Len(arrays)][Slot(array, bottom)] = v]

PushCopy ==
    /\ pc[Owner] = "push_copy" /\ Goto(Owner, "push_copied")
    /\ Write(Torn)
    /\ UNCHANGED <<top, bottom, local, ret>>

PushCopied ==
    /\ pc[Owner] = "push_copied" /\ Goto(Owner, "push_publish")
    /\ Write(dest[Owner])
    /\ UNCHANGED <<top, bottom, local, ret>>

PushPublish ==
    /\ pc[Owner] = "push_publish" /\ Goto(Owner, "idle")
    /\ bottom' = bottom + 1 /\ Forget(Owner)
    /\ UNCHANGED <<top, arrays, ret>>

-----------------------------------------------------------------------------
(* ws_queue_pop by the owner: claim the last slot by moving bottom, then read *)
(* top.  With an older item left the slot is the owner's; with none it races *)
(* the thieves for it on top; an empty queue has its bottom restored.        *)
PopClaim ==
    /\ pc[Owner] = "idle" /\ Goto(Owner, "pop_top")
    /\ bottom' = bottom - 1
    /\ UNCHANGED <<top, arrays, local, ret>>

\* Mutant: the last item taken without a race on top.
PopTopUnraced ==
    /\ pc[Owner] = "pop_top"
    /\ IF top <= bottom
       THEN Goto(Owner, "idle") /\ Give(Owner, array[Slot(array, bottom)])
       ELSE Goto(Owner, "pop_restore") /\ Give(Owner, Null)
    /\ UNCHANGED queue

PopTop ==
    /\ pc[Owner] = "pop_top"
    /\ \/ /\ top < bottom /\ Goto(Owner, "idle")
          /\ Give(Owner, array[Slot(array, bottom)])
       \/ /\ top = bottom /\ Goto(Owner, "pop_cas")
          /\ dest' = [dest EXCEPT ![Owner] = array[Slot(array, bottom)]]
          /\ t' = [t EXCEPT ![Owner] = top]
          /\ UNCHANGED <<ary, ret>>
       \/ top > bottom /\ Goto(Owner, "pop_restore") /\ Give(Owner, Null)
    /\ UNCHANGED queue

PopCAS ==
    /\ pc[Owner] = "pop_cas" /\ Goto(Owner, "pop_restore")
    /\ \/ top = t[Owner] /\ top' = top + 1 /\ Give(Owner, dest[Owner])
       \/ top # t[Owner] /\ UNCHANGED top /\ Give(Owner, Null)
    /\ UNCHANGED <<bottom, arrays>>

PopRestore ==
    /\ pc[Owner] = "pop_restore" /\ Goto(Owner, "idle")
    /\ bottom' = bottom + 1
    /\ UNCHANGED <<top, arrays, local, ret>>

-----------------------------------------------------------------------------
(* ws_queue_steal_from by thief h: read top, bottom, the array and the slot, *)
(* each in a step, and claim the item by moving top on from where it was.    *)
StealTop(h) ==
    /\ pc[h] = "idle" /\ Goto(h, "steal_bottom")
    /\ t' = [t EXCEPT ![h] = top]
    /\ UNCHANGED <<queue, ary, dest, ret>>

StealBottom(h) ==
    /\ pc[h] = "steal_bottom"
    /\ \/ t[h] < bottom /\ Goto(h, "steal_array") /\ UNCHANGED <<local, ret>>
       \/ t[h] >= bottom /\ Goto(h, "idle") /\ Give(h, Null)
    /\ UNCHANGED queue

StealArray(h) ==
    /\ pc[h] = "steal_array" /\ Goto(h, "steal_copy")
    /\ ary' = [ary EXCEPT ![h] = Len(arrays)]
    /\ UNCHANGED <<queue, t, dest, ret>>

StealCopy(h) ==
    /\ pc[h] = "steal_copy" /\ Goto(h, "steal_cas")
    /\ dest' = [dest EXCEPT ![h] = arrays[ary[h]][Slot(arrays[ary[h]], t[h])]]
    /\ UNCHANGED <<queue, t, ary, ret>>

StealCAS(h) ==
    /\ pc[h] = "steal_cas" /\ Goto(h, "idle")
    /\ \/ top = t[h] /\ top' = top + 1 /\ Give(h, dest[h])
       \/ top # t[h] /\ UNCHANGED top /\ Give(h, Null)
    /\ UNCHANGED <<bottom, arrays>>

-----------------------------------------------------------------------------
(* gc_mark_clean_reclaim_sets, run by the initiator when nobody marks.       *)
Reset ==
    /\ \A a \in Actors : pc[a] = "idle"
    /\ top = bottom /\ bottom > 0
    /\ top' = 0 /\ bottom' = 0 /\ arrays' = <<array>>
    /\ UNCHANGED <<pc, local, ret>>

Push == (\E v \in Items : PushLoad(v)) \/ PushGrow \/ PushCopy \/ PushCopied \/ PushPublish
Pop == PopClaim \/ PopTop \/ PopCAS \/ PopRestore
Steal(h) == StealTop(h) \/ StealBottom(h) \/ StealArray(h) \/ StealCopy(h) \/ StealCAS(h)

Next == Push \/ Pop \/ (\E h \in Thieves : Steal(h)) \/ Reset

Spec == Init /\ [][Next]_vars

-----------------------------------------------------------------------------
PushLabels == {"push_copy", "push_copied", "push_publish"}
OwnerLabels == {"idle", "push_grow", "pop_top", "pop_cas", "pop_restore"} \cup PushLabels
ThiefLabels == {"idle", "steal_bottom", "steal_array", "steal_copy", "steal_cas"}

(* Each variable has its type; bottom is below zero only inside a pop of an  *)
(* empty queue that was never pushed to.                                     *)
TypeOK ==
    /\ top \in 0..MaxIndex /\ bottom \in -1..MaxIndex
    /\ \A k \in DOMAIN arrays : \E c \in 1..(InitCapacity + 2 * MaxIndex) :
         arrays[k] \in [1..c -> Items \cup {Torn}]
    /\ pc \in [Actors -> OwnerLabels \cup ThiefLabels]
    /\ pc[Owner] \in OwnerLabels /\ \A h \in Thieves : pc[h] \in ThiefLabels
    /\ t \in [Actors -> 0..MaxIndex] /\ ary \in [Thieves -> DOMAIN arrays]
    /\ dest \in [Actors -> Items \cup {Null, Torn}] /\ ret \in [Actors -> Items \cup {Null}]

(* The queue as its users see it.  A claimed slot is still in the queue until *)
(* the owner has read top, and the last item until somebody moved top.       *)
last == IF pc[Owner] \in {"pop_top", "pop_cas"} THEN bottom ELSE bottom - 1
items == [k \in 1..(last - top + 1) |-> array[Slot(array, top + k - 1)]]

Abs == INSTANCE StealQueue WITH items <- items, ret <- ret

(* Every item pushed is taken once, by the owner or by one thief, whole and  *)
(* in order, and a pop that returns nothing found the queue empty: through   *)
(* the race for the last item, a growing array, and slots that are reused.   *)
ImplementsStealQueue == Abs!Spec

(* What a thief is about to win is the oldest item, whichever array it read: *)
(* an array that was replaced still holds what the thief will claim.         *)
StolenIsOldest ==
    \A h \in Thieves :
        pc[h] = "steal_cas" /\ top = t[h] => items # <<>> /\ dest[h] = Head(items)
=============================================================================
