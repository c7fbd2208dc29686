---------------------- MODULE WorkStealingQueueProofs ----------------------
(* The work-stealing queue takes every item once and in order, for any       *)
(* number of thieves, any first capacity and any bound on the indices.       *)
EXTENDS WorkStealingQueue, SequenceTheorems, TLAPS

-----------------------------------------------------------------------------
(* The inductive invariant *)

Contents == Items \cup {Torn}
Cell(a, i) == a[Slot(a, i)]
MaxCapacity == InitCapacity + 2 * MaxIndex

ArrayTypes ==
    /\ arrays \in Seq(Seq(Contents)) /\ Len(arrays) \in Nat \ {0}
    /\ \A k \in 1..Len(arrays) : Len(arrays[k]) \in 1..MaxCapacity

Types ==
    /\ top \in Nat /\ bottom \in Int /\ ArrayTypes
    /\ pc \in [Actors -> OwnerLabels \cup ThiefLabels]
    /\ pc[Owner] \in OwnerLabels /\ \A h \in Thieves : pc[h] \in ThiefLabels
    /\ t \in [Actors -> Nat] /\ ary \in [Thieves -> Nat]
    /\ dest \in [Actors -> Items \cup {Null, Torn}] /\ ret \in [Actors -> Items \cup {Null}]

\* Where top and bottom are at each step of the owner: the items fit in the
\* array, and with one slot to spare once a push has looked.
Indices ==
    /\ bottom >= (IF pc[Owner] \in {"pop_top", "pop_cas", "pop_restore"} THEN -1 ELSE 0)
    /\ bottom <= (IF pc[Owner] = "idle" THEN MaxIndex ELSE MaxIndex - 1)
    /\ pc[Owner] = "idle" => top <= bottom /\ bottom - top <= Capacity(array)
    /\ pc[Owner] = "push_grow" =>
         t[Owner] <= top /\ top <= bottom /\ bottom - t[Owner] <= Capacity(array)
    /\ pc[Owner] \in PushLabels => top <= bottom /\ bottom - top < Capacity(array)
    /\ pc[Owner] = "pop_top" => top <= bottom + 1 /\ bottom + 1 - top <= Capacity(array)
    /\ pc[Owner] = "pop_cas" => t[Owner] = bottom /\ bottom <= top /\ top <= bottom + 1
    /\ pc[Owner] = "pop_restore" => top = bottom + 1

\* Every item in the queue is whole; so is the one that is pushed, and the one
\* that the owner races for.
Whole == \A i \in top..last : Cell(array, i) \in Items
Pushed ==
    /\ pc[Owner] \in PushLabels \cup {"push_grow"} => dest[Owner] \in Items
    /\ pc[Owner] = "push_publish" => Cell(array, bottom) = dest[Owner]
Raced == pc[Owner] = "pop_cas" /\ top = bottom => dest[Owner] = Cell(array, bottom)

\* A thief whose top is still right has its item in the queue, whichever array
\* it reads it from.
Behind ==
    /\ \A a \in Actors : t[a] <= top
    /\ pc[Owner] \notin {"push_grow", "pop_cas"} => t[Owner] = 0
Reads ==
    \A h \in Thieves :
        /\ pc[h] \notin {"steal_copy", "steal_cas"} => ary[h] = 1
        /\ ary[h] \in 1..Len(arrays)
        /\ pc[h] = "idle" => t[h] = 0
Stealing ==
    \A h \in Thieves : t[h] = top =>
        /\ pc[h] \in {"steal_array", "steal_copy", "steal_cas"} => top <= last
        /\ pc[h] = "steal_copy" => Cell(arrays[ary[h]], top) = Cell(array, top)
        /\ pc[h] = "steal_cas" => dest[h] = Cell(array, top)

IInv ==
    /\ Types /\ Indices /\ Whole /\ Pushed /\ Raced
    /\ Behind /\ Reads /\ Stealing

-----------------------------------------------------------------------------
(* Slots *)

\* Division with remainder.
LEMMA DivMod ==
    ASSUME NEW i \in Int, NEW c \in Nat \ {0}
    PROVE  /\ i % c \in 0..(c - 1) /\ i \div c \in Int
           /\ i = c * (i \div c) + (i % c)
  OBVIOUS

\* A multiple of c is not strictly between 0 and c.
LEMMA NoMultipleBetween ==
    ASSUME NEW p \in Int, NEW q \in Int, NEW c \in Nat \ {0}, NEW d \in Int,
           d = c * q - c * p, 0 < d, d < c
    PROVE  FALSE
  <1>1. CASE q <= p
    BY <1>1
  <1>2. CASE q >= p + 1
    BY <1>2
  <1> QED
    BY <1>1, <1>2

\* Two indices less than c apart have different remainders.
LEMMA ModDistinct ==
    ASSUME NEW i \in Int, NEW j \in Int, NEW c \in Nat \ {0}, i < j, j - i < c
    PROVE  i % c # j % c
  <1> SUFFICES ASSUME i % c = j % c PROVE FALSE
    BY Zenon
  <1> DEFINE p == i \div c
             q == j \div c
             m == i % c
  <1>1. i = c * p + m /\ j = c * q + m /\ p \in Int /\ q \in Int /\ m \in Int
    BY DivMod
  <1> HIDE DEF p, q, m
  <1>2. j - i = c * q - c * p
    BY <1>1
  <1> QED
    BY <1>1, <1>2, NoMultipleBetween

\* A slot is in the array,
LEMMA SlotInside ==
    ASSUME NEW S, NEW a \in Seq(S), Len(a) \in Nat \ {0}, NEW i \in Int
    PROVE  Slot(a, i) \in 1..Len(a) /\ Cell(a, i) \in S
  <1>1. i % Len(a) \in 0..(Len(a) - 1)
    BY Zenon, DivMod
  <1>2. Slot(a, i) \in 1..Len(a)
    BY <1>1 DEF Slot, Capacity
  <1> QED
    BY Zenon, <1>2, ElementOfSeq DEF Cell

\* and indices less than its capacity apart have different slots.
LEMMA SlotDistinct ==
    ASSUME NEW a, Len(a) \in Nat \ {0}, NEW i \in Int, NEW j \in Int, i < j, j - i < Len(a)
    PROVE  Slot(a, i) # Slot(a, j)
  <1> DEFINE c == Len(a)
             m == i % c
             n == j % c
  <1> HIDE DEF c
  <1>1. c \in Nat \ {0} /\ j - i < c
    BY Zenon DEF c
  <1>2. m # n
    BY Zenon, <1>1, ModDistinct
  <1>3. m \in Int /\ n \in Int
    BY <1>1, DivMod
  <1> HIDE DEF m, n
  <1>4. m + 1 # n + 1
    BY <1>2, <1>3
  <1> QED
    BY Zenon, <1>4 DEF Slot, Capacity, c, m, n

\* What q->array is: the last array, of positive capacity.
LEMMA ArrayTyped ==
    ASSUME ArrayTypes
    PROVE  array \in Seq(Contents) /\ Len(array) \in Nat \ {0} /\ Len(array) <= MaxCapacity /\ MaxCapacity \in Nat
  BY CapacityPositive DEF ArrayTypes, array, MaxCapacity

\* Writing the slot of an index changes one cell of the current array.
LEMMA WriteCells ==
    ASSUME ArrayTypes, bottom \in Int, NEW v \in Contents, Write(v)
    PROVE  /\ ArrayTypes' /\ Len(arrays') = Len(arrays) /\ Len(array') = Len(array)
           /\ Cell(array', bottom) = v
           /\ \A i \in Int : i < bottom /\ bottom - i < Len(array) => Cell(array', i) = Cell(array, i)
           /\ \A k \in 1..Len(arrays) : k # Len(arrays) => arrays'[k] = arrays[k]
  <1> DEFINE n == Len(arrays)
             s == Slot(array, bottom)
  <1>1. n \in Nat \ {0} /\ n \in 1..n /\ array \in Seq(Contents) /\ Len(array) \in Nat \ {0} /\ array = arrays[n]
    BY ArrayTyped DEF ArrayTypes, array
  <1>2. s \in 1..Len(array)
    BY Zenon, <1>1, SlotInside
  <1>3. arrays' = [arrays EXCEPT ![n] = [array EXCEPT ![s] = v]]
    BY Zenon, <1>1 DEF Write
  <1> HIDE DEF s
  <1>4. [array EXCEPT ![s] = v] \in Seq(Contents) /\ Len([array EXCEPT ![s] = v]) = Len(array)
    BY <1>1, <1>2, ExceptSeq
  <1>5. arrays' \in Seq(Seq(Contents)) /\ Len(arrays') = n
    BY <1>1, <1>3, <1>4, ExceptSeq DEF ArrayTypes
  <1>6. array' = [array EXCEPT ![s] = v]
    BY <1>1, <1>3, <1>5 DEF ArrayTypes, array
  <1>7. \A k \in 1..n : k # n => arrays'[k] = arrays[k]
    BY <1>1, <1>3 DEF ArrayTypes
  <1>8. ArrayTypes'
    <2>1. \A k \in 1..Len(arrays') : Len(arrays'[k]) \in 1..MaxCapacity
      BY Zenon, <1>1, <1>4, <1>5, <1>6, <1>7 DEF ArrayTypes, array
    <2> QED
      BY Zenon, <1>1, <1>5, <2>1 DEF ArrayTypes
  <1>9. array'[s] = v /\ \A x \in 1..Len(array) : x # s => array'[x] = array[x]
    BY <1>1, <1>2, <1>6
  <1>10. Len(array') = Len(array)
    BY Zenon, <1>4, <1>6
  <1>11. \A i \in Int : Slot(array', i) = Slot(array, i)
    BY Zenon, <1>10 DEF Slot, Capacity
  <1>12. Cell(array', bottom) = v
    BY Zenon, <1>9, <1>11 DEF Cell, s
  <1>13. ASSUME NEW i \in Int, i < bottom, bottom - i < Len(array)
         PROVE  Cell(array', i) = Cell(array, i)
    <2>1. Slot(array, i) # s /\ Slot(array, i) \in 1..Len(array)
      BY Zenon, <1>1, <1>13, SlotDistinct, SlotInside DEF s
    <2> QED
      BY Zenon, <1>9, <1>11, <2>1 DEF Cell
  <1> QED
    BY Zenon, <1>5, <1>7, <1>8, <1>10, <1>12, <1>13

\* The grown array has the items of the one it replaces, from the top that the
\* owner read.
LEMMA GrownCells ==
    ASSUME ArrayTypes, t[Owner] \in Nat
    PROVE  /\ Grown \in Seq(Contents) /\ Len(Grown) = 2 * Len(array)
           /\ \A i \in t[Owner]..(t[Owner] + Len(array) - 1) : Cell(Grown, i) = Cell(array, i)
  <1> DEFINE c == Len(array)
             new == create_ws_array(2 * c)
             from == t[Owner]..(t[Owner] + c - 1)
  <1>1. array \in Seq(Contents) /\ c \in Nat \ {0}
    BY Zenon, ArrayTyped
  <1>2. new = [i \in 1..(2 * c) |-> Torn] /\ new \in Seq(Contents) /\ Len(new) = 2 * c /\ DOMAIN new = 1..(2 * c)
    BY <1>1 DEF create_ws_array, Contents
  <1>3. from \subseteq Int /\ \A i, j \in from : i < j => j - i < 2 * c
    BY <1>1
  <1>4. Grown = [s \in 1..(2 * c) |-> IF \E i \in from : Slot(new, i) = s
                                     THEN array[Slot(array, CHOOSE i \in from : Slot(new, i) = s)]
                                     ELSE new[s]]
    BY Zenon, <1>2 DEF Grown, Capacity
  <1> HIDE DEF new, from
  <1>5. ASSUME NEW s \in 1..(2 * c) PROVE Grown[s] \in Contents
    <2>1. CASE \E i \in from : Slot(new, i) = s
      <3>1. (CHOOSE i \in from : Slot(new, i) = s) \in Int
        BY Zenon, <1>3, <2>1
      <3> QED
        BY Zenon, <1>1, <1>4, <2>1, <3>1, SlotInside DEF Cell
    <2>2. CASE ~\E i \in from : Slot(new, i) = s
      BY Zenon, <1>2, <1>4, <2>2 DEF Contents
    <2> QED
      BY Zenon, <2>1, <2>2
  <1>6. Grown \in [1..(2 * c) -> Contents]
    BY Zenon, <1>4, <1>5
  <1>7. Grown \in Seq(Contents) /\ Len(Grown) = 2 * c
    BY <1>1, <1>6
  <1>8. ASSUME NEW i \in from PROVE Cell(Grown, i) = Cell(array, i)
    <2> DEFINE s == Slot(new, i)
               j == CHOOSE x \in from : Slot(new, x) = s
    <2>1. j \in from /\ Slot(new, j) = s
      BY Zenon
    <2>2. s \in 1..(2 * c)
      <3>1. i \in Int /\ Len(new) \in Nat \ {0}
        BY <1>1, <1>2, <1>3
      <3>2. s \in 1..Len(new)
        BY Zenon, <1>2, <3>1, SlotInside
      <3> QED
        BY Zenon, <1>2, <3>2
    <2>3. s = Slot(Grown, i)
      BY Zenon, <1>2, <1>7 DEF Slot, Capacity
    <2> HIDE DEF j
    <2>4. j = i
      <3>1. i \in Int /\ j \in Int /\ Len(new) \in Nat \ {0}
            /\ (i < j => j - i < Len(new)) /\ (j < i => i - j < Len(new))
        BY <1>1, <1>2, <1>3, <2>1
      <3>2. ~(i < j) /\ ~(j < i)
        BY Zenon, <2>1, <3>1, SlotDistinct
      <3> QED
        BY <3>1, <3>2
    <2> USE DEF j
    <2>5. Grown[s] = array[Slot(array, j)]
      BY Zenon, <1>4, <2>1, <2>2
    <2> HIDE DEF s, j
    <2> QED
      BY Zenon, <2>3, <2>4, <2>5 DEF Cell
  <1> QED
    BY Zenon, <1>7, <1>8 DEF from

-----------------------------------------------------------------------------
(* The end of an operation *)

\* An actor that returns forgets what it read, and nobody else does.
LEMMA ForgetFacts ==
    ASSUME Types, NEW a \in Actors, Forget(a)
    PROVE  /\ t' \in [Actors -> Nat] /\ ary' \in [Thieves -> Nat]
           /\ dest' \in [Actors -> Items \cup {Null, Torn}]
           /\ t'[a] = 0 /\ \A b \in Actors : b # a => t'[b] = t[b] /\ dest'[b] = dest[b]
           /\ \A h \in Thieves : ary'[h] = IF h = a THEN 1 ELSE ary[h]
  <1>1. t' = [t EXCEPT ![a] = 0] /\ dest' = [dest EXCEPT ![a] = Null]
    BY Zenon DEF Forget
  <1>2. ary' = [h \in Thieves |-> IF h = a THEN 1 ELSE ary[h]]
    BY Zenon DEF Forget
  <1>3. ary' \in [Thieves -> Nat] /\ \A h \in Thieves : ary'[h] = IF h = a THEN 1 ELSE ary[h]
    BY Zenon, <1>2 DEF Types
  <1>4. t' \in [Actors -> Nat] /\ dest' \in [Actors -> Items \cup {Null, Torn}]
    BY Zenon, <1>1 DEF Types
  <1> QED
    BY Zenon, <1>1, <1>3, <1>4 DEF Types

\* What it gives back is recorded.
LEMMA GiveTyped ==
    ASSUME Types, NEW a \in Actors, NEW v \in Items \cup {Null}, Give(a, v)
    PROVE  Forget(a) /\ ret' \in [Actors -> Items \cup {Null}] /\ ret' = [ret EXCEPT ![a] = v]
  BY Zenon DEF Types, Give

\* So nobody gets ahead of top, and the arrays that are read are kept.
LEMMA ForgetReads ==
    ASSUME Types, Behind, Reads, NEW a \in Actors, Forget(a), arrays' = arrays,
           top' \in Nat, top' >= top, pc' \in [Actors -> OwnerLabels \cup ThiefLabels],
           \A b \in Actors : b # a => pc'[b] = pc[b]
    PROVE  Behind' /\ Reads'
  <1>1. Owner \in Actors /\ \A h \in Thieves : h \in Actors
    BY Zenon DEF Actors
  <1>2. /\ t'[a] = 0 /\ \A b \in Actors : b # a => t'[b] = t[b]
        /\ \A h \in Thieves : ary'[h] = IF h = a THEN 1 ELSE ary[h]
    BY Zenon, ForgetFacts
  <1>3. 1 \in 1..Len(arrays) /\ top \in Nat /\ t \in [Actors -> Nat]
    BY DEF Types, ArrayTypes
  <1>4. Behind'
    BY <1>1, <1>2, <1>3 DEF Behind
  <1>5. Reads'
    BY Zenon, <1>1, <1>2, <1>3 DEF Reads
  <1> QED
    BY Zenon, <1>4, <1>5

-----------------------------------------------------------------------------
(* The steps that leave the arrays alone *)

\* The owner starts a push.
LEMMA PushLoadStep == ASSUME NEW v \in Items, IInv, PushLoad(v) PROVE IInv'
  <1> /\ Owner \in Actors /\ Owner \notin Thieves /\ Thieves \subseteq Actors /\ Actors = Thieves \cup {Owner}
    BY Zenon, OwnerNoThief DEF Actors
  <1> Types /\ Indices /\ Whole /\ Pushed /\ Raced /\ Behind /\ Reads /\ Stealing
    BY Zenon DEF IInv
  <1>1. arrays' = arrays /\ array' = array
    BY Zenon DEF PushLoad, queue, array
  <1>2. array \in Seq(Contents) /\ Len(array) \in Nat \ {0} /\ \A i \in Int : Cell(array, i) \in Contents
    BY Zenon, ArrayTyped, SlotInside DEF Types
  <1> Len(arrays) \in Nat \ {0} /\ MaxIndex \in Nat
    BY Zenon, CapacityPositive DEF Types, ArrayTypes
  <1>3. Types'
    BY Zenon, <1>1, <1>2 DEF Types, ArrayTypes, OwnerLabels, ThiefLabels, PushLabels, Cell, PushLoad,
       Goto, queue, local
  <1>4. Indices'
    BY <1>1, <1>2 DEF Types, Indices, OwnerLabels, PushLabels, Capacity, PushLoad, Goto,
       queue, local
  <1>5. Whole'
    BY Zenon, <1>1, <1>2 DEF Types, Indices, Whole, Pushed, last, OwnerLabels, PushLabels, PushLoad,
       Goto, queue, local
  <1>6. Pushed' /\ Raced'
    BY Zenon, <1>1, <1>2 DEF Types, Indices, Pushed, Raced, PushLabels, Cell, PushLoad, Goto, queue, local
  <1>7. Behind' /\ Reads'
    BY <1>1, <1>2 DEF Types, Behind, Reads, PushLoad, Goto, queue, local
  <1>8. Stealing'
    BY Zenon, <1>1, <1>2 DEF Types, Indices, Behind, Stealing, last, PushLabels, Cell, PushLoad,
       Goto, queue, local
  <1> QED
    BY Zenon, <1>3, <1>4, <1>5, <1>6, <1>7, <1>8 DEF IInv

\* A push lets the thieves see its item.
LEMMA PushPublishStep == ASSUME IInv, PushPublish PROVE IInv'
  <1> /\ Owner \in Actors /\ Owner \notin Thieves /\ Thieves \subseteq Actors /\ Actors = Thieves \cup {Owner}
    BY Zenon, OwnerNoThief DEF Actors
  <1> Types /\ Indices /\ Whole /\ Pushed /\ Raced /\ Behind /\ Reads /\ Stealing
    BY Zenon DEF IInv
  <1>1. arrays' = arrays /\ array' = array
    BY Zenon DEF PushPublish, queue, array
  <1>2. array \in Seq(Contents) /\ Len(array) \in Nat \ {0} /\ \A i \in Int : Cell(array, i) \in Contents
    BY Zenon, ArrayTyped, SlotInside DEF Types
  <1> Len(arrays) \in Nat \ {0} /\ MaxIndex \in Nat
    BY Zenon, CapacityPositive DEF Types, ArrayTypes
  <1>3. Types'
    BY <1>1, <1>2 DEF Types, ArrayTypes, OwnerLabels, ThiefLabels, PushLabels, Cell,
       PushPublish, Goto, Forget, queue, local
  <1>4. Indices'
    BY <1>1, <1>2 DEF Types, Indices, OwnerLabels, PushLabels, Capacity, PushPublish, Goto,
       Forget, queue, local
  <1>5. Whole'
    BY <1>1, <1>2 DEF Types, Indices, Whole, Pushed, last, OwnerLabels, PushLabels,
       PushPublish, Goto, Forget, queue, local
  <1>6. Pushed' /\ Raced'
    BY Zenon, <1>1, <1>2 DEF Types, Indices, Pushed, Raced, PushLabels, Cell, PushPublish, Goto,
       Forget, queue, local
  <1>7. Behind' /\ Reads'
    BY Zenon, <1>1, <1>2 DEF Types, Behind, Reads, PushPublish, Goto, Forget, queue, local
  <1>8. Stealing'
    BY <1>1, <1>2 DEF Types, Indices, Behind, Stealing, last, PushLabels, Cell, PushPublish,
       Goto, Forget, queue, local
  <1> QED
    BY Zenon, <1>3, <1>4, <1>5, <1>6, <1>7, <1>8 DEF IInv

\* A pop claims the last slot.
LEMMA PopClaimStep == ASSUME IInv, PopClaim PROVE IInv'
  <1> /\ Owner \in Actors /\ Owner \notin Thieves /\ Thieves \subseteq Actors /\ Actors = Thieves \cup {Owner}
    BY OwnerNoThief DEF Actors
  <1> Types /\ Indices /\ Whole /\ Pushed /\ Raced /\ Behind /\ Reads /\ Stealing
    BY DEF IInv
  <1>1. arrays' = arrays /\ array' = array
    BY Zenon DEF PopClaim, queue, array
  <1>2. array \in Seq(Contents) /\ Len(array) \in Nat \ {0} /\ \A i \in Int : Cell(array, i) \in Contents
    BY ArrayTyped, SlotInside DEF Types
  <1> Len(arrays) \in Nat \ {0} /\ MaxIndex \in Nat
    BY CapacityPositive DEF Types, ArrayTypes
  <1>3. Types'
    BY <1>1, <1>2 DEF Types, ArrayTypes, OwnerLabels, ThiefLabels, PushLabels, Cell, PopClaim,
       Goto, queue, local
  <1>4. Indices'
    BY <1>1, <1>2 DEF Types, Indices, OwnerLabels, PushLabels, Capacity, PopClaim, Goto,
       queue, local
  <1>5. Whole'
    BY Zenon, <1>1, <1>2 DEF Types, Indices, Whole, Pushed, last, OwnerLabels, PushLabels, PopClaim,
       Goto, queue, local
  <1>6. Pushed' /\ Raced'
    BY Zenon, <1>1, <1>2 DEF Types, Indices, Pushed, Raced, PushLabels, Cell, PopClaim, Goto, queue, local
  <1>7. Behind' /\ Reads'
    BY Zenon, <1>1, <1>2 DEF Types, Behind, Reads, PopClaim, Goto, queue, local
  <1>8. Stealing'
    BY Zenon, <1>1, <1>2 DEF Types, Indices, Behind, Stealing, last, PushLabels, Cell, PopClaim,
       Goto, queue, local
  <1> QED
    BY Zenon, <1>3, <1>4, <1>5, <1>6, <1>7, <1>8 DEF IInv

\* A pop reads top.
LEMMA PopTopStep == ASSUME IInv, PopTop PROVE IInv'
  <1> /\ Owner \in Actors /\ Owner \notin Thieves /\ Thieves \subseteq Actors /\ Actors = Thieves \cup {Owner}
    BY OwnerNoThief DEF Actors
  <1> Types /\ Indices /\ Whole /\ Pushed /\ Raced /\ Behind /\ Reads /\ Stealing
    BY DEF IInv
  <1>1. arrays' = arrays /\ array' = array
    BY Zenon DEF PopTop, queue, array
  <1>2. array \in Seq(Contents) /\ Len(array) \in Nat \ {0} /\ \A i \in Int : Cell(array, i) \in Contents
    BY ArrayTyped, SlotInside DEF Types
  <1> Len(arrays) \in Nat \ {0} /\ MaxIndex \in Nat
    BY CapacityPositive DEF Types, ArrayTypes
  <1>9. top < bottom => array[Slot(array, bottom)] \in Items
    BY DEF Types, Whole, last, Cell, PopTop
  <1>10. pc' \in [Actors -> OwnerLabels \cup ThiefLabels] /\ \A a \in Actors : a # Owner => pc'[a] = pc[a]
    BY DEF Types, OwnerLabels, ThiefLabels, PushLabels, PopTop, Goto
  <1>11. pc'[Owner] \in OwnerLabels /\ \A x \in Thieves : pc'[x] \in ThiefLabels
    BY Zenon DEF Types, OwnerLabels, ThiefLabels, PopTop, Goto
  <1>12. ASSUME top = bottom PROVE Types' /\ Behind' /\ Reads'
    <2>1. Types'
      BY <1>1, <1>2, <1>10, <1>11, <1>12 DEF Types, ArrayTypes, Contents, Cell, PopTop, queue
    <2>2. Behind' /\ Reads'
      BY <1>1, <1>10, <1>12 DEF Types, Behind, Reads, PopTop, Goto, queue
    <2> QED
      BY Zenon, <2>1, <2>2
  <1>13. ASSUME top # bottom PROVE Types' /\ Behind' /\ Reads'
    <2>1. \E v \in Items \cup {Null} : Give(Owner, v)
      BY Zenon, <1>9, <1>13 DEF PopTop
    <2>2. /\ Forget(Owner) /\ ret' \in [Actors -> Items \cup {Null}] /\ bottom' = bottom /\ top' = top
          /\ top \in Nat /\ top' >= top
      BY <2>1, GiveTyped DEF PopTop, Types, queue
    <2>3. Types'
      BY Zenon, <1>1, <1>10, <1>11, <2>2, ForgetFacts DEF Types, ArrayTypes
    <2>4. Behind' /\ Reads'
      BY Zenon, <1>1, <1>10, <2>2, ForgetReads
    <2> QED
      BY <2>3, <2>4
  <1>3. Types'
    BY Zenon, <1>12, <1>13
  <1>4. Indices'
    BY <1>1, <1>2 DEF Types, Indices, OwnerLabels, PushLabels, Capacity, PopTop, Goto, Give,
       Forget, queue, local
  <1>5. Whole'
    BY <1>1, <1>2 DEF Types, Indices, Whole, Pushed, last, OwnerLabels, PushLabels, PopTop,
       Goto, Give, Forget, queue, local
  <1>6. Pushed' /\ Raced'
    BY Zenon, <1>1, <1>2 DEF Types, Indices, Pushed, Raced, PushLabels, Cell, PopTop, Goto, Give,
       Forget, queue, local
  <1>7. Behind' /\ Reads'
    BY Zenon, <1>12, <1>13
  <1>8. Stealing'
    BY <1>1, <1>2 DEF Types, Indices, Behind, Stealing, last, PushLabels, Cell, PopTop, Goto,
       Give, Forget, queue, local
  <1> QED
    BY Zenon, <1>3, <1>4, <1>5, <1>6, <1>7, <1>8 DEF IInv

\* A pop races for the last item.
LEMMA PopCASStep == ASSUME IInv, PopCAS PROVE IInv'
  <1> /\ Owner \in Actors /\ Owner \notin Thieves /\ Thieves \subseteq Actors /\ Actors = Thieves \cup {Owner}
    BY OwnerNoThief DEF Actors
  <1> Types /\ Indices /\ Whole /\ Pushed /\ Raced /\ Behind /\ Reads /\ Stealing
    BY DEF IInv
  <1>1. arrays' = arrays /\ array' = array
    BY Zenon DEF PopCAS, queue, array
  <1>2. array \in Seq(Contents) /\ Len(array) \in Nat \ {0} /\ \A i \in Int : Cell(array, i) \in Contents
    BY ArrayTyped, SlotInside DEF Types
  <1> Len(arrays) \in Nat \ {0} /\ MaxIndex \in Nat
    BY CapacityPositive DEF Types, ArrayTypes
  <1>9. top = t[Owner] => dest[Owner] \in Items
    BY DEF Types, Indices, Whole, Raced, last, PopCAS
  <1>10. pc' \in [Actors -> OwnerLabels \cup ThiefLabels] /\ \A a \in Actors : a # Owner => pc'[a] = pc[a]
    BY Zenon DEF Types, OwnerLabels, ThiefLabels, PushLabels, PopCAS, Goto
  <1>11. pc'[Owner] \in OwnerLabels /\ \A x \in Thieves : pc'[x] \in ThiefLabels
    BY Zenon DEF Types, OwnerLabels, ThiefLabels, PopCAS, Goto
  <1>12. \E v \in Items \cup {Null} : Give(Owner, v)
    BY Zenon, <1>9 DEF PopCAS
  <1>13. /\ Forget(Owner) /\ ret' \in [Actors -> Items \cup {Null}] /\ bottom' = bottom
        /\ top' \in Nat /\ top' >= top
    BY <1>12, GiveTyped DEF PopCAS, Types
  <1>3. Types'
    BY Zenon, <1>1, <1>10, <1>11, <1>13, ForgetFacts DEF Types, ArrayTypes
  <1>4. Indices'
    BY <1>1, <1>2 DEF Types, Indices, OwnerLabels, PushLabels, Capacity, PopCAS, Goto, Give,
       Forget, queue, local
  <1>5. Whole'
    BY <1>1, <1>2 DEF Types, Indices, Whole, Pushed, last, OwnerLabels, PushLabels, PopCAS,
       Goto, Give, Forget, queue, local
  <1>6. Pushed' /\ Raced'
    BY Zenon, <1>1, <1>2 DEF Types, Indices, Pushed, Raced, PushLabels, Cell, PopCAS, Goto, Give,
       Forget, queue, local
  <1>7. Behind' /\ Reads'
    BY Zenon, <1>1, <1>10, <1>13, ForgetReads
  <1>8. Stealing'
    BY <1>1, <1>2 DEF Types, Indices, Behind, Stealing, last, PushLabels, Cell, PopCAS, Goto,
       Give, Forget, queue, local
  <1> QED
    BY Zenon, <1>3, <1>4, <1>5, <1>6, <1>7, <1>8 DEF IInv

\* A pop restores bottom.
LEMMA PopRestoreStep == ASSUME IInv, PopRestore PROVE IInv'
  <1> /\ Owner \in Actors /\ Owner \notin Thieves /\ Thieves \subseteq Actors /\ Actors = Thieves \cup {Owner}
    BY OwnerNoThief DEF Actors
  <1> Types /\ Indices /\ Whole /\ Pushed /\ Raced /\ Behind /\ Reads /\ Stealing
    BY DEF IInv
  <1>1. arrays' = arrays /\ array' = array
    BY Zenon DEF PopRestore, queue, array
  <1>2. array \in Seq(Contents) /\ Len(array) \in Nat \ {0} /\ \A i \in Int : Cell(array, i) \in Contents
    BY ArrayTyped, SlotInside DEF Types
  <1> Len(arrays) \in Nat \ {0} /\ MaxIndex \in Nat
    BY CapacityPositive DEF Types, ArrayTypes
  <1>3. Types'
    BY <1>1, <1>2 DEF Types, ArrayTypes, OwnerLabels, ThiefLabels, PushLabels, Cell,
       PopRestore, Goto, queue, local
  <1>4. Indices'
    BY <1>1, <1>2 DEF Types, Indices, OwnerLabels, PushLabels, Capacity, PopRestore, Goto,
       queue, local
  <1>5. Whole'
    BY <1>1, <1>2 DEF Types, Indices, Whole, Pushed, last, OwnerLabels, PushLabels,
       PopRestore, Goto, queue, local
  <1>6. Pushed' /\ Raced'
    BY Zenon, <1>1, <1>2 DEF Types, Indices, Pushed, Raced, PushLabels, Cell, PopRestore, Goto,
       queue, local
  <1>7. Behind' /\ Reads'
    BY Zenon, <1>1, <1>2 DEF Types, Behind, Reads, PopRestore, Goto, queue, local
  <1>8. Stealing'
    BY <1>1, <1>2 DEF Types, Indices, Behind, Stealing, last, PushLabels, Cell, PopRestore,
       Goto, queue, local
  <1> QED
    BY Zenon, <1>3, <1>4, <1>5, <1>6, <1>7, <1>8 DEF IInv

\* A steal reads top,
LEMMA StealTopStep == ASSUME NEW h \in Thieves, IInv, StealTop(h) PROVE IInv'
  <1> /\ Owner \in Actors /\ Owner \notin Thieves /\ Thieves \subseteq Actors /\ Actors = Thieves \cup {Owner}
    BY Zenon, OwnerNoThief DEF Actors
  <1> Types /\ Indices /\ Whole /\ Pushed /\ Raced /\ Behind /\ Reads /\ Stealing
    BY Zenon DEF IInv
  <1>1. arrays' = arrays /\ array' = array
    BY Zenon DEF StealTop, queue, array
  <1>2. array \in Seq(Contents) /\ Len(array) \in Nat \ {0} /\ \A i \in Int : Cell(array, i) \in Contents
    BY Zenon, ArrayTyped, SlotInside DEF Types
  <1> Len(arrays) \in Nat \ {0} /\ MaxIndex \in Nat
    BY Zenon, CapacityPositive DEF Types, ArrayTypes
  <1>3. Types'
    BY Zenon, <1>1, <1>2 DEF Types, ArrayTypes, OwnerLabels, ThiefLabels, PushLabels, Cell, StealTop,
       Goto, queue, local
  <1>4. Indices'
    BY Zenon, <1>1, <1>2 DEF Types, Indices, OwnerLabels, PushLabels, Capacity, StealTop, Goto,
       queue, local
  <1>5. Whole'
    BY Zenon, <1>1, <1>2 DEF Types, Indices, Whole, Pushed, last, OwnerLabels, PushLabels, StealTop,
       Goto, queue, local
  <1>6. Pushed' /\ Raced'
    BY Zenon, <1>1, <1>2 DEF Types, Indices, Pushed, Raced, PushLabels, Cell, StealTop, Goto, queue, local
  <1>7. Behind' /\ Reads'
    BY <1>1, <1>2 DEF Types, Behind, Reads, StealTop, Goto, queue, local
  <1>8. Stealing'
    BY Zenon, <1>1, <1>2 DEF Types, Indices, Behind, Stealing, last, PushLabels, Cell, StealTop,
       Goto, queue, local
  <1> QED
    BY Zenon, <1>3, <1>4, <1>5, <1>6, <1>7, <1>8 DEF IInv

\* and bottom,
LEMMA StealBottomStep == ASSUME NEW h \in Thieves, IInv, StealBottom(h) PROVE IInv'
  <1> /\ Owner \in Actors /\ Owner \notin Thieves /\ Thieves \subseteq Actors /\ Actors = Thieves \cup {Owner}
    BY OwnerNoThief DEF Actors
  <1> Types /\ Indices /\ Whole /\ Pushed /\ Raced /\ Behind /\ Reads /\ Stealing
    BY DEF IInv
  <1>1. arrays' = arrays /\ array' = array
    BY Zenon DEF StealBottom, queue, array
  <1>2. array \in Seq(Contents) /\ Len(array) \in Nat \ {0} /\ \A i \in Int : Cell(array, i) \in Contents
    BY ArrayTyped, SlotInside DEF Types
  <1> Len(arrays) \in Nat \ {0} /\ MaxIndex \in Nat
    BY CapacityPositive DEF Types, ArrayTypes
  <1>10. pc' \in [Actors -> OwnerLabels \cup ThiefLabels] /\ \A a \in Actors : a # h => pc'[a] = pc[a]
    BY ZenonT(40) DEF Types, OwnerLabels, ThiefLabels, PushLabels, StealBottom, Goto
  <1>11. pc'[Owner] \in OwnerLabels /\ \A x \in Thieves : pc'[x] \in ThiefLabels
    BY Zenon DEF Types, OwnerLabels, ThiefLabels, StealBottom, Goto
  <1>12. ASSUME t[h] < bottom PROVE Types' /\ Behind' /\ Reads'
    <2>1. Types'
      BY <1>1, <1>10, <1>11, <1>12 DEF Types, ArrayTypes, StealBottom, queue, local
    <2>2. Behind' /\ Reads'
      BY <1>1, <1>10, <1>12 DEF Types, Behind, Reads, StealBottom, Goto, queue, local
    <2> QED
      BY Zenon, <2>1, <2>2
  <1>13. ASSUME ~(t[h] < bottom) PROVE Types' /\ Behind' /\ Reads'
    <2>1. Give(h, Null)
      BY Zenon, <1>13 DEF StealBottom
    <2>2. /\ Forget(h) /\ ret' \in [Actors -> Items \cup {Null}] /\ bottom' = bottom /\ top' = top
          /\ top \in Nat /\ top' >= top
      BY <2>1, GiveTyped DEF StealBottom, Types, queue
    <2>3. Types'
      BY Zenon, <1>1, <1>10, <1>11, <2>2, ForgetFacts DEF Types, ArrayTypes
    <2>4. Behind' /\ Reads'
      BY Zenon, <1>1, <1>10, <2>2, ForgetReads
    <2> QED
      BY <2>3, <2>4
  <1>3. Types'
    BY Zenon, <1>12, <1>13
  <1>4. Indices'
    BY Zenon, <1>1, <1>2 DEF Types, Indices, OwnerLabels, PushLabels, Capacity, StealBottom, Goto,
       Give, Forget, queue, local
  <1>5. Whole'
    BY Zenon, <1>1, <1>2 DEF Types, Indices, Whole, Pushed, last, OwnerLabels, PushLabels,
       StealBottom, Goto, Give, Forget, queue, local
  <1>6. Pushed' /\ Raced'
    BY Zenon, <1>1, <1>2 DEF Types, Indices, Pushed, Raced, PushLabels, Cell, StealBottom, Goto,
       Give, Forget, queue, local
  <1>7. Behind' /\ Reads'
    BY Zenon, <1>12, <1>13
  <1>8. Stealing'
    BY <1>1, <1>2 DEF Types, Indices, Behind, Stealing, last, PushLabels, Cell, StealBottom,
       Goto, Give, Forget, queue, local
  <1> QED
    BY Zenon, <1>3, <1>4, <1>5, <1>6, <1>7, <1>8 DEF IInv

\* and the array,
LEMMA StealArrayStep == ASSUME NEW h \in Thieves, IInv, StealArray(h) PROVE IInv'
  <1> /\ Owner \in Actors /\ Owner \notin Thieves /\ Thieves \subseteq Actors /\ Actors = Thieves \cup {Owner}
    BY OwnerNoThief DEF Actors
  <1> Types /\ Indices /\ Whole /\ Pushed /\ Raced /\ Behind /\ Reads /\ Stealing
    BY DEF IInv
  <1>1. arrays' = arrays /\ array' = array
    BY Zenon DEF StealArray, queue, array
  <1>2. array \in Seq(Contents) /\ Len(array) \in Nat \ {0} /\ \A i \in Int : Cell(array, i) \in Contents
    BY ArrayTyped, SlotInside DEF Types
  <1> Len(arrays) \in Nat \ {0} /\ MaxIndex \in Nat
    BY CapacityPositive DEF Types, ArrayTypes
  <1>3. Types'
    BY Zenon, <1>1, <1>2 DEF Types, ArrayTypes, OwnerLabels, ThiefLabels, PushLabels, Cell,
       StealArray, Goto, queue, local
  <1>4. Indices'
    BY Zenon, <1>1, <1>2 DEF Types, Indices, OwnerLabels, PushLabels, Capacity, StealArray, Goto,
       queue, local
  <1>5. Whole'
    BY Zenon, <1>1, <1>2 DEF Types, Indices, Whole, Pushed, last, OwnerLabels, PushLabels,
       StealArray, Goto, queue, local
  <1>6. Pushed' /\ Raced'
    BY Zenon, <1>1, <1>2 DEF Types, Indices, Pushed, Raced, PushLabels, Cell, StealArray, Goto,
       queue, local
  <1>7. Behind' /\ Reads'
    BY <1>1, <1>2 DEF Types, Behind, Reads, StealArray, Goto, queue, local
  <1>8. Stealing'
    BY Zenon, <1>1, <1>2 DEF Types, Indices, Behind, Stealing, last, array, StealArray, Goto, queue, local
  <1> QED
    BY Zenon, <1>3, <1>4, <1>5, <1>6, <1>7, <1>8 DEF IInv

\* and the slot,
LEMMA StealCopyStep == ASSUME NEW h \in Thieves, IInv, StealCopy(h) PROVE IInv'
  <1> /\ Owner \in Actors /\ Owner \notin Thieves /\ Thieves \subseteq Actors /\ Actors = Thieves \cup {Owner}
    BY OwnerNoThief DEF Actors
  <1> Types /\ Indices /\ Whole /\ Pushed /\ Raced /\ Behind /\ Reads /\ Stealing
    BY DEF IInv
  <1>1. arrays' = arrays /\ array' = array
    BY Zenon DEF StealCopy, queue, array
  <1>2. array \in Seq(Contents) /\ Len(array) \in Nat \ {0} /\ \A i \in Int : Cell(array, i) \in Contents
    BY ArrayTyped, SlotInside DEF Types
  <1> Len(arrays) \in Nat \ {0} /\ MaxIndex \in Nat
    BY CapacityPositive DEF Types, ArrayTypes
  <1>9. arrays[ary[h]][Slot(arrays[ary[h]], t[h])] \in Contents
    <2>1. ary[h] \in 1..Len(arrays) /\ t[h] \in Int
      BY DEF Types, Reads
    <2>2. arrays[ary[h]] \in Seq(Contents) /\ Len(arrays[ary[h]]) \in Nat \ {0}
      BY <2>1, CapacityPositive DEF Types, ArrayTypes, MaxCapacity
    <2> QED
      BY Zenon, <2>1, <2>2, SlotInside DEF Cell
  <1>3. Types'
    BY Zenon, <1>9, <1>1, <1>2 DEF Types, ArrayTypes, OwnerLabels, ThiefLabels, PushLabels, Contents,
       StealCopy, Goto, queue, local
  <1>4. Indices'
    BY Zenon, <1>1, <1>2 DEF Types, Indices, OwnerLabels, PushLabels, Capacity, StealCopy, Goto,
       queue, local
  <1>5. Whole'
    BY Zenon, <1>1, <1>2 DEF Types, Indices, Whole, Pushed, last, OwnerLabels, PushLabels, StealCopy,
       Goto, queue, local
  <1>6. Pushed' /\ Raced'
    BY Zenon, <1>1, <1>2 DEF Types, Indices, Pushed, Raced, PushLabels, Cell, StealCopy, Goto, queue, local
  <1>7. Behind' /\ Reads'
    BY Zenon, <1>1, <1>2 DEF Types, Behind, Reads, StealCopy, Goto, queue, local
  <1>8. Stealing'
    BY Zenon, <1>1, <1>2 DEF Types, Indices, Behind, Stealing, last, PushLabels, Cell, StealCopy,
       Goto, queue, local
  <1> QED
    BY Zenon, <1>3, <1>4, <1>5, <1>6, <1>7, <1>8 DEF IInv

\* and claims the item.
LEMMA StealCASStep == ASSUME NEW h \in Thieves, IInv, StealCAS(h) PROVE IInv'
  <1> /\ Owner \in Actors /\ Owner \notin Thieves /\ Thieves \subseteq Actors /\ Actors = Thieves \cup {Owner}
    BY OwnerNoThief DEF Actors
  <1> Types /\ Indices /\ Whole /\ Pushed /\ Raced /\ Behind /\ Reads /\ Stealing
    BY DEF IInv
  <1>1. arrays' = arrays /\ array' = array
    BY Zenon DEF StealCAS, queue, array
  <1>2. array \in Seq(Contents) /\ Len(array) \in Nat \ {0} /\ \A i \in Int : Cell(array, i) \in Contents
    BY ArrayTyped, SlotInside DEF Types
  <1> Len(arrays) \in Nat \ {0} /\ MaxIndex \in Nat
    BY CapacityPositive DEF Types, ArrayTypes
  <1>9. top = t[h] => dest[h] \in Items /\ top <= last
    BY DEF Types, Whole, Stealing, last, StealCAS
  <1>10. pc' \in [Actors -> OwnerLabels \cup ThiefLabels] /\ \A a \in Actors : a # h => pc'[a] = pc[a]
    BY Zenon DEF Types, OwnerLabels, ThiefLabels, PushLabels, StealCAS, Goto
  <1>11. pc'[Owner] \in OwnerLabels /\ \A x \in Thieves : pc'[x] \in ThiefLabels
    BY Zenon DEF Types, OwnerLabels, ThiefLabels, StealCAS, Goto
  <1>12. \E v \in Items \cup {Null} : Give(h, v)
    BY Zenon, <1>9 DEF StealCAS
  <1>13. /\ Forget(h) /\ ret' \in [Actors -> Items \cup {Null}] /\ bottom' = bottom
        /\ top' \in Nat /\ top' >= top
    BY <1>12, GiveTyped DEF StealCAS, Types
  <1>3. Types'
    BY Zenon, <1>1, <1>10, <1>11, <1>13, ForgetFacts DEF Types, ArrayTypes
  <1>4. Indices'
    BY SMTT(30), <1>1, <1>2, <1>9 DEF Types, Indices, last, OwnerLabels, PushLabels, Capacity, StealCAS,
       Goto, Give, Forget, queue, local
  <1>5. Whole'
    BY <1>1, <1>2 DEF Types, Indices, Whole, Pushed, last, OwnerLabels, PushLabels, StealCAS,
       Goto, Give, Forget, queue, local
  <1>6. Pushed' /\ Raced'
    BY <1>1, <1>2 DEF Types, Indices, Pushed, Raced, PushLabels, Cell, StealCAS, Goto, Give,
       Forget, queue, local
  <1>7. Behind' /\ Reads'
    BY Zenon, <1>1, <1>10, <1>13, ForgetReads
  <1>8. Stealing'
    BY SMTT(30), <1>1, <1>2 DEF Types, Indices, Behind, Stealing, last, PushLabels, Cell, StealCAS,
       Goto, Give, Forget, queue, local
  <1> QED
    BY Zenon, <1>3, <1>4, <1>5, <1>6, <1>7, <1>8 DEF IInv

-----------------------------------------------------------------------------
(* The steps that change the arrays *)

\* A step of a push that keeps the items of the queue where they are, in the
\* array that is current after it and in those that the thieves read.
LEMMA ArrayStep ==
    ASSUME IInv, pc[Owner] \in {"push_grow", "push_copy", "push_copied"},
           NEW l \in PushLabels, Goto(Owner, l), UNCHANGED <<top, bottom, ary, dest, ret>>,
           t' \in [Actors -> Nat], t'[Owner] = 0, \A h \in Thieves : t'[h] = t[h],
           ArrayTypes', Len(arrays') >= Len(arrays), bottom - top < Len(array'),
           \A k \in 1..Len(arrays) : arrays'[k] = arrays[k] \/ arrays'[k] = array',
           \A i \in top..(bottom - 1) : Cell(array', i) = Cell(array, i),
           l = "push_publish" => Cell(array', bottom) = dest[Owner]
    PROVE  IInv'
  <1> /\ Owner \in Actors /\ Owner \notin Thieves /\ Thieves \subseteq Actors /\ Actors = Thieves \cup {Owner}
    BY Zenon, OwnerNoThief DEF Actors
  <1> Types /\ Indices /\ Whole /\ Pushed /\ Raced /\ Behind /\ Reads /\ Stealing
    BY Zenon DEF IInv
  <1>0. Len(arrays') \in Nat \ {0} /\ Len(array') \in 1..MaxCapacity
    BY SMTT(30) DEF ArrayTypes, array
  <1>1. /\ top \in Nat /\ bottom \in Int /\ MaxIndex \in Nat
        /\ Len(arrays) \in Nat \ {0} /\ Len(arrays') \in Nat \ {0} /\ Len(array') \in Nat \ {0}
    BY SMTT(30), <1>0, CapacityPositive DEF Types, ArrayTypes, MaxCapacity
  <1>2. top <= bottom /\ 0 <= bottom /\ bottom <= MaxIndex - 1 /\ last = bottom - 1
    BY Zenon, <1>1 DEF Indices, PushLabels, last
  <1>3. pc'[Owner] = l /\ \A h \in Thieves : pc'[h] = pc[h]
    BY Zenon DEF Types, Goto
  <1>4. last' = bottom - 1
    BY Zenon, <1>3 DEF last, PushLabels
  <1>5. Types'
    BY Zenon, <1>1, <1>3 DEF Types, OwnerLabels, Goto
  <1>6. Indices'
    BY Zenon, <1>1, <1>2, <1>3 DEF Indices, PushLabels, Capacity
  <1>7. Whole'
    BY Zenon, <1>1, <1>2, <1>4 DEF Whole
  <1>8. Pushed' /\ Raced'
    BY Zenon, <1>3 DEF Pushed, Raced, PushLabels
  <1>9. Behind' /\ Reads'
    BY <1>1, <1>3 DEF Types, Behind, Reads
  <1>10. Stealing'
    <2> SUFFICES ASSUME NEW h \in Thieves, t[h] = top
                 PROVE  /\ pc[h] \in {"steal_array", "steal_copy", "steal_cas"} => top <= last'
                        /\ pc[h] = "steal_copy" => Cell(arrays'[ary[h]], top) = Cell(array', top)
                        /\ pc[h] = "steal_cas" => dest[h] = Cell(array', top)
      BY Zenon, <1>3 DEF Stealing
    <2>1. pc[h] \in {"steal_array", "steal_copy", "steal_cas"} => top <= bottom - 1 /\ Cell(array', top) = Cell(array, top)
      BY SMTT(30), <1>1, <1>2 DEF Stealing
    <2>2. ary[h] \in 1..Len(arrays)
      BY Zenon DEF Reads
    <2> QED
      BY Zenon, <1>4, <2>1, <2>2 DEF Stealing
  <1> QED
    BY Zenon, <1>5, <1>6, <1>7, <1>8, <1>9, <1>10 DEF IInv

\* A push replaces the array if it is full: the items move to one of twice the
\* size, and the old one stays as it was.
LEMMA GrowKeeps ==
    ASSUME IInv, PushGrow
    PROVE  /\ ArrayTypes' /\ Len(arrays') >= Len(arrays) /\ bottom - top < Len(array')
           /\ \A k \in 1..Len(arrays) : arrays'[k] = arrays[k]
           /\ \A i \in top..(bottom - 1) : Cell(array', i) = Cell(array, i)
  <1> Types /\ Indices
    BY Zenon DEF IInv
  <1>1. /\ top \in Nat /\ bottom \in Int /\ MaxIndex \in Nat /\ t[Owner] \in Nat
        /\ arrays \in Seq(Seq(Contents)) /\ Len(arrays) \in Nat \ {0} /\ Len(array) \in Nat \ {0} /\ ArrayTypes
    BY Zenon, CapacityPositive, ArrayTyped DEF Types, ArrayTypes, Actors
  <1>2. /\ t[Owner] <= top /\ top <= bottom /\ bottom - t[Owner] <= Len(array)
        /\ bottom <= MaxIndex - 1 /\ pc[Owner] = "push_grow"
    BY Zenon, <1>1 DEF PushGrow, Indices, Capacity
  <1>3. /\ ArrayTypes' /\ Len(arrays') >= Len(arrays) /\ bottom - top < Len(array')
        /\ \A k \in 1..Len(arrays) : arrays'[k] = arrays[k]
        /\ \A i \in top..(bottom - 1) : Cell(array', i) = Cell(array, i)
    <2>1. CASE Full
      <3>1. arrays' = Append(arrays, Grown) /\ Len(array) <= bottom
        BY <1>1, <1>2, <2>1 DEF PushGrow, Full, Capacity
      <3>2. Grown \in Seq(Contents) /\ Len(Grown) = 2 * Len(array)
        BY Zenon, <1>1, GrownCells
      <3>3. /\ arrays' \in Seq(Seq(Contents)) /\ Len(arrays') = Len(arrays) + 1
            /\ arrays'[Len(arrays) + 1] = Grown /\ \A k \in 1..Len(arrays) : arrays'[k] = arrays[k]
        BY <1>1, <3>1, <3>2, AppendProperties
      <3>4. array' = Grown
        BY Zenon, <3>3 DEF array
      <3>5. Len(Grown) \in 1..MaxCapacity
        BY <1>1, <1>2, <3>1, <3>2, CapacityPositive DEF MaxCapacity
      <3>6. ArrayTypes'
        <4>1. ASSUME NEW k \in 1..(Len(arrays) + 1) PROVE Len(arrays'[k]) \in 1..MaxCapacity
          <5>1. CASE k = Len(arrays) + 1
            BY Zenon, <3>3, <3>5, <5>1
          <5>2. CASE k # Len(arrays) + 1
            <6>1. k \in 1..Len(arrays)
              BY <1>1, <5>2
            <6> QED
              BY Zenon, <1>1, <3>3, <6>1 DEF ArrayTypes
          <5> QED
            BY Zenon, <5>1, <5>2
        <4> QED
          BY <1>1, <3>3, <4>1 DEF ArrayTypes
      <3>7. \A i \in top..(bottom - 1) : i \in t[Owner]..(t[Owner] + Len(array) - 1)
        BY <1>1, <1>2
      <3>8. \A i \in top..(bottom - 1) : Cell(array', i) = Cell(array, i)
        BY Zenon, <1>1, <3>4, <3>7, GrownCells
      <3>9. bottom - top < 2 * Len(array) /\ Len(arrays) + 1 >= Len(arrays)
        BY <1>1, <1>2
      <3> QED
        BY Zenon, <3>2, <3>3, <3>4, <3>6, <3>8, <3>9
    <2>2. CASE ~Full
      <3>1. arrays' = arrays /\ array' = array
        BY Zenon, <2>2 DEF PushGrow, array
      <3>2. ArrayTypes'
        BY Zenon, <1>1, <3>1 DEF ArrayTypes
      <3>3. bottom - top < Len(array)
        BY <1>1, <1>2, <2>2 DEF Full, Capacity
      <3> QED
        BY <1>1, <3>1, <3>2, <3>3
    <2> QED
      BY Zenon, <2>1, <2>2
  <1> QED
    BY Zenon, <1>3

\* A push looks at the room, and may grow the array (workqueue_push, resize).
LEMMA PushGrowStep == ASSUME IInv, PushGrow PROVE IInv'
  <1> Types
    BY Zenon DEF IInv
  <1>1. t' \in [Actors -> Nat] /\ t'[Owner] = 0 /\ \A h \in Thieves : t'[h] = t[h]
    BY Zenon, OwnerNoThief DEF PushGrow, Types, Actors
  <1>2. pc[Owner] = "push_grow" /\ "push_copy" \in PushLabels /\ Goto(Owner, "push_copy") /\ UNCHANGED <<top, bottom, ary, dest, ret>>
    BY Zenon DEF PushGrow, PushLabels
  <1> QED
    BY Zenon, <1>1, <1>2, GrowKeeps, ArrayStep

\* A push writes the slot after the last item, which no thief that will win
\* has read.
LEMMA WriteKeeps ==
    ASSUME IInv, pc[Owner] \in {"push_copy", "push_copied"}, NEW v \in Contents, Write(v)
    PROVE  /\ ArrayTypes' /\ Len(arrays') >= Len(arrays) /\ bottom - top < Len(array')
           /\ Cell(array', bottom) = v
           /\ \A i \in top..(bottom - 1) : Cell(array', i) = Cell(array, i)
           /\ \A k \in 1..Len(arrays) : arrays'[k] = arrays[k] \/ arrays'[k] = array'
  <1> Types /\ Indices
    BY Zenon DEF IInv
  <1>1. /\ top \in Nat /\ bottom \in Int /\ Len(arrays) \in Nat \ {0} /\ Len(array) \in Nat \ {0} /\ ArrayTypes
    BY Zenon, ArrayTyped DEF Types, ArrayTypes
  <1>2. top <= bottom /\ bottom - top < Len(array)
    BY Zenon, <1>1 DEF Indices, Capacity, PushLabels
  <1>3. /\ ArrayTypes' /\ Len(arrays') = Len(arrays) /\ Len(array') = Len(array)
        /\ Cell(array', bottom) = v
        /\ \A i \in Int : i < bottom /\ bottom - i < Len(array) => Cell(array', i) = Cell(array, i)
        /\ \A k \in 1..Len(arrays) : k # Len(arrays) => arrays'[k] = arrays[k]
    BY Zenon, <1>1, WriteCells
  <1>4. \A i \in top..(bottom - 1) : Cell(array', i) = Cell(array, i)
    BY <1>1, <1>2, <1>3
  <1>5. \A k \in 1..Len(arrays) : arrays'[k] = arrays[k] \/ arrays'[k] = array'
    BY Zenon, <1>3 DEF array
  <1>6. Len(arrays') >= Len(arrays) /\ bottom - top < Len(array')
    BY <1>1, <1>2, <1>3
  <1> QED
    BY Zenon, <1>3, <1>4, <1>5, <1>6

\* A push writes the slot at bottom:
LEMMA WriteStep ==
    ASSUME IInv, pc[Owner] \in {"push_copy", "push_copied"}, NEW v \in Contents, Write(v),
           NEW l \in PushLabels, Goto(Owner, l), UNCHANGED <<top, bottom, local, ret>>,
           l = "push_publish" => v = dest[Owner]
    PROVE  IInv'
  <1> Types
    BY Zenon DEF IInv
  <1>1. t' \in [Actors -> Nat] /\ t'[Owner] = 0 /\ \A h \in Thieves : t'[h] = t[h]
    BY Zenon DEF local, Types, IInv, Behind
  <1>2. UNCHANGED <<top, bottom, ary, dest, ret>>
    BY Zenon DEF local
  <1> QED
    BY Zenon, <1>1, <1>2, WriteKeeps, ArrayStep

\* half of it while the copy is under way,
LEMMA PushCopyStep == ASSUME IInv, PushCopy PROVE IInv'
  <1>1. Torn \in Contents /\ "push_copied" \in PushLabels /\ "push_copied" # "push_publish"
    BY Zenon DEF Contents, PushLabels
  <1> QED
    BY Zenon, <1>1, WriteStep DEF PushCopy

\* and the whole item when it is done.
LEMMA PushCopiedStep == ASSUME IInv, PushCopied PROVE IInv'
  <1>1. dest[Owner] \in Contents /\ "push_publish" \in PushLabels
    BY Zenon DEF IInv, Pushed, PushCopied, Contents, PushLabels
  <1> QED
    BY Zenon, <1>1, WriteStep DEF PushCopied

\* Between two mark phases the indices start again from 0 and only the current
\* array is kept.
LEMMA ResetStep == ASSUME IInv, Reset PROVE IInv'
  <1> /\ Owner \in Actors /\ Owner \notin Thieves /\ Thieves \subseteq Actors /\ Actors = Thieves \cup {Owner}
    BY OwnerNoThief DEF Actors
  <1> Types /\ Indices /\ Pushed /\ Raced /\ Behind /\ Reads /\ Stealing
    BY Zenon DEF IInv
  <1>1. array \in Seq(Contents) /\ Len(array) \in Nat \ {0} /\ Len(array) <= MaxCapacity /\ MaxCapacity \in Nat
    BY Zenon, ArrayTyped DEF Types
  <1>2. arrays' = <<array>> /\ Len(arrays') = 1 /\ arrays'[1] = array /\ array' = array
    BY Zenon DEF Reset, array
  <1>3. ArrayTypes'
    BY <1>1, <1>2 DEF ArrayTypes
  <1>4. pc' = pc /\ t' = t /\ ary' = ary /\ dest' = dest /\ ret' = ret /\ \A a \in Actors : pc[a] = "idle"
    BY Zenon DEF Reset, local
  <1>5. top' = 0 /\ bottom' = 0
    BY Zenon DEF Reset
  <1>6. Types'
    BY <1>3, <1>4, <1>5 DEF Types
  <1>7. Indices' /\ Whole'
    BY <1>1, <1>2, <1>4, <1>5, CapacityPositive DEF Indices, Whole, last, Capacity, PushLabels
  <1>8. Pushed' /\ Raced'
    BY Zenon, <1>4 DEF Pushed, Raced, PushLabels
  <1>9. Behind' /\ Reads' /\ Stealing'
    BY <1>2, <1>4, <1>5 DEF Behind, Reads, Stealing
  <1> QED
    BY Zenon, <1>6, <1>7, <1>8, <1>9 DEF IInv

-----------------------------------------------------------------------------
(* The invariant *)

\* It holds at the start,
LEMMA InitIInv == Init => IInv
  <1> SUFFICES ASSUME Init PROVE IInv
    BY Zenon
  <1> DEFINE a == create_ws_array(InitCapacity)
  <1>1. a \in Seq(Contents) /\ Len(a) = InitCapacity
    BY CapacityPositive DEF create_ws_array, Contents
  <1>2. arrays = <<a>> /\ Len(arrays) = 1 /\ arrays[1] = a /\ array = a
    BY Zenon DEF Init, array
  <1> HIDE DEF a
  <1>3. ArrayTypes
    BY <1>1, <1>2, CapacityPositive DEF ArrayTypes, MaxCapacity
  <1>4. /\ top = 0 /\ bottom = 0 /\ \A x \in Actors : pc[x] = "idle" /\ t[x] = 0
        /\ \A h \in Thieves : ary[h] = 1
    BY Zenon DEF Init
  <1>5. Owner \in Actors /\ Thieves \subseteq Actors
    BY Zenon DEF Actors
  <1>6. Types
    BY <1>3, <1>4, <1>5 DEF Types, Init, OwnerLabels, ThiefLabels
  <1>7. Indices /\ Whole
    BY <1>1, <1>2, <1>4, <1>5, CapacityPositive DEF Indices, Whole, last, Capacity, PushLabels
  <1>8. Pushed /\ Raced
    BY Zenon, <1>4, <1>5 DEF Pushed, Raced, PushLabels
  <1>9. Behind /\ Reads /\ Stealing
    BY <1>2, <1>4, <1>5 DEF Behind, Reads, Stealing
  <1> QED
    BY Zenon, <1>6, <1>7, <1>8, <1>9 DEF IInv

\* and every step preserves it.
LEMMA NextIInv == IInv /\ [Next]_vars => IInv'
  <1> SUFFICES ASSUME IInv, [Next]_vars PROVE IInv'
    BY Zenon
  <1>1. CASE Push
    BY Zenon, <1>1, PushLoadStep, PushGrowStep, PushCopyStep, PushCopiedStep, PushPublishStep
       DEF Push
  <1>2. CASE Pop
    BY Zenon, <1>2, PopClaimStep, PopTopStep, PopCASStep, PopRestoreStep DEF Pop
  <1>3. ASSUME NEW h \in Thieves, Steal(h) PROVE IInv'
    BY Zenon, <1>3, StealTopStep, StealBottomStep, StealArrayStep, StealCopyStep, StealCASStep
       DEF Steal
  <1>4. CASE Reset
    BY Zenon, <1>4, ResetStep
  <1>5. CASE UNCHANGED vars
    <2>1. /\ Types' = Types /\ Indices' = Indices /\ Whole' = Whole /\ Pushed' = Pushed /\ Raced' = Raced
          /\ Behind' = Behind /\ Reads' = Reads /\ Stealing' = Stealing
      BY Zenon, <1>5 DEF vars, queue, local, Types, ArrayTypes, Indices, Whole, Pushed,
         Raced, Behind, Reads,
         Stealing, last, array
    <2> QED
      BY Zenon, <2>1 DEF IInv
  <1> QED
    BY Zenon, <1>1, <1>2, <1>3, <1>4, <1>5 DEF Next

\* The invariant holds in every behaviour of the queue.
THEOREM QueueInvariant == Spec => []IInv
  BY InitIInv, NextIInv, PTL DEF Spec

-----------------------------------------------------------------------------
(* The abstract queue *)

\* The queue has the items from top to last, oldest first.
LEMMA ItemsFacts ==
    ASSUME IInv
    PROVE  /\ items \in Seq(Items)
           /\ top \in Nat /\ last \in Int
           /\ last >= top => /\ Len(items) = last - top + 1 /\ items # <<>>
                             /\ items[1] = Cell(array, top) /\ Head(items) = Cell(array, top)
                             /\ items[Len(items)] = Cell(array, last)
           /\ last < top => items = <<>>
           /\ \A k \in 1..(last - top + 1) : items[k] = Cell(array, top + k - 1)
  <1>1. top \in Nat /\ last \in Int
    BY DEF IInv, Types, last
  <1> DEFINE n == last - top + 1
  <1>2. items = [k \in 1..n |-> Cell(array, top + k - 1)]
    BY Zenon DEF items, Cell
  <1>3. \A k \in 1..n : Cell(array, top + k - 1) \in Items
    BY <1>1 DEF IInv, Whole
  <1> HIDE DEF items
  <1>4. CASE last >= top
    <2>1. n \in Nat \ {0}
      BY <1>1, <1>4
    <2>2. items \in [1..n -> Items]
      BY Zenon, <1>2, <1>3
    <2>3. items \in Seq(Items) /\ Len(items) = n
      BY <2>1, <2>2
    <2>4. items[1] = Cell(array, top) /\ items[n] = Cell(array, last)
      BY <1>1, <1>2, <2>1
    <2>5. items # <<>> /\ Head(items) = items[1]
      BY <2>1, <2>3
    <2>6. \A k \in 1..n : items[k] = Cell(array, top + k - 1)
      BY Zenon, <1>2
    <2>7. Len(items) = n /\ items[Len(items)] = Cell(array, last)
      BY Zenon, <2>3, <2>4
    <2> HIDE DEF n
    <2>8. ~(last < top)
      BY <1>1, <1>4
    <2> QED
      BY Zenon, <1>1, <2>3, <2>4, <2>5, <2>6, <2>7, <2>8 DEF n
  <1>5. CASE last < top
    <2>1. 1..n = {}
      BY <1>1, <1>5
    <2>2. items = <<>>
      BY <1>2, <2>1
    <2> QED
      BY <1>1, <1>5, <2>1, <2>2
  <1> QED
    BY <1>1, <1>4, <1>5

\* What a thief is about to win is the oldest item (StolenIsOldest): its copy,
\* made from whichever array it read, is what the slot of top holds.
THEOREM StolenOldest == Spec => []StolenIsOldest
  <1>1. IInv => StolenIsOldest
    <2> SUFFICES ASSUME IInv, NEW h \in Thieves, pc[h] = "steal_cas", top = t[h]
                 PROVE  items # <<>> /\ dest[h] = Head(items)
      BY Zenon DEF StolenIsOldest
    <2>1. top <= last /\ dest[h] = Cell(array, top)
      BY Zenon DEF IInv, Stealing
    <2> QED
      BY Zenon, <2>1, ItemsFacts
  <1> QED
    BY <1>1, QueueInvariant, PTL

\* Each variable has its type: the indices stay below MaxIndex, no array gets
\* larger than twice that, and nobody is given half an item.
THEOREM QueueTypeCorrect == Spec => []TypeOK
  <1>1. IInv => TypeOK
    <2> SUFFICES ASSUME IInv PROVE TypeOK
      BY Zenon
    <2>1. Types /\ Indices /\ Behind /\ Reads /\ Owner \in Actors /\ Thieves \subseteq Actors
      BY Zenon DEF IInv, Actors
    <2>2. MaxIndex \in Nat /\ MaxCapacity \in Nat
      BY CapacityPositive DEF MaxCapacity
    <2>3. top \in 0..MaxIndex /\ bottom \in -1..MaxIndex
      BY SMTT(30), <2>1, <2>2 DEF Types, Indices, OwnerLabels, PushLabels
    <2>4. ASSUME NEW k \in DOMAIN arrays
          PROVE  \E c \in 1..(InitCapacity + 2 * MaxIndex) : arrays[k] \in [1..c -> Items \cup {Torn}]
      <3>1. arrays[k] \in Seq(Contents) /\ Len(arrays[k]) \in 1..MaxCapacity
        BY <2>1 DEF Types, ArrayTypes
      <3>2. arrays[k] \in [1..Len(arrays[k]) -> Contents]
        BY <3>1
      <3> QED
        BY Zenon, <3>1, <3>2 DEF Contents, MaxCapacity
    <2>5. t \in [Actors -> 0..MaxIndex]
      <3>1. t[Owner] \in 0..MaxIndex
        BY <2>1, <2>2, <2>3 DEF Types, Behind
      <3>2. \A h \in Thieves : t[h] \in 0..MaxIndex
        BY <2>1, <2>2, <2>3 DEF Types, Behind
      <3> QED
        BY Zenon, <2>1, <3>1, <3>2 DEF Types, Actors
    <2>6. ary \in [Thieves -> DOMAIN arrays]
      BY <2>1 DEF Types, ArrayTypes, Reads
    <2> QED
      BY Zenon, <2>1, <2>3, <2>4, <2>5, <2>6 DEF TypeOK, Types
  <1> QED
    BY <1>1, QueueInvariant, PTL

\* The queue is the same as long as its ends and the cells between them are.
LEMMA SameItems ==
    ASSUME IInv, top' = top, last' = last, \A i \in top..last : Cell(array', i) = Cell(array, i)
    PROVE  items' = items
  <1>1. top \in Nat /\ last \in Int
    BY DEF IInv, Types, last
  <1>2. \A k \in 1..(last - top + 1) : Cell(array', top + k - 1) = Cell(array, top + k - 1)
    BY <1>1
  <1>3. /\ items = [k \in 1..(last - top + 1) |-> Cell(array, top + k - 1)]
        /\ items' = [k \in 1..(last - top + 1) |-> Cell(array', top + k - 1)]
    BY Zenon DEF items, Cell
  <1> QED
    BY Zenon, <1>2, <1>3

\* No slot is between a top and a last index before it,
LEMMA EmptyRange == ASSUME NEW l \in Int, NEW n \in Int, l < n PROVE 1..(l - n + 1) = {}
  OBVIOUS

\* so a queue whose last item is before its top is empty.
LEMMA EmptyAfter == ASSUME IInv', last' < top' PROVE items' = <<>>
  <1>1. top' \in Int /\ last' \in Int
    BY DEF IInv, Types, last
  <1> DEFINE l == last'
             n == top'
  <1>2. l \in Int /\ n \in Int /\ l < n
    BY Zenon, <1>1
  <1> HIDE DEF l, n
  <1>3. 1..(l - n + 1) = {}
    BY Zenon, <1>2, EmptyRange
  <1> QED
    BY <1>3 DEF items, l, n

\* Moving last on by one appends an item,
LEMMA ItemsAppended ==
    ASSUME IInv, IInv', top' = top, array' = array, last' = last + 1, last' >= top
    PROVE  items' = Append(items, Cell(array, last'))
  <1> DEFINE n == last - top + 1
  <1>1. top \in Nat /\ last \in Int /\ n \in Nat /\ last' = last + 1
    BY ItemsFacts
  <1>2. /\ items' = [k \in 1..(n + 1) |-> Cell(array, top + k - 1)]
        /\ items = [k \in 1..n |-> Cell(array, top + k - 1)]
    BY <1>1 DEF items, Cell
  <1>3. items \in Seq(Items) /\ Len(items) = n /\ Cell(array, last') \in Items
    <2>1. Cell(array, last') \in Items
      BY <1>1 DEF IInv, Whole
    <2>2. items \in [1..n -> Items] /\ items \in Seq(Items)
      BY <1>2, ItemsFacts
    <2> QED
      BY <1>1, <2>1, <2>2
  <1>4. top + (n + 1) - 1 = last'
    BY <1>1
  <1> HIDE DEF n, items
  <1> DEFINE longer == Append(items, Cell(array, last'))
  <1>5. /\ longer \in Seq(Items) /\ Len(longer) = n + 1
        /\ \A k \in 1..n : longer[k] = items[k]
        /\ longer[n + 1] = Cell(array, last')
    BY <1>3, AppendProperties
  <1> HIDE DEF longer
  <1>6. longer \in [1..(n + 1) -> Items]
    BY Zenon, <1>5, LenProperties
  <1>7. \A k \in 1..(n + 1) : k = n + 1 \/ k \in 1..n
    BY <1>1
  <1>8. \A k \in 1..(n + 1) : items'[k] = longer[k]
    BY Zenon, <1>1, <1>2, <1>4, <1>5, <1>7
  <1>9. items' = longer
    BY Zenon, <1>2, <1>6, <1>8
  <1> QED
    BY Zenon, <1>9 DEF longer

\* moving it back drops the last one,
LEMMA ItemsDropped ==
    ASSUME IInv, IInv', array' = array, last >= top,
           \/ top' = top /\ last' = last - 1
           \/ top' = top + 1 /\ last' = last - 1 /\ last = top
    PROVE  items' = SubSeq(items, 1, Len(items) - 1)
  <1> DEFINE n == last - top + 1
  <1>1. top \in Nat /\ last \in Int /\ n \in Nat \ {0} /\ items \in Seq(Items) /\ Len(items) = n
    BY ItemsFacts
  <1>2. items = [k \in 1..n |-> Cell(array, top + k - 1)]
    BY Zenon DEF items, Cell
  <1>3. items' = [k \in 1..(n - 1) |-> Cell(array, top + k - 1)]
    <2>1. CASE top' = top /\ last' = last - 1
      <3>1. last' - top' + 1 = n - 1
        BY <1>1, <2>1
      <3> QED
        BY Zenon, <2>1, <3>1 DEF items, Cell
    <2>2. CASE top' = top + 1 /\ last' = last - 1 /\ last = top
      <3>1. 1..(last' - top' + 1) = {} /\ 1..(n - 1) = {}
        BY <1>1, <2>2
      <3> QED
        BY Zenon, <3>1 DEF items
    <2> QED
      BY Zenon, <2>1, <2>2
  <1> HIDE DEF n, items
  <1>4. SubSeq(items, 1, n - 1) = [k \in 1..(n - 1) |-> items[k]]
    BY <1>1
  <1>5. \A k \in 1..(n - 1) : items[k] = Cell(array, top + k - 1)
    BY <1>1, <1>2
  <1> QED
    BY Zenon, <1>1, <1>3, <1>4, <1>5

\* and moving top on drops the first.
LEMMA ItemsTail ==
    ASSUME IInv, IInv', array' = array, last >= top, top' = top + 1, last' = last
    PROVE  items' = Tail(items)
  <1> DEFINE n == last - top + 1
  <1>1. top \in Nat /\ last \in Int /\ n \in Nat \ {0} /\ items \in Seq(Items) /\ Len(items) = n /\ items # <<>>
    BY ItemsFacts
  <1>2. items = [k \in 1..n |-> Cell(array, top + k - 1)]
    BY Zenon DEF items, Cell
  <1>3. items' = [k \in 1..(n - 1) |-> Cell(array, top + 1 + k - 1)]
    <2>1. last' - top' + 1 = n - 1
      BY <1>1
    <2> QED
      BY Zenon, <2>1 DEF items, Cell
  <1> HIDE DEF n, items
  <1> DEFINE rest == Tail(items)
  <1>4. /\ rest \in Seq(Items) /\ Len(rest) = n - 1
        /\ \A k \in 1..Len(rest) : rest[k] = items[k + 1]
    BY Zenon, <1>1, HeadTailProperties
  <1> HIDE DEF rest
  <1>5. \A k \in 1..(n - 1) : items[k + 1] = Cell(array, top + 1 + k - 1)
    <2> SUFFICES ASSUME NEW k \in 1..(n - 1) PROVE items[k + 1] = Cell(array, top + 1 + k - 1)
      BY Zenon
    <2>1. k + 1 \in 1..n /\ top + (k + 1) - 1 = top + 1 + k - 1
      BY <1>1
    <2> QED
      BY Zenon, <1>2, <2>1
  <1>6. rest \in [1..(n - 1) -> Items]
    BY Zenon, <1>4, LenProperties
  <1>7. items' = rest
    BY Zenon, <1>3, <1>4, <1>5, <1>6
  <1> QED
    BY Zenon, <1>7 DEF rest

\* The initial queue is the empty one.
LEMMA InitRefines == Init => Abs!Init
  <1> SUFFICES ASSUME Init PROVE Abs!Init
    OBVIOUS
  <1>1. last < top /\ top = 0
    BY OwnerNoThief DEF Init, last, Actors
  <1>2. items = <<>>
    BY Zenon, <1>1, InitIInv, ItemsFacts
  <1> QED
    BY Zenon, <1>2 DEF Abs!Init, Init, Actors

\* The steps of a push: the item enters the queue when bottom moves.
LEMMA PushRefines ==
    ASSUME IInv, IInv', Push
    PROVE  (\E v \in Items : Abs!Push(v)) \/ (items' = items /\ ret' = ret)
  <1> Types /\ Indices /\ Pushed /\ Owner \in Actors
    BY Zenon DEF IInv, Actors
  <1>1. top \in Nat /\ bottom \in Int /\ last \in Int
    BY Zenon, ItemsFacts DEF Types
  <1>2. ASSUME NEW v \in Items, PushLoad(v) PROVE items' = items /\ ret' = ret
    <2>1. array' = array /\ top' = top /\ last' = last /\ ret' = ret
      BY Zenon, <1>2 DEF PushLoad, Goto, Types, queue, array, last
    <2> QED
      BY Zenon, <2>1, SameItems
  <1>3. CASE PushGrow
    <2>1. top' = top /\ last' = last /\ last = bottom - 1 /\ ret' = ret
      BY Zenon, <1>3 DEF PushGrow, Goto, Types, last
    <2> QED
      BY Zenon, <1>3, <2>1, GrowKeeps, SameItems
  <1>4. CASE PushCopy
    <2>1. /\ top' = top /\ last' = last /\ last = bottom - 1 /\ ret' = ret
          /\ pc[Owner] \in {"push_copy", "push_copied"} /\ Write(Torn) /\ Torn \in Contents
      BY Zenon, <1>4 DEF PushCopy, Goto, Types, last, Contents
    <2> QED
      BY Zenon, <2>1, WriteKeeps, SameItems
  <1>5. CASE PushCopied
    <2>1. /\ top' = top /\ last' = last /\ last = bottom - 1 /\ ret' = ret
          /\ pc[Owner] \in {"push_copy", "push_copied"} /\ Write(dest[Owner]) /\ dest[Owner] \in Contents
      BY Zenon, <1>5 DEF PushCopied, Goto, Types, last, Contents, Pushed, PushLabels
    <2> QED
      BY Zenon, <2>1, WriteKeeps, SameItems
  <1>6. CASE PushPublish
    <2>1. /\ array' = array /\ top' = top /\ ret' = ret
          /\ last = bottom - 1 /\ last' = bottom /\ bottom >= top
          /\ dest[Owner] \in Items /\ Cell(array, bottom) = dest[Owner]
      BY <1>1, <1>6 DEF PushPublish, Goto, Types, Indices, Pushed, array, last, PushLabels
    <2>2. last' = last + 1 /\ last' >= top
      BY <1>1, <2>1
    <2>3. items' = Append(items, dest[Owner])
      BY Zenon, <2>1, <2>2, ItemsAppended
    <2>4. Abs!Push(dest[Owner])
      BY Zenon, <2>1, <2>3 DEF Abs!Push
    <2> QED
      BY Zenon, <2>1, <2>4
  <1> QED
    BY Zenon, <1>2, <1>3, <1>4, <1>5, <1>6 DEF Push

\* The steps of a pop: the item leaves the queue when the owner has read top,
\* or has won the race for it.
LEMMA PopRefines ==
    ASSUME IInv, IInv', Pop
    PROVE  Abs!Pop \/ Abs!PopEmpty \/ (items' = items /\ ret' = ret)
  <1> Types /\ Indices /\ Raced /\ Owner \in Actors
    BY Zenon DEF IInv, Actors
  <1>1. top \in Nat /\ bottom \in Int /\ last \in Int
    BY ItemsFacts DEF Types
  <1>2. CASE PopClaim
    <2>1. array' = array /\ top' = top /\ last' = last /\ ret' = ret
      BY Zenon, <1>2 DEF PopClaim, Goto, Types, array, last
    <2> QED
      BY Zenon, <2>1, SameItems
  <1>3. CASE PopTop
    <2>1. array' = array /\ top' = top /\ last = bottom
      BY Zenon, <1>3 DEF PopTop, queue, array, last
    <2>2. CASE top < bottom
      <3>1. last' = bottom - 1 /\ ret' = [ret EXCEPT ![Owner] = Cell(array, bottom)]
        BY <1>1, <1>3, <2>2 DEF PopTop, Goto, Give, Types, queue, last, Cell
      <3>2. last >= top /\ last' = last - 1
        BY <1>1, <2>1, <2>2, <3>1
      <3>3. /\ items # <<>> /\ items[Len(items)] = Cell(array, bottom)
            /\ items' = SubSeq(items, 1, Len(items) - 1)
        BY Zenon, <2>1, <3>2, ItemsFacts, ItemsDropped
      <3> QED
        BY Zenon, <3>1, <3>3 DEF Abs!Pop
    <2>3. CASE top = bottom
      <3>1. last' = last /\ ret' = ret
        BY <1>1, <1>3, <2>1, <2>3 DEF PopTop, Goto, Types, queue, last
      <3> QED
        BY Zenon, <2>1, <3>1, SameItems
    <2>4. CASE top > bottom
      <3>1. last' = bottom - 1 /\ ret' = [ret EXCEPT ![Owner] = Null]
        BY <1>1, <1>3, <2>4 DEF PopTop, Goto, Give, Types, queue, last
      <3>2. last < top /\ last' < top'
        BY <1>1, <2>1, <2>4, <3>1
      <3>3. items = <<>> /\ items' = <<>>
        BY Zenon, <3>2, ItemsFacts, EmptyAfter
      <3> QED
        BY Zenon, <3>1, <3>3 DEF Abs!PopEmpty
    <2> QED
      BY <1>1, <2>2, <2>3, <2>4
  <1>4. CASE PopCAS
    <2>1. /\ array' = array /\ last = bottom /\ last' = bottom - 1 /\ t[Owner] = bottom
          /\ bottom <= top /\ top <= bottom + 1
      BY Zenon, <1>1, <1>4 DEF PopCAS, Goto, Types, Indices, array, last
    <2>2. CASE top = bottom
      <3>1. top' = top + 1 /\ ret' = [ret EXCEPT ![Owner] = Cell(array, bottom)]
        BY Zenon, <1>4, <2>1, <2>2 DEF PopCAS, Give, Raced
      <3>2. last >= top /\ last' = last - 1 /\ last = top
        BY Zenon, <1>1, <2>1, <2>2
      <3>3. /\ items # <<>> /\ items[Len(items)] = Cell(array, bottom)
            /\ items' = SubSeq(items, 1, Len(items) - 1)
        BY Zenon, <2>1, <3>1, <3>2, ItemsFacts, ItemsDropped
      <3> QED
        BY Zenon, <3>1, <3>3 DEF Abs!Pop
    <2>3. CASE top # bottom
      <3>1. top' = top /\ ret' = [ret EXCEPT ![Owner] = Null]
        BY Zenon, <1>4, <2>1, <2>3 DEF PopCAS, Give
      <3>2. last < top /\ last' < top'
        BY <1>1, <2>1, <2>3, <3>1
      <3>3. items = <<>> /\ items' = <<>>
        BY <3>2, ItemsFacts, EmptyAfter
      <3> QED
        BY Zenon, <3>1, <3>3 DEF Abs!PopEmpty
    <2> QED
      BY Zenon, <2>2, <2>3
  <1>5. CASE PopRestore
    <2>1. /\ top' = top /\ top = bottom + 1 /\ last = bottom - 1 /\ last' = bottom /\ ret' = ret
      BY <1>1, <1>5 DEF PopRestore, Goto, Types, Indices, last
    <2>2. last < top /\ last' < top'
      BY <1>1, <2>1
    <2>3. items = <<>> /\ items' = <<>>
      BY <2>2, ItemsFacts, EmptyAfter
    <2> QED
      BY Zenon, <2>1, <2>3
  <1> QED
    BY Zenon, <1>2, <1>3, <1>4, <1>5 DEF Pop

\* The steps of a steal: the item leaves the queue when top moves.
LEMMA StealRefines ==
    ASSUME IInv, IInv', NEW h \in Thieves, Steal(h)
    PROVE  Abs!Steal(h) \/ Abs!StealNothing(h) \/ (items' = items /\ ret' = ret)
  <1> /\ Types /\ Stealing /\ Owner \in Actors /\ h \in Actors /\ h # Owner
    BY Zenon, OwnerNoThief DEF IInv, Actors
  <1>1. top \in Nat /\ bottom \in Int /\ last \in Int
    BY Zenon, ItemsFacts DEF Types
  <1>2. array' = array /\ last' = last
    BY Zenon DEF Steal, StealTop, StealBottom, StealArray, StealCopy, StealCAS, Goto, Types, queue,
       array, last
  <1>3. CASE StealTop(h) \/ StealArray(h) \/ StealCopy(h)
    <2>1. top' = top /\ ret' = ret
      BY Zenon, <1>3 DEF StealTop, StealArray, StealCopy, queue
    <2> QED
      BY Zenon, <1>2, <2>1, SameItems
  <1>4. CASE StealBottom(h)
    <2>1. top' = top /\ (ret' = ret \/ ret' = [ret EXCEPT ![h] = Null])
      BY Zenon, <1>4 DEF StealBottom, Give, queue
    <2>2. items' = items
      BY Zenon, <1>2, <2>1, SameItems
    <2> QED
      BY Zenon, <2>1, <2>2 DEF Abs!StealNothing
  <1>5. CASE StealCAS(h)
    <2>1. CASE top = t[h]
      <3>1. top' = top + 1 /\ ret' = [ret EXCEPT ![h] = dest[h]] /\ top <= last /\ dest[h] = Cell(array, top)
        BY Zenon, <1>5, <2>1 DEF StealCAS, Give, Stealing
      <3>2. last >= top
        BY Zenon, <1>1, <3>1
      <3>3. items # <<>> /\ Head(items) = dest[h] /\ items' = Tail(items)
        BY Zenon, <1>2, <3>1, <3>2, ItemsFacts, ItemsTail
      <3> QED
        BY Zenon, <3>1, <3>3 DEF Abs!Steal
    <2>2. CASE top # t[h]
      <3>1. top' = top /\ ret' = [ret EXCEPT ![h] = Null]
        BY Zenon, <1>5, <2>2 DEF StealCAS, Give
      <3>2. items' = items
        BY Zenon, <1>2, <3>1, SameItems
      <3> QED
        BY Zenon, <3>1, <3>2 DEF Abs!StealNothing
    <2> QED
      BY Zenon, <2>1, <2>2
  <1> QED
    BY Zenon, <1>3, <1>4, <1>5 DEF Steal

\* The queue implements the abstract one (ImplementsStealQueue): each step of
\* an owner, of a thief or of the reset is one of its operations, or invisible.
THEOREM QueueRefinesStealQueue == Spec => ImplementsStealQueue
  <1>1. IInv /\ IInv' /\ [Next]_vars => [Abs!Next]_(Abs!vars)
    <2> SUFFICES ASSUME IInv, IInv', [Next]_vars
                 PROVE  Abs!Next \/ (items' = items /\ ret' = ret)
      BY Zenon DEF Abs!vars
    <2>1. CASE Push
      BY Zenon, <2>1, PushRefines DEF Abs!Next
    <2>2. CASE Pop
      BY Zenon, <2>2, PopRefines DEF Abs!Next
    <2>3. ASSUME NEW h \in Thieves, Steal(h) PROVE Abs!Next \/ (items' = items /\ ret' = ret)
      BY Zenon, <2>3, StealRefines DEF Abs!Next
    <2>4. CASE Reset
      <3>1. last < top /\ last' < top' /\ ret' = ret
        <4>1. pc[Owner] = "idle" /\ pc'[Owner] = "idle" /\ bottom \in Int /\ top = bottom /\ top' = 0 /\ bottom' = 0 /\ ret' = ret
          BY Zenon, <2>4 DEF Reset, IInv, Types, Actors
        <4> QED
          BY <4>1 DEF last
      <3>2. items = <<>> /\ items' = <<>>
        BY Zenon, <3>1, ItemsFacts, EmptyAfter
      <3> QED
        BY Zenon, <3>1, <3>2
    <2>5. CASE UNCHANGED vars
      BY Zenon, <2>5 DEF vars, queue, items, array, last
    <2> QED
      BY Zenon, <2>1, <2>2, <2>3, <2>4, <2>5 DEF Next
  <1> QED
    BY <1>1, InitRefines, QueueInvariant, PTL DEF Spec, ImplementsStealQueue, Abs!Spec
=============================================================================
