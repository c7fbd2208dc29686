------------------------ MODULE ReentrantLockProofs ------------------------
(* Proofs about ReentrantLock, for every set of tasks, every number of spins *)
(* and every depth of nesting.                                               *)
EXTENDS ReentrantLock, TLAPS

(* locked_by is written only by the owner, between its two operations on    *)
(* LOCKED_BIT, and a level is counted while it is set.                      *)
OwnerRecorded ==
    \A t \in Tasks :
        /\ locked_by = t => pc[t] \in {"run", "refuse"} /\ reentrancy_cnt > 0
        /\ pc[t] = "refuse" => locked_by = t /\ reentrancy_cnt = 1

(* The SpinLock of cond_wait is held exactly at the places between its      *)
(* acquisition and its release.                                             *)
CondHeld ==
    \A t \in Tasks :
        cond_lock = t <=> pc[t] \in {"check", "park", "recheck", "release",
                                    "notify", "store", "notify_unlock"}

(* A task that has decided to park, and the owner that has decided to       *)
(* notify, both know havelock: nobody else can change it until they are     *)
(* done.  What a task has read before a compare-and-swap.                   *)
WordKnown ==
    \A t \in Tasks :
        /\ pc[t] \in {"park", "recheck", "release", "notify_lock", "notify", "store"}
              => havelock = Bits
        /\ pc[t] \in {"trylock", "barge"} => LOCKED_BIT \notin state[t]
        /\ pc[t] = "set_parked" => state[t] = {LOCKED_BIT}

(* Before the store that frees the lock, the notification has been given:   *)
(* somebody is on the way, or nobody is parked.                             *)
BatonPassed ==
    \A t \in Tasks :
        pc[t] = "store" => waiting_on = {} \/ \E u \in Tasks : Headed(u)

(* Only a task whose token is cancelled is claimed by a walk, and only such *)
(* a task cleans up after an interrupted wait.                              *)
OnlyCancelled ==
    \A t \in Tasks :
        t \in towake \/ wake[t] = "cancel" \/ pc[t] = "cleanup" => Refused(t)

IInv ==
    /\ TypeOK
    /\ OwnerRecorded
    /\ LockedByExactlyOne
    /\ CondHeld
    /\ WordKnown
    /\ ParkedBitSet
    /\ BatonPassed
    /\ NoStrandedWaiter
    /\ OneWake
    /\ EntriesLinkedOnce
    /\ FinalizersBalanced
    /\ OnlyCancelled

-----------------------------------------------------------------------------
(* The three ways in which the queue changes.                               *)
Distinct(q) == \A i, j \in 1..Len(q) : q[i] = q[j] => i = j

\* The entries of the queue are tasks;
LEMMA EntryIsTask ==
    ASSUME NEW q \in Seq(Tasks), NEW i \in 1..Len(q)
    PROVE  q[i] \in Tasks
  OBVIOUS

\* the queue with none is one.
LEMMA NoEntries == <<>> \in Seq(Tasks)
  OBVIOUS

\* Unlinking takes one entry out of the queue;
LEMMA UnlinkEntry ==
    ASSUME NEW q \in Seq(Tasks), NEW t \in Tasks, Distinct(q)
    PROVE  /\ Unlink(q, t) \in Seq(Tasks)
           /\ Distinct(Unlink(q, t))
           /\ \A u \in Tasks : Linked(Unlink(q, t), u) <=> Linked(q, u) /\ u # t
  <1>1. CASE ~Linked(q, t)
    BY Zenon, <1>1 DEF Unlink, Linked
  <1>2. CASE Linked(q, t)
    <2> DEFINE i == CHOOSE j \in 1..Len(q) : q[j] = t
               a == SubSeq(q, 1, i - 1)
               b == SubSeq(q, i + 1, Len(q))
    <2>1. i \in 1..Len(q) /\ q[i] = t /\ Len(q) \in Nat
      BY <1>2 DEF Linked
    <2>2. /\ a \in Seq(Tasks) /\ Len(a) = i - 1
          /\ \A j \in 1..(i - 1) : a[j] = q[j]
      BY <2>1
    <2>3. /\ b \in Seq(Tasks) /\ Len(b) = Len(q) - i
          /\ \A j \in 1..(Len(q) - i) : b[j] = q[i + j]
      BY <2>1
    <2>4. Unlink(q, t) = a \o b
      BY Zenon, <1>2 DEF Unlink
    <2> HIDE DEF i, a, b
    <2>5. /\ a \o b \in Seq(Tasks) /\ Len(a \o b) = Len(q) - 1
          /\ \A j \in 1..(Len(q) - 1) : (a \o b)[j] = IF j < i THEN q[j] ELSE q[j + 1]
      <3>1. /\ a \o b \in Seq(Tasks) /\ Len(a \o b) = Len(q) - 1
            /\ \A j \in 1..(Len(q) - 1) :
                 (a \o b)[j] = IF j <= i - 1 THEN a[j] ELSE b[j - (i - 1)]
        <4>1. Len(a) + Len(b) = Len(q) - 1
          BY <2>1, <2>2, <2>3
        <4>2. /\ a \o b \in Seq(Tasks) /\ Len(a \o b) = Len(a) + Len(b)
              /\ \A j \in 1..(Len(a) + Len(b)) :
                   (a \o b)[j] = IF j <= Len(a) THEN a[j] ELSE b[j - Len(a)]
          BY SMTT(30), <2>2, <2>3
        <4> QED
          BY Zenon, <2>2, <4>1, <4>2
      <3>2. ASSUME NEW j \in 1..(Len(q) - 1), j >= i
            PROVE  b[j - (i - 1)] = q[j + 1]
        <4>1. j - (i - 1) \in 1..(Len(q) - i) /\ i + (j - (i - 1)) = j + 1
          BY <2>1, <3>2
        <4> QED
          BY Zenon, <2>3, <4>1
      <3>3. \A j \in 1..(Len(q) - 1) : j < i => a[j] = q[j]
        BY <2>1, <2>2
      <3> QED
        BY <2>1, <3>1, <3>2, <3>3
    <2>6. Distinct(a \o b)
      BY SMTT(30), <2>1, <2>5 DEF Distinct
    <2>7. ASSUME NEW u \in Tasks, u # t, Linked(q, u)
          PROVE  Linked(a \o b, u)
      <3>1. PICK k \in 1..Len(q) : q[k] = u
        BY Zenon, <2>7 DEF Linked
      <3>2. CASE k < i
        <4>1. k \in 1..(Len(q) - 1) /\ (a \o b)[k] = u
          BY <2>1, <2>5, <3>1, <3>2
        <4> QED
          BY Zenon, <2>5, <4>1 DEF Linked
      <3>3. CASE k > i
        <4>1. k - 1 \in 1..(Len(q) - 1) /\ ~(k - 1 < i) /\ (k - 1) + 1 = k
          BY <2>1, <3>1, <3>3
        <4>2. (a \o b)[k - 1] = u
          BY Zenon, <2>5, <3>1, <4>1
        <4> QED
          BY Zenon, <2>5, <4>1, <4>2 DEF Linked
      <3> QED
        BY <2>1, <2>7, <3>1, <3>2, <3>3
    <2>8. ASSUME NEW u \in Tasks, Linked(a \o b, u)
          PROVE  Linked(q, u) /\ u # t
      BY SMTT(30), <2>1, <2>5, <2>8 DEF Linked, Distinct
    <2> QED
      BY <2>4, <2>5, <2>6, <2>7, <2>8
  <1> QED
    BY Zenon, <1>1, <1>2

\* popping takes the entries up to one;
LEMMA PopEntries ==
    ASSUME NEW q \in Seq(Tasks), NEW i \in 1..Len(q), Distinct(q)
    PROVE  LET r == SubSeq(q, i + 1, Len(q))
           IN  /\ r \in Seq(Tasks)
               /\ Distinct(r)
               /\ \A u \in Tasks : Linked(r, u) => Linked(q, u)
               /\ \A u \in Tasks :
                     Linked(q, u) /\ (\A j \in 1..i : q[j] # u) => Linked(r, u)
               /\ \A j \in 1..i : ~Linked(r, q[j])
  <1> DEFINE r == SubSeq(q, i + 1, Len(q))
  <1>1. Len(q) \in Nat
    OBVIOUS
  <1>2. /\ r \in Seq(Tasks) /\ Len(r) = Len(q) - i
        /\ \A j \in 1..(Len(q) - i) : r[j] = q[i + j]
    BY <1>1
  <1> HIDE DEF r
  <1>3. Distinct(r)
    BY <1>1, <1>2 DEF Distinct
  <1>4. \A u \in Tasks : Linked(r, u) => Linked(q, u)
    <2> SUFFICES ASSUME NEW u \in Tasks, NEW j \in 1..Len(r), r[j] = u
                 PROVE  Linked(q, u)
      BY Zenon DEF Linked
    <2>1. i + j \in 1..Len(q) /\ q[i + j] = u
      BY <1>1, <1>2
    <2> QED
      BY Zenon, <2>1 DEF Linked
  <1>5. ASSUME NEW u \in Tasks, Linked(q, u), \A j \in 1..i : q[j] # u
        PROVE  Linked(r, u)
    <2>1. PICK k \in 1..Len(q) : q[k] = u
      BY Zenon, <1>5 DEF Linked
    <2>2. k > i
      BY <1>1, <1>5, <2>1
    <2>3. k - i \in 1..(Len(q) - i) /\ r[k - i] = u
      BY <1>1, <1>2, <2>1, <2>2
    <2> QED
      BY Zenon, <1>2, <2>3 DEF Linked
  <1>6. \A j \in 1..i : ~Linked(r, q[j])
    <2> SUFFICES ASSUME NEW j \in 1..i, NEW k \in 1..Len(r), r[k] = q[j]
                 PROVE  FALSE
      BY Zenon DEF Linked
    <2>1. \E m \in 1..Len(q) : q[m] = q[j] /\ m # j
      <3>1. i + k \in 1..Len(q) /\ q[i + k] = q[j] /\ i + k # j
        BY <1>1, <1>2
      <3> QED
        BY Zenon, <3>1
    <2> QED
      BY <1>1, <2>1 DEF Distinct
  <1> QED
    BY Zenon, <1>2, <1>3, <1>4, <1>5, <1>6 DEF r

\* and parking adds one at the end.
LEMMA PushEntry ==
    ASSUME NEW q \in Seq(Tasks), NEW t \in Tasks, Distinct(q), ~Linked(q, t)
    PROVE  /\ Append(q, t) \in Seq(Tasks)
           /\ Distinct(Append(q, t))
           /\ \A u \in Tasks : Linked(Append(q, t), u) <=> Linked(q, u) \/ u = t
  <1>1. /\ Len(q) \in Nat
        /\ Append(q, t) \in Seq(Tasks)
        /\ Len(Append(q, t)) = Len(q) + 1
        /\ \A i \in 1..Len(q) : Append(q, t)[i] = q[i]
        /\ Append(q, t)[Len(q) + 1] = t
    OBVIOUS
  <1>2. Distinct(Append(q, t))
    BY <1>1 DEF Distinct, Linked
  <1>3. \A u \in Tasks : Linked(Append(q, t), u) <=> Linked(q, u) \/ u = t
    BY <1>1 DEF Linked
  <1> QED
    BY Zenon, <1>1, <1>2, <1>3

\* The invariant holds at the start.
LEMMA InitIInv == Init => IInv
  <1> SUFFICES ASSUME Init PROVE IInv
    BY Zenon
  <1> USE NullFresh DEF Init
  <1>1. TypeOK
    <2>1. waitq \in Seq(Tasks) /\ reentrancy_cnt \in 0..MaxDepth
      BY DepthBound
    <2>2. pc \in [Tasks -> Labels] /\ mode \in [Tasks -> Modes]
      BY Zenon DEF Labels, Modes
    <2>3. state \in [Tasks -> SUBSET Bits] /\ iteration \in [Tasks -> Nat]
      BY Zenon
    <2> QED
      BY Zenon, <2>1, <2>2, <2>3 DEF TypeOK
  <1>5. OnlyCancelled
    BY Zenon DEF OnlyCancelled
  <1>2. OwnerRecorded /\ CondHeld /\ WordKnown /\ BatonPassed /\ FinalizersBalanced
    BY Zenon DEF OwnerRecorded, CondHeld, WordKnown, BatonPassed, FinalizersBalanced,
           Owns, Releasing
  <1>3. LockedByExactlyOne /\ ParkedBitSet /\ NoStrandedWaiter
    BY Zenon DEF LockedByExactlyOne, ParkedBitSet, NoStrandedWaiter, Owns, Releasing
  <1>4. OneWake /\ EntriesLinkedOnce
    BY DEF OneWake, EntriesLinkedOnce, Parking, Linked
  <1> QED
    BY Zenon, <1>1, <1>2, <1>3, <1>4, <1>5 DEF IInv

\* The owner takes the lock again.
LEMMA ReenterIInv ==
    ASSUME NEW t \in Tasks, IInv, Reenter(t)
    PROVE  IInv'
  <1> USE NullFresh DEF IInv, Goto, Forget, word, queue, locals
  <1>1. TypeOK'
    BY DepthBound DEF Reenter, TypeOK, Labels, Bits
  <1>2. OwnerRecorded' /\ LockedByExactlyOne'
    BY DEF Reenter, TypeOK, OwnerRecorded, LockedByExactlyOne, WordKnown, Owns, Releasing, Bits
  <1>3. CondHeld'
    BY Zenon DEF Reenter, TypeOK, CondHeld
  <1>4. WordKnown' /\ ParkedBitSet'
    BY Zenon DEF Reenter, TypeOK, LockedByExactlyOne, CondHeld, WordKnown, ParkedBitSet, Owns, Releasing, Bits
  <1>5. BatonPassed' /\ NoStrandedWaiter'
    BY Zenon DEF Reenter, TypeOK, LockedByExactlyOne, CondHeld, WordKnown, BatonPassed, NoStrandedWaiter, Headed, Owns, Releasing, Bits
  <1>6. OneWake'
    BY Zenon DEF Reenter, TypeOK, OneWake, Parking
  <1>7. EntriesLinkedOnce'
    BY Zenon DEF Reenter, TypeOK, OneWake, EntriesLinkedOnce, Parking
  <1>8. FinalizersBalanced'
    BY Zenon DEF Reenter, TypeOK, FinalizersBalanced, Owns, Releasing
  <1>9. OnlyCancelled'
    BY Zenon DEF Reenter, TypeOK, OneWake, OnlyCancelled, Refused, Parking
  <1> QED
    BY Zenon, <1>1, <1>2, <1>3, <1>4, <1>5, <1>6, <1>7, <1>8, <1>9

\* A task reads havelock.
LEMMA TryLockIInv ==
    ASSUME NEW t \in Tasks, NEW m \in Calls[t], IInv, TryLock(t, m)
    PROVE  IInv'
  <1> USE NullFresh DEF IInv, Goto, Forget, word, queue, locals
  <1>1. TypeOK'
    BY Zenon, CallsKnown DEF TryLock, Expected, TypeOK, Labels, Bits, Modes
  <1>2. OwnerRecorded' /\ LockedByExactlyOne'
    BY DEF TryLock, Expected, TypeOK, OwnerRecorded, LockedByExactlyOne, WordKnown, Owns, Releasing, Bits
  <1>3. CondHeld'
    BY Zenon DEF TryLock, Expected, TypeOK, CondHeld
  <1>4. WordKnown' /\ ParkedBitSet'
    <2>1. WordKnown'
      BY Zenon DEF TryLock, Expected, TypeOK, WordKnown, Bits, LOCKED_BIT, PARKED_BIT
    <2>2. ParkedBitSet'
      BY Zenon DEF TryLock, Expected, ParkedBitSet
    <2> QED
      BY Zenon, <2>1, <2>2
  <1>5. BatonPassed' /\ NoStrandedWaiter'
    <2>1. \A u \in Tasks : (Headed(u) => Headed(u)') /\ (Owns(u) => Owns(u)')
      BY Zenon DEF TryLock, Expected, TypeOK, Headed, Owns, Releasing
    <2> QED
      BY Zenon, <2>1 DEF TryLock, Expected, TypeOK, BatonPassed, NoStrandedWaiter
  <1>6. OneWake'
    BY Zenon DEF TryLock, Expected, TypeOK, OneWake, Parking
  <1>7. EntriesLinkedOnce'
    BY Zenon DEF TryLock, Expected, TypeOK, OneWake, EntriesLinkedOnce, Parking
  <1>8. FinalizersBalanced'
    BY Zenon DEF TryLock, Expected, TypeOK, FinalizersBalanced, Owns, Releasing
  <1>9. OnlyCancelled'
    BY Zenon DEF TryLock, Expected, TypeOK, OneWake, OnlyCancelled, Refused, Parking
  <1> QED
    BY <1>1, <1>2, <1>3, <1>4, <1>5, <1>6, <1>7, <1>8, <1>9

\* It sets LOCKED_BIT, if havelock is as it was read;
LEMMA TryLockCASIInv ==
    ASSUME NEW t \in Tasks, IInv, TryLockCAS(t)
    PROVE  IInv'
  <1> USE NullFresh DEF IInv, Goto, Forget, word, queue, locals
  <1>1. TypeOK'
    BY Zenon DEF TryLockCAS, TypeOK, Labels, Bits
  <1>2. OwnerRecorded' /\ LockedByExactlyOne'
    BY DEF TryLockCAS, TypeOK, OwnerRecorded, LockedByExactlyOne, WordKnown, Owns, Releasing, Bits
  <1>3. CondHeld'
    BY Zenon DEF TryLockCAS, TypeOK, CondHeld
  <1>4. WordKnown' /\ ParkedBitSet'
    BY Zenon DEF TryLockCAS, TypeOK, LockedByExactlyOne, CondHeld, WordKnown, ParkedBitSet, Owns, Releasing, Bits
  <1>5. BatonPassed' /\ NoStrandedWaiter'
    BY Zenon DEF TryLockCAS, TypeOK, LockedByExactlyOne, CondHeld, WordKnown, BatonPassed, NoStrandedWaiter, Headed, Owns, Releasing, Bits
  <1>6. OneWake'
    BY Zenon DEF TryLockCAS, TypeOK, OneWake, Parking
  <1>7. EntriesLinkedOnce'
    BY Zenon DEF TryLockCAS, TypeOK, OneWake, EntriesLinkedOnce, Parking
  <1>8. FinalizersBalanced'
    BY Zenon DEF TryLockCAS, TypeOK, FinalizersBalanced, Owns, Releasing
  <1>9. OnlyCancelled'
    BY Zenon DEF TryLockCAS, TypeOK, OneWake, OnlyCancelled, Refused, Parking
  <1> QED
    BY <1>1, <1>2, <1>3, <1>4, <1>5, <1>6, <1>7, <1>8, <1>9

\* or gives up, or enters slowlock.
LEMMA TryLockFailIInv ==
    ASSUME NEW t \in Tasks, IInv, TryLockFail(t)
    PROVE  IInv'
  <1> USE NullFresh DEF IInv, Goto, Forget, word, queue, locals
  <1>1. TypeOK'
    BY Zenon DEF TryLockFail, Reenable, TypeOK, Labels, Bits
  <1>2. OwnerRecorded' /\ LockedByExactlyOne'
    BY DEF TryLockFail, Reenable, TypeOK, OwnerRecorded, LockedByExactlyOne, WordKnown, Owns, Releasing, Bits
  <1>3. CondHeld'
    BY Zenon DEF TryLockFail, Reenable, TypeOK, CondHeld
  <1>4. WordKnown' /\ ParkedBitSet'
    BY DEF TryLockFail, Reenable, TypeOK, LockedByExactlyOne, CondHeld, WordKnown, ParkedBitSet, Owns, Releasing, Bits
  <1>5. BatonPassed' /\ NoStrandedWaiter'
    <2>1. \A u \in Tasks : (Headed(u) => Headed(u)') /\ (Owns(u) => Owns(u)')
      BY Zenon DEF TryLockFail, Reenable, TypeOK, Headed, Owns, Releasing, OwnerRecorded
    <2> QED
      BY Zenon, <2>1 DEF TryLockFail, Reenable, TypeOK, BatonPassed, NoStrandedWaiter
  <1>6. OneWake'
    BY Zenon DEF TryLockFail, Reenable, TypeOK, OneWake, Parking
  <1>7. EntriesLinkedOnce'
    BY DEF TryLockFail, Reenable, TypeOK, OneWake, EntriesLinkedOnce, Parking
  <1>8. FinalizersBalanced'
    BY Zenon DEF TryLockFail, Reenable, TypeOK, OwnerRecorded, FinalizersBalanced, Owns, Releasing
  <1>9. OnlyCancelled'
    BY Zenon DEF TryLockFail, Reenable, TypeOK, OneWake, OnlyCancelled, Refused, Parking
  <1> QED
    BY <1>1, <1>2, <1>3, <1>4, <1>5, <1>6, <1>7, <1>8, <1>9

\* The winner records itself.
LEMMA TryLockOwnIInv ==
    ASSUME NEW t \in Tasks, IInv, TryLockOwn(t)
    PROVE  IInv'
  <1> USE NullFresh DEF IInv, Goto, Forget, word, queue, locals
  <1>1. TypeOK'
    BY DepthBound DEF TryLockOwn, TypeOK, Labels, Bits
  <1>2. OwnerRecorded' /\ LockedByExactlyOne'
    BY DEF TryLockOwn, TypeOK, OwnerRecorded, LockedByExactlyOne, WordKnown, Owns, Releasing, Bits
  <1>3. CondHeld'
    BY Zenon DEF TryLockOwn, TypeOK, CondHeld
  <1>4. WordKnown' /\ ParkedBitSet'
    BY Zenon DEF TryLockOwn, TypeOK, LockedByExactlyOne, CondHeld, WordKnown, ParkedBitSet, Owns, Releasing, Bits
  <1>5. BatonPassed' /\ NoStrandedWaiter'
    BY DEF TryLockOwn, TypeOK, LockedByExactlyOne, CondHeld, WordKnown, BatonPassed, NoStrandedWaiter, Headed, Owns, Releasing, Bits
  <1>6. OneWake'
    BY Zenon DEF TryLockOwn, TypeOK, OneWake, Parking
  <1>7. EntriesLinkedOnce'
    BY DEF TryLockOwn, TypeOK, OneWake, EntriesLinkedOnce, Parking
  <1>8. FinalizersBalanced'
    BY Zenon DEF TryLockOwn, TypeOK, OwnerRecorded, LockedByExactlyOne, FinalizersBalanced, Owns, Releasing
  <1>9. OnlyCancelled'
    BY Zenon DEF TryLockOwn, TypeOK, OneWake, OnlyCancelled, Refused, Parking
  <1> QED
    BY <1>1, <1>2, <1>3, <1>4, <1>5, <1>6, <1>7, <1>8, <1>9

\* slowlock looks at the bits.
LEMMA SpinIInv ==
    ASSUME NEW t \in Tasks, IInv, Spin(t)
    PROVE  IInv'
  <1> USE NullFresh DEF IInv, Goto, Forget, word, queue, locals
  <1>1. TypeOK'
    <2>1. iteration' \in [Tasks -> Nat]
      <3>1. iteration \in [Tasks -> Nat]
        BY Zenon DEF TypeOK
      <3>2. iteration' = iteration \/ iteration' = [iteration EXCEPT ![t] = @ + 1]
        BY Zenon DEF Spin
      <3> QED
        BY <3>1, <3>2
    <2>2. state' \in [Tasks -> SUBSET Bits] /\ pc' \in [Tasks -> Labels]
      BY Zenon DEF Spin, SpinsAgain, TypeOK, Labels
    <2> QED
      BY Zenon, <2>1, <2>2 DEF Spin, SpinsAgain, TypeOK
  <1>2. OwnerRecorded' /\ LockedByExactlyOne'
    BY DEF Spin, SpinsAgain, TypeOK, OwnerRecorded, LockedByExactlyOne, WordKnown, Owns, Releasing, Bits
  <1>3. CondHeld'
    BY SMTT(30) DEF Spin, SpinsAgain, TypeOK, CondHeld
  <1>4. WordKnown' /\ ParkedBitSet'
    <2>1. WordKnown'
      BY DEF Spin, SpinsAgain, TypeOK, WordKnown, Bits
    <2>2. ParkedBitSet'
      BY Zenon DEF Spin, SpinsAgain, ParkedBitSet
    <2> QED
      BY Zenon, <2>1, <2>2
  <1>5. BatonPassed' /\ NoStrandedWaiter'
    BY DEF Spin, SpinsAgain, TypeOK, LockedByExactlyOne, CondHeld, WordKnown, BatonPassed, NoStrandedWaiter, Headed, Owns, Releasing, Bits
  <1>6. OneWake'
    BY DEF Spin, SpinsAgain, TypeOK, OneWake, Parking
  <1>7. EntriesLinkedOnce'
    BY DEF Spin, SpinsAgain, TypeOK, OneWake, EntriesLinkedOnce, Parking
  <1>8. FinalizersBalanced'
    BY SMTT(60) DEF Spin, SpinsAgain, TypeOK, FinalizersBalanced, Owns, Releasing
  <1>9. OnlyCancelled'
    BY DEF Spin, SpinsAgain, TypeOK, OneWake, OnlyCancelled, Refused, Parking
  <1> QED
    BY <1>1, <1>2, <1>3, <1>4, <1>5, <1>6, <1>7, <1>8, <1>9

\* It grabs a lock that is free, whoever is parked;
LEMMA BargeIInv ==
    ASSUME NEW t \in Tasks, IInv, Barge(t)
    PROVE  IInv'
  <1> USE NullFresh DEF IInv, Goto, Forget, word, queue, locals
  <1>1. TypeOK'
    BY DEF Barge, Reenable, TypeOK, Labels, Bits
  <1>2. OwnerRecorded' /\ LockedByExactlyOne'
    BY DEF Barge, Reenable, TypeOK, OwnerRecorded, LockedByExactlyOne, WordKnown, Owns, Releasing, Bits
  <1>3. CondHeld'
    BY DEF Barge, Reenable, TypeOK, CondHeld
  <1>4. WordKnown' /\ ParkedBitSet'
    BY DEF Barge, Reenable, TypeOK, LockedByExactlyOne, CondHeld, WordKnown, ParkedBitSet, Owns, Releasing, Bits
  <1>5. BatonPassed' /\ NoStrandedWaiter'
    BY DEF Barge, Reenable, TypeOK, LockedByExactlyOne, CondHeld, WordKnown, BatonPassed, NoStrandedWaiter, Headed, Owns, Releasing, Bits
  <1>6. OneWake'
    BY DEF Barge, Reenable, TypeOK, OneWake, Parking
  <1>7. EntriesLinkedOnce'
    BY SMTT(30) DEF Barge, Reenable, TypeOK, OneWake, EntriesLinkedOnce, Parking
  <1>8. FinalizersBalanced'
    BY DEF Barge, Reenable, TypeOK, OwnerRecorded, FinalizersBalanced, Owns, Releasing
  <1>9. OnlyCancelled'
    BY DEF Barge, Reenable, TypeOK, OneWake, OnlyCancelled, Refused, Parking
  <1> QED
    BY <1>1, <1>2, <1>3, <1>4, <1>5, <1>6, <1>7, <1>8, <1>9

\* records itself;
LEMMA BargeOwnIInv ==
    ASSUME NEW t \in Tasks, IInv, BargeOwn(t)
    PROVE  IInv'
  <1> USE NullFresh DEF IInv, Goto, Forget, word, queue, locals
  <1>1. TypeOK'
    BY DepthBound DEF BargeOwn, TypeOK, Labels, Bits
  <1>2. OwnerRecorded' /\ LockedByExactlyOne'
    BY DEF BargeOwn, TypeOK, OwnerRecorded, LockedByExactlyOne, WordKnown, Owns, Releasing, Bits
  <1>3. CondHeld'
    BY Zenon DEF BargeOwn, TypeOK, CondHeld
  <1>4. WordKnown' /\ ParkedBitSet'
    BY Zenon DEF BargeOwn, TypeOK, LockedByExactlyOne, CondHeld, WordKnown, ParkedBitSet, Owns, Releasing, Bits
  <1>5. BatonPassed' /\ NoStrandedWaiter'
    BY DEF BargeOwn, TypeOK, LockedByExactlyOne, CondHeld, WordKnown, BatonPassed, NoStrandedWaiter, Headed, Owns, Releasing, Bits
  <1>6. OneWake'
    BY Zenon DEF BargeOwn, TypeOK, OneWake, Parking
  <1>7. EntriesLinkedOnce'
    BY Zenon DEF BargeOwn, TypeOK, OneWake, EntriesLinkedOnce, Parking
  <1>8. FinalizersBalanced'
    BY Zenon DEF BargeOwn, TypeOK, OwnerRecorded, LockedByExactlyOne, FinalizersBalanced, Owns, Releasing
  <1>9. OnlyCancelled'
    BY Zenon DEF BargeOwn, TypeOK, OneWake, OnlyCancelled, Refused, Parking
  <1> QED
    BY <1>1, <1>2, <1>3, <1>4, <1>5, <1>6, <1>7, <1>8, <1>9

\* and gives it up under a cancelled token.
LEMMA RefuseIInv ==
    ASSUME NEW t \in Tasks, IInv, Refuse(t)
    PROVE  IInv'
  <1> USE NullFresh DEF IInv, Goto, Forget, word, queue, locals
  <1>1. TypeOK'
    <2>1. reentrancy_cnt' \in 0..MaxDepth /\ locked_by' \in Tasks \cup {Null}
      BY DepthBound DEF Refuse, TypeOK
    <2>2. pc' \in [Tasks -> Labels]
      BY ZenonT(40) DEF Refuse, TypeOK, Labels
    <2> QED
      BY Zenon, <2>1, <2>2 DEF Refuse, TypeOK
  <1>2. OwnerRecorded' /\ LockedByExactlyOne'
    <2>1. OwnerRecorded'
      BY SMTT(30) DEF Refuse, TypeOK, OwnerRecorded
    <2>2. \A u \in Tasks : Owns(u)' <=> Owns(u)
      BY DEF Refuse, TypeOK, OwnerRecorded, Owns, Releasing
    <2> QED
      BY Zenon, <2>1, <2>2 DEF Refuse, LockedByExactlyOne
  <1>3. CondHeld'
    BY Zenon DEF Refuse, TypeOK, CondHeld
  <1>4. WordKnown' /\ ParkedBitSet'
    BY DEF Refuse, TypeOK, LockedByExactlyOne, CondHeld, WordKnown, ParkedBitSet, Owns, Releasing, Bits
  <1>5. BatonPassed' /\ NoStrandedWaiter'
    <2>1. \A u \in Tasks : (Headed(u) => Headed(u)') /\ (Owns(u) => Owns(u)')
      BY DEF Refuse, TypeOK, OwnerRecorded, Headed, Owns, Releasing
    <2> QED
      BY Zenon, <2>1 DEF Refuse, TypeOK, BatonPassed, NoStrandedWaiter
  <1>6. OneWake'
    BY DEF Refuse, TypeOK, OneWake, Parking
  <1>7. EntriesLinkedOnce'
    BY DEF Refuse, TypeOK, OneWake, EntriesLinkedOnce, Parking
  <1>8. FinalizersBalanced'
    BY SMTT(30) DEF Refuse, TypeOK, OwnerRecorded, LockedByExactlyOne, FinalizersBalanced, Owns, Releasing
  <1>9. OnlyCancelled'
    BY DEF Refuse, TypeOK, OneWake, OnlyCancelled, Refused, Parking
  <1> QED
    BY <1>1, <1>2, <1>3, <1>4, <1>5, <1>6, <1>7, <1>8, <1>9

\* It announces a parked task,
LEMMA SetParkedIInv ==
    ASSUME NEW t \in Tasks, IInv, SetParked(t)
    PROVE  IInv'
  <1> USE NullFresh DEF IInv, Goto, Forget, word, queue, locals
  <1>1. TypeOK'
    BY Zenon DEF SetParked, TypeOK, Labels, Bits
  <1>2. OwnerRecorded' /\ LockedByExactlyOne'
    BY DEF SetParked, TypeOK, OwnerRecorded, LockedByExactlyOne, WordKnown, Owns, Releasing, Bits
  <1>3. CondHeld'
    BY Zenon DEF SetParked, TypeOK, CondHeld
  <1>4. WordKnown' /\ ParkedBitSet'
    BY DEF SetParked, TypeOK, LockedByExactlyOne, CondHeld, WordKnown, ParkedBitSet, Owns, Releasing, Bits
  <1>5. BatonPassed' /\ NoStrandedWaiter'
    BY Zenon DEF SetParked, TypeOK, LockedByExactlyOne, CondHeld, WordKnown, BatonPassed, NoStrandedWaiter, Headed, Owns, Releasing, Bits
  <1>6. OneWake'
    BY Zenon DEF SetParked, TypeOK, OneWake, Parking
  <1>7. EntriesLinkedOnce'
    BY DEF SetParked, TypeOK, OneWake, EntriesLinkedOnce, Parking
  <1>8. FinalizersBalanced'
    BY Zenon DEF SetParked, TypeOK, FinalizersBalanced, Owns, Releasing
  <1>9. OnlyCancelled'
    BY Zenon DEF SetParked, TypeOK, OneWake, OnlyCancelled, Refused, Parking
  <1> QED
    BY <1>1, <1>2, <1>3, <1>4, <1>5, <1>6, <1>7, <1>8, <1>9

\* takes the lock of the queue,
LEMMA LockCondIInv ==
    ASSUME NEW t \in Tasks, IInv, LockCond(t)
    PROVE  IInv'
  <1> USE NullFresh DEF IInv, Goto, Forget, word, queue, locals
  <1>1. TypeOK'
    BY Zenon DEF LockCond, TypeOK, Labels, Bits
  <1>2. OwnerRecorded' /\ LockedByExactlyOne'
    BY DEF LockCond, TypeOK, OwnerRecorded, LockedByExactlyOne, WordKnown, Owns, Releasing, Bits
  <1>3. CondHeld'
    BY Zenon DEF LockCond, TypeOK, CondHeld
  <1>4. WordKnown' /\ ParkedBitSet'
    BY DEF LockCond, TypeOK, LockedByExactlyOne, CondHeld, WordKnown, ParkedBitSet, Owns, Releasing, Bits
  <1>5. BatonPassed' /\ NoStrandedWaiter'
    BY DEF LockCond, TypeOK, LockedByExactlyOne, CondHeld, WordKnown, BatonPassed, NoStrandedWaiter, Headed, Owns, Releasing, Bits
  <1>6. OneWake'
    BY Zenon DEF LockCond, TypeOK, OneWake, Parking
  <1>7. EntriesLinkedOnce'
    BY Zenon DEF LockCond, TypeOK, OneWake, EntriesLinkedOnce, Parking
  <1>8. FinalizersBalanced'
    BY Zenon DEF LockCond, TypeOK, FinalizersBalanced, Owns, Releasing
  <1>9. OnlyCancelled'
    BY Zenon DEF LockCond, TypeOK, OneWake, OnlyCancelled, Refused, Parking
  <1> QED
    BY <1>1, <1>2, <1>3, <1>4, <1>5, <1>6, <1>7, <1>8, <1>9

\* looks for the last time,
LEMMA CheckIInv ==
    ASSUME NEW t \in Tasks, IInv, Check(t)
    PROVE  IInv'
  <1> USE NullFresh DEF IInv, Goto, Forget, word, queue, locals
  <1>1. TypeOK'
    BY Zenon DEF Check, MayPark, TypeOK, Labels, Bits
  <1>2. OwnerRecorded' /\ LockedByExactlyOne'
    BY DEF Check, MayPark, TypeOK, OwnerRecorded, LockedByExactlyOne, WordKnown, Owns, Releasing, Bits
  <1>3. CondHeld'
    BY DEF Check, MayPark, TypeOK, CondHeld
  <1>4. WordKnown' /\ ParkedBitSet'
    BY SMTT(30) DEF Check, MayPark, TypeOK, LockedByExactlyOne, CondHeld, WordKnown, ParkedBitSet, Owns, Releasing, Bits
  <1>5. BatonPassed' /\ NoStrandedWaiter'
    BY DEF Check, MayPark, TypeOK, LockedByExactlyOne, CondHeld, WordKnown, BatonPassed, NoStrandedWaiter, Headed, Owns, Releasing, Bits
  <1>6. OneWake'
    BY DEF Check, MayPark, TypeOK, OneWake, Parking
  <1>7. EntriesLinkedOnce'
    BY ZenonT(60) DEF Check, MayPark, TypeOK, OneWake, EntriesLinkedOnce, Parking
  <1>8. FinalizersBalanced'
    BY SMTT(30) DEF Check, MayPark, TypeOK, FinalizersBalanced, Owns, Releasing
  <1>9. OnlyCancelled'
    BY DEF Check, MayPark, TypeOK, OneWake, OnlyCancelled, Refused, Parking
  <1> QED
    BY <1>1, <1>2, <1>3, <1>4, <1>5, <1>6, <1>7, <1>8, <1>9

\* and parks: an unlock that sees it is still to come.
LEMMA ParkIInv ==
    ASSUME NEW t \in Tasks, IInv, Park(t)
    PROVE  IInv'
  <1> USE NullFresh DEF IInv, Goto, Forget, word, queue, locals
  <1>1. TypeOK'
    BY DEF Park, TypeOK, Labels, Bits
  <1>2. OwnerRecorded' /\ LockedByExactlyOne'
    BY DEF Park, TypeOK, OwnerRecorded, LockedByExactlyOne, WordKnown, Owns, Releasing, Bits
  <1>3. CondHeld'
    BY Zenon DEF Park, TypeOK, CondHeld
  <1>4. WordKnown' /\ ParkedBitSet'
    BY DEF Park, TypeOK, LockedByExactlyOne, CondHeld, WordKnown, ParkedBitSet, Owns, Releasing, Bits
  <1>5. BatonPassed' /\ NoStrandedWaiter'
    BY DEF Park, TypeOK, LockedByExactlyOne, CondHeld, WordKnown, BatonPassed, NoStrandedWaiter, Headed, Owns, Releasing, Bits
  <1>6. OneWake'
    BY Zenon DEF Park, TypeOK, OneWake, Parking
  <1>7. EntriesLinkedOnce'
    <2>1. ~Linked(waitq, t) /\ Distinct(waitq)
      BY Zenon DEF Park, EntriesLinkedOnce, Parking, Distinct
    <2>2. /\ Distinct(waitq')
          /\ \A u \in Tasks : Linked(waitq', u) <=> Linked(waitq, u) \/ u = t
      BY Zenon, <2>1, PushEntry DEF Park, TypeOK
    <2>3. wake' = wake /\ wake[t] = Null /\ waiting_on' = waiting_on \cup {t}
      BY Zenon DEF Park, OneWake, Parking
    <2>4. \A u \in Tasks : u # t => pc'[u] = pc[u]
      BY Zenon DEF Park, TypeOK
    <2>5. Parking(t)'
      BY Zenon DEF Park, TypeOK, Parking
    <2> QED
      BY SMTT(30), <2>2, <2>3, <2>4, <2>5 DEF TypeOK, EntriesLinkedOnce, Parking, Distinct
  <1>8. FinalizersBalanced'
    BY Zenon DEF Park, TypeOK, FinalizersBalanced, Owns, Releasing
  <1>9. OnlyCancelled'
    BY Zenon DEF Park, TypeOK, OneWake, OnlyCancelled, Refused, Parking
  <1> QED
    BY <1>1, <1>2, <1>3, <1>4, <1>5, <1>6, <1>7, <1>8, <1>9

\* A cancelled token takes the task out again, unless a walk was first.
LEMMA RecheckIInv ==
    ASSUME NEW t \in Tasks, IInv, Recheck(t)
    PROVE  IInv'
  <1> USE NullFresh DEF IInv, Goto, Forget, word, queue, locals
  <1>1. TypeOK'
    <2>0. Distinct(waitq)
      BY Zenon DEF EntriesLinkedOnce, Distinct
    <2>1. /\ Unlink(waitq, t) \in Seq(Tasks)
          /\ Distinct(Unlink(waitq, t))
          /\ \A u \in Tasks : Linked(Unlink(waitq, t), u) <=> Linked(waitq, u) /\ u # t
      BY Zenon, <2>0, UnlinkEntry DEF TypeOK
    <2> QED
      BY Zenon, <2>1 DEF Recheck, Disarmed, TypeOK, Labels
  <1>2. OwnerRecorded' /\ LockedByExactlyOne'
    BY DEF Recheck, Disarmed, TypeOK, OwnerRecorded, LockedByExactlyOne, WordKnown, Owns, Releasing, Bits
  <1>3. CondHeld'
    BY DEF Recheck, Disarmed, TypeOK, CondHeld
  <1>4. WordKnown' /\ ParkedBitSet'
    <2>1. WordKnown'
      BY Zenon DEF Recheck, Disarmed, TypeOK, WordKnown
    <2>2. ParkedBitSet'
      BY Zenon DEF Recheck, Disarmed, ParkedBitSet
    <2> QED
      BY <2>1, <2>2
  <1>5. BatonPassed' /\ NoStrandedWaiter'
    <2>1. \A u \in Tasks : (Headed(u) => Headed(u)') /\ (Owns(u) => Owns(u)')
      BY Zenon DEF Recheck, Disarmed, TypeOK, Headed, Owns, Releasing
    <2>2. waiting_on' \subseteq waiting_on
      BY Zenon DEF Recheck, Disarmed
    <2> QED
      BY Zenon, <2>1, <2>2 DEF Recheck, Disarmed, TypeOK, BatonPassed, NoStrandedWaiter
  <1>6. OneWake'
    BY DEF Recheck, Disarmed, TypeOK, OneWake, Parking
  <1>7. EntriesLinkedOnce'
    <2>0. Distinct(waitq)
      BY Zenon DEF EntriesLinkedOnce, Distinct
    <2>1. /\ Unlink(waitq, t) \in Seq(Tasks)
          /\ Distinct(Unlink(waitq, t))
          /\ \A u \in Tasks : Linked(Unlink(waitq, t), u) <=> Linked(waitq, u) /\ u # t
      BY Zenon, <2>0, UnlinkEntry DEF TypeOK
    <2>2. CASE Disarmed(t)
      <3>1. waitq' = Unlink(waitq, t) /\ waiting_on' = waiting_on \ {t} /\ wake' = wake
        BY Zenon, <2>2 DEF Recheck
      <3>2. \A u \in Tasks : u # t => pc'[u] = pc[u]
        BY Zenon, <2>2 DEF Recheck, TypeOK
      <3> QED
        BY Zenon, <2>1, <3>1, <3>2 DEF TypeOK, EntriesLinkedOnce, Parking, Distinct
    <2>3. CASE ~Disarmed(t)
      <3>1. waitq' = waitq /\ waiting_on' = waiting_on /\ wake' = wake
        BY Zenon, <2>3 DEF Recheck
      <3>2. \A u \in Tasks : Parking(u)' <=> Parking(u)
        BY Zenon, <2>3 DEF Recheck, TypeOK, Parking
      <3>3. \A u \in Tasks : pc[u] = "cleanup" => pc'[u] = "cleanup"
        BY <2>3 DEF Recheck, TypeOK
      <3> QED
        BY <3>1, <3>2, <3>3 DEF EntriesLinkedOnce
    <2> QED
      BY Zenon, <2>2, <2>3
  <1>8. FinalizersBalanced'
    BY ZenonT(60) DEF Recheck, Disarmed, TypeOK, FinalizersBalanced, Owns, Releasing
  <1>9. OnlyCancelled'
    BY DEF Recheck, Disarmed, TypeOK, OneWake, OnlyCancelled, Refused, Parking
  <1> QED
    BY <1>1, <1>2, <1>3, <1>4, <1>5, <1>6, <1>7, <1>8, <1>9

\* The task releases the queue and sleeps.
LEMMA ReleaseIInv ==
    ASSUME NEW t \in Tasks, IInv, Release(t)
    PROVE  IInv'
  <1> USE NullFresh DEF IInv, Goto, Forget, word, queue, locals
  <1>1. TypeOK'
    BY Zenon DEF Release, TypeOK, Labels, Bits
  <1>2. OwnerRecorded' /\ LockedByExactlyOne'
    BY DEF Release, TypeOK, OwnerRecorded, LockedByExactlyOne, WordKnown, Owns, Releasing, Bits
  <1>3. CondHeld'
    BY Zenon DEF Release, TypeOK, CondHeld
  <1>4. WordKnown' /\ ParkedBitSet'
    BY Zenon DEF Release, TypeOK, LockedByExactlyOne, CondHeld, WordKnown, ParkedBitSet, Owns, Releasing, Bits
  <1>5. BatonPassed' /\ NoStrandedWaiter'
    BY DEF Release, TypeOK, LockedByExactlyOne, CondHeld, WordKnown, BatonPassed, NoStrandedWaiter, Headed, Owns, Releasing, Bits
  <1>6. OneWake'
    BY Zenon DEF Release, TypeOK, OneWake, Parking
  <1>7. EntriesLinkedOnce'
    BY Zenon DEF Release, TypeOK, OneWake, EntriesLinkedOnce, Parking
  <1>8. FinalizersBalanced'
    BY Zenon DEF Release, TypeOK, FinalizersBalanced, Owns, Releasing
  <1>9. OnlyCancelled'
    BY Zenon DEF Release, TypeOK, OneWake, OnlyCancelled, Refused, Parking
  <1> QED
    BY <1>1, <1>2, <1>3, <1>4, <1>5, <1>6, <1>7, <1>8, <1>9

\* It consumes a wake.
LEMMA ResumeIInv ==
    ASSUME NEW t \in Tasks, IInv, Resume(t)
    PROVE  IInv'
  <1> USE NullFresh DEF IInv, Goto, Forget, word, queue, locals
  <1>1. TypeOK'
    <2>1. iteration' \in [Tasks -> Nat]
      BY DEF Resume, TypeOK
    <2>2. wake' \in [Tasks -> {Null, "value", "cancel"}] /\ pc' \in [Tasks -> Labels]
      BY Zenon DEF Resume, TypeOK, Labels
    <2> QED
      BY Zenon, <2>1, <2>2 DEF Resume, TypeOK
  <1>2. OwnerRecorded' /\ LockedByExactlyOne'
    BY DEF Resume, TypeOK, OwnerRecorded, LockedByExactlyOne, WordKnown, Owns, Releasing, Bits
  <1>3. CondHeld'
    BY DEF Resume, TypeOK, CondHeld
  <1>4. WordKnown' /\ ParkedBitSet'
    BY DEF Resume, TypeOK, LockedByExactlyOne, CondHeld, WordKnown, ParkedBitSet, Owns, Releasing, Bits
  <1>5. BatonPassed' /\ NoStrandedWaiter'
    <2>1. \A u \in Tasks : (Headed(u) => Headed(u)') /\ (Owns(u) => Owns(u)')
      BY Zenon DEF Resume, TypeOK, Headed, Owns, Releasing
    <2> QED
      BY Zenon, <2>1 DEF Resume, TypeOK, BatonPassed, NoStrandedWaiter
  <1>6. OneWake'
    BY DEF Resume, TypeOK, OneWake, Parking
  <1>7. EntriesLinkedOnce'
    BY DEF Resume, TypeOK, OneWake, EntriesLinkedOnce, Parking
  <1>8. FinalizersBalanced'
    BY ZenonT(60) DEF Resume, TypeOK, FinalizersBalanced, Owns, Releasing
  <1>9. OnlyCancelled'
    BY DEF Resume, TypeOK, OneWake, OnlyCancelled, Refused, Parking
  <1> QED
    BY <1>1, <1>2, <1>3, <1>4, <1>5, <1>6, <1>7, <1>8, <1>9

\* An interrupted park leaves no entry and no wake behind.
LEMMA CleanupIInv ==
    ASSUME NEW t \in Tasks, IInv, Cleanup(t)
    PROVE  IInv'
  <1> USE NullFresh DEF IInv, Goto, Forget, word, queue, locals
  <1>1. TypeOK'
    <2>0. Distinct(waitq)
      BY Zenon DEF EntriesLinkedOnce, Distinct
    <2>1. /\ Unlink(waitq, t) \in Seq(Tasks)
          /\ Distinct(Unlink(waitq, t))
          /\ \A u \in Tasks : Linked(Unlink(waitq, t), u) <=> Linked(waitq, u) /\ u # t
      BY <2>0, UnlinkEntry DEF TypeOK
    <2> QED
      BY Zenon, <2>1 DEF Cleanup, TypeOK, Labels
  <1>2. OwnerRecorded' /\ LockedByExactlyOne'
    BY DEF Cleanup, TypeOK, OwnerRecorded, LockedByExactlyOne, WordKnown, Owns, Releasing, Bits
  <1>3. CondHeld'
    BY Zenon DEF Cleanup, TypeOK, CondHeld
  <1>4. WordKnown' /\ ParkedBitSet'
    BY Zenon DEF Cleanup, TypeOK, LockedByExactlyOne, CondHeld, WordKnown, ParkedBitSet, Owns, Releasing, Bits
  <1>5. BatonPassed' /\ NoStrandedWaiter'
    BY DEF Cleanup, TypeOK, LockedByExactlyOne, CondHeld, WordKnown, BatonPassed, NoStrandedWaiter, Headed, Owns, Releasing, Bits
  <1>6. OneWake'
    BY Zenon DEF Cleanup, TypeOK, OneWake, Parking
  <1>7. EntriesLinkedOnce'
    <2>0. Distinct(waitq)
      BY Zenon DEF EntriesLinkedOnce, Distinct
    <2>1. /\ Unlink(waitq, t) \in Seq(Tasks)
          /\ Distinct(Unlink(waitq, t))
          /\ \A u \in Tasks : Linked(Unlink(waitq, t), u) <=> Linked(waitq, u) /\ u # t
      BY Zenon, <2>0, UnlinkEntry DEF TypeOK
    <2> QED
      BY Zenon, <2>0, <2>1 DEF Cleanup, TypeOK, OneWake, EntriesLinkedOnce, Parking, Distinct
  <1>8. FinalizersBalanced'
    BY Zenon DEF Cleanup, TypeOK, FinalizersBalanced, Owns, Releasing
  <1>9. OnlyCancelled'
    BY Zenon DEF Cleanup, TypeOK, OneWake, OnlyCancelled, Refused, Parking
  <1> QED
    BY <1>1, <1>2, <1>3, <1>4, <1>5, <1>6, <1>7, <1>8, <1>9

\* The owner gives up a level, or the lock.
LEMMA UnlockIInv ==
    ASSUME NEW t \in Tasks, IInv, Unlock(t)
    PROVE  IInv'
  <1> USE NullFresh DEF IInv, Goto, Forget, word, queue, locals
  <1>1. TypeOK'
    BY DepthBound DEF Unlock, LastLevel, TypeOK, OwnerRecorded, Labels
  <1>2. OwnerRecorded' /\ LockedByExactlyOne'
    <2>1. OwnerRecorded'
      <3>1. \A u \in Tasks : pc[u] # "refuse"
        BY Zenon DEF Unlock, LastLevel, OwnerRecorded
      <3>2. CASE reentrancy_cnt = 1
        BY Zenon, <3>1, <3>2 DEF Unlock, LastLevel, TypeOK, OwnerRecorded
      <3>3. CASE reentrancy_cnt # 1
        <4>1. reentrancy_cnt' > 0
          BY <3>3, DepthBound DEF Unlock, LastLevel, TypeOK, OwnerRecorded
        <4> QED
          BY Zenon, <3>1, <3>3, <4>1 DEF Unlock, LastLevel, OwnerRecorded
      <3> QED
        BY Zenon, <3>2, <3>3
    <2>2. \A u \in Tasks : Owns(u)' <=> Owns(u)
      BY Zenon DEF Unlock, LastLevel, TypeOK, OwnerRecorded, Owns, Releasing
    <2> QED
      BY Zenon, <2>1, <2>2 DEF Unlock, LastLevel, LockedByExactlyOne
  <1>3. CondHeld'
    BY Zenon DEF Unlock, LastLevel, TypeOK, CondHeld
  <1>4. WordKnown' /\ ParkedBitSet'
    BY DEF Unlock, LastLevel, TypeOK, LockedByExactlyOne, CondHeld, WordKnown, ParkedBitSet, Owns, Releasing, Bits
  <1>5. BatonPassed' /\ NoStrandedWaiter'
    BY ZenonT(60) DEF Unlock, LastLevel, TypeOK, LockedByExactlyOne, CondHeld, WordKnown, BatonPassed, NoStrandedWaiter, Headed, Owns, Releasing, Bits
  <1>6. OneWake'
    BY Zenon DEF Unlock, LastLevel, TypeOK, OneWake, Parking
  <1>7. EntriesLinkedOnce'
    BY ZenonT(40) DEF Unlock, LastLevel, TypeOK, OneWake, EntriesLinkedOnce, Parking
  <1>8. FinalizersBalanced'
    BY ZenonT(40) DEF Unlock, LastLevel, TypeOK, FinalizersBalanced, Owns, Releasing
  <1>9. OnlyCancelled'
    BY DEF Unlock, LastLevel, TypeOK, OneWake, OnlyCancelled, Refused, Parking
  <1> QED
    BY <1>1, <1>2, <1>3, <1>4, <1>5, <1>6, <1>7, <1>8, <1>9

\* The fast release, with nobody parked.
LEMMA UnlockCASIInv ==
    ASSUME NEW t \in Tasks, IInv, UnlockCAS(t)
    PROVE  IInv'
  <1> USE NullFresh DEF IInv, Goto, Forget, word, queue, locals
  <1>1. TypeOK'
    BY Zenon DEF UnlockCAS, TypeOK, Labels, Bits
  <1>2. OwnerRecorded' /\ LockedByExactlyOne'
    <2>1. OwnerRecorded'
      BY Zenon DEF UnlockCAS, TypeOK, OwnerRecorded
    <2>2. CASE havelock = {LOCKED_BIT}
      <3>1. \A u \in Tasks : Owns(u) => u = t
        BY Zenon DEF UnlockCAS, LockedByExactlyOne, Owns, Releasing
      <3>2. \A u \in Tasks : ~Owns(u)'
        BY <2>2, <3>1 DEF UnlockCAS, TypeOK, OwnerRecorded, Owns, Releasing
      <3> QED
        BY Zenon, <2>1, <2>2, <3>2 DEF UnlockCAS, LockedByExactlyOne
    <2>3. CASE havelock # {LOCKED_BIT}
      <3>1. \A u \in Tasks : Owns(u)' <=> Owns(u)
        BY Zenon, <2>3 DEF UnlockCAS, TypeOK, Owns, Releasing
      <3> QED
        BY Zenon, <2>1, <2>3, <3>1 DEF UnlockCAS, LockedByExactlyOne
    <2> QED
      BY Zenon, <2>2, <2>3
  <1>3. CondHeld'
    BY SMTT(30) DEF UnlockCAS, TypeOK, CondHeld
  <1>4. WordKnown' /\ ParkedBitSet'
    <2>0. LOCKED_BIT \in havelock /\ LOCKED_BIT # PARKED_BIT
      BY Zenon DEF UnlockCAS, LockedByExactlyOne, Owns, Releasing, LOCKED_BIT, PARKED_BIT
    <2>1. WordKnown'
      <3>1. CASE havelock = {LOCKED_BIT}
        <4>1. havelock # Bits
          BY <2>0, <3>1 DEF Bits
        <4>2. \A u \in Tasks : pc'[u] = IF u = t THEN "run" ELSE pc[u]
          BY Zenon, <3>1 DEF UnlockCAS, TypeOK
        <4> QED
          BY Zenon, <4>1, <4>2 DEF UnlockCAS, WordKnown
      <3>2. CASE havelock # {LOCKED_BIT}
        <4>1. havelock = Bits
          BY Zenon, <2>0, <3>2 DEF TypeOK, Bits
        <4> QED
          BY Zenon, <3>2, <4>1 DEF UnlockCAS, TypeOK, WordKnown
      <3> QED
        BY Zenon, <3>1, <3>2
    <2>2. ParkedBitSet'
      BY Zenon, <2>0 DEF UnlockCAS, ParkedBitSet
    <2> QED
      BY Zenon, <2>1, <2>2
  <1>5. BatonPassed' /\ NoStrandedWaiter'
    <2>1. CASE havelock = {LOCKED_BIT}
      <3>1. waiting_on = {}
        BY Zenon, <2>1 DEF ParkedBitSet, LOCKED_BIT, PARKED_BIT
      <3> QED
        BY Zenon, <3>1 DEF UnlockCAS, BatonPassed, NoStrandedWaiter
    <2>2. CASE havelock # {LOCKED_BIT}
      <3>1. \A u \in Tasks : (Headed(u) => Headed(u)') /\ (Owns(u) => Owns(u)')
        BY Zenon, <2>2 DEF UnlockCAS, TypeOK, Headed, Owns, Releasing
      <3> QED
        BY Zenon, <2>2, <3>1 DEF UnlockCAS, TypeOK, BatonPassed, NoStrandedWaiter
    <2> QED
      BY Zenon, <2>1, <2>2
  <1>6. OneWake'
    BY Zenon DEF UnlockCAS, TypeOK, OneWake, Parking
  <1>7. EntriesLinkedOnce'
    BY SMTT(30) DEF UnlockCAS, TypeOK, OneWake, EntriesLinkedOnce, Parking
  <1>8. FinalizersBalanced'
    BY DEF UnlockCAS, TypeOK, OwnerRecorded, FinalizersBalanced, Owns, Releasing
  <1>9. OnlyCancelled'
    BY DEF UnlockCAS, TypeOK, OneWake, OnlyCancelled, Refused, Parking
  <1> QED
    BY <1>1, <1>2, <1>3, <1>4, <1>5, <1>6, <1>7, <1>8, <1>9

\* The slow one takes the lock of the queue,
LEMMA NotifyLockIInv ==
    ASSUME NEW t \in Tasks, IInv, NotifyLock(t)
    PROVE  IInv'
  <1> USE NullFresh DEF IInv, Goto, Forget, word, queue, locals
  <1>1. TypeOK'
    BY Zenon DEF NotifyLock, TypeOK, Labels, Bits
  <1>2. OwnerRecorded' /\ LockedByExactlyOne'
    BY DEF NotifyLock, TypeOK, OwnerRecorded, LockedByExactlyOne, WordKnown, Owns, Releasing, Bits
  <1>3. CondHeld'
    BY Zenon DEF NotifyLock, TypeOK, CondHeld
  <1>4. WordKnown' /\ ParkedBitSet'
    BY Zenon DEF NotifyLock, TypeOK, LockedByExactlyOne, CondHeld, WordKnown, ParkedBitSet, Owns, Releasing, Bits
  <1>5. BatonPassed' /\ NoStrandedWaiter'
    BY DEF NotifyLock, TypeOK, LockedByExactlyOne, CondHeld, WordKnown, BatonPassed, NoStrandedWaiter, Headed, Owns, Releasing, Bits
  <1>6. OneWake'
    BY Zenon DEF NotifyLock, TypeOK, OneWake, Parking
  <1>7. EntriesLinkedOnce'
    BY DEF NotifyLock, TypeOK, OneWake, EntriesLinkedOnce, Parking
  <1>8. FinalizersBalanced'
    BY Zenon DEF NotifyLock, TypeOK, FinalizersBalanced, Owns, Releasing
  <1>9. OnlyCancelled'
    BY Zenon DEF NotifyLock, TypeOK, OneWake, OnlyCancelled, Refused, Parking
  <1> QED
    BY <1>1, <1>2, <1>3, <1>4, <1>5, <1>6, <1>7, <1>8, <1>9

\* wakes the first that it can claim,
LEMMA NotifyIInv ==
    ASSUME NEW t \in Tasks, IInv, Notify(t)
    PROVE  IInv'
  <1> USE NullFresh DEF IInv, Goto, Forget, word, queue, locals
  <1>1. TypeOK'
    <2>1. ASSUME NEW i \in 1..Len(waitq)
          PROVE  waitq[i] \in Tasks /\ SubSeq(waitq, i + 1, Len(waitq)) \in Seq(Tasks)
      BY Zenon, PopEntries, EntryIsTask DEF TypeOK, EntriesLinkedOnce, Distinct
    <2>2. waitq' \in Seq(Tasks)
      BY Zenon, <2>1, NoEntries DEF Notify, FirstClaimable
    <2>3. /\ wake' \in [Tasks -> {Null, "value", "cancel"}]
          /\ waiting_on' \in SUBSET Tasks
      BY Zenon, <2>1 DEF Notify, FirstClaimable, TypeOK
    <2> QED
      BY Zenon, <2>2, <2>3 DEF Notify, FirstClaimable, TypeOK, Labels
  <1>2. OwnerRecorded' /\ LockedByExactlyOne'
    BY DEF Notify, FirstClaimable, TypeOK, OwnerRecorded, LockedByExactlyOne, WordKnown, Owns, Releasing, Bits
  <1>3. CondHeld'
    BY Zenon DEF Notify, FirstClaimable, TypeOK, CondHeld
  <1>4. WordKnown' /\ ParkedBitSet'
    BY DEF Notify, FirstClaimable, TypeOK, LockedByExactlyOne, CondHeld, WordKnown, ParkedBitSet, Owns, Releasing, Bits
  <1>5. BatonPassed' /\ NoStrandedWaiter'
    <2>1. NoStrandedWaiter'
      BY Zenon DEF Notify, FirstClaimable, TypeOK, NoStrandedWaiter, Owns, Releasing
    <2>2. CASE \A i \in 1..Len(waitq) : waitq[i] \notin waiting_on
      <3>1. waiting_on = {}
        BY <2>2 DEF EntriesLinkedOnce, Linked
      <3>2. waiting_on' = {}
        BY Zenon, <2>2, <3>1 DEF Notify, FirstClaimable
      <3> QED
        BY Zenon, <2>1, <3>2 DEF BatonPassed
    <2>3. ASSUME NEW i \in 1..Len(waitq), FirstClaimable(i),
                 wake' = [wake EXCEPT ![waitq[i]] = "value"]
          PROVE  BatonPassed'
      <3>1. PICK u \in Tasks : u = waitq[i] /\ u \in waiting_on
        BY Zenon, <2>3, EntryIsTask DEF TypeOK, FirstClaimable
      <3>2. pc[u] = "wait" /\ u # t
        BY Zenon, <3>1 DEF Notify, OneWake, Parking, CondHeld, TypeOK
      <3>3. Headed(u)'
        BY Zenon, <2>3, <3>1, <3>2 DEF Notify, Headed, TypeOK
      <3> QED
        BY Zenon, <3>1, <3>3 DEF BatonPassed
    <2> QED
      BY Zenon, <2>1, <2>2, <2>3 DEF Notify
  <1>6. OneWake'
    <2>1. \A i \in 1..Len(waitq) : waitq[i] \in Tasks
      BY Zenon, EntryIsTask DEF TypeOK
    <2> QED
      BY <2>1 DEF Notify, FirstClaimable, TypeOK, OneWake, Parking
  <1>7. EntriesLinkedOnce'
    <2>1. Distinct(waitq)
      BY Zenon DEF EntriesLinkedOnce, Distinct
    <2>2. \A u \in Tasks : (Parking(u) \/ pc[u] = "cleanup") => (Parking(u) \/ pc[u] = "cleanup")'
      BY Zenon DEF Notify, FirstClaimable, TypeOK, Parking
    <2>3. CASE \A i \in 1..Len(waitq) : waitq[i] \notin waiting_on
      <3>1. waitq' = <<>> /\ waiting_on' = waiting_on /\ waiting_on = {}
        BY SMTT(30), <2>3 DEF Notify, FirstClaimable, EntriesLinkedOnce, Linked
      <3> QED
        BY <3>1 DEF EntriesLinkedOnce, Linked
    <2>4. ASSUME NEW i \in 1..Len(waitq), FirstClaimable(i),
                 waitq' = SubSeq(waitq, i + 1, Len(waitq)),
                 waiting_on' = waiting_on \ {waitq[i]},
                 wake' = [wake EXCEPT ![waitq[i]] = "value"]
          PROVE  EntriesLinkedOnce'
      <3>1. /\ Distinct(waitq')
            /\ \A u \in Tasks : Linked(waitq', u) => Linked(waitq, u)
            /\ ~Linked(waitq', waitq[i])
            /\ \A u \in Tasks :
                  Linked(waitq, u) /\ (\A j \in 1..i : waitq[j] # u) => Linked(waitq', u)
        BY <2>1, <2>4, PopEntries DEF TypeOK
      <3>2. \A u \in waiting_on' : u \in Tasks /\ \A j \in 1..i : waitq[j] # u
        BY SMTT(30), <2>4 DEF FirstClaimable, TypeOK
      <3>3. \A u \in waiting_on' : Linked(waitq', u)
        BY ZenonT(40), <2>4, <3>1, <3>2 DEF EntriesLinkedOnce
      <3> QED
        BY SMTT(30), <2>2, <2>4, <3>1, <3>3 DEF TypeOK, EntriesLinkedOnce, Distinct
    <2> QED
      BY Zenon, <2>3, <2>4 DEF Notify
  <1>8. FinalizersBalanced'
    BY Zenon DEF Notify, FirstClaimable, TypeOK, FinalizersBalanced, Owns, Releasing
  <1>9. OnlyCancelled'
    BY DEF Notify, FirstClaimable, TypeOK, OneWake, OnlyCancelled, Refused, Parking
  <1> QED
    BY <1>1, <1>2, <1>3, <1>4, <1>5, <1>6, <1>7, <1>8, <1>9

\* frees the lock, with PARKED_BIT if others are parked,
LEMMA StoreIInv ==
    ASSUME NEW t \in Tasks, IInv, Store(t)
    PROVE  IInv'
  <1> USE NullFresh DEF IInv, Goto, Forget, word, queue, locals
  <1>1. TypeOK'
    BY Zenon DEF Store, Handover, TypeOK, Labels, Bits
  <1>2. OwnerRecorded' /\ LockedByExactlyOne'
    <2>1. OwnerRecorded'
      BY Zenon DEF Store, Handover, TypeOK, OwnerRecorded
    <2>2. \A u \in Tasks : ~Owns(u)'
      BY Zenon DEF Store, Handover, TypeOK, OwnerRecorded, LockedByExactlyOne, Owns, Releasing
    <2>3. LOCKED_BIT \notin havelock'
      BY Zenon DEF Store, Handover, LOCKED_BIT, PARKED_BIT
    <2> QED
      BY Zenon, <2>1, <2>2, <2>3 DEF LockedByExactlyOne
  <1>3. CondHeld'
    BY Zenon DEF Store, Handover, TypeOK, CondHeld
  <1>4. WordKnown' /\ ParkedBitSet'
    <2>1. WordKnown'
      BY DEF Store, Handover, TypeOK, LockedByExactlyOne, CondHeld, WordKnown, Owns, Releasing
    <2>2. waiting_on # {} => waitq # <<>>
      BY DEF EntriesLinkedOnce, Linked, TypeOK
    <2>3. ParkedBitSet'
      BY Zenon, <2>2 DEF Store, Handover, ParkedBitSet
    <2> QED
      BY <2>1, <2>3
  <1>5. BatonPassed' /\ NoStrandedWaiter'
    BY ZenonT(30) DEF Store, Handover, TypeOK, LockedByExactlyOne, CondHeld, WordKnown, BatonPassed, NoStrandedWaiter, Headed, Owns, Releasing, Bits
  <1>6. OneWake'
    BY Zenon DEF Store, Handover, TypeOK, OneWake, Parking
  <1>7. EntriesLinkedOnce'
    BY Zenon DEF Store, Handover, TypeOK, OneWake, EntriesLinkedOnce, Parking
  <1>8. FinalizersBalanced'
    BY Zenon DEF Store, Handover, TypeOK, FinalizersBalanced, Owns, Releasing
  <1>9. OnlyCancelled'
    BY Zenon DEF Store, Handover, TypeOK, OneWake, OnlyCancelled, Refused, Parking
  <1> QED
    BY <1>1, <1>2, <1>3, <1>4, <1>5, <1>6, <1>7, <1>8, <1>9

\* and releases the queue.
LEMMA NotifyUnlockIInv ==
    ASSUME NEW t \in Tasks, IInv, NotifyUnlock(t)
    PROVE  IInv'
  <1> USE NullFresh DEF IInv, Goto, Forget, word, queue, locals
  <1>1. TypeOK'
    BY Zenon DEF NotifyUnlock, TypeOK, Labels, Bits
  <1>2. OwnerRecorded' /\ LockedByExactlyOne'
    BY DEF NotifyUnlock, TypeOK, OwnerRecorded, LockedByExactlyOne, WordKnown, Owns, Releasing, Bits
  <1>3. CondHeld'
    BY Zenon DEF NotifyUnlock, TypeOK, CondHeld
  <1>4. WordKnown' /\ ParkedBitSet'
    BY Zenon DEF NotifyUnlock, TypeOK, LockedByExactlyOne, CondHeld, WordKnown, ParkedBitSet, Owns, Releasing, Bits
  <1>5. BatonPassed' /\ NoStrandedWaiter'
    BY DEF NotifyUnlock, TypeOK, LockedByExactlyOne, CondHeld, WordKnown, BatonPassed, NoStrandedWaiter, Headed, Owns, Releasing, Bits
  <1>6. OneWake'
    BY Zenon DEF NotifyUnlock, TypeOK, OneWake, Parking
  <1>7. EntriesLinkedOnce'
    BY DEF NotifyUnlock, TypeOK, OneWake, EntriesLinkedOnce, Parking
  <1>8. FinalizersBalanced'
    BY Zenon DEF NotifyUnlock, TypeOK, OwnerRecorded, LockedByExactlyOne, FinalizersBalanced, Owns, Releasing
  <1>9. OnlyCancelled'
    BY Zenon DEF NotifyUnlock, TypeOK, OneWake, OnlyCancelled, Refused, Parking
  <1> QED
    BY <1>1, <1>2, <1>3, <1>4, <1>5, <1>6, <1>7, <1>8, <1>9

\* The token is cancelled.
LEMMA CancelIInv ==
    ASSUME IInv, Cancel
    PROVE  IInv'
  <1> USE NullFresh DEF IInv, Goto, Forget, word, queue, locals
  <1>1. TypeOK'
    BY Zenon DEF Cancel, TypeOK, Labels, Bits
  <1>2. OwnerRecorded' /\ LockedByExactlyOne'
    BY Zenon DEF Cancel, TypeOK, OwnerRecorded, LockedByExactlyOne, WordKnown, Owns, Releasing, Bits
  <1>3. CondHeld'
    BY Zenon DEF Cancel, TypeOK, CondHeld
  <1>4. WordKnown' /\ ParkedBitSet'
    BY Zenon DEF Cancel, TypeOK, LockedByExactlyOne, CondHeld, WordKnown, ParkedBitSet, Owns, Releasing, Bits
  <1>5. BatonPassed' /\ NoStrandedWaiter'
    BY Zenon DEF Cancel, TypeOK, LockedByExactlyOne, CondHeld, WordKnown, BatonPassed, NoStrandedWaiter, Headed, Owns, Releasing, Bits
  <1>6. OneWake'
    BY Zenon DEF Cancel, TypeOK, OneWake, Parking
  <1>7. EntriesLinkedOnce'
    BY Zenon DEF Cancel, TypeOK, OneWake, EntriesLinkedOnce, Parking
  <1>8. FinalizersBalanced'
    BY Zenon DEF Cancel, TypeOK, FinalizersBalanced, Owns, Releasing
  <1>9. OnlyCancelled'
    BY Zenon DEF Cancel, TypeOK, OneWake, OnlyCancelled, Refused, Parking
  <1> QED
    BY Zenon, <1>1, <1>2, <1>3, <1>4, <1>5, <1>6, <1>7, <1>8, <1>9

\* The walk claims a parked task,
LEMMA WalkClaimIInv ==
    ASSUME NEW t \in Tasks, IInv, WalkClaim(t)
    PROVE  IInv'
  <1> USE NullFresh DEF IInv, Goto, Forget, word, queue, locals
  <1>1. TypeOK'
    BY Zenon DEF WalkClaim, TypeOK, Labels, Bits
  <1>2. OwnerRecorded' /\ LockedByExactlyOne'
    BY Zenon DEF WalkClaim, TypeOK, OwnerRecorded, LockedByExactlyOne, WordKnown, Owns, Releasing, Bits
  <1>3. CondHeld'
    BY Zenon DEF WalkClaim, TypeOK, CondHeld
  <1>4. WordKnown' /\ ParkedBitSet'
    BY Zenon DEF WalkClaim, TypeOK, LockedByExactlyOne, CondHeld, WordKnown, ParkedBitSet, Owns, Releasing, Bits
  <1>5. BatonPassed' /\ NoStrandedWaiter'
    BY Zenon DEF WalkClaim, TypeOK, LockedByExactlyOne, CondHeld, WordKnown, BatonPassed, NoStrandedWaiter, Headed, Owns, Releasing, Bits
  <1>6. OneWake'
    BY Zenon DEF WalkClaim, TypeOK, OneWake, Parking
  <1>7. EntriesLinkedOnce'
    BY Zenon DEF WalkClaim, TypeOK, OneWake, EntriesLinkedOnce, Parking
  <1>8. FinalizersBalanced'
    BY Zenon DEF WalkClaim, TypeOK, FinalizersBalanced, Owns, Releasing
  <1>9. OnlyCancelled'
    BY Zenon DEF WalkClaim, TypeOK, OneWake, OnlyCancelled, Refused, Parking
  <1> QED
    BY <1>1, <1>2, <1>3, <1>4, <1>5, <1>6, <1>7, <1>8, <1>9

\* and wakes it.
LEMMA DeliverIInv ==
    ASSUME NEW t \in Tasks, IInv, Deliver(t)
    PROVE  IInv'
  <1> USE NullFresh DEF IInv, Goto, Forget, word, queue, locals
  <1>1. TypeOK'
    <2>0. Distinct(waitq)
      BY Zenon DEF EntriesLinkedOnce, Distinct
    <2>1. /\ Unlink(waitq, t) \in Seq(Tasks)
          /\ Distinct(Unlink(waitq, t))
          /\ \A u \in Tasks : Linked(Unlink(waitq, t), u) <=> Linked(waitq, u) /\ u # t
      BY Zenon, <2>0, UnlinkEntry DEF TypeOK
    <2> QED
      BY Zenon, <2>1 DEF Deliver, Rearmed, TypeOK
  <1>2. OwnerRecorded' /\ LockedByExactlyOne'
    BY Zenon DEF Deliver, Rearmed, TypeOK, OwnerRecorded, LockedByExactlyOne, WordKnown, Owns, Releasing, Bits
  <1>3. CondHeld'
    BY Zenon DEF Deliver, Rearmed, TypeOK, CondHeld
  <1>4. WordKnown' /\ ParkedBitSet'
    BY Zenon DEF Deliver, Rearmed, TypeOK, LockedByExactlyOne, CondHeld, WordKnown, ParkedBitSet, Owns, Releasing, Bits
  <1>5. BatonPassed' /\ NoStrandedWaiter'
    <2>1. \A u \in Tasks : (Headed(u) => Headed(u)') /\ (Owns(u) => Owns(u)')
      BY Zenon DEF Deliver, Rearmed, TypeOK, OneWake, Headed, Owns, Releasing
    <2> QED
      BY Zenon, <2>1 DEF Deliver, Rearmed, TypeOK, BatonPassed, NoStrandedWaiter
  <1>6. OneWake'
    <2>1. t \notin waiting_on /\ wake[t] = Null /\ t \in towake /\ Parking(t)
      BY Zenon DEF Deliver, OneWake
    <2>2. /\ waiting_on' = waiting_on /\ towake' = towake \ {t} /\ pc' = pc
          /\ wake' = [wake EXCEPT ![t] = "cancel"]
      BY Zenon, <2>1 DEF Deliver, Rearmed
    <2>3. \A u \in Tasks : Parking(u)' <=> Parking(u)
      BY Zenon, <2>2 DEF Parking
    <2>4. wake'[t] # Null
      BY Zenon, <2>2 DEF TypeOK
    <2> QED
      BY <2>1, <2>2, <2>3, <2>4 DEF OneWake, TypeOK
  <1>7. EntriesLinkedOnce'
    <2>0. Distinct(waitq)
      BY Zenon DEF EntriesLinkedOnce, Distinct
    <2>1. /\ Unlink(waitq, t) \in Seq(Tasks)
          /\ Distinct(Unlink(waitq, t))
          /\ \A u \in Tasks : Linked(Unlink(waitq, t), u) <=> Linked(waitq, u) /\ u # t
      BY Zenon, <2>0, UnlinkEntry DEF TypeOK
    <2>2. t \notin waiting_on
      BY Zenon DEF Deliver, OneWake
    <2> QED
      BY <2>0, <2>1, <2>2 DEF Deliver, Rearmed, TypeOK, EntriesLinkedOnce, Parking, Distinct
  <1>8. FinalizersBalanced'
    BY Zenon DEF Deliver, Rearmed, TypeOK, FinalizersBalanced, Owns, Releasing
  <1>9. OnlyCancelled'
    BY Zenon DEF Deliver, Rearmed, TypeOK, OneWake, OnlyCancelled, Refused, Parking
  <1> QED
    BY <1>1, <1>2, <1>3, <1>4, <1>5, <1>6, <1>7, <1>8, <1>9

-----------------------------------------------------------------------------
\* Every step preserves the invariant.
LEMMA NextIInv == IInv /\ [Next]_vars => IInv'
  <1> SUFFICES ASSUME IInv, [Next]_vars PROVE IInv'
    BY Zenon
  <1>1. CASE Cancel
    BY Zenon, <1>1, CancelIInv
  <1>2. ASSUME NEW t \in Tasks, Step(t) PROVE IInv'
    BY <1>2, TryLockCASIInv, TryLockFailIInv, TryLockOwnIInv, SpinIInv, BargeIInv,
       BargeOwnIInv, RefuseIInv, SetParkedIInv, LockCondIInv,
       CheckIInv, ParkIInv, RecheckIInv, ReleaseIInv, ResumeIInv,
       CleanupIInv, UnlockCASIInv, NotifyLockIInv, NotifyIInv,
       StoreIInv, NotifyUnlockIInv DEF Step
  <1>3. ASSUME NEW t \in Tasks, Call(t) PROVE IInv'
    BY Zenon, <1>3, ReenterIInv, UnlockIInv, TryLockIInv DEF Call
  <1>4. ASSUME NEW t \in Tasks, WalkClaim(t) \/ Deliver(t) PROVE IInv'
    BY Zenon, <1>4, WalkClaimIInv, DeliverIInv
  <1>5. CASE UNCHANGED vars
    <2>1. /\ havelock' = havelock /\ locked_by' = locked_by
          /\ reentrancy_cnt' = reentrancy_cnt /\ cond_lock' = cond_lock
          /\ waitq' = waitq /\ waiting_on' = waiting_on /\ towake' = towake
          /\ wake' = wake /\ cancelled' = cancelled /\ pc' = pc /\ state' = state
          /\ iteration' = iteration /\ mode' = mode /\ inhibited' = inhibited
      BY Zenon, <1>5 DEF vars, word, queue, locals
    <2>2. TypeOK' /\ OwnerRecorded' /\ CondHeld' /\ WordKnown'
      BY Zenon, <2>1 DEF IInv, TypeOK, OwnerRecorded, CondHeld, WordKnown
    <2>3. LockedByExactlyOne' /\ ParkedBitSet' /\ FinalizersBalanced'
      BY Zenon, <2>1 DEF IInv, LockedByExactlyOne, ParkedBitSet, FinalizersBalanced, Owns
    <2>4. BatonPassed' /\ NoStrandedWaiter'
      BY Zenon, <2>1 DEF IInv, BatonPassed, NoStrandedWaiter, Headed, Owns
    <2>5. OneWake' /\ EntriesLinkedOnce' /\ OnlyCancelled'
      BY Zenon, <2>1 DEF IInv, OneWake, EntriesLinkedOnce, OnlyCancelled, Parking, Refused
    <2> QED
      BY <2>2, <2>3, <2>4, <2>5 DEF IInv
  <1> QED
    BY Zenon, <1>1, <1>2, <1>3, <1>4, <1>5 DEF Next

(* The inductive invariant holds in every state of lock, trylock, unlock and *)
(* cancel!.                                                                  *)
THEOREM InvariantHolds == Spec => []IInv
  BY InitIInv, NextIInv, PTL DEF Spec

(* Every variable of the lock keeps its type.                                *)
THEOREM LockTypeCorrect == Spec => []TypeOK
  <1>1. IInv => TypeOK
    BY Zenon DEF IInv
  <1> QED
    BY <1>1, InvariantHolds, PTL

(* Mutual exclusion: at most one task is between the compare-and-swap that  *)
(* sets LOCKED_BIT and the operation that clears it.                        *)
THEOREM LockMutualExclusion == Spec => []LockedByExactlyOne
  <1>1. IInv => LockedByExactlyOne
    BY Zenon DEF IInv
  <1> QED
    BY <1>1, InvariantHolds, PTL

(* The claim in the comments of slowlock: a task that can still be woken is *)
(* parked only while PARKED_BIT is set.                                     *)
THEOREM ParkedBitNeverLost == Spec => []ParkedBitSet
  <1>1. IInv => ParkedBitSet
    BY Zenon DEF IInv
  <1> QED
    BY <1>1, InvariantHolds, PTL

(* unlock drops no baton: while a task is parked, the lock is owned or some *)
(* task is on its way to it.                                                *)
THEOREM BatonNeverDropped == Spec => []NoStrandedWaiter
  <1>1. IInv => NoStrandedWaiter
    BY Zenon DEF IInv
  <1> QED
    BY <1>1, InvariantHolds, PTL

(* notify, the walk of cancel! and the self-claim of park! wake a parked    *)
(* task once between them.                                                  *)
THEOREM ExactlyOneWake == Spec => []OneWake
  <1>1. IInv => OneWake
    BY Zenon DEF IInv
  <1> QED
    BY <1>1, InvariantHolds, PTL

(* slowlock never pushes an entry that is still linked in cond_wait.        *)
THEOREM EntryNeverRelinked == Spec => []EntriesLinkedOnce
  <1>1. IInv => EntriesLinkedOnce
    BY Zenon DEF IInv
  <1> QED
    BY <1>1, InvariantHolds, PTL

(* Every path through lock and unlock leaves finalizers as it found them.   *)
THEOREM FinalizersRestored == Spec => []FinalizersBalanced
  <1>1. IInv => FinalizersBalanced
    BY Zenon DEF IInv
  <1> QED
    BY <1>1, InvariantHolds, PTL

-----------------------------------------------------------------------------
(* The lock of base/lock.jl implements the abstract lock of Mutex: every     *)
(* step is a step of the abstract lock, or leaves what its callers see       *)
(* unchanged.                                                                *)

(* What the abstract owner and the abstract depth are in a concrete state.   *)
LEMMA AbstractOwner ==
    ASSUME IInv
    PROVE  /\ \A t \in Tasks : Owns(t) => owner = t /\ LOCKED_BIT \in havelock
           /\ (\A t \in Tasks : ~Owns(t)) => owner = Null /\ LOCKED_BIT \notin havelock
           /\ \A t \in Tasks : Owns(t) /\ locked_by # t => locked_by = Null
  BY Zenon DEF IInv, TypeOK, LockedByExactlyOne, owner, Owns

(* The same in the state after a step.                                       *)
LEMMA AbstractOwnerAfter ==
    ASSUME IInv'
    PROVE  /\ \A t \in Tasks : Owns(t)' => owner' = t /\ LOCKED_BIT \in havelock'
           /\ (\A t \in Tasks : ~Owns(t)') => owner' = Null /\ LOCKED_BIT \notin havelock'
           /\ \A t \in Tasks : Owns(t)' /\ locked_by' # t => locked_by' = Null
  BY Zenon DEF IInv, TypeOK, LockedByExactlyOne, owner, Owns

(* A step that changes neither the owner, nor the levels, nor the calls in  *)
(* progress is a stuttering step of the abstract lock.                       *)
LEMMA Stutters ==
    ASSUME IInv, IInv', \A u \in Tasks : Owns(u)' <=> Owns(u),
           depth' = depth, asking' = asking, cancelled' = cancelled
    PROVE  UNCHANGED Abs!vars
  <1>1. owner' = owner
    BY Zenon, AbstractOwner, AbstractOwnerAfter
  <1> QED
    BY Zenon, <1>1 DEF Abs!vars

\* The abstract lock does not see recording the owner.
LEMMA TryLockOwnSim ==
    ASSUME NEW t \in Tasks, IInv, IInv', TryLockOwn(t)
    PROVE  UNCHANGED Abs!vars
  <1> USE NullFresh DEF Goto, Forget, word, queue, locals
  <1>1. \A u \in Tasks : Owns(u)' <=> Owns(u)
    BY AbstractOwner DEF TryLockOwn, IInv, TypeOK, OwnerRecorded, Owns, Releasing
  <1>2. depth' = depth
    BY Zenon, <1>1, AbstractOwner, AbstractOwnerAfter
       DEF TryLockOwn, IInv, TypeOK, OwnerRecorded, Owns, Releasing, depth
  <1>3. asking' = asking
    BY Zenon DEF TryLockOwn, IInv, TypeOK, asking, Asking
  <1> QED
    BY <1>1, <1>2, <1>3, Stutters DEF TryLockOwn

\* The abstract lock does not see a look at the bits.
LEMMA SpinSim ==
    ASSUME NEW t \in Tasks, IInv, IInv', Spin(t)
    PROVE  UNCHANGED Abs!vars
  <1> USE NullFresh DEF Goto, Forget, word, queue, locals
  <1>1. \A u \in Tasks : Owns(u)' <=> Owns(u)
    BY AbstractOwner DEF Spin, IInv, TypeOK, OwnerRecorded, Owns, Releasing
  <1>2. depth' = depth
    BY Zenon, <1>1, AbstractOwner, AbstractOwnerAfter
       DEF Spin, IInv, TypeOK, OwnerRecorded, Owns, Releasing, depth
  <1>3. asking' = asking
    BY ZenonT(30) DEF Spin, IInv, TypeOK, asking, Asking
  <1> QED
    BY SMTT(30), <1>1, <1>2, <1>3, Stutters DEF Spin

\* The abstract lock does not see recording the owner in slowlock.
LEMMA BargeOwnSim ==
    ASSUME NEW t \in Tasks, IInv, IInv', BargeOwn(t)
    PROVE  UNCHANGED Abs!vars
  <1> USE NullFresh DEF Goto, Forget, word, queue, locals
  <1>1. \A u \in Tasks : Owns(u)' <=> Owns(u)
    BY AbstractOwner DEF BargeOwn, IInv, TypeOK, OwnerRecorded, Owns, Releasing
  <1>2. depth' = depth
    BY Zenon, <1>1, AbstractOwner, AbstractOwnerAfter
       DEF BargeOwn, IInv, TypeOK, OwnerRecorded, Owns, Releasing, depth
  <1>3. asking' = asking
    BY Zenon DEF BargeOwn, IInv, TypeOK, asking, Asking
  <1> QED
    BY Zenon, <1>1, <1>2, <1>3, Stutters DEF BargeOwn

\* The abstract lock does not see the decision to give the lock up.
LEMMA RefuseSim ==
    ASSUME NEW t \in Tasks, IInv, IInv', Refuse(t)
    PROVE  UNCHANGED Abs!vars
  <1> USE NullFresh DEF Goto, Forget, word, queue, locals
  <1>1. \A u \in Tasks : Owns(u)' <=> Owns(u)
    BY AbstractOwner DEF Refuse, IInv, TypeOK, OwnerRecorded, Owns, Releasing
  <1>2. depth' = depth
    BY Zenon, <1>1, AbstractOwner, AbstractOwnerAfter
       DEF Refuse, IInv, TypeOK, OwnerRecorded, Owns, Releasing, depth
  <1>3. asking' = asking
    BY SMTT(30) DEF Refuse, IInv, TypeOK, asking, Asking
  <1> QED
    BY <1>1, <1>2, <1>3, Stutters DEF Refuse

\* The abstract lock does not see announcing a parked task.
LEMMA SetParkedSim ==
    ASSUME NEW t \in Tasks, IInv, IInv', SetParked(t)
    PROVE  UNCHANGED Abs!vars
  <1> USE NullFresh DEF Goto, Forget, word, queue, locals
  <1>1. \A u \in Tasks : Owns(u)' <=> Owns(u)
    BY AbstractOwner DEF SetParked, IInv, TypeOK, OwnerRecorded, Owns, Releasing
  <1>2. depth' = depth
    BY Zenon, <1>1, AbstractOwner, AbstractOwnerAfter
       DEF SetParked, IInv, TypeOK, OwnerRecorded, Owns, Releasing, depth
  <1>3. asking' = asking
    BY Zenon DEF SetParked, IInv, TypeOK, asking, Asking
  <1> QED
    BY Zenon, <1>1, <1>2, <1>3, Stutters DEF SetParked

\* The abstract lock does not see locking the queue.
LEMMA LockCondSim ==
    ASSUME NEW t \in Tasks, IInv, IInv', LockCond(t)
    PROVE  UNCHANGED Abs!vars
  <1> USE NullFresh DEF Goto, Forget, word, queue, locals
  <1>1. \A u \in Tasks : Owns(u)' <=> Owns(u)
    BY AbstractOwner DEF LockCond, IInv, TypeOK, OwnerRecorded, Owns, Releasing
  <1>2. depth' = depth
    BY Zenon, <1>1, AbstractOwner, AbstractOwnerAfter
       DEF LockCond, IInv, TypeOK, OwnerRecorded, Owns, Releasing, depth
  <1>3. asking' = asking
    BY Zenon DEF LockCond, IInv, TypeOK, asking, Asking
  <1> QED
    BY <1>1, <1>2, <1>3, Stutters DEF LockCond

\* The abstract lock does not see the last look.
LEMMA CheckSim ==
    ASSUME NEW t \in Tasks, IInv, IInv', Check(t)
    PROVE  UNCHANGED Abs!vars
  <1> USE NullFresh DEF Goto, Forget, word, queue, locals
  <1>1. \A u \in Tasks : Owns(u)' <=> Owns(u)
    BY AbstractOwner DEF Check, IInv, TypeOK, OwnerRecorded, Owns, Releasing
  <1>2. depth' = depth
    BY Zenon, <1>1, AbstractOwner, AbstractOwnerAfter
       DEF Check, IInv, TypeOK, OwnerRecorded, Owns, Releasing, depth
  <1>3. asking' = asking
    BY SMTT(30) DEF Check, IInv, TypeOK, asking, Asking
  <1> QED
    BY SMTT(30), <1>1, <1>2, <1>3, Stutters DEF Check

\* The abstract lock does not see parking.
LEMMA ParkSim ==
    ASSUME NEW t \in Tasks, IInv, IInv', Park(t)
    PROVE  UNCHANGED Abs!vars
  <1> USE NullFresh DEF Goto, Forget, word, queue, locals
  <1>1. \A u \in Tasks : Owns(u)' <=> Owns(u)
    BY AbstractOwner DEF Park, IInv, TypeOK, OwnerRecorded, Owns, Releasing
  <1>2. depth' = depth
    BY Zenon, <1>1, AbstractOwner, AbstractOwnerAfter
       DEF Park, IInv, TypeOK, OwnerRecorded, Owns, Releasing, depth
  <1>3. asking' = asking
    BY Zenon DEF Park, IInv, TypeOK, asking, Asking
  <1> QED
    BY Zenon, <1>1, <1>2, <1>3, Stutters DEF Park

\* The abstract lock does not see falling asleep.
LEMMA ReleaseSim ==
    ASSUME NEW t \in Tasks, IInv, IInv', Release(t)
    PROVE  UNCHANGED Abs!vars
  <1> USE NullFresh DEF Goto, Forget, word, queue, locals
  <1>1. \A u \in Tasks : Owns(u)' <=> Owns(u)
    BY AbstractOwner DEF Release, IInv, TypeOK, OwnerRecorded, Owns, Releasing
  <1>2. depth' = depth
    BY Zenon, <1>1, AbstractOwner, AbstractOwnerAfter
       DEF Release, IInv, TypeOK, OwnerRecorded, Owns, Releasing, depth
  <1>3. asking' = asking
    BY Zenon DEF Release, IInv, TypeOK, asking, Asking
  <1> QED
    BY <1>1, <1>2, <1>3, Stutters DEF Release

\* The abstract lock does not see waking up.
LEMMA ResumeSim ==
    ASSUME NEW t \in Tasks, IInv, IInv', Resume(t)
    PROVE  UNCHANGED Abs!vars
  <1> USE NullFresh DEF Goto, Forget, word, queue, locals
  <1>1. \A u \in Tasks : Owns(u)' <=> Owns(u)
    BY AbstractOwner DEF Resume, IInv, TypeOK, OwnerRecorded, Owns, Releasing
  <1>2. depth' = depth
    BY Zenon, <1>1, AbstractOwner, AbstractOwnerAfter
       DEF Resume, IInv, TypeOK, OwnerRecorded, Owns, Releasing, depth
  <1>3. asking' = asking
    BY SMTT(30) DEF Resume, IInv, TypeOK, asking, Asking
  <1> QED
    BY <1>1, <1>2, <1>3, Stutters DEF Resume

\* The abstract lock does not see locking the queue in unlock.
LEMMA NotifyLockSim ==
    ASSUME NEW t \in Tasks, IInv, IInv', NotifyLock(t)
    PROVE  UNCHANGED Abs!vars
  <1> USE NullFresh DEF Goto, Forget, word, queue, locals
  <1>1. \A u \in Tasks : Owns(u)' <=> Owns(u)
    BY AbstractOwner DEF NotifyLock, IInv, TypeOK, OwnerRecorded, Owns, Releasing
  <1>2. depth' = depth
    BY Zenon, <1>1, AbstractOwner, AbstractOwnerAfter
       DEF NotifyLock, IInv, TypeOK, OwnerRecorded, Owns, Releasing, depth
  <1>3. asking' = asking
    BY Zenon DEF NotifyLock, IInv, TypeOK, asking, Asking
  <1> QED
    BY Zenon, <1>1, <1>2, <1>3, Stutters DEF NotifyLock

\* The abstract lock does not see choosing whom to wake.
LEMMA NotifySim ==
    ASSUME NEW t \in Tasks, IInv, IInv', Notify(t)
    PROVE  UNCHANGED Abs!vars
  <1> USE NullFresh DEF Goto, Forget, word, queue, locals
  <1>1. \A u \in Tasks : Owns(u)' <=> Owns(u)
    BY AbstractOwner DEF Notify, IInv, TypeOK, OwnerRecorded, Owns, Releasing
  <1>2. depth' = depth
    BY Zenon, <1>1, AbstractOwner, AbstractOwnerAfter
       DEF Notify, IInv, TypeOK, OwnerRecorded, Owns, Releasing, depth
  <1>3. asking' = asking
    BY Zenon DEF Notify, IInv, TypeOK, asking, Asking
  <1> QED
    BY SMTT(30), <1>1, <1>2, <1>3, Stutters DEF Notify

\* The abstract lock does not see releasing the queue.
LEMMA NotifyUnlockSim ==
    ASSUME NEW t \in Tasks, IInv, IInv', NotifyUnlock(t)
    PROVE  UNCHANGED Abs!vars
  <1> USE NullFresh DEF Goto, Forget, word, queue, locals
  <1>1. \A u \in Tasks : Owns(u)' <=> Owns(u)
    BY AbstractOwner DEF NotifyUnlock, IInv, TypeOK, OwnerRecorded, Owns, Releasing
  <1>2. depth' = depth
    BY Zenon, <1>1, AbstractOwner, AbstractOwnerAfter
       DEF NotifyUnlock, IInv, TypeOK, OwnerRecorded, Owns, Releasing, depth
  <1>3. asking' = asking
    BY Zenon DEF NotifyUnlock, IInv, TypeOK, asking, Asking
  <1> QED
    BY SMTT(30), <1>1, <1>2, <1>3, Stutters DEF NotifyUnlock

\* The abstract lock does not see a claim of the walk.
LEMMA WalkClaimSim ==
    ASSUME NEW t \in Tasks, IInv, IInv', WalkClaim(t)
    PROVE  UNCHANGED Abs!vars
  <1> USE NullFresh DEF Goto, Forget, word, queue, locals
  <1>1. \A u \in Tasks : Owns(u)' <=> Owns(u)
    BY Zenon, AbstractOwner DEF WalkClaim, IInv, TypeOK, OwnerRecorded, Owns, Releasing
  <1>2. depth' = depth
    BY Zenon, <1>1, AbstractOwner, AbstractOwnerAfter
       DEF WalkClaim, IInv, TypeOK, OwnerRecorded, Owns, Releasing, depth
  <1>3. asking' = asking
    BY Zenon DEF WalkClaim, IInv, TypeOK, asking, Asking
  <1> QED
    BY <1>1, <1>2, <1>3, Stutters DEF WalkClaim

\* The abstract lock does not see a delivery of the walk.
LEMMA DeliverSim ==
    ASSUME NEW t \in Tasks, IInv, IInv', Deliver(t)
    PROVE  UNCHANGED Abs!vars
  <1> USE NullFresh DEF Goto, Forget, word, queue, locals
  <1>1. \A u \in Tasks : Owns(u)' <=> Owns(u)
    BY Zenon, AbstractOwner DEF Deliver, IInv, TypeOK, OwnerRecorded, Owns, Releasing
  <1>2. depth' = depth
    BY Zenon, <1>1, AbstractOwner, AbstractOwnerAfter
       DEF Deliver, IInv, TypeOK, OwnerRecorded, Owns, Releasing, depth
  <1>3. asking' = asking
    BY Zenon DEF Deliver, IInv, TypeOK, asking, Asking
  <1> QED
    BY Zenon, <1>1, <1>2, <1>3, Stutters DEF Deliver

(* The steps that change what the callers see.                               *)
LEMMA TryLockSim ==
    ASSUME NEW t \in Tasks, NEW m \in Calls[t], IInv, IInv', TryLock(t, m)
    PROVE  \E k \in {"trylock", "lock", "lock_token"} : Abs!Ask(t, k)
  <1> USE NullFresh DEF Goto, Forget, word, queue, locals
  <1>1. \A u \in Tasks : Owns(u)' <=> Owns(u)
    BY Zenon DEF TryLock, IInv, TypeOK, Owns, Releasing
  <1>2. owner' = owner /\ depth' = depth
    BY Zenon, <1>1, AbstractOwner, AbstractOwnerAfter DEF TryLock, depth
  <1>3. owner # t
    BY Zenon, AbstractOwner DEF TryLock, IInv, TypeOK, Owns, Releasing, owner
  <1>4. asking[t] = Null /\ asking' = [asking EXCEPT ![t] = m]
    BY Zenon DEF TryLock, IInv, TypeOK, asking, Asking
  <1> QED
    BY Zenon, <1>2, <1>3, <1>4, CallsKnown DEF TryLock, Modes, Abs!Ask

\* Setting LOCKED_BIT is the acquisition,
LEMMA TryLockCASSim ==
    ASSUME NEW t \in Tasks, IInv, IInv', TryLockCAS(t)
    PROVE  Abs!Acquire(t)
  <1> USE NullFresh DEF Goto, Forget, word, queue, locals
  <1>1. \A u \in Tasks : ~Owns(u)
    BY Zenon, AbstractOwner DEF TryLockCAS, IInv, WordKnown
  <1>2. Owns(t)' /\ locked_by' = Null
    BY Zenon, <1>1, AbstractOwner DEF TryLockCAS, IInv, TypeOK, Owns, Releasing
  <1>3. owner = Null /\ owner' = t /\ depth' = 1
    BY Zenon, <1>1, <1>2, AbstractOwner, AbstractOwnerAfter DEF depth
  <1>4. asking[t] # Null /\ asking' = [asking EXCEPT ![t] = Null]
    BY Zenon DEF TryLockCAS, IInv, TypeOK, Modes, asking, Asking
  <1> QED
    BY Zenon, <1>3, <1>4 DEF TryLockCAS, Abs!Acquire

\* in slowlock too.
LEMMA BargeSim ==
    ASSUME NEW t \in Tasks, IInv, IInv', Barge(t)
    PROVE  Abs!Acquire(t) \/ UNCHANGED Abs!vars
  <1> USE NullFresh DEF Goto, Forget, word, queue, locals
  <1>1. CASE havelock = state[t]
    <2>1. \A u \in Tasks : ~Owns(u)
      BY Zenon, <1>1, AbstractOwner DEF Barge, IInv, WordKnown
    <2>2. Owns(t)' /\ locked_by' = Null
      BY Zenon, <1>1, <2>1, AbstractOwner DEF Barge, IInv, TypeOK, Owns, Releasing
    <2>3. owner = Null /\ owner' = t /\ depth' = 1
      BY <2>1, <2>2, AbstractOwner, AbstractOwnerAfter DEF depth
    <2>4. asking[t] # Null /\ asking' = [asking EXCEPT ![t] = Null]
      BY ZenonT(60), <1>1 DEF Barge, IInv, TypeOK, Modes, asking, Asking
    <2> QED
      BY Zenon, <2>3, <2>4 DEF Barge, Abs!Acquire
  <1>2. CASE havelock # state[t]
    <2>1. \A u \in Tasks : Owns(u)' <=> Owns(u)
      BY <1>2 DEF Barge, IInv, TypeOK, Owns, Releasing
    <2>2. depth' = depth
      BY Zenon, <1>2 DEF Barge, depth
    <2>3. asking' = asking
      BY <1>2 DEF Barge, IInv, TypeOK, asking, Asking
    <2> QED
      BY Zenon, <2>1, <2>2, <2>3, Stutters DEF Barge
  <1> QED
    BY Zenon, <1>1, <1>2

\* A failed trylock returns without the lock.
LEMMA TryLockFailSim ==
    ASSUME NEW t \in Tasks, IInv, IInv', TryLockFail(t)
    PROVE  Abs!GiveUp(t) \/ UNCHANGED Abs!vars
  <1> USE NullFresh DEF Goto, Forget, word, queue, locals
  <1>1. \A u \in Tasks : Owns(u)' <=> Owns(u)
    BY Zenon DEF TryLockFail, IInv, TypeOK, Owns, Releasing
  <1>2. owner' = owner /\ depth' = depth
    BY Zenon, <1>1, AbstractOwner, AbstractOwnerAfter DEF TryLockFail, depth
  <1>3. CASE mode[t] = "trylock"
    <2>1. asking[t] = "trylock"
      BY Zenon, <1>3 DEF TryLockFail, IInv, TypeOK, Disarmed, Refused, asking, Asking
    <2>2. asking' = [asking EXCEPT ![t] = Null]
      BY Zenon, <1>3 DEF TryLockFail, IInv, TypeOK, asking, Asking
    <2> QED
      BY Zenon, <1>2, <2>1, <2>2 DEF TryLockFail, Abs!GiveUp
  <1>4. CASE mode[t] # "trylock"
    <2>1. asking' = asking
      BY Zenon, <1>4 DEF TryLockFail, IInv, TypeOK, asking, Asking
    <2> QED
      BY <1>1, <1>2, <2>1, Stutters DEF TryLockFail
  <1> QED
    BY Zenon, <1>3, <1>4

\* A cancelled wait returns without the lock,
LEMMA RecheckSim ==
    ASSUME NEW t \in Tasks, IInv, IInv', Recheck(t)
    PROVE  Abs!GiveUp(t) \/ UNCHANGED Abs!vars
  <1> USE NullFresh DEF Goto, Forget, word, queue, locals
  <1>1. \A u \in Tasks : Owns(u)' <=> Owns(u)
    BY DEF Recheck, IInv, TypeOK, Owns, Releasing
  <1>2. owner' = owner /\ depth' = depth
    BY Zenon, <1>1, AbstractOwner, AbstractOwnerAfter DEF Recheck, depth
  <1>3. CASE Disarmed(t)
    <2>1. asking[t] = "lock_token" /\ cancelled
      BY Zenon, <1>3 DEF Recheck, IInv, TypeOK, Disarmed, Refused, asking, Asking
    <2>2. asking' = [asking EXCEPT ![t] = Null]
      BY ZenonT(60), <1>3 DEF Recheck, IInv, TypeOK, asking, Asking
    <2> QED
      BY Zenon, <1>2, <2>1, <2>2 DEF Recheck, Abs!GiveUp
  <1>4. CASE ~Disarmed(t)
    <2>1. asking' = asking
      BY Zenon, <1>4 DEF Recheck, IInv, TypeOK, asking, Asking
    <2> QED
      BY Zenon, <1>1, <1>2, <2>1, Stutters DEF Recheck
  <1> QED
    BY Zenon, <1>3, <1>4

\* and so does an interrupted one.
LEMMA CleanupSim ==
    ASSUME NEW t \in Tasks, IInv, IInv', Cleanup(t)
    PROVE  Abs!GiveUp(t) \/ UNCHANGED Abs!vars
  <1> USE NullFresh DEF Goto, Forget, word, queue, locals
  <1>1. \A u \in Tasks : Owns(u)' <=> Owns(u)
    BY Zenon DEF Cleanup, IInv, TypeOK, Owns, Releasing
  <1>2. owner' = owner /\ depth' = depth
    BY Zenon, <1>1, AbstractOwner, AbstractOwnerAfter DEF Cleanup, depth
  <1>3. asking[t] = "lock_token" /\ cancelled
    BY Zenon DEF Cleanup, IInv, TypeOK, OnlyCancelled, Refused, asking, Asking
  <1>4. asking' = [asking EXCEPT ![t] = Null]
    BY Zenon DEF Cleanup, IInv, TypeOK, asking, Asking
  <1> QED
    BY <1>2, <1>3, <1>4 DEF Cleanup, Abs!GiveUp

\* The owner acquires a further level.
LEMMA ReenterSim ==
    ASSUME NEW t \in Tasks, IInv, IInv', Reenter(t)
    PROVE  Abs!Reenter(t)
  <1> USE NullFresh DEF Goto, Forget, word, queue, locals
  <1>1. \A u \in Tasks : Owns(u)' <=> Owns(u)
    BY Zenon DEF Reenter, Owns
  <1>2. owner = t /\ owner' = t /\ LOCKED_BIT \in havelock
    BY <1>1, AbstractOwner, AbstractOwnerAfter DEF Reenter, Owns
  <1>3. depth = reentrancy_cnt /\ depth' = depth + 1
    BY Zenon, <1>2 DEF Reenter, depth
  <1>4. asking' = asking
    BY Zenon DEF Reenter, asking
  <1> QED
    BY <1>2, <1>3, <1>4 DEF Reenter, Abs!Reenter

\* Giving up a level is one release, and so is
LEMMA UnlockSim ==
    ASSUME NEW t \in Tasks, IInv, IInv', Unlock(t)
    PROVE  Abs!Release(t) \/ UNCHANGED Abs!vars
  <1> USE NullFresh DEF Goto, Forget, word, queue, locals
  <1>1. \A u \in Tasks : Owns(u)' <=> Owns(u)
    BY SMTT(30) DEF Unlock, IInv, TypeOK, OwnerRecorded, Owns, Releasing
  <1>2. owner = t /\ owner' = t /\ LOCKED_BIT \in havelock
    BY Zenon, <1>1, AbstractOwner, AbstractOwnerAfter DEF Unlock, Owns
  <1>3. asking' = asking
    BY DEF Unlock, IInv, TypeOK, asking, Asking
  <1>4. CASE LastLevel(reentrancy_cnt)
    <2>1. depth = 1 /\ depth' = 1
      BY Zenon, <1>2, <1>4 DEF Unlock, LastLevel, depth
    <2> QED
      BY Zenon, <1>1, <1>3, <2>1, Stutters DEF Unlock
  <1>5. CASE ~LastLevel(reentrancy_cnt)
    <2>1. depth = reentrancy_cnt /\ depth' = depth - 1 /\ depth # 1
      BY Zenon, <1>2, <1>5 DEF Unlock, LastLevel, depth
    <2> QED
      BY Zenon, <1>2, <1>3, <2>1 DEF Unlock, Abs!Release
  <1> QED
    BY Zenon, <1>4, <1>5

\* the fast path of the last level,
LEMMA UnlockCASSim ==
    ASSUME NEW t \in Tasks, IInv, IInv', UnlockCAS(t)
    PROVE  Abs!Release(t) \/ UNCHANGED Abs!vars
  <1> USE NullFresh DEF Goto, Forget, word, queue, locals
  <1>1. CASE havelock = {LOCKED_BIT}
    <2>1. owner = t /\ locked_by = Null /\ LOCKED_BIT \in havelock
      BY Zenon, AbstractOwner DEF UnlockCAS, IInv, TypeOK, OwnerRecorded, Owns, Releasing
    <2>2. LOCKED_BIT \notin havelock'
      BY Zenon, <1>1 DEF UnlockCAS, LOCKED_BIT, PARKED_BIT
    <2>3. depth = 1 /\ depth' = 0
      BY Zenon, <2>1, <2>2 DEF depth
    <2>4. owner' = Null
      BY Zenon, <2>2, AbstractOwnerAfter
    <2>5. asking' = asking
      BY <1>1 DEF UnlockCAS, IInv, TypeOK, asking, Asking
    <2> QED
      BY <2>1, <2>3, <2>4, <2>5 DEF UnlockCAS, Abs!Release
  <1>2. CASE havelock # {LOCKED_BIT}
    <2>1. \A u \in Tasks : Owns(u)' <=> Owns(u)
      BY Zenon, <1>2 DEF UnlockCAS, IInv, TypeOK, Owns, Releasing
    <2>2. depth' = depth
      BY Zenon, <1>2 DEF UnlockCAS, depth
    <2>3. asking' = asking
      BY <1>2 DEF UnlockCAS, IInv, TypeOK, asking, Asking
    <2> QED
      BY Zenon, <2>1, <2>2, <2>3, Stutters DEF UnlockCAS
  <1> QED
    BY Zenon, <1>1, <1>2

\* or the store that frees a lock with parked tasks.
LEMMA StoreSim ==
    ASSUME NEW t \in Tasks, IInv, IInv', Store(t)
    PROVE  Abs!Release(t)
  <1> USE NullFresh DEF Goto, Forget, word, queue, locals
  <1>1. owner = t /\ locked_by = Null /\ LOCKED_BIT \in havelock
    BY Zenon, AbstractOwner DEF Store, IInv, TypeOK, OwnerRecorded, Owns, Releasing
  <1>2. LOCKED_BIT \notin havelock'
    BY Zenon DEF Store, Handover, LOCKED_BIT, PARKED_BIT
  <1>3. depth = 1 /\ depth' = 0
    BY Zenon, <1>1, <1>2 DEF depth
  <1>4. owner' = Null
    BY Zenon, <1>2, AbstractOwnerAfter
  <1>5. asking' = asking
    BY Zenon DEF Store, IInv, TypeOK, asking, Asking
  <1> QED
    BY <1>1, <1>3, <1>4, <1>5 DEF Store, Abs!Release

\* Cancelling the token is the abstract cancellation.
LEMMA CancelSim ==
    ASSUME IInv, IInv', Cancel
    PROVE  Abs!Cancel
  <1>1. owner' = owner /\ depth' = depth /\ asking' = asking
    BY Zenon DEF Cancel, owner, depth, asking, Owns, word, queue, locals
  <1> QED
    BY Zenon, <1>1 DEF Cancel, Abs!Cancel

\* The lock is free at first in both.
LEMMA InitSim == Init => Abs!Init
  <1> SUFFICES ASSUME Init PROVE Abs!Init
    BY Zenon
  <1> USE NullFresh DEF Init
  <1>1. owner = Null
    BY Zenon DEF owner, Owns, Releasing
  <1>2. depth = 0
    BY Zenon DEF depth
  <1>3. asking = [t \in Tasks |-> Null]
    BY Zenon DEF asking, Asking
  <1> QED
    BY Zenon, <1>1, <1>2, <1>3 DEF Abs!Init

\* Every step is one of the abstract lock, or invisible.
LEMMA NextSim == IInv /\ IInv' /\ [Next]_vars => [Abs!Next]_(Abs!vars)
  <1> SUFFICES ASSUME IInv, IInv', [Next]_vars PROVE [Abs!Next]_(Abs!vars)
    BY Zenon
  <1>1. CASE Cancel
    BY Zenon, <1>1, CancelSim DEF Abs!Next
  <1>2. ASSUME NEW t \in Tasks, Step(t) PROVE [Abs!Next]_(Abs!vars)
    <2>1. UNCHANGED Abs!vars \/ Abs!Acquire(t) \/ Abs!GiveUp(t) \/ Abs!Release(t)
      BY <1>2, TryLockCASSim, TryLockFailSim, TryLockOwnSim, SpinSim, BargeSim, BargeOwnSim,
         RefuseSim, SetParkedSim, LockCondSim, CheckSim, ParkSim, RecheckSim, ReleaseSim,
         ResumeSim, CleanupSim, UnlockCASSim, NotifyLockSim, NotifySim, StoreSim,
         NotifyUnlockSim DEF Step
    <2> QED
      BY Zenon, <2>1 DEF Abs!Next
  <1>3. ASSUME NEW t \in Tasks, Call(t) PROVE [Abs!Next]_(Abs!vars)
    BY Zenon, <1>3, ReenterSim, UnlockSim, TryLockSim DEF Call, Abs!Next
  <1>4. ASSUME NEW t \in Tasks, WalkClaim(t) \/ Deliver(t) PROVE [Abs!Next]_(Abs!vars)
    BY Zenon, <1>4, WalkClaimSim, DeliverSim
  <1>5. CASE UNCHANGED vars
    BY Zenon, <1>5 DEF Abs!vars, vars, word, queue, locals, owner, depth, asking, Owns
  <1> QED
    BY Zenon, <1>1, <1>2, <1>3, <1>4, <1>5 DEF Next

(* trylock, slowlock, unlock and the cancellation of a parked acquisition    *)
(* implement the abstract reentrant lock, for any number of tasks.           *)
THEOREM RefinesMutex == Spec => ImplementsMutex
  BY InvariantHolds, InitSim, NextSim, PTL DEF Spec, ImplementsMutex, Abs!Spec
=============================================================================
