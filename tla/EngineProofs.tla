---------------------------- MODULE EngineProofs ----------------------------
(* Proofs about Engine, for every number of threads, keys and placeholders. *)
EXTENDS Engine, FiniteSetTheorems, TLAPS

(* How a thread's place in jl_engine_reserve determines its other state.    *)
(* ci is set from entry to return; awaiting is set while the thread sleeps  *)
(* and until it has engine_lock again, and names the key of ci; only a      *)
(* thread on its way out has cond set.                                      *)
Shape ==
    \A t \in Threads :
        /\ pc[t] = "idle" <=> ci[t] = Null
        /\ pc[t] \in {"waiting", "woken"} => awaiting[t] = ci[t].mi
        /\ pc[t] \notin {"waiting", "woken"} => awaiting[t] = Null
        /\ cond[t] => pc[t] = "leave"

(* A table entry is filed under the key of its placeholder.                 *)
FiledUnderKey == \A k \in Keys : lease[k] # Null => lease[k].ci.mi = k

(* Placeholders are not shared: one that a thread is reserving for, or that *)
(* its frames refer to, is known to no other thread and to no other entry.  *)
Unshared ==
    \A t, u \in Threads :
        /\ t # u => live[t] \cap live[u] = {}
        /\ pc[t] # "idle" => ci[t] \notin live[u]
        /\ t # u /\ pc[t] # "idle" => ci[t] # ci[u]

(* The placeholder of a running jl_engine_reserve is in the table only once *)
(* the thread has inserted it.                                              *)
OwnEntry ==
    \A t \in Threads :
        pc[t] # "idle" /\ IsLeased(ci[t])
            => pc[t] = "leave" /\ ~cond[t] /\ lease[ci[t].mi].tid = t

IInv ==
    /\ TypeOK
    /\ Shape
    /\ FiledUnderKey
    /\ Unshared
    /\ OwnEntry
    /\ FulfilledByHolder
    /\ SleeperNeedsLease
    /\ NoCircularWait
    /\ NQueuedCountsLeases

-----------------------------------------------------------------------------
\* A thread holds finitely many leases.
LEMMA HeldIsFinite ==
    \A t \in Threads : IsFiniteSet(Held(t)) /\ Cardinality(Held(t)) \in Nat
  BY KeysFinite, FS_Subset, FS_CardinalityType DEF Held

(* What a fresh placeholder is different from.                              *)
LEMMA RootedContains ==
    \A u \in Threads : ci[u] \in Rooted /\ live[u] \subseteq Rooted
  BY DEF Rooted

\* A placeholder that is not in use is in nobody's hands.
LEMMA FreshIsUnknown ==
    ASSUME NEW c, c \notin InUse
    PROVE  /\ \A u \in Threads : c # ci[u] /\ c \notin live[u]
           /\ \A k \in Keys : lease[k] # Null => lease[k].ci # c
  <1>1. c \notin Rooted
    BY DEF InUse
  <1>2. \A k \in Keys : lease[k] # Null => lease[k].ci # c
    BY DEF InUse
  <1> QED
    BY <1>1, <1>2, RootedContains

\* The invariant holds at the start.
LEMMA InitIInv == Init => IInv
  <1> SUFFICES ASSUME Init PROVE IInv
    OBVIOUS
  <1> USE NullFresh
  <1>1. TypeOK /\ Shape /\ FiledUnderKey /\ Unshared /\ OwnEntry
    BY DEF Init, TypeOK, Shape, FiledUnderKey, Unshared, OwnEntry, CodeInst
  <1>2. FulfilledByHolder /\ SleeperNeedsLease
    BY DEF Init, FulfilledByHolder, SleeperNeedsLease
  <1>3. NoCircularWait
    BY DEF Init, NoCircularWait, WalkStops
  <1>4. NQueuedCountsLeases
    <2>1. \A t \in Threads : Held(t) = {} /\ Pending(t) = 0
      BY DEF Init, Held, Pending
    <2> QED
      BY <2>1, FS_EmptySet DEF Init, NQueuedCountsLeases
  <1> QED
    BY <1>1, <1>2, <1>3, <1>4 DEF IInv

\* A thread asks for a key.
LEMMA EnterReserveIInv ==
    ASSUME NEW t \in Threads, NEW k \in Keys, IInv, EnterReserve(t, k)
    PROVE  IInv'
  <1> USE NullFresh DEF IInv
  <1>1. PICK c \in CodeInst : /\ c \notin InUse
                             /\ c.mi = k
                             /\ ci' = [ci EXCEPT ![t] = c]
    BY DEF EnterReserve, NewCodeInst
  <1>2. TypeOK'
    BY <1>1 DEF EnterReserve, TypeOK
  <1>3. Shape' /\ FiledUnderKey'
    BY <1>1 DEF EnterReserve, TypeOK, Shape, FiledUnderKey
  <1>4. Unshared'
    BY <1>1, FreshIsUnknown DEF EnterReserve, TypeOK, Unshared
  <1>5. OwnEntry'
    BY <1>1, FreshIsUnknown DEF EnterReserve, TypeOK, Shape, OwnEntry, IsLeased
  <1>6. FulfilledByHolder' /\ SleeperNeedsLease'
    BY <1>1 DEF EnterReserve, TypeOK, FulfilledByHolder, SleeperNeedsLease, IsLeased
  <1>7. NoCircularWait'
    BY DEF EnterReserve, NoCircularWait, WalkStops
  <1>8. NQueuedCountsLeases'
    <2>1. \A u \in Threads : Held(u)' = Held(u)
      BY DEF EnterReserve, Held
    <2>2. \A u \in Threads : Pending(u)' = IF u = t THEN 1 ELSE Pending(u)
      BY DEF EnterReserve, Pending, TypeOK
    <2>3. Pending(t) = 0
      BY DEF EnterReserve, Pending
    <2> QED
      BY <2>1, <2>2, <2>3, HeldIsFinite DEF EnterReserve, NQueuedCountsLeases, TypeOK
  <1> QED
    BY <1>2, <1>3, <1>4, <1>5, <1>6, <1>7, <1>8

(* The new holder is not blocked, so a set of blocked threads either does   *)
(* not wait for the new lease, or waits for a thread outside the set.       *)
LEMMA ReserveInsertIInv ==
    ASSUME NEW t \in Threads, IInv, ReserveInsert(t)
    PROVE  IInv'
  <1> USE NullFresh DEF IInv
  <1> DEFINE k == ci[t].mi
  <1>1. /\ ci[t] \in CodeInst /\ k \in Keys /\ lease[k] = Null
        /\ pc[t] \in {"reserve", "woken"} /\ ~cond[t]
        /\ lease' = [lease EXCEPT ![k] = [tid |-> t, ci |-> ci[t]]]
        /\ [tid |-> t, ci |-> ci[t]] \in Leases
        /\ [tid |-> t, ci |-> ci[t]] # Null
    BY DEF ReserveInsert, Inserts, TypeOK, Shape, CodeInst, Leases
  <1>2. TypeOK' /\ Shape' /\ FiledUnderKey' /\ Unshared'
    BY <1>1 DEF ReserveInsert, TypeOK, Shape, FiledUnderKey, Unshared
  <1>3. OwnEntry'
    BY <1>1 DEF ReserveInsert, TypeOK, Shape, Unshared, OwnEntry, IsLeased
  <1>4. FulfilledByHolder'
    BY <1>1 DEF ReserveInsert, TypeOK, Unshared, FulfilledByHolder, IsLeased
  <1>5. SleeperNeedsLease'
    BY <1>1 DEF ReserveInsert, TypeOK, SleeperNeedsLease
  <1>6. NoCircularWait'
    <2> SUFFICES ASSUME NEW S \in SUBSET Threads, S # {},
                        \A u \in S : ~WalkStops(u)'
                 PROVE  \E u \in S : lease'[awaiting'[u]].tid \notin S
      BY DEF NoCircularWait
    <2>1. t \notin S
      BY DEF ReserveInsert, TypeOK, WalkStops
    <2>2. \A u \in S : awaiting'[u] = awaiting[u] /\ awaiting[u] \in Keys
      BY <2>1 DEF ReserveInsert, TypeOK, WalkStops
    <2>3. CASE \E u \in S : awaiting[u] = k
      BY <1>1, <2>1, <2>2, <2>3 DEF TypeOK
    <2>4. CASE \A u \in S : awaiting[u] # k
      <3>1. \A u \in S : lease'[awaiting'[u]] = lease[awaiting[u]]
        BY <1>1, <2>2, <2>4 DEF TypeOK
      <3>2. \A u \in S : ~WalkStops(u)
        BY <2>2, <3>1 DEF WalkStops
      <3> QED
        BY <3>1, <3>2 DEF NoCircularWait
    <2> QED
      BY <2>3, <2>4
  <1>7. NQueuedCountsLeases'
    <2>1. Held(t)' = Held(t) \cup {k} /\ k \notin Held(t)
      BY <1>1 DEF Held, TypeOK
    <2>2. \A u \in Threads : u # t => Held(u)' = Held(u)
      BY <1>1 DEF Held, TypeOK
    <2>3. Cardinality(Held(t)') = Cardinality(Held(t)) + 1
      BY <2>1, HeldIsFinite, FS_AddElement
    <2>4. Pending(t) = 1 /\ Pending(t)' = 0
      BY <1>1 DEF Pending, ReserveInsert, TypeOK
    <2>5. \A u \in Threads : u # t => Pending(u)' = Pending(u)
      BY DEF Pending, ReserveInsert, TypeOK
    <2> QED
      BY <2>2, <2>3, <2>4, <2>5, HeldIsFinite
      DEF ReserveInsert, NQueuedCountsLeases, TypeOK
  <1> QED
    BY <1>2, <1>3, <1>4, <1>5, <1>6, <1>7

\* It is told of a cycle that waiting would close, and goes without the lease.
LEMMA ReserveCycleIInv ==
    ASSUME NEW t \in Threads, IInv, ReserveCycle(t)
    PROVE  IInv'
  <1> USE NullFresh DEF IInv
  <1>1. TypeOK' /\ Shape' /\ FiledUnderKey' /\ Unshared'
    BY DEF ReserveCycle, TypeOK, Shape, FiledUnderKey, Unshared
  <1>2. OwnEntry'
    BY DEF ReserveCycle, TypeOK, OwnEntry, IsLeased
  <1>3. FulfilledByHolder' /\ SleeperNeedsLease'
    BY DEF ReserveCycle, TypeOK, FulfilledByHolder, SleeperNeedsLease, IsLeased
  <1>4. NoCircularWait'
    BY DEF ReserveCycle, TypeOK, NoCircularWait, WalkStops
  <1>5. NQueuedCountsLeases'
    <2>1. \A u \in Threads : Held(u)' = Held(u) /\ Pending(u)' = Pending(u)
      BY DEF ReserveCycle, TypeOK, Held, Pending
    <2> QED
      BY <2>1 DEF ReserveCycle, NQueuedCountsLeases
  <1> QED
    BY <1>1, <1>2, <1>3, <1>4, <1>5

(* If a set of blocked threads were closed under "waits for" once t sleeps, *)
(* the threads the walk visited would be such a set already before, since   *)
(* the walk did not arrive at t.                                            *)
LEMMA ReserveWaitIInv ==
    ASSUME NEW t \in Threads, IInv, ReserveWait(t)
    PROVE  IInv'
  <1> USE NullFresh DEF IInv
  <1> DEFINE k == ci[t].mi
  <1>1. /\ ci[t] \in CodeInst /\ k \in Keys /\ lease[k] # Null
        /\ pc[t] \in {"reserve", "woken"}
        /\ awaiting' = [awaiting EXCEPT ![t] = k]
        /\ lease' = lease
    BY DEF ReserveWait, Inserts, TypeOK, Shape, CodeInst
  <1>2. TypeOK' /\ Shape' /\ FiledUnderKey' /\ Unshared'
    BY <1>1 DEF ReserveWait, TypeOK, Shape, FiledUnderKey, Unshared
  <1>3. OwnEntry'
    BY <1>1 DEF ReserveWait, TypeOK, OwnEntry, IsLeased
  <1>4. FulfilledByHolder' /\ SleeperNeedsLease'
    BY <1>1 DEF ReserveWait, TypeOK, FulfilledByHolder, SleeperNeedsLease, IsLeased
  <1>5. NoCircularWait'
    <2>1. PICK C \in SUBSET Threads :
                  lease[k].tid \in C /\ WalkStaysIn(C, t) /\ t \notin C
      BY DEF ReserveWait, FindsCycle
    <2> SUFFICES ASSUME NEW S \in SUBSET Threads, S # {},
                        \A u \in S : ~WalkStops(u)',
                        \A u \in S : lease'[awaiting'[u]].tid \in S
                 PROVE  FALSE
      BY DEF NoCircularWait
    <2>2. \A u \in S : u # t => ~WalkStops(u) /\ lease[awaiting[u]].tid \in S
      BY <1>1 DEF WalkStops, TypeOK
    <2>3. CASE t \notin S
      BY <2>2, <2>3 DEF NoCircularWait
    <2>4. CASE t \in S
      <3>1. lease[k].tid \in S \cap C
        BY <1>1, <2>1, <2>4 DEF TypeOK
      <3>2. \A u \in S \cap C : ~WalkStops(u) /\ lease[awaiting[u]].tid \in S \cap C
        BY <2>1, <2>2 DEF WalkStaysIn
      <3> QED
        BY <3>1, <3>2 DEF NoCircularWait
    <2> QED
      BY <2>3, <2>4
  <1>6. NQueuedCountsLeases'
    <2>1. \A u \in Threads : Held(u)' = Held(u) /\ Pending(u)' = Pending(u)
      BY <1>1 DEF ReserveWait, TypeOK, Held, Pending
    <2> QED
      BY <2>1 DEF ReserveWait, NQueuedCountsLeases
  <1> QED
    BY <1>2, <1>3, <1>4, <1>5, <1>6

\* A wait may end with nothing changed.
LEMMA SpuriousWakeIInv ==
    ASSUME NEW t \in Threads, IInv, SpuriousWake(t)
    PROVE  IInv'
  <1> USE NullFresh DEF IInv
  <1>1. TypeOK' /\ Shape' /\ FiledUnderKey' /\ Unshared'
    BY DEF SpuriousWake, TypeOK, Shape, FiledUnderKey, Unshared
  <1>2. OwnEntry' /\ FulfilledByHolder' /\ SleeperNeedsLease'
    BY DEF SpuriousWake, TypeOK, OwnEntry, FulfilledByHolder, SleeperNeedsLease, IsLeased
  <1>3. NoCircularWait'
    BY DEF SpuriousWake, NoCircularWait, WalkStops
  <1>4. NQueuedCountsLeases'
    <2>1. \A u \in Threads : Held(u)' = Held(u) /\ Pending(u)' = Pending(u)
      BY DEF SpuriousWake, TypeOK, Held, Pending
    <2> QED
      BY <2>1 DEF SpuriousWake, NQueuedCountsLeases
  <1> QED
    BY <1>1, <1>2, <1>3, <1>4

\* It leaves with its placeholder.
LEMMA LeaveReserveIInv ==
    ASSUME NEW t \in Threads, IInv, LeaveReserve(t)
    PROVE  IInv'
  <1> USE NullFresh DEF IInv
  <1>1. ci[t] \in CodeInst /\ pc[t] = "leave"
    BY DEF LeaveReserve, TypeOK, Shape
  <1>2. /\ \A u \in Threads : Held(u)' = Held(u)
        /\ \A u \in Threads : u # t => Pending(u)' = Pending(u)
        /\ Pending(t)' = 0
        /\ Pending(t) = IF cond[t] THEN 1 ELSE 0
    BY <1>1 DEF LeaveReserve, TypeOK, Held, Pending
  <1>3. nqueued' \in [Threads -> Nat] /\ NQueuedCountsLeases'
    BY <1>2, HeldIsFinite
    DEF LeaveReserve, CountAfterReserve, NQueuedCountsLeases, TypeOK
  <1>4. TypeOK'
    BY <1>1, <1>3 DEF LeaveReserve, TypeOK
  <1>5. Shape' /\ FiledUnderKey' /\ Unshared'
    BY <1>1 DEF LeaveReserve, TypeOK, Shape, FiledUnderKey, Unshared
  <1>6. OwnEntry' /\ SleeperNeedsLease'
    BY DEF LeaveReserve, TypeOK, OwnEntry, SleeperNeedsLease, IsLeased
  <1>7. FulfilledByHolder'
    BY <1>1 DEF LeaveReserve, TypeOK, OwnEntry, FulfilledByHolder, IsLeased
  <1>8. NoCircularWait'
    BY DEF LeaveReserve, NoCircularWait, WalkStops
  <1> QED
    BY <1>3, <1>4, <1>5, <1>6, <1>7, <1>8

(* Returning leases cannot close a cycle: a thread that is blocked after    *)
(* the step waits for the same holder as before.                            *)
LEMMA FewerLeasesNoCircularWait ==
    ASSUME NoCircularWait, awaiting' = awaiting,
           \A k \in Keys : lease'[k] # Null => lease'[k] = lease[k],
           awaiting \in [Threads -> Keys \cup {Null}]
    PROVE  NoCircularWait'
  <1> SUFFICES ASSUME NEW S \in SUBSET Threads, S # {},
                      \A u \in S : ~WalkStops(u)'
               PROVE  \E u \in S : lease'[awaiting'[u]].tid \notin S
    BY DEF NoCircularWait
  <1>1. \A u \in S : ~WalkStops(u) /\ lease'[awaiting'[u]] = lease[awaiting[u]]
    BY DEF WalkStops
  <1> QED
    BY <1>1 DEF NoCircularWait

(* After a broadcast no thread sleeps, and nothing else changed about where *)
(* the threads are.                                                         *)
LEMMA BroadcastKeeps ==
    ASSUME TypeOK, Broadcast
    PROVE  /\ pc' \in [Threads -> {"idle", "reserve", "woken", "leave"}]
           /\ \A u \in Threads : pc[u] \notin {"waiting", "woken"} => pc'[u] = pc[u]
           /\ \A u \in Threads : pc[u] \in {"waiting", "woken"} => pc'[u] = "woken"
  BY DEF TypeOK, Broadcast

\* The holder of a lease gives it back.
LEMMA FulfillIInv ==
    ASSUME NEW t \in Threads, NEW c \in CodeInst, IInv, Fulfill(t, c)
    PROVE  IInv'
  <1> USE NullFresh DEF IInv
  <1>1. /\ c \in live[t] /\ c.mi \in Keys /\ lease[c.mi] # Null
        /\ lease[c.mi].tid = t
        /\ lease' = [lease EXCEPT ![c.mi] = Null]
    BY DEF Fulfill, FulfilledByHolder, IsLeased, CodeInst
  <1>2. /\ pc' \in [Threads -> {"idle", "reserve", "woken", "leave"}]
        /\ \A u \in Threads : pc[u] \notin {"waiting", "woken"} => pc'[u] = pc[u]
        /\ \A u \in Threads : pc[u] \in {"waiting", "woken"} => pc'[u] = "woken"
    BY BroadcastKeeps DEF Fulfill
  <1>3. nqueued' \in [Threads -> Nat] /\ NQueuedCountsLeases'
    <2>1. Held(t)' = Held(t) \ {c.mi} /\ c.mi \in Held(t)
      BY <1>1 DEF Held, TypeOK
    <2>2. \A u \in Threads : u # t => Held(u)' = Held(u)
      BY <1>1 DEF Held, TypeOK
    <2>3. Cardinality(Held(t)') = Cardinality(Held(t)) - 1 /\ Cardinality(Held(t)') \in Nat
      BY <2>1, HeldIsFinite, FS_RemoveElement, FS_CardinalityType
    <2>4. \A u \in Threads : Pending(u)' = Pending(u)
      BY <1>2 DEF Pending, Fulfill, TypeOK
    <2>5. \A u \in Threads : Pending(u) \in {0, 1}
      BY DEF Pending
    <2> QED
      BY <2>2, <2>3, <2>4, <2>5, HeldIsFinite DEF Fulfill, NQueuedCountsLeases, TypeOK
  <1>4. TypeOK'
    BY <1>1, <1>2, <1>3 DEF Fulfill, TypeOK
  <1>5. Shape' /\ FiledUnderKey' /\ Unshared'
    BY <1>1, <1>2 DEF Fulfill, TypeOK, Shape, FiledUnderKey, Unshared
  <1>6. OwnEntry'
    <2>1. \A d \in CodeInst : IsLeased(d)' => IsLeased(d) /\ lease'[d.mi] = lease[d.mi]
      BY <1>1 DEF IsLeased, TypeOK, CodeInst
    <2> QED
      BY <1>2, <2>1 DEF Fulfill, TypeOK, Shape, OwnEntry
  <1>7. FulfilledByHolder'
    <2>1. \A d \in CodeInst : IsLeased(d)' => IsLeased(d) /\ lease'[d.mi] = lease[d.mi]
      BY <1>1 DEF IsLeased, TypeOK, CodeInst
    <2> QED
      BY <2>1 DEF Fulfill, TypeOK, FulfilledByHolder
  <1>8. SleeperNeedsLease'
    BY <1>2 DEF SleeperNeedsLease
  <1>9. NoCircularWait'
    BY <1>1, FewerLeasesNoCircularWait DEF Fulfill, TypeOK
  <1> QED
    BY <1>3, <1>4, <1>5, <1>6, <1>7, <1>8, <1>9

(* FulfillNothing and Throw only forget placeholders.                       *)
LEMMA ForgetIInv ==
    ASSUME NEW t \in Threads, IInv,
           NEW D, live' = [live EXCEPT ![t] = @ \ D],
           UNCHANGED <<lease, awaiting, pc, ci, cond, nqueued>>
    PROVE  IInv'
  <1> USE NullFresh DEF IInv
  <1>1. TypeOK' /\ Shape' /\ FiledUnderKey' /\ Unshared'
    BY DEF TypeOK, Shape, FiledUnderKey, Unshared
  <1>2. OwnEntry' /\ FulfilledByHolder' /\ SleeperNeedsLease'
    BY DEF TypeOK, OwnEntry, FulfilledByHolder, SleeperNeedsLease, IsLeased
  <1>3. NoCircularWait' /\ NQueuedCountsLeases'
    BY DEF NoCircularWait, WalkStops, NQueuedCountsLeases, Held, Pending
  <1> QED
    BY <1>1, <1>2, <1>3

\* A set loses as many elements as are taken from it.
LEMMA DifferenceCount ==
    ASSUME NEW S, NEW D, IsFiniteSet(S)
    PROVE  /\ Cardinality(S \ D) = Cardinality(S) - Cardinality(S \cap D)
           /\ Cardinality(S \ D) \in Nat
           /\ Cardinality(S \cap D) \in Nat
  <1>1. IsFiniteSet(S \ D) /\ Cardinality(S \ D) = Cardinality(S) - Cardinality(S \cap D)
    BY FS_Difference
  <1>2. IsFiniteSet(S \cap D)
    BY FS_Intersection
  <1> QED
    BY <1>1, <1>2, FS_CardinalityType

\* The sweep takes the leases whose placeholder died, and their counts.
LEMMA EngineSweepIInv ==
    ASSUME NEW D \in SUBSET Keys, IInv, EngineSweep(D)
    PROVE  IInv'
  <1> USE NullFresh DEF IInv
  <1>1. lease' = [k \in Keys |-> IF k \in D THEN Null ELSE lease[k]]
    BY DEF EngineSweep
  <1>2. /\ pc' \in [Threads -> {"idle", "reserve", "woken", "leave"}]
        /\ \A u \in Threads : pc[u] \notin {"waiting", "woken"} => pc'[u] = pc[u]
        /\ \A u \in Threads : pc[u] \in {"waiting", "woken"} => pc'[u] = "woken"
    BY BroadcastKeeps DEF EngineSweep
  <1>3. nqueued' \in [Threads -> Nat] /\ NQueuedCountsLeases'
    <2>1. \A u \in Threads : Held(u)' = Held(u) \ D
      BY <1>1 DEF Held, TypeOK
    <2>2. ASSUME NEW u \in Threads
          PROVE  /\ Cardinality(Held(u) \ D) = Cardinality(Held(u)) - Cardinality(Held(u) \cap D)
                 /\ Cardinality(Held(u) \ D) \in Nat
                 /\ Cardinality(Held(u) \cap D) \in Nat
      BY HeldIsFinite, DifferenceCount
    <2>3. \A u \in Threads : Held(u) \cap D = D \cap Held(u)
      OBVIOUS
    <2>4. \A u \in Threads : Pending(u)' = Pending(u) /\ Pending(u) \in {0, 1}
      BY <1>2 DEF Pending, EngineSweep, TypeOK
    <2>5. ASSUME NEW u \in Threads
          PROVE  nqueued'[u] = Cardinality(Held(u)') + Pending(u)' /\ nqueued'[u] \in Nat
      <3>1. nqueued'[u] = nqueued[u] - Cardinality(Held(u) \cap D)
        BY <2>3 DEF EngineSweep
      <3>2. nqueued[u] = Cardinality(Held(u)) + Pending(u)
        BY DEF NQueuedCountsLeases
      <3>3. Cardinality(Held(u)') = Cardinality(Held(u) \ D)
        BY <2>1
      <3> QED
        BY <2>2, <2>4, <3>1, <3>2, <3>3, HeldIsFinite
    <2>6. nqueued' = [u \in Threads |-> nqueued'[u]]
      BY DEF EngineSweep
    <2> QED
      BY <2>5, <2>6 DEF NQueuedCountsLeases
  <1>4. TypeOK'
    BY <1>1, <1>2, <1>3 DEF EngineSweep, TypeOK
  <1>5. Shape' /\ FiledUnderKey' /\ Unshared'
    BY <1>1, <1>2 DEF EngineSweep, TypeOK, Shape, FiledUnderKey, Unshared
  <1>6. \A d \in CodeInst : IsLeased(d)' => IsLeased(d) /\ lease'[d.mi] = lease[d.mi]
    BY <1>1 DEF IsLeased, TypeOK, CodeInst
  <1>7. OwnEntry' /\ FulfilledByHolder' /\ SleeperNeedsLease'
    BY <1>2, <1>6
    DEF EngineSweep, TypeOK, Shape, OwnEntry, FulfilledByHolder, SleeperNeedsLease
  <1>8. NoCircularWait'
    BY <1>1, FewerLeasesNoCircularWait DEF EngineSweep, TypeOK
  <1> QED
    BY <1>3, <1>4, <1>5, <1>7, <1>8

\* Nothing happens.
LEMMA StutterIInv == IInv /\ UNCHANGED vars => IInv'
  BY DEF vars, IInv, TypeOK, Shape, FiledUnderKey, Unshared, OwnEntry, IsLeased,
     FulfilledByHolder, SleeperNeedsLease, NoCircularWait, WalkStops,
     NQueuedCountsLeases, Held, Pending
-----------------------------------------------------------------------------
\* Every step preserves the invariant.
LEMMA NextIInv == IInv /\ [Next]_vars => IInv'
  <1> SUFFICES ASSUME IInv, [Next]_vars PROVE IInv'
    OBVIOUS
  <1>1. ASSUME NEW t \in Threads, NEW k \in Keys, TypeInfer(t, k) \/ TypeInfEdge(t, k)
        PROVE  IInv'
    BY <1>1, EnterReserveIInv DEF TypeInfer, TypeInfEdge
  <1>2. ASSUME NEW t \in Threads, ReserveStep(t)
        PROVE  IInv'
    BY <1>2, ReserveInsertIInv, ReserveCycleIInv, ReserveWaitIInv, LeaveReserveIInv
    DEF ReserveStep
  <1>3. ASSUME NEW t \in Threads, SpuriousWake(t)
        PROVE  IInv'
    BY <1>3, SpuriousWakeIInv
  <1>4. ASSUME NEW t \in Threads, Throw(t)
        PROVE  IInv'
    BY <1>4, ForgetIInv DEF Throw
  <1>5. ASSUME NEW t \in Threads, NEW c \in CodeInst, Fulfill(t, c)
        PROVE  IInv'
    BY <1>5, FulfillIInv
  <1>6. ASSUME NEW t \in Threads, NEW c \in CodeInst, FulfillNothing(t, c)
        PROVE  IInv'
    BY <1>6, ForgetIInv DEF FulfillNothing
  <1>7. ASSUME NEW D \in SUBSET Keys, EngineSweep(D)
        PROVE  IInv'
    BY <1>7, EngineSweepIInv
  <1>8. CASE UNCHANGED vars
    BY <1>8, StutterIInv
  <1> QED
    BY <1>1, <1>2, <1>3, <1>4, <1>5, <1>6, <1>7, <1>8 DEF Next

(* The inductive invariant holds in every state of the engine.              *)
THEOREM InvariantHolds == Spec => []IInv
  BY InitIInv, NextIInv, PTL DEF Spec

(* Every variable of the engine keeps its type.                              *)
THEOREM EngineTypeCorrect == Spec => []TypeOK
  <1>1. IInv => TypeOK
    BY DEF IInv
  <1> QED
    BY <1>1, InvariantHolds, PTL

(* Nested reservations never deadlock, however many threads infer however   *)
(* many methods and whatever the collector sweeps in between.               *)
THEOREM EngineDeadlockFree == Spec => []NoCircularWait
  <1>1. IInv => NoCircularWait
    BY DEF IInv
  <1> QED
    BY <1>1, InvariantHolds, PTL

(* No thread sleeps in jl_engine_reserve for a lease nobody holds.          *)
THEOREM NoLostEngineWakeup == Spec => []SleeperNeedsLease
  <1>1. IInv => SleeperNeedsLease
    BY DEF IInv
  <1> QED
    BY <1>1, InvariantHolds, PTL

(* engine_nqueued counts leases exactly, and so never wraps around.         *)
THEOREM EngineCountExact == Spec => []NQueuedCountsLeases
  <1>1. IInv => NQueuedCountsLeases
    BY DEF IInv
  <1> QED
    BY <1>1, InvariantHolds, PTL

(* The thread assertion of jl_engine_fulfill holds.                         *)
THEOREM FulfillAssertion == Spec => []FulfilledByHolder
  <1>1. IInv => FulfilledByHolder
    BY DEF IInv
  <1> QED
    BY <1>1, InvariantHolds, PTL

(* A reservation is never overwritten: it is returned before another        *)
(* thread gets one for the same key.                                        *)
THEOREM NoStolenLease == Spec => LeaseNeverStolen
  <1>1. IInv /\ [Next]_vars
          => [\A k \in Keys : lease[k] # Null => lease'[k] \in {lease[k], Null}]_vars
    <2> SUFFICES ASSUME IInv, Next, NEW k \in Keys, lease[k] # Null
                 PROVE  lease'[k] \in {lease[k], Null}
      BY DEF vars
    <2>1. TypeOK
      BY DEF IInv
    <2>2. \A t \in Threads : ReserveStep(t) => lease'[k] = lease[k]
      BY <2>1 DEF ReserveStep, ReserveInsert, Inserts, ReserveCycle, ReserveWait,
         LeaveReserve, TypeOK
    <2> QED
      BY <2>1, <2>2 DEF Next, TypeInfer, TypeInfEdge, EnterReserve, SpuriousWake,
         Throw, Fulfill, FulfillNothing, EngineSweep, TypeOK
  <1> QED
    BY <1>1, InvariantHolds, PTL DEF Spec, LeaseNeverStolen
=============================================================================
