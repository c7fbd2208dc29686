------------------------------- MODULE Engine -------------------------------
(***************************************************************************)
(* The inference engine's reservation table (src/src/engine.c).            *)
(*                                                                         *)
(* A thread that is about to infer a method instance takes a lease on it   *)
(* with jl_engine_reserve; a thread that finds the lease taken sleeps on    *)
(* the one condition variable engine_wait, unless following the leases     *)
(* that the holders in turn are waiting for leads back to itself.  In that  *)
(* case it goes on without a lease.  jl_engine_fulfill returns a lease, and *)
(* the garbage collector returns the leases whose placeholder nobody        *)
(* refers to any more (the inference that held it threw).                  *)
(*                                                                         *)
(* engine_lock is held from the top of the loop of jl_engine_reserve to     *)
(* uv_cond_wait, so one turn of that loop is one action.                   *)
(***************************************************************************)
EXTENDS Integers, FiniteSets

CONSTANTS
    Threads,    \* thread ids that run inference
    Keys,       \* infer_key_t: (MethodInstance, cache owner) pairs
    Ids,        \* tells placeholders of one key apart; bounds how many exist
    Null        \* NULL in awaiting.items, HT_NOTFOUND in the tables

CodeInst == [mi : Keys, id : Ids]
Leases   == [tid : Threads, ci : CodeInst]

ASSUME ThreadsFinite == IsFiniteSet(Threads)
ASSUME KeysFinite    == IsFiniteSet(Keys)
ASSUME NullFresh     == Null \notin Keys \cup CodeInst \cup Leases

VARIABLES
    lease,      \* native_reservations and foreign_reservations
    awaiting,   \* awaiting.items: the key a blocked thread needs
    pc,         \* where each thread is in jl_engine_reserve
    ci,         \* the placeholder the running jl_engine_reserve allocated
    cond,       \* its verdict: a cycle was found, no lease was taken
    nqueued,    \* ptls->engine_nqueued
    live        \* placeholders the thread's inference frames refer to

vars == <<lease, awaiting, pc, ci, cond, nqueued, live>>

(* The leases of a thread; the placeholders the collector finds reachable:  *)
(* those of inference frames and of calls of jl_engine_reserve in progress. *)
Held(t) == {k \in Keys : lease[k] # Null /\ lease[k].tid = t}
Rooted  == (UNION {live[t] : t \in Threads}) \cup {ci[t] : t \in Threads}
InUse   == Rooted \cup {lease[k].ci : k \in {j \in Keys : lease[j] # Null}}

Init ==
    /\ lease    = [k \in Keys |-> Null]
    /\ awaiting = [t \in Threads |-> Null]
    /\ pc       = [t \in Threads |-> "idle"]
    /\ ci       = [t \in Threads |-> Null]
    /\ cond     = [t \in Threads |-> FALSE]
    /\ nqueued  = [t \in Threads |-> 0]
    /\ live     = [t \in Threads |-> {}]

-----------------------------------------------------------------------------
(* jl_engine_hasreserved *)
HasReserved(t, k) == lease[k] # Null /\ lease[k].tid = t

(* Mutant: a placeholder that already exists is handed out again.           *)
NewCodeInstShared(k) == {c \in CodeInst : c.mi = k}

(* jl_new_codeinst_uninit: a placeholder that nothing refers to yet.        *)
NewCodeInst(k) == {c \in CodeInst \ InUse : c.mi = k}

(* The head of jl_engine_reserve: finalizers are held off and a fresh       *)
(* placeholder is allocated; the thread then waits for engine_lock.         *)
EnterReserve(t, k) ==
    /\ pc[t] = "idle"
    /\ \E c \in NewCodeInst(k) : ci' = [ci EXCEPT ![t] = c]
    /\ nqueued' = [nqueued EXCEPT ![t] = @ + 1]
    /\ pc' = [pc EXCEPT ![t] = "reserve"]
    /\ UNCHANGED <<lease, awaiting, cond, live>>

(* jl_type_infer starts an inference only on a method instance that its     *)
(* thread is not already inferring.                                         *)
TypeInfer(t, k) == ~HasReserved(t, k) /\ EnterReserve(t, k)

(* typeinf_edge reserves a callee from within a running inference frame.    *)
TypeInfEdge(t, k) == live[t] # {} /\ EnterReserve(t, k)

(* The walk of the deadlock detection stops at a thread that is running or  *)
(* whose lease has been returned (it is about to resume).                   *)
WalkStops(w) == awaiting[w] = Null \/ lease[awaiting[w]] = Null

(* The set C contains every thread the walk can visit next from a member.   *)
WalkStaysIn(C, t) ==
    \A w \in C : w = t \/ WalkStops(w) \/ lease[awaiting[w]].tid \in C

(* Mutant: only the direct holder is looked at.                             *)
FindsCycleDirect(t, k) == lease[k].tid = t

(* The walk from the holder of k arrives at t: every set of threads that    *)
(* holds the first thread and that the walk cannot leave contains t.        *)
FindsCycle(t, k) ==
    \A C \in SUBSET Threads : lease[k].tid \in C /\ WalkStaysIn(C, t) => t \in C

(* try_insert_reservation finds no record.                                  *)
Inserts(k) == lease[k] = Null

(* One turn of the loop of jl_engine_reserve, under engine_lock.            *)
ReserveInsert(t) ==
    LET k == ci[t].mi IN
    /\ pc[t] \in {"reserve", "woken"}
    /\ Inserts(k)
    /\ lease' = [lease EXCEPT ![k] = [tid |-> t, ci |-> ci[t]]]
    /\ awaiting' = [awaiting EXCEPT ![t] = Null]
    /\ pc' = [pc EXCEPT ![t] = "leave"]
    /\ UNCHANGED <<ci, cond, nqueued, live>>

(* A woken thread has cleared awaiting.items[tid] when it walks.  Clearing  *)
(* it does not change the walk, which stops as soon as it reaches t.        *)
ReserveCycle(t) ==
    LET k == ci[t].mi IN
    /\ pc[t] \in {"reserve", "woken"}
    /\ ~Inserts(k)
    /\ FindsCycle(t, k)
    /\ cond' = [cond EXCEPT ![t] = TRUE]
    /\ awaiting' = [awaiting EXCEPT ![t] = Null]
    /\ pc' = [pc EXCEPT ![t] = "leave"]
    /\ UNCHANGED <<lease, ci, nqueued, live>>

ReserveWait(t) ==
    LET k == ci[t].mi IN
    /\ pc[t] \in {"reserve", "woken"}
    /\ ~Inserts(k)
    /\ ~FindsCycle(t, k)
    /\ awaiting' = [awaiting EXCEPT ![t] = k]
    /\ pc' = [pc EXCEPT ![t] = "waiting"]
    /\ UNCHANGED <<lease, ci, cond, nqueued, live>>

(* uv_cond_wait may return without a broadcast.                             *)
SpuriousWake(t) ==
    /\ pc[t] = "waiting"
    /\ pc' = [pc EXCEPT ![t] = "woken"]
    /\ UNCHANGED <<lease, awaiting, ci, cond, nqueued, live>>

(* Mutant: the count taken at entry is kept after a cycle.                  *)
CountAfterReserveKept(t) == nqueued[t]

CountAfterReserve(t) == IF cond[t] THEN nqueued[t] - 1 ELSE nqueued[t]

(* The tail of jl_engine_reserve, after engine_lock was released.           *)
LeaveReserve(t) ==
    /\ pc[t] = "leave"
    /\ nqueued' = [nqueued EXCEPT ![t] = CountAfterReserve(t)]
    /\ live' = [live EXCEPT ![t] = @ \cup {ci[t]}]
    /\ ci' = [ci EXCEPT ![t] = Null]
    /\ cond' = [cond EXCEPT ![t] = FALSE]
    /\ pc' = [pc EXCEPT ![t] = "idle"]
    /\ UNCHANGED <<lease, awaiting>>

-----------------------------------------------------------------------------
(* Mutant: uv_cond_signal instead of uv_cond_broadcast.                     *)
SignalOne ==
    LET Asleep == {t \in Threads : pc[t] = "waiting"} IN
    IF Asleep = {} THEN UNCHANGED pc
    ELSE \E t \in Asleep : pc' = [pc EXCEPT ![t] = "woken"]

(* uv_cond_broadcast *)
Broadcast ==
    pc' = [t \in Threads |-> IF pc[t] = "waiting" THEN "woken" ELSE pc[t]]

(* The table holds the lease of c's key for the placeholder c itself.       *)
IsLeased(c) == lease[c.mi] # Null /\ lease[c.mi].ci = c

(* jl_engine_fulfill of a placeholder that holds the lease of its key.      *)
Fulfill(t, c) ==
    /\ pc[t] = "idle"
    /\ c \in live[t]
    /\ IsLeased(c)
    /\ nqueued' = [nqueued EXCEPT ![t] = @ - 1]
    /\ lease' = [lease EXCEPT ![c.mi] = Null]
    /\ live' = [live EXCEPT ![t] = @ \ {c}]
    /\ Broadcast
    /\ UNCHANGED <<awaiting, ci, cond>>

(* jl_engine_fulfill of any other placeholder returns at once.              *)
FulfillNothing(t, c) ==
    /\ pc[t] = "idle"
    /\ c \in live[t]
    /\ ~IsLeased(c)
    /\ live' = [live EXCEPT ![t] = @ \ {c}]
    /\ UNCHANGED <<lease, awaiting, pc, ci, cond, nqueued>>

(* Inference throws: the frames of one jl_type_infer call, which may be a   *)
(* nested one, are dropped with the placeholders they refer to.             *)
Throw(t) ==
    /\ pc[t] = "idle"
    /\ \E D \in SUBSET live[t] :
         D # {} /\ live' = [live EXCEPT ![t] = @ \ D]
    /\ UNCHANGED <<lease, awaiting, pc, ci, cond, nqueued>>

(* jl_engine_sweep, with the world stopped: a collection drops the leases D *)
(* whose placeholder it did not mark.  Unreachable placeholders that are    *)
(* old may survive a young collection.                                      *)
EngineSweep(D) ==
    /\ D # {}
    /\ \A k \in D : lease[k] # Null /\ lease[k].ci \notin Rooted
    /\ lease' = [k \in Keys |-> IF k \in D THEN Null ELSE lease[k]]
    /\ nqueued' = [t \in Threads |-> nqueued[t] - Cardinality(D \cap Held(t))]
    /\ Broadcast
    /\ UNCHANGED <<awaiting, ci, cond, live>>

-----------------------------------------------------------------------------
ReserveStep(t) ==
    \/ ReserveInsert(t)
    \/ ReserveCycle(t)
    \/ ReserveWait(t)
    \/ LeaveReserve(t)

Next ==
    \/ \E t \in Threads, k \in Keys : TypeInfer(t, k) \/ TypeInfEdge(t, k)
    \/ \E t \in Threads : ReserveStep(t) \/ SpuriousWake(t) \/ Throw(t)
    \/ \E t \in Threads, c \in CodeInst : Fulfill(t, c) \/ FulfillNothing(t, c)
    \/ \E D \in SUBSET Keys : EngineSweep(D)

Spec == Init /\ [][Next]_vars

(* A thread inside jl_engine_reserve runs; every inference that holds a     *)
(* lease finishes in the end, although it may reserve other methods before; *)
(* and a full collection happens again and again.                           *)
Fairness ==
    /\ \A t \in Threads : WF_vars(ReserveStep(t))
    /\ \A k \in Keys :
         SF_vars(\E t \in Threads, c \in CodeInst : c.mi = k /\ Fulfill(t, c))
    /\ \A k \in Keys : WF_vars(\E D \in SUBSET Keys : k \in D /\ EngineSweep(D))

FairSpec == Spec /\ Fairness

-----------------------------------------------------------------------------
(* Types of the state.  engine_nqueued is a size_t that is only ever        *)
(* incremented and decremented: that it is a natural number says that no    *)
(* decrement wraps it around.                                               *)
TypeOK ==
    /\ lease    \in [Keys -> Leases \cup {Null}]
    /\ awaiting \in [Threads -> Keys \cup {Null}]
    /\ pc       \in [Threads -> {"idle", "reserve", "waiting", "woken", "leave"}]
    /\ ci       \in [Threads -> CodeInst \cup {Null}]
    /\ cond     \in [Threads -> BOOLEAN]
    /\ nqueued  \in [Threads -> Nat]
    /\ live     \in [Threads -> SUBSET CodeInst]

(* Deadlock freedom of nested reservations: in any set of threads that are  *)
(* blocked in jl_engine_reserve, one is blocked on a lease whose holder is  *)
(* outside the set.  In particular the detection loop always terminates and *)
(* its assert(wait_tid != info2->tid) holds.                                *)
NoCircularWait ==
    \A S \in SUBSET Threads :
        (S # {} /\ \A t \in S : ~WalkStops(t))
            => \E t \in S : lease[awaiting[t]].tid \notin S

(* No lost wakeup: a thread asleep in uv_cond_wait needs a lease that is    *)
(* still held, so that some jl_engine_fulfill or sweep will wake it.        *)
SleeperNeedsLease ==
    \A t \in Threads : pc[t] = "waiting" => lease[ci[t].mi] # Null

(* The part of engine_nqueued that a thread inside jl_engine_reserve has    *)
(* counted and that does not yet belong to a lease.                         *)
Pending(t) ==
    IF pc[t] \in {"reserve", "waiting", "woken"} \/ (pc[t] = "leave" /\ cond[t])
    THEN 1 ELSE 0

(* engine_nqueued, which disables finalizers while it is not zero, is the   *)
(* number of leases the thread holds plus the reservation in progress.  A   *)
(* thread that gives up on a cycle, a fulfill and the collector's sweep of  *)
(* another thread's leases all keep the count, so finalizers are never      *)
(* enabled under a lease nor left disabled for ever.                        *)
NQueuedCountsLeases ==
    \A t \in Threads : nqueued[t] = Cardinality(Held(t)) + Pending(t)

(* The assertion of jl_engine_fulfill, ct->tid == info->tid: a placeholder  *)
(* that holds a lease is only known to the frames of the lease's thread.    *)
FulfilledByHolder ==
    \A t \in Threads : \A c \in live[t] :
        IsLeased(c) => lease[c.mi].tid = t

(* A lease changes hands only through the table being empty for its key:    *)
(* jl_engine_reserve never overwrites a reservation.                        *)
LeaseNeverStolen ==
    [][\A k \in Keys : lease[k] # Null => lease'[k] \in {lease[k], Null}]_vars

(* Every thread that sleeps in jl_engine_reserve is woken: the holders it   *)
(* waits for, directly or not, all get to finish.                           *)
SleeperWakes ==
    \A t \in Threads : pc[t] = "waiting" ~> pc[t] # "waiting"
=============================================================================
