-------------------------- MODULE ParallelGCSweep ---------------------------
(* The threads in the mark loop and in the sweeps: the initiator is alone   *)
(* when it has to be, and the sweeps of stacks and pages are complete when  *)
(* it goes on, for any number of threads, stacks and pages.                 *)
EXTENDS ParallelGCInvariant, FiniteSetTheorems, TLAPS

(* The provers get more time than by default: there are many facts in scope. *)
USE ZenonT(30)

-----------------------------------------------------------------------------
(* The threads.                                                              *)

\* There are finitely many threads; the initiator is no collector thread.
LEMMA Crew ==
    ASSUME ThreadsOK
    PROVE  /\ IsFiniteSet(Threads) /\ Initiator \notin GCThreads
           /\ Initiator \in Threads /\ Null \notin Threads /\ GCThreads \subseteq Threads
           /\ \A a \in Threads : a = Initiator \/ a \in GCThreads
           /\ \A a \in Threads : a \in {Initiator} \cup {Helpers[j] : j \in DOMAIN Helpers}
  <1>1. PICK k \in 1..Len(Helpers) : GCThreads = {Helpers[j] : j \in 1..k}
    BY DEF ThreadsOK
  <1>2. k \in Nat /\ 1..k \subseteq DOMAIN Helpers
    BY SMT, ThreadsDistinct
  <1>3. GCThreads \subseteq {Helpers[j] : j \in DOMAIN Helpers} /\ Initiator \notin GCThreads /\ Null \notin GCThreads
    BY <1>1, <1>2, ThreadsDistinct
  <1>4. [j \in 1..k |-> Helpers[j]] \in Surjection(1..k, GCThreads)
    BY <1>1 DEF Surjection
  <1>5. IsFiniteSet(GCThreads)
    BY <1>2, <1>4, FS_NatSurjection DEF ExistsSurjection
  <1>6. IsFiniteSet(Threads)
    BY <1>5, FS_AddElement DEF Threads
  <1> QED
    BY <1>3, <1>6, ThreadsDistinct DEF Threads

\* A step of one thread keeps the threads there are and the labels they can have.
LEMMA MovesThreads ==
    ASSUME ThreadsOK, NEW a \in Threads, Moves(a)
    PROVE  ThreadsOK' /\ Threads' = Threads
  <1>1. Threads' = Threads
    BY DEF Moves, Threads
  <1> QED
    BY <1>1, Crew DEF Moves, ThreadsOK

\* A jump to a label that the thread can have is such a step.
LEMMA GotoMoves ==
    ASSUME ThreadsOK, NEW a \in Threads, NEW l, Goto(a, l), GCThreads' = GCThreads,
           a = Initiator => l \in InitiatorLabels, a # Initiator => l \in HelperLabels
    PROVE  Moves(a) /\ pc'[a] = l
  BY DEF Moves, Goto, ThreadsOK

\* A broadcast wakes sleepers, which then check for work.
LEMMA BroadcastMoves ==
    ASSUME ThreadsOK, NEW f, NEW l \in InitiatorLabels, Broadcast(f, l), GCThreads' = GCThreads
    PROVE  /\ ThreadsOK' /\ Threads' = Threads /\ pc[Initiator] = f /\ pc'[Initiator] = l
           /\ \A g \in GCThreads : pc'[g] = pc[g] \/ (pc[g] = "asleep" /\ pc'[g] = "check")
  <1>1. Threads' = Threads
    BY DEF Threads
  <1>2. "check" \in HelperLabels
    BY DEF HelperLabels
  <1>3. /\ pc[Initiator] = f /\ pc'[Initiator] = l
        /\ \A g \in GCThreads : pc'[g] = pc[g] \/ (pc[g] = "asleep" /\ pc'[g] = "check")
    BY Crew DEF Broadcast
  <1>4. pc' \in [Threads -> InitiatorLabels \cup HelperLabels]
    <2>1. \A a \in Threads : (IF a = Initiator THEN l ELSE IF pc[a] = "asleep" THEN "check" ELSE pc[a])
                             \in InitiatorLabels \cup HelperLabels
      BY SMT, <1>2 DEF ThreadsOK
    <2> QED
      BY <2>1 DEF Broadcast
  <1> QED
    BY <1>1, <1>2, <1>3, <1>4 DEF ThreadsOK

\* How a count of threads changes with what one of them does.
LEMMA Counts ==
    ASSUME ThreadsOK, NEW S \in SUBSET Threads, NEW T \in SUBSET Threads, NEW a \in Threads
    PROVE  /\ Cardinality(S) \in Nat
           /\ a \notin S /\ T = S \cup {a} => Cardinality(T) = Cardinality(S) + 1
           /\ a \in S /\ T = S \ {a} => Cardinality(T) = Cardinality(S) - 1
           /\ Cardinality(S) = 0 => S = {}
  <1>1. IsFiniteSet(S)
    BY Crew, FS_Subset
  <1> USE <1>1
  <1>2. Cardinality(S) \in Nat
    BY FS_CardinalityType
  <1>3. ASSUME a \notin S, T = S \cup {a} PROVE Cardinality(T) = Cardinality(S) + 1
    BY <1>3, FS_AddElement
  <1>4. ASSUME a \in S, T = S \ {a} PROVE Cardinality(T) = Cardinality(S) - 1
    BY <1>4, FS_RemoveElement
  <1> QED
    BY <1>2, <1>3, <1>4, FS_EmptySet

-----------------------------------------------------------------------------
(* The mark loop: who is in it, and who is about to join.                    *)

\* A step of others: nobody enters or leaves the loop or what leads to it.
LEMMA LoopFrame ==
    ASSUME LoopInv, ThreadsOK', GCThreads' = GCThreads, UNCHANGED <<tid, n_marking, observer_lock, dip>>,
           \A b \in Threads : \/ pc'[b] = pc[b]
                              \/ /\ pc[b] \notin LoopLabels \cup {"wake", "observe", "count"}
                                 /\ pc'[b] \notin LoopLabels \cup {"wake", "count"},
           \/ pc'[Initiator] = pc[Initiator]
           \/ pc[Initiator] \in QuietPhase \cup {"tid"} /\ pc'[Initiator] \in QuietPhase \cup {"tid"}
    PROVE  LoopInv'
  <1> USE DEF LoopInv
  <1>0. Threads' = Threads
    BY DEF Threads
  <1> USE <1>0
  <1>1. \A b \in Threads : Marking(b)' <=> Marking(b)
    BY DEF Marking
  <1>2. MarkCount'
    BY <1>1 DEF MarkCount
  <1>3. \A l \in QuietPhase \cup {"tid"} : l \notin MarkPhase
    BY SMT DEF QuietPhase, MarkPhase, StackPhase, PagePhase, StackLabels, PageLabels
  <1>4. TidOK'
    BY <1>3 DEF TidOK
  <1>5. ObserverLock'
    BY DEF ObserverLock
  <1>7. \A l \in QuietPhase \cup {"tid"} : l \notin {"inc", "barrier"}
    BY SMT DEF QuietPhase, MarkPhase, StackPhase, PagePhase, StackLabels, PageLabels
  <1>8. tid' = Null \/ pc'[Initiator] \in {"inc", "barrier"} => tid = Null \/ pc[Initiator] \in {"inc", "barrier"}
    BY <1>7
  <1>9. Alone'
    BY <1>8, Crew DEF Alone
  <1>10. Dips'
    BY DEF Dips, LoopLabels, MarkLabels
  <1> QED
    BY <1>2, <1>4, <1>5, <1>9, <1>10

\* A step inside gc_mark_and_steal keeps the invariant of the mark loop.
LEMMA MarkMoveLoop ==
    ASSUME LoopInv, NEW a \in Threads, MarkMove(a), Dips'
    PROVE  LoopInv'
  <1> USE DEF LoopInv, MarkMove
  <1>1. ThreadsOK' /\ Threads' = Threads /\ GCThreads' = GCThreads
    BY MovesThreads DEF Moves
  <1> USE <1>1
  <1>2. \A b \in Threads : b # a => pc'[b] = pc[b]
    BY DEF Moves
  <1> USE <1>2
  <1>3. \A b \in Threads : Marking(b)' <=> Marking(b)
    BY DEF Marking, LoopLabels, MarkLabels
  <1>4. MarkCount'
    BY <1>3 DEF MarkCount
  <1>5. TidOK'
    <2>1. "stack_start" \notin MarkPhase /\ "dec" \notin QuietPhase \cup {"tid"}
      BY SMT DEF QuietPhase, MarkPhase, StackPhase, PagePhase, StackLabels, PageLabels
    <2>2. \A l \in MarkLabels : l \notin MarkPhase /\ l \notin QuietPhase \cup {"tid"}
      BY SMT DEF MarkLabels, QuietPhase, MarkPhase, StackPhase, PagePhase, StackLabels, PageLabels
    <2>3. CASE a = Initiator
      BY <2>1, <2>2, <2>3 DEF TidOK
    <2>4. CASE a # Initiator
      BY <2>4, Crew DEF TidOK
    <2> QED
      BY <2>3, <2>4
  <1>6. ObserverLock'
    BY DEF ObserverLock, MarkLabels
  <1>7. Alone'
    <2>1. tid' = Null \/ pc'[Initiator] \in {"inc", "barrier"} => tid = Null \/ pc[Initiator] \in {"inc", "barrier"}
      BY Crew DEF MarkLabels
    <2> QED
      BY <2>1, Crew DEF Alone, LoopLabels, MarkLabels
  <1> QED
    BY <1>4, <1>5, <1>6, <1>7

\* Outside the initiator's mark loop nobody is counted.
LEMMA NobodyMarks ==
    ASSUME LoopInv, tid = Null \/ pc[Initiator] \in {"inc", "barrier"}
    PROVE  n_marking = 0
  <1>1. "inc" \notin LoopLabels /\ "barrier" \notin LoopLabels /\ "wake" \notin QuietPhase \cup {"tid"} /\ "wake" \notin HelperLabels /\ "wake" \in MarkPhase
    BY SMT DEF LoopLabels, MarkLabels, MarkPhase, QuietPhase, StackPhase, PagePhase, StackLabels, PageLabels,
         HelperLabels
  <1>2. \A a \in Threads : ~Marking(a)
    <2>1. ASSUME NEW g \in GCThreads PROVE ~Marking(g)
      BY <1>1, <2>1, Crew DEF Marking, LoopInv, Alone, ThreadsOK
    <2>2. ~Marking(Initiator)
      BY <1>1, ThreadsDistinct DEF Marking, LoopInv, TidOK
    <2> QED
      BY <2>1, <2>2, Crew DEF LoopInv
  <1>3. {a \in Threads : Marking(a)} = {}
    BY <1>2
  <1> QED
    BY <1>3, FS_EmptySet DEF LoopInv, MarkCount

\* And when nobody is counted nobody is in the loop.
LEMMA NobodyInLoop ==
    ASSUME LoopInv, n_marking = 0
    PROVE  /\ \A a \in Threads : ~Marking(a)
           /\ \A g \in GCThreads : pc[g] \notin LoopLabels
  <1>1. {a \in Threads : Marking(a)} = {}
    <2>1. {a \in Threads : Marking(a)} \in SUBSET Threads /\ Initiator \in Threads
      BY Crew DEF LoopInv
    <2> QED
      BY <2>1, Counts DEF LoopInv, MarkCount
  <1>2. \A a \in Threads : ~Marking(a)
    BY <1>1
  <1> QED
    BY <1>2, Crew DEF Marking, LoopInv

\* Labels are where they belong.
LEMMA Labels ==
    /\ MarkLabels \subseteq InitiatorLabels /\ LoopLabels \subseteq HelperLabels
    /\ "stack_start" \in InitiatorLabels /\ "dec" \in InitiatorLabels
  BY SMT DEF InitiatorLabels, HelperLabels, LoopLabels, MarkLabels, MarkPhase, QuietPhase

\* Thread a goes to a label of the mark loop, and dips at most then.
LEMMA MarkGoes ==
    ASSUME LoopInv, NEW a \in Threads, NEW l \in MarkLabels, Goto(a, l), pc[a] \in MarkLabels,
           UNCHANGED <<tid, n_marking, observer_lock, stack_req>>
    PROVE  MarkMove(a) /\ pc'[a] = l
  <1>1. GCThreads' = GCThreads
    BY DEF GCThreads
  <1>2. Moves(a) /\ pc'[a] = l
    BY <1>1, GotoMoves, Labels DEF LoopInv, LoopLabels
  <1> QED
    BY <1>2 DEF MarkMove

\* So is a step that leaves the program counters and the loop's words alone.
LEMMA MarkStays ==
    ASSUME LoopInv, NEW a \in Threads, UNCHANGED <<pc, tid, n_marking, observer_lock, stack_req>>
    PROVE  MarkMove(a)
  <1>1. GCThreads' = GCThreads
    BY DEF GCThreads
  <1>2. a = Initiator \/ a \in GCThreads
    BY Crew DEF LoopInv
  <1> QED
    BY <1>1, <1>2, Crew DEF MarkMove, Moves, LoopInv, ThreadsOK

\* The window of a pop stays open only at the labels that follow a pop.
LEMMA DipsFrame ==
    ASSUME LoopInv, NEW a \in Threads, Moves(a), dip' \in [Threads -> {"", "ptr", "chunk"}],
           \A b \in Threads : b # a => dip'[b] = dip[b],
           dip'[a] # "" => pc'[a] \in {"pop_chunk", "mark_chunk", "steal", "scan"}
    PROVE  Dips'
  BY MovesThreads DEF LoopInv, Dips, Moves

\* The steps of gc_mark_and_steal, one by one: a pop of the thread's own pointers,
LEMMA PopPtrMoves ==
    ASSUME LoopInv, NEW a \in Threads, PopPtr(a)
    PROVE  MarkMove(a) /\ Dips' /\ Aside
  <1> USE DEF Aside, marking, counting, requests, stacks, pools, heap
  <1>1. Aside /\ (Goto(a, "pop_chunk") \/ Goto(a, "scan")) /\ pc[a] = "pop_ptr"
    BY DEF PopPtr
  <1> USE <1>1
  <1>2. MarkMove(a) /\ pc'[a] \in {"pop_chunk", "scan"}
    BY MarkGoes DEF MarkLabels
  <1>3. Dips'
    BY <1>2, DipsFrame DEF PopPtr, MarkMove, LoopInv, Dips
  <1> QED
    BY <1>2, <1>3

\* a pop of its own chunks,
LEMMA PopChunkMoves ==
    ASSUME LoopInv, NEW a \in Threads, PopChunk(a)
    PROVE  MarkMove(a) /\ Dips' /\ Aside
  <1> USE DEF Aside, marking, counting, requests, stacks, pools, heap
  <1>1. Aside /\ (Goto(a, "steal") \/ Goto(a, "mark_chunk")) /\ pc[a] = "pop_chunk"
    BY DEF PopChunk
  <1> USE <1>1
  <1>2. MarkMove(a) /\ pc'[a] \in {"steal", "mark_chunk"}
    BY MarkGoes DEF MarkLabels
  <1>3. Dips'
    BY <1>2, DipsFrame DEF PopChunk, MarkMove, LoopInv, Dips
  <1> QED
    BY <1>2, <1>3

\* the store that ends a pop,
LEMMA RestoreMoves ==
    ASSUME LoopInv, NEW a \in Threads, Restore(a)
    PROVE  MarkMove(a) /\ Dips' /\ Aside
  <1> USE DEF Aside, marking, counting, requests, stacks, pools, heap
  <1>1. Aside /\ pc' = pc
    BY DEF Restore
  <1> USE <1>1
  <1>2. MarkMove(a)
    BY MarkStays
  <1>3. Dips'
    BY <1>2, DipsFrame DEF Restore, MarkMove, LoopInv, Dips
  <1> QED
    BY <1>2, <1>3

\* the start of a chunk,
LEMMA gc_mark_chunkMoves ==
    ASSUME LoopInv, NEW a \in Threads, gc_mark_chunk(a)
    PROVE  MarkMove(a) /\ Dips' /\ Aside
  <1> USE DEF Aside, marking, counting, requests, stacks, pools, heap
  <1>1. Aside /\ Goto(a, "scan") /\ pc[a] = "mark_chunk"
    BY DEF gc_mark_chunk, Step
  <1> USE <1>1
  <1>2. MarkMove(a) /\ pc'[a] = "scan"
    BY MarkGoes DEF MarkLabels
  <1>3. Dips'
    BY <1>2, DipsFrame DEF gc_mark_chunk, MarkMove, LoopInv, Dips
  <1> QED
    BY <1>2, <1>3

\* an item taken from another queue,
LEMMA StolenMoves ==
    ASSUME LoopInv, NEW a \in Threads, NEW q, pc[a] = "steal", Stolen(a, q)
    PROVE  MarkMove(a) /\ Dips' /\ Aside
  <1> USE DEF Aside, marking, counting, requests, stacks, pools, heap
  <1>1. Aside /\ (Goto(a, "scan") \/ Goto(a, "mark_chunk")) /\ pc[a] = "steal"
    BY DEF Stolen
  <1> USE <1>1
  <1>2. MarkMove(a) /\ pc'[a] \in {"scan", "mark_chunk"}
    BY MarkGoes DEF MarkLabels
  <1>3. Dips'
    BY <1>2, DipsFrame DEF Stolen, MarkMove, LoopInv, Dips
  <1> QED
    BY <1>2, <1>3

\* a look at the next queue of the walk,
LEMMA StealLookMoves ==
    ASSUME LoopInv, NEW a \in Threads, StealLook(a)
    PROVE  MarkMove(a) /\ Dips' /\ Aside
  <1> USE DEF Aside, marking, counting, requests, stacks, pools, heap
  <1>1. Aside /\ pc' = pc
    BY DEF StealLook
  <1> USE <1>1
  <1>2. MarkMove(a)
    BY MarkStays
  <1>3. Dips'
    BY <1>2, DipsFrame DEF StealLook, MarkMove, LoopInv, Dips
  <1> QED
    BY <1>2, <1>3

\* an attempt that failed,
LEMMA StealLostMoves ==
    ASSUME LoopInv, NEW a \in Threads, StealLost(a)
    PROVE  MarkMove(a) /\ Dips' /\ Aside
  <1> USE DEF Aside, marking, counting, requests, stacks, pools, heap
  <1>1. Aside /\ pc' = pc
    BY DEF StealLost
  <1> USE <1>1
  <1>2. MarkMove(a)
    BY MarkStays
  <1>3. Dips'
    BY <1>2, DipsFrame DEF StealLost, MarkMove, LoopInv, Dips
  <1> QED
    BY <1>2, <1>3

\* the end of the walk,
LEMMA StealNothingMoves ==
    ASSUME LoopInv, NEW a \in Threads, StealNothing(a)
    PROVE  MarkMove(a) /\ Dips' /\ Aside
  <1> USE DEF Aside, marking, counting, requests, stacks, pools, heap
  <1>1. Aside /\ pc[a] = "steal" /\ dip' = dip /\ dip[a] = ""
        /\ Goto(a, IF tid = Null THEN "stack_start" ELSE "dec")
    BY DEF StealNothing, Step
  <1> USE <1>1
  <1>2. GCThreads' = GCThreads
    BY DEF GCThreads
  <1>3. tid = Null => a = Initiator
    BY Crew DEF LoopInv, Alone, LoopLabels, MarkLabels
  <1>4. CASE tid = Null
    <2>1. Moves(a) /\ pc'[a] = "stack_start"
      BY <1>2, <1>3, <1>4, GotoMoves, Labels DEF LoopInv
    <2> QED
      BY <1>3, <1>4, <2>1, DipsFrame DEF LoopInv, Dips, MarkMove, MarkLabels
  <1>5. CASE tid # Null
    <2>1. Moves(a) /\ pc'[a] = "dec"
      BY <1>2, <1>5, GotoMoves, Labels DEF LoopInv, LoopLabels
    <2> QED
      BY <1>5, <2>1, DipsFrame DEF LoopInv, Dips, MarkMove, MarkLabels
  <1> QED
    BY <1>4, <1>5

\* a look at a reference,
LEMMA LookMoves ==
    ASSUME LoopInv, NEW a \in Threads, Look(a)
    PROVE  MarkMove(a) /\ Dips' /\ Aside
  <1> USE DEF Aside, marking, counting, requests, stacks, pools, heap
  <1>1. Aside /\ (pc' = pc \/ Goto(a, "claim")) /\ pc[a] = "scan" /\ dip' = dip /\ dip[a] = ""
    BY DEF Look
  <1> USE <1>1
  <1>2. MarkMove(a)
    BY MarkGoes, MarkStays DEF MarkLabels
  <1>3. Dips'
    BY <1>2, DipsFrame DEF MarkMove, LoopInv, Dips
  <1> QED
    BY <1>2, <1>3

\* the claim of an object,
LEMMA ClaimMoves ==
    ASSUME LoopInv, NEW a \in Threads, Claim(a)
    PROVE  MarkMove(a) /\ Dips' /\ Aside
  <1> USE DEF Aside, marking, counting, requests, stacks, pools, heap
  <1>1. Aside /\ Goto(a, "scan") /\ pc[a] = "claim"
    BY DEF Claim, Step
  <1> USE <1>1
  <1>2. MarkMove(a) /\ pc'[a] = "scan"
    BY MarkGoes DEF MarkLabels
  <1>3. Dips'
    BY <1>2, DipsFrame DEF Claim, MarkMove, LoopInv, Dips
  <1> QED
    BY <1>2, <1>3

\* and the end of a scan.
LEMMA ScannedMoves ==
    ASSUME LoopInv, NEW a \in Threads, Scanned(a)
    PROVE  MarkMove(a) /\ Dips' /\ Aside
  <1> USE DEF Aside, marking, counting, requests, stacks, pools, heap
  <1>1. Aside /\ Goto(a, "pop_ptr") /\ pc[a] = "scan"
    BY DEF Scanned, Step
  <1> USE <1>1
  <1>2. MarkMove(a) /\ pc'[a] = "pop_ptr"
    BY MarkGoes DEF MarkLabels
  <1>3. Dips'
    BY <1>2, DipsFrame DEF Scanned, MarkMove, LoopInv, Dips
  <1> QED
    BY <1>2, <1>3

\* Hence every step of gc_mark_and_steal moves its thread within the loop only.
LEMMA MarkAndStealMoves ==
    ASSUME LoopInv, NEW a \in Threads, MarkAndSteal(a)
    PROVE  MarkMove(a) /\ Dips' /\ Aside
  <1>1. StealRandom(a) \/ StealTry(a) => pc[a] = "steal" /\ \E q : Stolen(a, q)
    BY DEF StealRandom, StealTry
  <1> QED
    BY <1>1, PopPtrMoves, PopChunkMoves, RestoreMoves, gc_mark_chunkMoves, StolenMoves, StealLookMoves,
         StealLostMoves, StealNothingMoves, LookMoves, ClaimMoves, ScannedMoves DEF MarkAndSteal

-----------------------------------------------------------------------------
(* Entering and leaving the mark loop.                                       *)

\* The labels of the initiator outside gc_mark_and_steal tell the phase.
LEMMA Phases ==
    /\ \A l \in MarkPhase : l \notin QuietPhase \cup {"tid"}
    /\ \A l \in MarkLabels : l \notin MarkPhase /\ l \notin QuietPhase \cup {"tid"}
    /\ \A l \in QuietPhase \cup {"tid"} : l \notin LoopLabels \cup {"wake", "observe", "count", "inc", "barrier"}
    /\ MarkPhase \cup QuietPhase \cup {"tid"} \subseteq InitiatorLabels
    /\ "wake" \notin HelperLabels
  BY SMT DEF QuietPhase, MarkPhase, MarkLabels, LoopLabels, StackPhase, PagePhase, StackLabels, PageLabels,
       InitiatorLabels, HelperLabels

\* The initiator moves between two labels that count nothing.
LEMMA SetTidLoop ==
    ASSUME LoopInv, SetTid
    PROVE  LoopInv'
  <1> USE DEF LoopInv
  <1>1. pc[Initiator] = "tid" /\ Goto(Initiator, "inc") /\ tid' = Initiator /\ tid = Null
        /\ UNCHANGED <<n_marking, observer_lock, dip, stack_req>>
    BY DEF SetTid, Step, TidOK, counting, requests
  <1> USE <1>1
  <1>2. GCThreads' = GCThreads /\ Initiator \in Threads
    BY Crew DEF GCThreads
  <1> USE <1>2
  <1>3. Moves(Initiator) /\ pc'[Initiator] = "inc"
    BY GotoMoves, Phases DEF MarkPhase
  <1> USE <1>3
  <1>4. ThreadsOK' /\ Threads' = Threads /\ \A g \in GCThreads : g \in Threads /\ g # Initiator /\ pc'[g] = pc[g]
    BY MovesThreads, Crew DEF Moves
  <1> USE <1>4
  <1>5. \A b \in Threads : Marking(b)' <=> Marking(b)
    BY Crew DEF Marking, LoopLabels, MarkLabels
  <1>6. MarkCount'
    BY <1>5 DEF MarkCount
  <1>7. TidOK'
    BY Phases DEF TidOK, MarkPhase
  <1>8. ObserverLock'
    BY Crew DEF ObserverLock
  <1>9. Alone'
    BY DEF Alone
  <1>10. Dips'
    BY Crew DEF Dips
  <1> QED
    BY <1>6, <1>7, <1>8, <1>9, <1>10

\* The initiator counts itself in before it wakes the others,
LEMMA StartMarkingLoop ==
    ASSUME LoopInv, StartMarking
    PROVE  LoopInv'
  <1> USE DEF LoopInv
  <1>1. pc[Initiator] = "inc" /\ Goto(Initiator, "wake") /\ n_marking' = n_marking + 1
        /\ UNCHANGED <<tid, observer_lock, dip, stack_req>>
    BY DEF StartMarking, Step, counting, requests
  <1> USE <1>1
  <1>2. GCThreads' = GCThreads /\ Initiator \in Threads
    BY Crew DEF GCThreads
  <1> USE <1>2
  <1>3. Moves(Initiator) /\ pc'[Initiator] = "wake"
    BY GotoMoves, Phases DEF MarkPhase
  <1> USE <1>3
  <1>4. ThreadsOK' /\ Threads' = Threads /\ \A g \in GCThreads : g \in Threads /\ g # Initiator /\ pc'[g] = pc[g]
    BY MovesThreads, Crew DEF Moves
  <1> USE <1>4
  <1>5. ~Marking(Initiator) /\ Marking(Initiator)' /\ \A g \in GCThreads : Marking(g)' <=> Marking(g)
    BY Crew DEF Marking, LoopLabels, MarkLabels
  <1>6. {b \in Threads : Marking(b)'} = {b \in Threads : Marking(b)} \cup {Initiator}
    BY <1>5, Crew
  <1>7. MarkCount'
    <2>1. Cardinality({b \in Threads : Marking(b)'}) = Cardinality({b \in Threads : Marking(b)}) + 1
      BY <1>5, <1>6, Counts
    <2> QED
      BY <2>1 DEF MarkCount
  <1>8. TidOK'
    BY Phases DEF TidOK, MarkPhase
  <1>9. ObserverLock'
    BY Crew DEF ObserverLock
  <1>10. Alone'
    BY DEF Alone
  <1>11. Dips'
    BY Crew DEF Dips
  <1> QED
    BY <1>7, <1>8, <1>9, <1>10, <1>11

\* wakes them while it is counted,
LEMMA WakeLoop ==
    ASSUME LoopInv, gc_wake_all_for_marking
    PROVE  LoopInv'
  <1> USE DEF LoopInv
  <1>1. Broadcast("wake", "pop_ptr") /\ UNCHANGED <<tid, n_marking, observer_lock, dip, stack_req>>
    BY DEF gc_wake_all_for_marking, marking, counting, requests
  <1> USE <1>1
  <1>2. GCThreads' = GCThreads /\ "pop_ptr" \in InitiatorLabels
    BY Labels DEF GCThreads, MarkLabels
  <1>3. /\ ThreadsOK' /\ Threads' = Threads /\ pc[Initiator] = "wake" /\ pc'[Initiator] = "pop_ptr"
        /\ \A g \in GCThreads : pc'[g] = pc[g] \/ (pc[g] = "asleep" /\ pc'[g] = "check")
    BY <1>2, BroadcastMoves
  <1> USE <1>3
  <1>4. tid = Initiator /\ tid # Null
    BY ThreadsDistinct DEF TidOK, MarkPhase
  <1> USE <1>4
  <1>5. \A b \in Threads : Marking(b)' <=> Marking(b)
    BY Crew DEF Marking, LoopLabels, MarkLabels
  <1>6. MarkCount'
    BY <1>5 DEF MarkCount
  <1>7. TidOK'
    BY Phases DEF TidOK, MarkLabels
  <1>8. ObserverLock'
    BY Crew DEF ObserverLock
  <1>9. Alone'
    BY DEF Alone
  <1>10. Dips'
    BY Crew DEF Dips
  <1> QED
    BY <1>6, <1>7, <1>8, <1>9, <1>10

\* and a thread that found no work counts itself out.
LEMMA StopMarkingLoop ==
    ASSUME LoopInv, NEW a \in Threads, StopMarking(a)
    PROVE  LoopInv' /\ Moves(a) /\ pc'[a] = "observe"
  <1> USE DEF LoopInv
  <1>1. pc[a] = "dec" /\ Goto(a, "observe") /\ n_marking' = n_marking - 1
        /\ UNCHANGED <<tid, observer_lock, dip, stack_req>>
    BY DEF StopMarking, Step, counting, requests
  <1> USE <1>1
  <1>2. GCThreads' = GCThreads
    BY DEF GCThreads
  <1>3. Moves(a) /\ pc'[a] = "observe"
    BY <1>2, GotoMoves, Phases DEF MarkPhase, HelperLabels
  <1> USE <1>3
  <1>4. ThreadsOK' /\ Threads' = Threads /\ \A b \in Threads : b # a => pc'[b] = pc[b]
    BY MovesThreads DEF Moves
  <1> USE <1>4
  <1>5. Marking(a) /\ ~Marking(a)' /\ \A b \in Threads : b # a => (Marking(b)' <=> Marking(b))
    BY ThreadsDistinct DEF Marking, LoopLabels, MarkLabels, TidOK, MarkPhase
  <1>6. {b \in Threads : Marking(b)'} = {b \in Threads : Marking(b)} \ {a}
    BY <1>5
  <1>7. MarkCount'
    <2>1. Cardinality({b \in Threads : Marking(b)'}) = Cardinality({b \in Threads : Marking(b)}) - 1
      BY <1>5, <1>6, Counts
    <2> QED
      BY <2>1 DEF MarkCount
  <1>8. TidOK'
    <2>1. CASE a = Initiator
      BY <2>1, Phases DEF TidOK, MarkPhase
    <2>2. CASE a # Initiator
      BY <2>2, Crew DEF TidOK
    <2> QED
      BY <2>1, <2>2
  <1>9. ObserverLock'
    BY DEF ObserverLock
  <1>10. Alone'
    <2>1. tid' = Null \/ pc'[Initiator] \in {"inc", "barrier"} => tid = Null \/ pc[Initiator] \in {"inc", "barrier"}
      BY Crew
    <2> QED
      BY <1>2, <2>1, Crew DEF Alone, LoopLabels, MarkLabels
  <1>11. Dips'
    BY DEF Dips
  <1> QED
    BY <1>7, <1>8, <1>9, <1>10, <1>11

\* gc_should_mark: whoever finds the loop over finds it empty; the initiator
\* then knows, by the lock, that nobody is about to join.
LEMMA LoadMarkingLoop ==
    ASSUME LoopInv, NEW a \in Threads, LoadMarking(a)
    PROVE  LoopInv' /\ Moves(a) /\ pc[a] = "observe" /\ pc'[a] \in {"count", "barrier", "stacks"}
  <1> USE DEF LoopInv
  <1>1. pc[a] = "observe" /\ observer_lock \in {Null, a} /\ UNCHANGED <<tid, n_marking, dip, stack_req>>
    BY DEF LoadMarking, marking, requests
  <1> USE <1>1
  <1>2. GCThreads' = GCThreads
    BY DEF GCThreads
  <1> USE <1>2
  <1>3. CASE n_marking = 0
    <2> DEFINE l == IF a = Initiator THEN "barrier" ELSE "stacks"
    <2>1. Goto(a, l) /\ observer_lock' = Null
      BY <1>3 DEF LoadMarking, Unlock
    <2>2. a = Initiator => l \in InitiatorLabels
      BY Phases DEF MarkPhase
    <2>3. a # Initiator => l \in HelperLabels
      BY DEF HelperLabels
    <2>4. Moves(a) /\ pc'[a] = l
      BY <2>1, <2>2, <2>3, GotoMoves
    <2> USE <2>4
    <2>5. ThreadsOK' /\ Threads' = Threads /\ \A b \in Threads : b # a => pc'[b] = pc[b]
      BY MovesThreads DEF Moves
    <2> USE <2>5
    <2>6. l \in {"barrier", "stacks"}
      OBVIOUS
    <2> USE <2>6
    <2>7. \A b \in Threads : Marking(b)' <=> Marking(b)
      BY DEF Marking, LoopLabels, MarkLabels
    <2>8. MarkCount'
      BY <2>7 DEF MarkCount
    <2>9. TidOK'
      <3>1. CASE a = Initiator
        BY <3>1, Phases DEF TidOK, MarkPhase
      <3>2. CASE a # Initiator
        BY <3>2, Crew DEF TidOK
      <3> QED
        BY <3>1, <3>2
    <2>10. \A b \in Threads : pc'[b] # "count"
      BY Crew DEF ObserverLock
    <2>11. ObserverLock'
      BY <2>1, <2>10, Crew DEF ObserverLock
    <2>12. Alone'
      <3>1. \A g \in GCThreads : pc[g] \notin LoopLabels
        BY <1>3, NobodyInLoop
      <3>2. \A g \in GCThreads : pc'[g] \notin LoopLabels \cup {"count"}
        BY <2>10, <3>1, Crew DEF LoopLabels, MarkLabels
      <3> QED
        BY <3>2 DEF Alone
    <2>13. Dips'
      BY DEF Dips
    <2> QED
      BY <2>8, <2>9, <2>11, <2>12, <2>13
  <1>4. CASE n_marking # 0
    <2>1. Goto(a, "count") /\ observer_lock' = a
      BY <1>4 DEF LoadMarking
    <2>2. Moves(a) /\ pc'[a] = "count"
      BY <2>1, GotoMoves, Phases DEF MarkPhase, HelperLabels
    <2> USE <2>2
    <2>3. ThreadsOK' /\ Threads' = Threads /\ \A b \in Threads : b # a => pc'[b] = pc[b]
      BY MovesThreads DEF Moves
    <2> USE <2>3
    <2>4. \A b \in Threads : Marking(b)' <=> Marking(b)
      BY DEF Marking, LoopLabels, MarkLabels
    <2>5. MarkCount'
      BY <2>4 DEF MarkCount
    <2>6. TidOK'
      <3>1. CASE a = Initiator
        BY <3>1, Phases DEF TidOK, MarkPhase
      <3>2. CASE a # Initiator
        BY <3>2, Crew DEF TidOK
      <3> QED
        BY <3>1, <3>2
    <2>7. \A b \in Threads : b # a => pc[b] # "count" /\ observer_lock # b
      BY Crew DEF ObserverLock
    <2>8. ObserverLock'
      BY <2>1, <2>7 DEF ObserverLock
    <2>9. Alone'
      <3>1. tid' # Null /\ pc'[Initiator] \notin {"inc", "barrier"}
        BY <1>4, NobodyMarks, Crew
      <3> QED
        BY <3>1 DEF Alone
    <2>10. Dips'
      BY DEF Dips
    <2> QED
      BY <2>5, <2>6, <2>8, <2>9, <2>10
  <1> QED
    BY <1>3, <1>4

\* The observer that counts work only adds to what it has seen.
LEMMA CountWorkLoop ==
    ASSUME LoopInv, NEW a \in Threads, CountWork(a)
    PROVE  LoopInv' /\ Moves(a) /\ pc' = pc
  <1>1. UNCHANGED <<pc, tid, n_marking, observer_lock, stack_req, dip>>
    BY DEF CountWork, marking, requests
  <1> USE <1>1
  <1>2. MarkMove(a)
    BY MarkStays
  <1>3. Dips'
    BY <1>2, DipsFrame DEF MarkMove, LoopInv, Dips
  <1> QED
    BY <1>2, <1>3, MarkMoveLoop DEF MarkMove

\* A thread that joins holds the lock, so the initiator is still in the loop.
LEMMA DecideLoop ==
    ASSUME LoopInv, NEW a \in Threads, Decide(a)
    PROVE  LoopInv' /\ Moves(a) /\ pc[a] = "count" /\ pc'[a] \in {"pop_ptr", "observe"}
  <1> USE DEF LoopInv
  <1>1. pc[a] = "count" /\ UNCHANGED <<tid, dip, stack_req>>
    BY DEF Decide, requests
  <1> USE <1>1
  <1>2. GCThreads' = GCThreads
    BY DEF GCThreads
  <1>3. tid # Null /\ tid = Initiator /\ pc[Initiator] \notin {"inc", "barrier"}
    BY Crew, ThreadsDistinct DEF Alone, TidOK, MarkPhase
  <1> USE <1>3
  <1>4. CASE Goto(a, "observe") /\ UNCHANGED <<n_marking, observer_lock>>
    <2>1. Moves(a) /\ pc'[a] = "observe"
      BY <1>2, <1>4, GotoMoves, Phases DEF MarkPhase, HelperLabels
    <2> USE <2>1
    <2>2. ThreadsOK' /\ Threads' = Threads /\ \A b \in Threads : b # a => pc'[b] = pc[b]
      BY MovesThreads DEF Moves
    <2> USE <2>2
    <2>3. \A b \in Threads : Marking(b)' <=> Marking(b)
      BY DEF Marking, LoopLabels, MarkLabels
    <2>4. MarkCount'
      BY <1>4, <2>3 DEF MarkCount
    <2>5. TidOK'
      <3>1. CASE a = Initiator
        BY <3>1, Phases DEF TidOK, MarkPhase
      <3>2. CASE a # Initiator
        BY <3>2, Crew DEF TidOK
      <3> QED
        BY <3>1, <3>2
    <2>6. ObserverLock'
      BY <1>4 DEF ObserverLock
    <2>7. Alone'
      BY Crew DEF Alone
    <2>8. Dips'
      BY DEF Dips
    <2> QED
      BY <2>4, <2>5, <2>6, <2>7, <2>8
  <1>5. CASE Goto(a, "pop_ptr") /\ n_marking' = n_marking + 1 /\ observer_lock' = Null
    <2>1. Moves(a) /\ pc'[a] = "pop_ptr"
      BY <1>2, <1>5, GotoMoves, Labels DEF MarkLabels, LoopLabels
    <2> USE <2>1
    <2>2. ThreadsOK' /\ Threads' = Threads /\ \A b \in Threads : b # a => pc'[b] = pc[b]
      BY MovesThreads DEF Moves
    <2>3. ~Marking(a) /\ Marking(a)' /\ \A b \in Threads : b # a => (Marking(b)' <=> Marking(b))
      BY <2>2 DEF Marking, LoopLabels, MarkLabels
    <2>4. {b \in Threads : Marking(b)'} = {b \in Threads : Marking(b)} \cup {a}
      BY <2>3
    <2>5. MarkCount'
      <3>1. Cardinality({b \in Threads : Marking(b)'}) = Cardinality({b \in Threads : Marking(b)}) + 1
        BY <2>3, <2>4, Counts
      <3> QED
        BY <1>5, <2>2, <3>1 DEF MarkCount
    <2>6. TidOK'
      <3>1. CASE a = Initiator
        BY <3>1, Phases DEF TidOK, MarkLabels
      <3>2. CASE a # Initiator
        BY <2>2, <3>2, Crew DEF TidOK
      <3> QED
        BY <3>1, <3>2
    <2>7. \A b \in Threads : b # a => pc[b] # "count"
      BY DEF ObserverLock
    <2>8. ObserverLock'
      BY <1>5, <2>2, <2>7, Crew DEF ObserverLock
    <2>9. Alone'
      BY <2>2, Crew DEF Alone
    <2>10. Dips'
      BY <2>2 DEF Dips
    <2> QED
      BY <2>2, <2>5, <2>6, <2>8, <2>9, <2>10
  <1> QED
    BY <1>4, <1>5 DEF Decide, Unlock

\* The end of the mark phase, by the initiator.
LEMMA BarrierLoop ==
    ASSUME LoopInv, gc_mark_loop_barrier
    PROVE  LoopInv'
  <1> USE DEF LoopInv
  <1>1. pc[Initiator] = "barrier" /\ Goto(Initiator, "clean") /\ tid' = Null
        /\ UNCHANGED <<n_marking, observer_lock, dip, stack_req>>
    BY DEF gc_mark_loop_barrier, Step, counting, requests
  <1> USE <1>1
  <1>2. GCThreads' = GCThreads /\ Initiator \in Threads
    BY Crew DEF GCThreads
  <1> USE <1>2
  <1>3. Moves(Initiator) /\ pc'[Initiator] = "clean"
    BY GotoMoves, Phases DEF QuietPhase
  <1> USE <1>3
  <1>4. ThreadsOK' /\ Threads' = Threads /\ \A g \in GCThreads : g \in Threads /\ g # Initiator /\ pc'[g] = pc[g]
    BY MovesThreads, Crew DEF Moves
  <1> USE <1>4
  <1>5. \A b \in Threads : Marking(b)' <=> Marking(b)
    BY Crew DEF Marking, LoopLabels, MarkLabels
  <1>6. MarkCount'
    BY <1>5 DEF MarkCount
  <1>7. TidOK'
    BY Phases DEF TidOK, QuietPhase
  <1>8. ObserverLock'
    BY Crew DEF ObserverLock
  <1>9. Alone'
    BY DEF Alone
  <1>10. Dips'
    BY Crew DEF Dips
  <1> QED
    BY <1>6, <1>7, <1>8, <1>9, <1>10

\* A step of thread a that concerns neither the loop nor what leads to it.
LEMMA ElsewhereLoop ==
    ASSUME LoopInv, NEW a \in Threads, Moves(a), UNCHANGED <<tid, n_marking, observer_lock, dip>>,
           pc[a] \notin LoopLabels \cup {"wake", "observe", "count"},
           pc'[a] \notin LoopLabels \cup {"wake", "count"},
           a = Initiator => pc[a] \in QuietPhase \cup {"tid"} /\ pc'[a] \in QuietPhase \cup {"tid"}
    PROVE  LoopInv'
  <1>1. ThreadsOK' /\ GCThreads' = GCThreads /\ \A b \in Threads : b # a => pc'[b] = pc[b]
    BY MovesThreads DEF LoopInv, Moves
  <1>2. \/ pc'[Initiator] = pc[Initiator]
        \/ pc[Initiator] \in QuietPhase \cup {"tid"} /\ pc'[Initiator] \in QuietPhase \cup {"tid"}
    BY <1>1, Crew DEF LoopInv
  <1> QED
    BY <1>1, <1>2, LoopFrame

\* The same, of the initiator.
LEMMA QuietLoop ==
    ASSUME LoopInv, NEW f \in QuietPhase \cup {"tid"}, NEW l \in QuietPhase \cup {"tid"},
           pc[Initiator] = f, Goto(Initiator, l),
           UNCHANGED <<tid, n_marking, observer_lock, dip, stack_req>>
    PROVE  LoopInv' /\ Moves(Initiator) /\ pc'[Initiator] = l
  <1>1. GCThreads' = GCThreads /\ Initiator \in Threads
    BY Crew DEF GCThreads, LoopInv
  <1>2. Moves(Initiator) /\ pc'[Initiator] = l
    BY <1>1, GotoMoves, Phases DEF LoopInv
  <1> QED
    BY <1>1, <1>2, Phases, ElsewhereLoop

\* The initiator is alone when it reclaims the old buffers,
LEMMA CleanLoop ==
    ASSUME LoopInv, gc_mark_clean_reclaim_sets
    PROVE  LoopInv' /\ Moves(Initiator) /\ pc'[Initiator] = "finlist"
  <1> USE DEF LoopInv
  <1>1. pc[Initiator] = "clean" /\ Goto(Initiator, "finlist") /\ dip' = [a \in Threads |-> ""]
        /\ UNCHANGED <<tid, n_marking, observer_lock, stack_req>>
    BY DEF gc_mark_clean_reclaim_sets, Step, counting, requests, marking, Each
  <1> USE <1>1
  <1>2. GCThreads' = GCThreads /\ Initiator \in Threads
    BY Crew DEF GCThreads
  <1>3. Moves(Initiator) /\ pc'[Initiator] = "finlist"
    BY <1>2, GotoMoves, Phases DEF QuietPhase
  <1>4. dip' = dip
    BY Crew DEF Dips, Alone, TidOK, QuietPhase, LoopLabels, MarkLabels
  <1> QED
    BY <1>2, <1>3, <1>4, Phases, ElsewhereLoop DEF QuietPhase

\* and when it flushes the finalizer list.
LEMMA FinlistLoop ==
    ASSUME LoopInv, gc_mark_finlist
    PROVE  LoopInv' /\ Moves(Initiator) /\ pc'[Initiator] = "pop_ptr"
  <1> USE DEF LoopInv
  <1>1. pc[Initiator] = "finlist" /\ Goto(Initiator, "pop_ptr")
        /\ UNCHANGED <<tid, n_marking, observer_lock, stack_req, dip>>
    BY DEF gc_mark_finlist, Step, counting, requests, marking
  <1> USE <1>1
  <1>2. GCThreads' = GCThreads /\ Initiator \in Threads
    BY Crew DEF GCThreads
  <1> USE <1>2
  <1>3. Moves(Initiator) /\ pc'[Initiator] = "pop_ptr"
    BY GotoMoves, Labels DEF MarkLabels
  <1> USE <1>3
  <1>4. ThreadsOK' /\ Threads' = Threads /\ \A g \in GCThreads : g \in Threads /\ g # Initiator /\ pc'[g] = pc[g]
    BY MovesThreads, Crew DEF Moves
  <1> USE <1>4
  <1>5. tid = Null
    BY DEF TidOK, QuietPhase
  <1> USE <1>5
  <1>6. \A b \in Threads : Marking(b)' <=> Marking(b)
    BY Crew DEF Marking, LoopLabels, MarkLabels
  <1>7. MarkCount'
    BY <1>6 DEF MarkCount
  <1>8. TidOK'
    BY Phases DEF TidOK, MarkLabels
  <1>9. ObserverLock'
    BY Crew DEF ObserverLock
  <1>10. Alone'
    BY DEF Alone
  <1>11. Dips'
    BY Crew DEF Dips
  <1> QED
    BY <1>7, <1>8, <1>9, <1>10, <1>11

\* A broadcast for a sweep.
LEMMA SweepWakeLoop ==
    ASSUME LoopInv, NEW f \in QuietPhase, NEW l \in QuietPhase, Broadcast(f, l), GCThreads' = GCThreads,
           UNCHANGED <<tid, n_marking, observer_lock, dip>>
    PROVE  /\ LoopInv' /\ Threads' = Threads /\ pc[Initiator] = f /\ pc'[Initiator] = l
           /\ \A g \in GCThreads : pc'[g] = pc[g] \/ (pc[g] = "asleep" /\ pc'[g] = "check")
  <1>1. l \in InitiatorLabels
    BY Phases
  <1>2. /\ ThreadsOK' /\ Threads' = Threads /\ pc[Initiator] = f /\ pc'[Initiator] = l
        /\ \A g \in GCThreads : pc'[g] = pc[g] \/ (pc[g] = "asleep" /\ pc'[g] = "check")
    BY <1>1, BroadcastMoves DEF LoopInv
  <1>3. \A b \in Threads : \/ pc'[b] = pc[b]
                           \/ /\ pc[b] \notin LoopLabels \cup {"wake", "observe", "count"}
                              /\ pc'[b] \notin LoopLabels \cup {"wake", "count"}
    BY <1>2, Phases, Crew DEF LoopInv, LoopLabels, MarkLabels
  <1> QED
    BY <1>2, <1>3, LoopFrame

-----------------------------------------------------------------------------
(* The sweep of the stacks.                                                  *)

\* A step of others.
LEMMA StackFrame ==
    ASSUME StackInv, ThreadsOK, Threads' = Threads, UNCHANGED <<sweep_idx, n_stacks, slot, unswept>>,
           \A b \in Threads : pc'[b] = pc[b] \/ (pc[b] \notin {"stack_take", "stack_sweep", "stack_out"}
                                                 /\ pc'[b] \notin {"stack_take", "stack_sweep", "stack_out"}),
           pc[Initiator] \in StackPhase => pc'[Initiator] \in StackPhase,
           pc'[Initiator] = "stack_wait_n" => sweep_idx < 0
    PROVE  StackInv'
  <1>1. \A b \in Threads : InStacks(b)' <=> InStacks(b)
    BY DEF InStacks
  <1>2. {b \in Threads' : InStacks(b)'} = {b \in Threads : InStacks(b)}
    BY <1>1
  <1>3. \A b \in Threads : pc'[b] = "stack_sweep" <=> pc[b] = "stack_sweep"
    OBVIOUS
  <1> QED
    BY <1>2, <1>3 DEF StackInv

\* A step outside the stack sweep keeps its invariant.
LEMMA StackMoves ==
    ASSUME StackInv, ThreadsOK, NEW a \in Threads, Moves(a), UNCHANGED stacks,
           pc'[a] = pc[a] \/ (pc[a] \notin {"stack_take", "stack_sweep", "stack_out"}
                              /\ pc'[a] \notin {"stack_take", "stack_sweep", "stack_out"}),
           a = Initiator => /\ pc[a] \in StackPhase => pc'[a] \in StackPhase
                            /\ pc'[a] = "stack_wait_n" => sweep_idx < 0
    PROVE  StackInv'
  <1>1. Threads' = Threads /\ \A b \in Threads : b # a => pc'[b] = pc[b]
    BY MovesThreads DEF Moves
  <1>2. UNCHANGED <<sweep_idx, n_stacks, slot, unswept>>
    BY DEF stacks
  <1>3. /\ pc[Initiator] \in StackPhase => pc'[Initiator] \in StackPhase
        /\ pc'[Initiator] = "stack_wait_n" => sweep_idx < 0
    BY <1>1, Crew DEF StackInv
  <1> QED
    BY <1>1, <1>2, <1>3, StackFrame

\* Stepping into the loop, and out of it.
LEMMA StackInStacks ==
    ASSUME StackInv, LoopInv, NEW a \in Threads, StackIn(a)
    PROVE  StackInv' /\ Moves(a) /\ pc[a] = "stack_in" /\ pc'[a] = "stack_take"
  <1> USE DEF LoopInv
  <1>1. pc[a] = "stack_in" /\ Goto(a, "stack_take") /\ n_stacks' = n_stacks + 1
        /\ UNCHANGED <<stack_req, sweep_idx, slot, unswept>>
    BY DEF StackIn, Step, requests
  <1> USE <1>1
  <1>2. GCThreads' = GCThreads
    BY DEF GCThreads
  <1>3. Moves(a) /\ pc'[a] = "stack_take"
    BY <1>2, GotoMoves, Phases DEF StackLabels, StackPhase, QuietPhase, HelperLabels
  <1> USE <1>3
  <1>4. Threads' = Threads /\ \A b \in Threads : b # a => pc'[b] = pc[b]
    BY MovesThreads DEF Moves
  <1> USE <1>4
  <1>5. ~InStacks(a) /\ InStacks(a)' /\ \A b \in Threads : b # a => (InStacks(b)' <=> InStacks(b))
    BY DEF InStacks
  <1>6. {b \in Threads' : InStacks(b)'} = {b \in Threads : InStacks(b)} \cup {a}
    BY <1>5
  <1>7. Cardinality({b \in Threads' : InStacks(b)'}) = Cardinality({b \in Threads : InStacks(b)}) + 1
    BY <1>5, <1>6, Counts
  <1>8. \A b \in Threads : pc'[b] = "stack_sweep" <=> pc[b] = "stack_sweep"
    OBVIOUS
  <1>9. /\ pc[Initiator] \in StackPhase => pc'[Initiator] \in StackPhase
        /\ pc'[Initiator] = "stack_wait_n" => pc[Initiator] = "stack_wait_n"
    BY Crew DEF StackPhase, StackLabels
  <1> QED
    BY <1>7, <1>8, <1>9 DEF StackInv

\* A thread leaves the stack sweep with its count taken back,
LEMMA StackOutStacks ==
    ASSUME StackInv, LoopInv, NEW a \in Threads, StackOut(a)
    PROVE  StackInv' /\ Moves(a) /\ pc[a] = "stack_out"
           /\ pc'[a] = IF a = Initiator THEN "stack_wait_idx" ELSE "pages"
  <1> USE DEF LoopInv
  <1>1. pc[a] = "stack_out" /\ Goto(a, IF a = Initiator THEN "stack_wait_idx" ELSE "pages")
        /\ n_stacks' = n_stacks - 1 /\ UNCHANGED <<sweep_idx, slot, unswept>>
    BY DEF StackOut, Step
  <1> USE <1>1
  <1>2. GCThreads' = GCThreads
    BY DEF StackOut, GCThreads
  <1>3. Moves(a) /\ pc'[a] = IF a = Initiator THEN "stack_wait_idx" ELSE "pages"
    <2>1. a = Initiator => (IF a = Initiator THEN "stack_wait_idx" ELSE "pages") \in InitiatorLabels
      BY Phases DEF StackPhase, QuietPhase
    <2>2. a # Initiator => (IF a = Initiator THEN "stack_wait_idx" ELSE "pages") \in HelperLabels
      BY DEF HelperLabels
    <2> QED
      BY <1>2, <2>1, <2>2, GotoMoves
  <1> USE <1>3
  <1>4. Threads' = Threads /\ \A b \in Threads : b # a => pc'[b] = pc[b]
    BY MovesThreads DEF Moves
  <1> USE <1>4
  <1>5. pc'[a] \in {"stack_wait_idx", "pages"}
    OBVIOUS
  <1>6. InStacks(a) /\ ~InStacks(a)' /\ \A b \in Threads : b # a => (InStacks(b)' <=> InStacks(b))
    BY <1>5 DEF InStacks
  <1>7. {b \in Threads' : InStacks(b)'} = {b \in Threads : InStacks(b)} \ {a}
    BY <1>6
  <1>8. Cardinality({b \in Threads' : InStacks(b)'}) = Cardinality({b \in Threads : InStacks(b)}) - 1
    BY <1>6, <1>7, Counts
  <1>9. \A b \in Threads : pc'[b] = "stack_sweep" <=> pc[b] = "stack_sweep"
    BY <1>5
  <1>10. /\ pc[Initiator] \in StackPhase => pc'[Initiator] \in StackPhase
         /\ pc'[Initiator] = "stack_wait_n" => pc[Initiator] = "stack_wait_n"
    BY Crew DEF StackPhase
  <1> QED
    BY <1>8, <1>9, <1>10 DEF StackInv

\* Taking a slot: the last one left, which no other thread has.
LEMMA StackTakeStacks ==
    ASSUME StackInv, LoopInv, NEW a \in Threads, StackTake(a)
    PROVE  StackInv' /\ Moves(a) /\ pc[a] = "stack_take" /\ pc'[a] \in {"stack_sweep", "stack_out"}
  <1> USE DEF LoopInv
  <1>1. pc[a] = "stack_take" /\ sweep_idx' = sweep_idx - 1 /\ UNCHANGED <<stack_req, n_stacks, unswept>>
    BY DEF StackTake, requests
  <1>2. GCThreads' = GCThreads
    BY <1>1 DEF GCThreads
  <1>3. /\ sweep_idx \in Int /\ sweep_idx < NSlots /\ NSlots \in Nat
        /\ slot[a] = -1 /\ slot \in [Threads -> Int]
        /\ sweep_idx' \in Int /\ sweep_idx' < NSlots
        /\ sweep_idx < 0 => sweep_idx' < 0
    BY SMT, <1>1, SizesPositive DEF StackInv
  <1>4. \A s \in 0..(NSlots - 1) : s <= sweep_idx <=> (s <= sweep_idx' \/ s = sweep_idx)
    BY SMT, <1>1, <1>3
  <1>5. \A s \in Int : s > sweep_idx => s > sweep_idx' /\ s # sweep_idx
    BY SMT, <1>1, <1>3
  <1>6. CASE sweep_idx < 0
    <2>1. Goto(a, "stack_out") /\ slot' = slot
      BY <1>6 DEF StackTake
    <2>2. Moves(a) /\ pc'[a] = "stack_out"
      BY <1>2, <2>1, GotoMoves, Phases DEF StackLabels, StackPhase, QuietPhase, HelperLabels
    <2>3. Threads' = Threads /\ \A b \in Threads : b # a => pc'[b] = pc[b]
      BY <2>2, MovesThreads DEF Moves
    <2>4. {b \in Threads' : InStacks(b)'} = {b \in Threads : InStacks(b)}
      <3>1. \A b \in Threads : InStacks(b)' <=> InStacks(b)
        BY <1>1, <2>2, <2>3 DEF InStacks
      <3> QED
        BY <2>3, <3>1
    <2>5. \A b \in Threads : pc'[b] = "stack_sweep" <=> pc[b] = "stack_sweep"
      BY <1>1, <2>2, <2>3
    <2>6. /\ pc[Initiator] \in StackPhase => pc'[Initiator] \in StackPhase
          /\ pc'[Initiator] = "stack_wait_n" => pc[Initiator] = "stack_wait_n"
      BY <2>2, <2>3, Crew DEF StackPhase, StackLabels
    <2>7. \A s \in 0..(NSlots - 1) : s <= sweep_idx' <=> s <= sweep_idx
      BY SMT, <1>1, <1>3, <1>6
    <2> QED
      BY <1>1, <1>3, <1>5, <2>1, <2>2, <2>3, <2>4, <2>5, <2>6, <2>7 DEF StackInv
  <1>7. CASE ~(sweep_idx < 0)
    <2>1. Goto(a, "stack_sweep") /\ slot' = [slot EXCEPT ![a] = sweep_idx]
      BY <1>7 DEF StackTake
    <2>2. Moves(a) /\ pc'[a] = "stack_sweep"
      BY <1>2, <2>1, GotoMoves, Phases DEF StackLabels, StackPhase, QuietPhase, HelperLabels
    <2>3. Threads' = Threads /\ \A b \in Threads : b # a => pc'[b] = pc[b]
      BY <2>2, MovesThreads DEF Moves
    <2>4. {b \in Threads' : InStacks(b)'} = {b \in Threads : InStacks(b)}
      <3>1. \A b \in Threads : InStacks(b)' <=> InStacks(b)
        BY <1>1, <2>2, <2>3 DEF InStacks
      <3> QED
        BY <2>3, <3>1
    <2>5. /\ slot'[a] = sweep_idx /\ \A b \in Threads : b # a => slot'[b] = slot[b]
          /\ slot' \in [Threads -> Int]
      BY <1>3, <2>1
    <2>6. sweep_idx \in 0..(NSlots - 1) /\ sweep_idx > sweep_idx' /\ sweep_idx # -1
      BY SMT, <1>1, <1>3, <1>7
    <2>7. \A b \in Threads : b # a => slot[b] # sweep_idx
      <3>1. \A b \in Threads : pc[b] = "stack_sweep" => slot[b] # sweep_idx
        BY <1>3, <1>5 DEF StackInv
      <3> QED
        BY <2>6, <3>1 DEF StackInv
    <2>8. \A s \in 0..(NSlots - 1) : s # -1
      BY SMT, <1>3
    <2>9. \A s \in 0..(NSlots - 1) : s \in unswept <=> (s <= sweep_idx' \/ \E b \in Threads : slot'[b] = s)
      <3> TAKE s \in 0..(NSlots - 1)
      <3>1. (\E b \in Threads : slot'[b] = s) <=> s = sweep_idx \/ \E b \in Threads : slot[b] = s
        BY <1>3, <2>5, <2>8
      <3>2. s \in unswept <=> s <= sweep_idx \/ \E b \in Threads : slot[b] = s
        BY DEF StackInv
      <3> QED
        BY <1>4, <3>1, <3>2
    <2>10. \A b \in Threads : IF pc'[b] = "stack_sweep" THEN slot'[b] \in 0..(NSlots - 1) /\ slot'[b] > sweep_idx'
                              ELSE slot'[b] = -1
      <3>1. \A b \in Threads : IF pc[b] = "stack_sweep" THEN slot[b] \in 0..(NSlots - 1) /\ slot[b] > sweep_idx
                               ELSE slot[b] = -1
        BY DEF StackInv
      <3> QED
        BY <1>3, <1>5, <2>2, <2>3, <2>5, <2>6, <3>1
    <2>11. \A b, c \in Threads : b # c /\ slot'[b] # -1 => slot'[b] # slot'[c]
      BY <2>5, <2>6, <2>7 DEF StackInv
    <2>12. /\ pc[Initiator] \in StackPhase => pc'[Initiator] \in StackPhase
           /\ pc'[Initiator] = "stack_wait_n" => pc[Initiator] = "stack_wait_n"
      BY <2>2, <2>3, Crew DEF StackPhase, StackLabels
    <2> QED
      BY <1>1, <1>3, <2>2, <2>3, <2>4, <2>5, <2>9, <2>10, <2>11, <2>12 DEF StackInv
  <1> QED
    BY <1>6, <1>7

\* and sweeps the stacks of the thread that it took.
LEMMA StackSweepStacks ==
    ASSUME StackInv, LoopInv, NEW a \in Threads, StackSweep(a)
    PROVE  StackInv' /\ Moves(a) /\ pc[a] = "stack_sweep" /\ pc'[a] = "stack_take"
  <1> USE DEF LoopInv
  <1>1. pc[a] = "stack_sweep" /\ Goto(a, "stack_take") /\ UNCHANGED <<stack_req, n_stacks, sweep_idx>>
        /\ unswept' = unswept \ {slot[a]} /\ slot' = [slot EXCEPT ![a] = -1]
    BY DEF StackSweep, Step, requests
  <1>2. GCThreads' = GCThreads
    BY <1>1 DEF GCThreads
  <1>3. Moves(a) /\ pc'[a] = "stack_take"
    BY <1>1, <1>2, GotoMoves, Phases DEF StackLabels, StackPhase, QuietPhase, HelperLabels
  <1>4. Threads' = Threads /\ \A b \in Threads : b # a => pc'[b] = pc[b]
    BY <1>3, MovesThreads DEF Moves
  <1>5. {b \in Threads' : InStacks(b)'} = {b \in Threads : InStacks(b)}
    <2>1. \A b \in Threads : InStacks(b)' <=> InStacks(b)
      BY <1>1, <1>3, <1>4 DEF InStacks
    <2> QED
      BY <1>4, <2>1
  <1>6. /\ slot \in [Threads -> Int] /\ slot[a] \in 0..(NSlots - 1) /\ slot[a] > sweep_idx
        /\ \A b \in Threads : b # a => slot[b] # slot[a]
    <2>1. slot[a] \in 0..(NSlots - 1) /\ slot[a] > sweep_idx /\ slot \in [Threads -> Int]
      BY <1>1 DEF StackInv
    <2>2. slot[a] # -1
      BY SMT, <2>1, SizesPositive
    <2> QED
      BY <2>1, <2>2 DEF StackInv
  <1>7. slot'[a] = -1 /\ (\A b \in Threads : b # a => slot'[b] = slot[b]) /\ slot' \in [Threads -> Int]
    <2>1. -1 \in Int
      BY SMT
    <2> QED
      BY <1>1, <1>6, <2>1
  <1>8. \A s \in 0..(NSlots - 1) : s # -1 /\ (s <= sweep_idx => s # slot[a])
    BY SMT, <1>6, SizesPositive DEF StackInv
  <1>9. \A s \in 0..(NSlots - 1) : s \in unswept' <=> (s <= sweep_idx \/ \E b \in Threads : slot'[b] = s)
    <2> TAKE s \in 0..(NSlots - 1)
    <2>1. (\E b \in Threads : slot'[b] = s) <=> s # slot[a] /\ \E b \in Threads : slot[b] = s
      BY <1>6, <1>7, <1>8
    <2>2. s \in unswept <=> s <= sweep_idx \/ \E b \in Threads : slot[b] = s
      BY DEF StackInv
    <2> QED
      BY <1>1, <1>8, <2>1, <2>2
  <1>10. \A b \in Threads : IF pc'[b] = "stack_sweep" THEN slot'[b] \in 0..(NSlots - 1) /\ slot'[b] > sweep_idx
                            ELSE slot'[b] = -1
    BY <1>3, <1>4, <1>7 DEF StackInv
  <1>11. \A b, c \in Threads : b # c /\ slot'[b] # -1 => slot'[b] # slot'[c]
    BY <1>7 DEF StackInv
  <1>12. /\ pc[Initiator] \in StackPhase => pc'[Initiator] \in StackPhase
         /\ pc'[Initiator] = "stack_wait_n" => pc[Initiator] = "stack_wait_n"
    BY <1>3, <1>4, Crew DEF StackPhase, StackLabels
  <1>13. unswept' \subseteq 0..(NSlots - 1) /\ (unswept = {} => unswept' = {})
    BY <1>1 DEF StackInv
  <1> QED
    BY <1>1, <1>3, <1>4, <1>5, <1>7, <1>9, <1>10, <1>11, <1>12, <1>13 DEF StackInv

\* The index is set again when nobody has a slot.
LEMMA StartStacksStacks ==
    ASSUME StackInv, LoopInv, StartStacks
    PROVE  StackInv' /\ Moves(Initiator) /\ pc[Initiator] = "stack_start" /\ pc'[Initiator] = "stack_wake"
  <1> USE DEF LoopInv
  <1>1. pc[Initiator] = "stack_start" /\ Goto(Initiator, "stack_wake") /\ sweep_idx' = NSlots - 1
        /\ unswept' = 0..(NSlots - 1) /\ UNCHANGED <<stack_req, n_stacks, slot>>
    BY DEF StartStacks, Step, requests
  <1> USE <1>1
  <1>2. GCThreads' = GCThreads /\ Initiator \in Threads
    BY Crew DEF GCThreads
  <1>3. Moves(Initiator) /\ pc'[Initiator] = "stack_wake"
    BY <1>2, GotoMoves, Phases DEF StackPhase, QuietPhase
  <1> USE <1>3
  <1>4. Threads' = Threads /\ \A b \in Threads : b # Initiator => pc'[b] = pc[b]
    BY <1>2, MovesThreads DEF Moves
  <1> USE <1>4
  <1>5. \A b \in Threads : InStacks(b)' <=> InStacks(b)
    BY DEF InStacks
  <1>6. {b \in Threads' : InStacks(b)'} = {b \in Threads : InStacks(b)}
    BY <1>5
  <1>7. unswept = {}
    BY DEF StackInv, StackPhase, StackLabels
  <1>8. \A b \in Threads : pc[b] # "stack_sweep"
    BY <1>7 DEF StackInv
  <1>9. sweep_idx' \in Int /\ sweep_idx' < NSlots /\ \A s \in 0..(NSlots - 1) : s <= sweep_idx'
    BY SMT, SizesPositive
  <1>10. pc'[Initiator] \in StackPhase
    BY DEF StackPhase
  <1>11. \A b \in Threads : pc'[b] # "stack_sweep"
    BY <1>8
  <1> QED
    BY <1>6, <1>8, <1>9, <1>10, <1>11 DEF StackInv

\* The initiator has waited: the index is below zero and nobody is counted.
LEMMA StackWaitStacks ==
    ASSUME StackInv, LoopInv, StackWaitIdx \/ StackWaitN
    PROVE  /\ StackInv' /\ LoopInv' /\ Moves(Initiator) /\ pc[Initiator] \in {"stack_wait_idx", "stack_wait_n"}
           /\ pc'[Initiator] \in {"stack_wait_idx", "stack_wait_n", "page_start"}
  <1>1. /\ UNCHANGED <<tid, n_marking, observer_lock, dip, stack_req, stacks>>
        /\ \E f \in {"stack_wait_idx", "stack_wait_n"}, l \in {"stack_wait_idx", "stack_wait_n", "page_start"} :
             /\ pc[Initiator] = f /\ Goto(Initiator, l)
             /\ l = "stack_wait_n" => sweep_idx < 0
             /\ l = "page_start" => f = "stack_wait_n" /\ n_stacks = 0
    BY DEF StackWaitIdx, StackWaitN, Step, marking, counting, requests
  <1> USE <1>1
  <1>2. PICK f \in {"stack_wait_idx", "stack_wait_n"}, l \in {"stack_wait_idx", "stack_wait_n", "page_start"} :
             /\ pc[Initiator] = f /\ Goto(Initiator, l)
             /\ l = "stack_wait_n" => sweep_idx < 0
             /\ l = "page_start" => f = "stack_wait_n" /\ n_stacks = 0
    OBVIOUS
  <1> USE <1>2
  <1>3. f \in QuietPhase \cup {"tid"} /\ l \in QuietPhase \cup {"tid"}
    BY DEF QuietPhase, StackPhase
  <1>4. LoopInv' /\ Moves(Initiator) /\ pc'[Initiator] = l
    BY <1>3, QuietLoop
  <1> USE <1>4
  <1>5. Initiator \in Threads /\ ThreadsOK
    BY Crew DEF LoopInv
  <1> USE <1>5
  <1>6. CASE l # "page_start"
    <2>1. pc'[Initiator] \in StackPhase
      BY <1>6 DEF StackPhase
    <2> QED
      BY <1>6, <2>1, StackMoves
  <1>7. CASE l = "page_start"
    <2>1. sweep_idx < 0 /\ n_stacks = 0
      BY <1>7 DEF StackInv
    <2> USE <2>1
    <2>2. \A b \in Threads : ~InStacks(b)
      <3>1. {b \in Threads : InStacks(b)} = {}
        <4>1. {b \in Threads : InStacks(b)} \in SUBSET Threads
          BY SMT
        <4> QED
          BY <4>1, Counts DEF StackInv
      <3> QED
        BY <3>1
    <2>3. \A b \in Threads : slot[b] = -1
      BY <2>2 DEF InStacks, StackInv
    <2>4. \A s \in 0..(NSlots - 1) : ~(s <= sweep_idx) /\ s # -1
      BY SMT, SizesPositive DEF StackInv
    <2>5. unswept = {}
      BY <2>3, <2>4 DEF StackInv
    <2>6. UNCHANGED <<sweep_idx, n_stacks, slot, unswept>>
      BY DEF stacks
    <2>7. Threads' = Threads /\ \A b \in Threads : b # Initiator => pc'[b] = pc[b]
      BY MovesThreads DEF Moves
    <2> USE <2>7
    <2>8. \A b \in Threads : /\ InStacks(b)' <=> InStacks(b)
                             /\ pc'[b] = "stack_sweep" <=> pc[b] = "stack_sweep"
      BY <1>7 DEF InStacks
    <2>9. {b \in Threads' : InStacks(b)'} = {b \in Threads : InStacks(b)}
      BY <2>8
    <2> QED
      BY <1>7, <2>5, <2>6, <2>8, <2>9 DEF StackInv
  <1> QED
    BY <1>6, <1>7

-----------------------------------------------------------------------------
(* The sweep of the pages.                                                   *)

\* A step of others.
LEMMA PageFrame ==
    ASSUME PageInv, Threads' = Threads, UNCHANGED pools,
           \A b \in Threads : pc'[b] = pc[b] \/ (~InPages(b) /\ ~InPages(b)'),
           pc[Initiator] \in PagePhase <=> pc'[Initiator] \in PagePhase,
           pc[Initiator] \in PagePhase \cup {"page_wait"} => pc'[Initiator] \in PagePhase \cup {"page_wait"},
           pc'[Initiator] \in {"page_out", "page_null", "page_wait", "merge"} => pages = {}
    PROVE  PageInv'
  <1>1. UNCHANGED <<scratch, pages, page, n_pools>>
    BY DEF pools
  <1> USE <1>1
  <1>2. \A b \in Threads : /\ InPages(b)' <=> InPages(b)
                           /\ Sweeping(b)' <=> Sweeping(b)
                           /\ pc[b] = "page_sweep" => pc'[b] = "page_sweep"
    BY DEF InPages, Sweeping
  <1> USE <1>2
  <1>3. {b \in Threads' : InPages(b)'} = {b \in Threads : InPages(b)}
    OBVIOUS
  <1>4. scratch' \in BOOLEAN /\ (scratch' <=> pc'[Initiator] \in PagePhase)
    BY DEF PageInv
  <1>5. \A b \in Threads : Sweeping(b)' => pc'[Initiator] \in PagePhase \cup {"page_wait"}
    BY DEF PageInv
  <1>6. n_pools' = Cardinality({b \in Threads' : InPages(b)'})
    BY <1>3 DEF PageInv
  <1>7. page' \in [Threads -> Pages \cup {Null}] /\ \A b \in Threads : page'[b] # Null => pc'[b] = "page_sweep"
    BY DEF PageInv
  <1> QED
    BY <1>4, <1>5, <1>6, <1>7 DEF PageInv

\* A step outside both sweeps keeps the invariants of both.
LEMMA SweepFrame ==
    ASSUME StackInv, PageInv, ThreadsOK, NEW a \in Threads, Moves(a), UNCHANGED <<stacks, pools>>,
           pc'[a] = pc[a] \/ (pc[a] \notin Busy /\ pc'[a] \notin Busy),
           a = Initiator => \/ pc'[a] = pc[a]
                            \/ \A l \in {pc[a], pc'[a]} :
                                 l \notin StackPhase \cup PagePhase \cup {"page_wait", "merge"}
    PROVE  StackInv' /\ PageInv'
  <1>1. Threads' = Threads /\ \A b \in Threads : b # a => pc'[b] = pc[b]
    BY MovesThreads DEF Moves
  <1> USE <1>1
  <1>2. StackInv'
    <2>1. CASE a = Initiator /\ pc'[a] # pc[a]
      BY <2>1, StackMoves DEF Busy, StackPhase
    <2>2. CASE pc'[a] = pc[a]
      BY <2>2, StackMoves DEF StackInv
    <2>3. CASE a # Initiator
      BY <2>3, StackMoves DEF Busy
    <2> QED
      BY <2>1, <2>2, <2>3
  <1>3. PageInv'
    <2>1. \A b \in Threads : pc'[b] = pc[b] \/ (~InPages(b) /\ ~InPages(b)')
      BY DEF InPages, Busy
    <2>2. \/ pc'[Initiator] = pc[Initiator]
          \/ \A l \in {pc[Initiator], pc'[Initiator]} :
               l \notin StackPhase \cup PagePhase \cup {"page_wait", "merge"}
      <3>1. CASE a = Initiator
        BY <3>1
      <3>2. CASE a # Initiator
        BY <3>2, Crew
      <3> QED
        BY <3>1, <3>2
    <2>3. "page_out" \in PagePhase /\ "page_null" \in PagePhase
      BY DEF PagePhase, PageLabels
    <2> QED
      BY <2>1, <2>2, <2>3, PageFrame DEF PageInv
  <1> QED
    BY <1>2, <1>3

\* What is left of PageInv for a step of thread a in the sweep of the pages.
LEMMA PageStep ==
    ASSUME PageInv, ThreadsOK, NEW a \in Threads, Moves(a), UNCHANGED scratch,
           n_pools' = Cardinality({b \in Threads' : InPages(b)'}),
           pages' \subseteq Pages,
           page' \in [Threads -> Pages \cup {Null}], \A b \in Threads : b # a => page'[b] = page[b],
           page'[a] # Null => pc'[a] = "page_sweep", Sweeping(a)' => Sweeping(a) \/ scratch,
           pages = {} => pages' = {},
           a = Initiator => /\ pc[a] \in PagePhase /\ pc'[a] \in PagePhase
                            /\ pc'[a] \in {"page_out", "page_null"} => pages' = {}
    PROVE  PageInv'
  <1>1. Threads' = Threads /\ \A b \in Threads : b # a => pc'[b] = pc[b]
    BY MovesThreads DEF Moves
  <1> USE <1>1
  <1>2. pc'[Initiator] = pc[Initiator] \/ (pc[Initiator] \in PagePhase /\ pc'[Initiator] \in PagePhase)
    <2>1. CASE a = Initiator
      BY <2>1
    <2>2. CASE a # Initiator
      BY <2>2, Crew
    <2> QED
      BY <2>1, <2>2
  <1> USE <1>2
  <1>3. scratch' \in BOOLEAN /\ (scratch' <=> pc'[Initiator] \in PagePhase)
    BY DEF PageInv
  <1>4. \A b \in Threads : Sweeping(b)' => pc'[Initiator] \in PagePhase \cup {"page_wait"}
    <2> TAKE b \in Threads
    <2>1. CASE b = a
      BY <2>1 DEF PageInv
    <2>2. CASE b # a
      <3>1. Sweeping(b)' => Sweeping(b)
        BY <2>2 DEF Sweeping
      <3> QED
        BY <3>1 DEF PageInv
    <2> QED
      BY <2>1, <2>2
  <1>5. \A b \in Threads : page'[b] # Null => pc'[b] = "page_sweep"
    BY DEF PageInv
  <1>6. pc'[Initiator] \in {"page_out", "page_null", "page_wait", "merge"} => pages' = {}
    <2>1. "page_wait" \notin PagePhase /\ "merge" \notin PagePhase
      BY DEF PagePhase, PageLabels
    <2>2. CASE a = Initiator
      BY <2>1, <2>2
    <2>3. CASE a # Initiator
      BY <2>3, Crew DEF PageInv
    <2> QED
      BY <2>2, <2>3
  <1> QED
    BY <1>3, <1>4, <1>5, <1>6 DEF PageInv

\* The page sweep, step by step: a thread counts itself in,
LEMMA PageInPages ==
    ASSUME PageInv, LoopInv, NEW a \in Threads, PageIn(a)
    PROVE  PageInv' /\ Moves(a) /\ pc[a] = "page_in" /\ pc'[a] = "page_load"
  <1> USE DEF LoopInv
  <1>1. pc[a] = "page_in" /\ Goto(a, "page_load") /\ n_pools' = n_pools + 1
        /\ UNCHANGED <<stack_req, scratch, pages, page>>
    BY DEF PageIn, Step, requests
  <1> USE <1>1
  <1>2. GCThreads' = GCThreads
    BY DEF GCThreads
  <1>3. Moves(a) /\ pc'[a] = "page_load"
    BY <1>2, GotoMoves, Phases DEF PageLabels, PagePhase, QuietPhase, HelperLabels
  <1> USE <1>3
  <1>4. Threads' = Threads /\ \A b \in Threads : b # a => pc'[b] = pc[b]
    BY MovesThreads DEF Moves
  <1>5. ~InPages(a) /\ InPages(a)' /\ \A b \in Threads : b # a => (InPages(b)' <=> InPages(b))
    BY <1>4 DEF InPages
  <1>6. {b \in Threads' : InPages(b)'} = {b \in Threads : InPages(b)} \cup {a}
    BY <1>4, <1>5
  <1>7. Cardinality({b \in Threads' : InPages(b)'}) = Cardinality({b \in Threads : InPages(b)}) + 1
    BY <1>5, <1>6, Counts
  <1>8. n_pools' = Cardinality({b \in Threads' : InPages(b)'})
    BY <1>7 DEF PageInv
  <1>9. /\ pc[a] \in PagePhase /\ pc'[a] \in PagePhase /\ pc'[a] \notin {"page_out", "page_null"}
        /\ ~Sweeping(a)' /\ page'[a] = page[a] /\ (page[a] # Null => pc[a] = "page_sweep")
        /\ page' \in [Threads -> Pages \cup {Null}] /\ pages' \subseteq Pages
    BY DEF PageInv, PagePhase, PageLabels, Sweeping
  <1> QED
    BY <1>8, <1>9, PageStep

\* reads the shared scratch,
LEMMA PageLoadPages ==
    ASSUME PageInv, LoopInv, NEW a \in Threads, PageLoad(a)
    PROVE  PageInv' /\ Moves(a) /\ pc[a] = "page_load" /\ pc'[a] \in {"page_take", "page_out"}
  <1> USE DEF LoopInv
  <1>1. pc[a] = "page_load" /\ Goto(a, IF scratch THEN "page_take" ELSE "page_out")
        /\ UNCHANGED <<stack_req, scratch, pages, page, n_pools>>
    BY DEF PageLoad, Step, requests, pools
  <1> USE <1>1
  <1>2. GCThreads' = GCThreads
    BY DEF GCThreads
  <1>3. PICK l \in {"page_take", "page_out"} : Goto(a, l) /\ (scratch => l = "page_take") /\ (~scratch => l = "page_out")
    OBVIOUS
  <1> USE <1>3
  <1>4. Moves(a) /\ pc'[a] = l
    BY <1>2, GotoMoves, Phases DEF PageLabels, PagePhase, QuietPhase, HelperLabels
  <1> USE <1>4
  <1>5. Threads' = Threads /\ \A b \in Threads : b # a => pc'[b] = pc[b]
    BY MovesThreads DEF Moves
  <1>6. \A b \in Threads : InPages(b)' <=> InPages(b)
    BY <1>5 DEF InPages
  <1>7. {b \in Threads' : InPages(b)'} = {b \in Threads : InPages(b)}
    BY <1>5, <1>6
  <1>8. n_pools' = Cardinality({b \in Threads' : InPages(b)'})
    BY <1>7 DEF PageInv
  <1>9. /\ pc[a] \in PagePhase /\ pc'[a] \in PagePhase
        /\ Sweeping(a)' => scratch
        /\ page'[a] = page[a] /\ (page[a] # Null => pc[a] = "page_sweep")
        /\ page' \in [Threads -> Pages \cup {Null}] /\ pages' \subseteq Pages
    BY DEF PageInv, PagePhase, PageLabels, Sweeping
  <1>10. a = Initiator => scratch /\ pc'[a] \notin {"page_out", "page_null"}
    BY <1>9 DEF PageInv
  <1> QED
    BY <1>8, <1>9, <1>10, PageStep

\* takes the next pool,
LEMMA PageTakePages ==
    ASSUME PageInv, LoopInv, NEW a \in Threads, PageTake(a)
    PROVE  PageInv' /\ Moves(a) /\ pc[a] = "page_take" /\ pc'[a] \in {"page_sweep", "page_out"}
  <1> USE DEF LoopInv
  <1>1. pc[a] = "page_take" /\ UNCHANGED <<stack_req, scratch, n_pools>>
    BY DEF PageTake, requests
  <1> USE <1>1
  <1>2. GCThreads' = GCThreads
    BY DEF GCThreads
  <1>3. page \in [Threads -> Pages \cup {Null}] /\ (page[a] # Null => pc[a] = "page_sweep")
    BY DEF PageInv
  <1> USE <1>3
  <1>4. PICK l \in {"page_sweep", "page_out"} :
          /\ Goto(a, l) /\ (l = "page_out" => pages' = {} /\ page' = page)
          /\ pages = {} => pages' = {}
          /\ \A b \in Threads : b # a => page'[b] = page[b]
          /\ page' \in [Threads -> Pages \cup {Null}] /\ pages' \subseteq Pages
    <2>1. CASE pages = {}
      BY <2>1 DEF PageTake
    <2>2. CASE pages # {}
      <3>1. Goto(a, "page_sweep") /\ \E p \in pages : pages' = pages \ {p} /\ page' = [page EXCEPT ![a] = p]
        BY <2>2 DEF PageTake
      <3>2. PICK p \in pages : pages' = pages \ {p} /\ page' = [page EXCEPT ![a] = p]
        BY <3>1
      <3>3. pages \subseteq Pages
        BY DEF PageInv
      <3>4. page' \in [Threads -> Pages \cup {Null}] /\ pages' \subseteq Pages /\ \A b \in Threads : b # a => page'[b] = page[b]
        BY <3>2, <3>3
      <3> QED
        BY <2>2, <3>1, <3>4
    <2> QED
      BY <2>1, <2>2
  <1> USE <1>4
  <1>5. Moves(a) /\ pc'[a] = l
    BY <1>2, GotoMoves, Phases DEF PageLabels, PagePhase, QuietPhase, HelperLabels
  <1> USE <1>5
  <1>6. Threads' = Threads /\ \A b \in Threads : b # a => pc'[b] = pc[b]
    BY MovesThreads DEF Moves
  <1>7. \A b \in Threads : InPages(b)' <=> InPages(b)
    BY <1>6 DEF InPages
  <1>8. {b \in Threads' : InPages(b)'} = {b \in Threads : InPages(b)}
    BY <1>6, <1>7
  <1>9. n_pools' = Cardinality({b \in Threads' : InPages(b)'})
    BY <1>8 DEF PageInv
  <1>10. /\ pc[a] \in PagePhase /\ pc'[a] \in PagePhase /\ Sweeping(a)
         /\ pc'[a] \in {"page_out", "page_null"} => pages' = {}
         /\ page'[a] # Null => pc'[a] = "page_sweep"
    BY DEF PagePhase, PageLabels, Sweeping
  <1> QED
    BY <1>9, <1>10, PageStep

\* sweeps it,
LEMMA PageSweepPages ==
    ASSUME PageInv, LoopInv, NEW a \in Threads, PageSweep(a)
    PROVE  PageInv' /\ Moves(a) /\ pc[a] = "page_sweep" /\ pc'[a] = "page_take"
  <1> USE DEF LoopInv
  <1>1. pc[a] = "page_sweep" /\ Goto(a, "page_take") /\ page' = [page EXCEPT ![a] = Null]
        /\ UNCHANGED <<stack_req, scratch, pages, n_pools>>
    BY DEF PageSweep, Step, requests
  <1> USE <1>1
  <1>2. GCThreads' = GCThreads
    BY DEF GCThreads
  <1>3. Moves(a) /\ pc'[a] = "page_take"
    BY <1>2, GotoMoves, Phases DEF PageLabels, PagePhase, QuietPhase, HelperLabels
  <1> USE <1>3
  <1>4. Threads' = Threads /\ \A b \in Threads : b # a => pc'[b] = pc[b]
    BY MovesThreads DEF Moves
  <1>5. \A b \in Threads : InPages(b)' <=> InPages(b)
    BY <1>4 DEF InPages
  <1>6. {b \in Threads' : InPages(b)'} = {b \in Threads : InPages(b)}
    BY <1>4, <1>5
  <1>7. n_pools' = Cardinality({b \in Threads' : InPages(b)'})
    BY <1>6 DEF PageInv
  <1>8. /\ page' \in [Threads -> Pages \cup {Null}] /\ page'[a] = Null /\ pages' \subseteq Pages
        /\ \A b \in Threads : b # a => page'[b] = page[b]
    BY DEF PageInv
  <1>9. /\ pc[a] \in PagePhase /\ pc'[a] \in PagePhase /\ Sweeping(a)
        /\ pc'[a] \notin {"page_out", "page_null"}
    BY DEF PagePhase, PageLabels, Sweeping
  <1> QED
    BY <1>7, <1>8, <1>9, PageStep

\* counts itself out,
LEMMA PageOutPages ==
    ASSUME PageInv, LoopInv, NEW a \in Threads, PageOut(a)
    PROVE  PageInv' /\ Moves(a) /\ pc[a] = "page_out" /\ pc'[a] = IF a = Initiator THEN "page_null" ELSE "check"
  <1> USE DEF LoopInv
  <1>1. pc[a] = "page_out" /\ Goto(a, IF a = Initiator THEN "page_null" ELSE "check")
        /\ n_pools' = n_pools - 1 /\ UNCHANGED <<stack_req, scratch, pages, page>>
    BY DEF PageOut, Step
  <1> USE <1>1
  <1>2. GCThreads' = GCThreads
    BY DEF GCThreads
  <1>3. Moves(a) /\ pc'[a] = IF a = Initiator THEN "page_null" ELSE "check"
    <2>1. a = Initiator => (IF a = Initiator THEN "page_null" ELSE "check") \in InitiatorLabels
      BY Phases DEF PagePhase, QuietPhase
    <2>2. a # Initiator => (IF a = Initiator THEN "page_null" ELSE "check") \in HelperLabels
      BY DEF HelperLabels
    <2> QED
      BY <1>2, <2>1, <2>2, GotoMoves
  <1> USE <1>3
  <1>4. Threads' = Threads /\ \A b \in Threads : b # a => pc'[b] = pc[b]
    BY MovesThreads DEF Moves
  <1>5. pc'[a] \in {"page_null", "check"} /\ (a = Initiator => pc'[a] = "page_null")
    OBVIOUS
  <1> USE <1>5
  <1>6. InPages(a) /\ ~InPages(a)' /\ \A b \in Threads : b # a => (InPages(b)' <=> InPages(b))
    BY <1>4 DEF InPages
  <1>7. {b \in Threads' : InPages(b)'} = {b \in Threads : InPages(b)} \ {a}
    BY <1>4, <1>6
  <1>8. Cardinality({b \in Threads' : InPages(b)'}) = Cardinality({b \in Threads : InPages(b)}) - 1
    BY <1>6, <1>7, Counts
  <1>9. n_pools' = Cardinality({b \in Threads' : InPages(b)'})
    BY <1>8 DEF PageInv
  <1>10. /\ page' \in [Threads -> Pages \cup {Null}] /\ page'[a] = Null
         /\ ~Sweeping(a)' /\ pages' \subseteq Pages
    BY DEF PageInv, Sweeping
  <1>11. a = Initiator => pc[a] \in PagePhase /\ pc'[a] \in PagePhase /\ pages' = {}
    BY DEF PagePhase, PageLabels, PageInv
  <1> QED
    BY <1>9, <1>10, <1>11, PageStep

\* The initiator's steps around the sweep of the pages.
LEMMA StartPagesPages ==
    ASSUME PageInv, LoopInv, StartPages
    PROVE  PageInv' /\ Moves(Initiator) /\ pc[Initiator] = "page_start" /\ pc'[Initiator] \in {"page_wake", "page_in"}
  <1> USE DEF LoopInv
  <1>1. pc[Initiator] = "page_start" /\ scratch' = TRUE /\ pages' = Pages /\ UNCHANGED <<stack_req, page, n_pools>>
    BY DEF StartPages, requests
  <1> USE <1>1
  <1>2. GCThreads' = GCThreads /\ Initiator \in Threads
    BY Crew DEF GCThreads
  <1>3. PICK l \in {"page_wake", "page_in"} : Goto(Initiator, l)
    BY DEF StartPages
  <1>4. Moves(Initiator) /\ pc'[Initiator] = l
    BY <1>2, <1>3, GotoMoves, Phases DEF PageLabels, PagePhase, QuietPhase
  <1> USE <1>4
  <1>5. Threads' = Threads /\ \A b \in Threads : b # Initiator => pc'[b] = pc[b]
    BY <1>2, MovesThreads DEF Moves
  <1> USE <1>5
  <1>6. \A b \in Threads : (InPages(b)' <=> InPages(b)) /\ (pc[b] = "page_sweep" => pc'[b] = "page_sweep")
    BY DEF InPages
  <1>7. {b \in Threads' : InPages(b)'} = {b \in Threads : InPages(b)}
    BY <1>6
  <1>8. pc'[Initiator] \in PagePhase /\ pc'[Initiator] \notin {"page_out", "page_null", "page_wait", "merge"}
    BY DEF PagePhase, PageLabels
  <1> QED
    BY <1>6, <1>7, <1>8 DEF PageInv

\* and the initiator takes the scratch away.
LEMMA PageNullPages ==
    ASSUME PageInv, LoopInv, PageNull
    PROVE  PageInv' /\ Moves(Initiator) /\ pc[Initiator] = "page_null" /\ pc'[Initiator] = "page_wait"
  <1> USE DEF LoopInv
  <1>1. pc[Initiator] = "page_null" /\ Goto(Initiator, "page_wait") /\ scratch' = FALSE
        /\ UNCHANGED <<stack_req, pages, page, n_pools>>
    BY DEF PageNull, Step, requests
  <1> USE <1>1
  <1>2. GCThreads' = GCThreads /\ Initiator \in Threads
    BY Crew DEF GCThreads
  <1>3. Moves(Initiator) /\ pc'[Initiator] = "page_wait"
    BY <1>2, GotoMoves, Phases DEF QuietPhase
  <1> USE <1>3
  <1>4. Threads' = Threads /\ \A b \in Threads : b # Initiator => pc'[b] = pc[b]
    BY <1>2, MovesThreads DEF Moves
  <1> USE <1>4
  <1>5. \A b \in Threads : (InPages(b)' <=> InPages(b)) /\ (pc[b] = "page_sweep" => pc'[b] = "page_sweep")
    BY DEF InPages
  <1>6. {b \in Threads' : InPages(b)'} = {b \in Threads : InPages(b)}
    BY <1>5
  <1>7. "page_wait" \notin PagePhase
    BY DEF PagePhase, PageLabels
  <1>8. \A b \in Threads : Sweeping(b)' => pc'[Initiator] \in PagePhase \cup {"page_wait"}
    OBVIOUS
  <1>9. scratch' \in BOOLEAN /\ (scratch' <=> pc'[Initiator] \in PagePhase)
    BY <1>7
  <1> QED
    BY <1>5, <1>6, <1>8, <1>9 DEF PageInv

\* The initiator has waited: nobody is counted.
LEMMA PageWaitPages ==
    ASSUME PageInv, LoopInv, PageWait
    PROVE  /\ PageInv' /\ Moves(Initiator) /\ pc[Initiator] = "page_wait" /\ pc'[Initiator] = "merge"
           /\ \A b \in Threads : ~InPages(b)
  <1> USE DEF LoopInv
  <1>1. pc[Initiator] = "page_wait" /\ Goto(Initiator, "merge") /\ n_pools = 0
        /\ UNCHANGED <<stack_req, scratch, pages, page, n_pools>>
    BY DEF PageWait, Step, requests, pools
  <1> USE <1>1
  <1>2. GCThreads' = GCThreads /\ Initiator \in Threads
    BY Crew DEF GCThreads
  <1> USE <1>2
  <1>3. Moves(Initiator) /\ pc'[Initiator] = "merge"
    BY GotoMoves, Phases DEF QuietPhase
  <1> USE <1>3
  <1>4. Threads' = Threads /\ \A b \in Threads : b # Initiator => pc'[b] = pc[b]
    BY MovesThreads DEF Moves
  <1> USE <1>4
  <1>5. \A b \in Threads : ~InPages(b)
    <2>1. {b \in Threads : InPages(b)} \in SUBSET Threads
      BY SMT
    <2>2. {b \in Threads : InPages(b)} = {}
      BY <2>1, Counts DEF PageInv
    <2> QED
      BY <2>2
  <1> USE <1>5
  <1>6. \A b \in Threads : ~InPages(b)' /\ (pc[b] = "page_sweep" => pc'[b] = "page_sweep")
    BY DEF InPages
  <1> USE <1>6
  <1>7. {b \in Threads' : InPages(b)'} = {b \in Threads : InPages(b)}
    OBVIOUS
  <1>8. \A b \in Threads : ~Sweeping(b)'
    BY DEF Sweeping, InPages
  <1>9. pc[Initiator] \notin PagePhase /\ pc'[Initiator] \notin PagePhase
    BY DEF PagePhase, PageLabels
  <1>10. scratch' \in BOOLEAN /\ (scratch' <=> pc'[Initiator] \in PagePhase)
    BY <1>9 DEF PageInv
  <1> QED
    BY <1>7, <1>8, <1>10 DEF PageInv

\* gc_mark_and_steal keeps the invariant of the loop and of the sweeps,
LEMMA MarkAndStealSweep ==
    ASSUME SweepInv, NEW a \in Threads, MarkAndSteal(a)
    PROVE  SweepInv' /\ MarkMove(a) /\ Aside
  <1>1. MarkMove(a) /\ Dips' /\ Aside
    BY MarkAndStealMoves DEF SweepInv
  <1> USE <1>1
  <1>2. LoopInv'
    BY MarkMoveLoop DEF SweepInv
  <1>3. Moves(a) /\ UNCHANGED <<stacks, pools>>
    BY DEF MarkMove, Aside
  <1>4. \/ pc'[a] = pc[a]
        \/ pc[a] \in MarkLabels /\ pc'[a] \in MarkLabels \cup {"dec", "stack_start"}
    BY DEF MarkMove
  <1>5. \A l \in MarkLabels \cup {"dec", "stack_start"} :
           l \notin Busy \cup StackPhase \cup PagePhase \cup {"page_wait", "merge"}
    BY DEF MarkLabels, Busy, StackPhase, StackLabels, PagePhase, PageLabels
  <1>6. pc'[a] = pc[a] \/ (pc[a] \notin Busy /\ pc'[a] \notin Busy)
    BY <1>4, <1>5
  <1>7. \/ pc'[a] = pc[a]
        \/ \A l \in {pc[a], pc'[a]} : l \notin StackPhase \cup PagePhase \cup {"page_wait", "merge"}
    BY <1>4, <1>5
  <1> QED
    BY <1>2, <1>3, <1>6, <1>7, SweepFrame DEF SweepInv, LoopInv

\* so does gc_should_mark,
LEMMA ShouldMarkSweep ==
    ASSUME SweepInv, NEW a \in Threads, ShouldMark(a)
    PROVE  SweepInv' /\ Moves(a)
  <1> USE DEF SweepInv
  <1>1. UNCHANGED <<stacks, pools>>
    BY DEF ShouldMark, StopMarking, LoadMarking, CountWork, Decide
  <1>2. /\ LoopInv' /\ Moves(a)
        /\ \/ pc'[a] = pc[a]
           \/ /\ pc[a] \in {"dec", "observe", "count"}
              /\ pc'[a] \in {"observe", "count", "barrier", "stacks", "pop_ptr"}
    <2>1. CASE StopMarking(a)
      BY <2>1, StopMarkingLoop DEF StopMarking, Step
    <2>2. CASE LoadMarking(a)
      BY <2>2, LoadMarkingLoop
    <2>3. CASE CountWork(a)
      BY <2>3, CountWorkLoop
    <2>4. CASE Decide(a)
      BY <2>4, DecideLoop
    <2> QED
      BY <2>1, <2>2, <2>3, <2>4 DEF ShouldMark
  <1> USE <1>2
  <1>3. \A l \in {"dec", "observe", "count", "barrier", "stacks", "pop_ptr"} :
           l \notin Busy \cup StackPhase \cup PagePhase \cup {"page_wait", "merge"}
    BY DEF Busy, StackPhase, StackLabels, PagePhase, PageLabels
  <1>4. pc'[a] = pc[a] \/ (pc[a] \notin Busy /\ pc'[a] \notin Busy)
    BY <1>3
  <1>5. \/ pc'[a] = pc[a]
        \/ \A l \in {pc[a], pc'[a]} : l \notin StackPhase \cup PagePhase \cup {"page_wait", "merge"}
    BY <1>3
  <1> QED
    BY <1>1, <1>4, <1>5, SweepFrame DEF LoopInv

\* A step of thread a from one label to another outside the mark loop.
LEMMA OutsideLoop ==
    ASSUME LoopInv, NEW a \in Threads, Moves(a), UNCHANGED <<tid, n_marking, observer_lock, dip>>,
           pc[a] \in QuietPhase \cup {"tid", "check", "sleep", "stacks", "pages"},
           pc'[a] \in QuietPhase \cup {"tid", "check", "sleep", "asleep", "observe", "stacks", "pages"},
           a = Initiator => pc'[a] # "observe"
    PROVE  LoopInv'
  <1>1. \A l \in {"check", "sleep", "asleep", "stacks", "pages"} :
           l \notin LoopLabels \cup {"wake", "observe", "count"} /\ l \notin InitiatorLabels
    BY DEF LoopLabels, InitiatorLabels, MarkLabels, MarkPhase, QuietPhase, StackPhase, StackLabels, PagePhase,
         PageLabels
  <1> USE <1>1
  <1>2. "observe" \notin LoopLabels \cup {"wake", "count"}
    BY DEF LoopLabels, MarkLabels
  <1>3. CASE a = Initiator
    <2>1. pc[a] \in InitiatorLabels /\ pc'[a] \in InitiatorLabels
      BY <1>3 DEF LoopInv, ThreadsOK, Moves
    <2>2. pc[a] \in QuietPhase \cup {"tid"}
      BY <2>1
    <2> QED
      BY <1>3, <2>1, <2>2, Phases, ElsewhereLoop
  <1>4. CASE a # Initiator
    BY <1>2, <1>4, Phases, ElsewhereLoop
  <1> QED
    BY <1>3, <1>4

\* the sweep of the stacks,
LEMMA SweepStacksSweep ==
    ASSUME SweepInv, NEW a \in Threads, SweepStacks(a)
    PROVE  SweepInv' /\ Moves(a) /\ pc[a] \in QuietPhase
           /\ (a = Initiator => pc[a] \in StackPhase /\ pc'[a] \in StackPhase)
  <1> USE DEF SweepInv
  <1>1. UNCHANGED <<tid, n_marking, observer_lock, dip, pools>>
    BY DEF SweepStacks, StackIn, StackTake, StackSweep, StackOut, marking, counting
  <1>2. /\ StackInv' /\ Moves(a) /\ pc[a] \in StackLabels
        /\ pc'[a] \in StackLabels \cup {"stack_wait_idx", "pages"}
        /\ a = Initiator => pc'[a] # "pages"
    <2>1. CASE StackIn(a)
      BY <2>1, StackInStacks DEF StackLabels
    <2>2. CASE StackTake(a)
      BY <2>2, StackTakeStacks DEF StackLabels
    <2>3. CASE StackSweep(a)
      BY <2>3, StackSweepStacks DEF StackLabels
    <2>4. CASE StackOut(a)
      <3>1. /\ StackInv' /\ Moves(a) /\ pc[a] = "stack_out"
            /\ pc'[a] = IF a = Initiator THEN "stack_wait_idx" ELSE "pages"
        BY <2>4, StackOutStacks
      <3>2. pc'[a] \in {"stack_wait_idx", "pages"} /\ (a = Initiator => pc'[a] = "stack_wait_idx")
        BY <3>1
      <3> QED
        BY <3>1, <3>2 DEF StackLabels
    <2> QED
      BY <2>1, <2>2, <2>3, <2>4 DEF SweepStacks
  <1> USE <1>2
  <1>3. /\ pc[a] \in QuietPhase /\ pc'[a] \in QuietPhase \cup {"pages"} /\ pc'[a] # "observe"
        /\ a = Initiator => pc[a] \in StackPhase /\ pc'[a] \in StackPhase
    BY DEF QuietPhase, StackPhase, StackLabels
  <1>4. LoopInv'
    BY <1>1, <1>3, OutsideLoop
  <1>5. Threads' = Threads /\ \A b \in Threads : b # a => pc'[b] = pc[b]
    BY MovesThreads DEF Moves, LoopInv
  <1>6. ~InPages(a) /\ ~InPages(a)' /\ pc[a] \notin PagePhase \cup {"page_wait", "merge"}
        /\ pc'[a] \notin PagePhase \cup {"page_wait", "merge"}
    BY DEF StackLabels, InPages, PagePhase, PageLabels
  <1>7. \/ pc'[Initiator] = pc[Initiator]
        \/ pc[Initiator] \notin PagePhase \cup {"page_wait", "merge"} /\ pc'[Initiator] \notin PagePhase \cup {"page_wait", "merge"}
    <2>1. CASE a = Initiator
      BY <1>6, <2>1
    <2>2. CASE a # Initiator
      BY <1>5, <2>2, Crew DEF LoopInv
    <2> QED
      BY <2>1, <2>2
  <1>8. "page_out" \in PagePhase /\ "page_null" \in PagePhase
    BY DEF PagePhase, PageLabels
  <1>9. PageInv'
    BY <1>1, <1>5, <1>6, <1>7, <1>8, PageFrame DEF PageInv
  <1> QED
    BY <1>3, <1>4, <1>9

\* and the sweep of the pages.
LEMMA SweepPagesSweep ==
    ASSUME SweepInv, NEW a \in Threads, SweepPages(a)
    PROVE  SweepInv' /\ Moves(a) /\ pc[a] \in QuietPhase
           /\ (a = Initiator => pc[a] \in PagePhase /\ pc'[a] \in PagePhase)
  <1> USE DEF SweepInv
  <1>1. UNCHANGED <<tid, n_marking, observer_lock, dip, stacks>>
    BY DEF SweepPages, PageIn, PageLoad, PageTake, PageSweep, PageOut, marking, counting
  <1>2. /\ PageInv' /\ Moves(a) /\ pc[a] \in PageLabels
        /\ pc'[a] \in PageLabels \cup {"page_null", "check"}
        /\ a = Initiator => pc'[a] # "check"
    <2>1. CASE PageIn(a)
      BY <2>1, PageInPages DEF PageLabels
    <2>2. CASE PageLoad(a)
      BY <2>2, PageLoadPages DEF PageLabels
    <2>3. CASE PageTake(a)
      BY <2>3, PageTakePages DEF PageLabels
    <2>4. CASE PageSweep(a)
      BY <2>4, PageSweepPages DEF PageLabels
    <2>5. CASE PageOut(a)
      <3>1. /\ PageInv' /\ Moves(a) /\ pc[a] = "page_out"
            /\ pc'[a] = IF a = Initiator THEN "page_null" ELSE "check"
        BY <2>5, PageOutPages
      <3>2. pc'[a] \in {"page_null", "check"} /\ (a = Initiator => pc'[a] = "page_null")
        BY <3>1
      <3> QED
        BY <3>1, <3>2 DEF PageLabels
    <2> QED
      BY <2>1, <2>2, <2>3, <2>4, <2>5 DEF SweepPages
  <1> USE <1>2
  <1>3. /\ pc[a] \in QuietPhase /\ pc'[a] \in QuietPhase \cup {"check"} /\ pc'[a] # "observe"
        /\ a = Initiator => pc[a] \in PagePhase /\ pc'[a] \in PagePhase
    BY DEF QuietPhase, PagePhase, PageLabels
  <1>4. LoopInv'
    BY <1>1, <1>3, OutsideLoop
  <1>5. pc[a] \notin StackPhase /\ pc'[a] \notin StackPhase
    BY DEF PageLabels, StackPhase, StackLabels
  <1>6. \A l \in {"stack_take", "stack_sweep", "stack_out", "stack_wait_n"} : l \in StackPhase
    BY DEF StackPhase, StackLabels
  <1>7. StackInv'
    BY <1>1, <1>5, <1>6, StackMoves DEF LoopInv
  <1> QED
    BY <1>3, <1>4, <1>7

\* jl_parallel_gc_threadfun of collector thread g, between its phases.
LEMMA HelperSweep ==
    ASSUME SweepInv, NEW g \in GCThreads, Check(g) \/ Sleep(g) \/ Stacks(g) \/ PagesIf(g)
    PROVE  SweepInv' /\ Moves(g) /\ pc[g] \in {"check", "sleep", "stacks", "pages"}
           /\ pc'[g] \in {"observe", "sleep", "asleep", "stack_in", "pages", "page_in", "check"}
  <1> USE DEF SweepInv
  <1>1. UNCHANGED <<tid, n_marking, observer_lock, dip, stacks, pools, stack_req>>
    BY DEF Check, Sleep, Stacks, PagesIf, marking, counting, requests
  <1> USE <1>1
  <1>2. GCThreads' = GCThreads /\ g \in Threads /\ g # Initiator
    BY Crew DEF GCThreads, LoopInv
  <1> USE <1>2
  <1>3. /\ pc[g] \in {"check", "sleep", "stacks", "pages"}
        /\ \E l \in {"observe", "sleep", "asleep", "stack_in", "pages", "page_in", "check"} : Goto(g, l)
    <2>1. CASE Check(g)
      BY <2>1 DEF Check
    <2>2. CASE Sleep(g)
      BY <2>2 DEF Sleep, Step
    <2>3. CASE Stacks(g)
      BY <2>3 DEF Stacks, Step
    <2>4. CASE PagesIf(g)
      BY <2>4 DEF PagesIf, Step
    <2> QED
      BY <2>1, <2>2, <2>3, <2>4
  <1> USE <1>3
  <1>4. PICK l \in {"observe", "sleep", "asleep", "stack_in", "pages", "page_in", "check"} : Goto(g, l)
    OBVIOUS
  <1>5. l \in HelperLabels
    BY DEF HelperLabels, StackLabels, PageLabels
  <1>6. Moves(g) /\ pc'[g] = l
    BY <1>4, <1>5, GotoMoves DEF LoopInv
  <1> USE <1>6
  <1>7. l \in QuietPhase \cup {"tid", "check", "sleep", "asleep", "observe", "stacks", "pages"}
    BY DEF QuietPhase, StackPhase, StackLabels, PagePhase, PageLabels
  <1>8. LoopInv'
    BY <1>7, OutsideLoop
  <1>9. pc[g] \notin Busy /\ pc'[g] \notin Busy
    BY DEF Busy
  <1> QED
    BY <1>8, <1>9, SweepFrame DEF LoopInv

\* The initiator's steps up to and after the mark loop.
LEMMA InitiatorSweep ==
    ASSUME SweepInv, \/ Collect \/ SetTid \/ StartMarking \/ gc_mark_loop_barrier
                     \/ gc_mark_clean_reclaim_sets \/ gc_mark_finlist
    PROVE  SweepInv' /\ Moves(Initiator)
  <1> USE DEF SweepInv
  <1>1. UNCHANGED <<stacks, pools, stack_req>>
    BY DEF Collect, SetTid, StartMarking, gc_mark_loop_barrier, gc_mark_clean_reclaim_sets, gc_mark_finlist, requests
  <1>2. GCThreads' = GCThreads /\ Initiator \in Threads
    BY <1>1, Crew DEF GCThreads, LoopInv
  <1>3. PICK f \in {"mutator", "tid", "inc", "barrier", "clean", "finlist"},
             l \in {"tid", "inc", "wake", "clean", "finlist", "pop_ptr"} :
          pc[Initiator] = f /\ Goto(Initiator, l)
    BY DEF Collect, SetTid, StartMarking, gc_mark_loop_barrier, gc_mark_clean_reclaim_sets, gc_mark_finlist, Step
  <1> USE <1>3
  <1>4. f \notin Busy /\ l \notin Busy /\ l \in InitiatorLabels
        /\ \A k \in {f, l} : k \notin StackPhase \cup PagePhase \cup {"page_wait", "merge"}
    BY DEF Busy, StackPhase, StackLabels, PagePhase, PageLabels, InitiatorLabels, MarkLabels, MarkPhase, QuietPhase
  <1> USE <1>4
  <1>5. Moves(Initiator) /\ pc'[Initiator] = l
    BY <1>2, GotoMoves DEF LoopInv
  <1> USE <1>5
  <1>6. StackInv' /\ PageInv'
    <2>1. \A k \in {pc[Initiator], pc'[Initiator]} : k \notin StackPhase \cup PagePhase \cup {"page_wait", "merge"}
      OBVIOUS
    <2> QED
      BY <1>1, <1>2, <2>1, SweepFrame DEF LoopInv
  <1>7. LoopInv'
    <2>1. CASE Collect
      <3>1. /\ pc[Initiator] = "mutator" /\ Goto(Initiator, "tid")
            /\ UNCHANGED <<tid, n_marking, observer_lock, dip, stack_req>>
        BY <2>1 DEF Collect, Step, marking, counting, requests
      <3>2. "mutator" \in QuietPhase \cup {"tid"} /\ "tid" \in QuietPhase \cup {"tid"}
        BY DEF QuietPhase
      <3> QED
        BY <3>1, <3>2, QuietLoop
    <2> QED
      BY <2>1, SetTidLoop, StartMarkingLoop, BarrierLoop, CleanLoop, FinlistLoop
  <1> QED
    BY <1>6, <1>7

\* The three broadcasts.
LEMMA WakeSweep ==
    ASSUME SweepInv, gc_wake_all_for_marking \/ gc_sweep_wake_all_stacks \/ gc_sweep_wake_all_pages
    PROVE  /\ SweepInv' /\ GCThreads' = GCThreads /\ Threads' = Threads
           /\ pc[Initiator] \in {"wake", "stack_wake", "page_wake"}
           /\ \/ pc[Initiator] = "wake" /\ pc'[Initiator] = "pop_ptr"
              \/ pc[Initiator] = "stack_wake" /\ pc'[Initiator] = "stack_in"
              \/ pc[Initiator] = "page_wake" /\ pc'[Initiator] = "page_in"
           /\ \A g \in GCThreads : pc'[g] = pc[g] \/ (pc[g] = "asleep" /\ pc'[g] = "check")
  <1> USE DEF SweepInv
  <1>1. UNCHANGED <<tid, n_marking, observer_lock, dip, stacks, pools>>
    BY DEF gc_wake_all_for_marking, gc_sweep_wake_all_stacks, gc_sweep_wake_all_pages, marking, counting
  <1> USE <1>1
  <1>2. GCThreads' = GCThreads
    <2>1. CASE gc_sweep_wake_all_stacks
      BY SMT, <2>1 DEF gc_sweep_wake_all_stacks, GCThreads
    <2> QED
      BY <2>1 DEF gc_wake_all_for_marking, gc_sweep_wake_all_pages, requests, GCThreads
  <1> USE <1>2
  <1>3. PICK f \in {"wake", "stack_wake", "page_wake"}, l \in {"pop_ptr", "stack_in", "page_in"} :
          /\ Broadcast(f, l)
          /\ \/ f = "wake" /\ l = "pop_ptr" /\ gc_wake_all_for_marking
             \/ f = "stack_wake" /\ l = "stack_in"
             \/ f = "page_wake" /\ l = "page_in"
    BY DEF gc_wake_all_for_marking, gc_sweep_wake_all_stacks, gc_sweep_wake_all_pages
  <1> USE <1>3
  <1>4. l \in InitiatorLabels
    BY DEF InitiatorLabels, MarkLabels, QuietPhase, StackPhase, StackLabels, PagePhase, PageLabels
  <1>5. /\ Threads' = Threads /\ pc[Initiator] = f /\ pc'[Initiator] = l
        /\ \A g \in GCThreads : pc'[g] = pc[g] \/ (pc[g] = "asleep" /\ pc'[g] = "check")
    BY <1>4, BroadcastMoves DEF LoopInv
  <1> USE <1>5
  <1>6. LoopInv'
    <2>1. CASE f = "wake"
      BY <2>1, WakeLoop
    <2>2. CASE f # "wake"
      <3>1. f \in QuietPhase /\ l \in QuietPhase
        BY <2>2 DEF QuietPhase, StackPhase, StackLabels, PagePhase, PageLabels
      <3> QED
        BY <3>1, SweepWakeLoop
    <2> QED
      BY <2>1, <2>2
  <1>7. f \notin Busy /\ l \notin Busy /\ "asleep" \notin Busy /\ "check" \notin Busy
        /\ l \notin {"stack_wait_n", "page_wait", "merge", "page_out", "page_null"} /\ f # "page_wait"
        /\ (f \in PagePhase <=> l \in PagePhase) /\ (f \in StackPhase => l \in StackPhase)
    BY DEF Busy, PagePhase, PageLabels, StackPhase, StackLabels
  <1> USE <1>7
  <1>8. \A b \in Threads : pc'[b] = pc[b] \/ (pc[b] \notin Busy /\ pc'[b] \notin Busy)
    BY Crew DEF LoopInv
  <1>9. StackInv'
    <2>1. UNCHANGED <<sweep_idx, n_stacks, slot, unswept>>
      BY DEF stacks
    <2>2. \A b \in Threads : pc'[b] = pc[b] \/ (pc[b] \notin {"stack_take", "stack_sweep", "stack_out"}
                                                /\ pc'[b] \notin {"stack_take", "stack_sweep", "stack_out"})
      BY <1>8 DEF Busy
    <2> QED
      BY <2>1, <2>2, StackFrame DEF LoopInv
  <1>10. PageInv'
    <2>1. \A b \in Threads : pc'[b] = pc[b] \/ (~InPages(b) /\ ~InPages(b)')
      BY <1>8 DEF Busy, InPages
    <2> QED
      BY <2>1, PageFrame
  <1> QED
    BY <1>6, <1>9, <1>10

\* The initiator's steps around the sweeps.
LEMMA SweepingSweep ==
    ASSUME SweepInv, \/ StartStacks \/ StackWaitIdx \/ StackWaitN
                     \/ StartPages \/ PageNull \/ PageWait \/ Merge
    PROVE  SweepInv' /\ Moves(Initiator) /\ pc[Initiator] \in QuietPhase /\ pc'[Initiator] \in QuietPhase
  <1> USE DEF SweepInv
  <1>1. UNCHANGED <<tid, n_marking, observer_lock, dip, stack_req>>
    BY DEF StartStacks, StackWaitIdx, StackWaitN, StartPages, PageNull, PageWait, Merge, marking, counting, requests
  <1> USE <1>1
  <1>2. Initiator \in Threads /\ ThreadsOK
    BY Crew DEF LoopInv
  <1> USE <1>2
  <1>3. \A l \in {"stack_take", "stack_sweep", "stack_out", "stack_wait_n"} : l \in StackPhase
    BY DEF StackPhase, StackLabels
  <1>4. \A l \in {"page_out", "page_null"} : l \in PagePhase
    BY DEF PagePhase, PageLabels
  <1>5. CASE StartStacks \/ StackWaitIdx \/ StackWaitN
    <2>1. UNCHANGED pools
      BY <1>5 DEF StartStacks, StackWaitIdx, StackWaitN
    <2>2. /\ StackInv' /\ Moves(Initiator) /\ pc[Initiator] \in {"stack_start", "stack_wait_idx", "stack_wait_n"}
          /\ pc'[Initiator] \in {"stack_wake", "stack_wait_idx", "stack_wait_n", "page_start"}
      BY <1>5, StartStacksStacks, StackWaitStacks
    <2> USE <2>2
    <2>3. Threads' = Threads /\ \A b \in Threads : b # Initiator => pc'[b] = pc[b]
      BY MovesThreads DEF Moves
    <2>4. /\ ~InPages(Initiator) /\ ~InPages(Initiator)'
          /\ pc[Initiator] \notin PagePhase \cup {"page_wait"} /\ pc'[Initiator] \notin PagePhase
          /\ pc'[Initiator] \notin {"page_wait", "merge", "page_out", "page_null"}
      BY DEF InPages, PagePhase, PageLabels
    <2>5. PageInv'
      BY <2>1, <2>3, <2>4, PageFrame
    <2>6. pc[Initiator] \in QuietPhase /\ pc'[Initiator] \in QuietPhase
      BY DEF QuietPhase, StackPhase
    <2>7. LoopInv'
      BY <2>6, Phases, ElsewhereLoop
    <2> QED
      BY <2>5, <2>6, <2>7
  <1>6. CASE StartPages \/ PageNull \/ PageWait
    <2>1. UNCHANGED stacks
      BY <1>6 DEF StartPages, PageNull, PageWait
    <2>2. /\ PageInv' /\ Moves(Initiator) /\ pc[Initiator] \in {"page_start", "page_null", "page_wait"}
          /\ pc'[Initiator] \in {"page_wake", "page_in", "page_wait", "merge"}
      BY <1>6, StartPagesPages, PageNullPages, PageWaitPages
    <2> USE <2>2
    <2>3. pc[Initiator] \notin StackPhase /\ pc'[Initiator] \notin StackPhase
      BY DEF StackPhase, StackLabels
    <2>4. StackInv'
      BY <1>3, <2>1, <2>3, StackMoves
    <2>5. pc[Initiator] \in QuietPhase /\ pc'[Initiator] \in QuietPhase
      BY DEF QuietPhase, PagePhase, PageLabels
    <2>6. LoopInv'
      BY <2>5, Phases, ElsewhereLoop
    <2> QED
      BY <2>4, <2>5, <2>6
  <1>7. CASE Merge
    <2>1. UNCHANGED <<stacks, pools>> /\ pc[Initiator] = "merge" /\ Goto(Initiator, "mutator")
      BY <1>7 DEF Merge, Step
    <2> USE <2>1
    <2>2. pc[Initiator] \in QuietPhase \cup {"tid"} /\ "mutator" \in QuietPhase \cup {"tid"}
          /\ pc[Initiator] \in QuietPhase /\ "mutator" \in QuietPhase
      BY DEF QuietPhase
    <2>3. LoopInv' /\ Moves(Initiator) /\ pc'[Initiator] = "mutator"
      BY <2>2, QuietLoop
    <2> USE <2>3
    <2>4. pc[Initiator] \notin StackPhase /\ pc'[Initiator] \notin StackPhase
      BY DEF StackPhase, StackLabels
    <2>5. StackInv'
      BY <1>3, <2>4, StackMoves
    <2>6. Threads' = Threads /\ \A b \in Threads : b # Initiator => pc'[b] = pc[b]
      BY MovesThreads DEF Moves
    <2>7. /\ ~InPages(Initiator) /\ ~InPages(Initiator)'
          /\ pc[Initiator] \notin PagePhase \cup {"page_wait"} /\ pc'[Initiator] \notin PagePhase
          /\ pc'[Initiator] \notin {"page_wait", "merge", "page_out", "page_null"}
      BY DEF InPages, PagePhase, PageLabels
    <2>8. PageInv'
      BY <2>6, <2>7, PageFrame
    <2> QED
      BY <2>2, <2>5, <2>8
  <1> QED
    BY <1>5, <1>6, <1>7

\* The first k collector threads are k.
LEMMA HelpersCounted ==
    ASSUME NEW k \in 1..Len(Helpers)
    PROVE  Cardinality({Helpers[j] : j \in 1..k}) = k
  <1> DEFINE S == {Helpers[j] : j \in 1..k}
             h == [j \in 1..k |-> Helpers[j]]
  <1>1. k \in Nat /\ 1..k \subseteq DOMAIN Helpers
    BY SMT, ThreadsDistinct
  <1>2. h \in [1..k -> S] /\ (\A i, j \in 1..k : h[i] = h[j] => i = j) /\ \A g \in S : \E j \in 1..k : h[j] = g
    <2>1. \A j \in 1..k : h[j] = Helpers[j] /\ Helpers[j] \in S
      BY SMT
    <2>2. \A i, j \in 1..k : Helpers[i] = Helpers[j] => i = j
      BY <1>1, ThreadsDistinct
    <2>3. \A g \in S : \E j \in 1..k : Helpers[j] = g
      OBVIOUS
    <2> QED
      BY <2>1, <2>2, <2>3
  <1>3. DOMAIN h = 1..k
    BY SMT
  <1> HIDE DEF h, S
  <1>4. h \in Injection(1..k, S) /\ h \in Surjection(1..k, S)
    BY <1>2, <1>3 DEF Injection, IsInjective, Surjection
  <1>5. ExistsBijection(1..k, S)
    BY <1>4 DEF ExistsBijection, Bijection
  <1>6. Cardinality(S) = k
    BY <1>1, <1>5, FS_CountingElements
  <1> QED
    BY <1>6 DEF S

\* The initial states satisfy the invariant.
LEMMA InitSweep ==
    ASSUME Init
    PROVE  SweepInv
  <1>1. PICK k \in DOMAIN MaxCollections : stack_req = [g \in {Helpers[j] : j \in 1..k} |-> 0]
    BY DEF Init
  <1>2. k \in 1..Len(Helpers) /\ GCThreads = {Helpers[j] : j \in 1..k}
    BY SMT, <1>1, ThreadsDistinct DEF GCThreads
  <1>3. /\ pc = [a \in Threads |-> IF a = Initiator THEN "mutator" ELSE "check"]
        /\ dip = [a \in Threads |-> ""] /\ tid = Null /\ n_marking = 0 /\ observer_lock = Null
        /\ sweep_idx = -1 /\ n_stacks = 0 /\ n_pools = 0 /\ slot = [a \in Threads |-> -1] /\ unswept = {}
        /\ scratch = FALSE /\ pages = {} /\ page = [a \in Threads |-> Null]
    BY DEF Init, Each
  <1>4. Initiator \notin GCThreads /\ Initiator \in Threads
    BY SMT, <1>2, ThreadsDistinct DEF Threads
  <1>5. "mutator" \in InitiatorLabels /\ "check" \in HelperLabels
    BY DEF InitiatorLabels, QuietPhase, HelperLabels
  <1>6. ThreadsOK
    BY <1>2, <1>3, <1>4, <1>5, HelpersCounted DEF ThreadsOK, Threads
  <1>7. pc[Initiator] = "mutator" /\ \A a \in Threads : pc[a] \in {"mutator", "check"}
    BY <1>3, <1>4
  <1>8. \A a \in Threads : ~Marking(a) /\ ~InStacks(a) /\ ~InPages(a) /\ ~Sweeping(a)
                           /\ pc[a] \notin {"stack_sweep", "count", "page_sweep"} /\ pc[a] \notin LoopLabels
    BY <1>7 DEF Marking, LoopLabels, MarkLabels, InStacks, InPages, Sweeping
  <1>9. "mutator" \notin MarkPhase /\ "mutator" \notin StackPhase /\ "mutator" \notin PagePhase
    BY DEF MarkPhase, StackPhase, StackLabels, PagePhase, PageLabels
  <1>10. Cardinality({}) = 0
    BY SMT, FS_EmptySet
  <1>11. /\ {a \in Threads : Marking(a)} = {} /\ {a \in Threads : InStacks(a)} = {}
         /\ {a \in Threads : InPages(a)} = {}
    BY <1>8
  <1>12. TidOK /\ MarkCount
    BY <1>3, <1>7, <1>9, <1>10, <1>11 DEF TidOK, MarkCount
  <1>13. ObserverLock /\ Alone /\ Dips
    BY <1>3, <1>6, <1>8, Crew DEF ObserverLock, Alone, Dips
  <1>14. StackInv
    <2>1. -1 \in Int /\ -1 < NSlots /\ -1 < 0 /\ \A s \in 0..(NSlots - 1) : ~(s <= -1) /\ s # -1
      BY SMT, SizesPositive
    <2> QED
      BY <1>3, <1>7, <1>8, <1>10, <1>11, <2>1 DEF StackInv
  <1>15. PageInv
    BY <1>3, <1>7, <1>8, <1>9, <1>10, <1>11 DEF PageInv
  <1> QED
    BY <1>6, <1>12, <1>13, <1>14, <1>15 DEF SweepInv, LoopInv

\* So does a step that changes nothing.
LEMMA StutterSweep ==
    ASSUME SweepInv, UNCHANGED vars
    PROVE  SweepInv'
  <1>1. UNCHANGED <<pc, dip, tid, n_marking, observer_lock, stack_req, stacks, pools>>
    BY DEF vars, marking, counting, requests
  <1> USE <1>1
  <1>2. UNCHANGED <<sweep_idx, n_stacks, slot, unswept, scratch, pages, page, n_pools>>
    BY DEF stacks, pools
  <1>3. GCThreads' = GCThreads /\ Threads' = Threads
    BY DEF GCThreads, Threads
  <1> USE <1>3
  <1>4. LoopInv'
    BY DEF SweepInv, LoopInv, ThreadsOK, TidOK, MarkCount, Marking, ObserverLock, Alone, Dips
  <1>5. StackInv'
    BY <1>2 DEF SweepInv, StackInv, InStacks
  <1>6. PageInv'
    BY <1>2 DEF SweepInv, PageInv, InPages, Sweeping
  <1> QED
    BY <1>4, <1>5, <1>6 DEF SweepInv

\* Every step keeps it.
LEMMA SweepStep ==
    ASSUME SweepInv, [Next]_vars
    PROVE  SweepInv'
  <1>1. Initiator \in Threads /\ GCThreads \subseteq Threads
    BY Crew DEF SweepInv, LoopInv
  <1>2. ASSUME NEW a \in Threads, Both(a) PROVE SweepInv'
    BY <1>2, MarkAndStealSweep, ShouldMarkSweep, SweepStacksSweep, SweepPagesSweep DEF Both
  <1>3. ASSUME NEW g \in GCThreads, Help(g) PROVE SweepInv'
    BY <1>1, <1>2, <1>3, HelperSweep DEF Help
  <1>4. CASE Initiate
    BY <1>1, <1>2, <1>4, InitiatorSweep, WakeSweep, SweepingSweep DEF Initiate
  <1>5. CASE Collect
    BY <1>5, InitiatorSweep
  <1> QED
    BY <1>3, <1>4, <1>5, StutterSweep DEF Next

-----------------------------------------------------------------------------
\* The inductive invariant of the mark loop and of both sweeps.
THEOREM SweepInvariant == Spec => []SweepInv
  <1>1. Init => SweepInv
    BY InitSweep
  <1>2. SweepInv /\ [Next]_vars => SweepInv'
    BY SweepStep
  <1> QED
    BY <1>1, <1>2, PTL DEF Spec

\* No collector thread marks, counts work or is within a pop while the
\* initiator queues roots, resets the queues, or marks from the finalizers.
THEOREM AloneHolds == Spec => []InitiatorAlone
  <1>1. ASSUME SweepInv, tid = Null \/ pc[Initiator] = "inc", NEW g \in GCThreads
        PROVE  ~InMarkLoop(g) /\ pc[g] # "count" /\ dip[g] = ""
    <2>1. LoopInv /\ g \in Threads
      BY <1>1, Crew DEF SweepInv, LoopInv
    <2>2. pc[g] \notin LoopLabels \cup {"count"}
      BY <1>1, <2>1 DEF LoopInv, Alone
    <2>3. ~InMarkLoop(g) /\ pc[g] \notin {"pop_chunk", "mark_chunk", "steal", "scan"}
      BY <2>2 DEF InMarkLoop, LoopLabels, MarkLabels
    <2> QED
      BY <2>1, <2>2, <2>3 DEF LoopInv, Dips
  <1>2. SweepInv => InitiatorAlone
    BY <1>1 DEF InitiatorAlone
  <1> QED
    BY <1>2, SweepInvariant, PTL

\* The stacks of each thread are swept by one thread, once, and all of them
\* when gc_sweep_wait_for_all_stacks returns, however late a thread comes.
THEOREM StacksSweptHolds == Spec => []StacksSwept
  <1>1. ASSUME SweepInv, NEW a \in Threads, pc[a] = "stack_sweep" PROVE slot[a] \in unswept
    <2>1. StackInv /\ slot[a] \in 0..(NSlots - 1)
      BY <1>1 DEF SweepInv, StackInv
    <2> QED
      BY <2>1 DEF StackInv
  <1>2. \A l \in {"page_start", "merge", "mutator"} : l \notin StackPhase
    BY SMT DEF StackPhase, StackLabels
  <1>3. SweepInv => StacksSwept
    BY <1>1, <1>2 DEF StacksSwept, SweepInv, StackInv
  <1> QED
    BY <1>3, SweepInvariant, PTL

\* gc_allocd_scratch is there while a thread sweeps pages into it, and every
\* page was swept when gc_sweep_pool goes on to merge the lists.
THEOREM ScratchLiveHolds == Spec => []ScratchLive
  <1>1. PagePhase \cup {"page_wait"} \subseteq
         {"page_wake", "page_in", "page_load", "page_take", "page_sweep", "page_out", "page_null", "page_wait"}
    BY DEF PagePhase, PageLabels
  <1>2. ASSUME SweepInv PROVE \A a \in Threads : Sweeping(a) => pc[Initiator] \in PagePhase \cup {"page_wait"}
    BY <1>2 DEF SweepInv, PageInv
  <1>3. ASSUME SweepInv, pc[Initiator] = "merge" PROVE pages = {} /\ page = Each(Null)
    <2>1. "merge" \notin PagePhase \cup {"page_wait"} /\ PageInv
      BY <1>3 DEF PagePhase, PageLabels, SweepInv
    <2>2. \A a \in Threads : page[a] = Null
      BY <1>2, <1>3, <2>1 DEF PageInv, Sweeping
    <2> QED
      BY <1>3, <2>1, <2>2 DEF PageInv, Each
  <1>4. SweepInv => ScratchLive
    BY <1>1, <1>2, <1>3 DEF ScratchLive
  <1> QED
    BY <1>4, SweepInvariant, PTL
=============================================================================
