----------------------------- MODULE ParallelGC -----------------------------
(* The collector threads (src/gc-stock.c): an initiator that runs one         *)
(* collection after another, and the parallel collector threads that sleep   *)
(* on gc_threads_cond, mark with it until gc_n_threads_marking is zero, and   *)
(* sweep stacks and pages with it.  Nobody waits for a collector thread to   *)
(* take up a request, so one may be a phase or a collection late.            *)
(* The mark queues are the queues of StealQueue.  Every collection is full;  *)
(* the two finalizer flushes are one; the heap is a fixed graph.             *)
EXTENDS Integers, Sequences, FiniteSets

CONSTANTS Initiator, Null,
          Helpers,          \* the parallel collector threads, in order
          Objects,
          Refs,             \* Refs[o]: the references of object o
          Roots,            \* Roots[a]: what is queued for thread a
          Finalized,        \* objects only the finalizer lists reach
          GC_CHUNK_BATCH_SIZE,
          Worth,            \* work per marking thread for another to join (16)
          ChunkWork,        \* work a chunk is taken for (256)
          NSlots,           \* gc_n_threads, as far as stacks are concerned
          Pages,
          MaxCollections    \* bound: MaxCollections[k] if there are k of them

\* A chunk has references, and the two thresholds of gc_should_mark are counts.
ASSUME SizesPositive ==
    /\ GC_CHUNK_BATCH_SIZE \in Nat \ {0} /\ NSlots \in Nat
    /\ Worth \in Nat \ {0} /\ ChunkWork \in Nat

\* The threads are distinct; a bound is given for numbers of them that exist.
ASSUME ThreadsDistinct ==
    /\ Helpers \in Seq({Helpers[j] : j \in DOMAIN Helpers})
    /\ \A j, k \in DOMAIN Helpers : Helpers[j] = Helpers[k] => j = k
    /\ \A j \in DOMAIN Helpers : Helpers[j] # Initiator /\ Helpers[j] # Null
    /\ Initiator # Null
    /\ DOMAIN MaxCollections \subseteq 1..Len(Helpers)

\* Roots are queued by gc_try_claim_and_push: each object once.
ASSUME HeapKnown ==
    /\ Refs \in [Objects -> Seq(Objects)] /\ Finalized \in Objects
    /\ \A a \in {Initiator} \cup {Helpers[j] : j \in DOMAIN Helpers} :
         /\ Roots[a] \in Seq(Objects)
         /\ \A b \in {Initiator} \cup {Helpers[j] : j \in DOMAIN Helpers} :
              \A k \in DOMAIN Roots[a], l \in DOMAIN Roots[b] :
                 Roots[a][k] = Roots[b][l] => a = b /\ k = l

\* Null is no page and no name of a queue.
ASSUME NullFresh == Null \notin Pages \cup ({"ptr", "chunk", "lost"} \X
    ({Initiator, Null} \cup {Helpers[j] : j \in DOMAIN Helpers}))

Idle == [o |-> Null, i |-> 1, end |-> 0, late |-> FALSE]

VARIABLES
    pc,
    marked,               \* objects with the mark bit
    ptrs, chunks,         \* the mark queues: objects, and <<object, first index>>
    dip,                  \* dip[a]: the queue of a whose bottom is below its top
    pos, try,             \* a's walk over the queues to steal from, and the queue tried
    scan,                 \* scan[a]: the part of an object that a is scanning
    done,                 \* references followed in this collection
    tid,                  \* gc_initiator_tid
    n_marking,            \* gc_n_threads_marking
    n_seen, work, left,   \* the locals of gc_should_mark, under the lock
    observer_lock, threads_lock,
    stack_req, page_req,  \* gc_stack_sweep_requested, gc_sweeps_requested
    sweep_idx,            \* gc_ptls_sweep_idx
    n_stacks, n_pools,    \* gc_n_threads_sweeping_stacks, _pools
    slot,                 \* slot[a]: the thread whose stacks a sweeps
    unswept,              \* stack slots not swept yet
    scratch,              \* gc_allocd_scratch is set
    pages,                \* pages not swept yet
    page,                 \* page[a]: the page a sweeps
    n_gc                  \* collections so far

\* The collector threads there are: as many of Helpers as Init chooses.
GCThreads == DOMAIN stack_req
GCOrder == SubSeq(Helpers, 1, Cardinality(GCThreads))
Threads == GCThreads \cup {Initiator}

heap == <<marked, ptrs, chunks, pos, try, scan, done>>
marking == <<tid, n_marking>>
counting == <<n_seen, work, left, observer_lock>>
requests == <<stack_req, page_req, threads_lock>>
stacks == <<sweep_idx, n_stacks, slot, unswept>>
pools == <<scratch, pages, page, n_pools>>
vars == <<pc, heap, dip, marking, counting, requests, stacks, pools, n_gc>>

Each(v) == [a \in Threads |-> v]

Init ==
    /\ \E k \in DOMAIN MaxCollections :
         stack_req = [g \in {Helpers[j] : j \in 1..k} |-> 0]
    /\ pc = [a \in Threads |-> IF a = Initiator THEN "mutator" ELSE "check"]
    /\ marked = {} /\ ptrs = Each(<<>>) /\ chunks = Each(<<>>) /\ dip = Each("")
    /\ pos = Each(1) /\ try = Each(Null) /\ scan = Each(Idle) /\ done = {}
    /\ tid = Null /\ n_marking = 0 /\ n_seen = 0 /\ work = 0 /\ left = {}
    /\ observer_lock = Null /\ threads_lock = Null
    /\ page_req = stack_req
    /\ sweep_idx = -1 /\ n_stacks = 0 /\ n_pools = 0 /\ slot = Each(-1) /\ unswept = {}
    /\ scratch = FALSE /\ pages = {} /\ page = Each(Null) /\ n_gc = 0

Goto(a, l) == pc' = [pc EXCEPT ![a] = l]
Step(a, from, to) == pc[a] = from /\ Goto(a, to)

-----------------------------------------------------------------------------
(* _jl_gc_collect, up to the mark loop: the initiator marks the roots and    *)
(* queues them, also on the queues of the collector threads.                 *)
Collect ==
    /\ Step(Initiator, "mutator", "tid") /\ n_gc < MaxCollections[Len(GCOrder)]
    /\ n_gc' = n_gc + 1
    /\ marked' = UNION {{Roots[a][k] : k \in DOMAIN Roots[a]} : a \in Threads}
    /\ ptrs' = [t \in Threads |-> Roots[t]] /\ done' = {}
    /\ UNCHANGED <<chunks, pos, try, scan, dip, marking, counting, requests, stacks, pools>>

(* gc_mark_loop by the initiator.                                            *)
SetTid ==
    /\ Step(Initiator, "tid", "inc") /\ tid' = Initiator
    /\ UNCHANGED <<heap, dip, n_marking, counting, requests, stacks, pools, n_gc>>

StartMarking ==
    /\ Step(Initiator, "inc", "wake") /\ n_marking' = n_marking + 1
    /\ UNCHANGED <<heap, dip, tid, counting, requests, stacks, pools, n_gc>>

\* uv_cond_broadcast, with gc_threads_lock held for it alone.
Broadcast(from, to) ==
    /\ pc[Initiator] = from /\ threads_lock = Null
    /\ pc' = [a \in Threads |-> IF a = Initiator THEN to
                                ELSE IF pc[a] = "asleep" THEN "check" ELSE pc[a]]

gc_wake_all_for_marking ==
    /\ Broadcast("wake", "pop_ptr")
    /\ UNCHANGED <<heap, dip, marking, counting, requests, stacks, pools, n_gc>>

-----------------------------------------------------------------------------
(* gc_mark_and_steal by thread a.  A pop that leaves the queue empty has     *)
(* bottom below top until it restores it.                                    *)
Front(q) == SubSeq(q, 1, Len(q) - 1)
Last(q) == q[Len(q)]

\* gc_mark_objarray from reference i of o: a large rest becomes a chunk,
\* queued before or after the batch is scanned (depending on nptr).
Scan(a, o, i) ==
    LET count == Len(Refs[o]) - i + 1
        too_big == count \div GC_CHUNK_BATCH_SIZE > 1
        end == IF too_big THEN i + GC_CHUNK_BATCH_SIZE - 1 ELSE Len(Refs[o])
    IN  \E late \in IF too_big THEN BOOLEAN ELSE {FALSE} :
          /\ scan' = [scan EXCEPT ![a] = [o |-> o, i |-> i, end |-> end, late |-> late]]
          /\ chunks' = IF too_big /\ ~late
                       THEN [chunks EXCEPT ![a] = Append(@, <<o, end + 1>>)] ELSE chunks

Lost == <<"lost", Null>>
\* top moves on in queue q: whoever is about to move it fails.
Lose(q) == [b \in Threads |-> IF try[b] = q THEN Lost ELSE try[b]]

PopPtr(a) ==
    /\ pc[a] = "pop_ptr"
    /\ dip' = [dip EXCEPT ![a] = IF Len(ptrs[a]) <= 1 THEN "ptr" ELSE ""]
    /\ try' = IF Len(ptrs[a]) = 1 THEN Lose(<<"ptr", a>>) ELSE try
    /\ IF ptrs[a] = <<>>
       THEN Goto(a, "pop_chunk") /\ UNCHANGED <<ptrs, scan, chunks>>
       ELSE /\ ptrs' = [ptrs EXCEPT ![a] = Front(@)]
            /\ Scan(a, Last(ptrs[a]), 1) /\ Goto(a, "scan")
    /\ UNCHANGED <<marked, pos, done, marking, counting, requests, stacks, pools, n_gc>>

PopChunk(a) ==
    /\ pc[a] = "pop_chunk" /\ dip[a] = ""
    /\ dip' = [dip EXCEPT ![a] = IF Len(chunks[a]) <= 1 THEN "chunk" ELSE ""]
    /\ try' = IF Len(chunks[a]) = 1 THEN Lose(<<"chunk", a>>) ELSE try
    /\ IF chunks[a] = <<>>
       THEN Goto(a, "steal") /\ UNCHANGED <<chunks, scan>>
       ELSE /\ Goto(a, "mark_chunk")
            /\ chunks' = [chunks EXCEPT ![a] = Front(@)]
            /\ scan' = [scan EXCEPT ![a].o = Last(chunks[a])[1], ![a].i = Last(chunks[a])[2]]
    /\ UNCHANGED <<marked, ptrs, pos, done, marking, counting, requests, stacks, pools, n_gc>>

Restore(a) ==
    /\ dip[a] # "" /\ dip' = [dip EXCEPT ![a] = ""]
    /\ UNCHANGED <<pc, heap, marking, counting, requests, stacks, pools, n_gc>>

gc_mark_chunk(a) ==
    /\ Step(a, "mark_chunk", "scan") /\ dip[a] = ""
    /\ Scan(a, scan[a].o, scan[a].i)
    /\ UNCHANGED <<marked, ptrs, pos, try, done, dip, marking, counting, requests, stacks, pools, n_gc>>

\* The walk: the chunk queues of the collector threads and the initiator's,
\* then the pointer queues.  Without an initiator a's own queue stands in.
Walk(a) ==
    LET who == Append(GCOrder, IF tid = Null THEN a ELSE tid)
    IN  [k \in 1..(2 * Len(who)) |->
           IF k <= Len(who) THEN <<"chunk", who[k]>> ELSE <<"ptr", who[k - Len(who)]>>]
Queue(q) == IF q[1] = "ptr" THEN ptrs[q[2]] ELSE chunks[q[2]]

\* A steal from queue q that succeeds.
Stolen(a, q) ==
    /\ try' = [Lose(q) EXCEPT ![a] = Null] /\ pos' = [pos EXCEPT ![a] = 1]
    /\ IF q[1] = "ptr"
       THEN /\ ptrs' = [ptrs EXCEPT ![q[2]] = Tail(@)]
            /\ Scan(a, Head(Queue(q)), 1) /\ Goto(a, "scan")
       ELSE /\ chunks' = [chunks EXCEPT ![q[2]] = Tail(@)]
            /\ scan' = [scan EXCEPT ![a].o = Head(Queue(q))[1], ![a].i = Head(Queue(q))[2]]
            /\ Goto(a, "mark_chunk") /\ UNCHANGED ptrs
    /\ UNCHANGED <<marked, done, dip, marking, counting, requests, stacks, pools, n_gc>>

\* The attempts on random collector threads that come before each half of the
\* walk: one that succeeds (one that fails changes nothing).
StealRandom(a) ==
    /\ pc[a] = "steal" /\ dip[a] = "" /\ try[a] = Null
    /\ pos[a] \in {1, Len(GCOrder) + 2}
    /\ \E g \in GCThreads :
         LET q == <<Walk(a)[pos[a]][1], g>> IN Queue(q) # <<>> /\ Stolen(a, q)

\* The next queue of the walk: nothing there, or its owner is in the middle of
\* a pop; or something to try for.
StealLook(a) ==
    /\ pc[a] = "steal" /\ dip[a] = "" /\ try[a] = Null /\ pos[a] <= Len(Walk(a))
    /\ LET q == Walk(a)[pos[a]]
       IN  IF Queue(q) = <<>> \/ dip[q[2]] = q[1]
           THEN pos' = [pos EXCEPT ![a] = @ + 1] /\ UNCHANGED try
           ELSE try' = [try EXCEPT ![a] = q] /\ UNCHANGED pos
    /\ UNCHANGED <<pc, marked, ptrs, chunks, scan, done, dip, marking, counting, requests, stacks, pools, n_gc>>

StealTry(a) ==
    /\ pc[a] = "steal" /\ try[a] \notin {Null, Lost} /\ Stolen(a, try[a])

StealLost(a) ==
    /\ try[a] = Lost /\ try' = [try EXCEPT ![a] = Null]
    /\ pos' = [pos EXCEPT ![a] = @ + 1]
    /\ UNCHANGED <<pc, marked, ptrs, chunks, scan, done, dip, marking, counting, requests, stacks, pools, n_gc>>

\* Mutant: the pointer queues of the others are not looked at.
StealNothingEarly(a) ==
    /\ Step(a, "steal", IF tid = Null THEN "stack_start" ELSE "dec")
    /\ dip[a] = "" /\ pos[a] > Len(GCOrder) + 1 /\ pos' = [pos EXCEPT ![a] = 1]
    /\ UNCHANGED <<marked, ptrs, chunks, try, scan, done, dip, marking, counting, requests, stacks, pools, n_gc>>

\* Out of gc_mark_and_steal: from the mark loop, or from the finalizer flush.
StealNothing(a) ==
    /\ Step(a, "steal", IF tid = Null THEN "stack_start" ELSE "dec")
    /\ dip[a] = "" /\ pos[a] > Len(Walk(a)) /\ pos' = [pos EXCEPT ![a] = 1]
    /\ UNCHANGED <<marked, ptrs, chunks, try, scan, done, dip, marking, counting, requests, stacks, pools, n_gc>>

\* gc_try_claim_and_push of one reference: gc_try_setmark_tag looks at the
\* mark bit, and exchanges the tag if it is clear.
ToClaim(a) == Refs[scan[a].o][scan[a].i]
NextRef(a) == scan' = [scan EXCEPT ![a].i = @ + 1]

Look(a) ==
    /\ pc[a] = "scan" /\ dip[a] = "" /\ scan[a].i <= scan[a].end
    /\ done' = done \cup {<<scan[a].o, scan[a].i>>}
    /\ IF ToClaim(a) \in marked THEN NextRef(a) /\ UNCHANGED pc
                                ELSE Goto(a, "claim") /\ UNCHANGED scan
    /\ UNCHANGED <<marked, ptrs, chunks, pos, try, dip, marking, counting, requests, stacks, pools, n_gc>>

\* Mutant: a load and a store in place of the exchange.
ClaimUnraced(a) ==
    /\ Step(a, "claim", "scan") /\ NextRef(a)
    /\ marked' = marked \cup {ToClaim(a)}
    /\ ptrs' = [ptrs EXCEPT ![a] = Append(@, ToClaim(a))]
    /\ UNCHANGED <<chunks, pos, try, done, dip, marking, counting, requests, stacks, pools, n_gc>>

Claim(a) ==
    /\ Step(a, "claim", "scan") /\ NextRef(a)
    /\ marked' = marked \cup {ToClaim(a)}
    /\ ptrs' = IF ToClaim(a) \in marked THEN ptrs
               ELSE [ptrs EXCEPT ![a] = Append(@, ToClaim(a))]
    /\ UNCHANGED <<chunks, pos, try, done, dip, marking, counting, requests, stacks, pools, n_gc>>

\* Mutant: the rest of a large array is forgotten.
ScannedDropped(a) ==
    /\ Step(a, "scan", "pop_ptr") /\ dip[a] = "" /\ scan[a].i > scan[a].end
    /\ scan' = [scan EXCEPT ![a] = Idle]
    /\ UNCHANGED <<marked, ptrs, chunks, pos, try, done, dip, marking, counting, requests, stacks, pools, n_gc>>

Scanned(a) ==
    /\ Step(a, "scan", "pop_ptr") /\ dip[a] = "" /\ scan[a].i > scan[a].end
    /\ chunks' = IF scan[a].late
                 THEN [chunks EXCEPT ![a] = Append(@, <<scan[a].o, scan[a].i>>)] ELSE chunks
    /\ scan' = [scan EXCEPT ![a] = Idle]
    /\ UNCHANGED <<marked, ptrs, pos, try, done, dip, marking, counting, requests, stacks, pools, n_gc>>

MarkAndSteal(a) ==
    \/ PopPtr(a) \/ PopChunk(a) \/ Restore(a) \/ gc_mark_chunk(a) \/ StealRandom(a)
    \/ StealLook(a) \/ StealTry(a) \/ StealLost(a) \/ StealNothing(a)
    \/ Look(a) \/ Claim(a) \/ Scanned(a)

-----------------------------------------------------------------------------
(* Leaving the mark loop, and gc_should_mark: with gc_queue_observer_lock,   *)
(* read gc_n_threads_marking, count the work in one queue after the other    *)
(* (the initiator's first), and join when there is enough for one more.      *)
\* Mutant: the initiator does not wait for the others.
StopMarkingNoWait(a) ==
    /\ Step(a, "dec", IF a = Initiator THEN "barrier" ELSE "observe")
    /\ n_marking' = n_marking - 1
    /\ UNCHANGED <<heap, dip, tid, counting, requests, stacks, pools, n_gc>>

StopMarking(a) ==
    /\ Step(a, "dec", "observe") /\ n_marking' = n_marking - 1
    /\ UNCHANGED <<heap, dip, tid, counting, requests, stacks, pools, n_gc>>

Unlock == observer_lock' = Null /\ n_seen' = 0 /\ work' = 0 /\ left' = {}

\* The head of the loop, with the lock just taken or held from the last round.
LoadMarking(a) ==
    /\ pc[a] = "observe" /\ observer_lock \in {Null, a}
    /\ IF n_marking = 0
       THEN Unlock /\ Goto(a, IF a = Initiator THEN "barrier" ELSE "stacks")
       ELSE /\ n_seen' = n_marking /\ work' = 0 /\ left' = Threads
            /\ Goto(a, "count") /\ observer_lock' = a
    /\ UNCHANGED <<heap, dip, marking, requests, stacks, pools, n_gc>>

\* gc_count_work_in_queue of thread v: bottom - top of each queue.
WorkOf(v) ==
    Len(ptrs[v]) + ChunkWork * Len(chunks[v])
    - (CASE dip[v] = "ptr" -> 1 [] dip[v] = "chunk" -> ChunkWork [] OTHER -> 0)

CountWork(a) ==
    /\ pc[a] = "count" /\ left # {} /\ UNCHANGED pc
    /\ \E v \in left : /\ v = Initiator \/ Initiator \notin left
                       /\ work' = work + WorkOf(v) /\ left' = left \ {v}
    /\ UNCHANGED <<heap, dip, marking, n_seen, observer_lock, requests, stacks, pools, n_gc>>

\* The sum is a size_t: below zero it is larger than any threshold.
Decide(a) ==
    /\ pc[a] = "count" /\ left = {}
    /\ IF work < 0 \/ work >= Worth * n_seen
       THEN n_marking' = n_marking + 1 /\ Unlock /\ Goto(a, "pop_ptr")
       ELSE Goto(a, "observe") /\ n_seen' = 0 /\ work' = 0
            /\ UNCHANGED <<n_marking, left, observer_lock>>
    /\ UNCHANGED <<heap, dip, tid, requests, stacks, pools, n_gc>>

ShouldMark(a) ==
    StopMarking(a) \/ LoadMarking(a) \/ CountWork(a) \/ Decide(a)

(* The rest of the mark phase, by the initiator alone: gc_mark_loop_barrier, *)
(* gc_mark_clean_reclaim_sets, and the finalizer lists, which are marked     *)
(* from its own queue.                                                       *)
gc_mark_loop_barrier ==
    /\ Step(Initiator, "barrier", "clean") /\ tid' = Null
    /\ UNCHANGED <<heap, dip, n_marking, counting, requests, stacks, pools, n_gc>>

gc_mark_clean_reclaim_sets ==
    /\ Step(Initiator, "clean", "finlist")
    /\ ptrs' = Each(<<>>) /\ chunks' = Each(<<>>) /\ dip' = Each("")
    /\ UNCHANGED <<marked, pos, try, scan, done, marking, counting, requests, stacks, pools, n_gc>>

gc_mark_finlist ==
    /\ Step(Initiator, "finlist", "pop_ptr")
    /\ ptrs' = [ptrs EXCEPT ![Initiator] = IF Finalized \in marked THEN <<>> ELSE <<Finalized>>]
    /\ marked' = marked \cup {Finalized}
    /\ UNCHANGED <<chunks, pos, try, scan, done, dip, marking, counting, requests, stacks, pools, n_gc>>

-----------------------------------------------------------------------------
(* jl_gc_sweep_stack_pools_and_mtarraylist_buffers: the index, the requests, *)
(* the loop that takes one slot after the other, and the wait for it to end. *)
StartStacks ==
    /\ Step(Initiator, "stack_start", "stack_wake")
    /\ sweep_idx' = NSlots - 1 /\ unswept' = 0..(NSlots - 1)
    /\ UNCHANGED <<heap, dip, marking, counting, requests, n_stacks, slot, pools, n_gc>>

gc_sweep_wake_all_stacks ==
    /\ Broadcast("stack_wake", "stack_in")
    /\ stack_req' = [g \in GCThreads |-> stack_req[g] + 1]
    /\ UNCHANGED <<heap, dip, marking, counting, page_req, threads_lock, stacks, pools, n_gc>>

StackIn(a) ==
    /\ Step(a, "stack_in", "stack_take") /\ n_stacks' = n_stacks + 1
    /\ UNCHANGED <<heap, dip, marking, counting, requests, sweep_idx, slot, unswept, pools, n_gc>>

StackTake(a) ==
    /\ pc[a] = "stack_take"
    /\ sweep_idx' = sweep_idx - 1
    /\ IF sweep_idx < 0 THEN Goto(a, "stack_out") /\ UNCHANGED slot
       ELSE Goto(a, "stack_sweep") /\ slot' = [slot EXCEPT ![a] = sweep_idx]
    /\ UNCHANGED <<heap, dip, marking, counting, requests, n_stacks, unswept, pools, n_gc>>

StackSweep(a) ==
    /\ Step(a, "stack_sweep", "stack_take")
    /\ unswept' = unswept \ {slot[a]} /\ slot' = [slot EXCEPT ![a] = -1]
    /\ UNCHANGED <<heap, dip, marking, counting, requests, sweep_idx, n_stacks, pools, n_gc>>

\* A collector thread also takes back the request, which only itself reads.
StackOut(a) ==
    /\ Step(a, "stack_out", IF a = Initiator THEN "stack_wait_idx" ELSE "pages")
    /\ n_stacks' = n_stacks - 1
    /\ stack_req' = [g \in GCThreads |-> stack_req[g] - (IF g = a THEN 1 ELSE 0)]
    /\ UNCHANGED <<heap, dip, marking, counting, page_req, threads_lock, sweep_idx, slot, unswept, pools, n_gc>>

\* gc_sweep_wait_for_all_stacks: the index, then the count, until both agree.
StackWaitIdx ==
    /\ Step(Initiator, "stack_wait_idx", "stack_wait_n") /\ sweep_idx < 0
    /\ UNCHANGED <<heap, dip, marking, counting, requests, stacks, pools, n_gc>>

\* Mutant: every slot was taken, but perhaps not swept.
StackWaitNot ==
    /\ Step(Initiator, "stack_wait_n", "page_start")
    /\ UNCHANGED <<heap, dip, marking, counting, requests, stacks, pools, n_gc>>

StackWaitN ==
    /\ Step(Initiator, "stack_wait_n", IF n_stacks = 0 THEN "page_start" ELSE "stack_wait_idx")
    /\ UNCHANGED <<heap, dip, marking, counting, requests, stacks, pools, n_gc>>

SweepStacks(a) == StackIn(a) \/ StackTake(a) \/ StackSweep(a) \/ StackOut(a)

-----------------------------------------------------------------------------
(* gc_sweep_pool: publish the scratch lists, ask for help if that is worth   *)
(* it, sweep page after page, take the scratch lists back, and wait.         *)
StartPages ==
    /\ pc[Initiator] = "page_start" /\ (Goto(Initiator, "page_wake") \/ Goto(Initiator, "page_in"))
    /\ scratch' = TRUE /\ pages' = Pages
    /\ UNCHANGED <<heap, dip, marking, counting, requests, stacks, page, n_pools, n_gc>>

gc_sweep_wake_all_pages ==
    /\ Broadcast("page_wake", "page_in")
    /\ page_req' = [g \in GCThreads |-> page_req[g] + 1]
    /\ UNCHANGED <<heap, dip, marking, counting, stack_req, threads_lock, stacks, pools, n_gc>>

PageIn(a) ==
    /\ Step(a, "page_in", "page_load") /\ n_pools' = n_pools + 1
    /\ UNCHANGED <<heap, dip, marking, counting, requests, stacks, scratch, pages, page, n_gc>>

\* Mutant: an early return that leaves the thread counted.
PageLoadLeaks(a) ==
    /\ Step(a, "page_load", IF scratch \/ a = Initiator THEN "page_take" ELSE "check")
    /\ UNCHANGED <<heap, dip, marking, counting, requests, stacks, pools, n_gc>>

PageLoad(a) ==
    /\ Step(a, "page_load", IF scratch THEN "page_take" ELSE "page_out")
    /\ UNCHANGED <<heap, dip, marking, counting, requests, stacks, pools, n_gc>>

PageTake(a) ==
    /\ pc[a] = "page_take"
    /\ IF pages = {} THEN Goto(a, "page_out") /\ UNCHANGED <<pages, page>>
       ELSE /\ \E p \in pages : pages' = pages \ {p} /\ page' = [page EXCEPT ![a] = p]
            /\ Goto(a, "page_sweep")
    /\ UNCHANGED <<heap, dip, marking, counting, requests, stacks, scratch, n_pools, n_gc>>

PageSweep(a) ==
    /\ Step(a, "page_sweep", "page_take") /\ page' = [page EXCEPT ![a] = Null]
    /\ UNCHANGED <<heap, dip, marking, counting, requests, stacks, scratch, pages, n_pools, n_gc>>

PageOut(a) ==
    /\ Step(a, "page_out", IF a = Initiator THEN "page_null" ELSE "check")
    /\ n_pools' = n_pools - 1
    /\ page_req' = [g \in GCThreads |-> page_req[g] - (IF g = a THEN 1 ELSE 0)]
    /\ UNCHANGED <<heap, dip, marking, counting, stack_req, threads_lock, stacks, scratch, pages, page, n_gc>>

\* Mutant: the scratch lists are not taken back.
PageNullForgotten ==
    /\ Step(Initiator, "page_null", "page_wait")
    /\ UNCHANGED <<heap, dip, marking, counting, requests, stacks, pools, n_gc>>

PageNull ==
    /\ Step(Initiator, "page_null", "page_wait") /\ scratch' = FALSE
    /\ UNCHANGED <<heap, dip, marking, counting, requests, stacks, pages, page, n_pools, n_gc>>

PageWait ==
    /\ Step(Initiator, "page_wait", "merge") /\ n_pools = 0
    /\ UNCHANGED <<heap, dip, marking, counting, requests, stacks, pools, n_gc>>

\* The scratch lists become the page lists and are freed; marks are cleared.
Merge ==
    /\ Step(Initiator, "merge", "mutator") /\ marked' = {}
    /\ UNCHANGED <<ptrs, chunks, pos, try, scan, done, dip, marking, counting, requests, stacks, pools, n_gc>>

SweepPages(a) == PageIn(a) \/ PageLoad(a) \/ PageTake(a) \/ PageSweep(a) \/ PageOut(a)

-----------------------------------------------------------------------------
(* jl_parallel_gc_threadfun by collector thread g: sleep until there may be  *)
(* something to do, then gc_mark_loop, the stacks and the pages in turn.     *)
\* Mutant: a request to sweep stacks wakes nobody.
MayWorkNoStacks(g) == n_marking > 0 \/ page_req[g] > 0

MayWork(g) == n_marking > 0 \/ page_req[g] > 0 \/ stack_req[g] > 0

Check(g) ==
    /\ pc[g] = "check" /\ threads_lock = Null
    /\ IF MayWork(g) THEN Goto(g, "observe") /\ UNCHANGED threads_lock
                     ELSE Goto(g, "sleep") /\ threads_lock' = g
    /\ UNCHANGED <<heap, dip, marking, counting, stack_req, page_req, stacks, pools, n_gc>>

\* uv_cond_wait: enqueue and release the lock.
Sleep(g) ==
    /\ Step(g, "sleep", "asleep") /\ threads_lock' = Null
    /\ UNCHANGED <<heap, dip, marking, counting, stack_req, page_req, stacks, pools, n_gc>>

Stacks(g) ==
    /\ Step(g, "stacks", IF stack_req[g] > 0 THEN "stack_in" ELSE "pages")
    /\ UNCHANGED <<heap, dip, marking, counting, requests, stacks, pools, n_gc>>

PagesIf(g) ==
    /\ Step(g, "pages", IF page_req[g] > 0 THEN "page_in" ELSE "check")
    /\ UNCHANGED <<heap, dip, marking, counting, requests, stacks, pools, n_gc>>

-----------------------------------------------------------------------------
Both(a) == MarkAndSteal(a) \/ ShouldMark(a) \/ SweepStacks(a) \/ SweepPages(a)

Initiate ==
    \/ SetTid \/ StartMarking \/ gc_wake_all_for_marking
    \/ gc_mark_loop_barrier \/ gc_mark_clean_reclaim_sets \/ gc_mark_finlist
    \/ StartStacks \/ gc_sweep_wake_all_stacks \/ StackWaitIdx \/ StackWaitN
    \/ StartPages \/ gc_sweep_wake_all_pages \/ PageNull \/ PageWait \/ Merge
    \/ Both(Initiator)

Help(g) == Check(g) \/ Sleep(g) \/ Stacks(g) \/ PagesIf(g) \/ Both(g)

Next == Collect \/ Initiate \/ \E g \in GCThreads : Help(g)

Spec == Init /\ [][Next]_vars

\* Every thread keeps running; a collection is started by no promise.
FairSpec ==
    /\ Spec /\ WF_vars(Initiate)
    /\ \A k \in DOMAIN Helpers : WF_vars(Helpers[k] \in GCThreads /\ Help(Helpers[k]))

-----------------------------------------------------------------------------
(* The objects that can be reached from S: they are in every set that holds  *)
(* S and what its members refer to.                                          *)
Closed(C) == \A o \in C : \A k \in DOMAIN Refs[o] : Refs[o][k] \in C
Reach(S) == {o \in Objects : \A C \in SUBSET Objects : S \subseteq C /\ Closed(C) => o \in C}

InMarkLoop(a) ==
    pc[a] \in {"pop_ptr", "pop_chunk", "mark_chunk", "steal", "scan", "claim", "dec"}
Empty == \A a \in Threads : ptrs[a] = <<>> /\ chunks[a] = <<>> /\ scan[a] = Idle

(* "No work items shall be in any thread's queues when gc_should_mark        *)
(* observes that gc_n_threads_marking is zero" during the mark loop.         *)
NoWorkLeft ==
    tid = Initiator /\ pc[Initiator] # "inc" /\ n_marking = 0
        => Empty /\ \A a \in Threads : ~InMarkLoop(a)

(* "No work item shall be stolen from the initiator thread after              *)
(* gc_should_mark observes that gc_n_threads_marking is zero": no collector  *)
(* thread is in the mark loop while the initiator queues roots on the queues *)
(* of others, resets the queues, frees replaced arrays, or marks finalizers; *)
(* and none counts the work there, where gc_initiator_tid # -1 is asserted.  *)
InitiatorAlone ==
    tid = Null \/ pc[Initiator] = "inc" =>
        \A g \in GCThreads : ~InMarkLoop(g) /\ pc[g] # "count" /\ dip[g] = ""

(* Marking is complete: past the mark loop everything reachable from the     *)
(* roots is marked and every reference was followed; past the finalizer      *)
(* flush, also from the finalizer lists.                                     *)
RootSet == UNION {{Roots[a][k] : k \in DOMAIN Roots[a]} : a \in Threads}
AllFollowed(S) == marked = S /\ done = UNION {{<<o, k>> : k \in DOMAIN Refs[o]} : o \in S}
AllMarked ==
    /\ pc[Initiator] \in {"barrier", "clean", "finlist"} => AllFollowed(Reach(RootSet))
    /\ pc[Initiator] \in {"stack_start", "stack_wait_n", "page_start", "merge"}
         => AllFollowed(Reach(RootSet \cup {Finalized}))

(* No reference is followed twice: marking an object is not idempotent, so   *)
(* an object is queued once, and the chunks of an array do not overlap.      *)
FollowedOnce ==
    [][\A a \in Threads :
         pc[a] = "scan" /\ scan[a] # Idle /\ (scan'[a].i = scan[a].i + 1 \/ pc'[a] = "claim")
            => <<scan[a].o, scan[a].i>> \notin done]_vars

(* The stacks of each thread are swept once in a collection, by one thread,  *)
(* and none is being swept once the initiator has waited.                    *)
StacksSwept ==
    /\ \A a \in Threads : pc[a] = "stack_sweep" => slot[a] \in unswept
    /\ \A a, b \in Threads : a # b /\ slot[a] # -1 => slot[a] # slot[b]
    /\ pc[Initiator] \in {"page_start", "merge", "mutator"} => unswept = {}

(* The scratch lists are alive while a thread sweeps into them, and complete *)
(* when the initiator takes them over.                                       *)
Sweeping(a) == pc[a] \in {"page_take", "page_sweep"}
ScratchLive ==
    /\ \A a \in Threads : Sweeping(a) => pc[Initiator] \in
         {"page_wake", "page_in", "page_load", "page_take", "page_sweep", "page_out", "page_null", "page_wait"}
    /\ pc[Initiator] = "merge" => pages = {} /\ page = Each(Null)

(* The count of the work left is taken while its owner is in the middle of a *)
(* pop: a queue that looks one below empty lets another thread join for      *)
(* nothing.  Joining that way for ever is left out here.                     *)
FalseJoin ==
    \E a \in Threads : pc[a] = "count" /\ left = {} /\ work < 0 /\ pc'[a] = "pop_ptr"
JoinsSettle == <>[][~FalseJoin]_vars

(* A collection that started ends, whatever the collector threads are still  *)
(* busy with: _jl_gc_collect returns from its mark loop and its two waits.   *)
CollectionEnds == JoinsSettle => (pc[Initiator] # "mutator" ~> pc[Initiator] = "mutator")

(* Every request to sweep stacks or pages is taken up by the collector       *)
(* thread it was made to, even when it was asleep, or late by a phase.       *)
RequestsServed ==
    JoinsSettle => \A k \in DOMAIN MaxCollections :
        LET g == Helpers[k]
            asked == g \in GCThreads /\ stack_req[g] + page_req[g] > 0
        IN  asked ~> ~asked
=============================================================================
