------------------------ MODULE ParallelGCInvariant -------------------------
(* The inductive invariant of the collector threads, and the vocabulary of  *)
(* its proof: what a step of a thread may do to the mark loop, to the       *)
(* sweeps and to the heap.                                                  *)
EXTENDS ParallelGC

MarkLabels == {"pop_ptr", "pop_chunk", "mark_chunk", "steal", "scan", "claim"}
LoopLabels == MarkLabels \cup {"dec"}
StackLabels == {"stack_in", "stack_take", "stack_sweep", "stack_out"}
PageLabels == {"page_in", "page_load", "page_take", "page_sweep", "page_out"}
MarkPhase == {"inc", "wake", "dec", "observe", "count", "barrier"}
StackPhase == StackLabels \cup {"stack_wake", "stack_wait_idx", "stack_wait_n"}
PagePhase == PageLabels \cup {"page_wake", "page_null"}
QuietPhase == {"mutator", "clean", "finlist", "stack_start", "page_start", "page_wait", "merge"}
                \cup StackPhase \cup PagePhase
InitiatorLabels == MarkLabels \cup MarkPhase \cup QuietPhase \cup {"tid"}
HelperLabels == LoopLabels \cup StackLabels \cup PageLabels
                  \cup {"observe", "count", "check", "sleep", "asleep", "stacks", "pages"}

(* The threads there are, and where each can be.                             *)
ThreadsOK ==
    /\ \E k \in 1..Len(Helpers) : GCThreads = {Helpers[j] : j \in 1..k} /\ Cardinality(GCThreads) = k
    /\ pc \in [Threads -> InitiatorLabels \cup HelperLabels]
    /\ pc[Initiator] \in InitiatorLabels
    /\ \A g \in GCThreads : pc[g] \in HelperLabels

(* gc_initiator_tid is set while the initiator is in gc_mark_loop.           *)
TidOK ==
    /\ tid \in {Null, Initiator}
    /\ pc[Initiator] \in MarkPhase => tid = Initiator
    /\ pc[Initiator] \in QuietPhase \cup {"tid"} => tid = Null

(* gc_n_threads_marking counts the threads in the mark loop, the initiator   *)
(* from before it wakes the others, and not in the finalizer flush.          *)
Marking(a) == pc[a] = "wake" \/ (pc[a] \in LoopLabels /\ (a = Initiator => tid # Null))
MarkCount == n_marking = Cardinality({a \in Threads : Marking(a)})

(* gc_queue_observer_lock is held while work is counted.                     *)
ObserverLock == \A a \in Threads :
    /\ pc[a] = "count" => observer_lock = a
    /\ observer_lock = a => pc[a] \in {"observe", "count"}

(* Outside the mark loop of the initiator no collector thread is in its own, *)
(* or about to join.                                                         *)
Alone == tid = Null \/ pc[Initiator] \in {"inc", "barrier"} =>
    \A g \in GCThreads : pc[g] \notin LoopLabels \cup {"count"}

(* A queue is below its top only within a pop.                               *)
Dips ==
    /\ dip \in [Threads -> {"", "ptr", "chunk"}]
    /\ \A a \in Threads : dip[a] # "" => pc[a] \in {"pop_chunk", "mark_chunk", "steal", "scan"}

LoopInv == ThreadsOK /\ TidOK /\ MarkCount /\ ObserverLock /\ Alone /\ Dips

-----------------------------------------------------------------------------
(* The stacks: those up to the index are left, and those that a thread has   *)
(* taken and not swept; gc_n_threads_sweeping_stacks counts who may have.    *)
InStacks(a) == pc[a] \in {"stack_take", "stack_sweep", "stack_out"}
StackInv ==
    /\ sweep_idx \in Int /\ sweep_idx < NSlots /\ slot \in [Threads -> Int]
    /\ unswept \subseteq 0..(NSlots - 1)
    /\ \A s \in 0..(NSlots - 1) :
         s \in unswept <=> s <= sweep_idx \/ \E a \in Threads : slot[a] = s
    /\ \A a \in Threads : IF pc[a] = "stack_sweep" THEN slot[a] \in 0..(NSlots - 1) /\ slot[a] > sweep_idx
                          ELSE slot[a] = -1
    /\ \A a, b \in Threads : a # b /\ slot[a] # -1 => slot[a] # slot[b]
    /\ n_stacks = Cardinality({a \in Threads : InStacks(a)})
    /\ pc[Initiator] = "stack_wait_n" => sweep_idx < 0
    /\ pc[Initiator] \notin StackPhase => sweep_idx < 0 /\ unswept = {}

(* The pages: the scratch lists are there in this phase alone, and whoever   *)
(* uses them is counted in gc_n_threads_sweeping_pools.                      *)
InPages(a) == pc[a] \in {"page_load", "page_take", "page_sweep", "page_out"}
PageInv ==
    /\ pages \subseteq Pages
    /\ scratch \in BOOLEAN /\ (scratch <=> pc[Initiator] \in PagePhase)
    /\ \A a \in Threads : Sweeping(a) => pc[Initiator] \in PagePhase \cup {"page_wait"}
    /\ page \in [Threads -> Pages \cup {Null}]
    /\ \A a \in Threads : page[a] # Null => pc[a] = "page_sweep"
    /\ pc[Initiator] \in {"page_out", "page_null", "page_wait", "merge"} => pages = {}
    /\ n_pools = Cardinality({a \in Threads : InPages(a)})

-----------------------------------------------------------------------------
In(q, x) == \E j \in 1..Len(q) : q[j] = x
Distinct(q) == \A j, k \in 1..Len(q) : q[j] = q[k] => j = k

(* The items of the queues and the locals of a scan.                         *)
Queues == {"ptr", "chunk"} \X Threads
HeapTypes ==
    /\ marked \subseteq Objects
    /\ ptrs \in [Threads -> Seq(Objects)] /\ chunks \in [Threads -> Seq(Objects \X Nat)]
    /\ scan \in [Threads -> [o : Objects \cup {Null}, i : Nat, end : Nat, late : BOOLEAN]]

(* The walk over the queues: at which queue a thread is, and that its own    *)
(* queues are empty by then.                                                 *)
WalkAt(a) ==
    /\ pc[a] = "pop_chunk" => ptrs[a] = <<>>
    /\ pc[a] \in {"steal", "dec"} => ptrs[a] = <<>> /\ chunks[a] = <<>>
    /\ pc[a] # "steal" => pos[a] = 1 /\ try[a] = Null
    /\ pos[a] \in 1..(Len(Walk(a)) + 1)
    /\ try[a] # Null => pos[a] <= Len(Walk(a))
    /\ try[a] \notin {Null, Lost} => Walk(a)[pos[a]] = try[a] /\ Queue(try[a]) # <<>>
    /\ pc[a] \notin {"mark_chunk", "scan", "claim"} => scan[a] = Idle
WalkInv ==
    /\ pos \in [Threads -> Nat] /\ try \in [Threads -> Queues \cup {Null, Lost}]
    /\ \A a \in Threads : WalkAt(a)

(* A thread in the mark loop that has still to look at queue q.  One that    *)
(* lost an item of q to another will not look again; the other will.         *)
Visitor(b, q) ==
    /\ Marking(b) /\ pc[b] # "dec"
    /\ pc[b] = "steal" =>
         \E k \in pos[b]..Len(Walk(b)) : Walk(b)[k] = q /\ (try[b] = Lost => k # pos[b])

WorkInv ==
    /\ tid = Initiator /\ pc[Initiator] # "inc" =>
         \A q \in Queues : Queue(q) = <<>> \/ Marking(q[2]) \/ \E b \in Threads : Visitor(b, q)
    /\ pc[Initiator] \in QuietPhase \cup {"barrier"} => Empty
    /\ pc[Initiator] \in MarkLabels /\ tid = Null =>
         \A g \in GCThreads : ptrs[g] = <<>> /\ chunks[g] = <<>>

-----------------------------------------------------------------------------
(* What is queued or scanned is marked, and has the references in question.  *)
Scanning(a) == pc[a] \in {"scan", "claim"}
ScanOK(a) ==
    /\ pc[a] = "mark_chunk" => scan[a].o \in marked /\ scan[a].i \in 1..Len(Refs[scan[a].o])
    /\ Scanning(a) => /\ scan[a].o \in marked /\ scan[a].end <= Len(Refs[scan[a].o])
                      /\ scan[a].i \in 1..(scan[a].end + 1)
                      /\ scan[a].late => scan[a].end < Len(Refs[scan[a].o])
    /\ pc[a] = "claim" => scan[a].i <= scan[a].end
QueueOK(a) ==
    /\ \A o \in Objects : In(ptrs[a], o) => o \in marked
    /\ \A o \in Objects, f \in Nat : In(chunks[a], <<o, f>>) => o \in marked /\ f \in 1..Len(Refs[o])
Bounds == \A a \in Threads : ScanOK(a) /\ QueueOK(a)

(* Where marking comes from: with the flush, also from the finalizer lists.  *)
Sources == IF tid = Null /\ pc[Initiator] \notin {"tid", "clean", "finlist"}
           THEN RootSet \cup {Finalized} ELSE RootSet

(* Reference k of o is still to be followed by the scan of thread a.         *)
Scans(a, o, k) ==
    /\ o = scan[a].o
    /\ \/ pc[a] = "mark_chunk" /\ scan[a].i <= k
       \/ /\ Scanning(a) /\ scan[a].i <= k /\ (k <= scan[a].end \/ scan[a].late)
          /\ pc[a] = "claim" => scan[a].i # k
Chunked(a, o, k) == \E f \in 1..k : In(chunks[a], <<o, f>>)
Pending(o, k) == \E a \in Threads : In(ptrs[a], o) \/ Chunked(a, o, k) \/ Scans(a, o, k)

(* Every reference of a marked object is followed or will be.                *)
Covered == \A o \in marked : \A k \in DOMAIN Refs[o] : <<o, k>> \in done \/ Pending(o, k)

(* What a followed reference leads to is marked, or about to be.             *)
Targets == \A d \in done :
    /\ d[1] \in marked /\ d[2] \in DOMAIN Refs[d[1]] /\ d = <<d[1], d[2]>>
    /\ \/ Refs[d[1]][d[2]] \in marked
       \/ \E a \in Threads : pc[a] = "claim" /\ scan[a].o = d[1] /\ scan[a].i = d[2]

MarkInv == pc[Initiator] # "mutator" =>
    Sources \subseteq marked /\ marked \subseteq Reach(Sources) /\ Covered /\ Targets

(* And by one thread only: an item is in one queue, and a reference is       *)
(* covered by one of queue, chunk and scan, and not if it was followed.      *)
PtrsOnce ==
    /\ \A a \in Threads : Distinct(ptrs[a])
    /\ \A a, b \in Threads, o \in Objects : In(ptrs[a], o) /\ In(ptrs[b], o) => a = b
ChunksOnce ==
    /\ \A a \in Threads : Distinct(chunks[a])
    /\ \A a, b \in Threads, o \in Objects, e, f \in Nat :
         In(chunks[a], <<o, e>>) /\ In(chunks[b], <<o, f>>) => a = b /\ e = f
OnceAt(o, k) ==
    /\ \A a, b \in Threads :
         /\ In(ptrs[a], o) => ~Chunked(b, o, k) /\ ~Scans(b, o, k)
         /\ Chunked(a, o, k) => ~Scans(b, o, k)
         /\ Scans(a, o, k) /\ Scans(b, o, k) => a = b
    /\ <<o, k>> \in done => ~Pending(o, k)
Once == PtrsOnce /\ ChunksOnce /\ \A o \in Objects : \A k \in 1..Len(Refs[o]) : OnceAt(o, k)
OnceInv == pc[Initiator] # "mutator" => Once

-----------------------------------------------------------------------------
\* A step of thread a alone.
Moves(a) ==
    /\ GCThreads' = GCThreads
    /\ pc' \in [Threads -> InitiatorLabels \cup HelperLabels]
    /\ \A b \in Threads : b # a => pc'[b] = pc[b]
    /\ a = Initiator => pc'[a] \in InitiatorLabels
    /\ a # Initiator => pc'[a] \in HelperLabels

\* A step of thread a within gc_mark_and_steal, or out of the flush.
MarkMove(a) ==
    /\ Moves(a) /\ UNCHANGED <<tid, n_marking, observer_lock>>
    /\ \/ pc'[a] = pc[a]
       \/ /\ pc[a] \in MarkLabels
          /\ \/ pc'[a] \in MarkLabels
             \/ pc'[a] = "dec" /\ tid # Null
             \/ pc'[a] = "stack_start" /\ tid = Null /\ a = Initiator

(* gc_mark_and_steal stays in the mark loop or leaves it as it must.         *)
Aside == UNCHANGED <<tid, n_marking, observer_lock, stack_req, stacks, pools, n_gc>>

\* A step of thread a outside both sweeps.
Busy == {"stack_take", "stack_sweep", "stack_out", "page_load", "page_take", "page_sweep", "page_out"}

(* All of it, step by step.                                                  *)
SweepInv == LoopInv /\ StackInv /\ PageInv

(* Queues: r is queue q without an item x of it.                             *)
Took(q, r, x) ==
    /\ In(q, x) /\ \A y : In(r, y) => In(q, y)
    /\ \A y : In(q, y) => In(r, y) \/ y = x
    /\ Distinct(q) => Distinct(r) /\ ~In(r, x)

\* gc_mark_objarray from reference i of o: the batch [i, end] is scanned now,
\* and the rest is queued, now or late.
ScansFrom(a, o, i) == \E end \in Nat, late \in BOOLEAN :
    /\ scan' \in [Threads -> [o : Objects \cup {Null}, i : Nat, end : Nat, late : BOOLEAN]]
    /\ scan'[a].o = o /\ scan'[a].i = i /\ scan'[a].end = end /\ scan'[a].late = late
    /\ \A b \in Threads : b # a => scan'[b] = scan[b]
    /\ i <= end + 1 /\ end <= Len(Refs[o])
    /\ \/ end = Len(Refs[o]) /\ late = FALSE /\ chunks' = chunks
       \/ end < Len(Refs[o]) /\ late = TRUE /\ chunks' = chunks
       \/ end < Len(Refs[o]) /\ late = FALSE /\ chunks' = [chunks EXCEPT ![a] = Append(@, <<o, end + 1>>)]

(* What a step of gc_mark_and_steal does to the heap.  Thread a takes object *)
(* x off the queue of b and begins to scan it;                               *)
TakesPtr(a, b, x) ==
    /\ pc[a] \in {"pop_ptr", "steal"} /\ pc'[a] = "scan" /\ UNCHANGED <<marked, done>>
    /\ x \in Objects /\ Took(ptrs[b], ptrs'[b], x)
    /\ ptrs' \in [Threads -> Seq(Objects)] /\ \A c \in Threads : c # b => ptrs'[c] = ptrs[c]
    /\ ScansFrom(a, x, 1)

(* a chunk;                                                                  *)
TakesChunk(a, b, o, i) ==
    /\ pc[a] \in {"pop_chunk", "steal"} /\ pc'[a] = "mark_chunk" /\ UNCHANGED <<marked, done, ptrs>>
    /\ o \in Objects /\ i \in Nat /\ Took(chunks[b], chunks'[b], <<o, i>>)
    /\ chunks' \in [Threads -> Seq(Objects \X Nat)] /\ \A c \in Threads : c # b => chunks'[c] = chunks[c]
    /\ scan' \in [Threads -> [o : Objects \cup {Null}, i : Nat, end : Nat, late : BOOLEAN]]
    /\ scan'[a].o = o /\ scan'[a].i = i /\ \A c \in Threads : c # a => scan'[c] = scan[c]

(* begins to scan a chunk;                                                   *)
StartsChunk(a) ==
    /\ pc[a] = "mark_chunk" /\ pc'[a] = "scan" /\ UNCHANGED <<marked, done, ptrs>>
    /\ Scan(a, scan[a].o, scan[a].i)

(* or looks for work and takes none.                                         *)
TakesNone(a) ==
    /\ UNCHANGED <<marked, ptrs, chunks, scan, done>>
    /\ pc'[a] = pc[a] \/ (pc[a] \in {"pop_ptr", "pop_chunk", "steal"}
                          /\ pc'[a] \in {"pop_chunk", "steal", "dec", "stack_start"})

Effect(a) ==
    \/ \E b \in Threads, x \in Objects : TakesPtr(a, b, x)
    \/ \E b \in Threads, o \in Objects, i \in Nat : TakesChunk(a, b, o, i)
    \/ StartsChunk(a) \/ TakesNone(a) \/ Look(a) \/ Claim(a) \/ Scanned(a)

(* What a step of thread a can do to the walk of c: its attempt at a queue   *)
(* is lost when another takes from it, and it is not for an empty queue.     *)
Other(c) ==
    /\ pos'[c] = pos[c] /\ scan'[c] = scan[c]
    /\ ptrs[c] = <<>> => ptrs'[c] = <<>>
    /\ chunks[c] = <<>> => chunks'[c] = <<>>
    /\ try'[c] = try[c] \/ (try[c] \in Queues /\ try'[c] = Lost)
    /\ \A q \in Queues : try'[c] = q => Queue(q)' # <<>>

(* The walks after a step of gc_mark_and_steal by thread a.                  *)
Walks(a) ==
    /\ pos' \in [Threads -> Nat] /\ try' \in [Threads -> Queues \cup {Null, Lost}]
    /\ WalkAt(a)' /\ \A c \in Threads : c # a => Other(c)

(* No queue with work is left without a thread that will look at it:         *)
Attended == \A q \in Queues : Queue(q) = <<>> \/ Marking(q[2]) \/ \E b \in Threads : Visitor(b, q)

(* The steps outside gc_mark_and_steal.  Most leave the heap alone.          *)
HeapLabels == {"pop_chunk", "mark_chunk", "steal", "scan", "claim"}

Idles ==
    /\ UNCHANGED <<heap, tid>> /\ GCThreads' = GCThreads /\ Threads' = Threads
    /\ \A c \in Threads : \/ pc'[c] = pc[c]
                          \/ pc[c] \notin HeapLabels /\ pc'[c] \notin HeapLabels \cup {"dec"}
    /\ \/ pc'[Initiator] = pc[Initiator]
       \/ /\ pc[Initiator] \notin {"mutator", "tid", "clean", "finlist"}
          /\ pc'[Initiator] \notin {"mutator", "tid", "clean", "finlist"}

\* A step of one thread outside the mark phase that leaves the heap alone.
SweepPhase == QuietPhase \ {"mutator", "clean", "finlist"}

(* Every step is one of those that change the heap, or an idle one.          *)
Known == SweepInv /\ HeapTypes /\ Bounds /\ WalkInv /\ WorkInv

\* The references from i on: the scan has those below e, a chunk the rest.
Splits(a, o, i, e) ==
    /\ i <= e
    /\ \A x \in Objects, k \in Nat : k <= Len(Refs[x]) =>
         /\ Scans(a, x, k)' <=> x = o /\ i <= k /\ k < e
         /\ Chunked(a, x, k)' <=> Chunked(a, x, k) \/ (x = o /\ e <= k)
    /\ chunks'[a] = chunks[a] \/ (e <= Len(Refs[o]) /\ chunks'[a] = Append(chunks[a], <<o, e>>))

\* What was followed leads to a marked object, or to one about to be claimed.
Target(d) ==
    /\ d[1] \in marked /\ d[2] \in DOMAIN Refs[d[1]] /\ d = <<d[1], d[2]>>
    /\ \/ Refs[d[1]][d[2]] \in marked
       \/ \E a \in Threads : pc[a] = "claim" /\ scan[a].o = d[1] /\ scan[a].i = d[2]

\* Thread a goes from a reference to the next, or to claim what it leads to.
Follows(a) == pc[a] = "scan" /\ scan[a] # Idle /\ (scan'[a].i = scan[a].i + 1 \/ pc'[a] = "claim")
=============================================================================
