------------------------------ MODULE PagePool ------------------------------
(* The page allocator of the collector (src/gc-pages.c, src/gc-stock.c): the *)
(* three global stacks of free pages, lock-free and without protection       *)
(* against ABA; mutators that allocate a page; a collection that gives dead  *)
(* pages back while the mutators are stopped; and gc_free_pages, run by the  *)
(* collection itself or by the concurrent sweeper thread, which no           *)
(* collection waits for.  Not modelled: what a page holds, the operating     *)
(* system's side of mapping and releasing, Windows (commit on allocation).   *)
EXTENDS Integers, FiniteSets

CONSTANTS Pages,        \* jl_gc_pagemeta_t
          Mutators,     \* threads that allocate
          Collectors,   \* threads that sweep pages in a collection
          Sweepers,     \* the concurrent sweeper thread
          Null,
          BlockPages,   \* block_pg_cnt
          Keep,         \* default_collect_interval / GC_PAGE_SZ
          MaxBehind     \* bound: collections the sweeper has yet to finish

ASSUME BoundsNatural == BlockPages \in Nat \ {0} /\ Keep \in Nat /\ MaxBehind \in Nat

Pools == {"lazily_freed", "clean", "freed"}
Initiator == CHOOSE g \in Collectors : TRUE
Actors == Mutators \cup Collectors \cup Sweepers

Pages0 == Pages \cup {Null}
Idle == <<"idle", "">>
Wrapped == 2^30    \* stands for a size_t that went below zero

VARIABLES
    bottom,        \* bottom[s]: jl_gc_page_stack_t.bottom of stack s
    next,          \* jl_gc_pagemeta_t.next
    alloc_map,     \* what the page table says of a page
    n,             \* global_page_pool_lazily_freed_n
    unmapped,      \* pages the operating system has not given yet
    pages_lock,    \* gc_pages_lock
    block,         \* the pages of a new block that are not on pool_clean yet
    allocd,        \* allocd[m]: page_metadata_allocd of mutator m
    collecting,    \* a collection is running: the mutators are stopped
    dead,          \* empty pages the collection has not given back yet
    sweepers,      \* jl_n_sweepthreads: Sweepers or {}, an option of the process
    sem,           \* gc_sweep_assists_needed
    pc,            \* pc[a]: <<stack or step, step of a push or a pop>>
    old,           \* old[a]: old_back in actor a's push or pop
    new,           \* new[a]: old_back->next in actor a's pop
    meta,          \* meta[a]: the page actor a holds
    n_to_free,     \* the locals of gc_free_pages
    n_freed

stacks == <<bottom, next>>
table == <<alloc_map, n>>
blocks == <<unmapped, pages_lock, block>>
gc == <<collecting, dead, sweepers, sem>>
local == <<old, new, meta>>
count == <<n_to_free, n_freed>>
vars == <<stacks, table, blocks, allocd, gc, pc, local, count>>

Init ==
    /\ bottom = [s \in Pools |-> Null] /\ next = [p \in Pages |-> Null]
    /\ alloc_map = [p \in Pages |-> "unmapped"] /\ n = 0
    /\ unmapped = Pages /\ pages_lock = Null /\ block = {}
    /\ allocd = [m \in Mutators |-> {}]
    /\ collecting = FALSE /\ dead = {} /\ sweepers \in {{}, Sweepers} /\ sem = 0
    /\ pc = [a \in Actors |-> Idle]
    /\ old = [a \in Actors |-> Null] /\ new = old /\ meta = old
    /\ n_to_free = 0 /\ n_freed = 0

Goto(a, l) == pc' = [pc EXCEPT ![a] = l]
Set(f, a, v) == [f EXCEPT ![a] = v]

-----------------------------------------------------------------------------
(* pop_lf_back: read bottom, then the next field of the page found there,    *)
(* then exchange bottom if it still is that page, or start again.            *)
PopLoad(a, s) ==
    /\ pc[a] = <<s, "load">> /\ bottom[s] # Null
    /\ old' = Set(old, a, bottom[s]) /\ Goto(a, <<s, "next">>)
    /\ UNCHANGED <<stacks, table, blocks, allocd, gc, new, meta, count>>

PopNext(a, s) ==
    /\ pc[a] = <<s, "next">>
    /\ new' = Set(new, a, next[old[a]]) /\ Goto(a, <<s, "cas">>)
    /\ UNCHANGED <<stacks, table, blocks, allocd, gc, old, meta, count>>

PopRetry(a, s) ==
    /\ pc[a] = <<s, "cas">> /\ bottom[s] # old[a]
    /\ Goto(a, <<s, "load">>)
    /\ UNCHANGED <<stacks, table, blocks, allocd, gc, local, count>>

(* Mutant: bottom stored without a compare (pop_lf_back_nosync).             *)
PoppedNosync(a, s) ==
    /\ pc[a] = <<s, "cas">>
    /\ bottom' = Set(bottom, s, new[a]) /\ meta' = Set(meta, a, old[a])
    /\ old' = Set(old, a, Null) /\ new' = Set(new, a, Null)
    /\ UNCHANGED next

Popped(a, s) ==
    /\ pc[a] = <<s, "cas">> /\ bottom[s] = old[a]
    /\ bottom' = Set(bottom, s, new[a]) /\ meta' = Set(meta, a, old[a])
    /\ old' = Set(old, a, Null) /\ new' = Set(new, a, Null)
    /\ UNCHANGED next

(* push_lf_back of meta[a]: read bottom into its next field, then exchange   *)
(* bottom if it has not changed, or start again.                             *)
PushLoad(a, s) ==
    /\ pc[a] = <<s, "push">>
    /\ old' = Set(old, a, bottom[s]) /\ next' = Set(next, meta[a], bottom[s])
    /\ Goto(a, <<s, "link">>)
    /\ UNCHANGED <<bottom, table, blocks, allocd, gc, new, meta, count>>

PushRetry(a, s) ==
    /\ pc[a] = <<s, "link">> /\ bottom[s] # old[a]
    /\ Goto(a, <<s, "push">>)
    /\ UNCHANGED <<stacks, table, blocks, allocd, gc, local, count>>

Pushed(a, s) ==
    /\ pc[a] = <<s, "link">> /\ bottom[s] = old[a]
    /\ bottom' = Set(bottom, s, meta[a])
    /\ meta' = Set(meta, a, Null) /\ old' = Set(old, a, Null)
    /\ UNCHANGED <<next, new>>

-----------------------------------------------------------------------------
(* jl_gc_alloc_page by mutator m: the stacks in turn, then gc_pages_lock,    *)
(* pool_clean once more, and a new block.  There is no safepoint inside.     *)
Alloc(m) ==
    /\ pc[m] = Idle /\ ~collecting
    /\ Goto(m, <<"lazily_freed", "load">>)
    /\ UNCHANGED <<stacks, table, blocks, allocd, gc, local, count>>

AllocEmpty(m, s) ==
    /\ pc[m] = <<s, "load">> /\ bottom[s] = Null /\ pages_lock # m
    /\ Goto(m, CASE s = "lazily_freed" -> <<"clean", "load">>
                 [] s = "clean" -> <<"freed", "load">>
                 [] s = "freed" -> <<"lock", "">>)
    /\ UNCHANGED <<stacks, table, blocks, allocd, gc, local, count>>

AllocPop(m, s) ==
    /\ Popped(m, s)
    /\ pages_lock' = IF pages_lock = m THEN Null ELSE pages_lock
    /\ Goto(m, <<"got", s>>)
    /\ UNCHANGED <<table, unmapped, block, allocd, gc, count>>

(* gc_add_page pushes the page on the list of its mutator: from here on its  *)
(* next field names a page of that list.                                     *)
Take(m, p) ==
    /\ alloc_map' = Set(alloc_map, p, "allocated")
    /\ allocd' = Set(allocd, m, allocd[m] \cup {p})
    /\ \E q \in IF allocd[m] = {} THEN {Null} ELSE allocd[m] : next' = Set(next, p, q)

(* Mutants: the page is not counted out of, or stays marked as, lazily freed. *)
AllocGotUncounted(m) ==
    /\ pc[m][1] = "got" /\ Goto(m, Idle)
    /\ Take(m, meta[m]) /\ meta' = Set(meta, m, Null)
    /\ UNCHANGED <<bottom, n, blocks, gc, old, new, count>>

AllocGotUnmarked(m) ==
    /\ pc[m][1] = "got" /\ Goto(m, Idle)
    /\ n' = IF pc[m][2] = "lazily_freed" THEN n - 1 ELSE n
    /\ allocd' = Set(allocd, m, allocd[m] \cup {meta[m]}) /\ meta' = Set(meta, m, Null)
    /\ next' = Set(next, meta[m], Null)
    /\ UNCHANGED <<bottom, alloc_map, blocks, gc, old, new, count>>

AllocGot(m) ==
    /\ pc[m][1] = "got" /\ Goto(m, Idle)
    /\ n' = IF pc[m][2] = "lazily_freed" THEN n - 1 ELSE n
    /\ Take(m, meta[m]) /\ meta' = Set(meta, m, Null)
    /\ UNCHANGED <<bottom, blocks, gc, old, new, count>>

AllocLock(m) ==
    /\ pc[m] = <<"lock", "">> /\ pages_lock = Null
    /\ pages_lock' = m /\ Goto(m, <<"clean", "load">>)
    /\ UNCHANGED <<stacks, table, unmapped, block, allocd, gc, local, count>>

(* The operating system gives a block (a smaller one when it refuses the     *)
(* larger): m keeps a page of it and pushes the others on pool_clean.        *)
MapBlock(m) ==
    /\ pc[m] = <<"clean", "load">> /\ bottom["clean"] = Null /\ pages_lock = m
    /\ \E b \in SUBSET unmapped, p \in unmapped :
         /\ p \in b /\ Cardinality(b) \in 1..BlockPages
         /\ unmapped' = unmapped \ b /\ block' = b \ {p}
         /\ Take(m, p)
    /\ Goto(m, <<"block", "">>)
    /\ UNCHANGED <<bottom, n, pages_lock, gc, local, count>>

(* Nothing can be mapped: the lock is released and jl_memory_exception       *)
(* thrown.                                                                   *)
OutOfMemory(m) ==
    /\ pc[m] = <<"clean", "load">> /\ bottom["clean"] = Null /\ pages_lock = m
    /\ pages_lock' = Null /\ Goto(m, Idle)
    /\ UNCHANGED <<stacks, table, unmapped, block, allocd, gc, local, count>>

BlockPage(m) ==
    /\ pc[m] = <<"block", "">>
    /\ IF block = {}
       THEN pages_lock' = Null /\ Goto(m, Idle) /\ UNCHANGED <<block, meta>>
       ELSE /\ \E p \in block : block' = block \ {p} /\ meta' = Set(meta, m, p)
            /\ Goto(m, <<"clean", "push">>) /\ UNCHANGED pages_lock
    /\ UNCHANGED <<stacks, table, unmapped, allocd, gc, old, new, count>>

BlockPushed(m) ==
    /\ Pushed(m, "clean") /\ Goto(m, <<"block", "">>)
    /\ UNCHANGED <<table, blocks, allocd, gc, count>>

-----------------------------------------------------------------------------
(* A collection stops the mutators (each is at a safepoint, so outside       *)
(* jl_gc_alloc_page), finds which of their pages are empty, and has them     *)
(* swept: gc_sweep_page pushes each on pool_lazily_freed.                    *)
Collect ==
    /\ ~collecting /\ \A m \in Mutators : pc[m] = Idle
    /\ sem + Cardinality({f \in sweepers : pc[f] # Idle}) < MaxBehind
    /\ \E d \in SUBSET UNION {allocd[m] : m \in Mutators} :
         dead' = d /\ allocd' = [m \in Mutators |-> allocd[m] \ d]
    /\ collecting' = TRUE
    /\ UNCHANGED <<stacks, table, blocks, sweepers, sem, pc, local, count>>

SweepPage(g) ==
    /\ collecting /\ pc[g] = Idle
    /\ \E p \in dead : /\ dead' = dead \ {p} /\ meta' = Set(meta, g, p)
                       /\ alloc_map' = Set(alloc_map, p, "lazily_freed")
    /\ Goto(g, <<"lazily_freed", "push">>)
    /\ UNCHANGED <<stacks, n, blocks, allocd, collecting, sweepers, sem, old, new, count>>

SweepPushed(g) ==
    /\ Pushed(g, "lazily_freed") /\ Goto(g, <<"swept", "">>)
    /\ UNCHANGED <<table, blocks, allocd, gc, count>>

SweepCount(g) ==
    /\ pc[g] = <<"swept", "">>
    /\ n' = n + 1 /\ Goto(g, Idle)
    /\ UNCHANGED <<stacks, alloc_map, blocks, allocd, gc, local, count>>

(* The end of gc_sweep_pool: post the concurrent sweeper and go on, or       *)
(* without one run gc_free_pages with the mutators still stopped.            *)
FreeFrom(f) ==
    LET n_present == IF n < 0 THEN Wrapped ELSE n
    IN  /\ n_to_free' = IF n_present > Keep THEN n_present - Keep ELSE 0
        /\ n_freed' = 0 /\ Goto(f, <<"free", "">>)

SweepEnd ==
    /\ collecting /\ dead = {} /\ \A g \in Collectors : pc[g] = Idle
    /\ IF sweepers = {}
       THEN FreeFrom(Initiator) /\ UNCHANGED <<collecting, sem>>
       ELSE sem' = sem + 1 /\ collecting' = FALSE /\ UNCHANGED <<pc, count>>
    /\ UNCHANGED <<stacks, table, blocks, allocd, dead, sweepers, local>>

SweeperWakes(f) ==
    /\ pc[f] = Idle /\ sem > 0
    /\ sem' = sem - 1 /\ FreeFrom(f)
    /\ UNCHANGED <<stacks, table, blocks, allocd, collecting, dead, sweepers, local>>

(* gc_free_pages by thread f: pop a page, release it, push it on pool_freed. *)
FreeNext(f) ==
    /\ pc[f] = <<"free", "">> /\ n_freed < n_to_free
    /\ Goto(f, <<"lazily_freed", "load">>)
    /\ UNCHANGED <<stacks, table, blocks, allocd, gc, local, count>>

FreePop(f) ==
    /\ Popped(f, "lazily_freed") /\ Goto(f, <<"release", "">>)
    /\ UNCHANGED <<table, blocks, allocd, gc, count>>

(* jl_gc_free_page.                                                          *)
FreePage(f) ==
    /\ pc[f] = <<"release", "">>
    /\ alloc_map' = Set(alloc_map, meta[f], "freed") /\ Goto(f, <<"freed", "push">>)
    /\ UNCHANGED <<stacks, n, blocks, allocd, gc, local, count>>

FreePushed(f) ==
    /\ Pushed(f, "freed") /\ n_freed' = n_freed + 1 /\ Goto(f, <<"free", "">>)
    /\ UNCHANGED <<table, blocks, allocd, gc, n_to_free>>

FreeEnd(f) ==
    /\ \/ pc[f] = <<"free", "">> /\ n_freed = n_to_free
       \/ pc[f] = <<"lazily_freed", "load">> /\ bottom["lazily_freed"] = Null
    /\ n' = n - n_freed /\ n_to_free' = 0 /\ n_freed' = 0 /\ Goto(f, Idle)
    /\ collecting' = (collecting /\ sweepers # {})
    /\ UNCHANGED <<stacks, alloc_map, blocks, allocd, dead, sweepers, sem, local>>

-----------------------------------------------------------------------------
Pop(a, s) == PopLoad(a, s) \/ PopNext(a, s) \/ PopRetry(a, s)
Push(a, s) == PushLoad(a, s) \/ PushRetry(a, s)

Mutate(m) ==
    \/ Alloc(m) \/ AllocGot(m) \/ AllocLock(m)
    \/ MapBlock(m) \/ OutOfMemory(m) \/ BlockPage(m) \/ BlockPushed(m)
    \/ \E s \in Pools : Pop(m, s) \/ Push(m, s) \/ AllocEmpty(m, s) \/ AllocPop(m, s)

Sweep(g) == SweepPage(g) \/ Push(g, "lazily_freed") \/ SweepPushed(g) \/ SweepCount(g)

FreePages(f) ==
    \/ FreeNext(f) \/ Pop(f, "lazily_freed") \/ FreePop(f) \/ FreePage(f)
    \/ Push(f, "freed") \/ FreePushed(f) \/ FreeEnd(f)

Next ==
    \/ \E m \in Mutators : Mutate(m)
    \/ Collect \/ SweepEnd
    \/ \E g \in Collectors : Sweep(g)
    \/ \E f \in sweepers : SweeperWakes(f)
    \/ \E f \in IF sweepers = {} THEN {Initiator} ELSE sweepers : FreePages(f)

Spec == Init /\ [][Next]_vars

-----------------------------------------------------------------------------
(* The pages of stack s, from its bottom along next.                         *)
On(s) ==
    LET R[k \in 0..Cardinality(Pages)] ==
            IF k = 0 THEN {bottom[s]} \ {Null}
            ELSE R[k-1] \cup ({next[p] : p \in R[k-1]} \ {Null})
    IN  R[Cardinality(Pages)]

(* A page is in one place: with the operating system, in a new block, on one *)
(* stack, with one mutator, found dead, or in the hands of one thread.  "we  *)
(* avoid the pathological concurrent push/pop sequences on the same list     *)
(* node that could trigger the ABA problem" (gc-stock.h): were a page on a   *)
(* stack and in use at once, two mutators would allocate in it.              *)
Places(p) ==
    {<<"stack", s>> : s \in {s \in Pools : p \in On(s)}}
    \cup {<<"allocd", m>> : m \in {m \in Mutators : p \in allocd[m]}}
    \cup {<<"held", a>> : a \in {a \in Actors : meta[a] = p}}
    \cup {<<"set", k>> : k \in {k \in 1..3 : p \in <<unmapped, block, dead>>[k]}}

OnePlace == \A p \in Pages : Cardinality(Places(p)) = 1

(* The page table tells where a page is: what conservative scanning and      *)
(* jl_gc_free_page read there is true of the page.                           *)
MapAgrees == \A p \in Pages :
    /\ p \in On("lazily_freed") => alloc_map[p] = "lazily_freed"
    /\ p \in On("freed") => alloc_map[p] = "freed"
    /\ p \in On("clean") \cup block \cup unmapped => alloc_map[p] = "unmapped"
    /\ p \in dead \cup UNION {allocd[m] : m \in Mutators} => alloc_map[p] = "allocated"

(* The pops, less the pushes, that have not been counted yet.                *)
Uncounted ==
    Cardinality({m \in Mutators : pc[m] = <<"got", "lazily_freed">>})
    + Cardinality({a \in Actors : pc[a] \in {<<"release", "">>, <<"freed", "push">>, <<"freed", "link">>}})
    + n_freed - Cardinality({g \in Collectors : pc[g] = <<"swept", "">>})

(* global_page_pool_lazily_freed_n counts the stack, but for the pops and    *)
(* pushes that have not been counted yet: nothing is lost or counted twice,  *)
(* and what gc_free_pages reads of it is never below zero.                   *)
CountTracks == n >= 0 /\ n = Cardinality(On("lazily_freed")) + Uncounted
=============================================================================
