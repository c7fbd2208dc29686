# A formal model of the Julia task runtime and collector threads

TLA+ models of the parts of Julia that decide when a task runs, waits, is woken
and is cancelled, of the runtime handshakes under them, and of the threads, queues
and pages of the garbage collector. Every definition is translated from the code
under `src/` (`PROJECT.json` maps each one to its lines). Small instances are checked
by TLC; the safety properties of six of the seven components are proved by TLAPS for
every value of their constants.

## 1. The system

Julia runs many tasks on a few threads.

* **Scheduler.** A thread without work publishes that it sleeps, looks at the queues
  once more, and blocks on a condition variable or, on thread 0, in libuv's loop.
  Whoever enqueues a task wakes a thread. `n_threads_running` counts running threads
  and wake-ups in flight, so that the last thread to sleep can tell a main task in
  `jl_task_wait_empty` that nothing is left to run (`src/src/scheduler.c`,
  `src/src/jl_uv.c`, `src/base/task.jl`, `src/base/partr.jl`).
* **Parked waits.** A task that waits builds an entry, arms it (`t.waiting_on`), puts it
  on the queue of a condition and on the waiter list of its cancellation source, checks
  once more, and switches away. Whoever wakes it first claims the wake by clearing
  `t.waiting_on` with a compare-and-swap (`src/base/park.jl`, `src/base/condition.jl`).
* **Cancellation.** `cancel!` raises the severity of a source and walks its waiters,
  claiming and waking each one that its severity concerns (`src/base/cancellation.jl`).
* **Locks.** `ReentrantLock` is a two-bit word with a condition for the tasks that
  park; its acquisitions can be cancelled (`src/base/lock.jl`).
* **Inference reservations.** Threads that infer methods take leases so that no method
  is inferred twice at a time, and do not wait for each other in a circle
  (`src/src/engine.c`).
* **Parallel collector.** The thread that starts a collection (the initiator) marks
  together with collector threads that join and leave while there is work, flushes the
  finalizer lists alone, and sweeps stacks and pages with whichever collector threads
  answer its request (`src/src/gc-stock.c`).
* **Work-stealing queues.** Each marking thread pushes and pops at one end of its queues,
  the others steal at the other end; a full array is replaced while thieves still read
  the old one (`src/src/work-stealing-queue.h`).
* **Page allocator.** Three lock-free stacks of free pages serve the mutators, the
  sweep and a concurrent sweeper thread (`src/src/gc-pages.c`, `gc-stock.c`, `gc-stock.h`).

The scheduler runs the tasks; a wait ends with an enqueue to the scheduler; a lock
parks with a wait; channels, events, semaphores, timers, streams and `wait(task)` are
built on waits. The engine uses operating-system condition variables instead, because
it blocks threads and not tasks. A collection stops the mutators; its mark loop works
on the work-stealing queues, and its page sweep feeds the page allocator.
`PROJECT.json` lists these and all the other parts of the repository, modelled or not,
and the hazards of this code with the properties that would catch them.

## 2. The modules

| module | models | role |
|---|---|---|
| `Engine` | `src/src/engine.c` and its callers | specification |
| `Mutex` | what a reentrant lock promises | abstract specification |
| `ReentrantLock` | `src/base/lock.jl` | specification, refines `Mutex` |
| `CancellableWait` | `src/base/park.jl`, `condition.jl`, `cancellation.jl`, parts of `task.jl` | specification |
| `Scheduler` | `src/src/scheduler.c`, `jl_uv.c`, parts of `task.jl`, `partr.jl` | specification |
| `StealQueue` | what the mark loop needs of a work-stealing queue | abstract specification |
| `WorkStealingQueue` | `src/src/work-stealing-queue.h` | specification, refines `StealQueue` |
| `ParallelGC` | the mark loop and the parallel sweeps of `src/src/gc-stock.c` | specification |
| `PagePool` | the page stacks of `gc-pages.c`, `gc-stock.c` | specification |
| `...Proofs`, `ParallelGCInvariant`, `ParallelGCSweep`, `ParallelGCHeap` | | inductive invariants and proofs |
| `MC...` | | model values and symmetry for the runs |

Definitions next to a mapped one with a name such as `NotSettled` or `AboveFloor` are
wrong variants of it. They are not used by any specification; each one names a
plausible mistake that a property rules out.

### Engine

`lease` is the table of reservations (the native and the foreign one together),
`awaiting` the vector of what blocked threads need, `nqueued` each thread's
`engine_nqueued`, `live` the placeholders that the inference frames of a thread hold.
`engine_lock` is held from the top of the loop in `jl_engine_reserve` to
`uv_cond_wait`, so one turn of that loop is one action: `ReserveInsert`,
`ReserveCycle` or `ReserveWait`, by what the thread finds. `Fulfill` and `EngineSweep`
return leases and broadcast. `Throw` is an inference that throws. A waiter that has
been woken still shows in `awaiting` until it has the lock again, as in the code.

### ReentrantLock and Mutex

`havelock` is the set of the bits that are set, `locked_by` and `reentrancy_cnt` the
fields, `cond_lock` and `waitq` the condition, `waiting_on` the tasks whose wake is
unclaimed, `towake` the tasks claimed by a walk that has not delivered yet, `wake` the
wake enqueued for a task. Every atomic operation on `havelock` is an action of its
own: `TryLockCAS`, `Barge`, `SetParked`, `UnlockCAS`, `Store`. The calls are
`trylock`, `lock` with `cancel = nothing`, and `lock` under a token.

`Mutex` says what callers may rely on: one owner, nested levels, `trylock` may fail,
and `lock` gives up only under a token that has been cancelled. In the mapping
ownership passes at the compare-and-swap or store on LOCKED_BIT, not at the writes of
`locked_by`, which come later.

### CancellableWait

One condition, one source, and any number of tasks, notifiers and cancellers. The six
phases of a wait are the actions `Check`, `Arm`, `Enqueue`, `Register`, `Recheck`,
`Release`; then `Resume` and, by the kind of wake, `Relock`, `Cleanup` or `Thrown`.
A task has the two cached entries of the code and single-use entries from `Fresh`; an
entry is re-used only when nothing refers to it (`Unreachable`). The waits are
shielded, throwing, teardown (a shielded wait with a floor) and value-mode. A walk is
`LockWalk`, `ReadHead`, `Visit`, `Observe`, `Claim`, `UnlockWalk` and `Deliver`, one
action for each shared access, so that a walk may lag behind a waiter that has gone
on to its next wait with the same entry.

### Scheduler

Tasks are counted: `workq` the sticky ones of each thread, `multiq` the others,
`hosted` the task in whose context an idle thread sleeps. A wake-up is a job
of a thread or of the signal listener: `Scan` is the compare-and-swap on the sleep
state, `Inc` the count that follows it, `Signal` and `Kick` the condition variable and
the loop's `uv_async_send`. `Sleep`, `Recheck`, `EnterLoop`, `YieldLock`, `UvRun`,
`LeaveUv`, `AskAgain`, `Answer`, `Decide`, `CountOut`, `Last` and `Park` follow
`jl_task_get_next`; `Test`, `CountIn` and `Unsleep` are the three steps with which thread 0,
under its sleep lock, finds that nobody is counted, counts itself and ends its sleep:
`Inc` needs no lock and may come between them, a signal to thread 0 has to wait
(`SleepLockFree`). `WaitEmpty`, `PurgeLoop` and `WaitEmptyEnd` are
`jl_task_wait_empty` with `jl_wait_empty_begin` and `jl_wait_empty_end`. Finalizers may
run when thread 0 gives back the loop's lock, and take it again (`EndFinalizer`).

### WorkStealingQueue and StealQueue

`top`, `bottom` and the sequence of arrays allocated since the last reset; `t`, `ary`
and `dest` are the locals of an operation. A push writes its slot in two steps, so a
thief that copies the slot meanwhile reads `Torn`, as it would of an item of several
words. A pop lowers `bottom`, reads `top`, and races thieves for the last item with a
compare-and-swap; a steal reads `top`, `bottom`, the array and the item, and keeps it
only if its compare-and-swap on `top` succeeds. The reset is the part of
`gc_mark_clean_reclaim_sets` that touches a queue.

`StealQueue` does each operation in one step on one sequence. In the mapping the queue
is the slots from `top` to the last pushed item; a pop takes effect at its store to
`bottom` or at its compare-and-swap, a steal at its compare-and-swap.

### ParallelGC

The mark queues are those of `StealQueue`, with one addition: between the store and the
restore of a pop that finds nothing, `bottom` is one below `top`, which other threads
see when they count work (`dip`, `Restore`). `ptrs` and `chunks` are the two queues of a
thread, `scan` the part of an object that it scans, `pos` and `try` where it is in the
walk over the others' queues of `gc_mark_and_steal`, `done` the references followed.
An object longer than a chunk is scanned in chunks, as in
`gc_mark_objarray`. `Look` and `Claim` are the two steps of `gc_try_setmark_tag`.
`n_marking`, `observer_lock` and the locals `n_seen`, `work` and `left` follow
`gc_should_mark`: the loads of the count of marking threads and of each thread's amount of
work are steps of their own, while the four indices of one thread's two queues are read in
one (`WorkOf`; the theorems do not depend on the amount). `tid` is `gc_initiator_tid`. A collector thread sleeps on
`gc_threads_cond` and is woken by broadcasts; it answers `stack_req` and `page_req`
whenever it gets to them, in a later phase or in a later collection too. The heap is a fixed graph (`Refs`),
roots are queued on the queues of all threads, and one object (`Finalized`) is reached
from the finalizer lists only.

The comment on the mark loop (`src/src/gc-stock.c:2909-2916`) argues about the threads in the loop.
The initiator also queues roots on the queues of threads that may never join; those are
emptied because the walk of `gc_mark_and_steal` visits every queue, which is what the
invariant of the proof needs (`WorkInv`).

### PagePool

The three stacks are linked through `next`, and `pop_lf_back` and `push_lf_back` are two or
three steps each. Mutators take pages in the order of `jl_gc_alloc_page`, or map a new
block under `gc_pages_lock`. A collection gives dead pages back, and `gc_free_pages`,
run by the collection or by the sweeper thread that no collection waits for,
releases them.

## 3. What the runs check

Each run is an entry of `PROJECT.json`; each property has a comment above its
definition, and a wrong variant of the code that breaks it. The types of the state are
not checked by the runs: where there are proofs they are conjuncts of the proved invariants.

| run | instance | properties and what they show |
|---|---|---|
| `engine` | 3 threads, 2 methods, 2 placeholders | `NoCircularWait`, `SleeperNeedsLease`, `NQueuedCountsLeases`, `FulfilledByHolder`: no circular wait among sleeping threads, no sleeper without a lease to wait for, exact `engine_nqueued`, the assertion of `jl_engine_fulfill`; `SleeperWakes`: every sleeper is woken |
| `lock` | 3 tasks with different calls, nesting 2 | `LockedByExactlyOne`, `ParkedBitSet`, `NoStrandedWaiter`, `OneWake`, `EntriesLinkedOnce`, `FinalizersBalanced`; `ImplementsMutex`: refinement; `HandoverCompletes`, `CancelEndsWait`: a released lock with parked tasks is taken again, a cancelled token ends the acquisition |
| `wait` | 1 task in all four modes, 1 notifier, 2 cancellers, severities 1 and 3 | `OneTicket`: a wait gets exactly one wake; `DeliveryFits`: what is delivered fits the wait; `NoMissedCancel`: a cancellation is never missed by both sides; `QueueMatchesWaits`; `CancelEndsWait`: a cancellation at or above the floor ends the wait |
| `wait_aux_order` | 1 task, 1 canceller | **violation** of `AuxReadForArm`: see findings |
| `sched_safety` | 2 threads, 1 handle, queues of 2 | `SleepAssertions`: what a thread asserts of its own sleep transition; `NoLostWakeup`, `NoStrandedHandle`, `LoopGivesWay` |
| `sched_pool` | 3 threads, or 2 and a signal listener | `CountExact`: the count lags exactly by the wake-ups that are half done, whoever the waker is; `NoLostWakeup`: waking one thread of the pool for an insertion is enough |
| `sched_liveness` | 2 threads | `ThreadServes`, `WaitEmptyEnds`: a task that only one thread can run gets it; `wait_empty` ends |
| `sched_exit` | 2 threads | **violation** of `EmptyOnExit`: see findings |
| `pages` | 3 pages, 2 mutators, 2 collectors, with and without a sweeper, at most 1 collection behind | `OnePlace`, `MapAgrees`, `CountTracks`: a page is in one place, the page table and the count of lazily freed pages agree with the stacks, and the count does not wrap |
| `pages_aba` | 2 pages, 1 mutator, the sweeper up to 2 collections behind | **violation** of `OnePlace`: see findings |
| `wsq` | an owner, 2 thieves, first array of 1 slot, 3 pushes | `StolenIsOldest`, `ImplementsStealQueue`: items are taken once, whole and in order, whichever array the thief read |
| `gc` | an initiator with 1 collector thread through 2 collections, or with 2 through 1 | `NoWorkLeft`, `InitiatorAlone`, `AllMarked`, `StacksSwept`, `ScratchLive`, `FollowedOnce`; `CollectionEnds`, `RequestsServed`: a collection ends and every sweep request is served |

### Bounds

* *Engine.* A circle of waits needs two threads, and a circle that does not go through
  the thread that closes it needs three; two placeholders for a method let an old one
  be fulfilled while a new one holds the lease.
* *ReentrantLock.* With three tasks one owns, one is parked and one barges in.
  `MAX_SPIN_ITERS` is 1 (so that both outcomes of the spin occur) and nesting is 2.
* *CancellableWait.* One task, because waits meet each other only in the queue: it
  repeats its waits without end, so a lagging walk meets every later wait of the task with
  the same entry, and two cancellers let walks race and escalate. Severities 1 and 3 are
  below and above the teardown floor 2. Several tasks are left to the theorems.
* *Scheduler.* Two threads and one handle let thread 0 block in the loop while the other
  thread needs its lock. The races of `wake_thread` need a waker and a target; the
  choice of a target in a pool needs two other threads (`sched_pool`). Queues hold one
  or two tasks: the properties only ask whether they are empty. `sched_pool` and
  `sched_exit` leave out handles, and tasks there only end, to stay small.
* *WorkStealingQueue.* A first array of one slot is replaced twice within three pushes,
  and indices wrap around it; two thieves race each other and the owner for the last item.
* *ParallelGC.* The heap is an object of two references scanned in two chunks that lead
  to the same object, which refers back, and a finalized object. One collector thread can
  be a collection late; two let one thread join while another counts work.
* *PagePool.* Two mutators and two collectors race on each stack; three pages make a
  block of two and a rest. `MaxBehind` is how many collections the sweeper may have
  still to serve: with 1 the mutators and the sweep race with it, with 2 a pop of it spans a
  collection, which is the finding below.

The theorems remove all these bounds, but for those of `PagePool`, whose
properties are only model-checked. Deadlock is checked in every run but `gc`, whose
specification stops after the last collection that `MaxCollections` allows, with the
collector threads asleep.

### Fairness

* *Engine.* A thread inside `jl_engine_reserve` runs. Inferences finish: for each method,
  `Fulfill` is strongly fair, because the same thread may first reserve other methods.
  Collections happen again and again; without them the lease of an inference that threw
  stays.
* *ReentrantLock.* Tasks inside `lock` and `unlock` run, owners unlock, a walk that has
  begun goes on. The notifier that takes the SpinLock of the condition is strongly
  fair: it spins against tasks that hold that lock for a few instructions.
* *CancellableWait.* Tasks inside `wait`, `notify` and `cancel!` run; nobody has to call
  them.
* *Scheduler.* Threads run. A thread does not spin for ever (the threshold of
  `sleep_check_after_threshold`), which is strong fairness of `Sleep`, since every turn
  of the spin disables it for a moment. Attempts at a non-empty multiqueue succeed in
  the end: they pick heaps at random. Tasks block or end.
  Somebody who waits for thread 0's sleep lock to signal it gets it if it is released
  again and again (strong fairness of `Signal` and `Last` together): thread 0 holds it for
  a few instructions, but could be woken for no reason each time it has given it back. Events need not come, and
  the run has no handles, because a handle whose event never comes blocks `wait_empty`
  by design.
* *ParallelGC.* The initiator and every collector thread run (weak fairness of each);
  nothing makes a collection start. One thing is assumed besides (`JoinsSettle`): a
  collector thread that counts work while another is within a pop of an empty queue sees
  a length of −1, which can make it join with nothing to do. Two threads could do that to
  each other for ever; the liveness properties are stated for behaviours in which
  such joins stop. The other runs check safety only.

### Findings

* `sched_exit`: `wake_thread` publishes a wake-up before it counts it, so the count can
  be 0 while the waker runs, and `jl_task_wait_empty` can return then. `CountExact` says
  precisely how far the count may lag.
  Three assertions fail in the same window. `Scheduler` states them too, and TLC refutes
  each when it is the `INVARIANT` of `MCSchedulerExit.cfg` in the place of `EmptyOnExit`: `WakerIsCounted`
  (line 225: `wake_thread` finds somebody counted when it counts a wake-up),
  `NobodyCountedSince` (line 641: nobody was counted since thread 0 looked) and, with a third
  thread, `NobodyWokeIo` (line 643: nobody has woken it). With two threads the last one
  holds: the only waker is about to signal thread 0, and waits for its sleep lock.
* `wait_aux_order`: `_walk_waiters!` reads the floor before it checks the arm, contrary
  to its comment. No cancellation is missed by it, which `NoMissedCancel` shows.
* `pages_aba`: the sweeper thread pops from the stack of lazily freed pages without
  protection against ABA. When one pop of it spans a collection, a page that is in use
  becomes the bottom of the stack. The two invariants that the comment relies on hold in
  the counterexample.

## 4. What is proved

The theorems hold for every value of the constants that satisfies the named
assumptions of the modules, which TLC evaluates in the runs. In each component one
inductive invariant is shown to hold initially and to be preserved by each action, one lemma
per action and per conjunct that the action can disturb; the listed properties follow
from it. Each inductive invariant was also checked by TLC on the instance of its run (for `ParallelGC` with `Nat` cut to 0..8).

**Engine** (`EngineProofs`; assumes finitely many threads and methods, and that `Null`
is neither). `NoCircularWait` says that in any set of blocked threads one is blocked on
a lease whose holder is outside of the set, which is how the termination of the
detection loop and freedom from deadlock are one statement. It is not inductive alone.
The invariant `IInv` adds what a thread's place says about its other state (`Shape`),
that entries are filed under the key of their placeholder, that placeholders are not
shared (`Unshared`), and that the placeholder of a reservation in progress is in the
table only once it was inserted (`OwnEntry`). The central case is `ReserveWaitIInv`: the
walk of the detection loop ended at a thread that is not blocked, so a set closed under
waiting that contains the new sleeper contains the whole walk, a contradiction. Sweeps
and fulfilments only remove leases (`FewerLeasesNoCircularWait`).

**ReentrantLock** (`ReentrantLockProofs`; assumes that `Null` is fresh, a natural number
of spins and a positive depth). Six invariants are proved with one induction. `IInv` adds
who may have written `locked_by` (`OwnerRecorded`), where the SpinLock of the condition
is held (`CondHeld`), what a task that is about to park, and an owner that is about to
notify, know of `havelock` (`WordKnown`), that the notification precedes the store that
frees the lock (`BatonPassed`), and that only cancelled tasks are claimed by walks
(`OnlyCancelled`). There are lemmas about the three ways in which the queue changes.
`RefinesMutex` shows that every step of `ReentrantLock` is a step of `Mutex` or leaves
its variables unchanged, from `IInv` before and after.

**CancellableWait** (`CancellableWaitProofs`; assumes severities 1 to 4, calls of the four
modes, and distinct names). `IInv` says who holds the lock of the condition, which entry a
task may wait on, that an arm has at most one claim and a scheduled task exactly one
(`AtMostOneTicket`, `SomeTicket`), what the queue holds (`QueueFits`), what a walk may have
seen of an entry that has been re-used since (`WalksSee`, `Staged`, `ClaimsFit`), and that
for a parked wait whose floor the state reaches a walk is still to come (`WalkComing`).
The last one is the Dekker argument of the code: the waiter registers before it reads
the state, the canceller raises the state before it reads the list.

**Scheduler** (`SchedulerProofs`; assumes a finite set of actors, of which
thread 0 is a thread in every set of threads). The steps are first reduced to a few
dozen simple cases, so that each conjunct is proved once per case. The conjuncts are what
a wake-up job has still to do (`Jobs`), where a thread has declared itself asleep (`Sleeps`), who owns
the loop's lock and how many wait for it (`Owner`, `WaitersCounted`), that a dormant thread has
work only if somebody is still going to look at it (`OwnWork`, `SharedWork`, `Wakes`), and that
an armed handle is attended (`Handles`). `CountExact` is a statement about cardinalities:
each case changes the sets of counted threads and of in-flight wake-ups by one element or
not at all. `SleepAssertions` (lines 213, 260, 503, 616 and 655 of `scheduler.c`) is proved for behaviours
without a signal listener: then each wake-up that is not counted yet has a waker that is, so
a thread that is itself counted, or whose own wake-up is in flight, keeps the count above zero.
With a listener, which is not counted, it is not true: the decrement of `set_not_sleeping` can
run ahead of the listener's increment and find the count at 1, where line 213 asserts more.

**WorkStealingQueue** (`WorkStealingQueueProofs`; assumes a positive first capacity and that
the owner is no thief). `IInv` relates `top`, `bottom` and the locals of the owner and of each
thief (`Indices`, `Behind`, `Reads`), and says that all items from `top` on are whole in the current
array (`Whole`). The part that is easy to get wrong is `Stealing`: a thief that read an
array which has been replaced since still finds the item at its `top` there, as long as
`top` has not moved, because the copy leaves the old slots alone and the owner writes to the new
array only. `QueueRefinesStealQueue` shows that every step is one of `StealQueue` or changes
nothing of it.

**ParallelGC** (`ParallelGCInvariant` has the definitions; `ParallelGCSweep`, `ParallelGCHeap`
and `ParallelGCProofs` the proofs; assumes positive sizes, distinct threads, references
and roots that are objects, and that each object is queued once as a root). For any number of
collector threads, any heap graph and any number of collections:

* `ParallelGCSweep` proves `InitiatorAlone`, `StacksSwept` and `ScratchLive` from `SweepInv`, which is
  inductive by itself: `n_marking` is the number of threads in the loop (`MarkCount`), it is raised
  only under the observer lock or by the initiator before anybody else can be in the loop
  (`ObserverLock`, `Alone`), a thread that sweeps stacks is counted, and the index
  passes every slot once (`StackInv`), and the scratch lists are taken away only
  when no thread can still read them (`PageInv`).
* `ParallelGCHeap` has what one step does to the heap (`Effect`: an item taken from a queue, a
  reference looked at, an object claimed, a chunk split off or put back), and that each
  of these keeps the types, the walks and the references in their place.
* `ParallelGCProofs` composes the two. `NothingLeft` (`NoWorkLeft`) rests on `WorkInv`: a queue
  that is not empty belongs to a thread in the loop or is still to be visited by the walk of
  one. A thread that loses an item to another does not look at that queue again, but the
  other will. `MarkingComplete` (`AllMarked`) rests on `MarkInv`, the invariant of a
  concurrent graph search: a reference of a marked object has been followed or is in a queue,
  a chunk or a scan (`Covered`), and the object it leads to is marked or about to be claimed
  (`Targets`); with no work left the marked objects are closed under references, and they
  are all reachable. `FollowedOnceHolds` (`FollowedOnce`) rests on `OnceInv`: each reference is in
  one place at most, so no reference is followed twice in a collection.

Only model-checked:

* the liveness properties, since fairness is out of the prover's reach: `SleeperWakes`,
  `HandoverCompletes`, `CancelEndsWait`, `ThreadServes`, `WaitEmptyEnds`, `CollectionEnds`,
  `RequestsServed`;
* `OnePlace`, `MapAgrees` and `CountTracks` of `PagePool`. That a page is on a stack is that it can be
  reached through `next`, and what a push or a pop does to the pages reached needs an
  induction along the chain, which is out of the prover's reach. The
  properties also hold only as long as the sweeper is not two collections behind
  (`pages_aba`), so an inductive invariant would have to be about that bound;
* the violated properties of the findings.

## 5. What is not modelled

`PROJECT.json` lists every part with the reason. In short: memory is sequentially
consistent (fences are taken at their word); libuv and the condition variables of the
operating system are external and modelled by how the code uses them; the contents
of tasks, values and messages are left out. In the modelled parts:

* `CancellableWait`: the waiter list is a set (its lock-free push and pruning are not
  there), there is one source and no tree, a wait is on one condition.
* `Scheduler`: one pool, no threaded regions, no adoption or deletion of threads, the
  multiqueue is a count, and `surprise_wakeup` and the inline dispatch of ^C are left out.
* `ReentrantLock`: its use as the lock of a `Threads.Condition` is left out.
* `ParallelGC`: every collection is full, the heap does not change between collections, the
  two finalizer flushes are one; single-threaded marking, page profiling, the prescan of
  pages and object layouts are left out. The queues are atomic there; that the real ones are is
  `WorkStealingQueue`.
* `PagePool`: what a page holds and the calls of the operating system are left out.

The compiler, the type system, code generation, the parser and the library of data
structures are not modelled: they are sequential algorithms over unbounded data, or
translations, and the properties that matter there are not about interleavings.
Channels, events, semaphores, the waiter list and the tree of cancellation sources,
threaded regions and safepoints are the next candidates.
