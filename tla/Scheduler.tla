----------------------------- MODULE Scheduler -----------------------------
(***************************************************************************)
(* How the threads of Julia sleep and are woken (src/scheduler.c), with    *)
(* the enqueue of a task (enq_work, base/task.jl), the pop of one          *)
(* (trypoptask, base/task.jl and base/partr.jl) and the lock of the event  *)
(* loop (src/jl_uv.c), outside threaded regions.                           *)
(*                                                                         *)
(* There is one thread pool.  Tasks are counted, not named: the sticky     *)
(* ones queued for each thread, the ones in the multiqueue that any thread *)
(* may run, and for each idle thread the task in whose context it sleeps,  *)
(* which only that thread can resume (its tid is the thread's).            *)
(*                                                                         *)
(* Fences are taken at their word: memory is sequentially consistent.      *)
(***************************************************************************)
EXTENDS Integers, FiniteSets

CONSTANTS Actors,     \* the threads, and at most one signal listener
          ThreadSets, \* which of the actors may be the threads
          Io,         \* thread 0, which runs the event loop
          Null,
          Blocks,     \* do tasks block, or only end?
          MaxQueue,   \* bound on the tasks in a queue
          MaxHandles  \* bound on the armed libuv handles

ASSUME ActorsAssumption ==
    /\ IsFiniteSet(Actors) /\ Null \notin Actors
    /\ \A T \in ThreadSets : Io \in T /\ T \subseteq Actors /\ Cardinality(Actors \ T) \in {0, 1}
ASSUME BoundAssumption == Blocks \in BOOLEAN /\ MaxQueue \in Nat /\ MaxHandles \in Nat

VARIABLES
    sleep_check_state,  \* for each thread, "not_sleeping" or "sleeping"
    n_threads_running,  \* the running threads and the in-flight wake-ups
    workq,              \* for each thread, the length of its sticky queue
    multiq,             \* the unpinned tasks in the multiqueue
    hosted,             \* for each thread, the task that hosts its idle loop:
                        \* "none" to resume, "blocked", or "queued" (multiqueue)
    wait_empty,         \* is the main task in jl_task_wait_empty?
    uv_owner,           \* the owner of jl_uv_mutex
    uv_n_waiters,       \* jl_uv_n_waiters
    async,              \* is signal_async pending?
    press,              \* is the async handle of the signal listener pending?
    handles,            \* the armed libuv handles
    pc,                 \* for each thread and listener, where it is
    slept,              \* for each thread, has it published "sleeping"?
    entered,            \* for each thread, enter_eventloop
    active,             \* for each thread, active
    job                 \* for each thread and listener, the wake-ups it is
                        \* to make: see NoJob

queues == <<workq, multiq, hosted>>
uv == <<uv_owner, uv_n_waiters, async, press, handles>>
loop == <<entered, active>>
counts == <<sleep_check_state, n_threads_running>>
vars == <<counts, queues, wait_empty, uv, pc, slept, loop, job>>

\* The threads are those with a queue; they are chosen in Init.
Threads == DOMAIN workq
Listener == Actors \ Threads

\* cand: the threads still to try; pool: try the whole pool if none was woken;
\* every: go on after one was woken; target: the one being woken; ret: where the
\* caller goes on.
NoJob == [cand |-> {}, pool |-> FALSE, every |-> FALSE, target |-> Null, ret |-> "run"]

Init ==
    /\ \E T \in ThreadSets : workq = [t \in T |-> 0]
    /\ sleep_check_state = [t \in Threads |-> "not_sleeping"]
    /\ n_threads_running = Cardinality(Threads)
    /\ multiq = 0
    /\ hosted = [t \in Threads |-> "none"]
    /\ wait_empty = FALSE
    /\ uv_owner = Null
    /\ uv_n_waiters = 0
    /\ async = FALSE
    /\ press = FALSE
    /\ handles = 0
    /\ pc = [a \in Actors |-> IF a = Io THEN "run" ELSE IF a \in Threads THEN "pop" ELSE "idle"]
    /\ slept = [t \in Threads |-> FALSE]
    /\ entered = [t \in Threads |-> FALSE]
    /\ active = [t \in Threads |-> FALSE]
    /\ job = [a \in Actors |-> NoJob]

Goto(a, l) == pc' = [pc EXCEPT ![a] = l]

-----------------------------------------------------------------------------
(* Waking threads: wakeup_thread, jl_wakeup_threadpool, and the wake-ups of  *)
(* the signal listener.  Each is a job; a thread first ends a sleep          *)
(* transition of its own, when it is a target itself or wakes the pool.      *)

\* wakeup_thread(tid), and the pool after it if no thread was woken.
WakeThread(t, tid, pool, ret) ==
    /\ job' = [job EXCEPT ![t] = [NoJob EXCEPT !.cand = {tid} \ {t}, !.pool = pool, !.ret = ret]]
    /\ Goto(t, IF tid = t THEN "self" ELSE "scan")

\* jl_wakeup_threadpool
WakePool(t, ret) ==
    /\ job' = [job EXCEPT ![t] = [NoJob EXCEPT !.cand = Threads \ {t}, !.ret = ret]]
    /\ Goto(t, "self")

\* The thread leaves its own sleep transition, and counts an in-flight wake-up.
SelfWake(t) ==
    /\ pc[t] = "self"
    /\ IF sleep_check_state[t] # "not_sleeping"
       THEN /\ sleep_check_state' = [sleep_check_state EXCEPT ![t] = "not_sleeping"]
            /\ Goto(t, "selfinc")
       ELSE Goto(t, "scan") /\ UNCHANGED sleep_check_state
    /\ UNCHANGED <<n_threads_running, queues, wait_empty, uv, slept, loop, job>>

SelfInc(t) ==
    /\ pc[t] = "selfinc"
    /\ n_threads_running' = n_threads_running + 1
    /\ Goto(t, "scan")
    /\ UNCHANGED <<sleep_check_state, queues, wait_empty, uv, slept, loop, job>>

\* Which threads does wake_thread find asleep?  The variant trusts the count of
\* running threads to tell that none is.
TrustCount(d) == sleep_check_state[d] = "sleeping" /\ n_threads_running < Cardinality(Threads)
Asleep(d) == sleep_check_state[d] = "sleeping"

\* wake_thread: the compare-and-swap on the sleep state of the next candidate.
Scan(a) ==
    /\ pc[a] = "scan"
    /\ \E d \in job[a].cand :
          IF Asleep(d)
          THEN /\ sleep_check_state' = [sleep_check_state EXCEPT ![d] = "not_sleeping"]
               /\ job' = [job EXCEPT ![a].target = d, ![a].pool = FALSE,
                                     ![a].cand = IF job[a].every THEN @ \ {d} ELSE {}]
               /\ Goto(a, "inc")
          ELSE /\ job' = [job EXCEPT ![a].cand = @ \ {d}]
               /\ UNCHANGED <<sleep_check_state, pc>>
    /\ UNCHANGED <<n_threads_running, queues, wait_empty, uv, slept, loop>>

\* wake_thread: count the in-flight wake-up.
Inc(a) ==
    /\ pc[a] = "inc"
    /\ n_threads_running' = n_threads_running + 1
    /\ Goto(a, "signal")
    /\ UNCHANGED <<sleep_check_state, queues, wait_empty, uv, slept, loop, job>>

\* Where uv_cond_signal leaves a thread: it acts on one that waits.
Signalled(d) == IF pc[d] = "cond" THEN "park" ELSE pc[d]

\* Thread 0 has its sleep lock between the check of its state and what follows.
SleepLockFree(d) == pc[d] \notin {"test", "countin", "unsleep"}

\* wake_thread: signal the thread's condition, under its sleep lock.
Signal(a) ==
    /\ pc[a] = "signal"
    /\ SleepLockFree(job[a].target)
    /\ pc' = [pc EXCEPT ![a] = "kick", ![job[a].target] = Signalled(job[a].target)]
    /\ UNCHANGED <<counts, queues, wait_empty, uv, slept, loop, job>>

\* Must the woken thread be kicked out of uv_run?
Kicks(a) == uv_owner = job[a].target

\* wake_libuv, if the woken thread has the lock of the loop.
Kick(a) ==
    /\ pc[a] = "kick"
    /\ async' = (async \/ Kicks(a))
    /\ job' = [job EXCEPT ![a].target = Null]
    /\ Goto(a, "scan")
    /\ UNCHANGED <<counts, queues, wait_empty, uv_owner, uv_n_waiters, press, handles, slept, loop>>

\* The end of a job, or its second part: the pool.
JobEnd(a) ==
    /\ pc[a] = "scan"
    /\ job[a].cand = {}
    /\ IF job[a].pool THEN WakePool(a, job[a].ret)
       ELSE Goto(a, job[a].ret) /\ job' = [job EXCEPT ![a] = NoJob]
    /\ UNCHANGED <<counts, queues, wait_empty, uv, slept, loop>>

\* deliver_sigint_notification: post to the event loop, then wake every thread.
Deliver(s) ==
    /\ pc[s] = "idle"
    /\ press' = TRUE
    /\ job' = [job EXCEPT ![s] = [NoJob EXCEPT !.cand = Threads, !.every = TRUE, !.ret = "idle"]]
    /\ Goto(s, "scan")
    /\ UNCHANGED <<counts, queues, wait_empty, uv_owner, uv_n_waiters, async, handles, slept, loop>>

-----------------------------------------------------------------------------
(* enq_work, by a task that runs or by a callback of the event loop *)

InMultiq == multiq + Cardinality({d \in Threads : hosted[d] = "queued"})

Enqueue(t, ret) ==
    \/ \E d \in Threads :  \* a sticky task
          /\ workq[d] < MaxQueue
          /\ workq' = [workq EXCEPT ![d] = @ + 1]
          /\ WakeThread(t, d, FALSE, ret)
          /\ UNCHANGED <<multiq, hosted>>
    \/ /\ InMultiq < MaxQueue  \* a task that no thread holds
       /\ multiq' = multiq + 1
       /\ WakePool(t, ret)
       /\ UNCHANGED <<workq, hosted>>
    \/ \E d \in Threads :  \* the task that hosts d's idle loop
          /\ InMultiq < MaxQueue
          /\ hosted[d] = "blocked"
          /\ hosted' = [hosted EXCEPT ![d] = "queued"]
          /\ IF d = t THEN WakePool(t, ret) ELSE WakeThread(t, d, TRUE, ret)
          /\ UNCHANGED <<workq, multiq>>

Spawn(t) ==
    /\ pc[t] = "run"
    /\ Enqueue(t, "run")
    /\ UNCHANGED <<counts, wait_empty, uv, slept, loop>>

\* The task blocks or ends, and Base.wait looks for another.  A task that blocks
\* hosts the idle loop, after a look at the events; for one that has ended there
\* is a look at the queues before that.
Block(t) ==
    /\ pc[t] = "run"
    /\ \/ /\ Blocks
          /\ hosted' = [hosted EXCEPT ![t] = "blocked"]
          /\ Goto(t, IF t = Io THEN "events" ELSE "pop")
       \/ /\ hosted' = [hosted EXCEPT ![t] = "none"]
          /\ Goto(t, "pop") \/ (t = Io /\ workq[t] = 0 /\ Goto(t, "events"))
    /\ UNCHANGED <<counts, workq, multiq, wait_empty, uv, slept, loop, job>>

-----------------------------------------------------------------------------
(* The lock of the event loop *)

\* JL_UV_LOCK: the attempt; one that fails makes the holder leave uv_run.
TryUvLock(t, blocked, held) ==
    IF uv_owner = Null
    THEN uv_owner' = t /\ Goto(t, held) /\ UNCHANGED <<uv_n_waiters, async>>
    ELSE /\ uv_n_waiters' = uv_n_waiters + 1
         /\ async' = TRUE
         /\ Goto(t, blocked)
         /\ UNCHANGED uv_owner
AwaitUvLock(t, held) ==
    /\ uv_owner = Null
    /\ uv_owner' = t
    /\ uv_n_waiters' = uv_n_waiters - 1
    /\ Goto(t, held)
    /\ UNCHANGED async

UvLock(t) ==
    /\ \/ pc[t] = "run" /\ MaxHandles > 0 /\ TryUvLock(t, "armwait", "arm")
       \/ pc[t] = "armwait" /\ AwaitUvLock(t, "arm")
       \/ pc[t] = "run" /\ t = Io /\ ~wait_empty /\ TryUvLock(t, "beginwait", "begin")
       \/ pc[t] = "beginwait" /\ AwaitUvLock(t, "begin")
       \/ pc[t] = "exit" /\ TryUvLock(t, "exitwait", "end")
       \/ pc[t] = "exitwait" /\ AwaitUvLock(t, "end")
       \/ pc[t] = "loop" /\ t = Io /\ TryUvLock(t, "loopwait", "enter")
       \/ pc[t] = "loopwait" /\ AwaitUvLock(t, "enter")
       \/ pc[t] = "final" /\ TryUvLock(t, "finalwait", "finalheld")
       \/ pc[t] = "finalwait" /\ AwaitUvLock(t, "finalheld")
    /\ UNCHANGED <<counts, queues, wait_empty, press, handles, slept, loop, job>>

\* A task arms a handle, or does something else with the lock, and releases it.
Arm(t) ==
    /\ pc[t] = "arm"
    /\ uv_owner' = Null
    /\ handles' \in {handles, handles + 1} \cap 0..MaxHandles
    /\ Goto(t, "run")
    /\ UNCHANGED <<counts, queues, wait_empty, uv_n_waiters, async, press, slept, loop, job>>

\* uv_loop_alive; the handle of the signal listener is never unreferenced.
Alive == handles > 0 \/ Listener # {}

\* An event: its callback schedules a task, or does nothing of the kind.
Event(t, ret) ==
    /\ \/ handles > 0 /\ handles' = handles - 1 /\ UNCHANGED press
       \/ press /\ press' = FALSE /\ UNCHANGED handles
    /\ \/ Enqueue(t, ret)
       \/ Goto(t, ret) /\ UNCHANGED <<queues, job>>

\* process_events, in Base.wait: the loop is run without blocking.
ProcessEvents ==
    /\ pc[Io] = "events"
    /\ IF uv_n_waiters = 0 /\ uv_owner = Null
       THEN uv_owner' = Io /\ Goto(Io, "poll")
       ELSE Goto(Io, "pop") /\ UNCHANGED uv_owner
    /\ UNCHANGED <<counts, queues, wait_empty, uv_n_waiters, async, press, handles, slept, loop, job>>

Poll ==
    /\ pc[Io] = "poll"
    /\ async' = FALSE
    /\ \/ Event(Io, "polled")
       \/ Goto(Io, "polled") /\ UNCHANGED <<queues, press, handles, job>>
    /\ UNCHANGED <<counts, wait_empty, uv_owner, uv_n_waiters, slept, loop>>

Polled ==
    /\ pc[Io] = "polled"
    /\ uv_owner' = Null
    /\ Goto(Io, "pop")
    /\ UNCHANGED <<counts, queues, wait_empty, uv_n_waiters, async, press, handles, slept, loop, job>>

\* jl_task_wait_empty, in the main task: jl_wait_empty_begin purges the loop under
\* its lock, and Base.wait returns when all is idle.
PurgeLoop ==
    /\ pc[Io] = "begin"
    /\ \/ Event(Io, "begun")
       \/ Goto(Io, "begun") /\ UNCHANGED <<queues, press, handles, job>>
    /\ UNCHANGED <<counts, wait_empty, uv_owner, uv_n_waiters, async, slept, loop>>

WaitEmpty ==
    /\ pc[Io] = "begun"
    /\ uv_owner' = Null
    /\ wait_empty' = TRUE
    /\ Goto(Io, "events")
    /\ UNCHANGED <<counts, queues, uv_n_waiters, async, press, handles, slept, loop, job>>

WaitEmptyEnd ==
    /\ pc[Io] = "end"
    /\ uv_owner' = Null
    /\ Goto(Io, "done")
    /\ UNCHANGED <<counts, queues, wait_empty, uv_n_waiters, async, press, handles, slept, loop, job>>

-----------------------------------------------------------------------------
(* jl_task_get_next *)

\* Variants of SetNotSleeping: a wake-up is never consumed; the state is not reset.
NotConsumed(t) ==
    /\ slept' = [slept EXCEPT ![t] = FALSE]
    /\ sleep_check_state' = [sleep_check_state EXCEPT ![t] = "not_sleeping"]
    /\ UNCHANGED n_threads_running
NotReset(t) ==
    /\ slept' = [slept EXCEPT ![t] = FALSE]
    /\ UNCHANGED sleep_check_state
    /\ n_threads_running' =
         IF sleep_check_state[t] # "not_sleeping" THEN n_threads_running ELSE n_threads_running - 1

\* set_not_sleeping: end the sleep transition, or consume the wake-up in flight.
SetNotSleeping(t) ==
    /\ slept' = [slept EXCEPT ![t] = FALSE]
    /\ sleep_check_state' = [sleep_check_state EXCEPT ![t] = "not_sleeping"]
    /\ n_threads_running' =
         IF sleep_check_state[t] # "not_sleeping" THEN n_threads_running ELSE n_threads_running - 1

\* Run the task found, and end a sleep transition.
Take(t) ==
    /\ Goto(t, "run")
    /\ IF slept[t] THEN SetNotSleeping(t) ELSE UNCHANGED <<counts, slept>>

\* The tasks that the switch away from the hosting task makes runnable anywhere.
Released(t) == IF hosted[t] = "queued" THEN 1 ELSE 0

\* trypoptask: the thread's own queue comes first.
PopSticky(t) ==
    /\ pc[t] = "pop"
    /\ workq[t] > 0
    /\ workq' = [workq EXCEPT ![t] = @ - 1]
    /\ multiq' = multiq + Released(t)
    /\ hosted' = [hosted EXCEPT ![t] = "none"]
    /\ Take(t)
    /\ UNCHANGED <<wait_empty, uv, loop, job>>

\* multiq_deletemin looks at two heaps of the pool: it may find a task that the
\* thread can run, one that another thread hosts, or nothing.
PopMultiq(t) ==
    /\ (pc[t] = "pop" /\ workq[t] = 0) \/ pc[t] = "deletemin"
    /\ \/ /\ multiq > 0
          /\ multiq' = multiq - 1 + Released(t)
          /\ hosted' = [hosted EXCEPT ![t] = "none"]
          /\ Take(t)
          /\ UNCHANGED job
       \/ /\ hosted[t] = "queued"
          /\ hosted' = [hosted EXCEPT ![t] = "none"]
          /\ Take(t)
          /\ UNCHANGED <<multiq, job>>
       \/ \E d \in Threads \ {t} :
             /\ hosted[d] = "queued"
             /\ WakeThread(t, d, FALSE, "deletemin")
             /\ UNCHANGED <<counts, slept, multiq, hosted>>
       \/ /\ Goto(t, IF slept[t] THEN "loop" ELSE "peek")
          /\ UNCHANGED <<counts, slept, multiq, hosted, job>>
    /\ UNCHANGED <<workq, wait_empty, uv, loop>>

\* multiq_check_empty
CheckEmpty == InMultiq = 0

Peek(t) ==
    /\ pc[t] = "peek"
    /\ Goto(t, IF CheckEmpty THEN "idle" ELSE "pop")
    /\ UNCHANGED <<counts, queues, wait_empty, uv, slept, loop, job>>

\* Before the sleep threshold a thread other than Io tries again.
Spin(t) ==
    /\ pc[t] = "idle"
    /\ t # Io
    /\ Goto(t, "pop")
    /\ UNCHANGED <<counts, queues, wait_empty, uv, slept, loop, job>>

\* Publish the sleep state.
Sleep(t) ==
    /\ pc[t] = "idle"
    /\ sleep_check_state' = [sleep_check_state EXCEPT ![t] = "sleeping"]
    /\ slept' = [slept EXCEPT ![t] = TRUE]
    /\ Goto(t, "recheck")
    /\ UNCHANGED <<n_threads_running, queues, wait_empty, uv, loop, job>>

\* A variant of Recheck: the queue is not looked at again.
NoRecheck(t) ==
    /\ pc[t] = "recheck"
    /\ Goto(t, "loop")
    /\ UNCHANGED <<counts, queues, wait_empty, uv, slept, loop, job>>

\* The check that must follow, and the second pop.
Recheck(t) ==
    /\ pc[t] = "recheck"
    /\ Goto(t, "pop")
    /\ IF CheckEmpty THEN UNCHANGED <<counts, slept>> ELSE SetNotSleeping(t)
    /\ UNCHANGED <<queues, wait_empty, uv, loop, job>>

\* A thread that may not run the loop makes sure that Io will.
LeaveLoop(t) ==
    /\ pc[t] = "loop"
    /\ t # Io
    /\ IF uv_owner = Null THEN WakeThread(t, Io, FALSE, "count") ELSE Goto(t, "count") /\ UNCHANGED job
    /\ UNCHANGED <<counts, queues, wait_empty, uv, slept, loop>>

\* enter_eventloop: may_sleep, and nobody needs the lock.
EnterLoop ==
    /\ pc[Io] = "enter"
    /\ entered' = [entered EXCEPT ![Io] = sleep_check_state[Io] = "sleeping"]
    /\ active' = [active EXCEPT ![Io] = FALSE]
    /\ Goto(Io, "yieldlock")
    /\ UNCHANGED <<counts, queues, wait_empty, uv, slept, job>>

\* Does nobody need the lock?  The variant does not ask.
NotAsked == TRUE
NobodyWaits == uv_n_waiters = 0

YieldLock ==
    /\ pc[Io] = "yieldlock"
    /\ entered' = [entered EXCEPT ![Io] = @ /\ NobodyWaits]
    /\ Goto(Io, IF entered'[Io] THEN "uvrun" ELSE "leave")
    /\ UNCHANGED <<counts, queues, wait_empty, uv, slept, active, job>>

\* uv_run: returns at once when the loop is not alive, else after an event or
\* when it is kicked.
UvRun ==
    /\ pc[Io] = "uvrun"
    /\ \/ ~Alive /\ Goto(Io, "leave") /\ UNCHANGED <<queues, async, press, handles, job>>
       \/ /\ Alive /\ async
          /\ async' = FALSE
          /\ Goto(Io, "leave")
          /\ UNCHANGED <<queues, press, handles, job>>
       \/ Event(Io, "leave") /\ UNCHANGED async
    /\ UNCHANGED <<counts, wait_empty, uv_owner, uv_n_waiters, slept, loop>>

\* What uv_run returns, and JL_UV_UNLOCK, whose pending finalizers may take the
\* lock again.
LeaveUv ==
    /\ pc[Io] = "leave"
    /\ active' = [active EXCEPT ![Io] = entered[Io] /\ Alive]
    /\ uv_owner' = Null
    /\ \E l \in IF MaxHandles > 0 THEN {"final", "ask"} ELSE {"ask"} : Goto(Io, l)
    /\ UNCHANGED <<counts, queues, wait_empty, uv_n_waiters, async, press, handles, slept, entered, job>>

EndFinalizer ==
    /\ pc[Io] = "finalheld"
    /\ uv_owner' = Null
    /\ Goto(Io, "ask")
    /\ UNCHANGED <<counts, queues, wait_empty, uv_n_waiters, async, press, handles, slept, loop, job>>

\* A variant of AskAgain: what uv_run said is not asked again.
AskNothing ==
    /\ pc[Io] = "ask"
    /\ Goto(Io, "decide")
    /\ UNCHANGED <<counts, queues, wait_empty, uv, slept, loop, job>>

\* Ask again whether the loop is idle, if the lock is free.
AskAgain ==
    /\ pc[Io] = "ask"
    /\ IF entered[Io] /\ ~active[Io]
       THEN /\ active' = [active EXCEPT ![Io] = TRUE]
            /\ IF uv_owner = Null THEN uv_owner' = Io /\ Goto(Io, "answer")
               ELSE Goto(Io, "decide") /\ UNCHANGED uv_owner
       ELSE Goto(Io, "decide") /\ UNCHANGED <<active, uv_owner>>
    /\ UNCHANGED <<counts, queues, wait_empty, uv_n_waiters, async, press, handles, slept, entered, job>>

Answer ==
    /\ pc[Io] = "answer"
    /\ active' = [active EXCEPT ![Io] = Alive]
    /\ uv_owner' = Null
    /\ Goto(Io, "decide")
    /\ UNCHANGED <<counts, queues, wait_empty, uv_n_waiters, async, press, handles, slept, entered, job>>

\* Io parks only if the loop is idle and nobody has woken it.
Decide ==
    /\ pc[Io] = "decide"
    /\ IF active[Io] \/ sleep_check_state[Io] # "sleeping" \/ ~entered[Io]
       THEN SetNotSleeping(Io) /\ Goto(Io, "pop")
       ELSE Goto(Io, "count") /\ UNCHANGED <<counts, slept>>
    /\ entered' = [entered EXCEPT ![Io] = FALSE]
    /\ active' = [active EXCEPT ![Io] = FALSE]
    /\ UNCHANGED <<queues, wait_empty, uv, job>>

\* The thread is no longer counted; the last one signals thread 0.
CountOut(t) ==
    /\ pc[t] = "count"
    /\ n_threads_running' = n_threads_running - 1
    /\ Goto(t, IF n_threads_running = 1 /\ t # Io THEN "last" ELSE "park")
    /\ UNCHANGED <<sleep_check_state, queues, wait_empty, uv, slept, loop, job>>

\* A variant of Last: thread 0 is not signalled.
LastSilent(t) ==
    /\ pc[t] = "last"
    /\ Goto(t, "park")
    /\ UNCHANGED <<counts, queues, wait_empty, uv, slept, loop, job>>

Last(t) ==
    /\ pc[t] = "last"
    /\ SleepLockFree(Io)
    /\ pc' = [pc EXCEPT ![t] = "park", ![Io] = Signalled(Io)]
    /\ UNCHANGED <<counts, queues, wait_empty, uv, slept, loop, job>>

\* Under the sleep lock: wait on the condition while the state is "sleeping";
\* thread 0 looks first whether wait_empty is over.
Park(t) ==
    /\ pc[t] = "park"
    /\ IF sleep_check_state[t] # "sleeping"
       THEN slept' = [slept EXCEPT ![t] = FALSE] /\ Goto(t, "pop")
       ELSE Goto(t, IF t = Io /\ wait_empty THEN "test" ELSE "cond") /\ UNCHANGED slept
    /\ UNCHANGED <<counts, queues, wait_empty, uv, loop, job>>

\* Is everything idle, so that wait_empty is over?
Test ==
    /\ pc[Io] = "test"
    /\ Goto(Io, IF n_threads_running = 0 THEN "countin" ELSE "cond")
    /\ UNCHANGED <<counts, queues, wait_empty, uv, slept, loop, job>>

\* Thread 0 counts itself, ends its sleep, and leaves jl_task_wait_empty.
CountIn ==
    /\ pc[Io] = "countin"
    /\ n_threads_running' = n_threads_running + 1
    /\ Goto(Io, "unsleep")
    /\ UNCHANGED <<sleep_check_state, queues, wait_empty, uv, slept, loop, job>>

Unsleep ==
    /\ pc[Io] = "unsleep"
    /\ SetNotSleeping(Io)
    /\ wait_empty' = FALSE
    /\ multiq' = multiq + Released(Io)
    /\ hosted' = [hosted EXCEPT ![Io] = "none"]
    /\ Goto(Io, "exit")
    /\ UNCHANGED <<workq, uv, loop, job>>

\* uv_cond_wait may return without a signal.
Spurious(t) ==
    /\ pc[t] = "cond"
    /\ Goto(t, "park")
    /\ UNCHANGED <<counts, queues, wait_empty, uv, slept, loop, job>>

-----------------------------------------------------------------------------
WakeStep(a) == Scan(a) \/ Inc(a) \/ Signal(a) \/ Kick(a) \/ JobEnd(a)
Pop(t) == PopSticky(t) \/ PopMultiq(t)
IdleStep(t) == Peek(t) \/ Recheck(t) \/ LeaveLoop(t) \/ CountOut(t) \/ Last(t) \/ Park(t)
ThreadStep(t) == SelfWake(t) \/ SelfInc(t) \/ UvLock(t) \/ Arm(t) \/ Pop(t) \/ IdleStep(t)
LoopStep ==
    \/ ProcessEvents \/ Poll \/ Polled \/ PurgeLoop \/ WaitEmpty \/ WaitEmptyEnd \/ EnterLoop \/ YieldLock \/ UvRun
    \/ LeaveUv \/ EndFinalizer \/ AskAgain \/ Answer \/ Decide \/ Test \/ CountIn \/ Unsleep

Next ==
    \/ \E a \in Actors : WakeStep(a)
    \/ \E s \in Listener : Deliver(s)
    \/ \E t \in Threads : ThreadStep(t) \/ Spawn(t) \/ Block(t) \/ Spin(t) \/ Sleep(t) \/ Spurious(t)
    \/ LoopStep

Spec == Init /\ [][Next]_vars

-----------------------------------------------------------------------------
(* Properties *)

Labels == {"run", "self", "selfinc", "scan", "inc", "signal", "kick", "events", "poll",
           "polled", "pop", "deletemin", "peek", "idle", "recheck", "loop", "loopwait",
           "enter", "yieldlock", "uvrun", "leave", "final", "finalwait", "finalheld",
           "ask", "answer", "decide", "count", "last", "park", "cond", "test", "countin",
           "unsleep", "exit",
           "arm", "armwait", "beginwait", "begin", "begun", "exitwait", "end", "done"}

TypeOK ==
    /\ sleep_check_state \in [Threads -> {"not_sleeping", "sleeping"}]
    /\ n_threads_running \in Int
    /\ workq \in [Threads -> 0..MaxQueue]
    /\ multiq \in 0..MaxQueue
    /\ hosted \in [Threads -> {"none", "blocked", "queued"}]
    /\ wait_empty \in BOOLEAN
    /\ uv_owner \in Threads \cup {Null}
    /\ uv_n_waiters \in Nat
    /\ async \in BOOLEAN
    /\ press \in BOOLEAN
    /\ handles \in 0..MaxHandles
    /\ pc \in [Actors -> Labels]
    /\ slept \in [Threads -> BOOLEAN]
    /\ entered \in [Threads -> BOOLEAN]
    /\ active \in [Threads -> BOOLEAN]
    /\ \A a \in Actors : /\ job[a].cand \subseteq Threads
                         /\ job[a].target \in Threads \cup {Null}
                         /\ job[a].ret \in Labels

\* A thread that is out of the count: it may only go on when it is woken.
Parked(t) == pc[t] \in {"last", "park", "cond", "test", "countin"}

\* A thread that waits on its condition, and that nobody has chosen to wake.
FastAsleep(t) == pc[t] = "cond" /\ sleep_check_state[t] = "sleeping"

\* Somebody who has still to look at the thread's sleep state.
WillScan(t) ==
    \E a \in Actors : \/ pc[a] \in {"self", "selfinc", "scan"} /\ t \in job[a].cand
                      \/ pc[a] = "scan" /\ job[a].pool

\* The count is exact: each thread that has not counted itself out, and each
\* wake-up of a thread that is still in its sleep transition, less those that the
\* waker has not counted yet.
CountExact ==
    n_threads_running =
        Cardinality({t \in Threads : ~Parked(t)})
        + Cardinality({t \in Threads : slept[t] /\ sleep_check_state[t] = "not_sleeping"})
        - Cardinality({a \in Actors : pc[a] \in {"inc", "selfinc"}})

\* What a thread asserts of its own sleep transition (jl_task_get_next,
\* set_not_sleeping, and wakeup_thread for the caller itself): it starts awake;
\* when it counts itself out, counts a wake-up of its own or has been woken, some
\* thread is counted; when it consumes a wake-up in flight, it is not the only one.
SleepAssertions ==
    \A t \in Threads :
        /\ pc[t] = "idle" => sleep_check_state[t] = "not_sleeping"
        /\ pc[t] \in {"count", "selfinc", "exit"} => n_threads_running > 0
        /\ pc[t] = "park" /\ sleep_check_state[t] = "not_sleeping" => n_threads_running > 0
        /\ /\ pc[t] \in {"pop", "deletemin", "recheck", "decide", "unsleep"}
           /\ slept[t] /\ sleep_check_state[t] = "not_sleeping"
           => n_threads_running > 1

\* Three assertions that do not hold, because a wake-up is published before it is
\* counted (see EmptyOnExit).  What wake_thread asserts: when it counts the wake-up
\* that it has published, some thread is counted.
WakerIsCounted == \A a \in Actors : pc[a] = "inc" => n_threads_running > 0

\* What jl_task_get_next asserts of thread 0 when wait_empty is over: nobody was
\* counted since it looked,
NobodyCountedSince == pc[Io] = "countin" => n_threads_running = 0

\* and nobody has woken it.
NobodyWokeIo == pc[Io] = "unsleep" => sleep_check_state[Io] = "sleeping"

\* A thread that does nothing until it is signalled, or kicked out of uv_run.
Blocked(t) == \/ pc[t] = "cond"
              \/ pc[t] = "uvrun" /\ Alive /\ ~async /\ ~press

\* No wake-up is lost: a blocked thread whose state is "sleeping" has nothing that
\* only it can run, and the multiqueue has nothing if all are like that; one that
\* was chosen to be woken (wake_thread, jl_wakeup_threadpool) will be signalled,
\* or kicked out of uv_run.
NoLostWakeup ==
    LET oblivious(t) == Blocked(t) /\ sleep_check_state[t] = "sleeping" /\ ~WillScan(t) IN
    /\ \A t \in Threads : oblivious(t) => workq[t] = 0 /\ hosted[t] # "queued"
    /\ (\A t \in Threads : oblivious(t)) => multiq = 0
    /\ \A t \in Threads :
         Blocked(t) /\ sleep_check_state[t] = "not_sleeping"
         => \E a \in Actors :
               /\ pc[a] \in {"inc", "signal"} \cup (IF t = Io THEN {"kick"} ELSE {})
               /\ job[a].target = t

\* An armed handle is attended to: Io does not sleep while one is armed, unless
\* another thread has yet to go through its own check of the loop.
NoStrandedHandle ==
    handles > 0 /\ FastAsleep(Io) => \E t \in Threads : ~Parked(t)

\* Nobody waits for the lock of the loop while its holder blocks in uv_run.
LoopGivesWay ==
    pc[Io] = "uvrun" /\ uv_n_waiters > 0 => async

\* wait_empty is over only when every other thread sleeps, with no task queued
\* and no handle armed.
EmptyOnExit ==
    [][pc[Io] # "exit" /\ pc'[Io] = "exit"
       => /\ \A t \in Threads \ {Io} : Parked(t) /\ sleep_check_state[t] = "sleeping"
          /\ multiq = 0 /\ handles = 0
          /\ \A t \in Threads : workq[t] = 0 /\ hosted[t] # "queued"]_vars

\* Fairness: the threads run; a thread does not spin past its threshold, a heap
\* that is not empty is found by some attempt, tasks let others run, and a
\* sleep lock that is released again and again is not kept from all who would
\* signal.  Events need not come.
Fairness ==
    /\ \A a \in Actors : WF_vars(WakeStep(a))
    /\ \A t \in Actors : /\ WF_vars(t \in Threads /\ ThreadStep(t))
                         /\ SF_vars(t \in Threads /\ Sleep(t))
                         /\ SF_vars(t \in Threads /\ Pop(t) /\ pc'[t] = "run")
                         /\ WF_vars(t \in Threads /\ Block(t))
    /\ SF_vars(\E a \in Actors : Signal(a) \/ (a \in Threads /\ Last(a)))
    /\ WF_vars(LoopStep /\ UNCHANGED <<handles, press>>)
FairSpec == Spec /\ Fairness

\* A task that only one thread can run is not left in its queue.
ThreadServes ==
    \A t \in Actors :
        (t \in Threads /\ (workq[t] > 0 \/ hosted[t] = "queued")) ~> pc[t] \in {"run", "exit", "done"}

\* wait_empty ends, or some task runs.
WaitEmptyEnds ==
    wait_empty ~> (~wait_empty \/ \E t \in Threads : pc[t] = "run")
=============================================================================
