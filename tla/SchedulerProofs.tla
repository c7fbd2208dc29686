-------------------------- MODULE SchedulerProofs --------------------------
(* Proofs about Scheduler, for any set of threads and bounds: the inductive   *)
(* invariant; the steps of the system as simple cases; that each case        *)
(* preserves its conjuncts on types, wake-up jobs, sleep transitions, the    *)
(* event loop, handles, queued work and the count of running threads; and    *)
(* what the invariant shows.                                                 *)
EXTENDS Scheduler, FiniteSetTheorems, TLAPS

USE Zenon

-----------------------------------------------------------------------------
(* The inductive invariant *)

\* The labels of a wake-up job; a thread in one is still at the place that it
\* returns to.
JobLabels == {"self", "selfinc", "scan", "inc", "signal", "kick"}
Rets == {"run", "polled", "begun", "leave", "deletemin", "count"}
At(t) == IF pc[t] \in JobLabels THEN job[t].ret ELSE pc[t]

JobType == [cand : SUBSET Threads, pool : BOOLEAN, every : BOOLEAN,
            target : Threads \cup {Null}, ret : Labels]

Types ==
    /\ Threads \in ThreadSets
    /\ sleep_check_state \in [Threads -> {"not_sleeping", "sleeping"}]
    /\ n_threads_running \in Int
    /\ workq \in [Threads -> 0..MaxQueue]
    /\ multiq \in Nat
    /\ hosted \in [Threads -> {"none", "blocked", "queued"}]
    /\ wait_empty \in BOOLEAN
    /\ uv_owner \in Threads \cup {Null}
    /\ async \in BOOLEAN
    /\ press \in BOOLEAN
    /\ handles \in 0..MaxHandles
    /\ pc \in [Actors -> Labels]
    /\ slept \in [Threads -> BOOLEAN]
    /\ entered \in [Threads -> BOOLEAN]
    /\ active \in [Threads -> BOOLEAN]
    /\ job \in [Actors -> JobType]

\* Nobody wakes itself; a job of a thread returns to where jobs are started,
\* and the listener has no other business.
Jobs ==
    /\ \A a \in Actors : a \notin job[a].cand /\ job[a].target # a
    /\ \A a \in Actors : pc[a] \in {"inc", "signal", "kick"} => job[a].target \in Threads
    /\ \A t \in Threads : pc[t] \in JobLabels => job[t].ret \in Rets
    /\ pc[Io] \in JobLabels => job[Io].ret # "count"
    /\ \A s \in Actors \ Threads : /\ pc[s] \in {"idle", "scan", "inc", "signal", "kick"}
                                   /\ pc[s] # "idle" => job[s].ret = "idle" /\ ~job[s].pool
    /\ \A t \in Threads : pc[t] = "uvrun" => t = Io

\* A thread is in a sleep transition from its Sleep to its next task, and its
\* state is "sleeping" only then.
SleptLabels == {"recheck", "loop", "loopwait", "enter", "yieldlock", "uvrun", "leave", "final",
                "finalwait", "finalheld", "ask", "answer", "decide", "count", "last", "park", "cond",
                "test", "countin", "unsleep"}
Sleeps == \A t \in Threads :
    /\ sleep_check_state[t] = "sleeping" => slept[t]
    /\ At(t) \in SleptLabels => slept[t]
    /\ slept[t] => At(t) \in SleptLabels \cup {"pop", "deletemin"}
    /\ pc[t] = "selfinc" => slept[t] /\ sleep_check_state[t] = "not_sleeping"

\* The owner of the lock of the loop is the thread that is where it is held.
HeldLabels == {"arm", "poll", "polled", "begin", "begun", "end", "enter", "yieldlock", "uvrun",
               "leave", "finalheld", "answer"}
Owner == \A t \in Threads : At(t) \in HeldLabels <=> uv_owner = t

WaitLabels == {"armwait", "beginwait", "exitwait", "loopwait", "finalwait"}
UvWaiters == {t \in Threads : pc[t] \in WaitLabels}
WaitersCounted == uv_n_waiters = Cardinality(UvWaiters)

HostedQueued == {d \in Threads : hosted[d] = "queued"}
QueueBound == InMultiq <= MaxQueue

\* A thread that the inserter of a task must wake: it has published its state and
\* looked at the multiqueue since, and its state has not been changed.
Dormant(t) == sleep_check_state[t] = "sleeping" /\ At(t) # "recheck" /\ pc[t] # "self"

\* Somebody will look at the state of t whatever else is found asleep.
MustScan(t) == \E a \in Actors :
    pc[a] = "scan" /\ t \in job[a].cand /\ (job[a].every \/ job[a].cand = {t})

OwnWork == \A t \in Threads : Dormant(t) /\ ~MustScan(t) =>
    /\ hosted[t] # "queued"
    /\ At(t) # "pop" => workq[t] = 0

SharedWork == (\A t \in Threads : Dormant(t)) => multiq = 0

\* A wake-up that was published reaches a thread that blocks on its condition, or
\* in uv_run.
Waking(t, labels) == \E a \in Actors : pc[a] \in labels /\ job[a].target = t
Wakes == \A t \in Threads :
    pc[t] \in {"cond", "test"} /\ sleep_check_state[t] = "not_sleeping" => Waking(t, {"inc", "signal"})
EntersLoop == pc[Io] = "uvrun" \/ (pc[Io] = "yieldlock" /\ entered[Io])
Kicked == EntersLoop /\ sleep_check_state[Io] = "not_sleeping"
            => async \/ Waking(Io, {"inc", "signal", "kick"})

\* Io has found the loop idle; another thread that is counted has yet to make sure
\* that somebody looks after the handles.
IoPast == /\ sleep_check_state[Io] = "sleeping"
          /\ \/ pc[Io] \in {"count", "park", "cond", "test"}
             \/ pc[Io] = "decide" /\ entered[Io] /\ ~active[Io]
Careful(t) == ~Parked(t) /\ (At(t) # "count" \/ (pc[t] = "scan" /\ job[t].cand = {Io}))
Handles == handles > 0 /\ IoPast => \E t \in Threads \ {Io} : Careful(t)

IInv ==
    /\ Types /\ Jobs /\ Sleeps /\ Owner
    /\ WaitersCounted /\ QueueBound /\ CountExact
    /\ OwnWork /\ SharedWork /\ Wakes /\ Kicked /\ Handles /\ LoopGivesWay

-----------------------------------------------------------------------------
(* The steps, one simple case each *)

ScanHit(a, d) ==
    /\ pc[a] = "scan" /\ d \in job[a].cand /\ sleep_check_state[d] = "sleeping"
    /\ sleep_check_state' = [sleep_check_state EXCEPT ![d] = "not_sleeping"]
    /\ job' = [job EXCEPT ![a].target = d, ![a].pool = FALSE,
                          ![a].cand = IF job[a].every THEN @ \ {d} ELSE {}]
    /\ Goto(a, "inc")
    /\ UNCHANGED <<n_threads_running, queues, wait_empty, uv, slept, loop>>
ScanMiss(a, d) ==
    /\ pc[a] = "scan" /\ d \in job[a].cand /\ sleep_check_state[d] # "sleeping"
    /\ job' = [job EXCEPT ![a].cand = @ \ {d}]
    /\ UNCHANGED <<counts, queues, wait_empty, uv, pc, slept, loop>>
JobPool(a) ==
    /\ pc[a] = "scan" /\ job[a].cand = {} /\ job[a].pool /\ WakePool(a, job[a].ret)
    /\ UNCHANGED <<counts, queues, wait_empty, uv, slept, loop>>
JobDone(a) ==
    /\ pc[a] = "scan" /\ job[a].cand = {} /\ Goto(a, job[a].ret) /\ job' = [job EXCEPT ![a] = NoJob]
    /\ UNCHANGED <<counts, queues, wait_empty, uv, slept, loop>>

\* A task, or a callback of an event, goes on to ret.
Calls(t, ret) ==
    /\ \/ pc[t] = "run" /\ ret = "run"
       \/ t = Io /\ pc[t] = "poll" /\ ret = "polled"
       \/ t = Io /\ pc[t] = "begin" /\ ret = "begun"
       \/ t = Io /\ pc[t] = "uvrun" /\ ret = "leave"
    /\ async' \in BOOLEAN /\ (t # Io => async' = async)
    /\ press' \in BOOLEAN
    /\ handles' \in Nat /\ handles' <= handles
    /\ UNCHANGED <<counts, wait_empty, uv_owner, uv_n_waiters, slept, loop>>
PostSticky(t, d, ret) ==
    /\ Calls(t, ret)
    /\ workq[d] < MaxQueue /\ workq' = [workq EXCEPT ![d] = @ + 1]
    /\ WakeThread(t, d, FALSE, ret)
    /\ UNCHANGED <<multiq, hosted>>
PostShared(t, ret) ==
    /\ Calls(t, ret)
    /\ InMultiq < MaxQueue /\ multiq' = multiq + 1
    /\ WakePool(t, ret)
    /\ UNCHANGED <<workq, hosted>>
PostHosted(t, d, ret) ==
    /\ Calls(t, ret)
    /\ InMultiq < MaxQueue
    /\ t # d /\ hosted[d] = "blocked" /\ hosted' = [hosted EXCEPT ![d] = "queued"]
    /\ WakeThread(t, d, TRUE, ret)
    /\ UNCHANGED <<workq, multiq>>
PostOwn(t, ret) ==
    /\ Calls(t, ret)
    /\ InMultiq < MaxQueue
    /\ hosted[t] = "blocked" /\ hosted' = [hosted EXCEPT ![t] = "queued"]
    /\ WakePool(t, ret)
    /\ UNCHANGED <<workq, multiq>>
CallReturns(t, ret) ==
    Calls(t, ret) /\ Goto(t, ret) /\ UNCHANGED <<queues, job>>

\* A thread asks that another be woken.
Asks(t, d, ret) ==
    /\ \/ ((pc[t] = "pop" /\ workq[t] = 0) \/ pc[t] = "deletemin") /\ ret = "deletemin"
       \/ pc[t] = "loop" /\ ret = "count" /\ d = Io
    /\ t # d /\ WakeThread(t, d, FALSE, ret)
    /\ UNCHANGED <<counts, queues, wait_empty, uv, slept, loop>>

\* A sleep transition, if the thread is in one, ends.
Awakens(t) ==
    /\ slept' = [slept EXCEPT ![t] = FALSE]
    /\ sleep_check_state' = [sleep_check_state EXCEPT ![t] = "not_sleeping"]
    /\ n_threads_running' = IF slept[t] /\ sleep_check_state[t] = "not_sleeping"
                            THEN n_threads_running - 1 ELSE n_threads_running
Finds(t) ==
    /\ pc[t] \in {"pop", "deletemin"} /\ Goto(t, "run") /\ Awakens(t)
    /\ workq' \in [Threads -> 0..MaxQueue] /\ \A x \in Threads : x # t => workq'[x] = workq[x]
    /\ multiq' \in Nat /\ multiq' <= multiq + Released(t)
    /\ hosted' = [hosted EXCEPT ![t] = "none"]
    /\ UNCHANGED <<wait_empty, uv, loop, job>>
FindsNothing(t) ==
    /\ (pc[t] = "pop" /\ workq[t] = 0) \/ pc[t] = "deletemin"
    /\ Goto(t, IF slept[t] THEN "loop" ELSE "peek")
    /\ UNCHANGED <<counts, queues, wait_empty, uv, slept, loop, job>>
StaysAsleep(t) ==
    /\ pc[t] = "recheck" /\ Goto(t, "pop") /\ CheckEmpty
    /\ UNCHANGED <<counts, queues, wait_empty, uv, slept, loop, job>>
GivesUp(t) ==
    /\ pc[t] = "recheck" \/ (pc[t] = "decide" /\ t = Io)
    /\ Goto(t, "pop") /\ Awakens(t)
    /\ entered' \in [Threads -> BOOLEAN] /\ active' \in [Threads -> BOOLEAN]
    /\ t # Io => UNCHANGED loop
    /\ UNCHANGED <<queues, wait_empty, uv, job>>
LoopHeld(t) ==
    /\ pc[t] = "loop" /\ t # Io /\ uv_owner # Null /\ Goto(t, "count")
    /\ UNCHANGED <<counts, queues, wait_empty, uv, slept, loop, job>>
DecidesCount ==
    /\ pc[Io] = "decide" /\ sleep_check_state[Io] = "sleeping" /\ entered[Io] /\ ~active[Io]
    /\ Goto(Io, "count")
    /\ entered' = [entered EXCEPT ![Io] = FALSE] /\ active' = [active EXCEPT ![Io] = FALSE]
    /\ UNCHANGED <<counts, queues, wait_empty, uv, slept, job>>
ParkWakes(t) ==
    /\ pc[t] = "park" /\ sleep_check_state[t] = "not_sleeping"
    /\ slept' = [slept EXCEPT ![t] = FALSE] /\ Goto(t, "pop")
    /\ UNCHANGED <<counts, queues, wait_empty, uv, loop, job>>
ParkWaits(t) ==
    /\ pc[t] = "park" /\ sleep_check_state[t] = "sleeping"
    /\ Goto(t, "cond") \/ (t = Io /\ Goto(t, "test"))
    /\ UNCHANGED <<counts, queues, wait_empty, uv, slept, loop, job>>
Leaves ==
    /\ pc[Io] = "unsleep" /\ Goto(Io, "exit") /\ Awakens(Io)
    /\ wait_empty' = FALSE
    /\ multiq' = multiq + Released(Io)
    /\ hosted' = [hosted EXCEPT ![Io] = "none"]
    /\ UNCHANGED <<workq, uv, loop, job>>

WakeCase(a) ==
    \/ \E d \in job[a].cand : ScanHit(a, d) \/ ScanMiss(a, d)
    \/ Inc(a) \/ Signal(a) \/ Kick(a) \/ JobPool(a) \/ JobDone(a)
PostCase(t) == \E ret \in Rets :
    \/ \E d \in Threads : PostSticky(t, d, ret) \/ PostHosted(t, d, ret) \/ Asks(t, d, ret)
    \/ PostShared(t, ret) \/ PostOwn(t, ret)
SleepCase(t) ==
    \/ SelfWake(t) \/ SelfInc(t) \/ Finds(t) \/ StaysAsleep(t) \/ GivesUp(t)
    \/ Block(t) \/ Sleep(t) \/ CountOut(t) \/ Last(t) \/ ParkWakes(t)
QuietCase(t) ==
    \/ \E ret \in Rets : CallReturns(t, ret)
    \/ UvLock(t) \/ Arm(t) \/ FindsNothing(t) \/ Peek(t) \/ Spin(t) \/ LoopHeld(t)
    \/ ParkWaits(t) \/ Spurious(t)
LoopCase ==
    \/ ProcessEvents \/ Polled \/ WaitEmpty \/ WaitEmptyEnd \/ EnterLoop \/ YieldLock \/ LeaveUv
    \/ EndFinalizer \/ AskAgain \/ Answer \/ DecidesCount \/ Test
Cases ==
    \/ \E a \in Actors : WakeCase(a)
    \/ \E s \in Listener : Deliver(s)
    \/ \E t \in Threads : PostCase(t) \/ SleepCase(t) \/ QuietCase(t)
    \/ CountIn \/ Leaves \/ LoopCase

\* A step that only moves a thread, and neither ends nor starts its sleep.
Drifts(t, l) ==
    /\ l \in Labels \ JobLabels /\ l # "recheck"
    /\ pc[t] \notin JobLabels /\ pc[t] # "recheck"
    /\ Goto(t, l) /\ UNCHANGED <<counts, slept, queues, job>>
    /\ l \in SleptLabels => slept[t]
    /\ slept[t] => l \in SleptLabels \cup {"pop", "deletemin"}
    /\ l \in {"last", "park", "cond", "test", "countin"} <=> Parked(t)
    /\ l \in {"cond", "test"} => sleep_check_state[t] = "sleeping" \/ pc[t] = "test"
    /\ pc[t] = "pop" => workq[t] = 0
    /\ l = "uvrun" => t = Io

\* A job returns to a label that is no job label.
LEMMA LabelFacts == Rets \subseteq Labels \ JobLabels /\ "run" \in Labels /\ "idle" \in Labels
  BY SMT DEF Rets, Labels, JobLabels

\* The thread of the event loop is a thread.
LEMMA IoThread == Types => Io \in Threads
  BY ActorsAssumption DEF Types

\* There are finitely many threads,
LEMMA ThreadsFinite == Types => IsFiniteSet(Threads)
  BY ActorsAssumption, FS_Subset DEF Types

\* finitely many of them wait for the lock of the loop,
LEMMA WaitersFinite == Types => IsFiniteSet(UvWaiters)
  BY ThreadsFinite, FS_Subset DEF UvWaiters

\* and finitely many host a task that is queued.
LEMMA HostedFinite == Types => IsFiniteSet(HostedQueued) /\ Cardinality(HostedQueued) \in Nat
  BY ThreadsFinite, FS_Subset, FS_CardinalityType DEF HostedQueued

\* When the shared queue looks empty, no thread hosts a queued task.
LEMMA HostedNone == Types /\ CheckEmpty => multiq = 0 /\ \A d \in Threads : hosted[d] # "queued"
  <1> SUFFICES ASSUME Types, CheckEmpty
               PROVE  multiq = 0 /\ \A d \in Threads : hosted[d] # "queued"
    OBVIOUS
  <1>1. multiq \in Nat /\ multiq + Cardinality(HostedQueued) = 0
    BY DEF CheckEmpty, InMultiq, HostedQueued, Types
  <1>2. multiq = 0 /\ Cardinality(HostedQueued) = 0
    BY SMT, <1>1, HostedFinite
  <1>3. HostedQueued = {}
    BY <1>2, HostedFinite, FS_EmptySet
  <1> QED
    BY <1>2, <1>3 DEF HostedQueued

\* The same count after a step that keeps the types.
LEMMA HostedFiniteAfter == Types' => Cardinality(HostedQueued') \in Nat
  BY ActorsAssumption, FS_Subset, FS_CardinalityType DEF Types, HostedQueued

\* What an event of the loop does to handles and queues.
LEMMA EventCases ==
    ASSUME NEW t \in Threads, NEW ret \in Rets, Event(t, ret), Types
    PROVE  /\ handles' \in Nat /\ handles' <= handles /\ press' \in BOOLEAN
           /\ Enqueue(t, ret) \/ (Goto(t, ret) /\ UNCHANGED <<queues, job>>)
  <1>1. handles \in Nat /\ press \in BOOLEAN
    BY SMT, BoundAssumption DEF Types
  <1>2. (handles > 0 /\ handles' = handles - 1) \/ handles' = handles
    BY DEF Event
  <1>3. handles' \in Nat /\ handles' <= handles
    BY SMT, <1>1, <1>2
  <1>4. press' \in BOOLEAN
    BY <1>1 DEF Event
  <1>5. Enqueue(t, ret) \/ (Goto(t, ret) /\ UNCHANGED <<queues, job>>)
    BY DEF Event
  <1> QED
    BY <1>3, <1>4, <1>5

\* A call either enqueues a task or returns at once.
LEMMA PostCases ==
    ASSUME NEW t \in Threads, NEW ret \in Rets, Calls(t, ret),
           Enqueue(t, ret) \/ (Goto(t, ret) /\ UNCHANGED <<queues, job>>)
    PROVE  PostCase(t) \/ QuietCase(t)
  <1>1. CASE Enqueue(t, ret)
    BY <1>1 DEF Enqueue, PostCase, PostSticky, PostShared, PostHosted, PostOwn
  <1>2. CASE Goto(t, ret) /\ UNCHANGED <<queues, job>>
    BY <1>2 DEF QuietCase, CallReturns
  <1> QED
    BY <1>1, <1>2

\* Taking a task, and giving up a sleep, end the sleep transition.
LEMMA TakeAwakens ==
    ASSUME NEW t \in Threads, Types, Sleeps
    PROVE  /\ Take(t) => Goto(t, "run") /\ Awakens(t)
           /\ slept[t] /\ SetNotSleeping(t) => Awakens(t)
  BY SMT DEF Types, Sleeps, Take, SetNotSleeping, Awakens, counts

\* Every step is one of the cases.
LEMMA NextCases == ASSUME Types, Jobs, Sleeps, Next PROVE Cases
  <1> Io \in Threads
    BY ActorsAssumption DEF Types
  <1>1. ASSUME NEW a \in Actors, WakeStep(a) PROVE WakeCase(a)
    BY <1>1 DEF WakeStep, WakeCase, Scan, Asleep, ScanHit, ScanMiss, JobEnd, JobPool, JobDone, counts
  <1>2. ASSUME NEW t \in Threads, Spawn(t) PROVE PostCase(t) \/ QuietCase(t)
    <2>1. Calls(t, "run")
      BY SMT, <1>2, BoundAssumption DEF Spawn, Calls, Types, uv
    <2> QED
      BY <1>2, <2>1, PostCases DEF Spawn, Rets
  <1>3. ASSUME Poll PROVE PostCase(Io) \/ QuietCase(Io)
    <2>1. /\ handles' \in Nat /\ handles' <= handles /\ press' \in BOOLEAN
          /\ Enqueue(Io, "polled") \/ (Goto(Io, "polled") /\ UNCHANGED <<queues, job>>)
      BY SMT, <1>3, EventCases, BoundAssumption DEF Poll, Rets, Types
    <2>2. Calls(Io, "polled")
      BY <1>3, <2>1 DEF Poll, Calls
    <2> QED
      BY <2>1, <2>2, PostCases DEF Rets
  <1>4. ASSUME PurgeLoop PROVE PostCase(Io) \/ QuietCase(Io)
    <2>1. /\ handles' \in Nat /\ handles' <= handles /\ press' \in BOOLEAN
          /\ Enqueue(Io, "begun") \/ (Goto(Io, "begun") /\ UNCHANGED <<queues, job>>)
      BY SMT, <1>4, EventCases, BoundAssumption DEF PurgeLoop, Rets, Types
    <2>2. Calls(Io, "begun")
      BY <1>4, <2>1 DEF PurgeLoop, Calls, Types
    <2> QED
      BY <2>1, <2>2, PostCases DEF Rets
  <1>5. ASSUME UvRun PROVE PostCase(Io) \/ QuietCase(Io)
    <2>1. /\ handles' \in Nat /\ handles' <= handles /\ press' \in BOOLEAN /\ async' \in BOOLEAN
          /\ Enqueue(Io, "leave") \/ (Goto(Io, "leave") /\ UNCHANGED <<queues, job>>)
      <3>1. handles \in Nat /\ press \in BOOLEAN /\ async \in BOOLEAN /\ "leave" \in Rets
        BY SMT, BoundAssumption DEF Types, Rets
      <3>2. handles <= handles
        BY SMT, <3>1
      <3> QED
        BY <1>5, <3>1, <3>2, EventCases DEF UvRun
    <2>2. Calls(Io, "leave")
      BY <1>5, <2>1 DEF UvRun, Calls, Types
    <2> QED
      BY <2>1, <2>2, PostCases DEF Rets
  <1>6. ASSUME NEW t \in Threads, PopSticky(t) PROVE Finds(t)
    <2>1. workq' \in [Threads -> 0..MaxQueue] /\ \A x \in Threads : x # t => workq'[x] = workq[x]
      BY SMT, <1>6, BoundAssumption DEF PopSticky, Types
    <2>2. multiq' \in Nat /\ multiq' <= multiq + Released(t)
      BY SMT, <1>6 DEF PopSticky, Types, Released
    <2> QED
      BY <1>6, <2>1, <2>2, TakeAwakens DEF PopSticky, Finds
  <1>7. ASSUME NEW t \in Threads, PopMultiq(t) PROVE SleepCase(t) \/ PostCase(t) \/ QuietCase(t)
    <2>1. ASSUME hosted' = [hosted EXCEPT ![t] = "none"], Take(t), UNCHANGED job,
                 (multiq > 0 /\ multiq' = multiq - 1 + Released(t))
                   \/ (hosted[t] = "queued" /\ UNCHANGED multiq)
          PROVE  Finds(t)
      <3>1. multiq' \in Nat /\ multiq' <= multiq + Released(t)
        BY SMT, <2>1 DEF Types, Released
      <3>2. workq' \in [Threads -> 0..MaxQueue] /\ \A x \in Threads : x # t => workq'[x] = workq[x]
        BY <1>7 DEF PopMultiq, Types
      <3> QED
        BY <1>7, <2>1, <3>1, <3>2, TakeAwakens DEF PopMultiq, Finds
    <2>2. ASSUME NEW d \in Threads \ {t}, WakeThread(t, d, FALSE, "deletemin"),
                 UNCHANGED <<counts, slept, multiq, hosted>>
          PROVE  Asks(t, d, "deletemin")
      BY <1>7, <2>2 DEF PopMultiq, Asks, queues
    <2>3. ASSUME Goto(t, IF slept[t] THEN "loop" ELSE "peek"), UNCHANGED <<counts, slept, multiq, hosted, job>>
          PROVE  FindsNothing(t)
      BY <1>7, <2>3 DEF PopMultiq, FindsNothing, queues
    <2>4. "deletemin" \in Rets
      BY DEF Rets
    <2> QED
      BY <1>7, <2>1, <2>2, <2>3, <2>4 DEF PopMultiq, SleepCase, PostCase, QuietCase
  <1>8. ASSUME NEW t \in Threads, Recheck(t) PROVE StaysAsleep(t) \/ GivesUp(t)
    <2>1. slept[t] /\ entered \in [Threads -> BOOLEAN] /\ active \in [Threads -> BOOLEAN]
      BY <1>8 DEF Recheck, Sleeps, At, JobLabels, SleptLabels, Types
    <2> QED
      BY <1>8, <2>1, TakeAwakens DEF Recheck, StaysAsleep, GivesUp, loop
  <1>9. ASSUME Decide PROVE GivesUp(Io) \/ DecidesCount
    <2>1. slept[Io]
      BY <1>9 DEF Decide, Sleeps, At, JobLabels, SleptLabels
    <2>2. entered' \in [Threads -> BOOLEAN] /\ active' \in [Threads -> BOOLEAN]
      BY <1>9 DEF Decide, Types
    <2> QED
      BY <1>9, <2>1, <2>2, TakeAwakens DEF Decide, GivesUp, DecidesCount
  <1>10. ASSUME NEW t \in Threads, LeaveLoop(t)
         PROVE  Asks(t, Io, "count") \/ LoopHeld(t)
    BY <1>10 DEF LeaveLoop, Asks, LoopHeld
  <1>11. ASSUME NEW t \in Threads, Park(t) PROVE ParkWakes(t) \/ ParkWaits(t)
    <2>1. sleep_check_state[t] # "sleeping" => sleep_check_state[t] = "not_sleeping"
      BY DEF Types
    <2> QED
      BY <1>11, <2>1 DEF Park, ParkWakes, ParkWaits
  <1>12. "count" \in Rets
    BY DEF Rets
  <1>13. ASSUME NEW t \in Threads, ThreadStep(t) \/ Spawn(t) \/ Block(t) \/ Spin(t) \/ Sleep(t) \/ Spurious(t)
         PROVE  PostCase(t) \/ SleepCase(t) \/ QuietCase(t)
    BY <1>2, <1>6, <1>7, <1>8, <1>10, <1>11, <1>12, <1>13 DEF ThreadStep, IdleStep, Pop, PostCase, SleepCase,
         QuietCase
  <1>14. ASSUME Unsleep PROVE Leaves
    <2>1. slept[Io]
      BY <1>14 DEF Unsleep, Sleeps, At, JobLabels, SleptLabels
    <2> QED
      BY <1>14, <2>1, TakeAwakens DEF Unsleep, Leaves
  <1>15. ASSUME LoopStep PROVE Cases
    BY <1>3, <1>4, <1>5, <1>9, <1>14, <1>15 DEF LoopStep, LoopCase, Cases, SleepCase
  <1> QED
    BY <1>1, <1>13, <1>15 DEF Next, Cases

\* Most cases only move a thread: they are Drifts.
LEMMA CasesDrift ==
    ASSUME Types, Jobs, Sleeps
    PROVE  /\ \A t \in Threads : QuietCase(t) => \E l \in Labels : Drifts(t, l)
           /\ LoopCase => \E l \in Labels : Drifts(Io, l)
  <1> /\ pc \in [Actors -> Labels] /\ job \in [Actors -> JobType] /\ Threads \subseteq Actors
      /\ sleep_check_state \in [Threads -> {"not_sleeping", "sleeping"}] /\ slept \in [Threads -> BOOLEAN]
      /\ Io \in Threads
    BY ZenonT(40), ActorsAssumption DEF Types
  <1> USE DEF Sleeps, Drifts, Goto, counts, queues, uv, loop, At, Parked
  <1> USE DEF JobLabels, SleptLabels, Labels, Rets
  <1>1. ASSUME NEW t \in Threads, NEW ret \in Rets, CallReturns(t, ret) PROVE \E l \in Labels : Drifts(t, l)
    <2>1. Drifts(t, ret)
      BY SMT, <1>1 DEF CallReturns, Calls
    <2> QED
      BY ZenonT(40), <2>1
  <1>2. ASSUME NEW t \in Threads, UvLock(t) PROVE \E l \in Labels : Drifts(t, l)
    BY SMT, <1>2 DEF UvLock, TryUvLock, AwaitUvLock
  <1>3. ASSUME NEW t \in Threads, Arm(t) PROVE \E l \in Labels : Drifts(t, l)
    <2>1. Drifts(t, "run")
      BY <1>3 DEF Arm
    <2> QED
      BY <2>1
  <1>4. ASSUME NEW t \in Threads, FindsNothing(t) PROVE \E l \in Labels : Drifts(t, l)
    BY ZenonT(40), <1>4 DEF FindsNothing
  <1>5. ASSUME NEW t \in Threads, Peek(t) PROVE \E l \in Labels : Drifts(t, l)
    BY ZenonT(40), <1>5 DEF Peek
  <1>6. ASSUME NEW t \in Threads, Spin(t) PROVE \E l \in Labels : Drifts(t, l)
    <2>1. Drifts(t, "pop")
      BY <1>6 DEF Spin
    <2> QED
      BY <2>1
  <1>7. ASSUME NEW t \in Threads, LoopHeld(t) PROVE \E l \in Labels : Drifts(t, l)
    <2>1. Drifts(t, "count")
      BY <1>7 DEF LoopHeld
    <2> QED
      BY <2>1
  <1>8. ASSUME NEW t \in Threads, ParkWaits(t) PROVE \E l \in Labels : Drifts(t, l)
    <2>1. Drifts(t, "cond") \/ Drifts(t, "test")
      BY SMT, <1>8 DEF ParkWaits
    <2> QED
      BY <2>1
  <1>9. ASSUME NEW t \in Threads, Spurious(t) PROVE \E l \in Labels : Drifts(t, l)
    <2>1. Drifts(t, "park")
      BY <1>9 DEF Spurious
    <2> QED
      BY <2>1
  <1>10. ASSUME ProcessEvents PROVE \E l \in Labels : Drifts(Io, l)
    BY <1>10 DEF ProcessEvents
  <1>11. ASSUME Polled PROVE \E l \in Labels : Drifts(Io, l)
    <2>1. Drifts(Io, "pop")
      BY <1>11 DEF Polled
    <2> QED
      BY <2>1
  <1>12. ASSUME WaitEmpty PROVE \E l \in Labels : Drifts(Io, l)
    <2>1. Drifts(Io, "events")
      BY <1>12 DEF WaitEmpty
    <2> QED
      BY <2>1
  <1>13. ASSUME WaitEmptyEnd PROVE \E l \in Labels : Drifts(Io, l)
    <2>1. Drifts(Io, "done")
      BY <1>13 DEF WaitEmptyEnd
    <2> QED
      BY <2>1
  <1>14. ASSUME EnterLoop PROVE \E l \in Labels : Drifts(Io, l)
    <2>1. Drifts(Io, "yieldlock")
      BY <1>14 DEF EnterLoop
    <2> QED
      BY <2>1
  <1>15. ASSUME YieldLock PROVE \E l \in Labels : Drifts(Io, l)
    BY <1>15 DEF YieldLock
  <1>16. ASSUME LeaveUv PROVE \E l \in Labels : Drifts(Io, l)
    BY <1>16 DEF LeaveUv
  <1>17. ASSUME EndFinalizer PROVE \E l \in Labels : Drifts(Io, l)
    <2>1. Drifts(Io, "ask")
      BY <1>17 DEF EndFinalizer
    <2> QED
      BY <2>1
  <1>18. ASSUME AskAgain PROVE \E l \in Labels : Drifts(Io, l)
    BY <1>18 DEF AskAgain
  <1>19. ASSUME Answer PROVE \E l \in Labels : Drifts(Io, l)
    <2>1. Drifts(Io, "decide")
      BY <1>19 DEF Answer
    <2> QED
      BY <2>1
  <1>20. ASSUME DecidesCount PROVE \E l \in Labels : Drifts(Io, l)
    <2>1. Drifts(Io, "count")
      BY <1>20 DEF DecidesCount
    <2> QED
      BY <2>1
  <1>21. ASSUME Test PROVE \E l \in Labels : Drifts(Io, l)
    <2>1. Drifts(Io, "countin") \/ Drifts(Io, "cond")
      <3>1. /\ pc[Io] = "test" /\ slept[Io]
            /\ UNCHANGED <<counts, slept, queues, job>>
        BY <1>21 DEF Test
      <3>2. Goto(Io, "countin") \/ Goto(Io, "cond")
        BY <1>21 DEF Test
      <3> QED
        BY ZenonT(40), <3>1, <3>2
    <2> QED
      BY <2>1
  <1> HIDE DEF Sleeps, Drifts, Labels
  <1> QED
    BY ZenonT(40), <1>1, <1>2, <1>3, <1>4, <1>5, <1>6, <1>7, <1>8, <1>9, <1>10, <1>11, <1>12, <1>13, <1>14, <1>15,
         <1>16, <1>17, <1>18, <1>19, <1>20, <1>21 DEF QuietCase, LoopCase

\* No step adds or removes a thread.
LEMMA ThreadsFixed ==
    ASSUME Types, Jobs, Sleeps, Cases
    PROVE  Threads' = Threads
  <1> /\ workq \in [Threads -> 0..MaxQueue]
    BY DEF Types
  <1> USE DEF Threads, queues
  <1> Io \in Threads
    BY IoThread
  <1>1. ASSUME NEW a \in Actors, NEW d \in job[a].cand, ScanHit(a, d) PROVE Threads' = Threads
    BY <1>1 DEF ScanHit
  <1>2. ASSUME NEW a \in Actors, NEW d \in job[a].cand, ScanMiss(a, d) PROVE Threads' = Threads
    BY <1>2 DEF ScanMiss
  <1>3. ASSUME NEW a \in Actors, Inc(a) PROVE Threads' = Threads
    BY <1>3 DEF Inc
  <1>4. ASSUME NEW a \in Actors, Signal(a) PROVE Threads' = Threads
    BY <1>4 DEF Signal, Signalled
  <1>5. ASSUME NEW a \in Actors, Kick(a) PROVE Threads' = Threads
    BY <1>5 DEF Kick, Kicks
  <1>6. ASSUME NEW a \in Actors, JobPool(a) PROVE Threads' = Threads
    BY <1>6 DEF JobPool, WakePool
  <1>7. ASSUME NEW a \in Actors, JobDone(a) PROVE Threads' = Threads
    BY <1>7 DEF JobDone
  <1>8. ASSUME NEW a \in Listener, Deliver(a) PROVE Threads' = Threads
    BY <1>8 DEF Deliver, Listener
  <1>9. ASSUME NEW t \in Threads, NEW d \in Threads, NEW ret \in Rets, PostSticky(t, d, ret)
        PROVE  Threads' = Threads
    BY <1>9 DEF PostSticky, Calls, WakeThread
  <1>10. ASSUME NEW t \in Threads, NEW d \in Threads, NEW ret \in Rets, PostHosted(t, d, ret)
         PROVE  Threads' = Threads
    BY <1>10 DEF PostHosted, Calls, WakeThread
  <1>11. ASSUME NEW t \in Threads, NEW d \in Threads, NEW ret \in Rets, Asks(t, d, ret)
         PROVE  Threads' = Threads
    BY <1>11 DEF Asks, WakeThread
  <1>12. ASSUME NEW t \in Threads, NEW ret \in Rets, PostShared(t, ret) PROVE Threads' = Threads
    BY <1>12 DEF PostShared, Calls, WakePool
  <1>13. ASSUME NEW t \in Threads, NEW ret \in Rets, PostOwn(t, ret) PROVE Threads' = Threads
    BY <1>13 DEF PostOwn, Calls, WakePool
  <1>14. ASSUME NEW t \in Threads, SelfWake(t) PROVE Threads' = Threads
    BY <1>14 DEF SelfWake
  <1>15. ASSUME NEW t \in Threads, SelfInc(t) PROVE Threads' = Threads
    BY <1>15 DEF SelfInc
  <1>16. ASSUME NEW t \in Threads, Finds(t) PROVE Threads' = Threads
    BY <1>16 DEF Finds, Awakens
  <1>17. ASSUME NEW t \in Threads, StaysAsleep(t) PROVE Threads' = Threads
    BY <1>17 DEF StaysAsleep
  <1>18. ASSUME NEW t \in Threads, GivesUp(t) PROVE Threads' = Threads
    BY <1>18 DEF GivesUp, Awakens
  <1>19. ASSUME NEW t \in Threads, Block(t) PROVE Threads' = Threads
    BY <1>19 DEF Block
  <1>20. ASSUME NEW t \in Threads, Sleep(t) PROVE Threads' = Threads
    BY <1>20 DEF Sleep
  <1>21. ASSUME NEW t \in Threads, CountOut(t) PROVE Threads' = Threads
    BY <1>21 DEF CountOut
  <1>22. ASSUME NEW t \in Threads, Last(t) PROVE Threads' = Threads
    BY <1>22 DEF Last, Signalled
  <1>23. ASSUME NEW t \in Threads, ParkWakes(t) PROVE Threads' = Threads
    BY <1>23 DEF ParkWakes
  <1>24. ASSUME Leaves PROVE Threads' = Threads
    BY <1>24 DEF Leaves, Awakens, Released
  <1>25. ASSUME NEW t \in Threads, NEW l \in Labels, Drifts(t, l) PROVE Threads' = Threads
    BY <1>25 DEF Drifts
  <1>26. ASSUME CountIn PROVE Threads' = Threads
    BY <1>26 DEF CountIn
  <1> HIDE DEF Threads, queues
  <1> QED
    BY ZenonT(40), <1>1, <1>2, <1>3, <1>4, <1>5, <1>6, <1>7, <1>8, <1>9, <1>10, <1>11, <1>12, <1>13, <1>14, <1>15,
         <1>16, <1>17, <1>18, <1>19, <1>20, <1>21, <1>22, <1>23, <1>24, <1>25, <1>26, CasesDrift DEF Cases, WakeCase,
         PostCase, SleepCase

\* Every step keeps pc typed,
LEMMA PcTyped ==
    ASSUME Types, Jobs, Sleeps, Cases
    PROVE  pc' \in [Actors -> Labels]
  <1> /\ pc \in [Actors -> Labels] /\ job \in [Actors -> JobType] /\ Threads \subseteq Actors
    BY ActorsAssumption DEF Types
  <1> \A a \in Actors : job[a].ret \in Labels
    BY DEF JobType
  <1> USE LabelFacts DEF Goto, Labels
  <1> Io \in Threads
    BY IoThread
  <1>1. ASSUME NEW a \in Actors, NEW d \in job[a].cand, ScanHit(a, d) PROVE pc' \in [Actors -> Labels]
    BY <1>1 DEF ScanHit
  <1>2. ASSUME NEW a \in Actors, NEW d \in job[a].cand, ScanMiss(a, d) PROVE pc' \in [Actors -> Labels]
    BY <1>2 DEF ScanMiss
  <1>3. ASSUME NEW a \in Actors, Inc(a) PROVE pc' \in [Actors -> Labels]
    BY <1>3 DEF Inc
  <1>4. ASSUME NEW a \in Actors, Signal(a) PROVE pc' \in [Actors -> Labels]
    BY ZenonT(40), <1>4 DEF Signal, Signalled
  <1>5. ASSUME NEW a \in Actors, Kick(a) PROVE pc' \in [Actors -> Labels]
    BY <1>5 DEF Kick, Kicks
  <1>6. ASSUME NEW a \in Actors, JobPool(a) PROVE pc' \in [Actors -> Labels]
    BY <1>6 DEF JobPool, WakePool
  <1>7. ASSUME NEW a \in Actors, JobDone(a) PROVE pc' \in [Actors -> Labels]
    BY <1>7 DEF JobDone
  <1>8. ASSUME NEW a \in Listener, Deliver(a) PROVE pc' \in [Actors -> Labels]
    BY <1>8 DEF Deliver, Listener
  <1>9. ASSUME NEW t \in Threads, NEW d \in Threads, NEW ret \in Rets, PostSticky(t, d, ret)
        PROVE  pc' \in [Actors -> Labels]
    BY <1>9 DEF PostSticky, Calls, WakeThread
  <1>10. ASSUME NEW t \in Threads, NEW d \in Threads, NEW ret \in Rets, PostHosted(t, d, ret)
         PROVE  pc' \in [Actors -> Labels]
    BY <1>10 DEF PostHosted, Calls, WakeThread
  <1>11. ASSUME NEW t \in Threads, NEW d \in Threads, NEW ret \in Rets, Asks(t, d, ret)
         PROVE  pc' \in [Actors -> Labels]
    BY <1>11 DEF Asks, WakeThread
  <1>12. ASSUME NEW t \in Threads, NEW ret \in Rets, PostShared(t, ret) PROVE pc' \in [Actors -> Labels]
    BY <1>12 DEF PostShared, Calls, WakePool
  <1>13. ASSUME NEW t \in Threads, NEW ret \in Rets, PostOwn(t, ret) PROVE pc' \in [Actors -> Labels]
    BY <1>13 DEF PostOwn, Calls, WakePool
  <1>14. ASSUME NEW t \in Threads, SelfWake(t) PROVE pc' \in [Actors -> Labels]
    <2>1. pc' = [pc EXCEPT ![t] = "selfinc"] \/ pc' = [pc EXCEPT ![t] = "scan"]
      BY <1>14 DEF SelfWake
    <2> QED
      BY SMT, <2>1
  <1>15. ASSUME NEW t \in Threads, SelfInc(t) PROVE pc' \in [Actors -> Labels]
    BY <1>15 DEF SelfInc
  <1>16. ASSUME NEW t \in Threads, Finds(t) PROVE pc' \in [Actors -> Labels]
    BY <1>16 DEF Finds, Awakens
  <1>17. ASSUME NEW t \in Threads, StaysAsleep(t) PROVE pc' \in [Actors -> Labels]
    BY <1>17 DEF StaysAsleep
  <1>18. ASSUME NEW t \in Threads, GivesUp(t) PROVE pc' \in [Actors -> Labels]
    BY <1>18 DEF GivesUp, Awakens
  <1>19. ASSUME NEW t \in Threads, Block(t) PROVE pc' \in [Actors -> Labels]
    BY ZenonT(40), <1>19 DEF Block
  <1>20. ASSUME NEW t \in Threads, Sleep(t) PROVE pc' \in [Actors -> Labels]
    BY <1>20 DEF Sleep
  <1>21. ASSUME NEW t \in Threads, CountOut(t) PROVE pc' \in [Actors -> Labels]
    BY <1>21 DEF CountOut
  <1>22. ASSUME NEW t \in Threads, Last(t) PROVE pc' \in [Actors -> Labels]
    BY ZenonT(40), <1>22 DEF Last, Signalled
  <1>23. ASSUME NEW t \in Threads, ParkWakes(t) PROVE pc' \in [Actors -> Labels]
    BY <1>23 DEF ParkWakes
  <1>24. ASSUME Leaves PROVE pc' \in [Actors -> Labels]
    BY <1>24 DEF Leaves, Awakens, Released
  <1>25. ASSUME NEW t \in Threads, NEW l \in Labels, Drifts(t, l) PROVE pc' \in [Actors -> Labels]
    BY <1>25 DEF Drifts
  <1>26. ASSUME CountIn PROVE pc' \in [Actors -> Labels]
    BY ZenonT(30), <1>26 DEF CountIn
  <1> HIDE DEF Goto, Labels
  <1> QED
    BY ZenonT(40), <1>1, <1>2, <1>3, <1>4, <1>5, <1>6, <1>7, <1>8, <1>9, <1>10, <1>11, <1>12, <1>13, <1>14, <1>15,
         <1>16, <1>17, <1>18, <1>19, <1>20, <1>21, <1>22, <1>23, <1>24, <1>25, <1>26, CasesDrift DEF Cases, WakeCase,
         PostCase, SleepCase

\* the jobs,
LEMMA JobTyped ==
    ASSUME Types, Jobs, Sleeps, Threads' = Threads, Cases
    PROVE  (job \in [Actors -> JobType])'
  <1> /\ job \in [Actors -> JobType] /\ Threads \subseteq Actors
    BY ActorsAssumption DEF Types
  <1> USE LabelFacts DEF JobType, NoJob
  <1> Io \in Threads
    BY IoThread
  <1>1. ASSUME NEW a \in Actors, NEW d \in job[a].cand, ScanHit(a, d) PROVE (job \in [Actors -> JobType])'
    BY SMT, <1>1 DEF ScanHit
  <1>2. ASSUME NEW a \in Actors, NEW d \in job[a].cand, ScanMiss(a, d) PROVE (job \in [Actors -> JobType])'
    BY SMT, <1>2 DEF ScanMiss
  <1>3. ASSUME NEW a \in Actors, Inc(a) PROVE (job \in [Actors -> JobType])'
    BY <1>3 DEF Inc
  <1>4. ASSUME NEW a \in Actors, Signal(a) PROVE (job \in [Actors -> JobType])'
    BY <1>4 DEF Signal, Signalled
  <1>5. ASSUME NEW a \in Actors, Kick(a) PROVE (job \in [Actors -> JobType])'
    BY SMT, <1>5 DEF Kick, Kicks
  <1>6. ASSUME NEW a \in Actors, JobPool(a) PROVE (job \in [Actors -> JobType])'
    BY <1>6 DEF JobPool, WakePool
  <1>7. ASSUME NEW a \in Actors, JobDone(a) PROVE (job \in [Actors -> JobType])'
    BY <1>7 DEF JobDone
  <1>8. ASSUME NEW a \in Listener, Deliver(a) PROVE (job \in [Actors -> JobType])'
    BY <1>8 DEF Deliver, Listener
  <1>9. ASSUME NEW t \in Threads, NEW d \in Threads, NEW ret \in Rets, PostSticky(t, d, ret)
        PROVE  (job \in [Actors -> JobType])'
    BY <1>9 DEF PostSticky, Calls, WakeThread
  <1>10. ASSUME NEW t \in Threads, NEW d \in Threads, NEW ret \in Rets, PostHosted(t, d, ret)
         PROVE  (job \in [Actors -> JobType])'
    BY <1>10 DEF PostHosted, Calls, WakeThread
  <1>11. ASSUME NEW t \in Threads, NEW d \in Threads, NEW ret \in Rets, Asks(t, d, ret)
         PROVE  (job \in [Actors -> JobType])'
    BY <1>11 DEF Asks, WakeThread
  <1>12. ASSUME NEW t \in Threads, NEW ret \in Rets, PostShared(t, ret) PROVE (job \in [Actors -> JobType])'
    BY <1>12 DEF PostShared, Calls, WakePool
  <1>13. ASSUME NEW t \in Threads, NEW ret \in Rets, PostOwn(t, ret) PROVE (job \in [Actors -> JobType])'
    BY <1>13 DEF PostOwn, Calls, WakePool
  <1>14. ASSUME NEW t \in Threads, SelfWake(t) PROVE (job \in [Actors -> JobType])'
    BY <1>14 DEF SelfWake
  <1>15. ASSUME NEW t \in Threads, SelfInc(t) PROVE (job \in [Actors -> JobType])'
    BY <1>15 DEF SelfInc
  <1>16. ASSUME NEW t \in Threads, Finds(t) PROVE (job \in [Actors -> JobType])'
    BY <1>16 DEF Finds, Awakens
  <1>17. ASSUME NEW t \in Threads, StaysAsleep(t) PROVE (job \in [Actors -> JobType])'
    BY <1>17 DEF StaysAsleep
  <1>18. ASSUME NEW t \in Threads, GivesUp(t) PROVE (job \in [Actors -> JobType])'
    BY <1>18 DEF GivesUp, Awakens
  <1>19. ASSUME NEW t \in Threads, Block(t) PROVE (job \in [Actors -> JobType])'
    BY <1>19 DEF Block
  <1>20. ASSUME NEW t \in Threads, Sleep(t) PROVE (job \in [Actors -> JobType])'
    BY <1>20 DEF Sleep
  <1>21. ASSUME NEW t \in Threads, CountOut(t) PROVE (job \in [Actors -> JobType])'
    BY <1>21 DEF CountOut
  <1>22. ASSUME NEW t \in Threads, Last(t) PROVE (job \in [Actors -> JobType])'
    BY <1>22 DEF Last, Signalled
  <1>23. ASSUME NEW t \in Threads, ParkWakes(t) PROVE (job \in [Actors -> JobType])'
    BY <1>23 DEF ParkWakes
  <1>24. ASSUME Leaves PROVE (job \in [Actors -> JobType])'
    BY <1>24 DEF Leaves, Awakens, Released
  <1>25. ASSUME NEW t \in Threads, NEW l \in Labels, Drifts(t, l) PROVE (job \in [Actors -> JobType])'
    BY <1>25 DEF Drifts
  <1>26. ASSUME CountIn PROVE (job \in [Actors -> JobType])'
    BY <1>26 DEF CountIn
  <1> HIDE DEF JobType, NoJob
  <1> QED
    BY ZenonT(40), <1>1, <1>2, <1>3, <1>4, <1>5, <1>6, <1>7, <1>8, <1>9, <1>10, <1>11, <1>12, <1>13, <1>14, <1>15,
         <1>16, <1>17, <1>18, <1>19, <1>20, <1>21, <1>22, <1>23, <1>24, <1>25, <1>26, CasesDrift DEF Cases, WakeCase,
         PostCase, SleepCase

CountsType ==
    /\ sleep_check_state \in [Threads -> {"not_sleeping", "sleeping"}]
    /\ n_threads_running \in Int
    /\ slept \in [Threads -> BOOLEAN]

\* the counts and sleep states,
LEMMA CountsTyped ==
    ASSUME Types, Jobs, Sleeps, Threads' = Threads, Cases
    PROVE  CountsType'
  <1> /\ CountsType /\ Threads \subseteq Actors
    BY ActorsAssumption DEF Types, CountsType
  <1> USE DEF CountsType, counts
  <1> Io \in Threads
    BY IoThread
  <1>1. ASSUME NEW a \in Actors, NEW d \in job[a].cand, ScanHit(a, d) PROVE CountsType'
    BY <1>1 DEF ScanHit
  <1>2. ASSUME NEW a \in Actors, NEW d \in job[a].cand, ScanMiss(a, d) PROVE CountsType'
    BY <1>2 DEF ScanMiss
  <1>3. ASSUME NEW a \in Actors, Inc(a) PROVE CountsType'
    BY SMT, <1>3 DEF Inc
  <1>4. ASSUME NEW a \in Actors, Signal(a) PROVE CountsType'
    BY <1>4 DEF Signal, Signalled
  <1>5. ASSUME NEW a \in Actors, Kick(a) PROVE CountsType'
    BY <1>5 DEF Kick, Kicks
  <1>6. ASSUME NEW a \in Actors, JobPool(a) PROVE CountsType'
    BY <1>6 DEF JobPool, WakePool
  <1>7. ASSUME NEW a \in Actors, JobDone(a) PROVE CountsType'
    BY <1>7 DEF JobDone
  <1>8. ASSUME NEW a \in Listener, Deliver(a) PROVE CountsType'
    BY <1>8 DEF Deliver, Listener
  <1>9. ASSUME NEW t \in Threads, NEW d \in Threads, NEW ret \in Rets, PostSticky(t, d, ret) PROVE CountsType'
    BY <1>9 DEF PostSticky, Calls, WakeThread
  <1>10. ASSUME NEW t \in Threads, NEW d \in Threads, NEW ret \in Rets, PostHosted(t, d, ret)
         PROVE  CountsType'
    BY <1>10 DEF PostHosted, Calls, WakeThread
  <1>11. ASSUME NEW t \in Threads, NEW d \in Threads, NEW ret \in Rets, Asks(t, d, ret) PROVE CountsType'
    BY <1>11 DEF Asks, WakeThread
  <1>12. ASSUME NEW t \in Threads, NEW ret \in Rets, PostShared(t, ret) PROVE CountsType'
    BY <1>12 DEF PostShared, Calls, WakePool
  <1>13. ASSUME NEW t \in Threads, NEW ret \in Rets, PostOwn(t, ret) PROVE CountsType'
    BY <1>13 DEF PostOwn, Calls, WakePool
  <1>14. ASSUME NEW t \in Threads, SelfWake(t) PROVE CountsType'
    BY <1>14 DEF SelfWake
  <1>15. ASSUME NEW t \in Threads, SelfInc(t) PROVE CountsType'
    BY SMT, <1>15 DEF SelfInc
  <1>16. ASSUME NEW t \in Threads, Finds(t) PROVE CountsType'
    BY SMT, <1>16 DEF Finds, Awakens
  <1>17. ASSUME NEW t \in Threads, StaysAsleep(t) PROVE CountsType'
    BY <1>17 DEF StaysAsleep
  <1>18. ASSUME NEW t \in Threads, GivesUp(t) PROVE CountsType'
    BY SMT, <1>18 DEF GivesUp, Awakens
  <1>19. ASSUME NEW t \in Threads, Block(t) PROVE CountsType'
    BY <1>19 DEF Block
  <1>20. ASSUME NEW t \in Threads, Sleep(t) PROVE CountsType'
    BY <1>20 DEF Sleep
  <1>21. ASSUME NEW t \in Threads, CountOut(t) PROVE CountsType'
    BY SMT, <1>21 DEF CountOut
  <1>22. ASSUME NEW t \in Threads, Last(t) PROVE CountsType'
    BY <1>22 DEF Last, Signalled
  <1>23. ASSUME NEW t \in Threads, ParkWakes(t) PROVE CountsType'
    BY <1>23 DEF ParkWakes
  <1>24. ASSUME Leaves PROVE CountsType'
    BY SMT, <1>24 DEF Leaves, Awakens, Released
  <1>25. ASSUME NEW t \in Threads, NEW l \in Labels, Drifts(t, l) PROVE CountsType'
    BY <1>25 DEF Drifts
  <1>26. ASSUME CountIn PROVE CountsType'
    BY SMT, <1>26 DEF CountIn
  <1> HIDE DEF CountsType, counts
  <1> QED
    BY ZenonT(40), <1>1, <1>2, <1>3, <1>4, <1>5, <1>6, <1>7, <1>8, <1>9, <1>10, <1>11, <1>12, <1>13, <1>14, <1>15,
         <1>16, <1>17, <1>18, <1>19, <1>20, <1>21, <1>22, <1>23, <1>24, <1>25, <1>26, CasesDrift DEF Cases, WakeCase,
         PostCase, SleepCase

QueuesType ==
    /\ workq \in [Threads -> 0..MaxQueue]
    /\ multiq \in Nat
    /\ hosted \in [Threads -> {"none", "blocked", "queued"}]

\* the queues,
LEMMA QueuesTyped ==
    ASSUME Types, Jobs, Sleeps, Threads' = Threads, Cases
    PROVE  QueuesType'
  <1> /\ QueuesType /\ Threads \subseteq Actors
    BY ActorsAssumption DEF Types, QueuesType
  <1> USE BoundAssumption DEF QueuesType, queues
  <1> Io \in Threads
    BY IoThread
  <1>1. ASSUME NEW a \in Actors, NEW d \in job[a].cand, ScanHit(a, d) PROVE QueuesType'
    BY <1>1 DEF ScanHit
  <1>2. ASSUME NEW a \in Actors, NEW d \in job[a].cand, ScanMiss(a, d) PROVE QueuesType'
    BY <1>2 DEF ScanMiss
  <1>3. ASSUME NEW a \in Actors, Inc(a) PROVE QueuesType'
    BY <1>3 DEF Inc
  <1>4. ASSUME NEW a \in Actors, Signal(a) PROVE QueuesType'
    BY <1>4 DEF Signal, Signalled
  <1>5. ASSUME NEW a \in Actors, Kick(a) PROVE QueuesType'
    BY <1>5 DEF Kick, Kicks
  <1>6. ASSUME NEW a \in Actors, JobPool(a) PROVE QueuesType'
    BY <1>6 DEF JobPool, WakePool
  <1>7. ASSUME NEW a \in Actors, JobDone(a) PROVE QueuesType'
    BY <1>7 DEF JobDone
  <1>8. ASSUME NEW a \in Listener, Deliver(a) PROVE QueuesType'
    BY <1>8 DEF Deliver, Listener
  <1>9. ASSUME NEW t \in Threads, NEW d \in Threads, NEW ret \in Rets, PostSticky(t, d, ret) PROVE QueuesType'
    BY SMT, <1>9 DEF PostSticky, Calls, WakeThread
  <1>10. ASSUME NEW t \in Threads, NEW d \in Threads, NEW ret \in Rets, PostHosted(t, d, ret)
         PROVE  QueuesType'
    BY <1>10 DEF PostHosted, Calls, WakeThread
  <1>11. ASSUME NEW t \in Threads, NEW d \in Threads, NEW ret \in Rets, Asks(t, d, ret) PROVE QueuesType'
    BY <1>11 DEF Asks, WakeThread
  <1>12. ASSUME NEW t \in Threads, NEW ret \in Rets, PostShared(t, ret) PROVE QueuesType'
    BY SMT, <1>12 DEF PostShared, Calls, WakePool
  <1>13. ASSUME NEW t \in Threads, NEW ret \in Rets, PostOwn(t, ret) PROVE QueuesType'
    BY <1>13 DEF PostOwn, Calls, WakePool
  <1>14. ASSUME NEW t \in Threads, SelfWake(t) PROVE QueuesType'
    BY <1>14 DEF SelfWake
  <1>15. ASSUME NEW t \in Threads, SelfInc(t) PROVE QueuesType'
    BY <1>15 DEF SelfInc
  <1>16. ASSUME NEW t \in Threads, Finds(t) PROVE QueuesType'
    BY <1>16 DEF Finds, Awakens
  <1>17. ASSUME NEW t \in Threads, StaysAsleep(t) PROVE QueuesType'
    BY <1>17 DEF StaysAsleep
  <1>18. ASSUME NEW t \in Threads, GivesUp(t) PROVE QueuesType'
    BY <1>18 DEF GivesUp, Awakens
  <1>19. ASSUME NEW t \in Threads, Block(t) PROVE QueuesType'
    BY <1>19 DEF Block
  <1>20. ASSUME NEW t \in Threads, Sleep(t) PROVE QueuesType'
    BY <1>20 DEF Sleep
  <1>21. ASSUME NEW t \in Threads, CountOut(t) PROVE QueuesType'
    BY <1>21 DEF CountOut
  <1>22. ASSUME NEW t \in Threads, Last(t) PROVE QueuesType'
    BY <1>22 DEF Last, Signalled
  <1>23. ASSUME NEW t \in Threads, ParkWakes(t) PROVE QueuesType'
    BY <1>23 DEF ParkWakes
  <1>24. ASSUME Leaves PROVE QueuesType'
    BY SMT, <1>24 DEF Leaves, Awakens, Released
  <1>25. ASSUME NEW t \in Threads, NEW l \in Labels, Drifts(t, l) PROVE QueuesType'
    BY <1>25 DEF Drifts
  <1>26. ASSUME CountIn PROVE QueuesType'
    BY SMT, <1>26 DEF CountIn
  <1> HIDE DEF QueuesType, queues
  <1> QED
    BY ZenonT(40), <1>1, <1>2, <1>3, <1>4, <1>5, <1>6, <1>7, <1>8, <1>9, <1>10, <1>11, <1>12, <1>13, <1>14, <1>15,
         <1>16, <1>17, <1>18, <1>19, <1>20, <1>21, <1>22, <1>23, <1>24, <1>25, <1>26, CasesDrift DEF Cases, WakeCase,
         PostCase, SleepCase

UvType ==
    /\ uv_owner \in Threads \cup {Null}
    /\ async \in BOOLEAN
    /\ press \in BOOLEAN
    /\ wait_empty \in BOOLEAN
    /\ handles \in 0..MaxHandles
    /\ entered \in [Threads -> BOOLEAN]
    /\ active \in [Threads -> BOOLEAN]

\* and the state of the event loop.
LEMMA UvTyped ==
    ASSUME Types, Jobs, Sleeps, Threads' = Threads, Cases
    PROVE  UvType'
  <1> /\ UvType /\ Threads \subseteq Actors /\ Null \notin Actors
    BY ActorsAssumption DEF Types, UvType
  <1> USE BoundAssumption DEF UvType, uv, loop
  <1> Io \in Threads
    BY IoThread
  <1>1. ASSUME NEW a \in Actors, NEW d \in job[a].cand, ScanHit(a, d) PROVE UvType'
    BY <1>1 DEF ScanHit
  <1>2. ASSUME NEW a \in Actors, NEW d \in job[a].cand, ScanMiss(a, d) PROVE UvType'
    BY <1>2 DEF ScanMiss
  <1>3. ASSUME NEW a \in Actors, Inc(a) PROVE UvType'
    BY <1>3 DEF Inc
  <1>4. ASSUME NEW a \in Actors, Signal(a) PROVE UvType'
    BY <1>4 DEF Signal, Signalled
  <1>5. ASSUME NEW a \in Actors, Kick(a) PROVE UvType'
    BY <1>5 DEF Kick, Kicks
  <1>6. ASSUME NEW a \in Actors, JobPool(a) PROVE UvType'
    BY <1>6 DEF JobPool, WakePool
  <1>7. ASSUME NEW a \in Actors, JobDone(a) PROVE UvType'
    BY <1>7 DEF JobDone
  <1>8. ASSUME NEW a \in Listener, Deliver(a) PROVE UvType'
    BY <1>8 DEF Deliver, Listener
  <1>9. ASSUME NEW t \in Threads, NEW d \in Threads, NEW ret \in Rets, PostSticky(t, d, ret) PROVE UvType'
    BY SMT, <1>9 DEF PostSticky, Calls, WakeThread
  <1>10. ASSUME NEW t \in Threads, NEW d \in Threads, NEW ret \in Rets, PostHosted(t, d, ret) PROVE UvType'
    BY SMT, <1>10 DEF PostHosted, Calls, WakeThread
  <1>11. ASSUME NEW t \in Threads, NEW d \in Threads, NEW ret \in Rets, Asks(t, d, ret) PROVE UvType'
    BY <1>11 DEF Asks, WakeThread
  <1>12. ASSUME NEW t \in Threads, NEW ret \in Rets, PostShared(t, ret) PROVE UvType'
    BY SMT, <1>12 DEF PostShared, Calls, WakePool
  <1>13. ASSUME NEW t \in Threads, NEW ret \in Rets, PostOwn(t, ret) PROVE UvType'
    BY SMT, <1>13 DEF PostOwn, Calls, WakePool
  <1>14. ASSUME NEW t \in Threads, SelfWake(t) PROVE UvType'
    BY <1>14 DEF SelfWake
  <1>15. ASSUME NEW t \in Threads, SelfInc(t) PROVE UvType'
    BY <1>15 DEF SelfInc
  <1>16. ASSUME NEW t \in Threads, Finds(t) PROVE UvType'
    BY <1>16 DEF Finds, Awakens
  <1>17. ASSUME NEW t \in Threads, StaysAsleep(t) PROVE UvType'
    BY <1>17 DEF StaysAsleep
  <1>18. ASSUME NEW t \in Threads, GivesUp(t) PROVE UvType'
    BY <1>18 DEF GivesUp, Awakens
  <1>19. ASSUME NEW t \in Threads, Block(t) PROVE UvType'
    BY <1>19 DEF Block
  <1>20. ASSUME NEW t \in Threads, Sleep(t) PROVE UvType'
    BY <1>20 DEF Sleep
  <1>21. ASSUME NEW t \in Threads, CountOut(t) PROVE UvType'
    BY <1>21 DEF CountOut
  <1>22. ASSUME NEW t \in Threads, Last(t) PROVE UvType'
    BY <1>22 DEF Last, Signalled
  <1>23. ASSUME NEW t \in Threads, ParkWakes(t) PROVE UvType'
    BY <1>23 DEF ParkWakes
  <1>24. ASSUME Leaves PROVE UvType'
    BY <1>24 DEF Leaves, Awakens, Released
  <1>25. ASSUME NEW t \in Threads, NEW ret \in Rets, CallReturns(t, ret) PROVE UvType'
    BY SMT, <1>25 DEF CallReturns, Calls
  <1>26. ASSUME NEW t \in Threads, UvLock(t) PROVE UvType'
    BY <1>26 DEF UvLock, TryUvLock, AwaitUvLock
  <1>27. ASSUME NEW t \in Threads, Arm(t) PROVE UvType'
    BY <1>27 DEF Arm
  <1>28. ASSUME NEW t \in Threads, FindsNothing(t) PROVE UvType'
    BY <1>28 DEF FindsNothing
  <1>29. ASSUME NEW t \in Threads, Peek(t) PROVE UvType'
    BY <1>29 DEF Peek
  <1>30. ASSUME NEW t \in Threads, Spin(t) PROVE UvType'
    BY <1>30 DEF Spin
  <1>31. ASSUME NEW t \in Threads, LoopHeld(t) PROVE UvType'
    BY <1>31 DEF LoopHeld
  <1>32. ASSUME NEW t \in Threads, ParkWaits(t) PROVE UvType'
    BY <1>32 DEF ParkWaits
  <1>33. ASSUME NEW t \in Threads, Spurious(t) PROVE UvType'
    BY <1>33 DEF Spurious
  <1>34. ASSUME ProcessEvents PROVE UvType'
    BY <1>34 DEF ProcessEvents
  <1>35. ASSUME Polled PROVE UvType'
    BY <1>35 DEF Polled
  <1>36. ASSUME WaitEmpty PROVE UvType'
    BY <1>36 DEF WaitEmpty
  <1>37. ASSUME WaitEmptyEnd PROVE UvType'
    BY <1>37 DEF WaitEmptyEnd
  <1>38. ASSUME EnterLoop PROVE UvType'
    BY <1>38 DEF EnterLoop
  <1>39. ASSUME YieldLock PROVE UvType'
    BY <1>39 DEF YieldLock
  <1>40. ASSUME LeaveUv PROVE UvType'
    BY <1>40 DEF LeaveUv
  <1>41. ASSUME EndFinalizer PROVE UvType'
    BY <1>41 DEF EndFinalizer
  <1>42. ASSUME AskAgain PROVE UvType'
    BY <1>42 DEF AskAgain
  <1>43. ASSUME Answer PROVE UvType'
    BY <1>43 DEF Answer, Alive
  <1>44. ASSUME DecidesCount PROVE UvType'
    BY <1>44 DEF DecidesCount
  <1>45. ASSUME CountIn PROVE UvType'
    BY <1>45 DEF CountIn
  <1>46. ASSUME Test PROVE UvType'
    BY <1>46 DEF Test
  <1> HIDE DEF UvType, uv, loop
  <1> QED
    BY ZenonT(40), <1>1, <1>2, <1>3, <1>4, <1>5, <1>6, <1>7, <1>8, <1>9, <1>10, <1>11, <1>12, <1>13, <1>14, <1>15,
         <1>16, <1>17, <1>18, <1>19, <1>20, <1>21, <1>22, <1>23, <1>24, <1>25, <1>26, <1>27, <1>28, <1>29, <1>30,
         <1>31, <1>32, <1>33, <1>34, <1>35, <1>36, <1>37, <1>38, <1>39, <1>40, <1>41, <1>42, <1>43, <1>44, <1>45,
         <1>46 DEF Cases, WakeCase, PostCase, SleepCase, QuietCase, LoopCase

\* Every step preserves Jobs: nobody is a target of its own job.
LEMMA JobsStep ==
    ASSUME Types, Jobs, Sleeps, Threads' = Threads, Cases
    PROVE  Jobs'
  <1> USE LabelFacts DEF Jobs, JobType, NoJob, Goto, JobLabels
  <1> Io \in Threads
    BY IoThread
  <1> /\ pc \in [Actors -> Labels] /\ job \in [Actors -> JobType] /\ Threads \subseteq Actors
      /\ Null \notin Actors
    BY ActorsAssumption DEF Types
  <1>1. ASSUME NEW a \in Actors, NEW d \in job[a].cand, ScanHit(a, d) PROVE Jobs'
    BY SMT, <1>1 DEF ScanHit
  <1>2. ASSUME NEW a \in Actors, NEW d \in job[a].cand, ScanMiss(a, d) PROVE Jobs'
    BY SMT, <1>2 DEF ScanMiss
  <1>3. ASSUME NEW a \in Actors, Inc(a) PROVE Jobs'
    BY <1>3 DEF Inc
  <1>4. ASSUME NEW a \in Actors, Signal(a) PROVE Jobs'
    BY SMT, <1>4 DEF Signal, Signalled
  <1>5. ASSUME NEW a \in Actors, Kick(a) PROVE Jobs'
    BY SMT, <1>5 DEF Kick, Kicks
  <1>6. ASSUME NEW a \in Actors, JobPool(a) PROVE Jobs'
    BY Zenon, <1>6 DEF JobPool, WakePool
  <1>7. ASSUME NEW a \in Actors, JobDone(a) PROVE Jobs'
    BY SMT, <1>7 DEF JobDone, Rets
  <1>8. ASSUME NEW a \in Listener, Deliver(a) PROVE Jobs'
    BY <1>8 DEF Deliver, Listener
  <1>9. ASSUME NEW t \in Threads, NEW d \in Threads, NEW ret \in Rets, PostSticky(t, d, ret) PROVE Jobs'
    BY SMT, <1>9 DEF PostSticky, Calls, WakeThread
  <1>10. ASSUME NEW t \in Threads, NEW d \in Threads, NEW ret \in Rets, PostHosted(t, d, ret) PROVE Jobs'
    BY SMT, <1>10 DEF PostHosted, Calls, WakeThread
  <1>11. ASSUME NEW t \in Threads, NEW d \in Threads, NEW ret \in Rets, Asks(t, d, ret) PROVE Jobs'
    BY ZenonT(40), <1>11 DEF Asks, WakeThread
  <1>12. ASSUME NEW t \in Threads, NEW ret \in Rets, PostShared(t, ret) PROVE Jobs'
    BY SMT, <1>12 DEF PostShared, Calls, WakePool
  <1>13. ASSUME NEW t \in Threads, NEW ret \in Rets, PostOwn(t, ret) PROVE Jobs'
    BY Zenon, <1>13 DEF PostOwn, Calls, WakePool
  <1>14. ASSUME NEW t \in Threads, SelfWake(t) PROVE Jobs'
    BY SMT, <1>14 DEF SelfWake
  <1>15. ASSUME NEW t \in Threads, SelfInc(t) PROVE Jobs'
    BY <1>15 DEF SelfInc
  <1>16. ASSUME NEW t \in Threads, Finds(t) PROVE Jobs'
    BY <1>16 DEF Finds, Awakens
  <1>17. ASSUME NEW t \in Threads, StaysAsleep(t) PROVE Jobs'
    BY <1>17 DEF StaysAsleep
  <1>18. ASSUME NEW t \in Threads, GivesUp(t) PROVE Jobs'
    BY <1>18 DEF GivesUp, Awakens
  <1>19. ASSUME NEW t \in Threads, Block(t) PROVE Jobs'
    BY SMT, <1>19 DEF Block
  <1>20. ASSUME NEW t \in Threads, Sleep(t) PROVE Jobs'
    BY <1>20 DEF Sleep
  <1>21. ASSUME NEW t \in Threads, CountOut(t) PROVE Jobs'
    BY <1>21 DEF CountOut
  <1>22. ASSUME NEW t \in Threads, Last(t) PROVE Jobs'
    BY SMT, <1>22 DEF Last, Signalled
  <1>23. ASSUME NEW t \in Threads, ParkWakes(t) PROVE Jobs'
    BY <1>23 DEF ParkWakes
  <1>24. ASSUME Leaves PROVE Jobs'
    BY <1>24 DEF Leaves, Awakens, Released
  <1>25. ASSUME NEW t \in Threads, NEW l \in Labels, Drifts(t, l) PROVE Jobs'
    BY SMT, <1>25 DEF Drifts
  <1>26. ASSUME CountIn PROVE Jobs'
    BY <1>26 DEF CountIn
  <1> HIDE DEF Jobs, JobType, NoJob, Goto, JobLabels
  <1> QED
    BY ZenonT(40), <1>1, <1>2, <1>3, <1>4, <1>5, <1>6, <1>7, <1>8, <1>9, <1>10, <1>11, <1>12, <1>13, <1>14, <1>15,
         <1>16, <1>17, <1>18, <1>19, <1>20, <1>21, <1>22, <1>23, <1>24, <1>25, <1>26, CasesDrift DEF Cases, WakeCase,
         PostCase, SleepCase

\* Every step preserves Sleeps.
LEMMA SleepsStep ==
    ASSUME Types, Jobs, Sleeps, Threads' = Threads, Cases
    PROVE  Sleeps'
  <1> USE DEF Sleeps, Jobs, JobType, NoJob, Goto, At, JobLabels, SleptLabels, Rets, counts
  <1> Io \in Threads
    BY IoThread
  <1> /\ pc \in [Actors -> Labels] /\ job \in [Actors -> JobType] /\ Threads \subseteq Actors
      /\ sleep_check_state \in [Threads -> {"not_sleeping", "sleeping"}] /\ slept \in [Threads -> BOOLEAN]
    BY ZenonT(40), ActorsAssumption DEF Types
  <1>1. ASSUME NEW a \in Actors, NEW d \in job[a].cand, ScanHit(a, d) PROVE Sleeps'
    BY SMTT(30), <1>1 DEF ScanHit
  <1>2. ASSUME NEW a \in Actors, NEW d \in job[a].cand, ScanMiss(a, d) PROVE Sleeps'
    BY SMTT(30), <1>2 DEF ScanMiss
  <1>3. ASSUME NEW a \in Actors, Inc(a) PROVE Sleeps'
    BY SMTT(30), <1>3 DEF Inc
  <1>4. ASSUME NEW a \in Actors, Signal(a) PROVE Sleeps'
    BY SMTT(30), <1>4 DEF Signal, Signalled
  <1>5. ASSUME NEW a \in Actors, Kick(a) PROVE Sleeps'
    BY SMTT(30), <1>5 DEF Kick, Kicks
  <1>6. ASSUME NEW a \in Actors, JobPool(a) PROVE Sleeps'
    BY SMTT(30), <1>6 DEF JobPool, WakePool
  <1>7. ASSUME NEW a \in Actors, JobDone(a) PROVE Sleeps'
    BY SMTT(30), <1>7 DEF JobDone
  <1>8. ASSUME NEW a \in Listener, Deliver(a) PROVE Sleeps'
    BY SMTT(30), <1>8 DEF Deliver, Listener
  <1>9. ASSUME NEW t \in Threads, NEW d \in Threads, NEW ret \in Rets, PostSticky(t, d, ret) PROVE Sleeps'
    BY SMTT(30), <1>9 DEF PostSticky, Calls, WakeThread
  <1>10. ASSUME NEW t \in Threads, NEW d \in Threads, NEW ret \in Rets, PostHosted(t, d, ret) PROVE Sleeps'
    BY SMTT(30), <1>10 DEF PostHosted, Calls, WakeThread
  <1>11. ASSUME NEW t \in Threads, NEW d \in Threads, NEW ret \in Rets, Asks(t, d, ret) PROVE Sleeps'
    BY SMTT(30), <1>11 DEF Asks, WakeThread
  <1>12. ASSUME NEW t \in Threads, NEW ret \in Rets, PostShared(t, ret) PROVE Sleeps'
    BY SMTT(30), <1>12 DEF PostShared, Calls, WakePool
  <1>13. ASSUME NEW t \in Threads, NEW ret \in Rets, PostOwn(t, ret) PROVE Sleeps'
    BY SMTT(30), <1>13 DEF PostOwn, Calls, WakePool
  <1>14. ASSUME NEW t \in Threads, SelfWake(t) PROVE Sleeps'
    BY SMTT(30), <1>14 DEF SelfWake
  <1>15. ASSUME NEW t \in Threads, SelfInc(t) PROVE Sleeps'
    BY SMTT(30), <1>15 DEF SelfInc
  <1>16. ASSUME NEW t \in Threads, Finds(t) PROVE Sleeps'
    BY SMTT(30), <1>16 DEF Finds, Awakens
  <1>17. ASSUME NEW t \in Threads, StaysAsleep(t) PROVE Sleeps'
    BY SMTT(30), <1>17 DEF StaysAsleep
  <1>18. ASSUME NEW t \in Threads, GivesUp(t) PROVE Sleeps'
    BY SMTT(30), <1>18 DEF GivesUp, Awakens
  <1>19. ASSUME NEW t \in Threads, Block(t) PROVE Sleeps'
    BY SMTT(30), <1>19 DEF Block
  <1>20. ASSUME NEW t \in Threads, Sleep(t) PROVE Sleeps'
    BY SMTT(30), <1>20 DEF Sleep
  <1>21. ASSUME NEW t \in Threads, CountOut(t) PROVE Sleeps'
    BY SMTT(30), <1>21 DEF CountOut
  <1>22. ASSUME NEW t \in Threads, Last(t) PROVE Sleeps'
    BY SMTT(30), <1>22 DEF Last, Signalled
  <1>23. ASSUME NEW t \in Threads, ParkWakes(t) PROVE Sleeps'
    BY SMTT(30), <1>23 DEF ParkWakes
  <1>24. ASSUME Leaves PROVE Sleeps'
    BY SMTT(30), <1>24 DEF Leaves, Awakens, Released
  <1>25. ASSUME NEW t \in Threads, NEW l \in Labels, Drifts(t, l) PROVE Sleeps'
    BY SMTT(30), <1>25 DEF Drifts
  <1>26. ASSUME CountIn PROVE Sleeps'
    BY SMTT(30), <1>26 DEF CountIn
  <1> HIDE DEF Sleeps, Jobs, JobType, NoJob, Goto, At, JobLabels, SleptLabels, Rets, counts
  <1> QED
    BY ZenonT(40), <1>1, <1>2, <1>3, <1>4, <1>5, <1>6, <1>7, <1>8, <1>9, <1>10, <1>11, <1>12, <1>13, <1>14, <1>15,
         <1>16, <1>17, <1>18, <1>19, <1>20, <1>21, <1>22, <1>23, <1>24, <1>25, <1>26, CasesDrift DEF Cases, WakeCase,
         PostCase, SleepCase

\* Every step preserves Owner: one thread is inside the lock of the loop.
LEMMA OwnerStep ==
    ASSUME Types, Jobs, Sleeps, Owner, Threads' = Threads, Cases
    PROVE  Owner'
  <1> USE DEF Owner, Jobs, JobType, NoJob, Goto, At, JobLabels, HeldLabels, Rets, uv
  <1> Io \in Threads
    BY IoThread
  <1> /\ pc \in [Actors -> Labels] /\ job \in [Actors -> JobType] /\ Threads \subseteq Actors
      /\ Null \notin Actors /\ uv_owner \in Threads \cup {Null}
    BY ActorsAssumption DEF Types
  <1>1. ASSUME NEW a \in Actors, NEW d \in job[a].cand, ScanHit(a, d) PROVE Owner'
    BY SMT, <1>1 DEF ScanHit
  <1>2. ASSUME NEW a \in Actors, NEW d \in job[a].cand, ScanMiss(a, d) PROVE Owner'
    BY SMTT(30), <1>2 DEF ScanMiss
  <1>3. ASSUME NEW a \in Actors, Inc(a) PROVE Owner'
    BY SMTT(30), <1>3 DEF Inc
  <1>4. ASSUME NEW a \in Actors, Signal(a) PROVE Owner'
    BY SMT, <1>4 DEF Signal, Signalled
  <1>5. ASSUME NEW a \in Actors, Kick(a) PROVE Owner'
    BY SMT, <1>5 DEF Kick, Kicks
  <1>6. ASSUME NEW a \in Actors, JobPool(a) PROVE Owner'
    BY SMTT(30), <1>6 DEF JobPool, WakePool
  <1>7. ASSUME NEW a \in Actors, JobDone(a) PROVE Owner'
    BY SMT, <1>7 DEF JobDone
  <1>8. ASSUME NEW a \in Listener, Deliver(a) PROVE Owner'
    BY SMT, <1>8 DEF Deliver, Listener
  <1>9. ASSUME NEW t \in Threads, NEW d \in Threads, NEW ret \in Rets, PostSticky(t, d, ret) PROVE Owner'
    BY SMT, <1>9 DEF PostSticky, Calls, WakeThread
  <1>10. ASSUME NEW t \in Threads, NEW d \in Threads, NEW ret \in Rets, PostHosted(t, d, ret) PROVE Owner'
    BY SMT, <1>10 DEF PostHosted, Calls, WakeThread
  <1>11. ASSUME NEW t \in Threads, NEW d \in Threads, NEW ret \in Rets, Asks(t, d, ret) PROVE Owner'
    BY SMTT(30), <1>11 DEF Asks, WakeThread
  <1>12. ASSUME NEW t \in Threads, NEW ret \in Rets, PostShared(t, ret) PROVE Owner'
    BY SMTT(30), <1>12 DEF PostShared, Calls, WakePool
  <1>13. ASSUME NEW t \in Threads, NEW ret \in Rets, PostOwn(t, ret) PROVE Owner'
    BY SMTT(30), <1>13 DEF PostOwn, Calls, WakePool
  <1>14. ASSUME NEW t \in Threads, SelfWake(t) PROVE Owner'
    BY SMTT(30), <1>14 DEF SelfWake
  <1>15. ASSUME NEW t \in Threads, SelfInc(t) PROVE Owner'
    BY SMTT(30), <1>15 DEF SelfInc
  <1>16. ASSUME NEW t \in Threads, Finds(t) PROVE Owner'
    BY SMTT(30), <1>16 DEF Finds, Awakens
  <1>17. ASSUME NEW t \in Threads, StaysAsleep(t) PROVE Owner'
    BY SMTT(30), <1>17 DEF StaysAsleep
  <1>18. ASSUME NEW t \in Threads, GivesUp(t) PROVE Owner'
    BY SMTT(30), <1>18 DEF GivesUp, Awakens
  <1>19. ASSUME NEW t \in Threads, Block(t) PROVE Owner'
    BY SMTT(30), <1>19 DEF Block
  <1>20. ASSUME NEW t \in Threads, Sleep(t) PROVE Owner'
    BY SMTT(30), <1>20 DEF Sleep
  <1>21. ASSUME NEW t \in Threads, CountOut(t) PROVE Owner'
    BY SMTT(30), <1>21 DEF CountOut
  <1>22. ASSUME NEW t \in Threads, Last(t) PROVE Owner'
    BY SMTT(30), <1>22 DEF Last, Signalled
  <1>23. ASSUME NEW t \in Threads, ParkWakes(t) PROVE Owner'
    BY SMTT(30), <1>23 DEF ParkWakes
  <1>24. ASSUME Leaves PROVE Owner'
    BY SMTT(30), <1>24 DEF Leaves, Awakens, Released
  <1>25. ASSUME NEW t \in Threads, NEW ret \in Rets, CallReturns(t, ret) PROVE Owner'
    BY SMTT(30), <1>25 DEF CallReturns, Calls
  <1>26. ASSUME NEW t \in Threads, UvLock(t) PROVE Owner'
    BY SMTT(30), <1>26 DEF UvLock, TryUvLock, AwaitUvLock
  <1>27. ASSUME NEW t \in Threads, Arm(t) PROVE Owner'
    BY SMTT(30), <1>27 DEF Arm
  <1>28. ASSUME NEW t \in Threads, FindsNothing(t) PROVE Owner'
    BY SMTT(30), <1>28 DEF FindsNothing
  <1>29. ASSUME NEW t \in Threads, Peek(t) PROVE Owner'
    BY SMTT(30), <1>29 DEF Peek
  <1>30. ASSUME NEW t \in Threads, Spin(t) PROVE Owner'
    BY SMTT(30), <1>30 DEF Spin
  <1>31. ASSUME NEW t \in Threads, LoopHeld(t) PROVE Owner'
    BY SMTT(30), <1>31 DEF LoopHeld
  <1>32. ASSUME NEW t \in Threads, ParkWaits(t) PROVE Owner'
    BY SMTT(30), <1>32 DEF ParkWaits
  <1>33. ASSUME NEW t \in Threads, Spurious(t) PROVE Owner'
    BY SMTT(30), <1>33 DEF Spurious
  <1>34. ASSUME ProcessEvents PROVE Owner'
    BY SMTT(30), <1>34 DEF ProcessEvents
  <1>35. ASSUME Polled PROVE Owner'
    BY SMTT(30), <1>35 DEF Polled
  <1>36. ASSUME WaitEmpty PROVE Owner'
    BY SMTT(30), <1>36 DEF WaitEmpty
  <1>37. ASSUME WaitEmptyEnd PROVE Owner'
    BY SMTT(30), <1>37 DEF WaitEmptyEnd
  <1>38. ASSUME EnterLoop PROVE Owner'
    BY SMTT(30), <1>38 DEF EnterLoop
  <1>39. ASSUME YieldLock PROVE Owner'
    BY SMTT(30), <1>39 DEF YieldLock
  <1>40. ASSUME LeaveUv PROVE Owner'
    BY SMTT(30), <1>40 DEF LeaveUv
  <1>41. ASSUME EndFinalizer PROVE Owner'
    BY SMTT(30), <1>41 DEF EndFinalizer
  <1>42. ASSUME AskAgain PROVE Owner'
    BY SMTT(30), <1>42 DEF AskAgain
  <1>43. ASSUME Answer PROVE Owner'
    BY SMTT(30), <1>43 DEF Answer, Alive
  <1>44. ASSUME DecidesCount PROVE Owner'
    BY SMTT(30), <1>44 DEF DecidesCount
  <1>45. ASSUME CountIn PROVE Owner'
    BY SMTT(30), <1>45 DEF CountIn
  <1>46. ASSUME Test PROVE Owner'
    BY SMTT(30), <1>46 DEF Test
  <1> HIDE DEF Owner, Jobs, JobType, NoJob, Goto, At, JobLabels, HeldLabels, Rets, uv
  <1> QED
    BY ZenonT(40), <1>1, <1>2, <1>3, <1>4, <1>5, <1>6, <1>7, <1>8, <1>9, <1>10, <1>11, <1>12, <1>13, <1>14, <1>15,
         <1>16, <1>17, <1>18, <1>19, <1>20, <1>21, <1>22, <1>23, <1>24, <1>25, <1>26, <1>27, <1>28, <1>29, <1>30,
         <1>31, <1>32, <1>33, <1>34, <1>35, <1>36, <1>37, <1>38, <1>39, <1>40, <1>41, <1>42, <1>43, <1>44, <1>45,
         <1>46 DEF Cases, WakeCase, PostCase, SleepCase, QuietCase, LoopCase

\* Every step preserves Kicked: the loop blocks with its wake-up on the way.
LEMMA KickedStep ==
    ASSUME Types, Jobs, Sleeps, Owner, Kicked, Threads' = Threads, Cases
    PROVE  Kicked'
  <1> USE DEF Kicked, EntersLoop, Waking, Jobs, JobType, NoJob, Goto, Rets, uv, loop, counts
  <1> Io \in Threads
    BY IoThread
  <1> /\ pc \in [Actors -> Labels] /\ job \in [Actors -> JobType] /\ Threads \subseteq Actors
      /\ Null \notin Actors /\ uv_owner \in Threads \cup {Null}
      /\ async \in BOOLEAN /\ entered \in [Threads -> BOOLEAN]
      /\ sleep_check_state \in [Threads -> {"not_sleeping", "sleeping"}]
    BY ActorsAssumption DEF Types
  <1>1. ASSUME NEW a \in Actors, NEW d \in job[a].cand, ScanHit(a, d) PROVE Kicked'
    BY SMT, <1>1 DEF ScanHit
  <1>2. ASSUME NEW a \in Actors, NEW d \in job[a].cand, ScanMiss(a, d) PROVE Kicked'
    BY <1>2 DEF ScanMiss
  <1>3. ASSUME NEW a \in Actors, Inc(a) PROVE Kicked'
    BY <1>3 DEF Inc
  <1>4. ASSUME NEW a \in Actors, Signal(a) PROVE Kicked'
    BY <1>4 DEF Signal, Signalled
  <1>5. ASSUME NEW a \in Actors, Kick(a) PROVE Kicked'
    BY ZenonT(40), <1>5 DEF Kick, Kicks, Owner, At, JobLabels, HeldLabels
  <1>6. ASSUME NEW a \in Actors, JobPool(a) PROVE Kicked'
    BY <1>6 DEF JobPool, WakePool
  <1>7. ASSUME NEW a \in Actors, JobDone(a) PROVE Kicked'
    BY Zenon, <1>7 DEF JobDone, JobLabels
  <1>8. ASSUME NEW a \in Listener, Deliver(a) PROVE Kicked'
    BY <1>8 DEF Deliver, Listener
  <1>9. ASSUME NEW t \in Threads, NEW d \in Threads, NEW ret \in Rets, PostSticky(t, d, ret) PROVE Kicked'
    BY SMTT(30), <1>9 DEF PostSticky, Calls, WakeThread
  <1>10. ASSUME NEW t \in Threads, NEW d \in Threads, NEW ret \in Rets, PostHosted(t, d, ret) PROVE Kicked'
    BY SMT, <1>10 DEF PostHosted, Calls, WakeThread
  <1>11. ASSUME NEW t \in Threads, NEW d \in Threads, NEW ret \in Rets, Asks(t, d, ret) PROVE Kicked'
    BY <1>11 DEF Asks, WakeThread
  <1>12. ASSUME NEW t \in Threads, NEW ret \in Rets, PostShared(t, ret) PROVE Kicked'
    BY SMTT(30), <1>12 DEF PostShared, Calls, WakePool
  <1>13. ASSUME NEW t \in Threads, NEW ret \in Rets, PostOwn(t, ret) PROVE Kicked'
    BY SMTT(30), <1>13 DEF PostOwn, Calls, WakePool
  <1>14. ASSUME NEW t \in Threads, SelfWake(t) PROVE Kicked'
    BY SMT, <1>14 DEF SelfWake
  <1>15. ASSUME NEW t \in Threads, SelfInc(t) PROVE Kicked'
    BY ZenonT(40), <1>15 DEF SelfInc
  <1>16. ASSUME NEW t \in Threads, Finds(t) PROVE Kicked'
    BY SMT, <1>16 DEF Finds, Awakens
  <1>17. ASSUME NEW t \in Threads, StaysAsleep(t) PROVE Kicked'
    BY <1>17 DEF StaysAsleep
  <1>18. ASSUME NEW t \in Threads, GivesUp(t) PROVE Kicked'
    BY Zenon, <1>18 DEF GivesUp, Awakens
  <1>19. ASSUME NEW t \in Threads, Block(t) PROVE Kicked'
    BY SMT, <1>19 DEF Block
  <1>20. ASSUME NEW t \in Threads, Sleep(t) PROVE Kicked'
    BY <1>20 DEF Sleep
  <1>21. ASSUME NEW t \in Threads, CountOut(t) PROVE Kicked'
    BY <1>21 DEF CountOut
  <1>22. ASSUME NEW t \in Threads, Last(t) PROVE Kicked'
    BY <1>22 DEF Last, Signalled
  <1>23. ASSUME NEW t \in Threads, ParkWakes(t) PROVE Kicked'
    BY <1>23 DEF ParkWakes
  <1>24. ASSUME Leaves PROVE Kicked'
    BY ZenonT(40), <1>24 DEF Leaves, Awakens, Released
  <1>25. ASSUME NEW t \in Threads, NEW ret \in Rets, CallReturns(t, ret) PROVE Kicked'
    BY SMTT(30), <1>25 DEF CallReturns, Calls
  <1>26. ASSUME NEW t \in Threads, UvLock(t) PROVE Kicked'
    BY SMT, <1>26 DEF UvLock, TryUvLock, AwaitUvLock
  <1>27. ASSUME NEW t \in Threads, Arm(t) PROVE Kicked'
    BY <1>27 DEF Arm
  <1>28. ASSUME NEW t \in Threads, FindsNothing(t) PROVE Kicked'
    BY <1>28 DEF FindsNothing
  <1>29. ASSUME NEW t \in Threads, Peek(t) PROVE Kicked'
    BY <1>29 DEF Peek
  <1>30. ASSUME NEW t \in Threads, Spin(t) PROVE Kicked'
    BY <1>30 DEF Spin
  <1>31. ASSUME NEW t \in Threads, LoopHeld(t) PROVE Kicked'
    BY <1>31 DEF LoopHeld
  <1>32. ASSUME NEW t \in Threads, ParkWaits(t) PROVE Kicked'
    BY <1>32 DEF ParkWaits
  <1>33. ASSUME NEW t \in Threads, Spurious(t) PROVE Kicked'
    BY <1>33 DEF Spurious
  <1>34. ASSUME ProcessEvents PROVE Kicked'
    BY ZenonT(40), <1>34 DEF ProcessEvents
  <1>35. ASSUME Polled PROVE Kicked'
    BY <1>35 DEF Polled
  <1>36. ASSUME WaitEmpty PROVE Kicked'
    BY <1>36 DEF WaitEmpty
  <1>37. ASSUME WaitEmptyEnd PROVE Kicked'
    BY <1>37 DEF WaitEmptyEnd
  <1>38. ASSUME EnterLoop PROVE Kicked'
    BY <1>38 DEF EnterLoop
  <1>39. ASSUME YieldLock PROVE Kicked'
    BY <1>39 DEF YieldLock
  <1>40. ASSUME LeaveUv PROVE Kicked'
    BY ZenonT(40), <1>40 DEF LeaveUv
  <1>41. ASSUME EndFinalizer PROVE Kicked'
    BY <1>41 DEF EndFinalizer
  <1>42. ASSUME AskAgain PROVE Kicked'
    BY <1>42 DEF AskAgain
  <1>43. ASSUME Answer PROVE Kicked'
    BY <1>43 DEF Answer, Alive
  <1>44. ASSUME DecidesCount PROVE Kicked'
    BY <1>44 DEF DecidesCount
  <1>45. ASSUME CountIn PROVE Kicked'
    BY ZenonT(40), <1>45 DEF CountIn
  <1>46. ASSUME Test PROVE Kicked'
    BY ZenonT(40), <1>46 DEF Test
  <1> HIDE DEF Kicked, EntersLoop, Waking, Jobs, JobType, NoJob, Goto, Rets, uv, loop, counts
  <1> QED
    BY ZenonT(40), <1>1, <1>2, <1>3, <1>4, <1>5, <1>6, <1>7, <1>8, <1>9, <1>10, <1>11, <1>12, <1>13, <1>14, <1>15,
         <1>16, <1>17, <1>18, <1>19, <1>20, <1>21, <1>22, <1>23, <1>24, <1>25, <1>26, <1>27, <1>28, <1>29, <1>30,
         <1>31, <1>32, <1>33, <1>34, <1>35, <1>36, <1>37, <1>38, <1>39, <1>40, <1>41, <1>42, <1>43, <1>44, <1>45,
         <1>46 DEF Cases, WakeCase, PostCase, SleepCase, QuietCase, LoopCase

\* Every step preserves LoopGivesWay.
LEMMA LoopGivesWayStep ==
    ASSUME Types, Jobs, Sleeps, Owner, WaitersCounted, LoopGivesWay, Threads' = Threads, Cases
    PROVE  LoopGivesWay'
  <1> USE DEF LoopGivesWay, Jobs, JobType, NoJob, Goto, Rets, uv
  <1> Io \in Threads
    BY IoThread
  <1> /\ pc \in [Actors -> Labels] /\ job \in [Actors -> JobType] /\ Threads \subseteq Actors
      /\ Null \notin Actors /\ uv_owner \in Threads \cup {Null}
      /\ async \in BOOLEAN /\ entered \in [Threads -> BOOLEAN]
      /\ sleep_check_state \in [Threads -> {"not_sleeping", "sleeping"}]
    BY ActorsAssumption DEF Types
  <1> uv_n_waiters \in Nat
    BY FS_CardinalityType, WaitersFinite DEF WaitersCounted
  <1>1. ASSUME NEW a \in Actors, NEW d \in job[a].cand, ScanHit(a, d) PROVE LoopGivesWay'
    BY <1>1 DEF ScanHit
  <1>2. ASSUME NEW a \in Actors, NEW d \in job[a].cand, ScanMiss(a, d) PROVE LoopGivesWay'
    BY <1>2 DEF ScanMiss
  <1>3. ASSUME NEW a \in Actors, Inc(a) PROVE LoopGivesWay'
    BY <1>3 DEF Inc
  <1>4. ASSUME NEW a \in Actors, Signal(a) PROVE LoopGivesWay'
    BY <1>4 DEF Signal, Signalled
  <1>5. ASSUME NEW a \in Actors, Kick(a) PROVE LoopGivesWay'
    BY <1>5 DEF Kick, Kicks
  <1>6. ASSUME NEW a \in Actors, JobPool(a) PROVE LoopGivesWay'
    BY <1>6 DEF JobPool, WakePool
  <1>7. ASSUME NEW a \in Actors, JobDone(a) PROVE LoopGivesWay'
    BY <1>7 DEF JobDone, JobLabels
  <1>8. ASSUME NEW a \in Listener, Deliver(a) PROVE LoopGivesWay'
    BY <1>8 DEF Deliver, Listener
  <1>9. ASSUME NEW t \in Threads, NEW d \in Threads, NEW ret \in Rets, PostSticky(t, d, ret)
        PROVE  LoopGivesWay'
    BY SMT, <1>9 DEF PostSticky, Calls, WakeThread
  <1>10. ASSUME NEW t \in Threads, NEW d \in Threads, NEW ret \in Rets, PostHosted(t, d, ret)
         PROVE  LoopGivesWay'
    BY SMT, <1>10 DEF PostHosted, Calls, WakeThread
  <1>11. ASSUME NEW t \in Threads, NEW d \in Threads, NEW ret \in Rets, Asks(t, d, ret) PROVE LoopGivesWay'
    BY <1>11 DEF Asks, WakeThread
  <1>12. ASSUME NEW t \in Threads, NEW ret \in Rets, PostShared(t, ret) PROVE LoopGivesWay'
    BY SMT, <1>12 DEF PostShared, Calls, WakePool
  <1>13. ASSUME NEW t \in Threads, NEW ret \in Rets, PostOwn(t, ret) PROVE LoopGivesWay'
    BY SMT, <1>13 DEF PostOwn, Calls, WakePool
  <1>14. ASSUME NEW t \in Threads, SelfWake(t) PROVE LoopGivesWay'
    BY <1>14 DEF SelfWake
  <1>15. ASSUME NEW t \in Threads, SelfInc(t) PROVE LoopGivesWay'
    BY <1>15 DEF SelfInc
  <1>16. ASSUME NEW t \in Threads, Finds(t) PROVE LoopGivesWay'
    BY <1>16 DEF Finds, Awakens
  <1>17. ASSUME NEW t \in Threads, StaysAsleep(t) PROVE LoopGivesWay'
    BY <1>17 DEF StaysAsleep
  <1>18. ASSUME NEW t \in Threads, GivesUp(t) PROVE LoopGivesWay'
    BY <1>18 DEF GivesUp, Awakens
  <1>19. ASSUME NEW t \in Threads, Block(t) PROVE LoopGivesWay'
    BY <1>19 DEF Block
  <1>20. ASSUME NEW t \in Threads, Sleep(t) PROVE LoopGivesWay'
    BY <1>20 DEF Sleep
  <1>21. ASSUME NEW t \in Threads, CountOut(t) PROVE LoopGivesWay'
    BY <1>21 DEF CountOut
  <1>22. ASSUME NEW t \in Threads, Last(t) PROVE LoopGivesWay'
    BY <1>22 DEF Last, Signalled
  <1>23. ASSUME NEW t \in Threads, ParkWakes(t) PROVE LoopGivesWay'
    BY <1>23 DEF ParkWakes
  <1>24. ASSUME Leaves PROVE LoopGivesWay'
    BY ZenonT(40), <1>24 DEF Leaves, Awakens, Released
  <1>25. ASSUME NEW t \in Threads, NEW ret \in Rets, CallReturns(t, ret) PROVE LoopGivesWay'
    BY SMTT(30), <1>25 DEF CallReturns, Calls
  <1>26. ASSUME NEW t \in Threads, UvLock(t) PROVE LoopGivesWay'
    BY SMT, <1>26 DEF UvLock, TryUvLock, AwaitUvLock
  <1>27. ASSUME NEW t \in Threads, Arm(t) PROVE LoopGivesWay'
    BY <1>27 DEF Arm
  <1>28. ASSUME NEW t \in Threads, FindsNothing(t) PROVE LoopGivesWay'
    BY <1>28 DEF FindsNothing
  <1>29. ASSUME NEW t \in Threads, Peek(t) PROVE LoopGivesWay'
    BY <1>29 DEF Peek
  <1>30. ASSUME NEW t \in Threads, Spin(t) PROVE LoopGivesWay'
    BY <1>30 DEF Spin
  <1>31. ASSUME NEW t \in Threads, LoopHeld(t) PROVE LoopGivesWay'
    BY <1>31 DEF LoopHeld
  <1>32. ASSUME NEW t \in Threads, ParkWaits(t) PROVE LoopGivesWay'
    BY <1>32 DEF ParkWaits
  <1>33. ASSUME NEW t \in Threads, Spurious(t) PROVE LoopGivesWay'
    BY <1>33 DEF Spurious
  <1>34. ASSUME ProcessEvents PROVE LoopGivesWay'
    BY <1>34 DEF ProcessEvents
  <1>35. ASSUME Polled PROVE LoopGivesWay'
    BY <1>35 DEF Polled
  <1>36. ASSUME WaitEmpty PROVE LoopGivesWay'
    BY <1>36 DEF WaitEmpty
  <1>37. ASSUME WaitEmptyEnd PROVE LoopGivesWay'
    BY <1>37 DEF WaitEmptyEnd
  <1>38. ASSUME EnterLoop PROVE LoopGivesWay'
    BY ZenonT(40), <1>38 DEF EnterLoop
  <1>39. ASSUME YieldLock PROVE LoopGivesWay'
    BY SMT, <1>39 DEF YieldLock, NobodyWaits
  <1>40. ASSUME LeaveUv PROVE LoopGivesWay'
    BY <1>40 DEF LeaveUv
  <1>41. ASSUME EndFinalizer PROVE LoopGivesWay'
    BY <1>41 DEF EndFinalizer
  <1>42. ASSUME AskAgain PROVE LoopGivesWay'
    BY <1>42 DEF AskAgain
  <1>43. ASSUME Answer PROVE LoopGivesWay'
    BY <1>43 DEF Answer, Alive
  <1>44. ASSUME DecidesCount PROVE LoopGivesWay'
    BY <1>44 DEF DecidesCount
  <1>45. ASSUME CountIn PROVE LoopGivesWay'
    BY ZenonT(40), <1>45 DEF CountIn
  <1>46. ASSUME Test PROVE LoopGivesWay'
    BY ZenonT(40), <1>46 DEF Test
  <1> HIDE DEF LoopGivesWay, Jobs, JobType, NoJob, Goto, Rets, uv
  <1> QED
    BY ZenonT(40), <1>1, <1>2, <1>3, <1>4, <1>5, <1>6, <1>7, <1>8, <1>9, <1>10, <1>11, <1>12, <1>13, <1>14, <1>15,
         <1>16, <1>17, <1>18, <1>19, <1>20, <1>21, <1>22, <1>23, <1>24, <1>25, <1>26, <1>27, <1>28, <1>29, <1>30,
         <1>31, <1>32, <1>33, <1>34, <1>35, <1>36, <1>37, <1>38, <1>39, <1>40, <1>41, <1>42, <1>43, <1>44, <1>45,
         <1>46 DEF Cases, WakeCase, PostCase, SleepCase, QuietCase, LoopCase

\* Only UvLock changes who waits for the lock of the loop.
WaitsUnchanged ==
    uv_n_waiters' = uv_n_waiters /\ \A x \in Threads : pc'[x] \in WaitLabels <=> pc[x] \in WaitLabels

\* Every step but UvLock leaves the waiters for the lock alone.
LEMMA WaitsFrame ==
    ASSUME Types, Jobs, Sleeps, Threads' = Threads, Cases
    PROVE  WaitsUnchanged \/ \E u \in Threads : UvLock(u)
  <1> USE DEF WaitsUnchanged, WaitLabels, Jobs, JobType, NoJob, Goto, Rets, uv, JobLabels
  <1> Io \in Threads
    BY IoThread
  <1> /\ pc \in [Actors -> Labels] /\ job \in [Actors -> JobType] /\ Threads \subseteq Actors
      /\ Null \notin Actors /\ uv_owner \in Threads \cup {Null}
      /\ async \in BOOLEAN /\ entered \in [Threads -> BOOLEAN]
      /\ sleep_check_state \in [Threads -> {"not_sleeping", "sleeping"}]
    BY ActorsAssumption DEF Types
  <1>1. ASSUME NEW a \in Actors, NEW d \in job[a].cand, ScanHit(a, d)
        PROVE  WaitsUnchanged \/ \E u \in Threads : UvLock(u)
    BY ZenonT(40), <1>1 DEF ScanHit
  <1>2. ASSUME NEW a \in Actors, NEW d \in job[a].cand, ScanMiss(a, d)
        PROVE  WaitsUnchanged \/ \E u \in Threads : UvLock(u)
    BY <1>2 DEF ScanMiss
  <1>3. ASSUME NEW a \in Actors, Inc(a) PROVE WaitsUnchanged \/ \E u \in Threads : UvLock(u)
    BY <1>3 DEF Inc
  <1>4. ASSUME NEW a \in Actors, Signal(a) PROVE WaitsUnchanged \/ \E u \in Threads : UvLock(u)
    BY ZenonT(40), <1>4 DEF Signal, Signalled
  <1>5. ASSUME NEW a \in Actors, Kick(a) PROVE WaitsUnchanged \/ \E u \in Threads : UvLock(u)
    BY ZenonT(40), <1>5 DEF Kick, Kicks
  <1>6. ASSUME NEW a \in Actors, JobPool(a) PROVE WaitsUnchanged \/ \E u \in Threads : UvLock(u)
    BY SMT, <1>6 DEF JobPool, WakePool
  <1>7. ASSUME NEW a \in Actors, JobDone(a) PROVE WaitsUnchanged \/ \E u \in Threads : UvLock(u)
    BY ZenonT(40), <1>7 DEF JobDone
  <1>8. ASSUME NEW a \in Listener, Deliver(a) PROVE WaitsUnchanged \/ \E u \in Threads : UvLock(u)
    BY ZenonT(40), <1>8 DEF Deliver, Listener
  <1>9. ASSUME NEW t \in Threads, NEW d \in Threads, NEW ret \in Rets, PostSticky(t, d, ret)
        PROVE  WaitsUnchanged \/ \E u \in Threads : UvLock(u)
    BY <1>9 DEF PostSticky, Calls, WakeThread
  <1>10. ASSUME NEW t \in Threads, NEW d \in Threads, NEW ret \in Rets, PostHosted(t, d, ret)
         PROVE  WaitsUnchanged \/ \E u \in Threads : UvLock(u)
    BY <1>10 DEF PostHosted, Calls, WakeThread
  <1>11. ASSUME NEW t \in Threads, NEW d \in Threads, NEW ret \in Rets, Asks(t, d, ret)
         PROVE  WaitsUnchanged \/ \E u \in Threads : UvLock(u)
    BY <1>11 DEF Asks, WakeThread
  <1>12. ASSUME NEW t \in Threads, NEW ret \in Rets, PostShared(t, ret)
         PROVE  WaitsUnchanged \/ \E u \in Threads : UvLock(u)
    BY <1>12 DEF PostShared, Calls, WakePool
  <1>13. ASSUME NEW t \in Threads, NEW ret \in Rets, PostOwn(t, ret)
         PROVE  WaitsUnchanged \/ \E u \in Threads : UvLock(u)
    BY <1>13 DEF PostOwn, Calls, WakePool
  <1>14. ASSUME NEW t \in Threads, SelfWake(t) PROVE WaitsUnchanged \/ \E u \in Threads : UvLock(u)
    BY SMT, <1>14 DEF SelfWake
  <1>15. ASSUME NEW t \in Threads, SelfInc(t) PROVE WaitsUnchanged \/ \E u \in Threads : UvLock(u)
    BY <1>15 DEF SelfInc
  <1>16. ASSUME NEW t \in Threads, Finds(t) PROVE WaitsUnchanged \/ \E u \in Threads : UvLock(u)
    BY <1>16 DEF Finds, Awakens
  <1>17. ASSUME NEW t \in Threads, StaysAsleep(t) PROVE WaitsUnchanged \/ \E u \in Threads : UvLock(u)
    BY <1>17 DEF StaysAsleep
  <1>18. ASSUME NEW t \in Threads, GivesUp(t) PROVE WaitsUnchanged \/ \E u \in Threads : UvLock(u)
    BY ZenonT(40), <1>18 DEF GivesUp, Awakens
  <1>19. ASSUME NEW t \in Threads, Block(t) PROVE WaitsUnchanged \/ \E u \in Threads : UvLock(u)
    BY SMT, <1>19 DEF Block
  <1>20. ASSUME NEW t \in Threads, Sleep(t) PROVE WaitsUnchanged \/ \E u \in Threads : UvLock(u)
    BY <1>20 DEF Sleep
  <1>21. ASSUME NEW t \in Threads, CountOut(t) PROVE WaitsUnchanged \/ \E u \in Threads : UvLock(u)
    BY <1>21 DEF CountOut
  <1>22. ASSUME NEW t \in Threads, Last(t) PROVE WaitsUnchanged \/ \E u \in Threads : UvLock(u)
    BY <1>22 DEF Last, Signalled
  <1>23. ASSUME NEW t \in Threads, ParkWakes(t) PROVE WaitsUnchanged \/ \E u \in Threads : UvLock(u)
    BY <1>23 DEF ParkWakes
  <1>24. ASSUME Leaves PROVE WaitsUnchanged \/ \E u \in Threads : UvLock(u)
    BY <1>24 DEF Leaves, Awakens, Released
  <1>25. ASSUME NEW t \in Threads, NEW ret \in Rets, CallReturns(t, ret)
         PROVE  WaitsUnchanged \/ \E u \in Threads : UvLock(u)
    BY ZenonT(40), <1>25 DEF CallReturns, Calls
  <1>26. ASSUME NEW t \in Threads, UvLock(t) PROVE WaitsUnchanged \/ \E u \in Threads : UvLock(u)
    BY <1>26
  <1>27. ASSUME NEW t \in Threads, Arm(t) PROVE WaitsUnchanged \/ \E u \in Threads : UvLock(u)
    BY <1>27 DEF Arm
  <1>28. ASSUME NEW t \in Threads, FindsNothing(t) PROVE WaitsUnchanged \/ \E u \in Threads : UvLock(u)
    BY <1>28 DEF FindsNothing
  <1>29. ASSUME NEW t \in Threads, Peek(t) PROVE WaitsUnchanged \/ \E u \in Threads : UvLock(u)
    BY <1>29 DEF Peek
  <1>30. ASSUME NEW t \in Threads, Spin(t) PROVE WaitsUnchanged \/ \E u \in Threads : UvLock(u)
    BY <1>30 DEF Spin
  <1>31. ASSUME NEW t \in Threads, LoopHeld(t) PROVE WaitsUnchanged \/ \E u \in Threads : UvLock(u)
    BY <1>31 DEF LoopHeld
  <1>32. ASSUME NEW t \in Threads, ParkWaits(t) PROVE WaitsUnchanged \/ \E u \in Threads : UvLock(u)
    BY ZenonT(30), <1>32 DEF ParkWaits
  <1>33. ASSUME NEW t \in Threads, Spurious(t) PROVE WaitsUnchanged \/ \E u \in Threads : UvLock(u)
    BY ZenonT(40), <1>33 DEF Spurious
  <1>34. ASSUME ProcessEvents PROVE WaitsUnchanged \/ \E u \in Threads : UvLock(u)
    BY SMT, <1>34 DEF ProcessEvents
  <1>35. ASSUME Polled PROVE WaitsUnchanged \/ \E u \in Threads : UvLock(u)
    BY <1>35 DEF Polled
  <1>36. ASSUME WaitEmpty PROVE WaitsUnchanged \/ \E u \in Threads : UvLock(u)
    BY <1>36 DEF WaitEmpty
  <1>37. ASSUME WaitEmptyEnd PROVE WaitsUnchanged \/ \E u \in Threads : UvLock(u)
    BY <1>37 DEF WaitEmptyEnd
  <1>38. ASSUME EnterLoop PROVE WaitsUnchanged \/ \E u \in Threads : UvLock(u)
    BY <1>38 DEF EnterLoop
  <1>39. ASSUME YieldLock PROVE WaitsUnchanged \/ \E u \in Threads : UvLock(u)
    BY <1>39 DEF YieldLock
  <1>40. ASSUME LeaveUv PROVE WaitsUnchanged \/ \E u \in Threads : UvLock(u)
    BY SMT, <1>40 DEF LeaveUv
  <1>41. ASSUME EndFinalizer PROVE WaitsUnchanged \/ \E u \in Threads : UvLock(u)
    BY ZenonT(40), <1>41 DEF EndFinalizer
  <1>42. ASSUME AskAgain PROVE WaitsUnchanged \/ \E u \in Threads : UvLock(u)
    BY SMT, <1>42 DEF AskAgain
  <1>43. ASSUME Answer PROVE WaitsUnchanged \/ \E u \in Threads : UvLock(u)
    BY <1>43 DEF Answer, Alive
  <1>44. ASSUME DecidesCount PROVE WaitsUnchanged \/ \E u \in Threads : UvLock(u)
    BY <1>44 DEF DecidesCount
  <1>45. ASSUME CountIn PROVE WaitsUnchanged \/ \E u \in Threads : UvLock(u)
    BY <1>45 DEF CountIn
  <1>46. ASSUME Test PROVE WaitsUnchanged \/ \E u \in Threads : UvLock(u)
    BY <1>46 DEF Test
  <1> HIDE DEF WaitsUnchanged, WaitLabels, Jobs, JobType, NoJob, Goto, Rets, uv, JobLabels
  <1> QED
    BY ZenonT(40), <1>1, <1>2, <1>3, <1>4, <1>5, <1>6, <1>7, <1>8, <1>9, <1>10, <1>11, <1>12, <1>13, <1>14, <1>15,
         <1>16, <1>17, <1>18, <1>19, <1>20, <1>21, <1>22, <1>23, <1>24, <1>25, <1>26, <1>27, <1>28, <1>29, <1>30,
         <1>31, <1>32, <1>33, <1>34, <1>35, <1>36, <1>37, <1>38, <1>39, <1>40, <1>41, <1>42, <1>43, <1>44, <1>45,
         <1>46 DEF Cases, WakeCase, PostCase, SleepCase, QuietCase, LoopCase

\* uv_n_waiters stays the number of the waiters.
LEMMA WaitersStep ==
    ASSUME Types, Jobs, Sleeps, WaitersCounted, Threads' = Threads, Cases
    PROVE  WaitersCounted'
  <1> /\ pc \in [Actors -> Labels] /\ Threads \subseteq Actors
    BY ActorsAssumption DEF Types
  <1>1. IsFiniteSet(UvWaiters) /\ Cardinality(UvWaiters) \in Nat
    BY WaitersFinite, FS_CardinalityType
  <1>2. CASE WaitsUnchanged
    <2>1. UvWaiters' = UvWaiters
      BY <1>2 DEF UvWaiters, WaitsUnchanged
    <2> QED
      BY <1>2, <2>1 DEF WaitersCounted, WaitsUnchanged
  <1>3. ASSUME NEW t \in Threads, UvLock(t) PROVE WaitersCounted'
    <2>1. \/ /\ pc[t] \notin WaitLabels /\ pc'[t] \notin WaitLabels /\ uv_n_waiters' = uv_n_waiters
          \/ /\ pc[t] \notin WaitLabels /\ pc'[t] \in WaitLabels /\ uv_n_waiters' = uv_n_waiters + 1
          \/ /\ pc[t] \in WaitLabels /\ pc'[t] \notin WaitLabels /\ uv_n_waiters' = uv_n_waiters - 1
      BY <1>3 DEF UvLock, TryUvLock, AwaitUvLock, Goto, WaitLabels
    <2> USE <2>1
    <2>2. \A x \in Threads : x # t => pc'[x] = pc[x]
      BY <1>3 DEF UvLock, TryUvLock, AwaitUvLock, Goto
    <2> USE <2>2
    <2>3. CASE pc[t] \notin WaitLabels /\ pc'[t] \notin WaitLabels
      <3>1. UvWaiters' = UvWaiters
        BY <2>3 DEF UvWaiters
      <3> QED
        BY <2>3, <3>1 DEF WaitersCounted
    <2>4. CASE pc[t] \notin WaitLabels /\ pc'[t] \in WaitLabels
      <3>1. UvWaiters' = UvWaiters \cup {t} /\ t \notin UvWaiters
        BY <2>4 DEF UvWaiters
      <3> QED
        BY <1>1, <2>4, <3>1, FS_AddElement DEF WaitersCounted
    <2>5. CASE pc[t] \in WaitLabels
      <3>1. UvWaiters' = UvWaiters \ {t} /\ t \in UvWaiters
        BY <2>5 DEF UvWaiters
      <3> QED
        BY <1>1, <2>5, <3>1, FS_RemoveElement DEF WaitersCounted
    <2> QED
      BY <2>3, <2>4, <2>5
  <1> QED
    BY <1>2, <1>3, WaitsFrame

-----------------------------------------------------------------------------

\* A thread stays careful when a step leaves its place and its job alone.
LEMMA CarefulFrame ==
    ASSUME NEW x, pc'[x] = pc[x], job'[x] = job[x], Careful(x)
    PROVE  Careful(x)'
  BY Zenon DEF Careful, Parked, At

\* What is to be shown of a step of one actor that opens no handle.
LEMMA HandlesFrame ==
    ASSUME Handles, Threads' = Threads, NEW t, handles' = handles, IoPast' => IoPast,
           \A x \in Threads \ {Io} : x # t => pc'[x] = pc[x] /\ job'[x] = job[x],
           t \in Threads \ {Io} /\ Careful(t) => Careful(t)'
    PROVE  Handles'
  <1>1. \A x \in Threads \ {Io} : Careful(x) => Careful(x)'
    BY Zenon, CarefulFrame
  <1> QED
    BY Zenon, <1>1 DEF Handles

\* Every step preserves Handles: somebody will look after an open handle.
LEMMA HandlesStep ==
    ASSUME Types, Jobs, Sleeps, Owner, Handles, Threads' = Threads, Cases
    PROVE  Handles'
  <1> Io \in Threads
    BY IoThread
  <1> /\ pc \in [Actors -> Labels] /\ job \in [Actors -> JobType] /\ Threads \subseteq Actors
      /\ Null \notin Actors /\ uv_owner \in Threads \cup {Null}
      /\ active \in [Threads -> BOOLEAN] /\ entered \in [Threads -> BOOLEAN]
      /\ sleep_check_state \in [Threads -> {"not_sleeping", "sleeping"}]
    BY ActorsAssumption DEF Types
  <1> handles \in Nat
    BY SMT, BoundAssumption DEF Types
  <1> USE DEF Handles, IoPast, Careful, Parked, Jobs, JobType, NoJob, Goto, At, JobLabels, Rets, uv, loop, counts
  <1>1. ASSUME NEW a \in Actors, NEW d \in job[a].cand, ScanHit(a, d) PROVE Handles'
    <2>1. \A x \in Threads \ {Io} : Careful(x) /\ IoPast' => Careful(x)'
      <3>1. \A x \in Threads \ {Io} : x # a /\ Careful(x) => Careful(x)'
        BY ZenonT(30), <1>1 DEF ScanHit
      <3>2. a \in Threads \ {Io} /\ Careful(a) /\ IoPast' => Careful(a)'
        <4> HIDE DEF IoPast, Careful, Parked, Jobs, At, JobLabels, Rets
        <4>1. pc[a] = "scan" /\ pc'[a] = "inc" /\ job'[a].ret = job[a].ret
          BY SMT, <1>1 DEF ScanHit
        <4>2. IoPast' => d # Io
          BY Zenon, <1>1 DEF ScanHit, IoPast
        <4> QED
          BY Zenon, <1>1, <4>1, <4>2 DEF Careful, Parked, At, JobLabels
      <3> QED
        BY SMT, <3>1, <3>2
    <2>2. IoPast' => IoPast
      BY ZenonT(30), <1>1 DEF ScanHit
    <2> QED
      BY ZenonT(30), <1>1, <2>1, <2>2 DEF ScanHit
  <1>2. ASSUME NEW a \in Actors, NEW d \in job[a].cand, ScanMiss(a, d) PROVE Handles'
    <2>1. \A x \in Threads \ {Io} : x # a /\ Careful(x) => Careful(x)'
      BY ZenonT(30), <1>2 DEF ScanMiss
    <2>2. a \in Threads \ {Io} /\ Careful(a) /\ IoPast' => Careful(a)'
      BY SMTT(30), <1>2 DEF ScanMiss
    <2>3. IoPast' => IoPast
      BY ZenonT(30), <1>2 DEF ScanMiss
    <2>4. handles' = handles
      BY ZenonT(30), <1>2 DEF ScanMiss
    <2> HIDE DEF Handles, IoPast, Careful, Parked, Jobs, JobType, At, JobLabels, Rets
    <2> QED
      BY Zenon, <2>1, <2>2, <2>3, <2>4 DEF Handles
  <1>3. ASSUME NEW a \in Actors, Inc(a) PROVE Handles'
    <2>1. \A x \in Threads \ {Io} : x # a /\ Careful(x) => Careful(x)'
      BY ZenonT(30), <1>3 DEF Inc
    <2>2. a \in Threads \ {Io} /\ Careful(a) /\ IoPast' => Careful(a)'
      BY ZenonT(30), <1>3 DEF Inc
    <2>3. IoPast' => IoPast
      BY ZenonT(30), <1>3 DEF Inc
    <2>4. handles' = handles
      BY ZenonT(30), <1>3 DEF Inc
    <2> HIDE DEF IoPast, Careful
    <2> QED
      BY ZenonT(30), <2>1, <2>2, <2>3, <2>4
  <1>4. ASSUME NEW a \in Actors, Signal(a) PROVE Handles'
    <2>1. \A x \in Threads \ {Io} : x # a /\ Careful(x) => Careful(x)'
      BY ZenonT(30), <1>4 DEF Signal, Signalled
    <2>2. a \in Threads \ {Io} /\ Careful(a) /\ IoPast' => Careful(a)'
      BY ZenonT(30), <1>4 DEF Signal, Signalled
    <2>3. IoPast' => IoPast
      BY ZenonT(30), <1>4 DEF Signal, Signalled
    <2>4. handles' = handles
      BY ZenonT(30), <1>4 DEF Signal, Signalled
    <2> HIDE DEF IoPast, Careful
    <2> QED
      BY Zenon, <2>1, <2>2, <2>3, <2>4
  <1>5. ASSUME NEW a \in Actors, Kick(a) PROVE Handles'
    <2>1. \A x \in Threads \ {Io} : Careful(x) /\ IoPast' => Careful(x)'
      <3>1. \A x \in Threads \ {Io} : x # a /\ Careful(x) => Careful(x)'
        BY ZenonT(30), <1>5 DEF Kick
      <3>2. a \in Threads \ {Io} /\ Careful(a) /\ IoPast' => Careful(a)'
        <4> HIDE DEF IoPast, Careful, Parked, Jobs, At, JobLabels, Rets
        <4>1. pc[a] = "kick" /\ pc'[a] = "scan" /\ job'[a].ret = job[a].ret
          BY SMT, <1>5 DEF Kick
        <4> QED
          BY Zenon, <4>1 DEF Careful, Parked, At, JobLabels
      <3> QED
        BY SMTT(30), <3>1, <3>2
    <2>2. IoPast' => IoPast
      BY <1>5 DEF Kick
    <2> QED
      BY ZenonT(30), <1>5, <2>1, <2>2 DEF Kick
  <1>6. ASSUME NEW a \in Actors, JobPool(a) PROVE Handles'
    <2>1. \A x \in Threads \ {Io} : Careful(x) /\ IoPast' => Careful(x)'
      <3>1. \A x \in Threads \ {Io} : x # a /\ Careful(x) => Careful(x)'
        BY ZenonT(60), <1>6 DEF JobPool, WakePool
      <3>2. a \in Threads \ {Io} /\ Careful(a) /\ IoPast' => Careful(a)'
        BY ZenonT(30), <1>6 DEF JobPool, WakePool
      <3> QED
        BY SMT, <3>1, <3>2
    <2>2. IoPast' => IoPast
      BY SMT, <1>6 DEF JobPool, WakePool
    <2> QED
      BY <1>6, <2>1, <2>2 DEF JobPool, WakePool
  <1>7. ASSUME NEW a \in Actors, JobDone(a) PROVE Handles'
    <2>1. \A x \in Threads \ {Io} : Careful(x) /\ IoPast' => Careful(x)'
      <3>1. \A x \in Threads \ {Io} : x # a /\ Careful(x) => Careful(x)'
        BY ZenonT(30), <1>7 DEF JobDone
      <3>2. a \in Threads \ {Io} /\ Careful(a) /\ IoPast' => Careful(a)'
        BY ZenonT(30), <1>7 DEF JobDone
      <3> QED
        BY SMT, <3>1, <3>2
    <2>2. IoPast' => IoPast
      BY <1>7 DEF JobDone
    <2> QED
      BY ZenonT(30), <1>7, <2>1, <2>2 DEF JobDone
  <1>8. ASSUME NEW a \in Listener, Deliver(a) PROVE Handles'
    <2>1. \A x \in Threads \ {Io} : x # a /\ Careful(x) => Careful(x)'
      BY ZenonT(30), <1>8 DEF Deliver, Listener
    <2>2. a \in Threads \ {Io} /\ Careful(a) /\ IoPast' => Careful(a)'
      BY ZenonT(30), <1>8 DEF Deliver, Listener
    <2>3. IoPast' => IoPast
      BY ZenonT(30), <1>8 DEF Deliver, Listener
    <2>4. handles' = handles
      BY ZenonT(30), <1>8 DEF Deliver, Listener
    <2> HIDE DEF IoPast, Careful
    <2> QED
      BY ZenonT(30), <2>1, <2>2, <2>3, <2>4
  <1>9. ASSUME NEW t \in Threads, NEW d \in Threads, NEW ret \in Rets, PostSticky(t, d, ret) PROVE Handles'
    BY ZenonT(60), <1>9 DEF PostSticky, Calls, WakeThread
  <1>10. ASSUME NEW t \in Threads, NEW d \in Threads, NEW ret \in Rets, PostHosted(t, d, ret) PROVE Handles'
    BY ZenonT(60), <1>10 DEF PostHosted, Calls, WakeThread
  <1>11. ASSUME NEW t \in Threads, NEW d \in Threads, NEW ret \in Rets, Asks(t, d, ret) PROVE Handles'
    <2>1. \A x \in Threads \ {Io} : x # t /\ Careful(x) => Careful(x)'
      BY ZenonT(30), <1>11 DEF Asks, WakeThread
    <2>2. t \in Threads \ {Io} /\ Careful(t) /\ IoPast' => Careful(t)'
      BY SMTT(30), <1>11 DEF Asks, WakeThread
    <2>3. IoPast' => IoPast
      BY ZenonT(30), <1>11 DEF Asks, WakeThread
    <2>4. handles' = handles
      BY ZenonT(30), <1>11 DEF Asks, WakeThread
    <2> HIDE DEF IoPast, Careful
    <2> QED
      BY Zenon, <2>1, <2>2, <2>3, <2>4
  <1>12. ASSUME NEW t \in Threads, NEW ret \in Rets, PostShared(t, ret) PROVE Handles'
    BY ZenonT(60), <1>12 DEF PostShared, Calls, WakePool
  <1>13. ASSUME NEW t \in Threads, NEW ret \in Rets, PostOwn(t, ret) PROVE Handles'
    BY ZenonT(60), <1>13 DEF PostOwn, Calls, WakePool
  <1>14. ASSUME NEW t \in Threads, SelfWake(t) PROVE Handles'
    <2> HIDE DEF Handles, IoPast, Careful, Parked, Jobs, JobType, At, JobLabels, Rets
    <2>1. \A x \in Threads \ {Io} : x # t => pc'[x] = pc[x] /\ job'[x] = job[x]
      BY Zenon, <1>14 DEF SelfWake
    <2>2. pc[t] = "self" /\ pc'[t] \in {"selfinc", "scan"} /\ job'[t] = job[t]
      BY Zenon, <1>14 DEF SelfWake
    <2>3. Careful(t) => Careful(t)'
      BY Zenon, <2>2 DEF Careful, Parked, At, JobLabels
    <2>4. t # Io => pc'[Io] = pc[Io] /\ sleep_check_state'[Io] = sleep_check_state[Io]
      BY Zenon, <1>14 DEF SelfWake
    <2>5. handles' = handles /\ entered' = entered /\ active' = active
      BY Zenon, <1>14 DEF SelfWake
    <2>6. IoPast' => IoPast
      BY ZenonT(30), <2>2, <2>4, <2>5 DEF IoPast
    <2> QED
      BY Zenon, <2>1, <2>3, <2>5, <2>6, HandlesFrame
  <1>15. ASSUME NEW t \in Threads, SelfInc(t) PROVE Handles'
    BY SMTT(30), <1>15 DEF SelfInc
  <1>16. ASSUME NEW t \in Threads, Finds(t) PROVE Handles'
    BY ZenonT(60), <1>16 DEF Finds, Awakens
  <1>17. ASSUME NEW t \in Threads, StaysAsleep(t) PROVE Handles'
    BY ZenonT(30), <1>17 DEF StaysAsleep
  <1>18. ASSUME NEW t \in Threads, GivesUp(t) PROVE Handles'
    BY ZenonT(30), <1>18 DEF GivesUp, Awakens
  <1>19. ASSUME NEW t \in Threads, Block(t) PROVE Handles'
    <2> HIDE DEF Handles, IoPast, Careful, Parked, Jobs, JobType, At, JobLabels, Rets
    <2>1. \A x \in Threads : x # t => pc'[x] = pc[x]
      BY Zenon, <1>19 DEF Block
    <2>2. handles' = handles /\ counts' = counts /\ job' = job
      BY Zenon, <1>19 DEF Block
    <2>3. pc'[t] \in {"events", "pop"}
      BY Zenon, <1>19 DEF Block
    <2>4. IoPast' => IoPast
      BY Zenon, <1>19, <2>1, <2>2, <2>3 DEF IoPast, Block
    <2>5. Careful(t)'
      BY Zenon, <2>3 DEF Careful, Parked, At, JobLabels
    <2> QED
      BY Zenon, <2>1, <2>2, <2>4, <2>5, HandlesFrame
  <1>20. ASSUME NEW t \in Threads, Sleep(t) PROVE Handles'
    BY ZenonT(60), <1>20 DEF Sleep
  <1>21. ASSUME NEW t \in Threads, CountOut(t) PROVE Handles'
    <2>1. \A x \in Threads \ {Io} : x # t /\ Careful(x) => Careful(x)'
      BY ZenonT(30), <1>21 DEF CountOut
    <2>2. t \in Threads \ {Io} /\ Careful(t) /\ IoPast' => Careful(t)'
      BY ZenonT(30), <1>21 DEF CountOut
    <2>3. IoPast' => IoPast
      BY ZenonT(30), <1>21 DEF CountOut
    <2>4. handles' = handles
      BY ZenonT(30), <1>21 DEF CountOut
    <2> HIDE DEF IoPast, Careful
    <2> QED
      BY Zenon, <2>1, <2>2, <2>3, <2>4
  <1>22. ASSUME NEW t \in Threads, Last(t) PROVE Handles'
    BY ZenonT(60), <1>22 DEF Last, Signalled
  <1>23. ASSUME NEW t \in Threads, ParkWakes(t) PROVE Handles'
    BY ZenonT(30), <1>23 DEF ParkWakes
  <1>24. ASSUME Leaves PROVE Handles'
    BY ZenonT(30), <1>24 DEF Leaves, Awakens, Released
  <1>25. ASSUME NEW t \in Threads, NEW ret \in Rets, CallReturns(t, ret) PROVE Handles'
    BY ZenonT(30), <1>25 DEF CallReturns, Calls
  <1>26. ASSUME NEW t \in Threads, UvLock(t) PROVE Handles'
    <2> HIDE DEF Handles, IoPast, Careful, Parked, Jobs, JobType, At, JobLabels, Rets
    <2>1. \A x \in Threads \ {Io} : x # t => pc'[x] = pc[x] /\ job'[x] = job[x]
      BY SMTT(30), <1>26 DEF UvLock, TryUvLock, AwaitUvLock
    <2>2. pc'[t] \in {"arm", "armwait", "begin", "beginwait", "end", "exitwait", "enter", "loopwait",
                      "finalheld", "finalwait"}
      BY SMTT(30), <1>26 DEF UvLock, TryUvLock, AwaitUvLock
    <2>3. Careful(t)'
      BY Zenon, <2>2 DEF Careful, Parked, At, JobLabels
    <2>4. t # Io => pc'[Io] = pc[Io]
      BY SMT, <1>26 DEF UvLock, TryUvLock, AwaitUvLock
    <2>5. handles' = handles /\ entered' = entered /\ active' = active /\ sleep_check_state' = sleep_check_state
      BY Zenon, <1>26 DEF UvLock
    <2>6. IoPast' => IoPast
      BY Zenon, <2>2, <2>4, <2>5 DEF IoPast
    <2> QED
      BY Zenon, <2>1, <2>3, <2>5, <2>6, HandlesFrame
  <1>27. ASSUME NEW t \in Threads, Arm(t) PROVE Handles'
    BY SMT, <1>27 DEF Arm
  <1>28. ASSUME NEW t \in Threads, FindsNothing(t) PROVE Handles'
    BY ZenonT(30), <1>28 DEF FindsNothing
  <1>29. ASSUME NEW t \in Threads, Peek(t) PROVE Handles'
    BY ZenonT(30), <1>29 DEF Peek
  <1>30. ASSUME NEW t \in Threads, Spin(t) PROVE Handles'
    BY ZenonT(30), <1>30 DEF Spin
  <1>31. ASSUME NEW t \in Threads, LoopHeld(t) PROVE Handles'
    <2> HIDE DEF Handles, IoPast, Careful, Parked, Jobs, JobType, At, JobLabels, Rets
    <2>1. PICK v \in Threads : uv_owner = v
      BY Zenon, <1>31 DEF LoopHeld
    <2>2. At(v) \in HeldLabels /\ At(t) = "loop"
      BY Zenon, <1>31, <2>1 DEF LoopHeld, Owner, At, JobLabels
    <2>3. v # t
      BY Zenon, <2>2 DEF HeldLabels
    <2>4. pc'[v] = pc[v] /\ job'[v] = job[v] /\ t # Io /\ pc'[Io] = pc[Io]
      BY Zenon, <1>31, <2>3 DEF LoopHeld
    <2>5. CASE v = Io
      BY Zenon, <2>2, <2>4, <2>5 DEF Handles, IoPast, At, JobLabels, HeldLabels
    <2>6. CASE v # Io
      <3>1. Careful(v)
        BY Zenon, <2>2 DEF Careful, Parked, At, JobLabels, HeldLabels
      <3> QED
        BY Zenon, <2>4, <2>6, <3>1, CarefulFrame DEF Handles
    <2> QED
      BY <2>5, <2>6
  <1>32. ASSUME NEW t \in Threads, ParkWaits(t) PROVE Handles'
    <2> HIDE DEF Handles, IoPast, Careful, Parked, Jobs, JobType, At, JobLabels, Rets
    <2>1. \A x \in Threads : x # t => pc'[x] = pc[x]
      BY Zenon, <1>32 DEF ParkWaits
    <2>2. handles' = handles /\ sleep_check_state' = sleep_check_state /\ job' = job
      BY Zenon, <1>32 DEF ParkWaits
    <2>3. pc[t] = "park" /\ pc'[t] \in {"cond", "test"}
      BY Zenon, <1>32 DEF ParkWaits
    <2>4. IoPast' => IoPast
      BY Zenon, <1>32, <2>1, <2>2, <2>3 DEF IoPast, ParkWaits
    <2>5. ~Careful(t)
      BY Zenon, <2>3 DEF Careful, Parked
    <2> QED
      BY Zenon, <2>1, <2>2, <2>4, <2>5, HandlesFrame
  <1>33. ASSUME NEW t \in Threads, Spurious(t) PROVE Handles'
    BY ZenonT(60), <1>33 DEF Spurious
  <1>34. ASSUME ProcessEvents PROVE Handles'
    BY SMT, <1>34 DEF ProcessEvents
  <1>35. ASSUME Polled PROVE Handles'
    BY ZenonT(30), <1>35 DEF Polled
  <1>36. ASSUME WaitEmpty PROVE Handles'
    BY ZenonT(30), <1>36 DEF WaitEmpty
  <1>37. ASSUME WaitEmptyEnd PROVE Handles'
    BY ZenonT(30), <1>37 DEF WaitEmptyEnd
  <1>38. ASSUME EnterLoop PROVE Handles'
    BY ZenonT(30), <1>38 DEF EnterLoop
  <1>39. ASSUME YieldLock PROVE Handles'
    BY ZenonT(30), <1>39 DEF YieldLock
  <1>40. ASSUME LeaveUv PROVE Handles'
    BY SMT, <1>40 DEF LeaveUv
  <1>41. ASSUME EndFinalizer PROVE Handles'
    BY ZenonT(30), <1>41 DEF EndFinalizer
  <1>42. ASSUME AskAgain PROVE Handles'
    BY SMT, <1>42 DEF AskAgain
  <1>43. ASSUME Answer PROVE Handles'
    BY ZenonT(30), <1>43 DEF Answer, Alive
  <1>44. ASSUME DecidesCount PROVE Handles'
    BY SMT, <1>44 DEF DecidesCount
  <1>45. ASSUME CountIn PROVE Handles'
    BY ZenonT(30), <1>45 DEF CountIn
  <1>46. ASSUME Test PROVE Handles'
    BY ZenonT(30), <1>46 DEF Test
  <1> HIDE DEF Handles, IoPast, Careful, Parked, Jobs, JobType, NoJob, Goto, At, JobLabels, Rets, uv, loop, counts
  <1> QED
    BY ZenonT(40), <1>1, <1>2, <1>3, <1>4, <1>5, <1>6, <1>7, <1>8, <1>9, <1>10, <1>11, <1>12, <1>13, <1>14, <1>15,
         <1>16, <1>17, <1>18, <1>19, <1>20, <1>21, <1>22, <1>23, <1>24, <1>25, <1>26, <1>27, <1>28, <1>29, <1>30,
         <1>31, <1>32, <1>33, <1>34, <1>35, <1>36, <1>37, <1>38, <1>39, <1>40, <1>41, <1>42, <1>43, <1>44, <1>45,
         <1>46 DEF Cases, WakeCase, PostCase, SleepCase, QuietCase, LoopCase

\* Every step preserves Wakes: who waits on the condition is still to be woken.
LEMMA WakesStep ==
    ASSUME Types, Jobs, Sleeps, Wakes, Threads' = Threads, Cases
    PROVE  Wakes'
  <1> Io \in Threads
    BY IoThread
  <1> /\ pc \in [Actors -> Labels] /\ job \in [Actors -> JobType] /\ Threads \subseteq Actors
      /\ Null \notin Actors
      /\ sleep_check_state \in [Threads -> {"not_sleeping", "sleeping"}]
    BY ActorsAssumption DEF Types
  <1> USE DEF Wakes, Waking, Jobs, JobType, NoJob, Goto, JobLabels, Rets, counts
  <1>1. ASSUME NEW a \in Actors, NEW d \in job[a].cand, ScanHit(a, d) PROVE Wakes'
    BY SMT, <1>1 DEF ScanHit
  <1>2. ASSUME NEW a \in Actors, NEW d \in job[a].cand, ScanMiss(a, d) PROVE Wakes'
    BY <1>2 DEF ScanMiss
  <1>3. ASSUME NEW a \in Actors, Inc(a) PROVE Wakes'
    BY SMTT(30), <1>3 DEF Inc
  <1>4. ASSUME NEW a \in Actors, Signal(a) PROVE Wakes'
    BY SMTT(30), <1>4 DEF Signal, Signalled, SleepLockFree
  <1>5. ASSUME NEW a \in Actors, Kick(a) PROVE Wakes'
    BY SMT, <1>5 DEF Kick, Kicks
  <1>6. ASSUME NEW a \in Actors, JobPool(a) PROVE Wakes'
    BY SMT, <1>6 DEF JobPool, WakePool
  <1>7. ASSUME NEW a \in Actors, JobDone(a) PROVE Wakes'
    <2>1. \A x \in Threads : pc'[x] \in {"cond", "test"} => pc[x] \in {"cond", "test"}
      BY SMTT(30), <1>7 DEF JobDone
    <2>2. \A x \in Actors : pc[x] \in {"inc", "signal"} => pc'[x] = pc[x] /\ job'[x] = job[x]
      BY SMT, <1>7 DEF JobDone
    <2> QED
      BY Zenon, <1>7, <2>1, <2>2 DEF JobDone
  <1>8. ASSUME NEW a \in Listener, Deliver(a) PROVE Wakes'
    BY SMT, <1>8 DEF Deliver, Listener
  <1>9. ASSUME NEW t \in Threads, NEW d \in Threads, NEW ret \in Rets, PostSticky(t, d, ret) PROVE Wakes'
    BY SMT, <1>9 DEF PostSticky, Calls, WakeThread
  <1>10. ASSUME NEW t \in Threads, NEW d \in Threads, NEW ret \in Rets, PostHosted(t, d, ret) PROVE Wakes'
    BY SMT, <1>10 DEF PostHosted, Calls, WakeThread
  <1>11. ASSUME NEW t \in Threads, NEW d \in Threads, NEW ret \in Rets, Asks(t, d, ret) PROVE Wakes'
    BY SMT, <1>11 DEF Asks, WakeThread
  <1>12. ASSUME NEW t \in Threads, NEW ret \in Rets, PostShared(t, ret) PROVE Wakes'
    BY SMT, <1>12 DEF PostShared, Calls, WakePool
  <1>13. ASSUME NEW t \in Threads, NEW ret \in Rets, PostOwn(t, ret) PROVE Wakes'
    BY SMTT(30), <1>13 DEF PostOwn, Calls, WakePool
  <1>14. ASSUME NEW t \in Threads, SelfWake(t) PROVE Wakes'
    BY SMTT(30), <1>14 DEF SelfWake
  <1>15. ASSUME NEW t \in Threads, SelfInc(t) PROVE Wakes'
    BY SMTT(30), <1>15 DEF SelfInc
  <1>16. ASSUME NEW t \in Threads, Finds(t) PROVE Wakes'
    BY SMTT(30), <1>16 DEF Finds, Awakens
  <1>17. ASSUME NEW t \in Threads, StaysAsleep(t) PROVE Wakes'
    BY SMTT(30), <1>17 DEF StaysAsleep
  <1>18. ASSUME NEW t \in Threads, GivesUp(t) PROVE Wakes'
    BY SMTT(30), <1>18 DEF GivesUp, Awakens
  <1>19. ASSUME NEW t \in Threads, Block(t) PROVE Wakes'
    BY SMTT(30), <1>19 DEF Block
  <1>20. ASSUME NEW t \in Threads, Sleep(t) PROVE Wakes'
    BY SMTT(30), <1>20 DEF Sleep
  <1>21. ASSUME NEW t \in Threads, CountOut(t) PROVE Wakes'
    BY SMTT(30), <1>21 DEF CountOut
  <1>22. ASSUME NEW t \in Threads, Last(t) PROVE Wakes'
    <2>1. \A x \in Actors : pc[x] \in {"inc", "signal"} => pc'[x] = pc[x]
      BY SMTT(30), <1>22 DEF Last, Signalled
    <2>2. \A x \in Threads : pc'[x] \in {"cond", "test"} => pc[x] \in {"cond", "test"}
      BY SMTT(30), <1>22 DEF Last, Signalled
    <2> QED
      BY SMTT(30), <1>22, <2>1, <2>2 DEF Last
  <1>23. ASSUME NEW t \in Threads, ParkWakes(t) PROVE Wakes'
    BY SMTT(30), <1>23 DEF ParkWakes
  <1>24. ASSUME Leaves PROVE Wakes'
    BY SMTT(30), <1>24 DEF Leaves, Awakens, Released
  <1>25. ASSUME NEW t \in Threads, NEW l \in Labels, Drifts(t, l) PROVE Wakes'
    BY SMTT(30), <1>25 DEF Drifts
  <1>26. ASSUME CountIn PROVE Wakes'
    BY SMTT(30), <1>26 DEF CountIn
  <1> HIDE DEF Wakes, Waking, Jobs, JobType, NoJob, Goto, JobLabels, Rets, counts
  <1> QED
    BY ZenonT(40), <1>1, <1>2, <1>3, <1>4, <1>5, <1>6, <1>7, <1>8, <1>9, <1>10, <1>11, <1>12, <1>13, <1>14, <1>15,
         <1>16, <1>17, <1>18, <1>19, <1>20, <1>21, <1>22, <1>23, <1>24, <1>25, <1>26, CasesDrift DEF Cases, WakeCase,
         PostCase, SleepCase

\* Every step preserves SharedWork.
LEMMA SharedWorkStep ==
    ASSUME Types, Jobs, Sleeps, SharedWork, Threads' = Threads, Cases
    PROVE  SharedWork'
  <1> Io \in Threads
    BY SMT, IoThread
  <1> /\ pc \in [Actors -> Labels] /\ job \in [Actors -> JobType] /\ Threads \subseteq Actors
      /\ Null \notin Actors
      /\ sleep_check_state \in [Threads -> {"not_sleeping", "sleeping"}]
    BY ActorsAssumption DEF Types
  <1> USE DEF SharedWork, Dormant, Jobs, JobType, NoJob, Goto, At, JobLabels, Rets, counts, queues
  <1>1. ASSUME NEW a \in Actors, NEW d \in job[a].cand, ScanHit(a, d) PROVE SharedWork'
    BY SMT, <1>1 DEF ScanHit
  <1>2. ASSUME NEW a \in Actors, NEW d \in job[a].cand, ScanMiss(a, d) PROVE SharedWork'
    BY <1>2 DEF ScanMiss
  <1>3. ASSUME NEW a \in Actors, Inc(a) PROVE SharedWork'
    BY ZenonT(30), <1>3 DEF Inc
  <1>4. ASSUME NEW a \in Actors, Signal(a) PROVE SharedWork'
    BY SMT, <1>4 DEF Signal, Signalled
  <1>5. ASSUME NEW a \in Actors, Kick(a) PROVE SharedWork'
    BY ZenonT(30), <1>5 DEF Kick, Kicks
  <1>6. ASSUME NEW a \in Actors, JobPool(a) PROVE SharedWork'
    BY ZenonT(30), <1>6 DEF JobPool, WakePool
  <1>7. ASSUME NEW a \in Actors, JobDone(a) PROVE SharedWork'
    BY ZenonT(30), <1>7 DEF JobDone
  <1>8. ASSUME NEW a \in Listener, Deliver(a) PROVE SharedWork'
    BY ZenonT(30), <1>8 DEF Deliver, Listener
  <1>9. ASSUME NEW t \in Threads, NEW d \in Threads, NEW ret \in Rets, PostSticky(t, d, ret) PROVE SharedWork'
    BY SMT, <1>9 DEF PostSticky, Calls, WakeThread
  <1>10. ASSUME NEW t \in Threads, NEW d \in Threads, NEW ret \in Rets, PostHosted(t, d, ret)
         PROVE  SharedWork'
    BY SMT, <1>10 DEF PostHosted, Calls, WakeThread
  <1>11. ASSUME NEW t \in Threads, NEW d \in Threads, NEW ret \in Rets, Asks(t, d, ret) PROVE SharedWork'
    BY SMT, <1>11 DEF Asks, WakeThread
  <1>12. ASSUME NEW t \in Threads, NEW ret \in Rets, PostShared(t, ret) PROVE SharedWork'
    BY SMT, <1>12 DEF PostShared, Calls, WakePool
  <1>13. ASSUME NEW t \in Threads, NEW ret \in Rets, PostOwn(t, ret) PROVE SharedWork'
    BY SMTT(30), <1>13 DEF PostOwn, Calls, WakePool
  <1>14. ASSUME NEW t \in Threads, SelfWake(t) PROVE SharedWork'
    BY SMT, <1>14 DEF SelfWake
  <1>15. ASSUME NEW t \in Threads, SelfInc(t) PROVE SharedWork'
    BY ZenonT(30), <1>15 DEF SelfInc
  <1>16. ASSUME NEW t \in Threads, Finds(t) PROVE SharedWork'
    BY SMT, <1>16 DEF Finds, Awakens
  <1>17. ASSUME NEW t \in Threads, StaysAsleep(t) PROVE SharedWork'
    <2>1. multiq = 0
      BY SMT, <1>17, HostedFinite DEF StaysAsleep, CheckEmpty, InMultiq, HostedQueued, Types
    <2> QED
      BY ZenonT(40), <1>17, <2>1 DEF StaysAsleep
  <1>18. ASSUME NEW t \in Threads, GivesUp(t) PROVE SharedWork'
    BY ZenonT(30), <1>18 DEF GivesUp, Awakens
  <1>19. ASSUME NEW t \in Threads, Block(t) PROVE SharedWork'
    BY SMT, <1>19 DEF Block
  <1>20. ASSUME NEW t \in Threads, Sleep(t) PROVE SharedWork'
    BY Zenon, <1>20 DEF Sleep
  <1>21. ASSUME NEW t \in Threads, CountOut(t) PROVE SharedWork'
    BY ZenonT(30), <1>21 DEF CountOut
  <1>22. ASSUME NEW t \in Threads, Last(t) PROVE SharedWork'
    BY SMT, <1>22 DEF Last, Signalled
  <1>23. ASSUME NEW t \in Threads, ParkWakes(t) PROVE SharedWork'
    BY ZenonT(40), <1>23 DEF ParkWakes
  <1>24. ASSUME Leaves PROVE SharedWork'
    BY Zenon, <1>24 DEF Leaves, Awakens, Released
  <1>25. ASSUME NEW t \in Threads, NEW l \in Labels, Drifts(t, l) PROVE SharedWork'
    BY SMT, <1>25 DEF Drifts
  <1>26. ASSUME CountIn PROVE SharedWork'
    BY Zenon, <1>26 DEF CountIn
  <1> HIDE DEF SharedWork, Dormant, Jobs, JobType, NoJob, Goto, At, JobLabels, Rets, counts, queues
  <1> QED
    BY <1>1, <1>2, <1>3, <1>4, <1>5, <1>6, <1>7, <1>8, <1>9, <1>10, <1>11, <1>12, <1>13, <1>14, <1>15, <1>16, <1>17,
         <1>18, <1>19, <1>20, <1>21, <1>22, <1>23, <1>24, <1>25, <1>26, CasesDrift DEF Cases, WakeCase, PostCase, SleepCase

ScanKept(x) == MustScan(x) => MustScan(x)' \/ sleep_check_state'[x] # "sleeping"
DormantKept(x) == Dormant(x)' =>
    \/ Dormant(x) /\ (At(x)' # "pop" => At(x) # "pop" \/ workq[x] = 0)
    \/ At(x)' = "pop" /\ hosted[x] # "queued"
QueuesKept(x) == Dormant(x)' /\ ~MustScan(x)' =>
    /\ hosted[x] # "queued" => hosted'[x] # "queued"
    /\ workq[x] = 0 => workq'[x] = 0

\* A thread that must be scanned stays so until it is.
LEMMA ScansKept ==
    ASSUME Types, Jobs, Sleeps, Threads' = Threads, Cases
    PROVE  \A x \in Threads : ScanKept(x)
  <1> Io \in Threads
    BY IoThread
  <1> /\ pc \in [Actors -> Labels] /\ job \in [Actors -> JobType] /\ Threads \subseteq Actors
      /\ sleep_check_state \in [Threads -> {"not_sleeping", "sleeping"}]
    BY ActorsAssumption DEF Types
  <1> USE DEF ScanKept, MustScan, JobType, NoJob, Goto, counts
  <1>1. ASSUME NEW a \in Actors, NEW d \in job[a].cand, ScanHit(a, d) PROVE \A x \in Threads : ScanKept(x)
    BY SMTT(30), <1>1 DEF ScanHit
  <1>2. ASSUME NEW a \in Actors, NEW d \in job[a].cand, ScanMiss(a, d) PROVE \A x \in Threads : ScanKept(x)
    BY SMT, <1>2 DEF ScanMiss
  <1>3. ASSUME NEW a \in Actors, Inc(a) PROVE \A x \in Threads : ScanKept(x)
    BY <1>3 DEF Inc
  <1>4. ASSUME NEW a \in Actors, Signal(a) PROVE \A x \in Threads : ScanKept(x)
    BY <1>4 DEF Signal, Signalled
  <1>5. ASSUME NEW a \in Actors, Kick(a) PROVE \A x \in Threads : ScanKept(x)
    BY <1>5 DEF Kick, Kicks
  <1>6. ASSUME NEW a \in Actors, JobPool(a) PROVE \A x \in Threads : ScanKept(x)
    BY <1>6 DEF JobPool, WakePool
  <1>7. ASSUME NEW a \in Actors, JobDone(a) PROVE \A x \in Threads : ScanKept(x)
    BY <1>7 DEF JobDone
  <1>8. ASSUME NEW a \in Listener, Deliver(a) PROVE \A x \in Threads : ScanKept(x)
    BY <1>8 DEF Deliver, Listener
  <1>9. ASSUME NEW t \in Threads, NEW d \in Threads, NEW ret \in Rets, PostSticky(t, d, ret)
        PROVE  \A x \in Threads : ScanKept(x)
    BY <1>9 DEF PostSticky, Calls, WakeThread
  <1>10. ASSUME NEW t \in Threads, NEW d \in Threads, NEW ret \in Rets, PostHosted(t, d, ret)
         PROVE  \A x \in Threads : ScanKept(x)
    BY <1>10 DEF PostHosted, Calls, WakeThread
  <1>11. ASSUME NEW t \in Threads, NEW d \in Threads, NEW ret \in Rets, Asks(t, d, ret)
         PROVE  \A x \in Threads : ScanKept(x)
    BY <1>11 DEF Asks, WakeThread
  <1>12. ASSUME NEW t \in Threads, NEW ret \in Rets, PostShared(t, ret) PROVE \A x \in Threads : ScanKept(x)
    BY <1>12 DEF PostShared, Calls, WakePool
  <1>13. ASSUME NEW t \in Threads, NEW ret \in Rets, PostOwn(t, ret) PROVE \A x \in Threads : ScanKept(x)
    BY <1>13 DEF PostOwn, Calls, WakePool
  <1>14. ASSUME NEW t \in Threads, SelfWake(t) PROVE \A x \in Threads : ScanKept(x)
    BY <1>14 DEF SelfWake
  <1>15. ASSUME NEW t \in Threads, SelfInc(t) PROVE \A x \in Threads : ScanKept(x)
    BY <1>15 DEF SelfInc
  <1>16. ASSUME NEW t \in Threads, Finds(t) PROVE \A x \in Threads : ScanKept(x)
    BY <1>16 DEF Finds, Awakens
  <1>17. ASSUME NEW t \in Threads, StaysAsleep(t) PROVE \A x \in Threads : ScanKept(x)
    BY <1>17 DEF StaysAsleep
  <1>18. ASSUME NEW t \in Threads, GivesUp(t) PROVE \A x \in Threads : ScanKept(x)
    BY <1>18 DEF GivesUp, Awakens
  <1>19. ASSUME NEW t \in Threads, Block(t) PROVE \A x \in Threads : ScanKept(x)
    BY <1>19 DEF Block
  <1>20. ASSUME NEW t \in Threads, Sleep(t) PROVE \A x \in Threads : ScanKept(x)
    BY <1>20 DEF Sleep
  <1>21. ASSUME NEW t \in Threads, CountOut(t) PROVE \A x \in Threads : ScanKept(x)
    BY <1>21 DEF CountOut
  <1>22. ASSUME NEW t \in Threads, Last(t) PROVE \A x \in Threads : ScanKept(x)
    BY <1>22 DEF Last, Signalled
  <1>23. ASSUME NEW t \in Threads, ParkWakes(t) PROVE \A x \in Threads : ScanKept(x)
    BY <1>23 DEF ParkWakes
  <1>24. ASSUME Leaves PROVE \A x \in Threads : ScanKept(x)
    BY <1>24 DEF Leaves, Awakens, Released
  <1>25. ASSUME NEW t \in Threads, NEW l \in Labels, Drifts(t, l) PROVE \A x \in Threads : ScanKept(x)
    BY Zenon, <1>25 DEF Drifts, JobLabels
  <1>26. ASSUME CountIn PROVE \A x \in Threads : ScanKept(x)
    BY <1>26 DEF CountIn
  <1> HIDE DEF ScanKept, MustScan, JobType, NoJob, Goto, counts
  <1> QED
    BY ZenonT(40), <1>1, <1>2, <1>3, <1>4, <1>5, <1>6, <1>7, <1>8, <1>9, <1>10, <1>11, <1>12, <1>13, <1>14, <1>15,
         <1>16, <1>17, <1>18, <1>19, <1>20, <1>21, <1>22, <1>23, <1>24, <1>25, <1>26, CasesDrift DEF Cases, WakeCase,
         PostCase, SleepCase

\* A thread becomes dormant only after it looked at its queues.
LEMMA DormantsKept ==
    ASSUME Types, Jobs, Sleeps, Threads' = Threads, Cases
    PROVE  \A x \in Threads : DormantKept(x)
  <1> Io \in Threads
    BY SMTT(30), IoThread
  <1> /\ pc \in [Actors -> Labels] /\ job \in [Actors -> JobType] /\ Threads \subseteq Actors
      /\ sleep_check_state \in [Threads -> {"not_sleeping", "sleeping"}]
    BY ActorsAssumption DEF Types
  <1> USE DEF DormantKept, Dormant, Jobs, JobType, NoJob, Goto, At, JobLabels, Rets, counts
  <1>1. ASSUME NEW a \in Actors, NEW d \in job[a].cand, ScanHit(a, d) PROVE \A x \in Threads : DormantKept(x)
    BY SMT, <1>1 DEF ScanHit
  <1>2. ASSUME NEW a \in Actors, NEW d \in job[a].cand, ScanMiss(a, d) PROVE \A x \in Threads : DormantKept(x)
    BY <1>2 DEF ScanMiss
  <1>3. ASSUME NEW a \in Actors, Inc(a) PROVE \A x \in Threads : DormantKept(x)
    BY ZenonT(40), <1>3 DEF Inc
  <1>4. ASSUME NEW a \in Actors, Signal(a) PROVE \A x \in Threads : DormantKept(x)
    BY SMT, <1>4 DEF Signal, Signalled
  <1>5. ASSUME NEW a \in Actors, Kick(a) PROVE \A x \in Threads : DormantKept(x)
    BY <1>5 DEF Kick, Kicks
  <1>6. ASSUME NEW a \in Actors, JobPool(a) PROVE \A x \in Threads : DormantKept(x)
    BY SMT, <1>6 DEF JobPool, WakePool
  <1>7. ASSUME NEW a \in Actors, JobDone(a) PROVE \A x \in Threads : DormantKept(x)
    BY ZenonT(40), <1>7 DEF JobDone
  <1>8. ASSUME NEW a \in Listener, Deliver(a) PROVE \A x \in Threads : DormantKept(x)
    BY ZenonT(40), <1>8 DEF Deliver, Listener
  <1>9. ASSUME NEW t \in Threads, NEW d \in Threads, NEW ret \in Rets, PostSticky(t, d, ret)
        PROVE  \A x \in Threads : DormantKept(x)
    BY ZenonT(40), <1>9 DEF PostSticky, Calls, WakeThread
  <1>10. ASSUME NEW t \in Threads, NEW d \in Threads, NEW ret \in Rets, PostHosted(t, d, ret)
         PROVE  \A x \in Threads : DormantKept(x)
    BY ZenonT(40), <1>10 DEF PostHosted, Calls, WakeThread
  <1>11. ASSUME NEW t \in Threads, NEW d \in Threads, NEW ret \in Rets, Asks(t, d, ret)
         PROVE  \A x \in Threads : DormantKept(x)
    BY <1>11 DEF Asks, WakeThread
  <1>12. ASSUME NEW t \in Threads, NEW ret \in Rets, PostShared(t, ret)
         PROVE  \A x \in Threads : DormantKept(x)
    BY <1>12 DEF PostShared, Calls, WakePool
  <1>13. ASSUME NEW t \in Threads, NEW ret \in Rets, PostOwn(t, ret) PROVE \A x \in Threads : DormantKept(x)
    BY ZenonT(40), <1>13 DEF PostOwn, Calls, WakePool
  <1>14. ASSUME NEW t \in Threads, SelfWake(t) PROVE \A x \in Threads : DormantKept(x)
    BY SMT, <1>14 DEF SelfWake
  <1>15. ASSUME NEW t \in Threads, SelfInc(t) PROVE \A x \in Threads : DormantKept(x)
    BY ZenonT(40), <1>15 DEF SelfInc
  <1>16. ASSUME NEW t \in Threads, Finds(t) PROVE \A x \in Threads : DormantKept(x)
    BY SMT, <1>16 DEF Finds, Awakens
  <1>17. ASSUME NEW t \in Threads, StaysAsleep(t) PROVE \A x \in Threads : DormantKept(x)
    BY ZenonT(40), <1>17, HostedNone DEF StaysAsleep
  <1>18. ASSUME NEW t \in Threads, GivesUp(t) PROVE \A x \in Threads : DormantKept(x)
    BY ZenonT(30), <1>18 DEF GivesUp, Awakens
  <1>19. ASSUME NEW t \in Threads, Block(t) PROVE \A x \in Threads : DormantKept(x)
    BY SMT, <1>19 DEF Block
  <1>20. ASSUME NEW t \in Threads, Sleep(t) PROVE \A x \in Threads : DormantKept(x)
    BY ZenonT(40), <1>20 DEF Sleep
  <1>21. ASSUME NEW t \in Threads, CountOut(t) PROVE \A x \in Threads : DormantKept(x)
    BY ZenonT(40), <1>21 DEF CountOut
  <1>22. ASSUME NEW t \in Threads, Last(t) PROVE \A x \in Threads : DormantKept(x)
    BY SMT, <1>22 DEF Last, Signalled
  <1>23. ASSUME NEW t \in Threads, ParkWakes(t) PROVE \A x \in Threads : DormantKept(x)
    BY <1>23 DEF ParkWakes
  <1>24. ASSUME Leaves PROVE \A x \in Threads : DormantKept(x)
    BY ZenonT(40), <1>24 DEF Leaves, Awakens, Released
  <1>25. ASSUME NEW t \in Threads, NEW l \in Labels, Drifts(t, l) PROVE \A x \in Threads : DormantKept(x)
    BY SMT, <1>25 DEF Drifts
  <1>26. ASSUME CountIn PROVE \A x \in Threads : DormantKept(x)
    BY ZenonT(40), <1>26 DEF CountIn
  <1> HIDE DEF DormantKept, Dormant, Jobs, JobType, NoJob, Goto, At, JobLabels, Rets, counts
  <1> QED
    BY <1>1, <1>2, <1>3, <1>4, <1>5, <1>6, <1>7, <1>8, <1>9, <1>10, <1>11, <1>12, <1>13, <1>14, <1>15, <1>16, <1>17,
         <1>18, <1>19, <1>20, <1>21, <1>22, <1>23, <1>24, <1>25, <1>26, CasesDrift DEF Cases, WakeCase, PostCase, SleepCase

\* A thread gets work only together with a scan that wakes it.
LEMMA AllQueuesKept ==
    ASSUME Types, Jobs, Sleeps, Threads' = Threads, Cases
    PROVE  \A x \in Threads : QueuesKept(x)
  <1> Io \in Threads
    BY SMT, IoThread
  <1> /\ pc \in [Actors -> Labels] /\ job \in [Actors -> JobType] /\ Threads \subseteq Actors
      /\ sleep_check_state \in [Threads -> {"not_sleeping", "sleeping"}]
      /\ workq \in [Threads -> 0..MaxQueue]
      /\ hosted \in [Threads -> {"none", "blocked", "queued"}]
    BY ActorsAssumption DEF Types
  <1> USE DEF QueuesKept, queues
  <1>1. ASSUME NEW a \in Actors, NEW d \in job[a].cand, ScanHit(a, d) PROVE \A x \in Threads : QueuesKept(x)
    BY <1>1 DEF ScanHit
  <1>2. ASSUME NEW a \in Actors, NEW d \in job[a].cand, ScanMiss(a, d) PROVE \A x \in Threads : QueuesKept(x)
    BY <1>2 DEF ScanMiss
  <1>3. ASSUME NEW a \in Actors, Inc(a) PROVE \A x \in Threads : QueuesKept(x)
    BY <1>3 DEF Inc
  <1>4. ASSUME NEW a \in Actors, Signal(a) PROVE \A x \in Threads : QueuesKept(x)
    BY <1>4 DEF Signal, Signalled
  <1>5. ASSUME NEW a \in Actors, Kick(a) PROVE \A x \in Threads : QueuesKept(x)
    BY <1>5 DEF Kick, Kicks
  <1>6. ASSUME NEW a \in Actors, JobPool(a) PROVE \A x \in Threads : QueuesKept(x)
    BY <1>6 DEF JobPool, WakePool
  <1>7. ASSUME NEW a \in Actors, JobDone(a) PROVE \A x \in Threads : QueuesKept(x)
    BY <1>7 DEF JobDone
  <1>8. ASSUME NEW a \in Listener, Deliver(a) PROVE \A x \in Threads : QueuesKept(x)
    BY <1>8 DEF Deliver, Listener
  <1>9. ASSUME NEW t \in Threads, NEW d \in Threads, NEW ret \in Rets, PostSticky(t, d, ret)
        PROVE  \A x \in Threads : QueuesKept(x)
    BY SMT, <1>9 DEF PostSticky, WakeThread, Dormant, MustScan, NoJob, Goto
  <1>10. ASSUME NEW t \in Threads, NEW d \in Threads, NEW ret \in Rets, PostHosted(t, d, ret)
         PROVE  \A x \in Threads : QueuesKept(x)
    BY SMT, <1>10 DEF PostHosted, WakeThread, Dormant, MustScan, NoJob, Goto
  <1>11. ASSUME NEW t \in Threads, NEW d \in Threads, NEW ret \in Rets, Asks(t, d, ret)
         PROVE  \A x \in Threads : QueuesKept(x)
    BY <1>11 DEF Asks, WakeThread
  <1>12. ASSUME NEW t \in Threads, NEW ret \in Rets, PostShared(t, ret) PROVE \A x \in Threads : QueuesKept(x)
    BY <1>12 DEF PostShared, Calls, WakePool
  <1>13. ASSUME NEW t \in Threads, NEW ret \in Rets, PostOwn(t, ret) PROVE \A x \in Threads : QueuesKept(x)
    BY <1>13 DEF PostOwn, WakePool, Dormant, Goto
  <1>14. ASSUME NEW t \in Threads, SelfWake(t) PROVE \A x \in Threads : QueuesKept(x)
    BY <1>14 DEF SelfWake
  <1>15. ASSUME NEW t \in Threads, SelfInc(t) PROVE \A x \in Threads : QueuesKept(x)
    BY <1>15 DEF SelfInc
  <1>16. ASSUME NEW t \in Threads, Finds(t) PROVE \A x \in Threads : QueuesKept(x)
    BY <1>16 DEF Finds, Dormant, Awakens
  <1>17. ASSUME NEW t \in Threads, StaysAsleep(t) PROVE \A x \in Threads : QueuesKept(x)
    BY <1>17 DEF StaysAsleep
  <1>18. ASSUME NEW t \in Threads, GivesUp(t) PROVE \A x \in Threads : QueuesKept(x)
    BY <1>18 DEF GivesUp, Awakens
  <1>19. ASSUME NEW t \in Threads, Block(t) PROVE \A x \in Threads : QueuesKept(x)
    BY <1>19 DEF Block
  <1>20. ASSUME NEW t \in Threads, Sleep(t) PROVE \A x \in Threads : QueuesKept(x)
    BY <1>20 DEF Sleep
  <1>21. ASSUME NEW t \in Threads, CountOut(t) PROVE \A x \in Threads : QueuesKept(x)
    BY <1>21 DEF CountOut
  <1>22. ASSUME NEW t \in Threads, Last(t) PROVE \A x \in Threads : QueuesKept(x)
    BY <1>22 DEF Last, Signalled
  <1>23. ASSUME NEW t \in Threads, ParkWakes(t) PROVE \A x \in Threads : QueuesKept(x)
    BY <1>23 DEF ParkWakes
  <1>24. ASSUME Leaves PROVE \A x \in Threads : QueuesKept(x)
    BY <1>24 DEF Leaves, Awakens, Released
  <1>25. ASSUME NEW t \in Threads, NEW l \in Labels, Drifts(t, l) PROVE \A x \in Threads : QueuesKept(x)
    BY <1>25 DEF Drifts
  <1>26. ASSUME CountIn PROVE \A x \in Threads : QueuesKept(x)
    BY <1>26 DEF CountIn
  <1> HIDE DEF QueuesKept, queues
  <1> QED
    BY ZenonT(40), <1>1, <1>2, <1>3, <1>4, <1>5, <1>6, <1>7, <1>8, <1>9, <1>10, <1>11, <1>12, <1>13, <1>14, <1>15,
         <1>16, <1>17, <1>18, <1>19, <1>20, <1>21, <1>22, <1>23, <1>24, <1>25, <1>26, CasesDrift DEF Cases, WakeCase,
         PostCase, SleepCase

\* Every step preserves OwnWork.
LEMMA OwnWorkStep ==
    ASSUME Types, Jobs, Sleeps, OwnWork, Threads' = Threads, Cases
    PROVE  OwnWork'
  <1>1. ASSUME NEW x \in Threads, Dormant(x)', ~MustScan(x)'
        PROVE  hosted'[x] # "queued" /\ (At(x)' # "pop" => workq'[x] = 0)
    <2>1. ~MustScan(x) /\ QueuesKept(x) /\ DormantKept(x)
      BY <1>1, ScansKept, DormantsKept, AllQueuesKept DEF ScanKept, Dormant
    <2> QED
      BY <1>1, <2>1 DEF QueuesKept, DormantKept, OwnWork
  <1> QED
    BY <1>1 DEF OwnWork

\* What CountExact counts.
Counted == {t \in Threads : ~Parked(t)}
InFlight == {t \in Threads : slept[t] /\ sleep_check_state[t] = "not_sleeping"}
Uncounted == {a \in Actors : pc[a] \in {"inc", "selfinc"}}

\* The three sets that CountExact counts are finite.
LEMMA CountFacts ==
    Types => /\ IsFiniteSet(Counted) /\ IsFiniteSet(InFlight) /\ IsFiniteSet(Uncounted)
             /\ Cardinality(Counted) \in Nat /\ Cardinality(InFlight) \in Nat /\ Cardinality(Uncounted) \in Nat
             /\ n_threads_running \in Int
  <1> SUFFICES ASSUME Types
               PROVE  IsFiniteSet(Counted) /\ IsFiniteSet(InFlight) /\ IsFiniteSet(Uncounted)
    BY FS_CardinalityType DEF Types
  <1>1. Counted \subseteq Threads /\ InFlight \subseteq Threads /\ Uncounted \subseteq Actors
    BY DEF Counted, InFlight, Uncounted
  <1> QED
    BY <1>1, ThreadsFinite, ActorsAssumption, FS_Subset

\* How one element more or less changes the cardinality.
LEMMA OneMore ==
    ASSUME NEW S, NEW x, IsFiniteSet(S), x \notin S
    PROVE  Cardinality(S \cup {x}) = Cardinality(S) + 1
  BY FS_AddElement
\* Removing a member takes one off the count.
LEMMA OneLess ==
    ASSUME NEW S, NEW x \in S, IsFiniteSet(S)
    PROVE  Cardinality(S \ {x}) = Cardinality(S) - 1
  BY FS_RemoveElement

\* How a step changes the count and the sets.
Changes(n, cs, fs, us) ==
    n_threads_running' = n /\ Counted' = cs /\ InFlight' = fs /\ Uncounted' = us

\* The ways in which a step changes them.
CountChange ==
    \/ Changes(n_threads_running, Counted, InFlight, Uncounted)
    \/ \E d \in Threads \ InFlight, a \in Actors \ Uncounted :
          Changes(n_threads_running, Counted, InFlight \cup {d}, Uncounted \cup {a})
    \/ \E a \in Uncounted : Changes(n_threads_running + 1, Counted, InFlight, Uncounted \ {a})
    \/ \E t \in InFlight : Changes(n_threads_running - 1, Counted, InFlight \ {t}, Uncounted)
    \/ \E t \in Counted : Changes(n_threads_running - 1, Counted \ {t}, InFlight, Uncounted)
    \/ \E t \in InFlight \ Counted : Changes(n_threads_running, Counted \cup {t}, InFlight \ {t}, Uncounted)
    \/ \E t \in Threads \ Counted : Changes(n_threads_running + 1, Counted \cup {t}, InFlight, Uncounted)

\* Each way of changing the three sets keeps the count exact.
LEMMA CountChanges == ASSUME Types, CountExact, CountChange PROVE CountExact'
  <1> DEFINE Exact(n, c, f, u) == n = c + f - u
             C == Cardinality(Counted)
             F == Cardinality(InFlight)
             U == Cardinality(Uncounted)
  <1> /\ IsFiniteSet(Counted) /\ IsFiniteSet(InFlight) /\ IsFiniteSet(Uncounted)
      /\ C \in Nat /\ F \in Nat /\ U \in Nat /\ n_threads_running \in Int
    BY CountFacts
  <1> HIDE DEF C, F, U
  <1>1. Exact(n_threads_running, C, F, U)
    BY DEF CountExact, Counted, InFlight, Uncounted, C, F, U
  <1> USE <1>1
  <1>2. \A n, cs, fs, us : Changes(n, cs, fs, us) /\ Exact(n, Cardinality(cs), Cardinality(fs), Cardinality(us))
                           => CountExact'
    BY DEF CountExact, Counted, InFlight, Uncounted, Changes
  <1> USE <1>2
  <1>3. CASE Changes(n_threads_running, Counted, InFlight, Uncounted)
    BY <1>3 DEF C, F, U
  <1>4. ASSUME NEW d \in Threads \ InFlight, NEW a \in Actors \ Uncounted,
               Changes(n_threads_running, Counted, InFlight \cup {d}, Uncounted \cup {a})
        PROVE  CountExact'
    <2>1. Exact(n_threads_running, C, F + 1, U + 1)
      BY SMT
    <2> QED
      BY <1>4, <2>1, OneMore DEF C, F, U
  <1>5. ASSUME NEW a \in Uncounted, Changes(n_threads_running + 1, Counted, InFlight, Uncounted \ {a})
        PROVE  CountExact'
    <2>1. Exact(n_threads_running + 1, C, F, U - 1)
      BY SMT
    <2> QED
      BY <1>5, <2>1, OneLess DEF C, F, U
  <1>6. ASSUME NEW t \in InFlight, Changes(n_threads_running - 1, Counted, InFlight \ {t}, Uncounted)
        PROVE  CountExact'
    <2>1. Exact(n_threads_running - 1, C, F - 1, U)
      BY SMT
    <2> QED
      BY <1>6, <2>1, OneLess DEF C, F, U
  <1>7. ASSUME NEW t \in Counted, Changes(n_threads_running - 1, Counted \ {t}, InFlight, Uncounted)
        PROVE  CountExact'
    <2>1. Exact(n_threads_running - 1, C - 1, F, U)
      BY SMT
    <2> QED
      BY <1>7, <2>1, OneLess DEF C, F, U
  <1>8. ASSUME NEW t \in InFlight \ Counted,
               Changes(n_threads_running, Counted \cup {t}, InFlight \ {t}, Uncounted)
        PROVE  CountExact'
    <2>1. Exact(n_threads_running, C + 1, F - 1, U)
      BY SMT
    <2> QED
      BY ZenonT(40), <1>8, <2>1, OneMore, OneLess DEF C, F, U
  <1>9. ASSUME NEW t \in Threads \ Counted, Changes(n_threads_running + 1, Counted \cup {t}, InFlight, Uncounted)
        PROVE  CountExact'
    <2>1. Exact(n_threads_running + 1, C + 1, F, U)
      BY SMT
    <2> QED
      BY <1>9, <2>1, OneMore DEF C, F, U
  <1> QED
    BY ZenonT(40), <1>3, <1>4, <1>5, <1>6, <1>7, <1>8, <1>9 DEF CountChange

\* Every step changes them in one of these ways, so the count stays exact.
LEMMA CountStep ==
    ASSUME Types, Jobs, Sleeps, CountExact, Threads' = Threads, Cases
    PROVE  CountExact'
  <1> Io \in Threads
    BY IoThread
  <1> /\ pc \in [Actors -> Labels] /\ job \in [Actors -> JobType] /\ Threads \subseteq Actors
      /\ sleep_check_state \in [Threads -> {"not_sleeping", "sleeping"}]
      /\ slept \in [Threads -> BOOLEAN] /\ n_threads_running \in Int
    BY ActorsAssumption DEF Types
  <1> USE DEF Changes, Counted, InFlight, Uncounted, Parked, Goto, counts
  <1>1. ASSUME NEW a \in Actors, NEW d \in job[a].cand, ScanHit(a, d) PROVE CountExact'
    <2>1. d \in Threads \ InFlight /\ a \in Actors \ Uncounted
          /\ Changes(n_threads_running, Counted, InFlight \cup {d}, Uncounted \cup {a})
      BY SMT, <1>1 DEF ScanHit, Sleeps, JobType
    <2> HIDE DEF Changes, Counted, InFlight, Uncounted
    <2> QED
      BY <2>1, CountChanges DEF CountChange
  <1>2. ASSUME NEW a \in Actors, NEW d \in job[a].cand, ScanMiss(a, d) PROVE CountExact'
    <2>1. Changes(n_threads_running, Counted, InFlight, Uncounted)
      BY <1>2 DEF ScanMiss
    <2> HIDE DEF Changes, Counted, InFlight, Uncounted
    <2> QED
      BY <2>1, CountChanges DEF CountChange
  <1>3. ASSUME NEW a \in Actors, Inc(a) PROVE CountExact'
    <2>1. a \in Uncounted /\ Changes(n_threads_running + 1, Counted, InFlight, Uncounted \ {a})
      BY <1>3 DEF Inc
    <2> HIDE DEF Changes, Counted, InFlight, Uncounted
    <2> QED
      BY <2>1, CountChanges DEF CountChange
  <1>4. ASSUME NEW a \in Actors, Signal(a) PROVE CountExact'
    <2>1. Changes(n_threads_running, Counted, InFlight, Uncounted)
      BY SMTT(30), <1>4 DEF Signal, Signalled, Jobs, JobLabels, Rets, Sleeps, At, SleptLabels
    <2> HIDE DEF Changes, Counted, InFlight, Uncounted
    <2> QED
      BY ZenonT(40), <2>1, CountChanges DEF CountChange
  <1>5. ASSUME NEW a \in Actors, Kick(a) PROVE CountExact'
    <2>1. Changes(n_threads_running, Counted, InFlight, Uncounted)
      BY <1>5 DEF Kick, Kicks
    <2> HIDE DEF Changes, Counted, InFlight, Uncounted
    <2> QED
      BY <2>1, CountChanges DEF CountChange
  <1>6. ASSUME NEW a \in Actors, JobPool(a) PROVE CountExact'
    <2>1. Changes(n_threads_running, Counted, InFlight, Uncounted)
      BY ZenonT(40), <1>6 DEF JobPool, WakePool
    <2> HIDE DEF Changes, Counted, InFlight, Uncounted
    <2> QED
      BY <2>1, CountChanges DEF CountChange
  <1>7. ASSUME NEW a \in Actors, JobDone(a) PROVE CountExact'
    <2>1. Changes(n_threads_running, Counted, InFlight, Uncounted)
      BY SMT, <1>7 DEF JobDone, Jobs, JobLabels, Rets, Sleeps, At, SleptLabels
    <2> HIDE DEF Changes, Counted, InFlight, Uncounted
    <2> QED
      BY <2>1, CountChanges DEF CountChange
  <1>8. ASSUME NEW a \in Listener, Deliver(a) PROVE CountExact'
    <2>1. Changes(n_threads_running, Counted, InFlight, Uncounted)
      BY <1>8 DEF Deliver, Listener, Listener
    <2> HIDE DEF Changes, Counted, InFlight, Uncounted
    <2> QED
      BY <2>1, CountChanges DEF CountChange
  <1>9. ASSUME NEW t \in Threads, NEW d \in Threads, NEW ret \in Rets, PostSticky(t, d, ret) PROVE CountExact'
    <2>1. Changes(n_threads_running, Counted, InFlight, Uncounted)
      BY ZenonT(40), <1>9 DEF PostSticky, Calls, WakeThread
    <2> HIDE DEF Changes, Counted, InFlight, Uncounted
    <2> QED
      BY <2>1, CountChanges DEF CountChange
  <1>10. ASSUME NEW t \in Threads, NEW d \in Threads, NEW ret \in Rets, PostHosted(t, d, ret)
         PROVE  CountExact'
    <2>1. Changes(n_threads_running, Counted, InFlight, Uncounted)
      BY <1>10 DEF PostHosted, Calls, WakeThread
    <2> HIDE DEF Changes, Counted, InFlight, Uncounted
    <2> QED
      BY <2>1, CountChanges DEF CountChange
  <1>11. ASSUME NEW t \in Threads, NEW d \in Threads, NEW ret \in Rets, Asks(t, d, ret) PROVE CountExact'
    <2>1. Changes(n_threads_running, Counted, InFlight, Uncounted)
      BY <1>11 DEF Asks, WakeThread
    <2> HIDE DEF Changes, Counted, InFlight, Uncounted
    <2> QED
      BY <2>1, CountChanges DEF CountChange
  <1>12. ASSUME NEW t \in Threads, NEW ret \in Rets, PostShared(t, ret) PROVE CountExact'
    <2>1. Changes(n_threads_running, Counted, InFlight, Uncounted)
      BY <1>12 DEF PostShared, Calls, WakePool
    <2> HIDE DEF Changes, Counted, InFlight, Uncounted
    <2> QED
      BY <2>1, CountChanges DEF CountChange
  <1>13. ASSUME NEW t \in Threads, NEW ret \in Rets, PostOwn(t, ret) PROVE CountExact'
    <2>1. Changes(n_threads_running, Counted, InFlight, Uncounted)
      BY <1>13 DEF PostOwn, Calls, WakePool
    <2> HIDE DEF Changes, Counted, InFlight, Uncounted
    <2> QED
      BY <2>1, CountChanges DEF CountChange
  <1>14. ASSUME NEW t \in Threads, SelfWake(t) PROVE CountExact'
    <2>1. \/ Changes(n_threads_running, Counted, InFlight, Uncounted)
          \/ /\ t \in Threads \ InFlight /\ t \in Actors \ Uncounted
             /\ Changes(n_threads_running, Counted, InFlight \cup {t}, Uncounted \cup {t})
      BY SMT, <1>14 DEF SelfWake, Sleeps
    <2> HIDE DEF Changes, Counted, InFlight, Uncounted
    <2> QED
      BY ZenonT(40), <2>1, CountChanges DEF CountChange
  <1>15. ASSUME NEW t \in Threads, SelfInc(t) PROVE CountExact'
    <2>1. t \in Uncounted /\ Changes(n_threads_running + 1, Counted, InFlight, Uncounted \ {t})
      BY <1>15 DEF SelfInc
    <2> HIDE DEF Changes, Counted, InFlight, Uncounted
    <2> QED
      BY <2>1, CountChanges DEF CountChange
  <1>16. ASSUME NEW t \in Threads, Finds(t) PROVE CountExact'
    <2>1. \/ Changes(n_threads_running, Counted, InFlight, Uncounted)
          \/ t \in InFlight /\ Changes(n_threads_running - 1, Counted, InFlight \ {t}, Uncounted)
      BY <1>16 DEF Finds, Awakens
    <2> HIDE DEF Changes, Counted, InFlight, Uncounted
    <2> QED
      BY <2>1, CountChanges DEF CountChange
  <1>17. ASSUME NEW t \in Threads, StaysAsleep(t) PROVE CountExact'
    <2>1. Changes(n_threads_running, Counted, InFlight, Uncounted)
      BY ZenonT(30), <1>17 DEF StaysAsleep
    <2> HIDE DEF Changes, Counted, InFlight, Uncounted
    <2> QED
      BY ZenonT(40), <2>1, CountChanges DEF CountChange
  <1>18. ASSUME NEW t \in Threads, GivesUp(t) PROVE CountExact'
    <2>1. \/ Changes(n_threads_running, Counted, InFlight, Uncounted)
          \/ t \in InFlight /\ Changes(n_threads_running - 1, Counted, InFlight \ {t}, Uncounted)
      BY ZenonT(40), <1>18 DEF GivesUp, Awakens
    <2> HIDE DEF Changes, Counted, InFlight, Uncounted
    <2> QED
      BY <2>1, CountChanges DEF CountChange
  <1>19. ASSUME NEW t \in Threads, Block(t) PROVE CountExact'
    <2>1. Changes(n_threads_running, Counted, InFlight, Uncounted)
      BY SMTT(30), <1>19 DEF Block, Jobs, JobLabels, Rets, Sleeps, At, SleptLabels
    <2> HIDE DEF Changes, Counted, InFlight, Uncounted
    <2> QED
      BY <2>1, CountChanges DEF CountChange
  <1>20. ASSUME NEW t \in Threads, Sleep(t) PROVE CountExact'
    <2>1. Changes(n_threads_running, Counted, InFlight, Uncounted)
      BY SMT, <1>20 DEF Sleep, Jobs, JobLabels, Rets, Sleeps, At, SleptLabels
    <2> HIDE DEF Changes, Counted, InFlight, Uncounted
    <2> QED
      BY <2>1, CountChanges DEF CountChange
  <1>21. ASSUME NEW t \in Threads, CountOut(t) PROVE CountExact'
    <2>1. t \in Counted /\ Changes(n_threads_running - 1, Counted \ {t}, InFlight, Uncounted)
      BY ZenonT(40), <1>21 DEF CountOut
    <2> HIDE DEF Changes, Counted, InFlight, Uncounted
    <2> QED
      BY <2>1, CountChanges DEF CountChange
  <1>22. ASSUME NEW t \in Threads, Last(t) PROVE CountExact'
    <2>1. Changes(n_threads_running, Counted, InFlight, Uncounted)
      BY SMT, <1>22 DEF Last, Signalled, Jobs, JobLabels, Rets, Sleeps, At, SleptLabels
    <2> HIDE DEF Changes, Counted, InFlight, Uncounted
    <2> QED
      BY <2>1, CountChanges DEF CountChange
  <1>23. ASSUME NEW t \in Threads, ParkWakes(t) PROVE CountExact'
    <2>1. t \in InFlight \ Counted /\ Changes(n_threads_running, Counted \cup {t}, InFlight \ {t}, Uncounted)
      BY ZenonT(40), <1>23 DEF ParkWakes, Sleeps, At, JobLabels, SleptLabels
    <2> HIDE DEF Changes, Counted, InFlight, Uncounted
    <2> QED
      BY <2>1, CountChanges DEF CountChange
  <1>24. ASSUME Leaves PROVE CountExact'
    <2>1. slept[Io] /\ Io \in Counted
      BY <1>24 DEF Leaves, Sleeps, At, JobLabels, SleptLabels
    <2>2. CASE sleep_check_state[Io] = "not_sleeping"
      <3>1. Io \in InFlight /\ Changes(n_threads_running - 1, Counted, InFlight \ {Io}, Uncounted)
        BY SMTT(30), <1>24, <2>1, <2>2 DEF Leaves, Awakens
      <3> HIDE DEF Changes, Counted, InFlight, Uncounted
      <3> QED
        BY <3>1, CountChanges DEF CountChange
    <2>3. CASE sleep_check_state[Io] # "not_sleeping"
      <3>1. Changes(n_threads_running, Counted, InFlight, Uncounted)
        BY SMTT(30), <1>24, <2>1, <2>3 DEF Leaves, Awakens
      <3> HIDE DEF Changes, Counted, InFlight, Uncounted
      <3> QED
        BY <3>1, CountChanges DEF CountChange
    <2> QED
      BY <2>2, <2>3
  <1>25. ASSUME NEW t \in Threads, NEW l \in Labels, Drifts(t, l) PROVE CountExact'
    <2>1. Changes(n_threads_running, Counted, InFlight, Uncounted)
      BY <1>25 DEF Drifts, JobLabels
    <2> HIDE DEF Changes, Counted, InFlight, Uncounted
    <2> QED
      BY <2>1, CountChanges DEF CountChange
  <1>26. ASSUME CountIn PROVE CountExact'
    <2>1. Io \in Threads \ Counted /\ Changes(n_threads_running + 1, Counted \cup {Io}, InFlight, Uncounted)
      BY <1>26 DEF CountIn
    <2> HIDE DEF Changes, Counted, InFlight, Uncounted
    <2> QED
      BY <2>1, CountChanges DEF CountChange
  <1> HIDE DEF Changes, Counted, InFlight, Uncounted, Parked, Goto, counts
  <1> QED
    BY ZenonT(40), <1>1, <1>2, <1>3, <1>4, <1>5, <1>6, <1>7, <1>8, <1>9, <1>10, <1>11, <1>12, <1>13, <1>14, <1>15,
         <1>16, <1>17, <1>18, <1>19, <1>20, <1>21, <1>22, <1>23, <1>24, <1>25, <1>26, CasesDrift DEF Cases, WakeCase,
         PostCase, SleepCase

\* How a step changes what is in the multiqueue.
QueueChange ==
    \/ multiq' = multiq /\ HostedQueued' \subseteq HostedQueued
    \/ InMultiq < MaxQueue /\ multiq' = multiq + 1 /\ HostedQueued' = HostedQueued
    \/ /\ InMultiq < MaxQueue /\ multiq' = multiq
       /\ \E d \in Threads \ HostedQueued : HostedQueued' = HostedQueued \cup {d}
    \/ multiq' <= multiq /\ HostedQueued' \subseteq HostedQueued
    \/ \E t \in HostedQueued : multiq' <= multiq + 1 /\ HostedQueued' = HostedQueued \ {t}

\* Every step changes the shared queue in one of the ways of QueueChange.
LEMMA QueueChanges ==
    ASSUME Types, Jobs, Sleeps, Threads' = Threads, Cases
    PROVE  QueueChange
  <1> Io \in Threads
    BY SMT, IoThread
  <1> /\ hosted \in [Threads -> {"none", "blocked", "queued"}] /\ multiq \in Nat
    BY ActorsAssumption DEF Types
  <1> USE DEF QueueChange, HostedQueued, queues, Released
  <1>1. ASSUME NEW a \in Actors, NEW d \in job[a].cand, ScanHit(a, d) PROVE QueueChange
    BY <1>1 DEF ScanHit
  <1>2. ASSUME NEW a \in Actors, NEW d \in job[a].cand, ScanMiss(a, d) PROVE QueueChange
    BY <1>2 DEF ScanMiss
  <1>3. ASSUME NEW a \in Actors, Inc(a) PROVE QueueChange
    BY <1>3 DEF Inc
  <1>4. ASSUME NEW a \in Actors, Signal(a) PROVE QueueChange
    BY <1>4 DEF Signal, Signalled
  <1>5. ASSUME NEW a \in Actors, Kick(a) PROVE QueueChange
    BY <1>5 DEF Kick, Kicks
  <1>6. ASSUME NEW a \in Actors, JobPool(a) PROVE QueueChange
    BY <1>6 DEF JobPool
  <1>7. ASSUME NEW a \in Actors, JobDone(a) PROVE QueueChange
    BY <1>7 DEF JobDone
  <1>8. ASSUME NEW a \in Listener, Deliver(a) PROVE QueueChange
    BY <1>8 DEF Deliver, Listener
  <1>9. ASSUME NEW t \in Threads, NEW d \in Threads, NEW ret \in Rets, PostSticky(t, d, ret) PROVE QueueChange
    BY <1>9 DEF PostSticky
  <1>10. ASSUME NEW t \in Threads, NEW d \in Threads, NEW ret \in Rets, PostHosted(t, d, ret)
         PROVE  QueueChange
    BY SMT, <1>10 DEF PostHosted
  <1>11. ASSUME NEW t \in Threads, NEW d \in Threads, NEW ret \in Rets, Asks(t, d, ret) PROVE QueueChange
    BY <1>11 DEF Asks
  <1>12. ASSUME NEW t \in Threads, NEW ret \in Rets, PostShared(t, ret) PROVE QueueChange
    BY <1>12 DEF PostShared
  <1>13. ASSUME NEW t \in Threads, NEW ret \in Rets, PostOwn(t, ret) PROVE QueueChange
    BY SMT, <1>13 DEF PostOwn
  <1>14. ASSUME NEW t \in Threads, SelfWake(t) PROVE QueueChange
    BY <1>14 DEF SelfWake
  <1>15. ASSUME NEW t \in Threads, SelfInc(t) PROVE QueueChange
    BY <1>15 DEF SelfInc
  <1>16. ASSUME NEW t \in Threads, Finds(t) PROVE QueueChange
    <2>1. CASE hosted[t] = "queued"
      BY ZenonT(40), <1>16, <2>1 DEF Finds
    <2>2. CASE hosted[t] # "queued"
      BY SMT, <1>16, <2>2 DEF Finds
    <2> QED
      BY <2>1, <2>2
  <1>17. ASSUME NEW t \in Threads, StaysAsleep(t) PROVE QueueChange
    BY <1>17 DEF StaysAsleep
  <1>18. ASSUME NEW t \in Threads, GivesUp(t) PROVE QueueChange
    BY <1>18 DEF GivesUp, Awakens
  <1>19. ASSUME NEW t \in Threads, Block(t) PROVE QueueChange
    BY <1>19 DEF Block
  <1>20. ASSUME NEW t \in Threads, Sleep(t) PROVE QueueChange
    BY <1>20 DEF Sleep
  <1>21. ASSUME NEW t \in Threads, CountOut(t) PROVE QueueChange
    BY <1>21 DEF CountOut
  <1>22. ASSUME NEW t \in Threads, Last(t) PROVE QueueChange
    BY <1>22 DEF Last, Signalled
  <1>23. ASSUME NEW t \in Threads, ParkWakes(t) PROVE QueueChange
    BY <1>23 DEF ParkWakes
  <1>24. ASSUME Leaves PROVE QueueChange
    <2>1. CASE hosted[Io] = "queued"
      BY SMTT(30), <1>24, <2>1 DEF Leaves
    <2>2. CASE hosted[Io] # "queued"
      BY SMT, <1>24, <2>2 DEF Leaves
    <2> QED
      BY ZenonT(40), <2>1, <2>2
  <1>25. ASSUME NEW t \in Threads, NEW l \in Labels, Drifts(t, l) PROVE QueueChange
    BY <1>25 DEF Drifts
  <1>26. ASSUME CountIn PROVE QueueChange
    BY <1>26 DEF CountIn
  <1> HIDE DEF QueueChange, HostedQueued, queues, Released
  <1> QED
    BY ZenonT(40), <1>1, <1>2, <1>3, <1>4, <1>5, <1>6, <1>7, <1>8, <1>9, <1>10, <1>11, <1>12, <1>13, <1>14, <1>15,
         <1>16, <1>17, <1>18, <1>19, <1>20, <1>21, <1>22, <1>23, <1>24, <1>25, <1>26, CasesDrift DEF Cases, WakeCase,
         PostCase, SleepCase

\* Each of these ways keeps a bounded sum bounded.
LEMMA SumBounded ==
    ASSUME NEW m \in Nat, NEW m2 \in Nat, NEW q \in Nat, NEW q2 \in Nat, NEW b \in Nat, m + q <= b,
           \/ m2 = m /\ q2 <= q
           \/ m + q < b /\ m2 = m + 1 /\ q2 = q
           \/ m + q < b /\ m2 = m /\ q2 = q + 1
           \/ m2 <= m /\ q2 <= q
           \/ m2 <= m + 1 /\ q2 = q - 1
    PROVE  m2 + q2 <= b
  BY SMT

\* The shared queue stays within its bound.
LEMMA QueueStep ==
    ASSUME Types, Jobs, Sleeps, Types', QueueBound, Threads' = Threads, Cases
    PROVE  QueueBound'
  <1> DEFINE Q == Cardinality(HostedQueued)
  <1>1. /\ IsFiniteSet(HostedQueued) /\ Q \in Nat /\ Q' \in Nat
        /\ multiq \in Nat /\ multiq' \in Nat /\ MaxQueue \in Nat
    BY HostedFinite, HostedFiniteAfter, BoundAssumption DEF Types
  <1> USE <1>1
  <1>2. InMultiq = multiq + Q /\ InMultiq' = multiq' + Q'
    BY DEF InMultiq, HostedQueued
  <1> USE <1>2
  <1>3. HostedQueued' \subseteq HostedQueued => Q' <= Q
    BY FS_Subset
  <1>4. \A d \in Threads \ HostedQueued : HostedQueued' = HostedQueued \cup {d} => Q' = Q + 1
    BY OneMore
  <1>5. \A t \in HostedQueued : HostedQueued' = HostedQueued \ {t} => Q' = Q - 1
    BY OneLess
  <1>6. HostedQueued' = HostedQueued => Q' = Q
    OBVIOUS
  <1> HIDE DEF Q
  <1>7. \/ multiq' = multiq /\ Q' <= Q
        \/ InMultiq < MaxQueue /\ multiq' = multiq + 1 /\ Q' = Q
        \/ InMultiq < MaxQueue /\ multiq' = multiq /\ Q' = Q + 1
        \/ multiq' <= multiq /\ Q' <= Q
        \/ multiq' <= multiq + 1 /\ Q' = Q - 1
    BY ZenonT(40), <1>3, <1>4, <1>5, <1>6, QueueChanges DEF QueueChange
  <1>8. InMultiq' <= MaxQueue
    <2>1. multiq + Q <= MaxQueue
      BY DEF QueueBound
    <2>2. multiq' + Q' <= MaxQueue
      BY ZenonT(40), <1>7, <2>1, SumBounded
    <2> QED
      BY <2>2
  <1> QED
    BY <1>8 DEF QueueBound

-----------------------------------------------------------------------------
(* The theorems *)

\* The initial states satisfy the invariant: nobody sleeps, waits or wakes.
LEMMA InitIInv == Init => IInv
  <1> SUFFICES ASSUME Init PROVE IInv
    OBVIOUS
  <1>1. Threads \in ThreadSets /\ \A t \in Threads : workq[t] = 0
    BY DEF Init, Threads
  <1> USE <1>1
  <1>2. Io \in Threads /\ Threads \subseteq Actors /\ IsFiniteSet(Threads) /\ Null \notin Threads
    BY ActorsAssumption, FS_Subset
  <1> USE <1>2
  <1>3. Types
    <2>1. workq \in [Threads -> 0..MaxQueue]
      BY SMT, BoundAssumption DEF Init, Threads
    <2>2. pc \in [Actors -> Labels]
      BY DEF Init, Labels
    <2>3. job \in [Actors -> JobType]
      BY LabelFacts DEF Init, JobType, NoJob
    <2>4. n_threads_running \in Int
      BY SMT, FS_CardinalityType DEF Init
    <2>5. /\ sleep_check_state \in [Threads -> {"not_sleeping", "sleeping"}]
          /\ hosted \in [Threads -> {"none", "blocked", "queued"}]
      BY DEF Init
    <2>6. /\ slept \in [Threads -> BOOLEAN] /\ entered \in [Threads -> BOOLEAN]
          /\ active \in [Threads -> BOOLEAN]
      BY DEF Init
    <2>7. wait_empty \in BOOLEAN /\ async \in BOOLEAN /\ press \in BOOLEAN /\ uv_owner \in Threads \cup {Null}
      BY DEF Init
    <2>8. multiq \in Nat /\ handles \in 0..MaxHandles
      BY SMT, BoundAssumption DEF Init
    <2> QED
      BY ZenonT(40), <2>1, <2>2, <2>3, <2>4, <2>5, <2>6, <2>7, <2>8 DEF Types
  <1>4. \A a \in Actors : pc[a] = IF a = Io THEN "run" ELSE IF a \in Threads THEN "pop" ELSE "idle"
    BY DEF Init
  <1> USE <1>4
  <1>5. Jobs
    BY ZenonT(40), ActorsAssumption DEF Init, Jobs, JobLabels, NoJob
  <1>6. Sleeps /\ Owner
    BY SMT DEF Init, Sleeps, Owner, At, JobLabels, SleptLabels, HeldLabels
  <1>7. WaitersCounted
    <2>1. UvWaiters = {}
      BY DEF UvWaiters, WaitLabels
    <2> QED
      BY <2>1, FS_EmptySet DEF WaitersCounted, Init
  <1>8. QueueBound
    <2>1. HostedQueued = {}
      BY DEF HostedQueued, Init
    <2>2. Cardinality(HostedQueued) = 0 /\ multiq = 0
      BY <2>1, FS_EmptySet DEF Init
    <2>3. InMultiq = multiq + Cardinality(HostedQueued) /\ MaxQueue \in Nat
      BY BoundAssumption DEF InMultiq, HostedQueued
    <2> QED
      BY SMT, <2>2, <2>3 DEF QueueBound
  <1>9. CountExact
    <2>1. Counted = Threads
      BY DEF Counted, Parked
    <2>2. InFlight = {} /\ Uncounted = {}
      BY DEF InFlight, Uncounted, Init
    <2>3. n_threads_running = Cardinality(Counted) + Cardinality(InFlight) - Cardinality(Uncounted)
      BY SMTT(30), <2>1, <2>2, FS_EmptySet, FS_CardinalityType DEF Init
    <2> QED
      BY <2>3 DEF CountExact, Counted, InFlight, Uncounted
  <1>10. OwnWork /\ SharedWork /\ Wakes /\ Kicked /\ Handles /\ LoopGivesWay
    BY DEF Init, OwnWork, SharedWork, Dormant, Wakes, Kicked, EntersLoop, Handles, IoPast, LoopGivesWay
  <1> QED
    BY ZenonT(40), <1>3, <1>5, <1>6, <1>7, <1>8, <1>9, <1>10 DEF IInv

\* Every step preserves it.
LEMMA NextIInv == IInv /\ [Next]_vars => IInv'
  <1> SUFFICES ASSUME IInv, [Next]_vars PROVE IInv'
    OBVIOUS
  <1>1. CASE Next
    <2>1. Types /\ Jobs /\ Sleeps /\ Cases
      BY <1>1, NextCases DEF IInv
    <2> USE <2>1
    <2>2. Threads' = Threads
      BY ThreadsFixed
    <2> USE <2>2
    <2>3. Types'
      <3>1. pc' \in [Actors -> Labels] /\ Threads' \in ThreadSets
        BY PcTyped DEF Types
      <3> QED
        BY ZenonT(40), <3>1, JobTyped, CountsTyped, QueuesTyped, UvTyped DEF Types, CountsType, QueuesType, UvType
    <2>4. Jobs' /\ Sleeps' /\ Owner'
      BY JobsStep, SleepsStep, OwnerStep DEF IInv
    <2>5. WaitersCounted' /\ QueueBound' /\ CountExact'
      BY ZenonT(40), <2>3, WaitersStep, QueueStep, CountStep DEF IInv
    <2>6. OwnWork' /\ SharedWork' /\ Wakes'
      BY ZenonT(40), OwnWorkStep, SharedWorkStep, WakesStep DEF IInv
    <2>7. Kicked' /\ Handles' /\ LoopGivesWay'
      BY ZenonT(40), KickedStep, HandlesStep, LoopGivesWayStep DEF IInv
    <2> QED
      BY <2>3, <2>4, <2>5, <2>6, <2>7 DEF IInv
  <1>2. CASE UNCHANGED vars
    <2>1. /\ Threads' = Threads /\ Types' = Types /\ Jobs' = Jobs /\ Sleeps' = Sleeps /\ Owner' = Owner
          /\ WaitersCounted' = WaitersCounted /\ QueueBound' = QueueBound /\ CountExact' = CountExact
      BY <1>2 DEF vars, counts, queues, uv, loop, Threads, Types, JobType, Jobs, Sleeps, Owner, At, WaitersCounted,
           UvWaiters, QueueBound, InMultiq, CountExact, Parked
    <2>2. /\ OwnWork' = OwnWork /\ SharedWork' = SharedWork /\ Wakes' = Wakes
          /\ Kicked' = Kicked /\ Handles' = Handles /\ LoopGivesWay' = LoopGivesWay
      BY ZenonT(40), <1>2 DEF vars, counts, queues, uv, loop, Threads, OwnWork, SharedWork, Dormant, MustScan, At,
           Wakes, Waking, Kicked, EntersLoop, Handles, IoPast, Careful, Parked, LoopGivesWay
    <2> QED
      BY <2>1, <2>2 DEF IInv
  <1> QED
    BY <1>1, <1>2

\* The invariant holds in every reachable state.
THEOREM SchedulerInvariant == Spec => []IInv
  BY InitIInv, NextIInv, PTL DEF Spec

\* Every variable has its type; the multiqueue never holds more than its bound.
THEOREM SchedulerTypeCorrect == Spec => []TypeOK
  <1>1. IInv => TypeOK
    <2> SUFFICES ASSUME IInv PROVE TypeOK
      OBVIOUS
    <2>1. uv_n_waiters \in Nat
      BY WaitersFinite, FS_CardinalityType DEF IInv, WaitersCounted
    <2>2. multiq \in 0..MaxQueue
      <3>1. multiq \in Nat /\ Cardinality(HostedQueued) \in Nat /\ multiq + Cardinality(HostedQueued) <= MaxQueue
        BY HostedFinite DEF IInv, Types, QueueBound, InMultiq, HostedQueued
      <3> QED
        BY SMT, <3>1, BoundAssumption
    <2>3. \A a \in Actors : /\ job[a].cand \subseteq Threads
                            /\ job[a].target \in Threads \cup {Null}
                            /\ job[a].ret \in Labels
      BY DEF IInv, Types, JobType
    <2> QED
      BY <2>1, <2>2, <2>3 DEF IInv, Types, TypeOK
  <1> QED
    BY <1>1, SchedulerInvariant, PTL

\* n_threads_running is exact: the threads that have not counted themselves out, and
\* the wake-ups in flight, less those whose waker has yet to count them (wake_thread
\* and wakeup_thread count after their compare-and-swap).
THEOREM CountCorrect == Spec => []CountExact
  <1>1. IInv => CountExact
    BY DEF IInv
  <1> QED
    BY <1>1, SchedulerInvariant, PTL

\* No wake-up is lost between the publication of the sleep state, the second look at
\* the queues, and the wait on the condition or in uv_run (jl_task_get_next), whoever
\* enqueues (enq_work) and wakes (wake_thread, jl_wakeup_threadpool) meanwhile.
THEOREM NoWakeupLost == Spec => []NoLostWakeup
  <1>1. IInv => NoLostWakeup
    <2> SUFFICES ASSUME IInv PROVE NoLostWakeup
      BY SMT
    <2> DEFINE oblivious(t) == Blocked(t) /\ sleep_check_state[t] = "sleeping" /\ ~WillScan(t)
    <2>1. \A t \in Threads : oblivious(t) => Dormant(t) /\ ~MustScan(t) /\ At(t) # "pop"
      BY DEF Blocked, WillScan, MustScan, Dormant, At, JobLabels
    <2>2. \A t \in Threads : oblivious(t) => workq[t] = 0 /\ hosted[t] # "queued"
      BY <2>1 DEF IInv, OwnWork
    <2>3. (\A t \in Threads : oblivious(t)) => multiq = 0
      BY ZenonT(40), <2>1 DEF IInv, SharedWork
    <2>4. ASSUME NEW t \in Threads, Blocked(t), sleep_check_state[t] = "not_sleeping"
          PROVE  \E a \in Actors : /\ pc[a] \in {"inc", "signal"} \cup (IF t = Io THEN {"kick"} ELSE {})
                                   /\ job[a].target = t
      BY ZenonT(30), <2>4 DEF IInv, Blocked, Wakes, Waking, Kicked, EntersLoop, Jobs
    <2> QED
      BY <2>2, <2>3, <2>4 DEF NoLostWakeup
  <1> QED
    BY <1>1, SchedulerInvariant, PTL

\* A handle that is armed while thread 0 goes to sleep is not forgotten: the second
\* question to the loop, and the check of jl_uv_mutex by the other threads, see to it.
THEOREM HandlesAttended == Spec => []NoStrandedHandle
  <1>1. IInv => NoStrandedHandle
    BY DEF IInv, Handles, IoPast, Careful, NoStrandedHandle, FastAsleep
  <1> QED
    BY <1>1, SchedulerInvariant, PTL

\* JL_UV_LOCK always gets the holder out of uv_run: whoever waits has left a signal.
THEOREM LoopYields == Spec => []LoopGivesWay
  <1>1. IInv => LoopGivesWay
    BY DEF IInv
  <1> QED
    BY <1>1, SchedulerInvariant, PTL

\* Without a signal listener, all wakers are counted threads, and what a thread
\* asserts of its own sleep transition holds (jl_task_get_next, set_not_sleeping, and
\* wakeup_thread for the caller itself).
THEOREM SleepAssertionsCorrect ==
    ASSUME \A T \in ThreadSets : T = Actors
    PROVE  Spec => []SleepAssertions
  <1>1. IInv => SleepAssertions
    <2> SUFFICES ASSUME IInv, NEW t \in Threads
                 PROVE  /\ pc[t] = "idle" => sleep_check_state[t] = "not_sleeping"
                        /\ pc[t] \in {"count", "selfinc", "exit"} => n_threads_running > 0
                        /\ pc[t] = "park" /\ sleep_check_state[t] = "not_sleeping" => n_threads_running > 0
                        /\ /\ pc[t] \in {"pop", "deletemin", "recheck", "decide", "unsleep"}
                           /\ slept[t] /\ sleep_check_state[t] = "not_sleeping"
                           => n_threads_running > 1
      BY DEF SleepAssertions
    <2>1. Threads = Actors /\ Types
      BY DEF IInv, Types
    <2>2. /\ IsFiniteSet(Counted) /\ IsFiniteSet(InFlight)
          /\ Cardinality(Counted) \in Nat /\ Cardinality(InFlight) \in Nat /\ Cardinality(Uncounted) \in Nat
      BY <2>1, CountFacts
    <2> USE <2>2
    <2>3. n_threads_running = Cardinality(Counted) + Cardinality(InFlight) - Cardinality(Uncounted)
      BY DEF IInv, CountExact, Counted, InFlight, Uncounted
    <2> USE <2>3
    <2>4. Uncounted \subseteq Counted /\ Cardinality(Uncounted) <= Cardinality(Counted)
      <3>1. Uncounted \subseteq Counted
        BY <2>1 DEF Uncounted, Counted, Parked
      <3> QED
        BY <3>1, FS_Subset
    <2>5. t \in Counted \ Uncounted => Cardinality(Uncounted) <= Cardinality(Counted) - 1
      <3> SUFFICES ASSUME t \in Counted \ Uncounted PROVE Cardinality(Uncounted) <= Cardinality(Counted) - 1
        OBVIOUS
      <3>1. Uncounted \subseteq Counted \ {t}
        BY <2>4
      <3>2. IsFiniteSet(Counted \ {t}) /\ Cardinality(Counted \ {t}) = Cardinality(Counted) - 1
        BY OneLess, FS_RemoveElement
      <3> QED
        BY SMTT(30), <3>1, <3>2, FS_Subset
    <2>6. t \in InFlight => Cardinality(InFlight) >= 1
      BY SMT, FS_EmptySet
    <2>7. pc[t] = "idle" => sleep_check_state[t] = "not_sleeping"
      BY DEF IInv, Types, Sleeps, At, JobLabels, SleptLabels
    <2>8. pc[t] \in {"count", "exit"} => n_threads_running > 0
      <3>1. pc[t] \in {"count", "exit"} => t \in Counted \ Uncounted
        BY DEF Counted, Uncounted, Parked
      <3> QED
        BY SMTT(30), <2>5, <3>1
    <2>9. pc[t] = "selfinc" \/ (pc[t] = "park" /\ sleep_check_state[t] = "not_sleeping")
          => n_threads_running > 0
      <3>1. pc[t] = "selfinc" => t \in InFlight
        BY DEF InFlight, IInv, Sleeps
      <3>2. pc[t] = "park" /\ sleep_check_state[t] = "not_sleeping" => t \in InFlight
        BY DEF InFlight, IInv, Sleeps, At, JobLabels, SleptLabels
      <3> QED
        BY SMTT(30), <2>4, <2>6, <3>1, <3>2
    <2>10. /\ pc[t] \in {"pop", "deletemin", "recheck", "decide", "unsleep"}
           /\ slept[t] /\ sleep_check_state[t] = "not_sleeping"
           => n_threads_running > 1
      <3> SUFFICES ASSUME pc[t] \in {"pop", "deletemin", "recheck", "decide", "unsleep"},
                          slept[t], sleep_check_state[t] = "not_sleeping"
                   PROVE  n_threads_running > 1
        OBVIOUS
      <3>1. t \in Counted \ Uncounted /\ t \in InFlight
        BY DEF Counted, Uncounted, Parked, InFlight
      <3> QED
        BY SMTT(30), <2>5, <2>6, <3>1
    <2> QED
      BY ZenonT(40), <2>7, <2>8, <2>9, <2>10
  <1> QED
    BY <1>1, SchedulerInvariant, PTL
=============================================================================
