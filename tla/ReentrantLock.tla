--------------------------- MODULE ReentrantLock ---------------------------
(***************************************************************************)
(* Base.ReentrantLock (base/lock.jl): the two-bit word havelock, the spin  *)
(* and park loop of slowlock, the hand-over of unlock/notifywaiters, and   *)
(* the cancellation of an acquisition that is parked.                      *)
(*                                                                         *)
(* A task parks on the ThreadSynchronizer rl.cond_wait.  Its registration  *)
(* is abstracted to three facts: whether it is linked in cond_wait.waitq,  *)
(* whether it is armed (t.waiting_on is the entry, nobody has claimed the  *)
(* wake), and which wake, if any, has been enqueued for it.  Whoever wants *)
(* to wake a task first claims it by clearing waiting_on; entries claimed  *)
(* by a cancellation walk stay linked until somebody collects them.        *)
(***************************************************************************)
EXTENDS Naturals, Sequences

CONSTANTS Tasks,            \* the tasks that use the lock
          Null,             \* Julia's nothing
          Calls,            \* Calls[t]: the ways in which task t asks for the lock
          MAX_SPIN_ITERS,   \* rounds of yield() before a task parks
          MaxDepth          \* bound on reentrancy_cnt

ASSUME NullFresh == Null \notin Tasks \cup {"value", "cancel", "trylock", "lock", "lock_token"}
ASSUME SpinBound == MAX_SPIN_ITERS \in Nat
ASSUME DepthBound == MaxDepth \in Nat \ {0}

VARIABLES havelock,         \* rl.havelock, as the set of the bits that are set
          locked_by,        \* rl.locked_by
          reentrancy_cnt,   \* rl.reentrancy_cnt
          cond_lock,        \* the holder of the SpinLock rl.cond_wait.lock
          waitq,            \* rl.cond_wait.waitq, entries named by their task
          waiting_on,       \* the tasks whose waiting_on is their lock entry
          towake,           \* the tasks claimed by a walk, not yet delivered
          wake,             \* the wake enqueued for a task, if any
          cancelled,        \* has the source of the tokens been cancelled
          pc,               \* where each task is
          state,            \* the local `state` of trylock and slowlock
          iteration,        \* the local `iteration` of slowlock
          mode,             \* which call a task makes: trylock, lock, or lock with a token
          inhibited         \* the tasks that have disabled finalizers

vars == <<havelock, locked_by, reentrancy_cnt, cond_lock, waitq, waiting_on,
          towake, wake, cancelled, pc, state, iteration, mode, inhibited>>

word == <<havelock, locked_by, reentrancy_cnt>>
queue == <<cond_lock, waitq, waiting_on, towake, wake>>
locals == <<state, iteration, mode>>

LOCKED_BIT == "LOCKED"
PARKED_BIT == "PARKED"
Bits == {LOCKED_BIT, PARKED_BIT}

\* trylock(rl), lock(rl; cancel=nothing), and lock(rl) under a token.
Modes == {"trylock", "lock", "lock_token"}
ASSUME CallsKnown == \A t \in Tasks : Calls[t] \subseteq Modes

Labels == {"run", "trylock", "trylock_own", "spin", "barge", "barge_own",
           "refuse", "set_parked", "lock_cond", "check", "park", "recheck",
           "release", "wait", "cleanup", "unlock_cas", "notify_lock",
           "notify", "store", "notify_unlock"}

Goto(t, label) == pc' = [pc EXCEPT ![t] = label]

\* The local `state` is dead after the compare-and-swap it was read for.
Forget(t) == state' = [state EXCEPT ![t] = {}]

\* list_deletefirst!: unlink t's entry, if it is linked; the variant does not.
Linked(q, t) == \E i \in 1..Len(q) : q[i] = t
UnlinkNothing(q, t) == q
Unlink(q, t) ==
    LET i == CHOOSE j \in 1..Len(q) : q[j] = t
    IN  IF Linked(q, t) THEN SubSeq(q, 1, i - 1) \o SubSeq(q, i + 1, Len(q)) ELSE q

Init ==
    /\ havelock = {}
    /\ locked_by = Null
    /\ reentrancy_cnt = 0
    /\ cond_lock = Null
    /\ waitq = <<>>
    /\ waiting_on = {}
    /\ towake = {}
    /\ wake = [t \in Tasks |-> Null]
    /\ cancelled = FALSE
    /\ pc = [t \in Tasks |-> "run"]
    /\ state = [t \in Tasks |-> {}]
    /\ iteration = [t \in Tasks |-> 1]
    /\ mode = [t \in Tasks |-> "lock"]
    /\ inhibited = {}

-----------------------------------------------------------------------------
(* trylock and the fast path of lock *)

\* trylock when the task already holds the lock: one more level.
Reenter(t) ==
    /\ pc[t] = "run"
    /\ locked_by = t
    /\ reentrancy_cnt < MaxDepth
    /\ reentrancy_cnt' = reentrancy_cnt + 1
    /\ UNCHANGED <<havelock, locked_by, queue, cancelled, pc, locals, inhibited>>

\* The value of havelock that _trylock's compare-and-swap expects, and a mask
\* forgotten.
UnmaskedExpected(h) == h
Expected(h) == h \cap {PARKED_BIT}

\* A failed compare-and-swap enables finalizers again, and one that does not.
KeepInhibited(t) == inhibited
Reenable(t) == inhibited \ {t}

\* _trylock, up to the read of havelock, entered from trylock and from lock.
\* lock tests an explicit token first and throws if it is cancelled, changing
\* nothing; a scoped default token is tested only in slowlock.
TryLock(t, m) ==
    /\ pc[t] = "run"
    /\ locked_by # t
    /\ inhibited' = inhibited \cup {t}
    /\ state' = [state EXCEPT ![t] = Expected(havelock)]
    /\ mode' = [mode EXCEPT ![t] = m]
    /\ Goto(t, "trylock")
    /\ UNCHANGED <<word, queue, cancelled, iteration>>

\* _trylock: the compare-and-swap that sets LOCKED_BIT.
TryLockCAS(t) ==
    /\ pc[t] = "trylock"
    /\ havelock = state[t]
    /\ havelock' = state[t] \cup {LOCKED_BIT}
    /\ Forget(t)
    /\ Goto(t, "trylock_own")
    /\ UNCHANGED <<locked_by, reentrancy_cnt, queue, cancelled, iteration, mode, inhibited>>

\* The compare-and-swap failed: trylock gives up, lock enters slowlock.
TryLockFail(t) ==
    /\ pc[t] = "trylock"
    /\ havelock # state[t]
    /\ inhibited' = Reenable(t)
    /\ iteration' = [iteration EXCEPT ![t] = 1]
    /\ Goto(t, IF mode[t] = "trylock" THEN "run" ELSE "spin")
    /\ Forget(t)
    /\ UNCHANGED <<word, queue, cancelled, mode>>

\* The winner of the compare-and-swap records itself as the owner.
TryLockOwn(t) ==
    /\ pc[t] = "trylock_own"
    /\ reentrancy_cnt' = 1
    /\ locked_by' = t
    /\ Goto(t, "run")
    /\ UNCHANGED <<havelock, queue, cancelled, locals, inhibited>>

-----------------------------------------------------------------------------
(* slowlock *)

\* slowlock has no queue to respect yet and rounds left: yield and look again.
SpinsAgain(t) == iteration[t] <= MAX_SPIN_ITERS

\* The top of the loop: read havelock and branch on its bits.
Spin(t) ==
    /\ pc[t] = "spin"
    /\ \/ /\ LOCKED_BIT \notin havelock
          /\ state' = [state EXCEPT ![t] = havelock]
          /\ inhibited' = inhibited \cup {t}
          /\ Goto(t, "barge")
          /\ UNCHANGED iteration
       \/ /\ havelock = {LOCKED_BIT}
          /\ SpinsAgain(t)
          /\ iteration' = [iteration EXCEPT ![t] = @ + 1]
          /\ UNCHANGED <<pc, state, inhibited>>
       \/ /\ havelock = {LOCKED_BIT}
          /\ ~SpinsAgain(t)
          /\ state' = [state EXCEPT ![t] = havelock]
          /\ Goto(t, "set_parked")
          /\ UNCHANGED <<iteration, inhibited>>
       \/ /\ havelock = Bits
          /\ Goto(t, "lock_cond")
          /\ UNCHANGED <<state, iteration, inhibited>>
    /\ UNCHANGED <<word, queue, cancelled, mode>>

\* Grab the lock if it is not locked, even if there is a queue on it.
Barge(t) ==
    /\ pc[t] = "barge"
    /\ IF havelock = state[t]
       THEN /\ havelock' = state[t] \cup {LOCKED_BIT}
            /\ Goto(t, "barge_own")
            /\ UNCHANGED inhibited
       ELSE /\ inhibited' = Reenable(t)
            /\ Goto(t, "spin")
            /\ UNCHANGED havelock
    /\ Forget(t)
    /\ UNCHANGED <<locked_by, reentrancy_cnt, queue, cancelled, iteration, mode>>

BargeOwn(t) ==
    /\ pc[t] = "barge_own"
    /\ reentrancy_cnt' = 1
    /\ locked_by' = t
    /\ Goto(t, "refuse")
    /\ UNCHANGED <<havelock, queue, cancelled, locals, inhibited>>

\* What a slow acquisition does once it owns the lock: return with it, or give
\* it up when the token was cancelled while the task was spinning.
Refused(t) == mode[t] = "lock_token" /\ cancelled

\* The refusal is a call of unlock, entered here at its first step.
Refuse(t) ==
    /\ pc[t] = "refuse"
    /\ IF Refused(t)
       THEN /\ reentrancy_cnt' = 0
            /\ locked_by' = Null
            /\ Goto(t, "unlock_cas")
       ELSE /\ Goto(t, "run")
            /\ UNCHANGED <<reentrancy_cnt, locked_by>>
    /\ UNCHANGED <<havelock, queue, cancelled, locals, inhibited>>

\* Announce a parked task; the outcome of the compare-and-swap is ignored.
SetParked(t) ==
    /\ pc[t] = "set_parked"
    /\ havelock' = IF havelock = state[t] THEN havelock \cup {PARKED_BIT} ELSE havelock
    /\ Forget(t)
    /\ Goto(t, "lock_cond")
    /\ UNCHANGED <<locked_by, reentrancy_cnt, queue, cancelled, iteration, mode, inhibited>>

LockCond(t) ==
    /\ pc[t] = "lock_cond"
    /\ cond_lock = Null
    /\ cond_lock' = t
    /\ Goto(t, "check")
    /\ UNCHANGED <<word, waitq, waiting_on, towake, wake, cancelled, locals, inhibited>>

\* The states of havelock in which slowlock may go to sleep: an unlock is still
\* to come, and it will find PARKED_BIT.  The variant forgets LOCKED_BIT.
MayParkUnlocked(h) == PARKED_BIT \in h
MayPark(h) == h = Bits

\* The last look at havelock before parking, under cond_wait's lock.
Check(t) ==
    /\ pc[t] = "check"
    /\ IF MayPark(havelock)
       THEN /\ Goto(t, "park")
            /\ UNCHANGED cond_lock
       ELSE /\ cond_lock' = Null
            /\ Goto(t, "spin")
    /\ UNCHANGED <<word, waitq, waiting_on, towake, wake, cancelled, locals, inhibited>>

-----------------------------------------------------------------------------
(* wait_no_relock, with park!, wait_safe_interrupt and the clean-up of an    *)
(* interrupted wait (base/park.jl)                                           *)

\* park!: arm the entry and link it at the end of the queue.
Park(t) ==
    /\ pc[t] = "park"
    /\ waiting_on' = waiting_on \cup {t}
    /\ waitq' = Append(waitq, t)
    /\ Goto(t, "recheck")
    /\ UNCHANGED <<word, cond_lock, towake, wake, cancelled, locals, inhibited>>

\* The token is cancelled and the task wins its own wake back; the variant does
\* not look at the outcome of the claim.
DisarmIgnored(t) == Refused(t)
Disarmed(t) == Refused(t) /\ t \in waiting_on

\* park!: the recheck of the token, and the self-claim.  The task that takes its
\* own wake back leaves the queue, releases cond_wait and throws; one that
\* already lost it to a walk goes to sleep and consumes that wake.
Recheck(t) ==
    /\ pc[t] = "recheck"
    /\ IF Disarmed(t)
       THEN /\ waiting_on' = waiting_on \ {t}
            /\ waitq' = Unlink(waitq, t)
            /\ cond_lock' = Null
            /\ Goto(t, "run")
       ELSE /\ Goto(t, "release")
            /\ UNCHANGED <<waiting_on, waitq, cond_lock>>
    /\ UNCHANGED <<word, towake, wake, cancelled, locals, inhibited>>

\* unlockall(c.lock), then wait(): from here on the task is suspended.
Release(t) ==
    /\ pc[t] = "release"
    /\ cond_lock' = Null
    /\ Goto(t, "wait")
    /\ UNCHANGED <<word, waitq, waiting_on, towake, wake, cancelled, locals, inhibited>>

\* The task is resumed with the enqueued wake: a value sends it back round the
\* loop with fresh spins, an exception to the clean-up.
Resume(t) ==
    /\ pc[t] = "wait"
    /\ wake[t] # Null
    /\ wake' = [wake EXCEPT ![t] = Null]
    /\ IF wake[t] = "value"
       THEN /\ Goto(t, "spin")
            /\ iteration' = [iteration EXCEPT ![t] = 1]
       ELSE /\ Goto(t, "cleanup")
            /\ UNCHANGED iteration
    /\ UNCHANGED <<word, cond_lock, waitq, waiting_on, towake, cancelled, state, mode, inhibited>>

\* interrupted_park_cleanup!: disarm, unlink under cond_wait's lock, drop a
\* wake that was enqueued meanwhile, then let the exception propagate.
Cleanup(t) ==
    /\ pc[t] = "cleanup"
    /\ cond_lock = Null
    /\ waiting_on' = waiting_on \ {t}
    /\ waitq' = Unlink(waitq, t)
    /\ wake' = [wake EXCEPT ![t] = Null]
    /\ Goto(t, "run")
    /\ UNCHANGED <<word, cond_lock, towake, cancelled, locals, inhibited>>

-----------------------------------------------------------------------------
(* unlock *)

\* Is the level being dropped the last one?
LastLevel(n) == n = 1

\* unlock: drop one level; the last one clears locked_by.
Unlock(t) ==
    /\ pc[t] = "run"
    /\ locked_by = t
    /\ reentrancy_cnt' = reentrancy_cnt - 1
    /\ IF LastLevel(reentrancy_cnt)
       THEN /\ locked_by' = Null
            /\ Goto(t, "unlock_cas")
       ELSE UNCHANGED <<locked_by, pc>>
    /\ UNCHANGED <<havelock, queue, cancelled, locals, inhibited>>

\* The fast release, possible only while nobody is parked.
UnlockCAS(t) ==
    /\ pc[t] = "unlock_cas"
    /\ IF havelock = {LOCKED_BIT}
       THEN /\ havelock' = {}
            /\ inhibited' = inhibited \ {t}
            /\ Goto(t, "run")
       ELSE /\ Goto(t, "notify_lock")
            /\ UNCHANGED <<havelock, inhibited>>
    /\ UNCHANGED <<locked_by, reentrancy_cnt, queue, cancelled, locals>>

NotifyLock(t) ==
    /\ pc[t] = "notify_lock"
    /\ cond_lock = Null
    /\ cond_lock' = t
    /\ Goto(t, "notify")
    /\ UNCHANGED <<word, waitq, waiting_on, towake, wake, cancelled, locals, inhibited>>

\* notify(all=false) pops entries until it claims one: i is the first position
\* whose entry is still armed.
FirstClaimable(i) ==
    /\ waitq[i] \in waiting_on
    /\ \A j \in 1..(i - 1) : waitq[j] \notin waiting_on

\* notify(cond_wait, all=false).  The entries it pops before it wins a claim
\* belong to tasks a walk has claimed; they are dropped.
Notify(t) ==
    /\ pc[t] = "notify"
    /\ \/ \E i \in 1..Len(waitq) :
            /\ FirstClaimable(i)
            /\ waitq' = SubSeq(waitq, i + 1, Len(waitq))
            /\ waiting_on' = waiting_on \ {waitq[i]}
            /\ wake' = [wake EXCEPT ![waitq[i]] = "value"]
       \/ /\ \A i \in 1..Len(waitq) : waitq[i] \notin waiting_on
          /\ waitq' = <<>>
          /\ UNCHANGED <<waiting_on, wake>>
    /\ Goto(t, "store")
    /\ UNCHANGED <<word, cond_lock, towake, cancelled, locals, inhibited>>

\* What notifywaiters leaves in havelock; the variant clears both bits.
HandoverNone(q) == {}
Handover(q) == IF q # <<>> THEN {PARKED_BIT} ELSE {}

\* notifywaiters: the plain store that releases the lock.
Store(t) ==
    /\ pc[t] = "store"
    /\ havelock' = Handover(waitq)
    /\ Goto(t, "notify_unlock")
    /\ UNCHANGED <<locked_by, reentrancy_cnt, queue, cancelled, locals, inhibited>>

NotifyUnlock(t) ==
    /\ pc[t] = "notify_unlock"
    /\ cond_lock' = Null
    /\ inhibited' = inhibited \ {t}
    /\ Goto(t, "run")
    /\ UNCHANGED <<word, waitq, waiting_on, towake, wake, cancelled, locals>>

-----------------------------------------------------------------------------
(* cancel! of the source of the tokens (base/cancellation.jl)                *)

Cancel ==
    /\ ~cancelled
    /\ cancelled' = TRUE
    /\ UNCHANGED <<word, queue, pc, locals, inhibited>>

\* The walk claims a task that is armed under a token.
WalkClaim(t) ==
    /\ Refused(t)
    /\ t \in waiting_on
    /\ waiting_on' = waiting_on \ {t}
    /\ towake' = towake \cup {t}
    /\ UNCHANGED <<word, cond_lock, waitq, wake, cancelled, pc, locals, inhibited>>

\* Has the task armed a new wait since it was claimed?  The variant is inverted.
NotRearmed(t) == t \notin waiting_on
Rearmed(t) == t \in waiting_on

\* deliver_claimed_wake!: dropped if the task has armed a new wait; otherwise
\* collect the entry if cond_wait's lock is free, and enqueue the task with the
\* exception in place of any wake it may already have.
Deliver(t) ==
    /\ t \in towake
    /\ towake' = towake \ {t}
    /\ IF Rearmed(t)
       THEN UNCHANGED <<waitq, wake>>
       ELSE /\ waitq' = IF cond_lock = Null THEN Unlink(waitq, t) ELSE waitq
            /\ wake' = [wake EXCEPT ![t] = "cancel"]
    /\ UNCHANGED <<word, cond_lock, waiting_on, cancelled, pc, locals, inhibited>>

-----------------------------------------------------------------------------
\* The steps of a task that is inside lock or unlock: once begun, they go on.
Step(t) ==
    \/ TryLockCAS(t) \/ TryLockFail(t) \/ TryLockOwn(t)
    \/ Spin(t) \/ Barge(t) \/ BargeOwn(t) \/ Refuse(t) \/ SetParked(t)
    \/ LockCond(t) \/ Check(t) \/ Park(t) \/ Recheck(t) \/ Release(t)
    \/ Resume(t) \/ Cleanup(t)
    \/ UnlockCAS(t) \/ NotifyLock(t) \/ Notify(t) \/ Store(t) \/ NotifyUnlock(t)

Call(t) == Reenter(t) \/ Unlock(t) \/ \E m \in Calls[t] : TryLock(t, m)

Next == Cancel \/ \E t \in Tasks : Step(t) \/ Call(t) \/ WalkClaim(t) \/ Deliver(t)

Spec == Init /\ [][Next]_vars

-----------------------------------------------------------------------------
(* Properties *)

TypeOK ==
    /\ havelock \in SUBSET Bits
    /\ locked_by \in Tasks \cup {Null}
    /\ reentrancy_cnt \in 0..MaxDepth
    /\ cond_lock \in Tasks \cup {Null}
    /\ waitq \in Seq(Tasks)
    /\ waiting_on \in SUBSET Tasks
    /\ towake \in SUBSET Tasks
    /\ wake \in [Tasks -> {Null, "value", "cancel"}]
    /\ cancelled \in BOOLEAN
    /\ pc \in [Tasks -> Labels]
    /\ state \in [Tasks -> SUBSET Bits]
    /\ iteration \in [Tasks -> Nat]
    /\ mode \in [Tasks -> Modes]
    /\ inhibited \in SUBSET Tasks

\* A task owns the lock from the compare-and-swap that sets LOCKED_BIT to the
\* compare-and-swap or store that clears it.
Releasing == {"unlock_cas", "notify_lock", "notify", "store"}
Owns(t) == locked_by = t \/ pc[t] \in {"trylock_own", "barge_own"} \cup Releasing

\* Mutual exclusion.  The state table of havelock: LOCKED_BIT is set exactly
\* while one task owns the lock, through all the steps of the hand-over.
LockedByExactlyOne ==
    /\ \A t, u \in Tasks : Owns(t) /\ Owns(u) => t = u
    /\ LOCKED_BIT \in havelock <=> \E t \in Tasks : Owns(t)

\* "We never end up in a situation where there are parked tasks but PARKED_BIT
\* is not set": while somebody can still be woken, unlock takes the slow path.
ParkedBitSet == waiting_on # {} => PARKED_BIT \in havelock

\* The tasks on their way to another attempt at the lock.
Headed(t) ==
    \/ pc[t] \in {"spin", "barge", "set_parked", "lock_cond", "check"}
    \/ pc[t] = "wait" /\ wake[t] = "value"

\* The baton is never dropped: as long as a task is parked, either somebody
\* owns the lock and will release it, or somebody is awake and will try to take
\* it, even when the task that was notified is cancelled or loses to a barger.
NoStrandedWaiter == waiting_on # {} => \E t \in Tasks : Owns(t) \/ Headed(t)

\* The wake-claim protocol, as slowlock uses it: a task that parks has exactly
\* one way to be woken (it is armed, or claimed by a walk, or already enqueued)
\* and a task that does not park has none, so no wake is lost, doubled or left
\* over for the task's next wait.
Parking(t) == pc[t] \in {"recheck", "release", "wait"}
OneWake ==
    \A t \in Tasks :
        /\ Parking(t) <=> (t \in waiting_on \/ t \in towake \/ wake[t] # Null)
        /\ ~(t \in waiting_on /\ t \in towake)
        /\ wake[t] # Null => t \notin waiting_on \cup towake

\* An entry is linked at most once, an armed one always, and the entry of a task
\* that was notified, or is not in a wait, never: slowlock may go round its loop
\* and push! the entry again, which is an error while it is linked.
EntriesLinkedOnce ==
    /\ \A i, j \in 1..Len(waitq) : waitq[i] = waitq[j] => i = j
    /\ \A t \in waiting_on : Linked(waitq, t)
    /\ \A t \in Tasks :
         Linked(waitq, t) => wake[t] # "value" /\ (Parking(t) \/ pc[t] = "cleanup")

\* Finalizers are disabled exactly while a task tries for, owns or is releasing
\* the lock: every path out of lock and unlock restores them, also a refusal.
FinalizersBalanced ==
    \A t \in Tasks :
        t \in inhibited <=> Owns(t) \/ pc[t] \in {"trylock", "barge", "notify_unlock"}

\* The refinement: the lock as its callers see it.  Ownership passes at the
\* compare-and-swap or store on LOCKED_BIT, not at the writes of locked_by.
Asking == {"trylock", "spin", "barge", "set_parked", "lock_cond", "check",
           "park", "recheck", "release", "wait", "cleanup"}
owner == IF \E t \in Tasks : Owns(t) THEN CHOOSE t \in Tasks : Owns(t) ELSE Null
depth == IF LOCKED_BIT \notin havelock THEN 0
         ELSE IF locked_by = Null THEN 1 ELSE reentrancy_cnt
asking == [t \in Tasks |-> IF pc[t] \in Asking THEN mode[t] ELSE Null]

Abs == INSTANCE Mutex WITH owner <- owner, depth <- depth, asking <- asking,
                            cancelled <- cancelled

\* slowlock, unlock and the cancellation of a parked acquisition implement the
\* abstract lock: in particular lock without a token never gives up.
ImplementsMutex == Abs!Spec

\* Fairness: threads run the tasks that are inside lock or unlock, a walk that
\* has begun goes on, an owner eventually unlocks, and the notifier that spins
\* for cond_wait's SpinLock is not passed over for ever.
Fairness ==
    \A t \in Tasks :
        /\ WF_vars(Step(t))
        /\ WF_vars(Unlock(t))
        /\ WF_vars(WalkClaim(t))
        /\ WF_vars(Deliver(t))
        /\ SF_vars(NotifyLock(t))
FairSpec == Spec /\ Fairness

\* A lock with a parked task is not left free: somebody acquires it, or nobody
\* is parked any more.
HandoverCompletes ==
    (waiting_on # {} /\ locked_by = Null) ~> (locked_by # Null \/ waiting_on = {})

\* Cancelling a token ends every parked acquisition made under it.
CancelEndsWait ==
    \A t \in Tasks : (pc[t] = "wait" /\ Refused(t)) ~> pc[t] # "wait"
=============================================================================
