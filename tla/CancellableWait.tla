-------------------------- MODULE CancellableWait --------------------------
(***************************************************************************)
(* The parked wait of base/park.jl, on one condition (base/condition.jl)   *)
(* and under one cancellation source (base/cancellation.jl): the six       *)
(* phases of a wait, notify, and the walk with which cancel! claims the    *)
(* waiters of the source and delivers the request to them                  *)
(* (base/task.jl).  Whoever wakes a task must first claim its wake, by     *)
(* clearing t.waiting_on with a compare-and-swap that names the entry.     *)
(*                                                                         *)
(* The condition's lock does not park.  The waiter list of the source is   *)
(* the set of the live registrations: pushes are atomic, and a walk works  *)
(* on the list that its read of the head has fixed.                        *)
(***************************************************************************)
EXTENDS Naturals, Sequences

CONSTANTS Tasks, Notifiers, Cancellers, Null,
          Fresh,       \* names for the single-use entries of a task
          Severities,  \* the severities passed to cancel!
          Calls,       \* the waits: records of kind and floor
          Sticky       \* the tasks that are queued on their thread's own queue

Kinds == {"shield", "cancel", "teardown", "value"}

ASSUME SeveritiesKnown == Severities \subseteq 1..4
ASSUME CallsKnown ==
    /\ Calls \subseteq [kind : Kinds, floor : 0..5]
    /\ \A c \in Calls : /\ c.kind \in {"shield", "cancel"} => c.floor = 0
                        /\ c.kind \in {"teardown", "value"} => c.floor > 0
ASSUME NamesDistinct ==
    /\ Tasks \cap Notifiers = {} /\ Tasks \cap Cancellers = {} /\ Notifiers \cap Cancellers = {}
    /\ Fresh \cap {"plain", "cancel"} = {}
    /\ Sticky \subseteq Tasks

Entries == Tasks \X ({"plain", "cancel"} \cup Fresh)
Owner(e) == e[1]
Aux == [floor : 0..5, watcher : BOOLEAN]
Visits == [entry : Entries, aux : Aux]

ASSUME NullFresh == Null \notin Tasks \cup Notifiers \cup Cancellers \cup Entries \cup Visits

VARIABLES state,       \* src.state, the severity of the cancellation, 0 for none
          walk_lock,   \* the owner of src.walk_lock
          registered,  \* the live entries on src's waiter list
          aux,         \* for each entry, the floor and watcher bit of its source slot
          lock,        \* the owner of c.lock
          waitq,       \* c.waitq
          waiting_on,  \* for each task, t.waiting_on
          wakes,       \* for each task, the wakes enqueued for it
          pc,          \* for each task, notifier and canceller, where it is
          call,        \* for each task, the wait it is in
          entry,       \* for each task, the entry of that wait
          popped,      \* for each notifier, the entry it has claimed
          all,         \* for each notifier, notify's keyword argument
          sev,         \* for each canceller, the severity of its walk
          todo,        \* for each canceller, the entries it has not visited
          seen,        \* for each canceller, the entry visited and its aux
          towake       \* for each canceller, the claimed wakes

source == <<state, walk_lock, registered, aux>>
cond == <<lock, waitq>>
waiter == <<call, entry>>
notifier == <<popped, all>>
walker == <<sev, todo, seen, towake>>
vars == <<source, cond, waiting_on, wakes, pc, waiter, notifier, walker>>

Init ==
    /\ state = 0
    /\ walk_lock = Null
    /\ registered = {}
    /\ aux = [e \in Entries |-> [floor |-> 0, watcher |-> FALSE]]
    /\ lock = Null
    /\ waitq = <<>>
    /\ waiting_on = [t \in Tasks |-> Null]
    /\ wakes = [t \in Tasks |-> <<>>]
    /\ pc = [p \in Tasks \cup Notifiers \cup Cancellers |-> "idle"]
    /\ call = [t \in Tasks |-> [kind |-> "shield", floor |-> 0]]
    /\ entry = [t \in Tasks |-> <<t, "plain">>]
    /\ popped = [n \in Notifiers |-> Null]
    /\ all = [n \in Notifiers |-> FALSE]
    /\ sev = [c \in Cancellers |-> 0]
    /\ todo = [c \in Cancellers |-> {}]
    /\ seen = [c \in Cancellers |-> Null]
    /\ towake = [c \in Cancellers |-> {}]

Goto(p, l) == pc' = [pc EXCEPT ![p] = l]

Linked(e) == \E i \in 1..Len(waitq) : waitq[i] = e

\* list_deletefirst!: no effect when the entry is not linked.
Unlink(q, e) ==
    IF \E i \in 1..Len(q) : q[i] = e
    THEN LET i == CHOOSE j \in 1..Len(q) : q[j] = e
         IN  SubSeq(q, 1, i - 1) \o SubSeq(q, i + 1, Len(q))
    ELSE q

-----------------------------------------------------------------------------
(* wait(c, tok): a task *)

\* The caller takes c's lock, and calls wait.
Enter(t, k) ==
    /\ pc[t] = "idle"
    /\ lock = Null
    /\ lock' = t
    /\ call' = [call EXCEPT ![t] = k]
    /\ Goto(t, "call")
    /\ UNCHANGED <<source, waitq, waiting_on, wakes, entry, notifier, walker>>

\* check_cancel_arg, in the public wait(c; cancel): a refusal throws with the lock.
CheckArg(t) ==
    /\ pc[t] = "call"
    /\ Goto(t, IF call[t].kind = "cancel" /\ state # 0 THEN "return" ELSE "check")
    /\ UNCHANGED <<source, cond, waiting_on, wakes, waiter, notifier, walker>>

Fires(st, floor) == st # 0 /\ st >= floor

\* Is the wait refused, or complete, at its entry check?  A throwing teardown
\* wait skips it.
AtEntry(k) == k.kind \in {"cancel", "value"} /\ Fires(state, k.floor)

\* An entry that nothing can reach any more: a new one may take its name.
Unreachable(e) ==
    /\ e \notin registered
    /\ ~Linked(e)
    /\ \A c \in Cancellers :
         /\ e \notin todo[c]
         /\ seen[c] # Null => seen[c].entry # e
         /\ \A w \in towake[c] : w.entry # e

\* A cached entry serves again if it is not linked; else a new one does.
CachedOrNew(t, e) ==
    IF Linked(e) THEN {f \in {t} \X Fresh : Unreachable(f)} ELSE {e}

\* The entries that may serve a wait: a new one for value mode, and the two that
\* the task caches, apart for shielded waits.  The variant has one cache for both.
OneCache(t, k) ==
    IF k.kind = "value" THEN {e \in {t} \X Fresh : Unreachable(e)}
    ELSE CachedOrNew(t, <<t, "cancel">>)
EntriesFor(t, k) ==
    IF k.kind = "value" THEN {e \in {t} \X Fresh : Unreachable(e)}
    ELSE CachedOrNew(t, <<t, IF k.kind = "shield" THEN "plain" ELSE "cancel">>)

\* The entry check: value mode returns with the lock, the throwing wait has
\* released it.  Otherwise the wait gets its entry; _cancel_wait_entry also writes
\* the floor to the slot, which a walk may see if the entry is registered.
Check(t) ==
    /\ pc[t] = "check"
    /\ \/ /\ AtEntry(call[t])
          /\ IF call[t].kind = "value"
             THEN Goto(t, "return") /\ UNCHANGED lock
             ELSE Goto(t, "thrown") /\ lock' = Null
          /\ UNCHANGED <<entry, aux>>
       \/ /\ ~AtEntry(call[t])
          /\ \E e \in EntriesFor(t, call[t]) :
                /\ entry' = [entry EXCEPT ![t] = e]
                /\ aux' = IF call[t].kind \in {"cancel", "teardown"}
                          THEN [aux EXCEPT ![e] = [floor |-> call[t].floor, watcher |-> FALSE]]
                          ELSE aux
          /\ Goto(t, "arm")
          /\ UNCHANGED lock
    /\ UNCHANGED <<state, walk_lock, registered, waitq, waiting_on, wakes, call,
                   notifier, walker>>

\* park!: _arm_wait, which throws if another registration is armed.
Arm(t) ==
    /\ pc[t] = "arm"
    /\ waiting_on[t] = Null
    /\ waiting_on' = [waiting_on EXCEPT ![t] = entry[t]]
    /\ Goto(t, "enqueue")
    /\ UNCHANGED <<source, cond, wakes, waiter, notifier, walker>>

\* park!: link the entry on the condition, last or (first = true) first.
Enqueue(t) ==
    /\ pc[t] = "enqueue"
    /\ waitq' \in {Append(waitq, entry[t]), <<entry[t]>> \o waitq}
    /\ Goto(t, IF call[t].kind = "shield" THEN "release" ELSE "register")
    /\ UNCHANGED <<source, lock, waiting_on, wakes, waiter, notifier, walker>>

\* park!: register under the source, with the slot's aux, unless the entry is.
Register(t) ==
    /\ pc[t] = "register"
    /\ registered' = registered \cup {entry[t]}
    /\ aux' = IF entry[t] \in registered THEN aux
              ELSE [aux EXCEPT ![entry[t]] =
                      [floor |-> call[t].floor, watcher |-> call[t].kind = "value"]]
    /\ Goto(t, "recheck")
    /\ UNCHANGED <<state, walk_lock, cond, waiting_on, wakes, waiter, notifier, walker>>

\* A single-use entry is retired when its wait is over; cached ones stay.
Retired(t) == IF entry[t][2] \in Fresh THEN registered \ {entry[t]} ELSE registered

\* Does the recheck fire, with the self-claim won?  The variant ignores
\* the outcome of the claim.
ClaimIgnored(t) == Fires(state, call[t].floor)
Fired(t) == Fires(state, call[t].floor) /\ waiting_on[t] = entry[t]

\* The recheck of the source.  A value-mode wait returns with its lock; another
\* releases it and throws.
Recheck(t) ==
    /\ pc[t] = "recheck"
    /\ IF Fired(t)
       THEN /\ waiting_on' = [waiting_on EXCEPT ![t] = Null]
            /\ waitq' = Unlink(waitq, entry[t])
            /\ registered' = Retired(t)
            /\ IF call[t].kind = "value"
               THEN Goto(t, "return") /\ UNCHANGED lock
               ELSE Goto(t, "thrown") /\ lock' = Null
       ELSE /\ Goto(t, "release")
            /\ UNCHANGED <<registered, cond, waiting_on>>
    /\ UNCHANGED <<state, walk_lock, aux, wakes, waiter, notifier, walker>>

\* unlockall(c.lock), then wait().
Release(t) ==
    /\ pc[t] = "release"
    /\ lock' = Null
    /\ Goto(t, "wait")
    /\ UNCHANGED <<source, waitq, waiting_on, wakes, waiter, notifier, walker>>

\* The task is resumed with the first of its wakes.
Resume(t) ==
    /\ pc[t] = "wait"
    /\ wakes[t] # <<>>
    /\ wakes' = [wakes EXCEPT ![t] = Tail(@)]
    /\ Goto(t, IF Head(wakes[t]).mode = "throw" THEN "cleanup" ELSE "relock")
    /\ UNCHANGED <<source, cond, waiting_on, waiter, notifier, walker>>

\* What the settle of a normal wake leaves of the queue; the variant leaves it all.
NotSettled(t) == waitq
Settled(t) == Unlink(waitq, entry[t])

\* A normal wake: take the lock again, withdraw the entry, return.
Relock(t) ==
    /\ pc[t] = "relock"
    /\ lock = Null
    /\ lock' = t
    /\ waitq' = Settled(t)
    /\ registered' = Retired(t)
    /\ Goto(t, "return")
    /\ UNCHANGED <<state, walk_lock, aux, waiting_on, wakes, waiter, notifier, walker>>

\* The wakes that are left when a task is dropped from t.queue: a task in the
\* multiqueue has none.
Unqueued(t) == IF t \in Sticky THEN <<>> ELSE wakes[t]

\* interrupted_park_cleanup!: disarm, unlink under the lock, drop a wake that was
\* enqueued meanwhile, and let the exception go on.
Cleanup(t) ==
    /\ pc[t] = "cleanup"
    /\ lock = Null
    /\ waiting_on' = [waiting_on EXCEPT ![t] = Null]
    /\ waitq' = Unlink(waitq, entry[t])
    /\ wakes' = [wakes EXCEPT ![t] = Unqueued(t)]
    /\ registered' = Retired(t)
    /\ Goto(t, "thrown")
    /\ UNCHANGED <<state, walk_lock, aux, lock, waiter, notifier, walker>>

\* The exception leaves the internal wait with the lock released; the public
\* wait(c; cancel) takes it again, the teardown callers do not.
Thrown(t) ==
    /\ pc[t] = "thrown"
    /\ IF call[t].kind = "teardown"
       THEN Goto(t, "idle") /\ UNCHANGED lock
       ELSE lock = Null /\ lock' = t /\ Goto(t, "return")
    /\ UNCHANGED <<source, waitq, waiting_on, wakes, waiter, notifier, walker>>

\* The caller goes on with the lock, and releases it.
Return(t) ==
    /\ pc[t] = "return"
    /\ lock' = Null
    /\ Goto(t, "idle")
    /\ UNCHANGED <<source, waitq, waiting_on, wakes, waiter, notifier, walker>>

-----------------------------------------------------------------------------
(* notify(c): a task that is not itself waiting *)

NotifyLock(n, a) ==
    /\ pc[n] = "idle"
    /\ lock = Null
    /\ lock' = n
    /\ all' = [all EXCEPT ![n] = a]
    /\ Goto(n, "pop")
    /\ UNCHANGED <<source, waitq, waiting_on, wakes, waiter, popped, walker>>

\* Does claim_wait win the wake of the entry's wait?
Claims(e) == waiting_on[Owner(e)] = e

\* Pop an entry, and claim its wake; one that lost its claim is dropped.
Pop(n) ==
    /\ pc[n] = "pop"
    /\ waitq # <<>>
    /\ LET e == Head(waitq)
       IN  /\ waitq' = Tail(waitq)
           /\ IF Claims(e)
              THEN /\ waiting_on' = [waiting_on EXCEPT ![Owner(e)] = Null]
                   /\ popped' = [popped EXCEPT ![n] = e]
                   /\ Goto(n, "schedule")
              ELSE UNCHANGED <<waiting_on, popped, pc>>
    /\ UNCHANGED <<source, lock, wakes, waiter, all, walker>>

\* schedule(t, arg), and on to the next entry with all = true.
Schedule(n) ==
    /\ pc[n] = "schedule"
    /\ LET t == Owner(popped[n])
       IN  wakes' = [wakes EXCEPT ![t] = Append(@, [mode |-> "value", sev |-> 0])]
    /\ popped' = [popped EXCEPT ![n] = Null]
    /\ Goto(n, IF all[n] THEN "pop" ELSE "unlock")
    /\ UNCHANGED <<source, cond, waiting_on, waiter, all, walker>>

NotifyUnlock(n) ==
    /\ pc[n] = "unlock" \/ (pc[n] = "pop" /\ waitq = <<>>)
    /\ lock' = Null
    /\ Goto(n, "idle")
    /\ UNCHANGED <<source, waitq, waiting_on, wakes, waiter, notifier, walker>>

-----------------------------------------------------------------------------
(* cancel!(src, request): a task that is not itself waiting *)

\* The severity a call of cancel! leaves: a compare-and-swap maximum.
RaisedState(st, s) == IF s > st THEN s ELSE st

\* _raise_state!; a call that does not escalate walks all the same.
Raise(c, s) ==
    /\ pc[c] = "idle"
    /\ state' = RaisedState(state, s)
    /\ sev' = [sev EXCEPT ![c] = s]
    /\ Goto(c, "walk")
    /\ UNCHANGED <<walk_lock, registered, aux, cond, waiting_on, wakes, waiter,
                   notifier, todo, seen, towake>>

\* redeliver!: a walk at the current severity.
Redeliver(c) ==
    /\ pc[c] = "idle"
    /\ state # 0
    /\ sev' = [sev EXCEPT ![c] = state]
    /\ Goto(c, "walk")
    /\ UNCHANGED <<source, cond, waiting_on, wakes, waiter, notifier, todo, seen, towake>>

\* _cancel_walk_node!: take the walk lock, and read the state under it.
LockWalk(c) ==
    /\ pc[c] = "walk"
    /\ walk_lock = Null
    /\ walk_lock' = c
    /\ sev' = [sev EXCEPT ![c] = IF @ < state THEN state ELSE @]
    /\ Goto(c, "head")
    /\ UNCHANGED <<state, registered, aux, cond, waiting_on, wakes, waiter,
                   notifier, todo, seen, towake>>

\* _walk_waiters!: the read of waiters_head, which fixes the entries to visit.
ReadHead(c) ==
    /\ pc[c] = "head"
    /\ todo' = [todo EXCEPT ![c] = registered]
    /\ Goto(c, "visit")
    /\ UNCHANGED <<source, cond, waiting_on, wakes, waiter, notifier, sev, seen, towake>>

\* The next entry: a retired one is passed by, else its aux is read.
Visit(c) ==
    /\ pc[c] = "visit"
    /\ \E e \in todo[c] :
          /\ todo' = [todo EXCEPT ![c] = @ \ {e}]
          /\ IF e \in registered
             THEN /\ seen' = [seen EXCEPT ![c] = [entry |-> e, aux |-> aux[e]]]
                  /\ Goto(c, "observe")
             ELSE UNCHANGED <<seen, pc>>
    /\ UNCHANGED <<source, cond, waiting_on, wakes, waiter, notifier, sev, towake>>

\* Is a waiter with that floor eligible at that severity?  The variant is strict.
AboveFloor(floor, s) == floor < s
Eligible(floor, s) == floor <= s

\* The armed check, and the comparison of the floor.
Observe(c) ==
    /\ pc[c] = "observe"
    /\ IF waiting_on[Owner(seen[c].entry)] = seen[c].entry /\ Eligible(seen[c].aux.floor, sev[c])
       THEN Goto(c, "claim") /\ UNCHANGED seen
       ELSE Goto(c, "visit") /\ seen' = [seen EXCEPT ![c] = Null]
    /\ UNCHANGED <<source, cond, waiting_on, wakes, waiter, notifier, sev, todo, towake>>

\* The compare-and-swap on t.waiting_on.  The claim is kept with the delivery that
\* the watcher bit asks for.
Claim(c) ==
    /\ pc[c] = "claim"
    /\ LET e == seen[c].entry
       IN  IF waiting_on[Owner(e)] = e
           THEN /\ waiting_on' = [waiting_on EXCEPT ![Owner(e)] = Null]
                /\ towake' = [towake EXCEPT ![c] = @ \cup {[entry |-> e,
                        mode |-> IF seen[c].aux.watcher THEN "request" ELSE "throw"]}]
           ELSE UNCHANGED <<waiting_on, towake>>
    /\ seen' = [seen EXCEPT ![c] = Null]
    /\ Goto(c, "visit")
    /\ UNCHANGED <<source, cond, wakes, waiter, notifier, sev, todo>>

UnlockWalk(c) ==
    /\ pc[c] = "visit"
    /\ todo[c] = {}
    /\ walk_lock' = Null
    /\ Goto(c, "deliver")
    /\ UNCHANGED <<state, registered, aux, cond, waiting_on, wakes, waiter, notifier, walker>>

\* Has the claimed task armed a new wait?
Rearmed(t) == waiting_on[t] # Null

\* deliver_claimed_wake! and deliver_claimed_value_wake!: dropped if the task has
\* armed a new wait, else unlink the entry if the lock is free, and enqueue the task.
Deliver(c) ==
    /\ pc[c] = "deliver"
    /\ \E w \in towake[c] :
          /\ towake' = [towake EXCEPT ![c] = @ \ {w}]
          /\ IF Rearmed(Owner(w.entry))
             THEN UNCHANGED <<waitq, wakes>>
             ELSE /\ waitq' = IF lock = Null THEN Unlink(waitq, w.entry) ELSE waitq
                  /\ wakes' = [wakes EXCEPT ![Owner(w.entry)] =
                                 Append(Unqueued(Owner(w.entry)), [mode |-> w.mode, sev |-> sev[c]])]
    /\ UNCHANGED <<source, lock, waiting_on, pc, waiter, notifier, sev, todo, seen>>

Delivered(c) ==
    /\ pc[c] = "deliver"
    /\ towake[c] = {}
    /\ sev' = [sev EXCEPT ![c] = 0]
    /\ Goto(c, "idle")
    /\ UNCHANGED <<source, cond, waiting_on, wakes, waiter, notifier, todo, seen, towake>>

-----------------------------------------------------------------------------
TaskStep(t) ==
    \/ CheckArg(t) \/ Check(t) \/ Arm(t) \/ Enqueue(t) \/ Register(t) \/ Recheck(t) \/ Release(t)
    \/ Resume(t) \/ Relock(t) \/ Cleanup(t) \/ Thrown(t) \/ Return(t)
NotifyStep(n) == Pop(n) \/ Schedule(n) \/ NotifyUnlock(n)
WalkStep(c) ==
    \/ LockWalk(c) \/ ReadHead(c) \/ Visit(c) \/ Observe(c) \/ Claim(c)
    \/ UnlockWalk(c) \/ Deliver(c) \/ Delivered(c)

Next ==
    \/ \E t \in Tasks : TaskStep(t) \/ \E k \in Calls : Enter(t, k)
    \/ \E n \in Notifiers : NotifyStep(n) \/ \E a \in BOOLEAN : NotifyLock(n, a)
    \/ \E c \in Cancellers : WalkStep(c) \/ Redeliver(c) \/ \E s \in Severities : Raise(c, s)

Spec == Init /\ [][Next]_vars

-----------------------------------------------------------------------------
(* Properties *)

TaskLabels == {"idle", "call", "check", "arm", "enqueue", "register", "recheck", "release", "wait",
               "relock", "cleanup", "thrown", "return"}
NotifierLabels == {"idle", "pop", "schedule", "unlock"}
CancellerLabels == {"idle", "walk", "head", "visit", "observe", "claim", "deliver"}
Wakes == [mode : {"value", "request", "throw"}, sev : 0..4]

TypeOK ==
    /\ state \in 0..4
    /\ walk_lock \in Cancellers \cup {Null}
    /\ registered \in SUBSET Entries
    /\ aux \in [Entries -> Aux]
    /\ lock \in Tasks \cup Notifiers \cup {Null}
    /\ waitq \in Seq(Entries)
    /\ waiting_on \in [Tasks -> Entries \cup {Null}]
    /\ wakes \in [Tasks -> Seq(Wakes)]
    /\ pc \in [Tasks \cup Notifiers \cup Cancellers -> TaskLabels \cup NotifierLabels \cup CancellerLabels]
    /\ \A t \in Tasks : pc[t] \in TaskLabels
    /\ \A n \in Notifiers : pc[n] \in NotifierLabels
    /\ \A c \in Cancellers : pc[c] \in CancellerLabels
    /\ call \in [Tasks -> [kind : Kinds, floor : 0..5]]
    /\ entry \in [Tasks -> Entries]
    /\ popped \in [Notifiers -> Entries \cup {Null}]
    /\ all \in [Notifiers -> BOOLEAN]
    /\ sev \in [Cancellers -> 0..4]
    /\ todo \in [Cancellers -> SUBSET Entries]
    /\ seen \in [Cancellers -> Visits \cup {Null}]
    /\ towake \in [Cancellers -> SUBSET [entry : Entries, mode : {"request", "throw"}]]

\* The tickets out for the wake of a task: its armed registration, the claims
\* that notify and the walks hold, the wakes enqueued.
Tickets(t) ==
    {<<"armed", waiting_on[u]>> : u \in {u \in {t} : waiting_on[u] # Null}}
    \cup {<<"notify", n>> : n \in {n \in Notifiers : popped[n] # Null /\ Owner(popped[n]) = t}}
    \cup (UNION {{<<"walk", c, w>> : w \in {w \in towake[c] : Owner(w.entry) = t}} : c \in Cancellers})
    \cup {<<"wake", i>> : i \in 1..Len(wakes[t])}

\* The wake-claim protocol: a task has exactly one ticket out from its arm to its
\* resumption, and none otherwise.  So enq_work, which throws on a task that is
\* armed or queued, never does, and no wake reaches a later wait.
OneTicket ==
    \A t \in Tasks :
        IF pc[t] \in {"enqueue", "register", "recheck", "release", "wait"}
        THEN \E x \in Tickets(t) : Tickets(t) = {x}
        ELSE Tickets(t) = {}

\* Shields hold, and each delivery fits the wait it reaches: only a wait that is
\* cancellable under the source is thrown a request, only a value-mode wait is
\* completed with one, and never with one below its floor.
DeliveryFits ==
    \A t \in Tasks : \A i \in 1..Len(wakes[t]) :
        LET w == wakes[t][i]
        IN  /\ w.mode = "throw" => call[t].kind \in {"cancel", "teardown"}
            /\ w.mode = "request" => call[t].kind = "value" /\ w.sev >= call[t].floor

\* A canceller whose walk has still to pass over the entry.
WillVisit(c, e) ==
    \/ pc[c] \in {"walk", "head"}
    \/ e \in todo[c]
    \/ seen[c] # Null /\ seen[c].entry = e

\* No cancellation is missed: a suspended wait that is still armed, under a source
\* cancelled at its floor or above, is yet to be visited by a walk.
NoMissedCancel ==
    \A t \in Tasks :
        /\ pc[t] \in {"release", "wait"}
        /\ waiting_on[t] # Null
        /\ call[t].kind # "shield"
        /\ Fires(state, call[t].floor)
        => \E c \in Cancellers : WillVisit(c, entry[t])

\* The condition's queue: an entry is linked once at most, the entry of an armed
\* wait is, and the entry of a task that is outside a wait is not, so that its
\* cached entry can be used again.
QueueMatchesWaits ==
    /\ \A i, j \in 1..Len(waitq) : waitq[i] = waitq[j] => i = j
    /\ \A t \in Tasks : waiting_on[t] # Null /\ pc[t] # "enqueue" => Linked(waiting_on[t])
    /\ \A i \in 1..Len(waitq) :
          LET t == Owner(waitq[i])
          IN  /\ waitq[i] = entry[t]
              /\ pc[t] \in {"register", "recheck", "release", "wait", "relock", "cleanup"}

\* The caller has its lock whenever wait returns, or the public wait throws.
HeldOnReturn ==
    \A t \in Tasks : pc[t] = "return" => lock = t

\* The comment of _walk_waiters! on its claim order: what it knows of an entry's
\* aux when it observes the arm was read for that arm.
AuxReadForArm ==
    [][\A c \in Cancellers :
         pc[c] = "observe" /\ pc'[c] = "claim" => seen[c].aux = aux[seen[c].entry]]_vars

\* Fairness: threads run the tasks that are inside wait, notify or cancel!.
Fairness ==
    /\ \A t \in Tasks : WF_vars(TaskStep(t))
    /\ \A n \in Notifiers : WF_vars(NotifyStep(n))
    /\ \A c \in Cancellers : WF_vars(WalkStep(c))
FairSpec == Spec /\ Fairness

\* A cancellation at or above the floor of a parked wait ends that wait.
CancelEndsWait ==
    \A t \in Tasks :
        (pc[t] = "wait" /\ call[t].kind # "shield" /\ Fires(state, call[t].floor))
            ~> pc[t] # "wait"
=============================================================================
