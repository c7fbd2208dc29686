----------------------- MODULE CancellableWaitProofs -----------------------
(* Proofs about CancellableWait, for any number of tasks, notifiers and      *)
(* cancellers, every set of waits and of severities: the inductive           *)
(* invariant; what its conjuncts say of a queue, and when a step that leaves *)
(* variables alone preserves them; that the steps of a waiting task, of a    *)
(* notifier and of a canceller preserve it; and what it shows.               *)
EXTENDS CancellableWait, Integers, TLAPS

InWait(t) == pc[t] \in {"enqueue", "register", "recheck", "release", "wait"}

(* The lock of the condition is held between its acquisition and release.    *)
Holders ==
    /\ \A t \in Tasks :
          pc[t] \in {"call", "check", "arm", "enqueue", "register", "recheck", "release", "return"}
              => lock = t
    /\ \A n \in Notifiers : pc[n] # "idle" => lock = n

(* The locals of a notifier and of a canceller, by where it is.              *)
Locals ==
    /\ \A n \in Notifiers : popped[n] # Null <=> pc[n] = "schedule"
    /\ \A c \in Cancellers :
          /\ seen[c] # Null <=> pc[c] \in {"observe", "claim"}
          /\ todo[c] # {} => pc[c] \in {"visit", "observe", "claim"}
          /\ towake[c] # {} => pc[c] \in {"visit", "observe", "claim", "deliver"}
          /\ pc[c] = "claim" => seen[c].aux.floor <= sev[c]

(* The entry that serves each kind of wait; a shielded wait does not register. *)
EntryFits ==
    \A t \in Tasks :
        /\ Owner(entry[t]) = t
        /\ pc[t] = "arm" \/ InWait(t) =>
              /\ call[t].kind = "shield" => entry[t] = <<t, "plain">>
              /\ call[t].kind = "value" => entry[t][2] \in Fresh
              /\ call[t].kind \in {"cancel", "teardown"} => entry[t] = <<t, "cancel">>
        /\ pc[t] \in {"register", "recheck"} => call[t].kind # "shield"

(* A claim that is held: by it the wait of the entry's task is disarmed, and *)
(* no wake has been enqueued yet.                                            *)
Held(e) ==
    /\ e = entry[Owner(e)]
    /\ InWait(Owner(e))
    /\ waiting_on[Owner(e)] = Null
    /\ wakes[Owner(e)] = <<>>

(* At most one ticket is out: armed, claimed by one notifier or one walk, or *)
(* enqueued.                                                                 *)
AtMostOneTicket ==
    /\ \A t \in Tasks :
          /\ waiting_on[t] # Null => waiting_on[t] = entry[t] /\ InWait(t) /\ wakes[t] = <<>>
          /\ wakes[t] # <<>> => InWait(t) /\ Len(wakes[t]) = 1
    /\ \A n \in Notifiers :
          popped[n] # Null => Held(popped[n]) /\ \A m \in Notifiers : popped[m] = popped[n] => m = n
    /\ \A c \in Cancellers : \A w \in towake[c] :
          /\ Held(w.entry)
          /\ \A n \in Notifiers : popped[n] # w.entry
          /\ \A d \in Cancellers : \A v \in towake[d] : v.entry = w.entry => d = c /\ v = w

(* Some ticket is out while a task is in a wait.                             *)
SomeTicket ==
    \A t \in Tasks : InWait(t) =>
        \/ waiting_on[t] # Null
        \/ wakes[t] # <<>>
        \/ \E n \in Notifiers : popped[n] = entry[t]
        \/ \E c \in Cancellers : \E w \in towake[c] : w.entry = entry[t]

(* QueueMatchesWaits, by entries in place of positions.                      *)
Distinct(q) == \A i, j \in 1..Len(q) : q[i] = q[j] => i = j
InQueue(q, e) == \E i \in 1..Len(q) : q[i] = e
QueueFits ==
    /\ Distinct(waitq)
    /\ \A t \in Tasks : waiting_on[t] # Null /\ pc[t] # "enqueue" => InQueue(waitq, waiting_on[t])
    /\ \A e \in Entries : InQueue(waitq, e) =>
          /\ e = entry[Owner(e)]
          /\ pc[Owner(e)] \in {"register", "recheck", "release", "wait", "relock", "cleanup"}

(* No walk knows the entry.                                                  *)
Unknown(e) ==
    /\ e \notin registered
    /\ \A c \in Cancellers : e \notin todo[c] /\ (seen[c] # Null => seen[c].entry # e)

(* What walks can see: never the entry of a shielded wait; a single-use      *)
(* entry only from its registration on, and always with the aux that it was  *)
(* registered with; the watcher bit only on single-use entries.              *)
WalksSee ==
    /\ \A t \in Tasks : Unknown(<<t, "plain">>)
    /\ \A t \in Tasks :
          pc[t] \in {"arm", "enqueue", "register"} /\ entry[t][2] \in Fresh => Unknown(entry[t])
    /\ \A e \in Entries : aux[e].watcher => e[2] \in Fresh
    /\ \A c \in Cancellers : seen[c] # Null =>
          /\ seen[c].aux.watcher => seen[c].entry[2] \in Fresh
          /\ seen[c].entry[2] \in Fresh => seen[c].aux = aux[seen[c].entry]

(* The entry of a wait is registered, with the wait's own floor and          *)
(* delivery, before the wait is suspended.                                   *)
Staged ==
    \A t \in Tasks :
        /\ call[t].kind \in {"cancel", "teardown"} /\ (pc[t] = "arm" \/ InWait(t))
              => aux[entry[t]] = [floor |-> call[t].floor, watcher |-> FALSE]
        /\ call[t].kind = "value" /\ pc[t] \in {"recheck", "release", "wait"}
              => aux[entry[t]] = [floor |-> call[t].floor, watcher |-> TRUE]
        /\ call[t].kind # "shield" /\ pc[t] \in {"recheck", "release", "wait"}
              => entry[t] \in registered

(* The claims that walks hold fit the waits they will end.                   *)
ClaimsFit ==
    \A c \in Cancellers : \A w \in towake[c] :
        /\ w.mode = "throw" => call[Owner(w.entry)].kind \in {"cancel", "teardown"}
        /\ w.mode = "request" => /\ call[Owner(w.entry)].kind = "value"
                                 /\ call[Owner(w.entry)].floor <= sev[c]

(* A walk that will claim the armed wait of t: it has yet to read the state, *)
(* or has read the present one and will compare a floor that is low enough.  *)
Coming(c, t) ==
    \/ pc[c] = "walk"
    \/ /\ sev[c] >= state
       /\ \/ pc[c] = "head"
          \/ entry[t] \in todo[c]
          \/ seen[c] # Null /\ seen[c].entry = entry[t] /\ seen[c].aux.floor <= call[t].floor

WalkComing ==
    \A t \in Tasks :
        /\ pc[t] \in {"release", "wait"}
        /\ waiting_on[t] # Null
        /\ call[t].kind # "shield"
        /\ Fires(state, call[t].floor)
        => \E c \in Cancellers : Coming(c, t)

IInv ==
    /\ TypeOK
    /\ Holders
    /\ Locals
    /\ EntryFits
    /\ AtMostOneTicket
    /\ SomeTicket
    /\ QueueFits
    /\ WalksSee
    /\ Staged
    /\ ClaimsFit
    /\ DeliveryFits
    /\ WalkComing

-----------------------------------------------------------------------------
(* Names *)

(* Tasks, notifiers and cancellers are different from each other and from Null. *)
LEMMA Names ==
    /\ \A t \in Tasks : t \notin Notifiers /\ t \notin Cancellers /\ t # Null
    /\ \A n \in Notifiers : n \notin Tasks /\ n \notin Cancellers /\ n # Null
    /\ \A c \in Cancellers : c \notin Tasks /\ c \notin Notifiers /\ c # Null
    /\ \A e \in Entries : e # Null
    /\ \A v \in Visits : v # Null
  BY Zenon, NamesDistinct, NullFresh

(* An entry has a task as its owner; the entries that a task may use.        *)
LEMMA EntryNames ==
    /\ \A e \in Entries : Owner(e) \in Tasks
    /\ \A t \in Tasks : /\ <<t, "plain">> \in Entries /\ Owner(<<t, "plain">>) = t
                        /\ <<t, "cancel">> \in Entries /\ Owner(<<t, "cancel">>) = t
                        /\ <<t, "plain">>[2] \notin Fresh /\ <<t, "cancel">>[2] \notin Fresh
                        /\ <<t, "plain">> # <<t, "cancel">>
    /\ \A t \in Tasks : \A e \in {t} \X Fresh : e \in Entries /\ Owner(e) = t /\ e[2] \in Fresh
  BY Zenon, NamesDistinct DEF Entries, Owner

-----------------------------------------------------------------------------
(* The ways in which the queue changes *)

(* QueueFits is what QueueMatchesWaits says.                                 *)
LEMMA QueueFitsMatches == TypeOK /\ QueueFits => QueueMatchesWaits
  <1> SUFFICES ASSUME TypeOK, QueueFits PROVE QueueMatchesWaits
    BY Zenon
  <1>1. \A i \in 1..Len(waitq) : waitq[i] \in Entries /\ InQueue(waitq, waitq[i])
    BY DEF TypeOK, InQueue
  <1> QED
    BY Zenon, <1>1 DEF QueueFits, QueueMatchesWaits, Distinct, InQueue, Linked

\* Two queues, one after the other.
LEMMA JoinedQueues ==
    ASSUME NEW a \in Seq(Entries), NEW b \in Seq(Entries)
    PROVE  /\ a \o b \in Seq(Entries) /\ Len(a \o b) = Len(a) + Len(b)
           /\ \A j \in 1..(Len(a) + Len(b)) : (a \o b)[j] = IF j <= Len(a) THEN a[j] ELSE b[j - Len(a)]
  OBVIOUS

(* list_deletefirst! takes out the entry, and nothing else.                  *)
LEMMA UnlinkEntry ==
    ASSUME NEW q \in Seq(Entries), NEW e \in Entries, Distinct(q)
    PROVE  /\ Unlink(q, e) \in Seq(Entries)
           /\ Distinct(Unlink(q, e))
           /\ \A f \in Entries : InQueue(Unlink(q, e), f) <=> InQueue(q, f) /\ f # e
  <1>1. CASE ~InQueue(q, e)
    BY Zenon, <1>1 DEF Unlink, InQueue
  <1>2. CASE InQueue(q, e)
    <2> DEFINE i == CHOOSE j \in 1..Len(q) : q[j] = e
               a == SubSeq(q, 1, i - 1)
               b == SubSeq(q, i + 1, Len(q))
    <2>1. i \in 1..Len(q) /\ q[i] = e /\ Len(q) \in Nat
      BY <1>2 DEF InQueue
    <2>2. /\ a \in Seq(Entries) /\ Len(a) = i - 1
          /\ \A j \in 1..(i - 1) : a[j] = q[j]
      BY <2>1
    <2>3. /\ b \in Seq(Entries) /\ Len(b) = Len(q) - i
          /\ \A j \in 1..(Len(q) - i) : b[j] = q[i + j]
      BY SMTT(30), <2>1
    <2>4. Unlink(q, e) = a \o b
      BY Zenon, <1>2 DEF Unlink, InQueue
    <2> HIDE DEF i, a, b
    <2> DEFINE r == a \o b
    <2>5. /\ r \in Seq(Entries) /\ Len(r) = Len(q) - 1
          /\ \A j \in 1..(Len(q) - 1) : r[j] = IF j < i THEN q[j] ELSE q[j + 1]
      <3>1. Len(a) + Len(b) = Len(q) - 1
        BY <2>1, <2>2, <2>3
      <3>2. /\ r \in Seq(Entries) /\ Len(r) = Len(a) + Len(b)
            /\ \A j \in 1..(Len(a) + Len(b)) :
                 r[j] = IF j <= Len(a) THEN a[j] ELSE b[j - Len(a)]
        BY Zenon, <2>2, <2>3, JoinedQueues
      <3>3. ASSUME NEW j \in 1..(Len(q) - 1), j >= i
            PROVE  b[j - (i - 1)] = q[j + 1]
        <4>1. j - (i - 1) \in 1..(Len(q) - i) /\ i + (j - (i - 1)) = j + 1
          BY <2>1, <3>3
        <4> QED
          BY Zenon, <2>3, <4>1
      <3>4. \A j \in 1..(Len(q) - 1) : j < i => a[j] = q[j]
        BY <2>1, <2>2
      <3> HIDE DEF r
      <3>5. \A j \in 1..(Len(q) - 1) : r[j] = IF j <= i - 1 THEN a[j] ELSE b[j - (i - 1)]
        BY Zenon, <2>2, <3>1, <3>2
      <3>6. ASSUME NEW j \in 1..(Len(q) - 1)
            PROVE  r[j] = IF j < i THEN q[j] ELSE q[j + 1]
        <4>1. CASE j < i
          <5>1. j <= i - 1
            BY <2>1, <4>1
          <5> QED
            BY Zenon, <3>4, <3>5, <4>1, <5>1
        <4>2. CASE ~(j < i)
          <5>1. j >= i /\ ~(j <= i - 1)
            BY <2>1, <4>2
          <5> QED
            BY Zenon, <3>3, <3>5, <4>2, <5>1
        <4> QED
          BY Zenon, <4>1, <4>2
      <3> QED
        BY Zenon, <3>1, <3>2, <3>6
    <2> HIDE DEF r
    <2>6. Distinct(r)
      BY SMTT(30), <2>1, <2>5 DEF Distinct
    <2>7. ASSUME NEW f \in Entries, f # e, InQueue(q, f)
          PROVE  InQueue(r, f)
      <3>1. PICK k \in 1..Len(q) : q[k] = f
        BY Zenon, <2>7 DEF InQueue
      <3>2. CASE k < i
        <4>1. k \in 1..(Len(q) - 1) /\ r[k] = f
          BY <2>1, <2>5, <3>1, <3>2
        <4> QED
          BY Zenon, <2>5, <4>1 DEF InQueue
      <3>3. CASE k > i
        <4>1. k - 1 \in 1..(Len(q) - 1) /\ ~(k - 1 < i) /\ (k - 1) + 1 = k
          BY <2>1, <3>1, <3>3
        <4>2. r[k - 1] = f
          BY Zenon, <2>5, <3>1, <4>1
        <4> QED
          BY Zenon, <2>5, <4>1, <4>2 DEF InQueue
      <3> QED
        BY <2>1, <2>7, <3>1, <3>2, <3>3
    <2>8. ASSUME NEW f \in Entries, InQueue(r, f)
          PROVE  InQueue(q, f) /\ f # e
      BY <2>1, <2>5, <2>8 DEF InQueue, Distinct
    <2> QED
      BY Zenon, <2>4, <2>5, <2>6, <2>7, <2>8 DEF r
  <1> QED
    BY Zenon, <1>1, <1>2

(* notify takes out the first entry.                                         *)
LEMMA PopEntry ==
    ASSUME NEW q \in Seq(Entries), q # <<>>, Distinct(q)
    PROVE  /\ Head(q) \in Entries /\ InQueue(q, Head(q))
           /\ Tail(q) \in Seq(Entries)
           /\ Distinct(Tail(q))
           /\ \A f \in Entries : InQueue(Tail(q), f) <=> InQueue(q, f) /\ f # Head(q)
  <1>1. /\ Len(q) \in Nat /\ Len(q) >= 1 /\ Head(q) = q[1] /\ Tail(q) \in Seq(Entries)
        /\ Len(Tail(q)) = Len(q) - 1
        /\ \A i \in 1..(Len(q) - 1) : Tail(q)[i] = q[i + 1]
    OBVIOUS
  <1>2. Head(q) \in Entries /\ InQueue(q, Head(q))
    BY <1>1 DEF InQueue
  <1>3. Distinct(Tail(q))
    BY <1>1 DEF Distinct
  <1>4. ASSUME NEW f \in Entries, InQueue(q, f), f # Head(q)
        PROVE  InQueue(Tail(q), f)
    <2>1. PICK k \in 1..Len(q) : q[k] = f
      BY Zenon, <1>4 DEF InQueue
    <2>2. k - 1 \in 1..(Len(q) - 1) /\ Tail(q)[k - 1] = f
      BY <1>1, <1>4, <2>1
    <2> QED
      BY Zenon, <1>1, <2>2 DEF InQueue
  <1>5. ASSUME NEW f \in Entries, InQueue(Tail(q), f)
        PROVE  InQueue(q, f) /\ f # Head(q)
    <2>1. PICK k \in 1..(Len(q) - 1) : Tail(q)[k] = f
      BY Zenon, <1>1, <1>5 DEF InQueue
    <2>2. k + 1 \in 1..Len(q) /\ q[k + 1] = f /\ k + 1 # 1 /\ 1 \in 1..Len(q)
      BY <1>1, <2>1
    <2> QED
      BY Zenon, <1>1, <2>2 DEF InQueue, Distinct
  <1> QED
    BY Zenon, <1>1, <1>2, <1>3, <1>4, <1>5

(* A wait puts its entry last or first.                                      *)
LEMMA PushEntry ==
    ASSUME NEW q \in Seq(Entries), NEW e \in Entries, Distinct(q), ~InQueue(q, e),
           NEW r, r = Append(q, e) \/ r = <<e>> \o q
    PROVE  /\ r \in Seq(Entries)
           /\ Distinct(r)
           /\ \A f \in Entries : InQueue(r, f) <=> InQueue(q, f) \/ f = e
  <1>0. Len(q) \in Nat
    OBVIOUS
  <1>1. CASE r = Append(q, e)
    <2>1. /\ r \in Seq(Entries) /\ Len(r) = Len(q) + 1
          /\ \A i \in 1..Len(q) : r[i] = q[i]
          /\ r[Len(q) + 1] = e
      BY <1>1
    <2>2. Distinct(r)
      BY <1>0, <2>1 DEF Distinct, InQueue
    <2>3. \A f \in Entries : InQueue(r, f) <=> InQueue(q, f) \/ f = e
      BY SMTT(30), <1>0, <2>1 DEF InQueue
    <2> QED
      BY Zenon, <2>1, <2>2, <2>3
  <1>2. CASE r = <<e>> \o q
    <2>1. <<e>> \in Seq(Entries) /\ Len(<<e>>) = 1 /\ <<e>>[1] = e
      OBVIOUS
    <2>2. /\ r \in Seq(Entries) /\ Len(r) = Len(q) + 1
          /\ r[1] = e
          /\ \A i \in 2..(Len(q) + 1) : r[i] = q[i - 1]
      BY <1>0, <1>2, <2>1
    <2>3. Distinct(r)
      <3>1. \A i \in 2..(Len(q) + 1) : i - 1 \in 1..Len(q) /\ r[i] = q[i - 1]
        BY <1>0, <2>2
      <3>2. \A i \in 2..(Len(q) + 1) : r[i] # r[1]
        BY Zenon, <2>2, <3>1 DEF InQueue
      <3>3. ASSUME NEW i \in 2..(Len(q) + 1), NEW j \in 2..(Len(q) + 1), r[i] = r[j]
            PROVE  i = j
        <4>1. i - 1 = j - 1
          BY Zenon, <3>1, <3>3 DEF Distinct
        <4> QED
          BY <1>0, <4>1
      <3>4. \A i \in 1..Len(r) : i = 1 \/ i \in 2..(Len(q) + 1)
        BY <1>0, <2>2
      <3> QED
        BY Zenon, <3>2, <3>3, <3>4 DEF Distinct
    <2>4. ASSUME NEW f \in Entries, InQueue(q, f)
          PROVE  InQueue(r, f)
      <3>1. PICK k \in 1..Len(q) : q[k] = f
        BY Zenon, <2>4 DEF InQueue
      <3>2. k + 1 \in 2..(Len(q) + 1) /\ k + 1 \in 1..Len(r) /\ (k + 1) - 1 = k
        BY <1>0, <2>2, <3>1
      <3>3. r[k + 1] = f
        BY Zenon, <2>2, <3>1, <3>2
      <3> QED
        BY Zenon, <3>2, <3>3 DEF InQueue
    <2>5. InQueue(r, e)
      BY <1>0, <2>2 DEF InQueue
    <2>6. ASSUME NEW f \in Entries, InQueue(r, f)
          PROVE  InQueue(q, f) \/ f = e
      BY <1>0, <2>2, <2>6 DEF InQueue
    <2> QED
      BY Zenon, <2>2, <2>3, <2>4, <2>5, <2>6
  <1> QED
    BY Zenon, <1>1, <1>2

-----------------------------------------------------------------------------
(* What a step leaves alone *)

(* A process goes to a label, and nobody else moves.                         *)
TaskAt(t, l) ==
    /\ pc'[t] = l
    /\ \A u \in Tasks : u # t => pc'[u] = pc[u]
    /\ \A n \in Notifiers : pc'[n] = pc[n]
    /\ \A c \in Cancellers : pc'[c] = pc[c]
NotifierAt(n, l) ==
    /\ pc'[n] = l
    /\ \A t \in Tasks : pc'[t] = pc[t]
    /\ \A m \in Notifiers : m # n => pc'[m] = pc[m]
    /\ \A c \in Cancellers : pc'[c] = pc[c]
CancellerAt(c, l) ==
    /\ pc'[c] = l
    /\ \A t \in Tasks : pc'[t] = pc[t]
    /\ \A n \in Notifiers : pc'[n] = pc[n]
    /\ \A d \in Cancellers : d # c => pc'[d] = pc[d]

(* The part of TypeOK that is about pc.                                      *)
PcOK ==
    /\ pc \in [Tasks \cup Notifiers \cup Cancellers -> TaskLabels \cup NotifierLabels \cup CancellerLabels]
    /\ \A t \in Tasks : pc[t] \in TaskLabels
    /\ \A n \in Notifiers : pc[n] \in NotifierLabels
    /\ \A c \in Cancellers : pc[c] \in CancellerLabels

\* A step of a task moves nobody else,
LEMMA TaskMoves ==
    ASSUME PcOK, NEW t \in Tasks, NEW l \in TaskLabels, Goto(t, l)
    PROVE  TaskAt(t, l) /\ PcOK'
  BY Zenon, Names DEF Goto, PcOK, TaskAt

\* nor does a step of a notifier,
LEMMA NotifierMoves ==
    ASSUME PcOK, NEW n \in Notifiers, NEW l \in NotifierLabels, Goto(n, l)
    PROVE  NotifierAt(n, l) /\ PcOK'
  BY Zenon, Names DEF Goto, PcOK, NotifierAt

\* nor one of a canceller.
LEMMA CancellerMoves ==
    ASSUME PcOK, NEW c \in Cancellers, NEW l \in CancellerLabels, Goto(c, l)
    PROVE  CancellerAt(c, l) /\ PcOK'
  BY Zenon, Names DEF Goto, PcOK, CancellerAt

(* A conjunct of the invariant stays true if the state it is about changes   *)
(* in no way, or in a harmless one.                                          *)
LEMMA HoldersFrame ==
    ASSUME Holders, lock' = lock, \A t \in Tasks : pc'[t] = pc[t],
           \A n \in Notifiers : pc'[n] = pc[n]
    PROVE  Holders'
  BY Zenon DEF Holders

\* What notifiers and walks hold is kept by a step of a task;
LEMMA LocalsFrame ==
    ASSUME Locals, UNCHANGED <<popped, sev, todo, seen, towake>>,
           \A n \in Notifiers : pc'[n] = pc[n], \A c \in Cancellers : pc'[c] = pc[c]
    PROVE  Locals'
  BY Zenon DEF Locals

\* which entry a task waits with, by a step that moves no task;
LEMMA EntryFitsFrame ==
    ASSUME EntryFits, UNCHANGED <<call, entry>>, \A t \in Tasks : pc'[t] = pc[t]
    PROVE  EntryFits'
  BY Zenon DEF EntryFits, InWait

\* the tickets, by a step of a task that leaves what is claimed claimed;
LEMMA TicketsSame ==
    ASSUME AtMostOneTicket, UNCHANGED <<popped, towake>>,
           \A e \in Entries : Held(e) => Held(e)',
           \A n \in Notifiers : popped[n] # Null => popped[n] \in Entries,
           \A c \in Cancellers : \A w \in towake[c] : w.entry \in Entries,
           \A u \in Tasks :
              /\ waiting_on'[u] # Null => waiting_on'[u] = entry'[u] /\ InWait(u)' /\ wakes'[u] = <<>>
              /\ wakes'[u] # <<>> => InWait(u)' /\ Len(wakes'[u]) = 1
    PROVE  AtMostOneTicket'
  <1>1. \A n \in Notifiers : popped[n] # Null => Held(popped[n])'
    <2> SUFFICES ASSUME NEW n \in Notifiers, popped[n] # Null PROVE Held(popped[n])'
      BY Zenon
    <2>1. popped[n] \in Entries /\ Held(popped[n])
      BY Zenon DEF AtMostOneTicket
    <2>2. PICK e \in Entries : e = popped[n]
      BY Zenon, <2>1
    <2>3. Held(e)'
      BY Zenon, <2>1, <2>2
    <2> QED
      BY Zenon, <2>2, <2>3
  <1>2. \A n \in Notifiers : popped'[n] # Null => \A m \in Notifiers : popped'[m] = popped'[n] => m = n
    BY Zenon DEF AtMostOneTicket
  <1>3. \A c \in Cancellers : \A w \in towake'[c] :
          /\ Held(w.entry)'
          /\ \A n \in Notifiers : popped'[n] # w.entry
          /\ \A d \in Cancellers : \A v \in towake'[d] : v.entry = w.entry => d = c /\ v = w
    BY ZenonT(30) DEF AtMostOneTicket
  <1> QED
    BY Zenon, <1>1, <1>2, <1>3 DEF AtMostOneTicket

\* the one way to be woken, by a step that hands out and takes none;
LEMMA TicketsFrame ==
    ASSUME TypeOK, AtMostOneTicket, SomeTicket,
           UNCHANGED <<waiting_on, wakes, popped, towake>>,
           \A t \in Tasks : InWait(t)' <=> InWait(t),
           \A t \in Tasks : InWait(t) => entry'[t] = entry[t]
    PROVE  AtMostOneTicket' /\ SomeTicket'
  <1>1. \A e \in Entries : Held(e) => Held(e)'
    BY Zenon, EntryNames DEF Held
  <1>2. \A n \in Notifiers : popped[n] # Null => popped[n] \in Entries
    BY Zenon DEF TypeOK
  <1>3. \A c \in Cancellers : \A w \in towake[c] : w.entry \in Entries
    BY DEF TypeOK
  <1>4. AtMostOneTicket'
    <2>1. \A u \in Tasks :
            /\ waiting_on'[u] # Null => waiting_on'[u] = entry'[u] /\ InWait(u)' /\ wakes'[u] = <<>>
            /\ wakes'[u] # <<>> => InWait(u)' /\ Len(wakes'[u]) = 1
      BY Zenon DEF AtMostOneTicket
    <2> QED
      BY Zenon, <1>1, <1>2, <1>3, <2>1, TicketsSame
  <1>5. SomeTicket'
    BY Zenon DEF SomeTicket
  <1> QED
    BY Zenon, <1>4, <1>5

QueueLabels == {"register", "recheck", "release", "wait", "relock", "cleanup"}

\* the queue, by a step that neither links nor unlinks;
LEMMA QueueFrame ==
    ASSUME QueueFits, UNCHANGED <<waitq, waiting_on>>,
           \A t \in Tasks : pc[t] = "enqueue" => pc'[t] = "enqueue",
           \A t \in Tasks : pc[t] \in QueueLabels => pc'[t] \in QueueLabels /\ entry'[t] = entry[t]
    PROVE  QueueFits'
  BY Zenon, EntryNames DEF QueueFits, QueueLabels

\* what a walk will see, by a step that writes no aux;
LEMMA WalksSeeFrame ==
    ASSUME WalksSee, UNCHANGED aux, registered' \subseteq registered,
           \A c \in Cancellers : todo'[c] \subseteq todo[c] \cup registered,
           \A c \in Cancellers : seen'[c] \in {seen[c], Null},
           \A t \in Tasks : pc'[t] \in {"arm", "enqueue", "register"}
                               => pc[t] \in {"arm", "enqueue", "register"} /\ entry'[t] = entry[t]
    PROVE  WalksSee'
  <1>1. ASSUME NEW e, Unknown(e)
        PROVE  Unknown(e)'
    BY Zenon, <1>1 DEF Unknown
  <1> QED
    BY Zenon, <1>1 DEF WalksSee

\* the staged floors, likewise;
LEMMA StagedFrame ==
    ASSUME Staged, UNCHANGED aux,
           \A t \in Tasks : pc'[t] = "arm" \/ InWait(t)' =>
              (pc[t] = "arm" \/ InWait(t)) /\ entry'[t] = entry[t] /\ call'[t] = call[t],
           \A t \in Tasks : pc'[t] \in {"recheck", "release", "wait"} =>
              /\ pc[t] \in {"recheck", "release", "wait"}
              /\ entry[t] \in registered => entry[t] \in registered'
    PROVE  Staged'
  BY ZenonT(30) DEF Staged, InWait

\* the fit of claims and deliveries, by a step that claims nothing;
LEMMA FitsFrame ==
    ASSUME TypeOK, AtMostOneTicket, ClaimsFit, DeliveryFits,
           \A t \in Tasks : InWait(t) => call'[t] = call[t],
           \A t \in Tasks : wakes'[t] \in {wakes[t], <<>>},
           \A c \in Cancellers : towake'[c] \subseteq towake[c],
           \A c \in Cancellers : towake[c] # {} => sev'[c] = sev[c]
    PROVE  ClaimsFit' /\ DeliveryFits'
  <1>1. \A c \in Cancellers : \A w \in towake[c] : Owner(w.entry) \in Tasks /\ InWait(Owner(w.entry))
    BY EntryNames DEF TypeOK, AtMostOneTicket, Held
  <1>2. ClaimsFit'
    BY Zenon, <1>1 DEF ClaimsFit
  <1>3. \A t \in Tasks : wakes[t] # <<>> => call'[t] = call[t]
    BY Zenon DEF AtMostOneTicket
  <1>4. Len(<<>>) = 0
    BY Zenon
  <1>5. ASSUME NEW t \in Tasks, NEW i \in 1..Len(wakes'[t])
        PROVE  /\ wakes'[t][i].mode = "throw" => call'[t].kind \in {"cancel", "teardown"}
               /\ wakes'[t][i].mode = "request" =>
                    call'[t].kind = "value" /\ wakes'[t][i].sev >= call'[t].floor
    <2>1. wakes'[t] = wakes[t] /\ wakes[t] # <<>>
      BY <1>4, <1>5
    <2>2. call'[t] = call[t]
      BY Zenon, <1>3, <2>1
    <2> QED
      BY ZenonT(30), <1>5, <2>1, <2>2 DEF DeliveryFits
  <1>6. DeliveryFits'
    BY Zenon, <1>5 DEF DeliveryFits
  <1> QED
    BY Zenon, <1>2, <1>6

(* A wait that is suspended, armed and to be cancelled.                      *)
Doomed(t) ==
    /\ pc[t] \in {"release", "wait"}
    /\ waiting_on[t] # Null
    /\ call[t].kind # "shield"
    /\ Fires(state, call[t].floor)

(* Such waits were there before, and the walks that come for them still do.  *)
LEMMA ComingFrame ==
    ASSUME WalkComing,
           \A t \in Tasks : Doomed(t)' => Doomed(t),
           \A t \in Tasks, c \in Cancellers : Doomed(t)' /\ Coming(c, t) => Coming(c, t)'
    PROVE  WalkComing'
  BY Zenon DEF WalkComing, Doomed

\* and the walk to come, by a step of a task.
LEMMA TaskComingFrame ==
    ASSUME WalkComing, UNCHANGED <<state, sev, todo, seen>>,
           \A c \in Cancellers : pc'[c] = pc[c],
           \A t \in Tasks : pc'[t] \in {"release", "wait"} =>
              /\ pc[t] \in {"release", "wait"} /\ entry'[t] = entry[t] /\ call'[t] = call[t]
              /\ waiting_on'[t] \in {waiting_on[t], Null}
    PROVE  WalkComing'
  <1>1. \A t \in Tasks : Doomed(t)' => Doomed(t)
    BY Zenon DEF Doomed, Fires
  <1>2. \A t \in Tasks, c \in Cancellers : Doomed(t)' /\ Coming(c, t) => Coming(c, t)'
    BY Zenon DEF Doomed, Coming
  <1> QED
    BY Zenon, <1>1, <1>2, ComingFrame

(* A wake that is enqueued for a task that had none.                         *)
LEMMA FirstWake ==
    ASSUME NEW x \in Wakes
    PROVE  LET q == Append(<<>>, x) IN q \in Seq(Wakes) /\ Len(q) = 1 /\ q[1] = x /\ q # <<>>
  <1>1. <<>> \in Seq(Wakes) /\ Len(<<>>) = 0
    OBVIOUS
  <1>2. LET q == Append(<<>>, x) IN q \in Seq(Wakes) /\ Len(q) = 1 /\ q[1] = x
    BY <1>1
  <1> QED
    BY <1>1, <1>2

-----------------------------------------------------------------------------
(* The invariant holds initially, and every action preserves it *)

\* The invariant holds at the start.
LEMMA InitIInv == Init => IInv
  <1> SUFFICES ASSUME Init PROVE IInv
    BY Zenon
  <1> USE DEF Init
  <1>1. TypeOK
    <2>1. \A t \in Tasks : <<t, "plain">> \in Entries
      BY Zenon, EntryNames
    <2>2. aux \in [Entries -> Aux] /\ call \in [Tasks -> [kind : Kinds, floor : 0..5]]
      BY DEF Aux, Kinds
    <2>3. waitq \in Seq(Entries) /\ wakes \in [Tasks -> Seq(Wakes)]
      OBVIOUS
    <2> QED
      BY <2>1, <2>2, <2>3 DEF TypeOK, TaskLabels, NotifierLabels, CancellerLabels
  <1>2. Holders /\ Locals
    BY Zenon DEF Holders, Locals
  <1>3. EntryFits /\ Staged
    BY Zenon, EntryNames DEF EntryFits, Staged, InWait
  <1>4. AtMostOneTicket /\ SomeTicket
    BY Zenon DEF AtMostOneTicket, SomeTicket, InWait
  <1>5. QueueFits
    BY DEF QueueFits, Distinct, InQueue
  <1>6. WalksSee
    BY Zenon, EntryNames DEF WalksSee, Unknown
  <1>7. ClaimsFit /\ DeliveryFits /\ WalkComing
    BY DEF ClaimsFit, DeliveryFits, WalkComing
  <1> QED
    BY Zenon, <1>1, <1>2, <1>3, <1>4, <1>5, <1>6, <1>7 DEF IInv

-----------------------------------------------------------------------------
(* The steps of a waiting task preserve the invariant *)

\* A task takes the lock and calls wait.
LEMMA EnterIInv ==
    ASSUME NEW t \in Tasks, NEW k \in Calls, IInv, Enter(t, k)
    PROVE  IInv'
  <1> USE DEF IInv, source, cond, waiter, notifier, walker
  <1>1. pc[t] = "idle" /\ TaskAt(t, "call") /\ PcOK'
    BY Zenon, TaskMoves DEF Enter, TypeOK, PcOK, TaskLabels
  <1>2. /\ UNCHANGED <<state, walk_lock, registered, aux, waitq, waiting_on, wakes, entry, popped, all, sev, todo, seen, towake>>
        /\ lock = Null /\ lock' = t
        /\ \A u \in Tasks : u # t => call'[u] = call[u]
        /\ call' \in [Tasks -> [kind : Kinds, floor : 0..5]]
    BY Zenon, CallsKnown DEF Enter, TypeOK
  <1> USE <1>1, <1>2
  <1>3. TypeOK'
    BY Zenon DEF TypeOK, PcOK
  <1>4. Holders'
    BY Zenon, Names DEF Holders, TaskAt
  <1>5. Locals'
    BY Zenon, LocalsFrame DEF TaskAt
  <1>6. EntryFits'
    BY Zenon DEF EntryFits, TaskAt, InWait
  <1>7. AtMostOneTicket' /\ SomeTicket'
    BY Zenon, TicketsFrame DEF TaskAt, InWait
  <1>8. QueueFits'
    BY Zenon, QueueFrame DEF TaskAt, QueueLabels
  <1>9. WalksSee'
    BY Zenon, WalksSeeFrame DEF TaskAt
  <1>10. Staged'
    BY Zenon, StagedFrame DEF TaskAt, InWait
  <1>11. ClaimsFit' /\ DeliveryFits'
    BY Zenon, FitsFrame DEF TaskAt, InWait
  <1>12. WalkComing'
    BY Zenon, TaskComingFrame DEF TaskAt
  <1> QED
    BY Zenon, <1>3, <1>4, <1>5, <1>6, <1>7, <1>8, <1>9, <1>10, <1>11, <1>12

\* The public wait tests its token and may refuse.
LEMMA CheckArgIInv ==
    ASSUME NEW t \in Tasks, IInv, CheckArg(t)
    PROVE  IInv'
  <1> USE DEF IInv, source, cond, waiter, notifier, walker
  <1>1. pc[t] = "call" /\ TaskAt(t, pc'[t]) /\ PcOK'
        /\ pc'[t] \in {"return", "check"}
    BY Zenon, TaskMoves DEF CheckArg, TypeOK, PcOK, TaskAt, TaskLabels
  <1>2. /\ UNCHANGED <<state, walk_lock, registered, aux, lock, waitq, waiting_on, wakes, call, entry, popped, all, sev, todo, seen, towake>>
    BY Zenon DEF CheckArg, TypeOK
  <1> USE <1>1, <1>2
  <1>3. TypeOK'
    BY Zenon DEF TypeOK, PcOK
  <1>4. Holders'
    BY Zenon, Names DEF Holders, TaskAt
  <1>5. Locals'
    BY Zenon, LocalsFrame DEF TaskAt
  <1>6. EntryFits'
    BY Zenon DEF EntryFits, TaskAt, InWait
  <1>7. AtMostOneTicket' /\ SomeTicket'
    BY Zenon, TicketsFrame DEF TaskAt, InWait
  <1>8. QueueFits'
    BY Zenon, QueueFrame DEF TaskAt, QueueLabels
  <1>9. WalksSee'
    BY Zenon, WalksSeeFrame DEF TaskAt
  <1>10. Staged'
    BY Zenon, StagedFrame DEF TaskAt, InWait
  <1>11. ClaimsFit' /\ DeliveryFits'
    BY Zenon, FitsFrame DEF TaskAt, InWait
  <1>12. WalkComing'
    BY Zenon, TaskComingFrame DEF TaskAt
  <1> QED
    BY Zenon, <1>3, <1>4, <1>5, <1>6, <1>7, <1>8, <1>9, <1>10, <1>11, <1>12

\* The entry check refuses or completes the wait,
LEMMA CheckRefusesIInv ==
    ASSUME NEW t \in Tasks, IInv, Check(t), AtEntry(call[t])
    PROVE  IInv'
  <1> USE DEF IInv, source, cond, waiter, notifier, walker
  <1>1. pc[t] = "check" /\ TaskAt(t, pc'[t]) /\ PcOK'
        /\ pc'[t] \in {"return", "thrown"}
    BY Zenon, TaskMoves DEF Check, TypeOK, PcOK, TaskAt, TaskLabels
  <1>2. /\ UNCHANGED <<state, walk_lock, registered, aux, waitq, waiting_on, wakes, call, entry, popped, all, sev, todo, seen, towake>>
        /\ pc'[t] = "return" => lock' = lock
        /\ pc'[t] = "thrown" => lock' = Null
    BY Zenon, <1>1 DEF Check, TypeOK, Goto
  <1> USE <1>1, <1>2
  <1>3. TypeOK'
    BY Zenon DEF TypeOK, PcOK
  <1>4. Holders'
    BY Zenon, Names DEF Holders, TaskAt
  <1>5. Locals'
    BY Zenon, LocalsFrame DEF TaskAt
  <1>6. EntryFits'
    BY Zenon DEF EntryFits, TaskAt, InWait
  <1>7. AtMostOneTicket' /\ SomeTicket'
    BY Zenon, TicketsFrame DEF TaskAt, InWait
  <1>8. QueueFits'
    BY Zenon, QueueFrame DEF TaskAt, QueueLabels
  <1>9. WalksSee'
    BY Zenon, WalksSeeFrame DEF TaskAt
  <1>10. Staged'
    BY Zenon, StagedFrame DEF TaskAt, InWait
  <1>11. ClaimsFit' /\ DeliveryFits'
    BY Zenon, FitsFrame DEF TaskAt, InWait
  <1>12. WalkComing'
    BY Zenon, TaskComingFrame DEF TaskAt
  <1> QED
    BY Zenon, <1>3, <1>4, <1>5, <1>6, <1>7, <1>8, <1>9, <1>10, <1>11, <1>12

\* or gives it an entry and stages its floor,
LEMMA CheckArmsIInv ==
    ASSUME NEW t \in Tasks, IInv, Check(t), ~AtEntry(call[t])
    PROVE  IInv'
  <1> USE DEF IInv, source, cond, waiter, notifier, walker
  <1>1. pc[t] = "check" /\ TaskAt(t, "arm") /\ PcOK'
    BY Zenon, TaskMoves DEF Check, TypeOK, PcOK, TaskLabels
  <1>2. /\ UNCHANGED <<state, walk_lock, registered, lock, waitq, waiting_on, wakes, call, popped, all, sev, todo, seen, towake>>
    BY Zenon DEF Check, TypeOK
  <1>3. PICK e \in EntriesFor(t, call[t]) :
            /\ entry' = [entry EXCEPT ![t] = e]
            /\ aux' = IF call[t].kind \in {"cancel", "teardown"}
                      THEN [aux EXCEPT ![e] = [floor |-> call[t].floor, watcher |-> FALSE]]
                      ELSE aux
    BY Zenon DEF Check
  <1>4. call[t].kind \in Kinds /\ call[t].floor \in 0..5
    BY Zenon DEF TypeOK
  <1>5. ~Linked(<<t, "plain">>) /\ ~Linked(<<t, "cancel">>)
    BY Zenon, <1>1, <1>2, <1>3, <1>4, EntryNames DEF QueueFits, InQueue, Linked
  <1>6. /\ e \in Entries /\ Owner(e) = t
        /\ call[t].kind = "shield" => e = <<t, "plain">>
        /\ call[t].kind = "value" => e[2] \in Fresh /\ Unreachable(e)
        /\ call[t].kind \in {"cancel", "teardown"} => e = <<t, "cancel">>
    BY ZenonT(30), <1>3, <1>4, <1>5, EntryNames DEF EntriesFor, CachedOrNew, Kinds
  <1>7. /\ entry'[t] = e /\ entry' \in [Tasks -> Entries]
        /\ \A u \in Tasks : u # t => entry'[u] = entry[u]
    BY Zenon, <1>3, <1>6 DEF TypeOK
  <1>8. /\ aux' \in [Entries -> Aux]
        /\ \A f \in Entries : f # e => aux'[f] = aux[f]
        /\ call[t].kind \in {"cancel", "teardown"} => aux'[e] = [floor |-> call[t].floor, watcher |-> FALSE]
        /\ call[t].kind \in {"shield", "value"} => aux' = aux
    BY Zenon, <1>3, <1>4, <1>6 DEF TypeOK, Aux
  <1>9. TypeOK'
    BY Zenon, <1>1, <1>2, <1>7, <1>8 DEF TypeOK, PcOK
  <1>10. Holders'
    BY Zenon, <1>1, <1>2, Names DEF Holders, TaskAt
  <1>11. Locals'
    BY Zenon, <1>1, <1>2, LocalsFrame DEF TaskAt
  <1>12. EntryFits'
    BY <1>1, <1>2, <1>6, <1>7 DEF EntryFits, TaskAt, InWait
  <1>13. AtMostOneTicket' /\ SomeTicket'
    BY Zenon, <1>1, <1>2, <1>7, TicketsFrame DEF TaskAt, InWait
  <1>14. QueueFits'
    BY Zenon, <1>1, <1>2, <1>7, QueueFrame DEF TaskAt, QueueLabels
  <1>15. WalksSee'
    <2>1. \A f : Unknown(f)' <=> Unknown(f)
      BY Zenon, <1>2 DEF Unknown
    <2>2. e[2] \in Fresh => call[t].kind = "value"
      BY Zenon, <1>4, <1>6, EntryNames DEF Kinds
    <2>3. call[t].kind = "value" => Unknown(e)
      BY Zenon, <1>6 DEF Unreachable, Unknown
    <2>4. \A u \in Tasks : pc'[u] \in {"arm", "enqueue", "register"} /\ entry'[u][2] \in Fresh => Unknown(entry'[u])
      BY Zenon, <1>1, <1>7, <2>2, <2>3 DEF WalksSee, TaskAt
    <2>5. \A f \in Entries : aux'[f].watcher => f[2] \in Fresh
      BY <1>4, <1>8 DEF WalksSee, Kinds
    <2>6. \A f \in Entries : f[2] \in Fresh => aux'[f] = aux[f]
      BY Zenon, <1>4, <1>6, <1>8, EntryNames DEF Kinds
    <2>7. \A c \in Cancellers : seen[c] # Null => seen[c].entry \in Entries
      BY Zenon DEF TypeOK, Visits
    <2> QED
      BY Zenon, <1>2, <2>1, <2>4, <2>5, <2>6, <2>7 DEF WalksSee
  <1>16. Staged'
    <2>1. \A u \in Tasks : u # t => entry[u] \in Entries /\ entry[u] # e
      BY Zenon, <1>6 DEF TypeOK, EntryFits
    <2>2. \A u \in Tasks : u # t => aux'[entry'[u]] = aux[entry[u]] /\ entry'[u] = entry[u] /\ pc'[u] = pc[u]
      BY Zenon, <1>1, <1>7, <1>8, <2>1 DEF TaskAt
    <2>3. call[t].kind \in {"cancel", "teardown"} => aux'[entry'[t]] = [floor |-> call[t].floor, watcher |-> FALSE]
      BY Zenon, <1>7, <1>8
    <2>4. pc'[t] = "arm"
      BY Zenon, <1>1 DEF TaskAt
    <2> QED
      BY ZenonT(30), <1>2, <2>2, <2>3, <2>4 DEF Staged, InWait
  <1>17. ClaimsFit' /\ DeliveryFits'
    BY Zenon, <1>1, <1>2, FitsFrame DEF TaskAt, InWait
  <1>18. WalkComing'
    BY Zenon, <1>1, <1>2, <1>7, TaskComingFrame DEF TaskAt
  <1> QED
    BY Zenon, <1>9, <1>10, <1>11, <1>12, <1>13, <1>14, <1>15, <1>16, <1>17, <1>18

\* and does one of the two.
LEMMA CheckIInv ==
    ASSUME NEW t \in Tasks, IInv, Check(t)
    PROVE  IInv'
  BY Zenon, CheckRefusesIInv, CheckArmsIInv

\* Arming gives the task the ticket of its wait.
LEMMA ArmIInv ==
    ASSUME NEW t \in Tasks, IInv, Arm(t)
    PROVE  IInv'
  <1> USE DEF IInv, source, cond, waiter, notifier, walker
  <1>1. pc[t] = "arm" /\ TaskAt(t, "enqueue") /\ PcOK'
    BY Zenon, TaskMoves DEF Arm, TypeOK, PcOK, TaskLabels
  <1>2. /\ UNCHANGED <<state, walk_lock, registered, aux, lock, waitq, wakes, call, entry, popped, all, sev, todo, seen, towake>>
        /\ waiting_on[t] = Null /\ waiting_on'[t] = entry[t]
        /\ \A u \in Tasks : u # t => waiting_on'[u] = waiting_on[u]
        /\ waiting_on' \in [Tasks -> Entries \cup {Null}]
    BY Zenon DEF Arm, TypeOK
  <1> USE <1>1, <1>2
  <1>3. TypeOK'
    BY Zenon DEF TypeOK, PcOK
  <1>4. Holders'
    BY Zenon, Names DEF Holders, TaskAt
  <1>5. Locals'
    BY Zenon, LocalsFrame DEF TaskAt
  <1>6. EntryFits'
    BY Zenon DEF EntryFits, TaskAt, InWait
  <1>7. AtMostOneTicket' /\ SomeTicket'
    <2>1. \A e \in Entries : Held(e) => Owner(e) \in Tasks /\ Owner(e) # t
      BY Zenon, EntryNames DEF Held, InWait
    <2>2. \A e \in Entries : Held(e) => Held(e)'
      BY Zenon, <2>1 DEF Held, InWait, TaskAt
    <2>3. \A n \in Notifiers : popped[n] # Null => popped[n] \in Entries
      BY Zenon DEF TypeOK
    <2>4. \A c \in Cancellers : \A w \in towake[c] : w.entry \in Entries
      BY DEF TypeOK
    <2>5. wakes[t] = <<>> /\ waiting_on'[t] # Null
      BY Zenon, Names DEF AtMostOneTicket, InWait, TypeOK
    <2>6. \A u \in Tasks :
            /\ waiting_on'[u] # Null => waiting_on'[u] = entry'[u] /\ InWait(u)' /\ wakes'[u] = <<>>
            /\ wakes'[u] # <<>> => InWait(u)' /\ Len(wakes'[u]) = 1
      BY Zenon, <2>5 DEF AtMostOneTicket, InWait, TaskAt
    <2>7. AtMostOneTicket'
      BY Zenon, <2>2, <2>3, <2>4, <2>6, TicketsSame
    <2>8. SomeTicket'
      BY Zenon, <2>5 DEF SomeTicket, InWait, TaskAt
    <2> QED
      BY Zenon, <2>7, <2>8
  <1>8. QueueFits'
    BY Zenon, EntryNames DEF QueueFits, TaskAt
  <1>9. WalksSee'
    BY Zenon, WalksSeeFrame DEF TaskAt
  <1>10. Staged'
    BY Zenon, StagedFrame DEF TaskAt, InWait
  <1>11. ClaimsFit' /\ DeliveryFits'
    BY Zenon, FitsFrame DEF TaskAt, InWait
  <1>12. WalkComing'
    BY Zenon, TaskComingFrame DEF TaskAt
  <1> QED
    BY Zenon, <1>3, <1>4, <1>5, <1>6, <1>7, <1>8, <1>9, <1>10, <1>11, <1>12

\* The entry is linked, once.
LEMMA EnqueueIInv ==
    ASSUME NEW t \in Tasks, IInv, Enqueue(t)
    PROVE  IInv'
  <1> USE DEF IInv, source, cond, waiter, notifier, walker
  <1>1. pc[t] = "enqueue" /\ TaskAt(t, pc'[t]) /\ PcOK'
        /\ pc'[t] = IF call[t].kind = "shield" THEN "release" ELSE "register"
    BY Zenon, TaskMoves DEF Enqueue, TypeOK, PcOK, TaskAt, TaskLabels
  <1>2. /\ UNCHANGED <<state, walk_lock, registered, aux, lock, waiting_on, wakes, call, entry, popped, all, sev, todo, seen, towake>>
        /\ waitq' = Append(waitq, entry[t]) \/ waitq' = <<entry[t]>> \o waitq
        /\ entry[t] \in Entries /\ waitq \in Seq(Entries)
    BY Zenon DEF Enqueue, TypeOK
  <1>3. Distinct(waitq) /\ ~InQueue(waitq, entry[t])
    BY Zenon, <1>1, <1>2 DEF QueueFits, EntryFits
  <1>4. /\ waitq' \in Seq(Entries) /\ Distinct(waitq')
        /\ \A f \in Entries : InQueue(waitq', f) <=> InQueue(waitq, f) \/ f = entry[t]
    BY Zenon, <1>2, <1>3, PushEntry
  <1> USE <1>1, <1>2, <1>3, <1>4
  <1>5. TypeOK'
    BY Zenon DEF TypeOK, PcOK
  <1>6. Holders'
    BY Zenon, Names DEF Holders, TaskAt
  <1>7. Locals'
    BY Zenon, LocalsFrame DEF TaskAt
  <1>8. EntryFits'
    BY Zenon DEF EntryFits, TaskAt, InWait
  <1>9. AtMostOneTicket' /\ SomeTicket'
    BY Zenon, TicketsFrame DEF TaskAt, InWait
  <1>10. QueueFits'
    <2>1. \A u \in Tasks : waiting_on[u] # Null => waiting_on[u] \in Entries /\ waiting_on[u] = entry[u]
      BY Zenon DEF TypeOK, AtMostOneTicket
    <2>2. \A u \in Tasks : waiting_on[u] # Null /\ pc'[u] # "enqueue" => InQueue(waitq', waiting_on[u])
      BY Zenon, <2>1 DEF QueueFits, TaskAt
    <2>3. \A f \in Entries : InQueue(waitq', f) =>
            /\ f = entry[Owner(f)]
            /\ pc'[Owner(f)] \in {"register", "recheck", "release", "wait", "relock", "cleanup"}
      BY EntryNames DEF QueueFits, EntryFits, TaskAt
    <2> QED
      BY Zenon, <2>2, <2>3 DEF QueueFits
  <1>11. WalksSee'
    BY Zenon, WalksSeeFrame DEF TaskAt
  <1>12. Staged'
    BY Zenon DEF Staged, InWait, TaskAt
  <1>13. ClaimsFit' /\ DeliveryFits'
    BY Zenon, FitsFrame DEF TaskAt, InWait
  <1>14. WalkComing'
    <2>1. \A u \in Tasks : Doomed(u)' => Doomed(u)
      BY Zenon DEF TaskAt, Doomed, Fires
    <2>2. \A u \in Tasks, c \in Cancellers : Doomed(u)' /\ Coming(c, u) => Coming(c, u)'
      BY Zenon DEF TaskAt, Coming
    <2> QED
      BY Zenon, <2>1, <2>2, ComingFrame
  <1> QED
    BY Zenon, <1>5, <1>6, <1>7, <1>8, <1>9, <1>10, <1>11, <1>12, <1>13, <1>14

\* Once registered, a walk that reads the head from now on sees it.
LEMMA RegisterIInv ==
    ASSUME NEW t \in Tasks, IInv, Register(t)
    PROVE  IInv'
  <1> USE DEF IInv, source, cond, waiter, notifier, walker
  <1>1. pc[t] = "register" /\ TaskAt(t, "recheck") /\ PcOK'
    BY Zenon, TaskMoves DEF Register, TypeOK, PcOK, TaskLabels
  <1>2. /\ UNCHANGED <<state, walk_lock, lock, waitq, waiting_on, wakes, call, entry, popped, all, sev, todo, seen, towake>>
        /\ registered' = registered \cup {entry[t]}
        /\ entry[t] \in Entries /\ call[t].kind \in Kinds
        /\ aux' \in [Entries -> Aux]
        /\ \A f \in Entries : f # entry[t] => aux'[f] = aux[f]
        /\ IF entry[t] \in registered THEN aux' = aux
           ELSE aux'[entry[t]] = [floor |-> call[t].floor, watcher |-> call[t].kind = "value"]
    BY Zenon DEF Register, TypeOK, Aux
  <1>3. /\ call[t].kind # "shield" /\ Owner(entry[t]) = t
        /\ call[t].kind = "value" => entry[t][2] \in Fresh
        /\ call[t].kind \in {"cancel", "teardown"} => entry[t] = <<t, "cancel">>
    BY Zenon, <1>1, <1>2 DEF EntryFits, InWait
  <1> USE <1>2, <1>3
  <1>4. entry[t][2] \in Fresh => Unknown(entry[t])
    BY Zenon, <1>1 DEF WalksSee
  <1>5. \A u \in Tasks : u # t => entry[u] # entry[t] /\ entry[u] \in Entries
    BY Zenon DEF EntryFits, TypeOK
  <1>6. TypeOK'
    BY Zenon, <1>1, <1>4, <1>5 DEF TypeOK, PcOK
  <1>7. Holders'
    BY ZenonT(30), <1>1, <1>4, <1>5, Names DEF Holders, TaskAt
  <1>8. Locals'
    BY Zenon, <1>1, <1>4, <1>5, LocalsFrame DEF TaskAt
  <1>9. EntryFits'
    BY Zenon, <1>1, <1>4, <1>5 DEF EntryFits, TaskAt, InWait
  <1>10. AtMostOneTicket' /\ SomeTicket'
    BY Zenon, <1>1, <1>4, <1>5, TicketsFrame DEF TaskAt, InWait
  <1>11. QueueFits'
    BY Zenon, <1>1, <1>4, <1>5, QueueFrame DEF TaskAt, QueueLabels
  <1>12. WalksSee'
    <2>1. \A f : f # entry[t] => (Unknown(f)' <=> Unknown(f))
      BY Zenon DEF Unknown
    <2>2. \A u \in Tasks : <<u, "plain">> # entry[t]
      <3>1. \A u \in Tasks : Owner(<<u, "plain">>) = u /\ <<u, "plain">>[2] \notin Fresh
        BY Zenon, EntryNames
      <3>2. <<t, "plain">> # entry[t]
        BY Zenon, <3>1, EntryNames DEF Kinds
      <3> QED
        BY Zenon, <3>1, <3>2
    <2>3. \A f \in Entries : aux'[f].watcher => f[2] \in Fresh
      <3>1. aux'[entry[t]].watcher => entry[t][2] \in Fresh
        <4>1. CASE entry[t] \in registered
          BY Zenon, <4>1 DEF WalksSee
        <4>2. CASE entry[t] \notin registered
          <5>1. aux'[entry[t]].watcher = (call[t].kind = "value")
            <6>1. aux'[entry[t]] = [floor |-> call[t].floor, watcher |-> call[t].kind = "value"]
              BY Zenon, <4>2
            <6> HIDE <1>2, <1>3
            <6> QED
              BY <6>1
          <5> QED
            BY Zenon, <5>1
        <4> QED
          BY Zenon, <4>1, <4>2
      <3> QED
        BY Zenon, <3>1 DEF WalksSee
    <2>4. ASSUME NEW c \in Cancellers, seen[c] # Null
          PROVE  /\ seen[c].aux.watcher => seen[c].entry[2] \in Fresh
                 /\ seen[c].entry[2] \in Fresh => seen[c].aux = aux'[seen[c].entry]
      <3>1. seen[c].entry \in Entries
        BY Zenon, <2>4 DEF TypeOK, Visits
      <3>2. seen[c].entry[2] \in Fresh => seen[c].entry # entry[t]
        BY Zenon, <1>4, <2>4 DEF Unknown
      <3> QED
        BY Zenon, <2>4, <3>1, <3>2 DEF WalksSee
    <2>5. \A u \in Tasks : pc'[u] \in {"arm", "enqueue", "register"} /\ entry[u][2] \in Fresh => Unknown(entry[u])'
      BY Zenon, <1>1, <1>5, <2>1 DEF WalksSee, TaskAt
    <2>6. \A u \in Tasks : Unknown(<<u, "plain">>)'
      BY Zenon, <2>1, <2>2 DEF WalksSee
    <2> QED
      BY Zenon, <2>3, <2>4, <2>5, <2>6 DEF WalksSee
  <1>13. Staged'
    <2>1. call[t].kind \in {"cancel", "teardown"} => aux'[entry[t]] = [floor |-> call[t].floor, watcher |-> FALSE]
      BY Zenon, <1>1, <1>4, <1>5 DEF Staged, InWait
    <2>2. call[t].kind = "value" => aux'[entry[t]] = [floor |-> call[t].floor, watcher |-> TRUE]
      BY Zenon, <1>1, <1>4, <1>5 DEF Unknown
    <2> QED
      BY ZenonT(30), <1>1, <1>4, <1>5, <2>1, <2>2 DEF Staged, InWait, TaskAt
  <1>14. ClaimsFit' /\ DeliveryFits'
    BY Zenon, <1>1, <1>4, <1>5, FitsFrame DEF TaskAt, InWait
  <1>15. WalkComing'
    BY Zenon, <1>1, <1>4, <1>5, TaskComingFrame DEF TaskAt
  <1> QED
    BY Zenon, <1>6, <1>7, <1>8, <1>9, <1>10, <1>11, <1>12, <1>13, <1>14, <1>15

\* The recheck wins its own claim and withdraws,
LEMMA RecheckFiresIInv ==
    ASSUME NEW t \in Tasks, IInv, Recheck(t), Fired(t)
    PROVE  IInv'
  <1> USE DEF IInv, source, cond, waiter, notifier, walker
  <1>1. pc[t] = "recheck" /\ TaskAt(t, pc'[t]) /\ PcOK'
        /\ pc'[t] \in {"return", "thrown"}
    BY Zenon, TaskMoves DEF Recheck, Fired, Retired, TypeOK, PcOK, TaskAt, TaskLabels
  <1>2. /\ UNCHANGED <<state, walk_lock, aux, wakes, call, entry, popped, all, sev, todo, seen, towake>>
        /\ pc'[t] = "return" => lock' = lock
        /\ pc'[t] = "thrown" => lock' = Null
        /\ registered' \subseteq registered /\ registered \ {entry[t]} \subseteq registered'
        /\ waitq' = Unlink(waitq, entry[t])
        /\ waiting_on[t] = entry[t] /\ waiting_on'[t] = Null /\ waiting_on' \in [Tasks -> Entries \cup {Null}]
        /\ \A u \in Tasks : u # t => waiting_on'[u] = waiting_on[u]
    BY Zenon, <1>1 DEF Recheck, Fired, Retired, TypeOK, Goto, TaskAt
  <1>3. Distinct(waitq) /\ waitq \in Seq(Entries) /\ entry[t] \in Entries /\ Owner(entry[t]) = t
    BY Zenon DEF QueueFits, TypeOK, EntryFits
  <1>4. /\ waitq' \in Seq(Entries) /\ Distinct(waitq')
        /\ \A f \in Entries : InQueue(waitq', f) <=> InQueue(waitq, f) /\ f # entry[t]
    BY Zenon, <1>2, <1>3, UnlinkEntry
  <1>5. \A u \in Tasks : u # t => entry[u] # entry[t] /\ entry[u] \in Entries
    BY Zenon DEF EntryFits, TypeOK
  <1> USE <1>1, <1>2, <1>3, <1>4, <1>5
  <1>6. TypeOK'
    BY Zenon DEF TypeOK, PcOK
  <1>7. Holders'
    BY ZenonT(30), Names DEF Holders, TaskAt
  <1>8. Locals'
    BY Zenon, LocalsFrame DEF TaskAt
  <1>9. EntryFits'
    BY Zenon DEF EntryFits, TaskAt, InWait
  <1>10. AtMostOneTicket' /\ SomeTicket'
    <2>1. \A e \in Entries : Held(e) => Owner(e) \in Tasks /\ Owner(e) # t
      BY Zenon, EntryNames, Names DEF Held
    <2>2. \A e \in Entries : Held(e) => Held(e)'
      BY Zenon, <2>1 DEF Held, InWait, TaskAt
    <2>3. \A n \in Notifiers : popped[n] # Null => popped[n] \in Entries
      BY Zenon DEF TypeOK
    <2>4. \A c \in Cancellers : \A w \in towake[c] : w.entry \in Entries
      BY DEF TypeOK
    <2>5. wakes[t] = <<>>
      BY Zenon, Names DEF AtMostOneTicket
    <2>6. \A u \in Tasks :
            /\ waiting_on'[u] # Null => waiting_on'[u] = entry'[u] /\ InWait(u)' /\ wakes'[u] = <<>>
            /\ wakes'[u] # <<>> => InWait(u)' /\ Len(wakes'[u]) = 1
      BY Zenon, <2>5 DEF AtMostOneTicket, InWait, TaskAt
    <2>7. AtMostOneTicket'
      BY Zenon, <2>2, <2>3, <2>4, <2>6, TicketsSame
    <2>8. SomeTicket'
      BY Zenon DEF SomeTicket, InWait, TaskAt
    <2> QED
      BY Zenon, <2>7, <2>8
  <1>11. QueueFits'
    <2>1. \A u \in Tasks : waiting_on'[u] # Null =>
            u # t /\ waiting_on'[u] = waiting_on[u] /\ waiting_on[u] \in Entries /\ waiting_on[u] = entry[u]
      BY Zenon DEF TypeOK, AtMostOneTicket, InWait
    <2>2. \A u \in Tasks : waiting_on'[u] # Null /\ pc'[u] # "enqueue" => InQueue(waitq', waiting_on'[u])
      BY Zenon, <2>1 DEF QueueFits, TaskAt
    <2>3. \A f \in Entries : InQueue(waitq', f) =>
            /\ f = entry[Owner(f)]
            /\ pc'[Owner(f)] \in {"register", "recheck", "release", "wait", "relock", "cleanup"}
      BY EntryNames DEF QueueFits, TaskAt
    <2> QED
      BY Zenon, <2>2, <2>3 DEF QueueFits
  <1>12. WalksSee'
    BY Zenon, WalksSeeFrame DEF TaskAt
  <1>13. Staged'
    BY Zenon, StagedFrame DEF TaskAt, InWait
  <1>14. ClaimsFit' /\ DeliveryFits'
    BY Zenon, FitsFrame DEF TaskAt, InWait
  <1>15. WalkComing'
    BY Zenon, TaskComingFrame DEF TaskAt
  <1> QED
    BY Zenon, <1>6, <1>7, <1>8, <1>9, <1>10, <1>11, <1>12, <1>13, <1>14, <1>15

\* or finds nothing, or has lost: then a wake is on its way,
LEMMA RecheckPassesIInv ==
    ASSUME NEW t \in Tasks, IInv, Recheck(t), ~Fired(t)
    PROVE  IInv'
  <1> USE DEF IInv, source, cond, waiter, notifier, walker
  <1>1. pc[t] = "recheck" /\ TaskAt(t, "release") /\ PcOK'
    BY Zenon, TaskMoves DEF Recheck, TypeOK, PcOK, TaskLabels
  <1>2. /\ UNCHANGED <<state, walk_lock, registered, aux, lock, waitq, waiting_on, wakes, call, entry, popped, all, sev, todo, seen, towake>>
        /\ ~Fired(t)
    BY Zenon DEF Recheck, TypeOK
  <1> USE <1>1, <1>2
  <1>3. TypeOK'
    BY Zenon DEF TypeOK, PcOK
  <1>4. Holders'
    BY Zenon, Names DEF Holders, TaskAt
  <1>5. Locals'
    BY Zenon, LocalsFrame DEF TaskAt
  <1>6. EntryFits'
    BY Zenon DEF EntryFits, TaskAt, InWait
  <1>7. AtMostOneTicket' /\ SomeTicket'
    BY Zenon, TicketsFrame DEF TaskAt, InWait
  <1>8. QueueFits'
    BY Zenon, QueueFrame DEF TaskAt, QueueLabels
  <1>9. WalksSee'
    BY Zenon, WalksSeeFrame DEF TaskAt
  <1>10. Staged'
    BY Zenon, StagedFrame DEF TaskAt, InWait
  <1>11. ClaimsFit' /\ DeliveryFits'
    BY Zenon, FitsFrame DEF TaskAt, InWait
  <1>12. WalkComing'
    <2>1. waiting_on[t] # Null => ~Fires(state, call[t].floor)
      BY Zenon DEF Fired, AtMostOneTicket
    <2>2. \A u \in Tasks : Doomed(u)' => Doomed(u)
      BY Zenon, <2>1 DEF TaskAt, Doomed, Fires
    <2>3. \A u \in Tasks, c \in Cancellers : Doomed(u)' /\ Coming(c, u) => Coming(c, u)'
      BY Zenon DEF TaskAt, Coming
    <2> QED
      BY Zenon, <2>2, <2>3, ComingFrame
  <1> QED
    BY Zenon, <1>3, <1>4, <1>5, <1>6, <1>7, <1>8, <1>9, <1>10, <1>11, <1>12

\* and does one of the two.
LEMMA RecheckIInv ==
    ASSUME NEW t \in Tasks, IInv, Recheck(t)
    PROVE  IInv'
  BY Zenon, RecheckFiresIInv, RecheckPassesIInv

\* The wait releases the lock.
LEMMA ReleaseIInv ==
    ASSUME NEW t \in Tasks, IInv, Release(t)
    PROVE  IInv'
  <1> USE DEF IInv, source, cond, waiter, notifier, walker
  <1>1. pc[t] = "release" /\ TaskAt(t, "wait") /\ PcOK'
    BY Zenon, TaskMoves DEF Release, TypeOK, PcOK, TaskLabels
  <1>2. /\ UNCHANGED <<state, walk_lock, registered, aux, waitq, waiting_on, wakes, call, entry, popped, all, sev, todo, seen, towake>>
        /\ lock' = Null
    BY Zenon DEF Release, TypeOK
  <1> USE <1>1, <1>2
  <1>3. TypeOK'
    BY Zenon DEF TypeOK, PcOK
  <1>4. Holders'
    BY Zenon, Names DEF Holders, TaskAt
  <1>5. Locals'
    BY Zenon, LocalsFrame DEF TaskAt
  <1>6. EntryFits'
    BY Zenon DEF EntryFits, TaskAt, InWait
  <1>7. AtMostOneTicket' /\ SomeTicket'
    BY Zenon, TicketsFrame DEF TaskAt, InWait
  <1>8. QueueFits'
    BY Zenon, QueueFrame DEF TaskAt, QueueLabels
  <1>9. WalksSee'
    BY Zenon, WalksSeeFrame DEF TaskAt
  <1>10. Staged'
    BY Zenon, StagedFrame DEF TaskAt, InWait
  <1>11. ClaimsFit' /\ DeliveryFits'
    BY Zenon, FitsFrame DEF TaskAt, InWait
  <1>12. WalkComing'
    BY Zenon, TaskComingFrame DEF TaskAt
  <1> QED
    BY Zenon, <1>3, <1>4, <1>5, <1>6, <1>7, <1>8, <1>9, <1>10, <1>11, <1>12

\* The task consumes the one wake it has.
LEMMA ResumeIInv ==
    ASSUME NEW t \in Tasks, IInv, Resume(t)
    PROVE  IInv'
  <1> USE DEF IInv, source, cond, waiter, notifier, walker
  <1>1. pc[t] = "wait" /\ TaskAt(t, pc'[t]) /\ PcOK'
        /\ pc'[t] \in {"cleanup", "relock"}
    BY Zenon, TaskMoves DEF Resume, TypeOK, PcOK, TaskAt, TaskLabels
  <1>2. /\ UNCHANGED <<state, walk_lock, registered, aux, lock, waitq, waiting_on, call, entry, popped, all, sev, todo, seen, towake>>
        /\ wakes[t] # <<>> /\ wakes'[t] = Tail(wakes[t])
        /\ \A u \in Tasks : u # t => wakes'[u] = wakes[u]
        /\ wakes' \in [Tasks -> Seq(Wakes)]
    BY SMTT(30) DEF Resume, TypeOK
  <1>3. waiting_on[t] = Null /\ wakes'[t] = <<>>
    <2>1. Len(wakes[t]) = 1 /\ wakes[t] \in Seq(Wakes) /\ waiting_on[t] = Null
      BY Zenon, <1>1, <1>2 DEF AtMostOneTicket, TypeOK
    <2>2. Tail(wakes[t]) \in Seq(Wakes) /\ Len(Tail(wakes[t])) = 0
      BY <1>2, <2>1
    <2> QED
      BY <1>1, <1>2, <2>1, <2>2
  <1> USE <1>1, <1>2, <1>3
  <1>4. TypeOK'
    BY Zenon DEF TypeOK, PcOK
  <1>5. Holders'
    BY Zenon, Names DEF Holders, TaskAt
  <1>6. Locals'
    BY Zenon, LocalsFrame DEF TaskAt
  <1>7. EntryFits'
    BY Zenon DEF EntryFits, TaskAt, InWait
  <1>8. AtMostOneTicket' /\ SomeTicket'
    <2>1. \A e \in Entries : Held(e) => Owner(e) \in Tasks /\ Owner(e) # t
      BY Zenon, EntryNames DEF Held
    <2>2. \A e \in Entries : Held(e) => Held(e)'
      BY Zenon, <2>1 DEF Held, InWait, TaskAt
    <2>3. \A n \in Notifiers : popped[n] # Null => popped[n] \in Entries
      BY Zenon DEF TypeOK
    <2>4. \A c \in Cancellers : \A w \in towake[c] : w.entry \in Entries
      BY DEF TypeOK
    <2>6. \A u \in Tasks :
            /\ waiting_on'[u] # Null => waiting_on'[u] = entry'[u] /\ InWait(u)' /\ wakes'[u] = <<>>
            /\ wakes'[u] # <<>> => InWait(u)' /\ Len(wakes'[u]) = 1
      BY ZenonT(30) DEF AtMostOneTicket, InWait, TaskAt
    <2>7. AtMostOneTicket'
      BY Zenon, <2>2, <2>3, <2>4, <2>6, TicketsSame
    <2>8. SomeTicket'
      BY Zenon DEF SomeTicket, InWait, TaskAt
    <2> QED
      BY Zenon, <2>7, <2>8
  <1>9. QueueFits'
    BY Zenon, QueueFrame DEF TaskAt, QueueLabels
  <1>10. WalksSee'
    BY Zenon, WalksSeeFrame DEF TaskAt
  <1>11. Staged'
    BY Zenon, StagedFrame DEF TaskAt, InWait
  <1>12. ClaimsFit' /\ DeliveryFits'
    BY Zenon, FitsFrame DEF TaskAt, InWait
  <1>13. WalkComing'
    BY Zenon, TaskComingFrame DEF TaskAt
  <1> QED
    BY Zenon, <1>4, <1>5, <1>6, <1>7, <1>8, <1>9, <1>10, <1>11, <1>12, <1>13

\* A normal wake takes the lock again and withdraws the entry.
LEMMA RelockIInv ==
    ASSUME NEW t \in Tasks, IInv, Relock(t)
    PROVE  IInv'
  <1> USE DEF IInv, source, cond, waiter, notifier, walker
  <1>1. pc[t] = "relock" /\ TaskAt(t, "return") /\ PcOK'
    BY Zenon, TaskMoves DEF Relock, Settled, Retired, TypeOK, PcOK, TaskLabels
  <1>2. /\ UNCHANGED <<state, walk_lock, aux, waiting_on, wakes, call, entry, popped, all, sev, todo, seen, towake>>
        /\ lock = Null /\ lock' = t
        /\ waitq' = Unlink(waitq, entry[t])
        /\ registered' \subseteq registered /\ registered \ {entry[t]} \subseteq registered'
    BY Zenon DEF Relock, Settled, Retired, TypeOK
  <1>3. Distinct(waitq) /\ waitq \in Seq(Entries) /\ entry[t] \in Entries /\ Owner(entry[t]) = t
    BY Zenon DEF QueueFits, TypeOK, EntryFits
  <1>4. /\ waitq' \in Seq(Entries) /\ Distinct(waitq')
        /\ \A f \in Entries : InQueue(waitq', f) <=> InQueue(waitq, f) /\ f # entry[t]
    BY Zenon, <1>2, <1>3, UnlinkEntry
  <1>5. \A u \in Tasks : u # t => entry[u] # entry[t] /\ entry[u] \in Entries
    BY Zenon DEF EntryFits, TypeOK
  <1> USE <1>1, <1>2, <1>3, <1>4, <1>5
  <1>6. TypeOK'
    BY Zenon DEF TypeOK, PcOK
  <1>7. Holders'
    BY Zenon, Names DEF Holders, TaskAt
  <1>8. Locals'
    BY Zenon, LocalsFrame DEF TaskAt
  <1>9. EntryFits'
    BY Zenon DEF EntryFits, TaskAt, InWait
  <1>10. AtMostOneTicket' /\ SomeTicket'
    BY Zenon, TicketsFrame DEF TaskAt, InWait
  <1>11. QueueFits'
    <2>1. \A u \in Tasks : waiting_on'[u] # Null =>
            u # t /\ waiting_on'[u] = waiting_on[u] /\ waiting_on[u] \in Entries /\ waiting_on[u] = entry[u]
      BY Zenon DEF TypeOK, AtMostOneTicket, InWait
    <2>2. \A u \in Tasks : waiting_on'[u] # Null /\ pc'[u] # "enqueue" => InQueue(waitq', waiting_on'[u])
      BY Zenon, <2>1 DEF QueueFits, TaskAt
    <2>3. \A f \in Entries : InQueue(waitq', f) =>
            /\ f = entry[Owner(f)]
            /\ pc'[Owner(f)] \in {"register", "recheck", "release", "wait", "relock", "cleanup"}
      BY ZenonT(30), EntryNames DEF QueueFits, TaskAt
    <2> QED
      BY Zenon, <2>2, <2>3 DEF QueueFits
  <1>12. WalksSee'
    BY Zenon, WalksSeeFrame DEF TaskAt
  <1>13. Staged'
    BY Zenon, StagedFrame DEF TaskAt, InWait
  <1>14. ClaimsFit' /\ DeliveryFits'
    BY Zenon, FitsFrame DEF TaskAt, InWait
  <1>15. WalkComing'
    BY Zenon, TaskComingFrame DEF TaskAt
  <1> QED
    BY Zenon, <1>6, <1>7, <1>8, <1>9, <1>10, <1>11, <1>12, <1>13, <1>14, <1>15

\* An interrupted wait disarms, unlinks and drops its wake.
LEMMA CleanupIInv ==
    ASSUME NEW t \in Tasks, IInv, Cleanup(t)
    PROVE  IInv'
  <1> USE DEF IInv, source, cond, waiter, notifier, walker
  <1>1. pc[t] = "cleanup" /\ TaskAt(t, "thrown") /\ PcOK'
    BY Zenon, TaskMoves DEF Cleanup, Retired, Unqueued, TypeOK, PcOK, TaskLabels
  <1>2. /\ UNCHANGED <<state, walk_lock, aux, lock, call, entry, popped, all, sev, todo, seen, towake>>
        /\ waitq' = Unlink(waitq, entry[t])
        /\ registered' \subseteq registered /\ registered \ {entry[t]} \subseteq registered'
        /\ UNCHANGED <<waiting_on, wakes>>
    BY ZenonT(30), <1>1 DEF Cleanup, Retired, Unqueued, TypeOK, AtMostOneTicket, InWait
  <1>3. Distinct(waitq) /\ waitq \in Seq(Entries) /\ entry[t] \in Entries /\ Owner(entry[t]) = t
    BY Zenon DEF QueueFits, TypeOK, EntryFits
  <1>4. /\ waitq' \in Seq(Entries) /\ Distinct(waitq')
        /\ \A f \in Entries : InQueue(waitq', f) <=> InQueue(waitq, f) /\ f # entry[t]
    BY Zenon, <1>2, <1>3, UnlinkEntry
  <1>5. \A u \in Tasks : u # t => entry[u] # entry[t] /\ entry[u] \in Entries
    BY Zenon DEF EntryFits, TypeOK
  <1> USE <1>1, <1>2, <1>3, <1>4, <1>5
  <1>6. TypeOK'
    BY Zenon DEF TypeOK, PcOK
  <1>7. Holders'
    BY Zenon, Names DEF Holders, TaskAt
  <1>8. Locals'
    BY Zenon, LocalsFrame DEF TaskAt
  <1>9. EntryFits'
    BY Zenon DEF EntryFits, TaskAt, InWait
  <1>10. AtMostOneTicket' /\ SomeTicket'
    BY Zenon, TicketsFrame DEF TaskAt, InWait
  <1>11. QueueFits'
    <2>1. \A u \in Tasks : waiting_on'[u] # Null =>
            u # t /\ waiting_on'[u] = waiting_on[u] /\ waiting_on[u] \in Entries /\ waiting_on[u] = entry[u]
      BY Zenon DEF TypeOK, AtMostOneTicket, InWait
    <2>2. \A u \in Tasks : waiting_on'[u] # Null /\ pc'[u] # "enqueue" => InQueue(waitq', waiting_on'[u])
      BY Zenon, <2>1 DEF QueueFits, TaskAt
    <2>3. \A f \in Entries : InQueue(waitq', f) =>
            /\ f = entry[Owner(f)]
            /\ pc'[Owner(f)] \in {"register", "recheck", "release", "wait", "relock", "cleanup"}
      BY ZenonT(30), EntryNames DEF QueueFits, TaskAt
    <2> QED
      BY Zenon, <2>2, <2>3 DEF QueueFits
  <1>12. WalksSee'
    BY Zenon, WalksSeeFrame DEF TaskAt
  <1>13. Staged'
    BY Zenon, StagedFrame DEF TaskAt, InWait
  <1>14. ClaimsFit' /\ DeliveryFits'
    BY Zenon, FitsFrame DEF TaskAt, InWait
  <1>15. WalkComing'
    BY Zenon, TaskComingFrame DEF TaskAt
  <1> QED
    BY Zenon, <1>6, <1>7, <1>8, <1>9, <1>10, <1>11, <1>12, <1>13, <1>14, <1>15

\* An exception leaves the wait.
LEMMA ThrownIInv ==
    ASSUME NEW t \in Tasks, IInv, Thrown(t)
    PROVE  IInv'
  <1> USE DEF IInv, source, cond, waiter, notifier, walker
  <1>1. pc[t] = "thrown" /\ TaskAt(t, pc'[t]) /\ PcOK'
        /\ pc'[t] \in {"idle", "return"}
    BY Zenon, TaskMoves DEF Thrown, TypeOK, PcOK, TaskAt, TaskLabels
  <1>2. /\ UNCHANGED <<state, walk_lock, registered, aux, waitq, waiting_on, wakes, call, entry, popped, all, sev, todo, seen, towake>>
        /\ pc'[t] = "idle" => lock' = lock
        /\ pc'[t] = "return" => lock = Null /\ lock' = t
    BY Zenon, <1>1 DEF Thrown, TypeOK, Goto, TaskAt
  <1> USE <1>1, <1>2
  <1>3. TypeOK'
    BY Zenon DEF TypeOK, PcOK
  <1>4. Holders'
    BY Zenon, Names DEF Holders, TaskAt
  <1>5. Locals'
    BY Zenon, LocalsFrame DEF TaskAt
  <1>6. EntryFits'
    BY Zenon DEF EntryFits, TaskAt, InWait
  <1>7. AtMostOneTicket' /\ SomeTicket'
    BY Zenon, TicketsFrame DEF TaskAt, InWait
  <1>8. QueueFits'
    BY Zenon, QueueFrame DEF TaskAt, QueueLabels
  <1>9. WalksSee'
    BY Zenon, WalksSeeFrame DEF TaskAt
  <1>10. Staged'
    BY Zenon, StagedFrame DEF TaskAt, InWait
  <1>11. ClaimsFit' /\ DeliveryFits'
    BY Zenon, FitsFrame DEF TaskAt, InWait
  <1>12. WalkComing'
    BY Zenon, TaskComingFrame DEF TaskAt
  <1> QED
    BY Zenon, <1>3, <1>4, <1>5, <1>6, <1>7, <1>8, <1>9, <1>10, <1>11, <1>12

\* The caller releases the lock.
LEMMA ReturnIInv ==
    ASSUME NEW t \in Tasks, IInv, Return(t)
    PROVE  IInv'
  <1> USE DEF IInv, source, cond, waiter, notifier, walker
  <1>1. pc[t] = "return" /\ TaskAt(t, "idle") /\ PcOK'
    BY Zenon, TaskMoves DEF Return, TypeOK, PcOK, TaskLabels
  <1>2. /\ UNCHANGED <<state, walk_lock, registered, aux, waitq, waiting_on, wakes, call, entry, popped, all, sev, todo, seen, towake>>
        /\ lock' = Null
    BY Zenon DEF Return, TypeOK
  <1> USE <1>1, <1>2
  <1>3. TypeOK'
    BY Zenon DEF TypeOK, PcOK
  <1>4. Holders'
    BY Zenon, Names DEF Holders, TaskAt
  <1>5. Locals'
    BY Zenon, LocalsFrame DEF TaskAt
  <1>6. EntryFits'
    BY Zenon DEF EntryFits, TaskAt, InWait
  <1>7. AtMostOneTicket' /\ SomeTicket'
    BY Zenon, TicketsFrame DEF TaskAt, InWait
  <1>8. QueueFits'
    BY Zenon, QueueFrame DEF TaskAt, QueueLabels
  <1>9. WalksSee'
    BY Zenon, WalksSeeFrame DEF TaskAt
  <1>10. Staged'
    BY Zenon, StagedFrame DEF TaskAt, InWait
  <1>11. ClaimsFit' /\ DeliveryFits'
    BY Zenon, FitsFrame DEF TaskAt, InWait
  <1>12. WalkComing'
    BY Zenon, TaskComingFrame DEF TaskAt
  <1> QED
    BY Zenon, <1>3, <1>4, <1>5, <1>6, <1>7, <1>8, <1>9, <1>10, <1>11, <1>12

-----------------------------------------------------------------------------
(* The steps of notifiers and of cancellers *)

\* The locals of the others stay as they are in a step of canceller c.
LEMMA LocalsStep ==
    ASSUME Locals, NEW c \in Cancellers,
           \A n \in Notifiers : popped'[n] = popped[n] /\ pc'[n] = pc[n],
           \A d \in Cancellers : d # c => /\ pc'[d] = pc[d] /\ sev'[d] = sev[d]
                                          /\ todo'[d] = todo[d] /\ seen'[d] = seen[d] /\ towake'[d] = towake[d],
           seen'[c] # Null <=> pc'[c] \in {"observe", "claim"},
           todo'[c] # {} => pc'[c] \in {"visit", "observe", "claim"},
           towake'[c] # {} => pc'[c] \in {"visit", "observe", "claim", "deliver"},
           pc'[c] = "claim" => seen'[c].aux.floor <= sev'[c]
    PROVE  Locals'
  <1>1. \A n \in Notifiers : popped'[n] # Null <=> pc'[n] = "schedule"
    BY ZenonT(30) DEF Locals
  <1>2. ASSUME NEW d \in Cancellers
        PROVE  /\ seen'[d] # Null <=> pc'[d] \in {"observe", "claim"}
               /\ todo'[d] # {} => pc'[d] \in {"visit", "observe", "claim"}
               /\ towake'[d] # {} => pc'[d] \in {"visit", "observe", "claim", "deliver"}
               /\ pc'[d] = "claim" => seen'[d].aux.floor <= sev'[d]
    <2>1. CASE d = c
      BY Zenon, <2>1
    <2>2. CASE d # c
      BY Zenon, <2>2 DEF Locals
    <2> QED
      BY Zenon, <2>1, <2>2
  <1> QED
    BY Zenon, <1>1, <1>2 DEF Locals

\* A floor above the severity of a walk is above the floors that it reaches.
LEMMA FloorsApart ==
    \A f, g \in 0..5, s, v \in 0..4 : ~(f <= v) /\ v >= s /\ g <= s => ~(f <= g)
  OBVIOUS

\* A notifier takes the lock.
LEMMA NotifyLockIInv ==
    ASSUME NEW n \in Notifiers, NEW a \in BOOLEAN, IInv, NotifyLock(n, a)
    PROVE  IInv'
  <1> USE DEF IInv, source, cond, waiter, notifier, walker
  <1>1. pc[n] = "idle" /\ NotifierAt(n, "pop") /\ PcOK'
    BY Zenon, NotifierMoves DEF NotifyLock, TypeOK, PcOK, NotifierLabels
  <1>2. /\ UNCHANGED <<state, walk_lock, registered, aux, waitq, waiting_on, wakes, call, entry, popped, sev, todo, seen, towake>>
        /\ lock = Null /\ lock' = n
        /\ all' \in [Notifiers -> BOOLEAN]
    BY Zenon DEF NotifyLock, TypeOK
  <1> USE <1>1, <1>2
  <1>3. TypeOK'
    BY Zenon DEF TypeOK, PcOK
  <1>4. Holders'
    BY Zenon, Names DEF Holders, NotifierAt
  <1>5. Locals'
    BY Zenon DEF Locals, NotifierAt
  <1>6. EntryFits'
    BY Zenon, EntryFitsFrame DEF NotifierAt
  <1>7. AtMostOneTicket' /\ SomeTicket'
    BY Zenon, TicketsFrame DEF NotifierAt, InWait
  <1>8. QueueFits'
    BY Zenon, QueueFrame DEF NotifierAt, QueueLabels
  <1>9. WalksSee'
    BY Zenon, WalksSeeFrame DEF NotifierAt
  <1>10. Staged'
    BY Zenon, StagedFrame DEF NotifierAt, InWait
  <1>11. ClaimsFit' /\ DeliveryFits'
    BY Zenon, FitsFrame DEF NotifierAt, InWait
  <1>12. WalkComing'
    BY Zenon, TaskComingFrame DEF NotifierAt
  <1> QED
    BY Zenon, <1>3, <1>4, <1>5, <1>6, <1>7, <1>8, <1>9, <1>10, <1>11, <1>12

\* It pops an entry and wins its claim,
LEMMA PopClaimsIInv ==
    ASSUME NEW n \in Notifiers, IInv, Pop(n), Claims(Head(waitq))
    PROVE  IInv'
  <1> USE DEF IInv, source, cond, waiter, notifier, walker
  <1>1. pc[n] = "pop" /\ NotifierAt(n, "schedule") /\ PcOK'
    BY Zenon, NotifierMoves DEF Pop, Claims, TypeOK, PcOK, NotifierLabels
  <1>2. /\ UNCHANGED <<state, walk_lock, registered, aux, lock, wakes, call, entry, all, sev, todo, seen, towake>>
        /\ waitq # <<>> /\ waitq' = Tail(waitq)
        /\ waiting_on[Owner(Head(waitq))] = Head(waitq)
        /\ waiting_on' = [waiting_on EXCEPT ![Owner(Head(waitq))] = Null]
        /\ popped' = [popped EXCEPT ![n] = Head(waitq)]
    BY Zenon DEF Pop, Claims, TypeOK
  <1> USE <1>2
  <1>3. PICK e \in Entries :
            /\ e = Head(waitq) /\ InQueue(waitq, e)
            /\ waitq' \in Seq(Entries) /\ Distinct(waitq')
            /\ \A f \in Entries : InQueue(waitq', f) <=> InQueue(waitq, f) /\ f # e
    BY PopEntry DEF QueueFits, TypeOK
  <1>4. PICK t \in Tasks : t = Owner(e) /\ e = entry[t] /\ waiting_on[t] = e
    BY Zenon, <1>3, EntryNames DEF QueueFits
  <1>5. /\ waiting_on' \in [Tasks -> Entries \cup {Null}] /\ waiting_on'[t] = Null
        /\ \A u \in Tasks : u # t => waiting_on'[u] = waiting_on[u]
    BY Zenon, <1>3, <1>4 DEF TypeOK
  <1>6. /\ popped' \in [Notifiers -> Entries \cup {Null}] /\ popped'[n] = e
        /\ \A m \in Notifiers : m # n => popped'[m] = popped[m]
    BY Zenon, <1>3 DEF TypeOK
  <1>7. e # Null /\ popped[n] = Null
    BY Zenon, <1>1, Names DEF Locals
  <1>8. TypeOK'
    BY Zenon, <1>1, <1>3, <1>4, <1>5, <1>6, <1>7 DEF TypeOK, PcOK
  <1>9. Holders'
    BY SMTT(30), <1>1, <1>3, <1>4, <1>5, <1>6, <1>7, Names DEF Holders, NotifierAt
  <1>10. Locals'
    BY ZenonT(30), <1>1, <1>6, <1>7 DEF Locals, NotifierAt
  <1>11. EntryFits'
    BY Zenon, <1>1, <1>3, <1>4, <1>5, <1>6, <1>7, EntryFitsFrame DEF NotifierAt
  <1>12. AtMostOneTicket' /\ SomeTicket'
    <2>1. InWait(t) /\ wakes[t] = <<>>
      BY Zenon, <1>4, <1>7 DEF AtMostOneTicket
    <2>2. \A u \in Tasks : InWait(u)' <=> InWait(u)
      BY Zenon, <1>1 DEF InWait, NotifierAt
    <2>3. \A f \in Entries : Held(f) => Owner(f) \in Tasks /\ Owner(f) # t /\ f # e
      BY Zenon, <1>4, <1>7, EntryNames DEF Held
    <2>4. \A f \in Entries : Held(f) => Held(f)'
      BY Zenon, <1>5, <2>2, <2>3 DEF Held
    <2>5. Held(e)'
      BY Zenon, <1>4, <1>5, <2>1, <2>2 DEF Held
    <2>6. \A u \in Tasks :
            /\ waiting_on'[u] # Null => waiting_on'[u] = entry[u] /\ InWait(u)' /\ wakes[u] = <<>>
            /\ wakes[u] # <<>> => InWait(u)' /\ Len(wakes[u]) = 1
      BY Zenon, <1>5, <2>2 DEF AtMostOneTicket
    <2>7. \A m \in Notifiers : popped[m] # Null => popped[m] \in Entries /\ Held(popped[m]) /\ popped[m] # e
      BY ZenonT(30), <2>3 DEF TypeOK, AtMostOneTicket
    <2>8. \A c \in Cancellers : \A w \in towake[c] : w.entry \in Entries /\ Held(w.entry) /\ w.entry # e
      BY SMTT(30), <2>3 DEF TypeOK, AtMostOneTicket
    <2>9. \A m \in Notifiers, f \in Entries : popped'[m] = f =>
             Held(f)' /\ \A k \in Notifiers : popped'[k] = f => k = m
      BY <1>6, <1>7, <2>4, <2>5, <2>7, Names DEF AtMostOneTicket
    <2>10. \A c \in Cancellers : \A w \in towake[c] :
             Held(w.entry)' /\ \A m \in Notifiers : popped'[m] # w.entry
      BY ZenonT(30), <1>6, <2>4, <2>8 DEF AtMostOneTicket
    <2>11. AtMostOneTicket'
      BY <1>6, <2>6, <2>9, <2>10 DEF AtMostOneTicket
    <2>12. \A u \in Tasks : u # t => \A m \in Notifiers : popped[m] = entry[u] => popped'[m] = entry[u]
      BY Zenon, <1>6, <1>7, Names DEF TypeOK
    <2>13. SomeTicket'
      BY <1>4, <1>5, <1>6, <2>2, <2>12 DEF SomeTicket
    <2> QED
      BY Zenon, <2>11, <2>13
  <1>13. QueueFits'
    <2>1. \A u \in Tasks : waiting_on'[u] # Null =>
            waiting_on'[u] = waiting_on[u] /\ waiting_on[u] # e /\ waiting_on[u] \in Entries
      BY <1>4, <1>5 DEF EntryFits, AtMostOneTicket, TypeOK
    <2>2. \A u \in Tasks : waiting_on'[u] # Null /\ pc'[u] # "enqueue" => InQueue(waitq', waiting_on'[u])
      BY Zenon, <1>1, <1>3, <2>1 DEF QueueFits, NotifierAt
    <2> QED
      BY Zenon, <1>1, <1>3, <2>2, EntryNames DEF QueueFits, NotifierAt
  <1>14. WalksSee'
    BY Zenon, <1>1, <1>3, <1>4, <1>5, <1>6, <1>7, WalksSeeFrame DEF NotifierAt
  <1>15. Staged'
    BY Zenon, <1>1, <1>3, <1>4, <1>5, <1>6, <1>7, StagedFrame DEF NotifierAt, InWait
  <1>16. ClaimsFit' /\ DeliveryFits'
    BY Zenon, <1>1, <1>3, <1>4, <1>5, <1>6, <1>7, FitsFrame DEF NotifierAt, InWait
  <1>17. WalkComing'
    BY Zenon, <1>1, <1>5, TaskComingFrame DEF NotifierAt
  <1> QED
    BY Zenon, <1>8, <1>9, <1>10, <1>11, <1>12, <1>13, <1>14, <1>15, <1>16, <1>17

\* or drops an entry whose claim it lost,
LEMMA PopDropsIInv ==
    ASSUME NEW n \in Notifiers, IInv, Pop(n), ~Claims(Head(waitq))
    PROVE  IInv'
  <1> USE DEF IInv, source, cond, waiter, notifier, walker
  <1>1. pc[n] = "pop" /\ PcOK' /\ pc' = pc
    BY Zenon DEF Pop, TypeOK, PcOK
  <1>0. NotifierAt(n, pc[n])
    BY Zenon, <1>1 DEF NotifierAt
  <1>2. /\ UNCHANGED <<state, walk_lock, registered, aux, lock, waiting_on, wakes, call, entry, popped, all, sev, todo, seen, towake>>
        /\ waitq # <<>> /\ waitq' = Tail(waitq)
        /\ waiting_on[Owner(Head(waitq))] # Head(waitq)
    BY Zenon DEF Pop, TypeOK, Claims
  <1>3. /\ Head(waitq) \in Entries /\ InQueue(waitq, Head(waitq))
        /\ waitq' \in Seq(Entries) /\ Distinct(waitq')
        /\ \A f \in Entries : InQueue(waitq', f) <=> InQueue(waitq, f) /\ f # Head(waitq)
    BY Zenon, <1>2, PopEntry DEF QueueFits, TypeOK
  <1>4. /\ Owner(Head(waitq)) \in Tasks /\ Head(waitq) = entry[Owner(Head(waitq))]
        /\ \A u \in Tasks : waiting_on[u] # Null => waiting_on[u] = entry[u] /\ waiting_on[u] \in Entries
    BY Zenon, <1>3, EntryNames DEF QueueFits, AtMostOneTicket, TypeOK
  <1> USE <1>1, <1>0, <1>2, <1>3, <1>4
  <1>5. TypeOK'
    BY Zenon DEF TypeOK, PcOK
  <1>6. Holders'
    BY Zenon, Names DEF Holders, NotifierAt
  <1>7. Locals'
    BY Zenon DEF Locals, NotifierAt
  <1>8. EntryFits'
    BY Zenon, EntryFitsFrame DEF NotifierAt
  <1>9. AtMostOneTicket' /\ SomeTicket'
    BY Zenon, TicketsFrame DEF NotifierAt, InWait
  <1>10. QueueFits'
    <2>1. \A u \in Tasks : waiting_on[u] # Null => waiting_on[u] # Head(waitq)
      BY EntryNames DEF EntryFits
    <2>2. \A u \in Tasks : waiting_on[u] # Null /\ pc'[u] # "enqueue" => InQueue(waitq', waiting_on[u])
      BY Zenon, <2>1 DEF QueueFits
    <2> QED
      BY Zenon, <2>2, EntryNames DEF QueueFits
  <1>11. WalksSee'
    BY Zenon, WalksSeeFrame DEF NotifierAt
  <1>12. Staged'
    BY Zenon, StagedFrame DEF NotifierAt, InWait
  <1>13. ClaimsFit' /\ DeliveryFits'
    BY Zenon, FitsFrame DEF NotifierAt, InWait
  <1>14. WalkComing'
    BY Zenon, TaskComingFrame DEF NotifierAt
  <1> QED
    BY Zenon, <1>5, <1>6, <1>7, <1>8, <1>9, <1>10, <1>11, <1>12, <1>13, <1>14

\* and does one of the two.
LEMMA PopIInv ==
    ASSUME NEW n \in Notifiers, IInv, Pop(n)
    PROVE  IInv'
  BY Zenon, PopClaimsIInv, PopDropsIInv

\* It schedules the task it claimed.
LEMMA ScheduleIInv ==
    ASSUME NEW n \in Notifiers, IInv, Schedule(n)
    PROVE  IInv'
  <1> USE DEF IInv, source, cond, waiter, notifier, walker
  <1>1. pc[n] = "schedule" /\ NotifierAt(n, pc'[n]) /\ PcOK'
        /\ pc'[n] \in {"pop", "unlock"}
    BY Zenon, NotifierMoves DEF Schedule, TypeOK, PcOK, NotifierAt, NotifierLabels
  <1>2. /\ UNCHANGED <<state, walk_lock, registered, aux, lock, waitq, waiting_on, call, entry, all, sev, todo, seen, towake>>
        /\ popped' = [popped EXCEPT ![n] = Null]
        /\ wakes' = [wakes EXCEPT ![Owner(popped[n])] =
                      Append(wakes[Owner(popped[n])], [mode |-> "value", sev |-> 0])]
    BY Zenon DEF Schedule, TypeOK
  <1> USE <1>2
  <1>3. PICK e \in Entries : e = popped[n] /\ Held(e)
    BY ZenonT(30), <1>1 DEF Locals, TypeOK, AtMostOneTicket
  <1>4. PICK t \in Tasks : t = Owner(e) /\ e = entry[t] /\ InWait(t) /\ waiting_on[t] = Null /\ wakes[t] = <<>>
    BY Zenon, <1>3, EntryNames DEF Held
  <1>5. /\ wakes'[t] = Append(<<>>, [mode |-> "value", sev |-> 0])
        /\ wakes' \in [Tasks -> Seq(Wakes)]
        /\ \A u \in Tasks : u # t => wakes'[u] = wakes[u]
    <2>1. [mode |-> "value", sev |-> 0] \in Wakes
      BY DEF Wakes
    <2>2. Append(<<>>, [mode |-> "value", sev |-> 0]) \in Seq(Wakes)
      BY Zenon, <2>1, FirstWake
    <2> QED
      BY Zenon, <1>3, <1>4, <2>2 DEF TypeOK
  <1>6. Len(wakes'[t]) = 1 /\ wakes'[t] # <<>> /\ wakes'[t][1].mode = "value"
    BY <1>5, FirstWake DEF Wakes
  <1>7. /\ popped' \in [Notifiers -> Entries \cup {Null}] /\ popped'[n] = Null
        /\ \A m \in Notifiers : m # n => popped'[m] = popped[m]
    BY Zenon DEF TypeOK
  <1> USE <1>7
  <1>8. TypeOK'
    BY Zenon, <1>1, <1>5 DEF TypeOK, PcOK
  <1>9. Holders'
    BY <1>1, <1>3, <1>4, <1>5, <1>6, Names DEF Holders, NotifierAt
  <1>10. Locals'
    BY ZenonT(30), <1>1 DEF Locals, NotifierAt
  <1>11. EntryFits'
    BY Zenon, <1>1, <1>3, <1>4, <1>5, <1>6, EntryFitsFrame DEF NotifierAt
  <1>12. AtMostOneTicket' /\ SomeTicket'
    <2>1. \A u \in Tasks : InWait(u)' <=> InWait(u)
      BY Zenon, <1>1 DEF InWait, NotifierAt
    <2>2. \A f \in Entries : Held(f) /\ f # e => Held(f)'
      BY Zenon, <1>4, <1>5, <2>1, EntryNames DEF Held
    <2>3. \A m \in Notifiers : popped[m] # Null /\ m # n => popped[m] \in Entries /\ Held(popped[m]) /\ popped[m] # e
      BY Zenon, <1>3, Names DEF TypeOK, AtMostOneTicket
    <2>4. \A c \in Cancellers : \A w \in towake[c] : w.entry \in Entries /\ Held(w.entry) /\ w.entry # e
      BY <1>3 DEF TypeOK, AtMostOneTicket
    <2>5. \A u \in Tasks :
            /\ waiting_on[u] # Null => waiting_on[u] = entry[u] /\ InWait(u)' /\ wakes'[u] = <<>>
            /\ wakes'[u] # <<>> => InWait(u)' /\ Len(wakes'[u]) = 1
      BY ZenonT(30), <1>4, <1>5, <1>6, <2>1 DEF AtMostOneTicket
    <2>6. \A m \in Notifiers, f \in Entries : popped'[m] = f =>
             Held(f)' /\ \A k \in Notifiers : popped'[k] = f => k = m
      BY <2>2, <2>3, Names DEF AtMostOneTicket
    <2>7. \A c \in Cancellers : \A w \in towake[c] :
             Held(w.entry)' /\ \A m \in Notifiers : popped'[m] # w.entry
      BY SMTT(30), <2>2, <2>4, Names DEF AtMostOneTicket
    <2>8. AtMostOneTicket'
      BY SMTT(30), <2>5, <2>6, <2>7 DEF AtMostOneTicket
    <2>9. \A u \in Tasks : u # t => \A m \in Notifiers : popped[m] = entry[u] => popped'[m] = entry[u]
      BY SMTT(30), <1>3, <1>4 DEF EntryFits
    <2>10. SomeTicket'
      BY <1>5, <1>6, <2>1, <2>9 DEF SomeTicket
    <2> QED
      BY Zenon, <2>8, <2>10
  <1>13. QueueFits'
    BY Zenon, <1>1, <1>3, <1>4, <1>5, <1>6, QueueFrame DEF NotifierAt, QueueLabels
  <1>14. WalksSee'
    BY Zenon, <1>1, <1>3, <1>4, <1>5, <1>6, WalksSeeFrame DEF NotifierAt
  <1>15. Staged'
    BY Zenon, <1>1, <1>3, <1>4, <1>5, <1>6, StagedFrame DEF NotifierAt, InWait
  <1>16. ClaimsFit' /\ DeliveryFits'
    <2>1. ClaimsFit'
      BY Zenon DEF ClaimsFit
    <2>2. DeliveryFits'
      BY <1>5, <1>6 DEF DeliveryFits
    <2> QED
      BY Zenon, <2>1, <2>2
  <1>17. WalkComing'
    BY Zenon, <1>1, <1>3, <1>4, <1>5, <1>6, TaskComingFrame DEF NotifierAt
  <1> QED
    BY Zenon, <1>8, <1>9, <1>10, <1>11, <1>12, <1>13, <1>14, <1>15, <1>16, <1>17

\* It releases the lock.
LEMMA NotifyUnlockIInv ==
    ASSUME NEW n \in Notifiers, IInv, NotifyUnlock(n)
    PROVE  IInv'
  <1> USE DEF IInv, source, cond, waiter, notifier, walker
  <1>1. pc[n] \in {"unlock", "pop"} /\ NotifierAt(n, "idle") /\ PcOK'
    BY Zenon, NotifierMoves DEF NotifyUnlock, TypeOK, PcOK, NotifierLabels
  <1>2. /\ UNCHANGED <<state, walk_lock, registered, aux, waitq, waiting_on, wakes, call, entry, popped, all, sev, todo, seen, towake>>
        /\ lock' = Null
    BY Zenon DEF NotifyUnlock, TypeOK
  <1> USE <1>1, <1>2
  <1>3. TypeOK'
    BY Zenon DEF TypeOK, PcOK
  <1>4. Holders'
    BY Zenon, Names DEF Holders, NotifierAt
  <1>5. Locals'
    BY Zenon DEF Locals, NotifierAt
  <1>6. EntryFits'
    BY Zenon, EntryFitsFrame DEF NotifierAt
  <1>7. AtMostOneTicket' /\ SomeTicket'
    BY Zenon, TicketsFrame DEF NotifierAt, InWait
  <1>8. QueueFits'
    BY Zenon, QueueFrame DEF NotifierAt, QueueLabels
  <1>9. WalksSee'
    BY Zenon, WalksSeeFrame DEF NotifierAt
  <1>10. Staged'
    BY Zenon, StagedFrame DEF NotifierAt, InWait
  <1>11. ClaimsFit' /\ DeliveryFits'
    BY Zenon, FitsFrame DEF NotifierAt, InWait
  <1>12. WalkComing'
    BY Zenon, TaskComingFrame DEF NotifierAt
  <1> QED
    BY Zenon, <1>3, <1>4, <1>5, <1>6, <1>7, <1>8, <1>9, <1>10, <1>11, <1>12

\* A canceller raises the state, and owes a walk.
LEMMA RaiseIInv ==
    ASSUME NEW c \in Cancellers, NEW s \in Severities, IInv, Raise(c, s)
    PROVE  IInv'
  <1> USE DEF IInv, source, cond, waiter, notifier, walker
  <1>1. pc[c] = "idle" /\ CancellerAt(c, "walk") /\ PcOK'
    BY Zenon, CancellerMoves DEF Raise, RaisedState, TypeOK, PcOK, CancellerLabels
  <1>2. /\ UNCHANGED <<walk_lock, registered, aux, lock, waitq, waiting_on, wakes, call, entry, popped, all, todo, seen, towake>>
        /\ state' \in 0..4
        /\ sev' \in [Cancellers -> 0..4]
        /\ \A d \in Cancellers : d # c => sev'[d] = sev[d]
    BY SeveritiesKnown DEF Raise, RaisedState, TypeOK
  <1> USE <1>1, <1>2
  <1>3. TypeOK'
    BY Zenon DEF TypeOK, PcOK
  <1>4. Holders'
    BY Zenon, HoldersFrame DEF CancellerAt
  <1>5. Locals'
    BY ZenonT(30) DEF Locals, CancellerAt
  <1>6. EntryFits'
    BY Zenon, EntryFitsFrame DEF CancellerAt
  <1>7. AtMostOneTicket' /\ SomeTicket'
    BY Zenon, TicketsFrame DEF CancellerAt, InWait
  <1>8. QueueFits'
    BY Zenon, QueueFrame DEF CancellerAt, QueueLabels
  <1>9. WalksSee'
    BY Zenon, WalksSeeFrame DEF CancellerAt
  <1>10. Staged'
    BY Zenon, StagedFrame DEF CancellerAt, InWait
  <1>11. ClaimsFit' /\ DeliveryFits'
    BY Zenon, FitsFrame DEF CancellerAt, InWait, Locals
  <1>12. WalkComing'
    BY Zenon DEF WalkComing, Coming, CancellerAt
  <1> QED
    BY Zenon, <1>3, <1>4, <1>5, <1>6, <1>7, <1>8, <1>9, <1>10, <1>11, <1>12

\* A redelivery owes a walk at the state as it is.
LEMMA RedeliverIInv ==
    ASSUME NEW c \in Cancellers, IInv, Redeliver(c)
    PROVE  IInv'
  <1> USE DEF IInv, source, cond, waiter, notifier, walker
  <1>1. pc[c] = "idle" /\ CancellerAt(c, "walk") /\ PcOK'
    BY Zenon, CancellerMoves DEF Redeliver, TypeOK, PcOK, CancellerLabels
  <1>2. /\ UNCHANGED <<state, walk_lock, registered, aux, lock, waitq, waiting_on, wakes, call, entry, popped, all, todo, seen, towake>>
        /\ sev' \in [Cancellers -> 0..4]
        /\ \A d \in Cancellers : d # c => sev'[d] = sev[d]
    BY Zenon DEF Redeliver, TypeOK
  <1> USE <1>1, <1>2
  <1>3. TypeOK'
    BY Zenon DEF TypeOK, PcOK
  <1>4. Holders'
    BY Zenon, HoldersFrame DEF CancellerAt
  <1>5. Locals'
    BY Zenon DEF Locals, CancellerAt
  <1>6. EntryFits'
    BY Zenon, EntryFitsFrame DEF CancellerAt
  <1>7. AtMostOneTicket' /\ SomeTicket'
    BY Zenon, TicketsFrame DEF CancellerAt, InWait
  <1>8. QueueFits'
    BY Zenon, QueueFrame DEF CancellerAt, QueueLabels
  <1>9. WalksSee'
    BY Zenon, WalksSeeFrame DEF CancellerAt
  <1>10. Staged'
    BY Zenon, StagedFrame DEF CancellerAt, InWait
  <1>11. ClaimsFit' /\ DeliveryFits'
    BY Zenon, FitsFrame DEF CancellerAt, InWait, Locals
  <1>12. WalkComing'
    BY Zenon DEF WalkComing, Coming, CancellerAt
  <1> QED
    BY Zenon, <1>3, <1>4, <1>5, <1>6, <1>7, <1>8, <1>9, <1>10, <1>11, <1>12

\* The walk takes its lock, and reads the state.
LEMMA LockWalkIInv ==
    ASSUME NEW c \in Cancellers, IInv, LockWalk(c)
    PROVE  IInv'
  <1> USE DEF IInv, source, cond, waiter, notifier, walker
  <1>1. pc[c] = "walk" /\ CancellerAt(c, "head") /\ PcOK'
    BY Zenon, CancellerMoves DEF LockWalk, TypeOK, PcOK, CancellerLabels
  <1>2. /\ UNCHANGED <<state, registered, aux, lock, waitq, waiting_on, wakes, call, entry, popped, all, todo, seen, towake>>
        /\ walk_lock' \in Cancellers \cup {Null}
        /\ sev' \in [Cancellers -> 0..4]
        /\ sev'[c] >= state
        /\ \A d \in Cancellers : d # c => sev'[d] = sev[d]
    BY DEF LockWalk, TypeOK
  <1> USE <1>1, <1>2
  <1>3. TypeOK'
    BY Zenon DEF TypeOK, PcOK
  <1>4. Holders'
    BY Zenon, HoldersFrame DEF CancellerAt
  <1>5. Locals'
    BY Zenon DEF Locals, CancellerAt
  <1>6. EntryFits'
    BY Zenon, EntryFitsFrame DEF CancellerAt
  <1>7. AtMostOneTicket' /\ SomeTicket'
    BY Zenon, TicketsFrame DEF CancellerAt, InWait
  <1>8. QueueFits'
    BY Zenon, QueueFrame DEF CancellerAt, QueueLabels
  <1>9. WalksSee'
    BY Zenon, WalksSeeFrame DEF CancellerAt
  <1>10. Staged'
    BY Zenon, StagedFrame DEF CancellerAt, InWait
  <1>11. ClaimsFit' /\ DeliveryFits'
    BY Zenon, FitsFrame DEF CancellerAt, InWait, Locals
  <1>12. WalkComing'
    <2>1. \A t \in Tasks : Doomed(t)' => Doomed(t)
      BY Zenon DEF CancellerAt, Doomed, Fires
    <2>2. \A t \in Tasks, d \in Cancellers : Doomed(t)' /\ Coming(d, t) => Coming(d, t)'
      BY Zenon DEF CancellerAt, Locals, Coming, Doomed, Fires
    <2> QED
      BY Zenon, <2>1, <2>2, ComingFrame
  <1> QED
    BY Zenon, <1>3, <1>4, <1>5, <1>6, <1>7, <1>8, <1>9, <1>10, <1>11, <1>12

\* It fixes the entries that it visits.
LEMMA ReadHeadIInv ==
    ASSUME NEW c \in Cancellers, IInv, ReadHead(c)
    PROVE  IInv'
  <1> USE DEF IInv, source, cond, waiter, notifier, walker
  <1>1. pc[c] = "head" /\ CancellerAt(c, "visit") /\ PcOK'
    BY Zenon, CancellerMoves DEF ReadHead, TypeOK, PcOK, CancellerLabels
  <1>2. /\ UNCHANGED <<state, walk_lock, registered, aux, lock, waitq, waiting_on, wakes, call, entry, popped, all, sev, seen, towake>>
        /\ todo' \in [Cancellers -> SUBSET Entries]
        /\ todo'[c] = registered
        /\ \A d \in Cancellers : d # c => todo'[d] = todo[d]
    BY Zenon DEF ReadHead, TypeOK
  <1> USE <1>1, <1>2
  <1>3. TypeOK'
    BY Zenon DEF TypeOK, PcOK
  <1>4. Holders'
    BY Zenon, HoldersFrame DEF CancellerAt
  <1>5. Locals'
    BY ZenonT(30) DEF Locals, CancellerAt
  <1>6. EntryFits'
    BY Zenon, EntryFitsFrame DEF CancellerAt
  <1>7. AtMostOneTicket' /\ SomeTicket'
    BY Zenon, TicketsFrame DEF CancellerAt, InWait
  <1>8. QueueFits'
    BY Zenon, QueueFrame DEF CancellerAt, QueueLabels
  <1>9. WalksSee'
    BY Zenon, WalksSeeFrame DEF CancellerAt
  <1>10. Staged'
    BY Zenon, StagedFrame DEF CancellerAt, InWait
  <1>11. ClaimsFit' /\ DeliveryFits'
    BY Zenon, FitsFrame DEF CancellerAt, InWait
  <1>12. WalkComing'
    <2>1. \A t \in Tasks : Doomed(t)' => Doomed(t) /\ entry[t] \in registered
      BY Zenon DEF CancellerAt, Doomed, Fires, Staged
    <2>2. \A t \in Tasks, d \in Cancellers : Doomed(t)' /\ Coming(d, t) => Coming(d, t)'
      BY Zenon, <2>1 DEF CancellerAt, Locals, Coming
    <2> QED
      BY Zenon, <2>1, <2>2, ComingFrame
  <1> QED
    BY Zenon, <1>3, <1>4, <1>5, <1>6, <1>7, <1>8, <1>9, <1>10, <1>11, <1>12

\* It passes a retired entry, or reads the aux of the next.
LEMMA VisitIInv ==
    ASSUME NEW c \in Cancellers, IInv, Visit(c)
    PROVE  IInv'
  <1> USE DEF IInv, source, cond, waiter, notifier, walker
  <1>1. pc[c] = "visit" /\ CancellerAt(c, pc'[c]) /\ PcOK'
        /\ pc'[c] \in {"visit", "observe"}
    BY Zenon, CancellerMoves DEF Visit, TypeOK, PcOK, CancellerAt, CancellerLabels
  <1>2. /\ UNCHANGED <<state, walk_lock, registered, aux, lock, waitq, waiting_on, wakes, call, entry, popped, all, sev, towake>>
    BY Zenon DEF Visit, TypeOK
  <1>3. PICK e \in todo[c] :
            /\ todo' = [todo EXCEPT ![c] = @ \ {e}]
            /\ IF e \in registered
               THEN seen' = [seen EXCEPT ![c] = [entry |-> e, aux |-> aux[e]]] /\ Goto(c, "observe")
               ELSE UNCHANGED <<seen, pc>>
    BY Zenon DEF Visit
  <1>4. e \in Entries /\ aux[e] \in Aux /\ seen[c] = Null /\ [entry |-> e, aux |-> aux[e]] \in Visits
    BY Zenon, <1>1, <1>3 DEF TypeOK, Locals, Visits
  <1>5. /\ todo' \in [Cancellers -> SUBSET Entries] /\ todo'[c] = todo[c] \ {e}
        /\ \A d \in Cancellers : d # c => todo'[d] = todo[d]
    BY Zenon, <1>3 DEF TypeOK
  <1>6. /\ seen' \in [Cancellers -> Visits \cup {Null}]
        /\ \A d \in Cancellers : d # c => seen'[d] = seen[d]
    BY Zenon, <1>3, <1>4 DEF TypeOK
  <1>7. IF e \in registered
        THEN /\ pc'[c] = "observe" /\ seen'[c] # Null
             /\ seen'[c].entry = e /\ seen'[c].aux = aux[e]
        ELSE pc'[c] = "visit" /\ seen'[c] = Null
    <2>2. CASE e \in registered
      BY <1>1, <1>3, <1>4, <2>2, Names DEF TypeOK, Goto
    <2>3. CASE e \notin registered
      BY Zenon, <1>1, <1>3, <1>4, <2>3
    <2> QED
      BY Zenon, <2>2, <2>3
  <1>8. TypeOK'
    BY Zenon, <1>1, <1>2, <1>5, <1>6 DEF TypeOK, PcOK
  <1>9. Holders'
    BY Zenon, <1>1, <1>2, HoldersFrame DEF CancellerAt
  <1>10. Locals'
    <2>1. \A d \in Cancellers : d # c => pc'[d] = pc[d] /\ todo'[d] = todo[d] /\ seen'[d] = seen[d]
      BY Zenon, <1>1, <1>5, <1>6 DEF CancellerAt
    <2>2. pc'[c] \in {"visit", "observe"} /\ (seen'[c] # Null <=> pc'[c] = "observe")
      BY Zenon, <1>1, <1>7
    <2> QED
      BY ZenonT(30), <1>1, <1>2, <2>1, <2>2, LocalsStep DEF Locals, CancellerAt
  <1>11. EntryFits'
    BY Zenon, <1>1, <1>2, EntryFitsFrame DEF CancellerAt
  <1>12. AtMostOneTicket' /\ SomeTicket'
    BY Zenon, <1>1, <1>2, TicketsFrame DEF CancellerAt, InWait
  <1>13. QueueFits'
    BY Zenon, <1>1, <1>2, QueueFrame DEF CancellerAt, QueueLabels
  <1>14. WalksSee'
    <2>1. ASSUME NEW f, Unknown(f)
          PROVE  Unknown(f)' /\ f # e
      BY SMTT(30), <1>2, <1>3, <1>5, <1>6, <1>7, <2>1 DEF Unknown
    <2>2. \A d \in Cancellers : seen'[d] # Null =>
            /\ seen'[d].aux.watcher => seen'[d].entry[2] \in Fresh
            /\ seen'[d].entry[2] \in Fresh => seen'[d].aux = aux[seen'[d].entry]
      BY <1>4, <1>6, <1>7 DEF WalksSee
    <2> QED
      BY Zenon, <1>1, <1>2, <2>1, <2>2 DEF WalksSee, CancellerAt
  <1>15. Staged'
    BY Zenon, <1>1, <1>2, StagedFrame DEF CancellerAt, InWait
  <1>16. ClaimsFit' /\ DeliveryFits'
    BY Zenon, <1>1, <1>2, FitsFrame DEF CancellerAt, InWait
  <1>17. WalkComing'
    <2>1. \A t \in Tasks : Doomed(t)' => Doomed(t)
      BY Zenon, <1>1, <1>2 DEF CancellerAt, Doomed, Fires
    <2>2. ASSUME NEW t \in Tasks, Doomed(t)
          PROVE  /\ entry[t] \in registered /\ aux[entry[t]].floor = call[t].floor
                 /\ call[t].floor \in 0..5
      <3>1. call[t].kind \in {"cancel", "teardown", "value"} /\ call[t].floor \in 0..5
        BY Zenon, <2>2 DEF Doomed, TypeOK, Kinds
      <3>2. pc[t] \in {"release", "wait"} /\ call[t].kind # "shield"
        BY Zenon, <2>2 DEF Doomed
      <3>3. entry[t] \in registered
        BY Zenon, <3>2 DEF Staged
      <3>4. CASE call[t].kind = "value"
        <4>1. aux[entry[t]] = [floor |-> call[t].floor, watcher |-> TRUE]
          BY Zenon, <3>2, <3>4 DEF Staged
        <4> QED
          BY <3>1, <3>3, <4>1
      <3>5. CASE call[t].kind \in {"cancel", "teardown"}
        <4>1. aux[entry[t]] = [floor |-> call[t].floor, watcher |-> FALSE]
          BY Zenon, <3>2, <3>5 DEF Staged, InWait
        <4> QED
          BY <3>1, <3>3, <4>1
      <3> QED
        BY Zenon, <3>1, <3>4, <3>5
    <2>3. ASSUME NEW t \in Tasks, Doomed(t), Coming(c, t)
          PROVE  Coming(c, t)'
      <3>1. sev[c] >= state /\ entry[t] \in todo[c]
        BY Zenon, <1>1, <1>4, <2>3 DEF Coming
      <3>2. CASE e = entry[t]
        BY <1>2, <1>7, <2>2, <2>3, <3>1, <3>2 DEF Coming
      <3>3. CASE e # entry[t]
        BY Zenon, <1>2, <1>5, <3>1, <3>3 DEF Coming
      <3> QED
        BY Zenon, <3>2, <3>3
    <2>4. ASSUME NEW t \in Tasks, NEW d \in Cancellers, d # c, Coming(d, t)
          PROVE  Coming(d, t)'
      BY Zenon, <1>1, <1>2, <1>5, <1>6, <2>4 DEF CancellerAt, Coming
    <2> QED
      BY Zenon, <2>1, <2>3, <2>4, ComingFrame
  <1> QED
    BY Zenon, <1>8, <1>9, <1>10, <1>11, <1>12, <1>13, <1>14, <1>15, <1>16, <1>17

\* It finds the entry armed and eligible,
LEMMA ObserveArmedIInv ==
    ASSUME NEW c \in Cancellers, IInv, Observe(c), waiting_on[Owner(seen[c].entry)] = seen[c].entry, Eligible(seen[c].aux.floor, sev[c])
    PROVE  IInv'
  <1> USE DEF IInv, source, cond, waiter, notifier, walker
  <1>1. pc[c] = "observe" /\ CancellerAt(c, "claim") /\ PcOK'
    BY Zenon, CancellerMoves DEF Observe, TypeOK, PcOK, CancellerLabels
  <1>2. /\ UNCHANGED <<state, walk_lock, registered, aux, lock, waitq, waiting_on, wakes, call, entry, popped, all, sev, todo, seen, towake>>
        /\ seen[c].aux.floor <= sev[c]
    BY Zenon DEF Observe, TypeOK, Eligible
  <1> USE <1>1, <1>2
  <1>3. TypeOK'
    BY Zenon DEF TypeOK, PcOK
  <1>4. Holders'
    BY Zenon, HoldersFrame DEF CancellerAt
  <1>5. Locals'
    BY Zenon DEF Locals, CancellerAt
  <1>6. EntryFits'
    BY Zenon, EntryFitsFrame DEF CancellerAt
  <1>7. AtMostOneTicket' /\ SomeTicket'
    BY Zenon, TicketsFrame DEF CancellerAt, InWait
  <1>8. QueueFits'
    BY Zenon, QueueFrame DEF CancellerAt, QueueLabels
  <1>9. WalksSee'
    BY Zenon, WalksSeeFrame DEF CancellerAt
  <1>10. Staged'
    BY Zenon, StagedFrame DEF CancellerAt, InWait
  <1>11. ClaimsFit' /\ DeliveryFits'
    BY Zenon, FitsFrame DEF CancellerAt, InWait
  <1>12. WalkComing'
    <2>1. \A t \in Tasks : Doomed(t)' => Doomed(t)
      BY Zenon DEF CancellerAt, Doomed, Fires
    <2>2. \A t \in Tasks, d \in Cancellers : Doomed(t)' /\ Coming(d, t) => Coming(d, t)'
      BY Zenon DEF CancellerAt, Locals, Coming, Doomed, Fires
    <2> QED
      BY Zenon, <2>1, <2>2, ComingFrame
  <1> QED
    BY Zenon, <1>3, <1>4, <1>5, <1>6, <1>7, <1>8, <1>9, <1>10, <1>11, <1>12

\* or leaves it alone,
LEMMA ObserveIdleIInv ==
    ASSUME NEW c \in Cancellers, IInv, Observe(c), ~(waiting_on[Owner(seen[c].entry)] = seen[c].entry /\ Eligible(seen[c].aux.floor, sev[c]))
    PROVE  IInv'
  <1> USE DEF IInv, source, cond, waiter, notifier, walker
  <1>1. pc[c] = "observe" /\ CancellerAt(c, "visit") /\ PcOK'
    BY Zenon, CancellerMoves DEF Observe, TypeOK, PcOK, CancellerLabels
  <1>2. /\ UNCHANGED <<state, walk_lock, registered, aux, lock, waitq, waiting_on, wakes, call, entry, popped, all, sev, todo, towake>>
        /\ seen' \in [Cancellers -> Visits \cup {Null}] /\ seen'[c] = Null
        /\ \A d \in Cancellers : d # c => seen'[d] = seen[d]
        /\ ~(waiting_on[Owner(seen[c].entry)] = seen[c].entry /\ seen[c].aux.floor <= sev[c])
    BY Zenon DEF Observe, TypeOK, Eligible
  <1>3. seen[c] # Null /\ seen[c] \in Visits /\ seen[c].aux.floor \in 0..5 /\ sev[c] \in 0..4 /\ seen[c].entry \in Entries
    BY Zenon, <1>1, Names DEF Locals, TypeOK, Visits, Aux
  <1> USE <1>1, <1>2, <1>3
  <1>4. TypeOK'
    BY Zenon DEF TypeOK, PcOK
  <1>5. Holders'
    BY Zenon, HoldersFrame DEF CancellerAt
  <1>6. Locals'
    BY ZenonT(30), LocalsStep DEF Locals, CancellerAt
  <1>7. EntryFits'
    BY Zenon, EntryFitsFrame DEF CancellerAt
  <1>8. AtMostOneTicket' /\ SomeTicket'
    BY Zenon, TicketsFrame DEF CancellerAt, InWait
  <1>9. QueueFits'
    BY Zenon, QueueFrame DEF CancellerAt, QueueLabels
  <1>10. WalksSee'
    BY Zenon, WalksSeeFrame DEF CancellerAt
  <1>11. Staged'
    BY Zenon, StagedFrame DEF CancellerAt, InWait
  <1>12. ClaimsFit' /\ DeliveryFits'
    BY Zenon, FitsFrame DEF CancellerAt, InWait
  <1>13. WalkComing'
    <2>1. \A t \in Tasks : Doomed(t)' => Doomed(t)
      BY Zenon DEF CancellerAt, Doomed, Fires
    <2>2. ASSUME NEW t \in Tasks, Doomed(t), seen[c].entry = entry[t], sev[c] >= state
          PROVE  ~(seen[c].aux.floor <= call[t].floor)
      <3>1. waiting_on[t] = entry[t] /\ Owner(entry[t]) = t
        BY Zenon, <2>2 DEF Doomed, AtMostOneTicket, EntryFits
      <3>2. ~(seen[c].aux.floor <= sev[c])
        BY Zenon, <2>2, <3>1
      <3>3. call[t].floor <= state /\ call[t].floor \in 0..5 /\ state \in 0..4
        BY Zenon, <2>2 DEF Doomed, Fires, TypeOK
      <3> QED
        <4>1. seen[c].aux.floor \in 0..5 /\ sev[c] \in 0..4
          BY Zenon, <1>3
        <4> QED
          BY Zenon, <2>2, <3>2, <3>3, <4>1, FloorsApart
    <2>3. ASSUME NEW t \in Tasks, NEW d \in Cancellers, Doomed(t), Coming(d, t)
          PROVE  Coming(d, t)'
      BY Zenon, <2>2, <2>3 DEF CancellerAt, Coming
    <2> QED
      BY Zenon, <2>1, <2>3, ComingFrame
  <1> QED
    BY Zenon, <1>4, <1>5, <1>6, <1>7, <1>8, <1>9, <1>10, <1>11, <1>12, <1>13

\* one of the two.
LEMMA ObserveIInv ==
    ASSUME NEW c \in Cancellers, IInv, Observe(c)
    PROVE  IInv'
  BY Zenon, ObserveArmedIInv, ObserveIdleIInv

\* It wins the claim, and owes a delivery,
LEMMA ClaimWinsIInv ==
    ASSUME NEW c \in Cancellers, IInv, Claim(c), waiting_on[Owner(seen[c].entry)] = seen[c].entry
    PROVE  IInv'
  <1> USE DEF IInv, source, cond, waiter, notifier, walker
  <1>1. pc[c] = "claim" /\ CancellerAt(c, "visit") /\ PcOK'
    BY Zenon, CancellerMoves DEF Claim, TypeOK, PcOK, CancellerLabels
  <1>2. /\ UNCHANGED <<state, walk_lock, registered, aux, lock, waitq, wakes, call, entry, popped, all, sev, todo>>
        /\ seen' \in [Cancellers -> Visits \cup {Null}] /\ seen'[c] = Null
        /\ \A d \in Cancellers : d # c => seen'[d] = seen[d]
        /\ waiting_on' = [waiting_on EXCEPT ![Owner(seen[c].entry)] = Null]
        /\ towake' = [towake EXCEPT ![c] = @ \cup {[entry |-> seen[c].entry,
                mode |-> IF seen[c].aux.watcher THEN "request" ELSE "throw"]}]
    BY Zenon DEF Claim, TypeOK
  <1>3. seen[c] # Null /\ seen[c] \in Visits /\ seen[c].aux.floor \in 0..5 /\ sev[c] \in 0..4 /\ seen[c].entry \in Entries
    BY Zenon, <1>1, Names DEF Locals, TypeOK, Visits, Aux
  <1>4. PICK e \in Entries, w \in [entry : Entries, mode : {"request", "throw"}] :
            /\ e = seen[c].entry /\ w.entry = e
            /\ w = [entry |-> seen[c].entry, mode |-> IF seen[c].aux.watcher THEN "request" ELSE "throw"]
            /\ w.mode = (IF seen[c].aux.watcher THEN "request" ELSE "throw")
    <2> DEFINE m == IF seen[c].aux.watcher THEN "request" ELSE "throw"
    <2>1. m \in {"request", "throw"}
      BY Zenon
    <2> HIDE DEF m
    <2>2. [entry |-> seen[c].entry, mode |-> m] \in [entry : Entries, mode : {"request", "throw"}]
      BY Zenon, <1>3, <2>1
    <2>3. [entry |-> seen[c].entry, mode |-> m].entry = seen[c].entry /\ [entry |-> seen[c].entry, mode |-> m].mode = m
      BY Zenon
    <2> QED
      BY Zenon, <1>3, <2>2, <2>3 DEF m
  <1>5. PICK t \in Tasks : t = Owner(e) /\ waiting_on[t] = e /\ e = entry[t] /\ InWait(t) /\ wakes[t] = <<>> /\ e # Null
    <2>1. Owner(e) \in Tasks /\ e # Null /\ waiting_on[Owner(e)] = e
      BY Zenon, <1>4, Names, EntryNames
    <2> QED
      BY Zenon, <2>1 DEF AtMostOneTicket
  <1>6. /\ waiting_on' \in [Tasks -> Entries \cup {Null}] /\ waiting_on'[t] = Null
        /\ \A u \in Tasks : u # t => waiting_on'[u] = waiting_on[u]
    BY Zenon, <1>2, <1>4, <1>5 DEF TypeOK
  <1>7. /\ towake' \in [Cancellers -> SUBSET [entry : Entries, mode : {"request", "throw"}]]
        /\ towake'[c] = towake[c] \cup {w}
        /\ \A d \in Cancellers : d # c => towake'[d] = towake[d]
    BY Zenon, <1>2, <1>4 DEF TypeOK
  <1>8. TypeOK'
    BY Zenon, <1>1, <1>2, <1>6, <1>7 DEF TypeOK, PcOK
  <1>9. Holders'
    BY Zenon, <1>1, <1>2, HoldersFrame DEF CancellerAt
  <1>10. Locals'
    <2>1. pc'[c] = "visit" /\ seen'[c] = Null /\ "visit" \notin {"observe", "claim"}
      BY Zenon, <1>1, <1>2 DEF CancellerAt
    <2>2. \A d \in Cancellers : d # c => /\ pc'[d] = pc[d] /\ sev'[d] = sev[d]
                                         /\ todo'[d] = todo[d] /\ seen'[d] = seen[d] /\ towake'[d] = towake[d]
      BY Zenon, <1>1, <1>2, <1>7 DEF CancellerAt
    <2>3. \A n \in Notifiers : popped'[n] = popped[n] /\ pc'[n] = pc[n]
      BY Zenon, <1>1, <1>2 DEF CancellerAt
    <2> QED
      BY Zenon, <2>1, <2>2, <2>3, LocalsStep
  <1>11. EntryFits'
    BY Zenon, <1>1, <1>2, EntryFitsFrame DEF CancellerAt
  <1>12. AtMostOneTicket' /\ SomeTicket'
    <2>1. \A u \in Tasks : InWait(u)' <=> InWait(u)
      BY Zenon, <1>1 DEF InWait, CancellerAt
    <2>2. \A f \in Entries : Held(f) => Held(f)' /\ f # e
      BY Zenon, <1>2, <1>5, <1>6, <2>1, EntryNames DEF Held
    <2>3. Held(e)'
      BY Zenon, <1>2, <1>5, <1>6, <2>1 DEF Held
    <2>4. \A u \in Tasks :
            /\ waiting_on'[u] # Null => waiting_on'[u] = entry[u] /\ InWait(u)' /\ wakes[u] = <<>>
            /\ wakes[u] # <<>> => InWait(u)' /\ Len(wakes[u]) = 1
      BY Zenon, <1>6, <2>1 DEF AtMostOneTicket
    <2>5. \A m \in Notifiers : popped[m] # Null => popped[m] \in Entries /\ Held(popped[m]) /\ popped[m] # e
      BY Zenon, <2>2 DEF TypeOK, AtMostOneTicket
    <2>6. \A d \in Cancellers : \A v \in towake[d] : v.entry \in Entries /\ Held(v.entry) /\ v.entry # e
      BY <2>2 DEF TypeOK, AtMostOneTicket
    <2>7. \A d \in Cancellers : \A v \in towake'[d] : v \in towake[d] \/ (v = w /\ d = c)
      BY Zenon, <1>7
    <2>8. \A d \in Cancellers : \A v \in towake'[d] :
            v.entry \in Entries /\ Held(v.entry)' /\ \A m \in Notifiers : popped[m] # v.entry
      <3> SUFFICES ASSUME NEW d \in Cancellers, NEW v \in towake'[d]
                   PROVE  v.entry \in Entries /\ Held(v.entry)' /\ \A m \in Notifiers : popped[m] # v.entry
        BY Zenon
      <3>1. CASE v \in towake[d]
        BY Zenon, <2>2, <2>6, <3>1 DEF AtMostOneTicket
      <3>2. CASE v = w
        BY Zenon, <1>4, <1>5, <2>3, <2>5, <3>2
      <3> QED
        BY Zenon, <2>7, <3>1, <3>2
    <2>9. \A d \in Cancellers : \A v \in towake'[d] :
            \A b \in Cancellers : \A x \in towake'[b] : x.entry = v.entry => b = d /\ x = v
      <3> SUFFICES ASSUME NEW d \in Cancellers, NEW v \in towake'[d],
                          NEW b \in Cancellers, NEW x \in towake'[b], x.entry = v.entry
                   PROVE  b = d /\ x = v
        BY Zenon
      <3>1. CASE v \in towake[d] /\ x \in towake[b]
        BY Zenon, <3>1 DEF AtMostOneTicket
      <3>2. CASE v = w /\ d = c /\ x = w /\ b = c
        BY Zenon, <3>2
      <3>3. CASE v \in towake[d] /\ x = w
        BY Zenon, <1>4, <2>6, <3>3
      <3>4. CASE v = w /\ x \in towake[b]
        BY Zenon, <1>4, <2>6, <3>4
      <3> QED
        BY Zenon, <2>7, <3>1, <3>2, <3>3, <3>4
    <2>10. \A m \in Notifiers : popped[m] # Null =>
             Held(popped[m])' /\ \A k \in Notifiers : popped[k] = popped[m] => k = m
      BY Zenon, <1>2, <2>2, <2>5 DEF AtMostOneTicket
    <2>11. AtMostOneTicket'
      <3>1. \A u \in Tasks : /\ waiting_on'[u] # Null => waiting_on'[u] = entry'[u] /\ InWait(u)' /\ wakes'[u] = <<>>
                             /\ wakes'[u] # <<>> => InWait(u)' /\ Len(wakes'[u]) = 1
        BY Zenon, <1>2, <2>4
      <3>2. \A m \in Notifiers : popped'[m] # Null =>
              Held(popped[m])' /\ \A k \in Notifiers : popped'[k] = popped'[m] => k = m
        BY Zenon, <1>2, <2>10
      <3>3. \A d \in Cancellers : \A v \in towake'[d] :
              /\ Held(v.entry)' /\ \A m \in Notifiers : popped'[m] # v.entry
              /\ \A b \in Cancellers : \A x \in towake'[b] : x.entry = v.entry => b = d /\ x = v
        BY ZenonT(30), <1>2, <2>8, <2>9
      <3> QED
        BY Zenon, <3>1, <3>2, <3>3 DEF AtMostOneTicket
    <2>12. \A u \in Tasks : \A d \in Cancellers : \A v \in towake[d] : v \in towake'[d]
      BY Zenon, <1>7
    <2>13. w \in towake'[c] /\ w.entry = entry[t]
      BY Zenon, <1>4, <1>5, <1>7
    <2>14. SomeTicket'
      <3> SUFFICES ASSUME NEW u \in Tasks, InWait(u)'
                   PROVE  \/ waiting_on'[u] # Null \/ wakes'[u] # <<>>
                          \/ \E n \in Notifiers : popped'[n] = entry'[u]
                          \/ \E d \in Cancellers : \E v \in towake'[d] : v.entry = entry'[u]
        BY Zenon DEF SomeTicket
      <3>1. CASE u = t
        BY Zenon, <1>2, <2>13, <3>1
      <3>2. CASE u # t
        <4>1. \/ waiting_on[u] # Null \/ wakes[u] # <<>>
              \/ \E n \in Notifiers : popped[n] = entry[u]
              \/ \E d \in Cancellers : \E v \in towake[d] : v.entry = entry[u]
          BY Zenon, <2>1 DEF SomeTicket
        <4> QED
          BY Zenon, <1>2, <1>6, <2>12, <3>2, <4>1
      <3> QED
        BY Zenon, <3>1, <3>2
    <2> QED
      BY Zenon, <2>11, <2>14
  <1>13. QueueFits'
    <2>1. \A u \in Tasks : waiting_on'[u] # Null => waiting_on'[u] = waiting_on[u]
      BY Zenon, <1>6
    <2> QED
      BY Zenon, <1>1, <1>2, <2>1, EntryNames DEF QueueFits, CancellerAt
  <1>14. WalksSee'
    BY Zenon, <1>1, <1>2, WalksSeeFrame DEF CancellerAt
  <1>15. Staged'
    BY Zenon, <1>1, <1>2, StagedFrame DEF CancellerAt, InWait
  <1>16. ClaimsFit' /\ DeliveryFits'
    <2>1. call[t].kind \in Kinds /\ seen[c].aux.floor <= sev[c] /\ call[t].floor \in 0..5
      BY Zenon, <1>1 DEF TypeOK, Locals
    <2>2. ~Unknown(e)
      BY Zenon, <1>3, <1>4 DEF Unknown
    <2>3. call[t].kind # "shield"
      BY ZenonT(30), <1>5, <2>2 DEF EntryFits, WalksSee
    <2>4. call[t].kind = "value" => seen[c].aux.watcher /\ call[t].floor <= sev[c]
      <3> HAVE call[t].kind = "value"
      <3>1. e[2] \in Fresh /\ pc[t] \notin {"arm", "enqueue", "register"}
        BY Zenon, <1>5, <2>2 DEF EntryFits, WalksSee
      <3>2. aux[e] = [floor |-> call[t].floor, watcher |-> TRUE]
        BY Zenon, <1>5, <3>1 DEF InWait, Staged
      <3>3. seen[c].aux = aux[e]
        BY Zenon, <1>3, <1>4, <3>1 DEF WalksSee
      <3> QED
        BY <2>1, <3>2, <3>3
    <2>5. call[t].kind \in {"cancel", "teardown"} => ~seen[c].aux.watcher
      <3> HAVE call[t].kind \in {"cancel", "teardown"}
      <3>1. e = <<t, "cancel">>
        BY Zenon, <1>5 DEF EntryFits
      <3>2. e[2] \notin Fresh
        BY Zenon, <3>1, EntryNames
      <3> QED
        BY Zenon, <1>3, <1>4, <3>2 DEF WalksSee
    <2>6. /\ w.mode = "throw" => call[t].kind \in {"cancel", "teardown"}
          /\ w.mode = "request" => call[t].kind = "value" /\ call[t].floor <= sev[c]
      BY Zenon, <1>4, <2>1, <2>3, <2>4, <2>5 DEF Kinds
    <2>7. \A d \in Cancellers : \A v \in towake'[d] : v \in towake[d] \/ (v = w /\ d = c)
      BY Zenon, <1>7
    <2>8. ClaimsFit'
      <3> SUFFICES ASSUME NEW d \in Cancellers, NEW v \in towake'[d]
                   PROVE  /\ v.mode = "throw" => call[Owner(v.entry)].kind \in {"cancel", "teardown"}
                          /\ v.mode = "request" => /\ call[Owner(v.entry)].kind = "value"
                                                   /\ call[Owner(v.entry)].floor <= sev[d]
        BY ZenonT(30), <1>2 DEF ClaimsFit
      <3>1. CASE v \in towake[d]
        BY Zenon, <3>1 DEF ClaimsFit
      <3>2. CASE v = w /\ d = c
        BY Zenon, <1>4, <1>5, <2>6, <3>2
      <3> QED
        BY Zenon, <2>7, <3>1, <3>2
    <2>9. DeliveryFits'
      BY Zenon, <1>2 DEF DeliveryFits
    <2> QED
      BY Zenon, <2>8, <2>9
  <1>17. WalkComing'
    <2>1. \A u \in Tasks : Doomed(u)' => Doomed(u) /\ u # t
      BY Zenon, <1>1, <1>2, <1>6 DEF CancellerAt, Doomed, Fires
    <2>2. \A u \in Tasks : u # t => seen[c].entry # entry[u]
      BY Zenon, <1>4, <1>5 DEF EntryFits
    <2>3. ASSUME NEW u \in Tasks, NEW d \in Cancellers, u # t, Coming(d, u)
          PROVE  Coming(d, u)'
      BY Zenon, <1>1, <1>2, <2>2, <2>3 DEF CancellerAt, Coming
    <2> QED
      BY Zenon, <2>1, <2>3, ComingFrame
  <1> QED
    BY Zenon, <1>8, <1>9, <1>10, <1>11, <1>12, <1>13, <1>14, <1>15, <1>16, <1>17

\* or loses it to another waker,
LEMMA ClaimLosesIInv ==
    ASSUME NEW c \in Cancellers, IInv, Claim(c), ~(waiting_on[Owner(seen[c].entry)] = seen[c].entry)
    PROVE  IInv'
  <1> USE DEF IInv, source, cond, waiter, notifier, walker
  <1>1. pc[c] = "claim" /\ CancellerAt(c, "visit") /\ PcOK'
    BY Zenon, CancellerMoves DEF Claim, TypeOK, PcOK, CancellerLabels
  <1>2. /\ UNCHANGED <<state, walk_lock, registered, aux, lock, waitq, waiting_on, wakes, call, entry, popped, all, sev, todo, towake>>
        /\ seen' \in [Cancellers -> Visits \cup {Null}] /\ seen'[c] = Null
        /\ \A d \in Cancellers : d # c => seen'[d] = seen[d]
        /\ ~(waiting_on[Owner(seen[c].entry)] = seen[c].entry)
    BY Zenon DEF Claim, TypeOK
  <1> USE <1>1, <1>2
  <1>3. TypeOK'
    BY Zenon DEF TypeOK, PcOK
  <1>4. Holders'
    BY Zenon, HoldersFrame DEF CancellerAt
  <1>5. Locals'
    BY ZenonT(30), LocalsStep DEF Locals, CancellerAt
  <1>6. EntryFits'
    BY Zenon, EntryFitsFrame DEF CancellerAt
  <1>7. AtMostOneTicket' /\ SomeTicket'
    BY Zenon, TicketsFrame DEF CancellerAt, InWait
  <1>8. QueueFits'
    BY Zenon, QueueFrame DEF CancellerAt, QueueLabels
  <1>9. WalksSee'
    BY Zenon, WalksSeeFrame DEF CancellerAt
  <1>10. Staged'
    BY Zenon, StagedFrame DEF CancellerAt, InWait
  <1>11. ClaimsFit' /\ DeliveryFits'
    BY Zenon, FitsFrame DEF CancellerAt, InWait
  <1>12. WalkComing'
    <2>1. \A t \in Tasks : Doomed(t)' => Doomed(t)
      BY Zenon DEF CancellerAt, Doomed, Fires
    <2>2. \A t \in Tasks : Doomed(t) => seen[c].entry # entry[t]
      <3> SUFFICES ASSUME NEW t \in Tasks, Doomed(t), seen[c].entry = entry[t] PROVE FALSE
        BY Zenon
      <3>1. waiting_on[t] # Null
        BY Zenon DEF Doomed
      <3>2. waiting_on[t] = entry[t] /\ Owner(entry[t]) = t
        BY Zenon, <3>1 DEF AtMostOneTicket, EntryFits
      <3> QED
        BY Zenon, <3>2
    <2>3. ASSUME NEW t \in Tasks, NEW d \in Cancellers, Doomed(t), Coming(d, t)
          PROVE  Coming(d, t)'
      BY Zenon, <2>2, <2>3 DEF CancellerAt, Coming
    <2> QED
      BY Zenon, <2>1, <2>3, ComingFrame
  <1> QED
    BY Zenon, <1>3, <1>4, <1>5, <1>6, <1>7, <1>8, <1>9, <1>10, <1>11, <1>12

\* one of the two.
LEMMA ClaimIInv ==
    ASSUME NEW c \in Cancellers, IInv, Claim(c)
    PROVE  IInv'
  BY Zenon, ClaimWinsIInv, ClaimLosesIInv

\* It releases its lock with every entry visited.
LEMMA UnlockWalkIInv ==
    ASSUME NEW c \in Cancellers, IInv, UnlockWalk(c)
    PROVE  IInv'
  <1> USE DEF IInv, source, cond, waiter, notifier, walker
  <1>1. pc[c] = "visit" /\ CancellerAt(c, "deliver") /\ PcOK'
    BY Zenon, CancellerMoves DEF UnlockWalk, TypeOK, PcOK, CancellerLabels
  <1>2. /\ UNCHANGED <<state, registered, aux, lock, waitq, waiting_on, wakes, call, entry, popped, all, sev, todo, seen, towake>>
        /\ todo[c] = {}
        /\ walk_lock' \in Cancellers \cup {Null}
    BY Zenon DEF UnlockWalk, TypeOK
  <1> USE <1>1, <1>2
  <1>3. TypeOK'
    BY Zenon DEF TypeOK, PcOK
  <1>4. Holders'
    BY Zenon, HoldersFrame DEF CancellerAt
  <1>5. Locals'
    BY Zenon DEF Locals, CancellerAt
  <1>6. EntryFits'
    BY Zenon, EntryFitsFrame DEF CancellerAt
  <1>7. AtMostOneTicket' /\ SomeTicket'
    BY Zenon, TicketsFrame DEF CancellerAt, InWait
  <1>8. QueueFits'
    BY Zenon, QueueFrame DEF CancellerAt, QueueLabels
  <1>9. WalksSee'
    BY Zenon, WalksSeeFrame DEF CancellerAt
  <1>10. Staged'
    BY Zenon, StagedFrame DEF CancellerAt, InWait
  <1>11. ClaimsFit' /\ DeliveryFits'
    BY Zenon, FitsFrame DEF CancellerAt, InWait
  <1>12. WalkComing'
    <2>1. \A t \in Tasks : Doomed(t)' => Doomed(t)
      BY Zenon DEF CancellerAt, Doomed, Fires
    <2>2. \A t \in Tasks, d \in Cancellers : Doomed(t)' /\ Coming(d, t) => Coming(d, t)'
      BY Zenon DEF CancellerAt, Locals, Coming, Doomed, Fires
    <2> QED
      BY Zenon, <2>1, <2>2, ComingFrame
  <1> QED
    BY Zenon, <1>3, <1>4, <1>5, <1>6, <1>7, <1>8, <1>9, <1>10, <1>11, <1>12

\* It delivers a wake that it claimed.
LEMMA DeliverIInv ==
    ASSUME NEW c \in Cancellers, IInv, Deliver(c)
    PROVE  IInv'
  <1> USE DEF IInv, source, cond, waiter, notifier, walker
  <1>1. pc[c] = "deliver" /\ PcOK' /\ pc' = pc
    BY Zenon DEF Deliver, TypeOK, PcOK
  <1>0. CancellerAt(c, pc[c])
    BY Zenon, <1>1 DEF CancellerAt
  <1>2. /\ UNCHANGED <<state, walk_lock, registered, aux, lock, waiting_on, call, entry, popped, all, sev, todo, seen>>
    BY Zenon DEF Deliver, TypeOK
  <1>3. PICK w \in towake[c] :
            /\ towake' = [towake EXCEPT ![c] = @ \ {w}]
            /\ IF Rearmed(Owner(w.entry))
               THEN UNCHANGED <<waitq, wakes>>
               ELSE /\ waitq' = IF lock = Null THEN Unlink(waitq, w.entry) ELSE waitq
                    /\ wakes' = [wakes EXCEPT ![Owner(w.entry)] =
                                   Append(Unqueued(Owner(w.entry)), [mode |-> w.mode, sev |-> sev[c]])]
    BY Zenon DEF Deliver
  <1>4. w.entry \in Entries /\ w.mode \in {"request", "throw"} /\ sev[c] \in 0..4 /\ Held(w.entry)
    BY <1>3 DEF TypeOK, AtMostOneTicket
  <1>5. PICK e \in Entries, t \in Tasks : e = w.entry /\ t = Owner(e) /\ e = entry[t] /\ InWait(t) /\ waiting_on[t] = Null /\ wakes[t] = <<>>
    BY Zenon, <1>4, EntryNames DEF Held
  <1>6. PICK x \in Wakes : x.mode = w.mode /\ x.sev = sev[c] /\ wakes' = [wakes EXCEPT ![t] = Append(<<>>, x)]
    <2>1. [mode |-> w.mode, sev |-> sev[c]] \in Wakes
      BY Zenon, <1>4 DEF Wakes
    <2> QED
      BY Zenon, <1>3, <1>5, <2>1 DEF Rearmed, Unqueued
  <1>7. /\ Append(<<>>, x) \in Seq(Wakes) /\ Len(wakes'[t]) = 1 /\ wakes'[t][1] = x /\ wakes'[t] # <<>>
        /\ \A u \in Tasks : u # t => wakes'[u] = wakes[u]
    BY Zenon, <1>6, FirstWake DEF TypeOK
  <1>8. wakes' \in [Tasks -> Seq(Wakes)]
    BY Zenon, <1>6, <1>7 DEF TypeOK
  <1>9. /\ waitq' \in Seq(Entries) /\ Distinct(waitq')
        /\ \A f \in Entries : f # e => (InQueue(waitq', f) <=> InQueue(waitq, f))
        /\ InQueue(waitq', e) => InQueue(waitq, e)
    <2>1. waitq' = waitq \/ waitq' = Unlink(waitq, e)
      BY Zenon, <1>3, <1>5
    <2>2. waitq \in Seq(Entries) /\ Distinct(waitq)
      BY Zenon DEF TypeOK, QueueFits
    <2>3. /\ Unlink(waitq, e) \in Seq(Entries) /\ Distinct(Unlink(waitq, e))
          /\ \A f \in Entries : InQueue(Unlink(waitq, e), f) <=> InQueue(waitq, f) /\ f # e
      BY Zenon, <2>2, UnlinkEntry
    <2>4. CASE waitq' = waitq
      BY Zenon, <2>2, <2>4
    <2>5. CASE waitq' = Unlink(waitq, e)
      BY Zenon, <2>3, <2>5
    <2> QED
      BY Zenon, <2>1, <2>4, <2>5
  <1>10. /\ towake' \in [Cancellers -> SUBSET [entry : Entries, mode : {"request", "throw"}]]
        /\ towake'[c] = towake[c] \ {w}
        /\ \A d \in Cancellers : d # c => towake'[d] = towake[d]
    BY Zenon, <1>3 DEF TypeOK
  <1>11. TypeOK'
    BY Zenon, <1>1, <1>2, <1>8, <1>9, <1>10 DEF TypeOK, PcOK
  <1>12. Holders'
    BY Zenon, <1>0, <1>2, HoldersFrame DEF CancellerAt
  <1>13. Locals'
    BY Zenon, <1>1, <1>2, <1>10 DEF Locals
  <1>14. EntryFits'
    BY Zenon, <1>0, <1>2, EntryFitsFrame DEF CancellerAt
  <1>15. AtMostOneTicket' /\ SomeTicket'
    <2>1. \A u \in Tasks : InWait(u)' <=> InWait(u)
      BY Zenon, <1>1 DEF InWait
    <2>2. \A f \in Entries : Held(f) /\ f # e => Held(f)'
      BY Zenon, <1>2, <1>5, <1>7, <2>1, EntryNames DEF Held
    <2>3. \A u \in Tasks :
            /\ waiting_on[u] # Null => waiting_on[u] = entry[u] /\ InWait(u)' /\ wakes'[u] = <<>>
            /\ wakes'[u] # <<>> => InWait(u)' /\ Len(wakes'[u]) = 1
      <3> TAKE u \in Tasks
      <3>1. CASE u = t
        BY Zenon, <1>5, <1>7, <2>1, <3>1
      <3>2. CASE u # t
        BY Zenon, <1>7, <2>1, <3>2 DEF AtMostOneTicket
      <3> QED
        BY Zenon, <3>1, <3>2
    <2>4. \A m \in Notifiers : popped[m] # Null => popped[m] \in Entries /\ Held(popped[m]) /\ popped[m] # e
      <3>1. \A m \in Notifiers : popped[m] # w.entry
        BY Zenon, <1>3 DEF AtMostOneTicket
      <3>2. \A m \in Notifiers : popped[m] # Null => popped[m] \in Entries
        BY Zenon DEF TypeOK
      <3>3. \A m \in Notifiers : popped[m] # Null => Held(popped[m])
        BY Zenon DEF AtMostOneTicket
      <3> QED
        BY Zenon, <1>5, <3>1, <3>2, <3>3
    <2>5. \A d \in Cancellers : \A v \in towake'[d] : v \in towake[d] /\ v.entry \in Entries /\ Held(v.entry) /\ v.entry # e
      <3>1. \A d \in Cancellers : \A v \in towake'[d] : v \in towake[d] /\ (d = c => v # w)
        BY Zenon, <1>10
      <3>2. \A d \in Cancellers : \A v \in towake[d] : v.entry \in Entries
        BY DEF TypeOK
      <3>3. \A d \in Cancellers : \A v \in towake[d] : Held(v.entry)
        BY Zenon DEF AtMostOneTicket
      <3>4. \A d \in Cancellers : \A v \in towake[d] : v.entry = w.entry => d = c /\ v = w
        BY Zenon, <1>3 DEF AtMostOneTicket
      <3> QED
        BY Zenon, <1>5, <3>1, <3>2, <3>3, <3>4
    <2>6. \A m \in Notifiers : popped[m] # Null =>
            Held(popped[m])' /\ \A k \in Notifiers : popped[k] = popped[m] => k = m
      BY Zenon, <1>2, <2>2, <2>4 DEF AtMostOneTicket
    <2>7. \A d \in Cancellers : \A v \in towake'[d] :
            /\ Held(v.entry)'
            /\ \A m \in Notifiers : popped[m] # v.entry
            /\ \A b \in Cancellers : \A y \in towake'[b] : y.entry = v.entry => b = d /\ y = v
      BY Zenon, <2>2, <2>5 DEF AtMostOneTicket
    <2>8. AtMostOneTicket'
      BY Zenon, <1>2, <2>3, <2>6, <2>7 DEF AtMostOneTicket
    <2>9. \A u \in Tasks : u # t => \A d \in Cancellers : \A v \in towake[d] : v.entry = entry[u] => v \in towake'[d]
      BY Zenon, <1>5, <1>10 DEF EntryFits
    <2>10. SomeTicket'
      BY Zenon, <1>2, <1>7, <2>1, <2>9 DEF SomeTicket
    <2> QED
      BY Zenon, <2>8, <2>10
  <1>16. QueueFits'
    <2>1. \A u \in Tasks : waiting_on[u] # Null => waiting_on[u] \in Entries /\ waiting_on[u] # e
      BY <1>5 DEF TypeOK, AtMostOneTicket, EntryFits
    <2> QED
      BY Zenon, <1>1, <1>2, <1>9, <2>1 DEF QueueFits
  <1>17. WalksSee'
    BY Zenon, <1>0, <1>1, <1>2, WalksSeeFrame
  <1>18. Staged'
    BY Zenon, <1>1, <1>2, StagedFrame DEF InWait
  <1>19. ClaimsFit' /\ DeliveryFits'
    <2>1. ClaimsFit'
      BY Zenon, <1>2, <1>10 DEF ClaimsFit
    <2>2. /\ w.mode = "throw" => call[t].kind \in {"cancel", "teardown"}
          /\ w.mode = "request" => call[t].kind = "value" /\ call[t].floor <= sev[c]
      BY Zenon, <1>3, <1>5 DEF ClaimsFit
    <2>3. call[t].floor \in 0..5
      BY Zenon DEF TypeOK
    <2>4. \A i \in 1..Len(wakes'[t]) : wakes'[t][i] = x
      BY <1>7
    <2>5. \A i \in 1..Len(wakes'[t]) :
            /\ wakes'[t][i].mode = "throw" => call[t].kind \in {"cancel", "teardown"}
            /\ wakes'[t][i].mode = "request" => call[t].kind = "value" /\ wakes'[t][i].sev >= call[t].floor
      BY Zenon, <1>4, <1>6, <2>2, <2>3, <2>4
    <2>6. DeliveryFits'
      BY Zenon, <1>2, <1>7, <2>5 DEF DeliveryFits
    <2> QED
      BY Zenon, <2>1, <2>6
  <1>20. WalkComing'
    BY Zenon, <1>1, <1>2, TaskComingFrame
  <1> QED
    BY Zenon, <1>11, <1>12, <1>13, <1>14, <1>15, <1>16, <1>17, <1>18, <1>19, <1>20

\* It is done when it owes no delivery.
LEMMA DeliveredIInv ==
    ASSUME NEW c \in Cancellers, IInv, Delivered(c)
    PROVE  IInv'
  <1> USE DEF IInv, source, cond, waiter, notifier, walker
  <1>1. pc[c] = "deliver" /\ CancellerAt(c, "idle") /\ PcOK'
    BY Zenon, CancellerMoves DEF Delivered, TypeOK, PcOK, CancellerLabels
  <1>2. /\ UNCHANGED <<state, walk_lock, registered, aux, lock, waitq, waiting_on, wakes, call, entry, popped, all, todo, seen, towake>>
        /\ towake[c] = {}
        /\ sev' \in [Cancellers -> 0..4]
        /\ \A d \in Cancellers : d # c => sev'[d] = sev[d]
    BY DEF Delivered, TypeOK
  <1> USE <1>1, <1>2
  <1>3. TypeOK'
    BY Zenon DEF TypeOK, PcOK
  <1>4. Holders'
    BY Zenon, HoldersFrame DEF CancellerAt
  <1>5. Locals'
    BY Zenon DEF Locals, CancellerAt
  <1>6. EntryFits'
    BY Zenon, EntryFitsFrame DEF CancellerAt
  <1>7. AtMostOneTicket' /\ SomeTicket'
    BY Zenon, TicketsFrame DEF CancellerAt, InWait
  <1>8. QueueFits'
    BY Zenon, QueueFrame DEF CancellerAt, QueueLabels
  <1>9. WalksSee'
    BY Zenon, WalksSeeFrame DEF CancellerAt
  <1>10. Staged'
    BY Zenon, StagedFrame DEF CancellerAt, InWait
  <1>11. ClaimsFit' /\ DeliveryFits'
    BY Zenon, FitsFrame DEF CancellerAt, InWait
  <1>12. WalkComing'
    <2>1. \A t \in Tasks : Doomed(t)' => Doomed(t)
      BY Zenon DEF CancellerAt, Doomed, Fires
    <2>2. \A t \in Tasks, d \in Cancellers : Doomed(t)' /\ Coming(d, t) => Coming(d, t)'
      BY Zenon DEF CancellerAt, Locals, Coming, Doomed, Fires
    <2> QED
      BY Zenon, <2>1, <2>2, ComingFrame
  <1> QED
    BY Zenon, <1>3, <1>4, <1>5, <1>6, <1>7, <1>8, <1>9, <1>10, <1>11, <1>12

\* Every step preserves the invariant.
LEMMA NextIInv == IInv /\ [Next]_vars => IInv'
  <1> SUFFICES ASSUME IInv, [Next]_vars PROVE IInv'
    BY Zenon
  <1>1. ASSUME NEW t \in Tasks, TaskStep(t) PROVE IInv'
    BY Zenon, <1>1, CheckArgIInv, CheckIInv, ArmIInv, EnqueueIInv, RegisterIInv, RecheckIInv, ReleaseIInv,
       ResumeIInv, RelockIInv, CleanupIInv, ThrownIInv, ReturnIInv DEF TaskStep
  <1>2. ASSUME NEW n \in Notifiers, NotifyStep(n) PROVE IInv'
    BY Zenon, <1>2, PopIInv, ScheduleIInv, NotifyUnlockIInv DEF NotifyStep
  <1>3. ASSUME NEW c \in Cancellers, WalkStep(c) PROVE IInv'
    BY Zenon, <1>3, LockWalkIInv, ReadHeadIInv, VisitIInv, ObserveIInv, ClaimIInv, UnlockWalkIInv,
       DeliverIInv, DeliveredIInv DEF WalkStep
  <1>4. CASE UNCHANGED vars
    <2>1. UNCHANGED <<state, walk_lock, registered, aux, lock, waitq, waiting_on, wakes, pc, call, entry,
                      popped, all, sev, todo, seen, towake>>
      BY Zenon, <1>4 DEF vars, source, cond, waiter, notifier, walker
    <2>2. TypeOK' /\ Holders' /\ Locals' /\ EntryFits'
      BY Zenon, <2>1 DEF IInv, TypeOK, Holders, Locals, EntryFits, InWait
    <2>3. AtMostOneTicket' /\ SomeTicket' /\ QueueFits'
      <3>1. AtMostOneTicket' /\ SomeTicket'
        BY Zenon, <2>1, TicketsFrame DEF IInv, InWait
      <3>2. QueueFits'
        BY Zenon, <2>1 DEF IInv, QueueFits
      <3> QED
        BY Zenon, <3>1, <3>2
    <2>4. WalksSee' /\ Staged'
      BY Zenon, <2>1 DEF IInv, WalksSee, Unknown, Staged, InWait
    <2>5. ClaimsFit' /\ DeliveryFits'
      BY Zenon, <2>1 DEF IInv, ClaimsFit, DeliveryFits, InWait
    <2>6. WalkComing'
      BY Zenon, <2>1 DEF IInv, WalkComing, Coming, Doomed, Fires
    <2> QED
      BY Zenon, <2>2, <2>3, <2>4, <2>5, <2>6 DEF IInv
  <1> QED
    BY Zenon, <1>1, <1>2, <1>3, <1>4, EnterIInv, NotifyLockIInv, RedeliverIInv, RaiseIInv DEF Next

-----------------------------------------------------------------------------
(* Theorems *)

(* The inductive invariant: for any number of tasks, notifiers and cancellers *)
(* the state of a wait, the queue of the condition, the waiter list and the   *)
(* locals of the walks agree as IInv says.                                    *)
THEOREM Invariance == Spec => []IInv
  BY InitIInv, NextIInv, PTL DEF Spec

(* Every variable keeps its type.                                             *)
THEOREM TypeCorrect == Spec => []TypeOK
  <1>1. IInv => TypeOK
    BY Zenon DEF IInv
  <1> QED
    BY <1>1, Invariance, PTL

(* The wake-claim protocol: from its arm to its resumption a task has exactly *)
(* one ticket out, and none otherwise, however notify, the walks and the      *)
(* task's own recheck race for t.waiting_on.                                  *)
THEOREM WakeClaimedOnce == Spec => []OneTicket
  <1>1. ASSUME IInv PROVE OneTicket
    <2> SUFFICES ASSUME NEW t \in Tasks
                 PROVE  IF InWait(t) THEN \E x \in Tickets(t) : Tickets(t) = {x} ELSE Tickets(t) = {}
      BY Zenon DEF OneTicket, InWait
    <2> DEFINE armed == {<<"armed", waiting_on[u]>> : u \in {u \in {t} : waiting_on[u] # Null}}
               notified == {<<"notify", n>> : n \in {n \in Notifiers : popped[n] # Null /\ Owner(popped[n]) = t}}
               walked == UNION {{<<"walk", c, w>> : w \in {w \in towake[c] : Owner(w.entry) = t}} : c \in Cancellers}
               woken == {<<"wake", i>> : i \in 1..Len(wakes[t])}
    <2>0. Tickets(t) = armed \cup notified \cup walked \cup woken
      BY Zenon DEF Tickets
    <2>1. /\ waiting_on[t] # Null => waiting_on[t] = entry[t] /\ InWait(t) /\ wakes[t] = <<>>
          /\ wakes[t] # <<>> => InWait(t) /\ Len(wakes[t]) = 1
          /\ entry[t] \in Entries /\ Owner(entry[t]) = t
          /\ wakes[t] \in Seq(Wakes)
      BY Zenon, <1>1 DEF IInv, TypeOK, EntryFits, AtMostOneTicket
    <2>2. \A n \in Notifiers : popped[n] # Null /\ Owner(popped[n]) = t =>
             /\ popped[n] = entry[t] /\ InWait(t) /\ waiting_on[t] = Null /\ wakes[t] = <<>>
             /\ \A m \in Notifiers : popped[m] = entry[t] => m = n
      <3>1. ASSUME NEW n \in Notifiers, popped[n] # Null, Owner(popped[n]) = t
            PROVE  Held(popped[n]) /\ \A m \in Notifiers : popped[m] = popped[n] => m = n
        BY Zenon, <1>1, <3>1 DEF IInv, AtMostOneTicket
      <3>2. ASSUME NEW n \in Notifiers, popped[n] # Null, Owner(popped[n]) = t
            PROVE  popped[n] = entry[t] /\ InWait(t) /\ waiting_on[t] = Null /\ wakes[t] = <<>>
        BY Zenon, <3>1, <3>2 DEF Held
      <3> QED
        BY Zenon, <3>1, <3>2
    <2>3. \A c \in Cancellers : \A w \in towake[c] : Owner(w.entry) = t =>
             /\ w.entry = entry[t] /\ InWait(t) /\ waiting_on[t] = Null /\ wakes[t] = <<>>
             /\ \A n \in Notifiers : popped[n] # entry[t]
             /\ \A d \in Cancellers : \A v \in towake[d] : v.entry = entry[t] => d = c /\ v = w
      <3> SUFFICES ASSUME NEW c \in Cancellers, NEW w \in towake[c], Owner(w.entry) = t
                   PROVE  /\ w.entry = entry[t] /\ InWait(t) /\ waiting_on[t] = Null /\ wakes[t] = <<>>
                          /\ \A n \in Notifiers : popped[n] # entry[t]
                          /\ \A d \in Cancellers : \A v \in towake[d] : v.entry = entry[t] => d = c /\ v = w
        BY Zenon
      <3>1. /\ Held(w.entry) /\ \A n \in Notifiers : popped[n] # w.entry
            /\ \A d \in Cancellers : \A v \in towake[d] : v.entry = w.entry => d = c /\ v = w
        BY Zenon, <1>1 DEF IInv, AtMostOneTicket
      <3>2. w.entry = entry[t] /\ InWait(t) /\ waiting_on[t] = Null /\ wakes[t] = <<>>
        BY Zenon, <3>1 DEF Held
      <3> QED
        BY Zenon, <3>1, <3>2
    <2>4. InWait(t) =>
            \/ waiting_on[t] # Null
            \/ wakes[t] # <<>>
            \/ \E n \in Notifiers : popped[n] = entry[t]
            \/ \E c \in Cancellers : \E w \in towake[c] : w.entry = entry[t]
      BY Zenon, <1>1 DEF IInv, SomeTicket
    <2>5. (waiting_on[t] = Null => armed = {}) /\ (waiting_on[t] # Null => armed = {<<"armed", waiting_on[t]>>})
      BY Zenon
    <2>6. (wakes[t] = <<>> => woken = {}) /\ (Len(wakes[t]) = 1 => woken = {<<"wake", 1>>})
      <3>1. wakes[t] = <<>> => Len(wakes[t]) = 0
        OBVIOUS
      <3>2. 1..0 = {} /\ 1..1 = {1}
        OBVIOUS
      <3> QED
        BY Zenon, <3>1, <3>2
    <2>7. (\A n \in Notifiers : popped[n] # Null => Owner(popped[n]) # t) => notified = {}
      BY Zenon
    <2>8. (\A c \in Cancellers : \A w \in towake[c] : Owner(w.entry) # t) => walked = {}
      BY Zenon
    <2> HIDE DEF armed, woken
    <2>9. CASE ~InWait(t)
      BY Zenon, <2>0, <2>1, <2>2, <2>3, <2>5, <2>6, <2>7, <2>8, <2>9
    <2>10. CASE InWait(t) /\ (waiting_on[t] # Null \/ wakes[t] # <<>>)
      <3>1. notified = {} /\ walked = {}
        BY Zenon, <2>2, <2>3, <2>7, <2>8, <2>10, <2>1
      <3> QED
        BY Zenon, <2>0, <2>1, <2>5, <2>6, <2>10, <3>1
    <2>11. CASE InWait(t) /\ waiting_on[t] = Null /\ wakes[t] = <<>> /\ \E n \in Notifiers : popped[n] = entry[t]
      <3>1. PICK n \in Notifiers : popped[n] = entry[t]
        BY Zenon, <2>11
      <3>2. popped[n] # Null /\ Owner(popped[n]) = t
        BY Zenon, <2>1, <3>1, Names
      <3>3. notified = {<<"notify", n>>}
        BY Zenon, <2>2, <3>1, <3>2
      <3>4. walked = {}
        BY Zenon, <2>3, <2>8, <3>1
      <3> QED
        BY Zenon, <2>0, <2>5, <2>6, <2>11, <3>3, <3>4
    <2>12. CASE InWait(t) /\ waiting_on[t] = Null /\ wakes[t] = <<>>
                /\ \E c \in Cancellers : \E w \in towake[c] : w.entry = entry[t]
      <3>0. PICK c \in Cancellers : \E w \in towake[c] : w.entry = entry[t]
        BY Zenon, <2>12
      <3>1. PICK w \in towake[c] : w.entry = entry[t]
        BY Zenon, <3>0
      <3>2. notified = {}
        BY Zenon, <2>1, <2>2, <2>3, <2>7, <3>1
      <3>3. walked = {<<"walk", c, w>>}
        BY <2>1, <2>3, <3>1
      <3> QED
        BY Zenon, <2>0, <2>5, <2>6, <2>12, <3>2, <3>3
    <2> QED
      BY Zenon, <2>4, <2>9, <2>10, <2>11, <2>12
  <1> QED
    BY <1>1, Invariance, PTL

(* What a wake delivers fits the wait that it reaches, also when a walk lags  *)
(* behind a task that has gone on to another wait with the same entry.        *)
THEOREM DeliveriesFit == Spec => []DeliveryFits
  <1>1. IInv => DeliveryFits
    BY Zenon DEF IInv
  <1> QED
    BY <1>1, Invariance, PTL

(* The register-then-recheck of a wait and the raise-then-walk of cancel!     *)
(* cannot both miss: a suspended wait that is still armed under a             *)
(* cancellation at its floor or above has a walk coming.                      *)
THEOREM CancelNotMissed == Spec => []NoMissedCancel
  <1>1. ASSUME IInv PROVE NoMissedCancel
    <2>1. \A c \in Cancellers, t \in Tasks : Coming(c, t) => WillVisit(c, entry[t])
      BY Zenon DEF Coming, WillVisit
    <2> QED
      BY Zenon, <1>1, <2>1 DEF IInv, WalkComing, NoMissedCancel
  <1> QED
    BY <1>1, Invariance, PTL

(* The queue of the condition holds each entry once, the entry of every armed *)
(* wait, and no entry of a task that is outside of a wait.                    *)
THEOREM QueueCorrect == Spec => []QueueMatchesWaits
  <1>1. IInv => QueueMatchesWaits
    BY Zenon, QueueFitsMatches DEF IInv
  <1> QED
    BY <1>1, Invariance, PTL

(* Whenever wait returns, or the public wait throws, the caller has its lock. *)
THEOREM LockHeldOnReturn == Spec => []HeldOnReturn
  <1>1. IInv => HeldOnReturn
    BY Zenon DEF IInv, Holders, HeldOnReturn
  <1> QED
    BY <1>1, Invariance, PTL
=============================================================================
