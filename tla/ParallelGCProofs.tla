-------------------------- MODULE ParallelGCProofs --------------------------
(* Marking is complete and follows each reference once, for any number of   *)
(* threads, any heap and any sizes.                                         *)
EXTENDS ParallelGCSweep, ParallelGCHeap

(* The provers get more time than by default: there are many facts in scope. *)
USE ZenonT(30)

\* Every step of gc_mark_and_steal is of a thread in the mark loop.
LEMMA MarkAndStealWalk ==
    ASSUME SweepInv, HeapTypes, Bounds, WalkInv, NEW a \in Threads, MarkAndSteal(a)
    PROVE  Walks(a) /\ WalkInv' /\ pc[a] \in MarkLabels
  <1>1. LoopInv /\ MarkMove(a) /\ Aside /\ Moves(a)
    BY MarkAndStealSweep DEF SweepInv, MarkMove
  <1> USE <1>1
  <1>2. ThreadsOK /\ TidOK /\ Threads' = Threads
    BY MovesThreads DEF LoopInv
  <1> USE <1>2
  <1>3. \A c : Walk(c)' = Walk(c)
    BY WalkSame DEF Aside
  <1> USE <1>3
  <1>4. Walks(a) /\ pc[a] \in MarkLabels
    <2> USE DEF MarkLabels
    <2>1. CASE PopPtr(a)
      BY <2>1, PopPtrWalk DEF PopPtr
    <2>2. CASE PopChunk(a)
      BY <2>2, PopChunkWalk DEF PopChunk
    <2>3. CASE Restore(a)
      <3>1. pc[a] \in {"pop_chunk", "mark_chunk", "steal", "scan"}
        BY <2>3 DEF Restore, LoopInv, Dips
      <3> QED
        BY <2>3, <3>1, RestoreWalk
    <2>4. CASE gc_mark_chunk(a) \/ Look(a) \/ Claim(a) \/ Scanned(a)
      BY <2>4, ScanWalk
    <2>5. CASE StealRandom(a)
      <3>1. PICK g \in GCThreads : LET q == <<Walk(a)[pos[a]][1], g>> IN Queue(q) # <<>> /\ Stolen(a, q)
        BY <2>5 DEF StealRandom
      <3>2. pos[a] \in 1..Len(Walk(a)) /\ pc[a] = "steal"
        <4>1. pc[a] = "steal" /\ pos[a] \in {1, Len(GCOrder) + 2}
          BY <2>5 DEF StealRandom
        <4>2. Len(Walk(a)) = 2 * (Len(GCOrder) + 1) /\ Len(GCOrder) \in Nat
          BY WalkFacts, OrderFacts
        <4> QED
          BY SMTT(30), <4>1, <4>2
      <3>3. Walk(a)[pos[a]] \in Queues /\ g \in Threads
        BY <3>2, WalkFacts, Crew
      <3>4. Walk(a)[pos[a]][1] \in {"ptr", "chunk"}
        BY <3>3, QueuesFresh
      <3>5. <<Walk(a)[pos[a]][1], g>> \in Queues
        BY <3>3, <3>4 DEF Queues
      <3>6. PICK q \in Queues : q = <<Walk(a)[pos[a]][1], g>>
        BY <3>5
      <3>7. Queue(q) # <<>> /\ Stolen(a, q)
        BY <3>1, <3>6
      <3> QED
        BY <3>2, <3>7, StolenWalk
    <2>6. CASE StealLook(a)
      BY <2>6, StealLookWalk DEF StealLook
    <2>7. CASE StealTry(a)
      <3>1. pc[a] = "steal" /\ try[a] \notin {Null, Lost} /\ Stolen(a, try[a])
        BY <2>7 DEF StealTry
      <3> USE <3>1
      <3>2. try[a] \in Queues /\ Queue(try[a]) # <<>>
        BY DEF WalkInv, WalkAt
      <3>3. PICK q \in Queues : q = try[a]
        BY <3>2
      <3>4. Queue(q) # <<>> /\ Stolen(a, q)
        BY <3>2, <3>3
      <3> QED
        BY <3>4, StolenWalk
    <2>8. CASE StealLost(a)
      BY <2>8, StealLostWalk
    <2>9. CASE StealNothing(a)
      BY <2>9, StealNothingWalk
    <2> QED
      BY <2>1, <2>2, <2>3, <2>4, <2>5, <2>6, <2>7, <2>8, <2>9 DEF MarkAndSteal
  <1> USE <1>4
  <1>5. \A c \in Threads : WalkAt(c)'
    BY OtherWalk DEF Walks, Moves
  <1>6. Queues' = Queues
    BY DEF Queues
  <1>7. WalkInv'
    BY <1>5, <1>6 DEF Walks, WalkInv, Lost
  <1> QED
    BY <1>7

\* While the initiator is in gc_mark_loop.
LEMMA MarkAndStealAttended ==
    ASSUME SweepInv, HeapTypes, Bounds, WalkInv, Attended, tid = Initiator, NEW a \in Threads, MarkAndSteal(a)
    PROVE  Attended'
  <1>1. LoopInv /\ MarkMove(a) /\ Aside /\ Moves(a) /\ ThreadsOK /\ TidOK
    BY MarkAndStealSweep DEF SweepInv, MarkMove, LoopInv
  <1> USE <1>1
  <1>2. Threads' = Threads /\ tid' = tid /\ tid # Null /\ Queues' = Queues
    BY MovesThreads, ThreadsDistinct DEF MarkMove, Queues
  <1> USE <1>2
  <1>3. \A c : Walk(c)' = Walk(c)
    BY WalkSame DEF Aside
  <1> USE <1>3
  <1>4. pc \in [Threads -> InitiatorLabels \cup HelperLabels]
    BY DEF ThreadsOK
  <1> USE <1>4
  <1>5. CASE pc'[a] \in MarkLabels \ {"steal"}
    BY <1>5, VisitsAll DEF Attended
  <1>6. CASE pc'[a] \notin MarkLabels \ {"steal"}
    <2>1. CASE PopPtr(a)
      <3>1. Goto(a, "pop_chunk") \/ Goto(a, "scan")
        BY <2>1 DEF PopPtr
      <3> QED
        BY <1>6, <3>1 DEF Goto, MarkLabels
    <2>2. CASE PopChunk(a)
      <3>1. chunks[a] = <<>>
        <4>1. chunks[a] # <<>> => Goto(a, "mark_chunk")
          BY <2>2 DEF PopChunk
        <4> QED
          BY <1>6, <4>1 DEF Goto, MarkLabels
      <3>2. Len(chunks[a]) # 1
        BY SMTT(30), <3>1
      <3>3. Goto(a, "steal") /\ pc[a] = "pop_chunk" /\ pos' = pos /\ try' = try
        BY <2>2, <3>1, <3>2 DEF PopChunk
      <3>4. pc'[a] = "steal" /\ pos'[a] = 1 /\ try'[a] = Null /\ Null # Lost
        BY <3>3, WalkBase DEF Goto
      <3>5. "steal" \in LoopLabels /\ "steal" # "dec"
        BY DEF LoopLabels, MarkLabels
      <3>6. \A q \in Queues : \E k \in 1..Len(Walk(a)) : Walk(a)[k] = q
        BY WalkFacts
      <3>7. \A q \in Queues : Visitor(a, q)'
        BY <3>4, <3>5, <3>6 DEF Visitor, Marking
      <3> QED
        BY <3>7 DEF Attended
    <2>3. CASE gc_mark_chunk(a) \/ Look(a) \/ Claim(a) \/ Scanned(a)
      <3>1. pc'[a] \in {"scan", "claim", "pop_ptr"}
        BY <2>3, ScanWalk
      <3> QED
        BY <1>6, <3>1 DEF MarkLabels
    <2>4. CASE StealRandom(a) \/ StealTry(a)
      <3>1. \E q : Stolen(a, q)
        BY <2>4 DEF StealRandom, StealTry
      <3>2. Goto(a, "scan") \/ Goto(a, "mark_chunk")
        BY <3>1 DEF Stolen
      <3> QED
        BY <1>6, <3>2 DEF Goto, MarkLabels
    <2>5. CASE Restore(a)
      <3>1. UNCHANGED <<pc, ptrs, chunks, pos, try>>
        BY <2>5 DEF Restore, heap
      <3>2. \A q \in Queues : Visitor(a, q) => Visitor(a, q)'
        BY <3>1, VisitorStays
      <3> QED
        BY <3>1, <3>2, QuietWork
    <2>6. CASE StealLook(a)
      <3>1. /\ UNCHANGED <<pc, ptrs, chunks>>
            /\ \/ \E n : pos' = [pos EXCEPT ![a] = n] /\ try' = try
               \/ \E u : try' = [try EXCEPT ![a] = u] /\ pos' = pos
        BY <2>6 DEF StealLook
      <3>2. pos \in [Threads -> Nat] /\ try \in [Threads -> Queues \cup {Null, Lost}]
        BY DEF WalkInv
      <3>3. \A c \in Threads : c # a => pos'[c] = pos[c] /\ try'[c] = try[c]
        BY <3>1, <3>2
      <3>4. \A q \in Queues : Queue(q) # <<>> /\ Visitor(a, q) => Visitor(a, q)' \/ Marking(q[2])
        BY <2>6, StealLookWork
      <3> QED
        BY <3>1, <3>3, <3>4, QuietWork
    <2>7. CASE StealLost(a)
      <3>1. /\ UNCHANGED <<pc, ptrs, chunks>>
            /\ try' = [try EXCEPT ![a] = Null] /\ pos' = [pos EXCEPT ![a] = pos[a] + 1]
        BY <2>7 DEF StealLost
      <3>2. pos \in [Threads -> Nat] /\ try \in [Threads -> Queues \cup {Null, Lost}]
        BY DEF WalkInv
      <3>3. \A c \in Threads : c # a => pos'[c] = pos[c] /\ try'[c] = try[c]
        BY <3>1, <3>2
      <3>4. \A q \in Queues : Visitor(a, q) => Visitor(a, q)'
        BY <2>7, StealLostWork
      <3> QED
        BY <3>1, <3>3, <3>4, QuietWork
    <2>8. CASE StealNothing(a)
      <3>1. /\ UNCHANGED <<ptrs, chunks, try>> /\ pos' = [pos EXCEPT ![a] = 1]
            /\ pc[a] = "steal" /\ pos[a] > Len(Walk(a))
        BY <2>8 DEF StealNothing, Step
      <3> USE <3>1
      <3>2. pos \in [Threads -> Nat] /\ Len(Walk(a)) \in Nat
        BY WalkBase
      <3>3. \A c \in Threads : c # a => pos'[c] = pos[c] /\ try'[c] = try[c]
        BY <3>2
      <3>4. \A k \in pos[a]..Len(Walk(a)) : FALSE
        BY SMTT(30), <3>2
      <3>5. \A q \in Queues : ~Visitor(a, q)
        BY <3>4 DEF Visitor
      <3> QED
        BY <3>3, <3>5, QuietWork
    <2> QED
      BY <2>1, <2>2, <2>3, <2>4, <2>5, <2>6, <2>7, <2>8 DEF MarkAndSteal
  <1> QED
    BY <1>5, <1>6

\* No step of gc_mark_and_steal leaves work that nobody will visit.
LEMMA MarkAndStealWork ==
    ASSUME SweepInv, HeapTypes, Bounds, WalkInv, WorkInv, NEW a \in Threads, MarkAndSteal(a)
    PROVE  WorkInv'
  <1>1. /\ LoopInv /\ MarkMove(a) /\ Aside /\ Moves(a) /\ ThreadsOK /\ TidOK /\ Alone /\ tid' = tid
        /\ \A c : Walk(c)' = Walk(c)
    BY MarkAndStealSweep, WalkSame DEF SweepInv, MarkMove, LoopInv, Aside
  <1> USE <1>1
  <1>2. /\ Threads' = Threads /\ GCThreads' = GCThreads /\ Initiator \in Threads /\ Initiator \notin GCThreads
        /\ \A c \in Threads : c = Initiator \/ c \in GCThreads
    BY MovesThreads, Crew DEF Moves
  <1> USE <1>2
  <1>3. Walks(a) /\ pc[a] \in MarkLabels
    BY MarkAndStealWalk
  <1> USE <1>3
  <1>4. /\ "inc" \notin MarkLabels /\ "barrier" \notin MarkLabels /\ "tid" \notin MarkLabels
        /\ QuietPhase \cap MarkLabels = {} /\ "dec" \notin QuietPhase \cup {"barrier"}
        /\ MarkLabels \subseteq LoopLabels /\ "inc" \notin QuietPhase
    BY SMTT(30) DEF MarkLabels, QuietPhase, StackPhase, PagePhase, StackLabels, PageLabels, LoopLabels
  <1> USE <1>4
  <1>5. tid = Null => a = Initiator
    BY DEF Alone
  <1> USE <1>5
  <1>6. pc[Initiator] \in QuietPhase \cup {"barrier"} => FALSE
    <2>1. pc[Initiator] = "barrier" => a = Initiator
      BY DEF Alone
    <2>2. pc[Initiator] \in QuietPhase => a = Initiator
      BY DEF TidOK
    <2> QED
      BY <2>1, <2>2
  <1>7. (tid = Initiator /\ pc[Initiator] # "inc" => Attended)'
    <2> SUFFICES ASSUME tid = Initiator, pc'[Initiator] # "inc" PROVE Attended'
      OBVIOUS
    <2>1. pc[Initiator] # "inc"
      <3>1. a = Initiator => pc[Initiator] \in MarkLabels
        OBVIOUS
      <3>2. a # Initiator => pc'[Initiator] = pc[Initiator]
        BY DEF Moves
      <3> QED
        BY <3>1, <3>2
    <2>2. Attended
      BY <2>1 DEF WorkInv, Attended
    <2> QED
      BY <2>2, MarkAndStealAttended
  <1>8. (pc[Initiator] \in MarkLabels /\ tid = Null => \A g \in GCThreads : ptrs[g] = <<>> /\ chunks[g] = <<>>)'
    <2> SUFFICES ASSUME tid = Null, NEW g \in GCThreads PROVE ptrs'[g] = <<>> /\ chunks'[g] = <<>>
      OBVIOUS
    <2>1. ptrs[g] = <<>> /\ chunks[g] = <<>>
      BY DEF WorkInv
    <2>2. g \in Threads /\ g # a
      BY Crew
    <2> QED
      BY <2>1, <2>2 DEF Walks, Other
  <1>9. (pc[Initiator] \in QuietPhase \cup {"barrier"} => Empty)'
    <2> SUFFICES ASSUME pc'[Initiator] \in QuietPhase \cup {"barrier"} PROVE Empty'
      OBVIOUS
    <2>1. a = Initiator /\ pc'[a] \notin MarkLabels /\ pc'[a] # pc[a] /\ pc'[a] # "dec"
      <3>1. a # Initiator => pc'[Initiator] = pc[Initiator]
        BY DEF Moves
      <3>2. a = Initiator
        BY <1>6, <3>1
      <3>3. pc'[a] \notin MarkLabels /\ pc'[a] # "dec"
        BY <3>2
      <3> QED
        BY <3>2, <3>3
    <2> USE <2>1
    <2>2. pc'[a] = "stack_start" /\ tid = Null
      BY DEF MarkMove
    <2> USE <2>2
    <2>3. StealNothing(a)
      <3>1. pc \in [Threads -> InitiatorLabels \cup HelperLabels]
        BY DEF ThreadsOK
      <3>2. ~(PopPtr(a) \/ PopChunk(a))
        <4>1. PopPtr(a) \/ PopChunk(a) => Goto(a, "pop_chunk") \/ Goto(a, "scan") \/ Goto(a, "steal") \/ Goto(a, "mark_chunk")
          BY DEF PopPtr, PopChunk
        <4> QED
          BY <3>1, <4>1 DEF Goto
      <3>3. ~(Restore(a) \/ StealLook(a) \/ StealLost(a))
        BY DEF Restore, StealLook, StealLost
      <3>4. ~(gc_mark_chunk(a) \/ Look(a) \/ Claim(a) \/ Scanned(a))
        BY ScanWalk
      <3>5. ~(StealRandom(a) \/ StealTry(a))
        <4>1. StealRandom(a) \/ StealTry(a) => \E q : Stolen(a, q)
          BY DEF StealRandom, StealTry
        <4>2. StealRandom(a) \/ StealTry(a) => Goto(a, "scan") \/ Goto(a, "mark_chunk")
          BY <4>1 DEF Stolen
        <4> QED
          BY <3>1, <4>2 DEF Goto
      <3> QED
        BY <3>2, <3>3, <3>4, <3>5 DEF MarkAndSteal
    <2>4. pc[a] = "steal" /\ UNCHANGED <<ptrs, chunks, scan>>
      BY <2>3 DEF StealNothing, Step
    <2> USE <2>4
    <2>5. ptrs[a] = <<>> /\ chunks[a] = <<>>
      BY DEF WalkInv, WalkAt
    <2>6. \A g \in GCThreads : ptrs[g] = <<>> /\ chunks[g] = <<>>
      BY DEF WorkInv
    <2>7. \A g \in GCThreads : pc[g] \notin LoopLabels
      BY DEF Alone
    <2>8. \A c \in Threads : pc[c] \notin {"mark_chunk", "scan", "claim"}
      <3>1. \A c \in GCThreads : pc[c] \notin {"mark_chunk", "scan", "claim"}
        BY <2>7 DEF LoopLabels, MarkLabels
      <3> QED
        BY <3>1
    <2>9. \A c \in Threads : scan[c] = Idle
      BY <2>8, ScansNothing
    <2> QED
      BY <2>5, <2>6, <2>9 DEF Empty
  <1> QED
    BY <1>7, <1>8, <1>9 DEF WorkInv, Attended

\* The initiator goes on, and wakes the others.
LEMMA BroadcastIdles ==
    ASSUME LoopInv, NEW f, NEW l \in InitiatorLabels, Broadcast(f, l), UNCHANGED <<heap, tid>>, GCThreads' = GCThreads,
           f \notin HeapLabels \cup {"mutator", "tid", "clean", "finlist"},
           l \notin HeapLabels \cup {"dec", "mutator", "tid", "clean", "finlist"}
    PROVE  /\ Idles /\ pc[Initiator] = f /\ pc'[Initiator] = l
           /\ \A c \in Threads : c # Initiator => pc'[c] = pc[c] \/ pc[c] = "asleep"
  <1>1. /\ Threads' = Threads /\ pc[Initiator] = f /\ pc'[Initiator] = l
        /\ \A g \in GCThreads : pc'[g] = pc[g] \/ (pc[g] = "asleep" /\ pc'[g] = "check")
    BY BroadcastMoves DEF LoopInv
  <1> USE <1>1
  <1>2. "asleep" \notin HeapLabels /\ "check" \notin HeapLabels \cup {"dec"}
    BY DEF HeapLabels
  <1>3. \A c \in Threads : c = Initiator \/ c \in GCThreads
    BY Crew DEF LoopInv
  <1>4. \A c \in Threads : \/ pc'[c] = pc[c]
                           \/ pc[c] \notin HeapLabels /\ pc'[c] \notin HeapLabels \cup {"dec"}
    BY <1>2, <1>3
  <1>5. /\ pc[Initiator] \notin {"mutator", "tid", "clean", "finlist"}
        /\ pc'[Initiator] \notin {"mutator", "tid", "clean", "finlist"}
    OBVIOUS
  <1> QED
    BY <1>3, <1>4, <1>5 DEF Idles

\* The initiator has waited: no work is left anywhere.
LEMMA NobodyHasWork ==
    ASSUME LoopInv, WalkInv, WorkInv, tid = Initiator, pc[Initiator] # "inc", n_marking = 0
    PROVE  Empty /\ \A a \in Threads : ~InMarkLoop(a)
  <1>1. /\ \A a \in Threads : ~Marking(a)
    BY NobodyInLoop
  <1>2. \A a \in Threads : pc[a] \notin LoopLabels
    BY <1>1, ThreadsDistinct DEF Marking
  <1>3. \A q \in Queues : Queue(q) = <<>>
    <2>1. \A q \in Queues : q[2] \in Threads
      BY DEF Queues
    <2> QED
      BY <1>1, <2>1 DEF WorkInv, Visitor
  <1>4. \A a \in Threads : ptrs[a] = <<>> /\ chunks[a] = <<>>
    <2> TAKE a \in Threads
    <2>1. <<"ptr", a>> \in Queues /\ <<"chunk", a>> \in Queues
      BY SMTT(30) DEF Queues
    <2>2. PICK p \in Queues, c \in Queues : p = <<"ptr", a>> /\ c = <<"chunk", a>>
      BY <2>1
    <2>3. p[1] = "ptr" /\ p[2] = a /\ c[1] # "ptr" /\ c[2] = a
      BY SMTT(30), <2>2
    <2> QED
      BY <1>3, <2>3 DEF Queue
  <1>5. \A a \in Threads : pc[a] \notin {"mark_chunk", "scan", "claim"} /\ ~InMarkLoop(a)
    BY <1>2 DEF LoopLabels, MarkLabels, InMarkLoop
  <1>6. \A a \in Threads : scan[a] = Idle
    BY <1>5, ScansNothing
  <1> QED
    BY <1>4, <1>5, <1>6 DEF Empty

\* Deciding whether to mark leaves the heap alone and loses no visitor.
LEMMA ShouldMarkWork ==
    ASSUME SweepInv, WalkInv, WorkInv, NEW a \in Threads, ShouldMark(a)
    PROVE  Idles /\ WorkInv'
  <1>1. LoopInv /\ Moves(a) /\ ThreadsOK' /\ Initiator \in Threads
    BY ShouldMarkSweep, MovesThreads, Crew DEF SweepInv, LoopInv
  <1> USE <1>1
  <1>2. UNCHANGED <<heap, tid>>
    BY DEF ShouldMark, StopMarking, LoadMarking, CountWork, Decide, marking
  <1> USE <1>2
  <1>3. GCThreads' = GCThreads
    BY DEF Moves
  <1> USE <1>3
  <1>4. {"dec", "observe", "count", "pop_ptr", "barrier", "stacks"} \cap HeapLabels = {}
    BY SMTT(30) DEF HeapLabels
  <1> USE <1>4
  <1>5. {"observe", "count"} \cap (LoopLabels \cup {"wake"}) = {} /\ "barrier" \notin MarkLabels
        /\ {"observe", "count"} \subseteq MarkPhase
    BY SMTT(30) DEF LoopLabels, MarkLabels, MarkPhase
  <1> USE <1>5
  <1>6. CASE StopMarking(a)
    <2>1. pc[a] = "dec" /\ Goto(a, "observe")
      BY <1>6 DEF StopMarking, Step
    <2>2. Idles
      BY <2>1, GotoIdles
    <2> QED
      BY <1>6, <2>2, StopMarkingWork
  <1>7. CASE LoadMarking(a)
    <2>1. pc[a] = "observe"
      BY <1>7 DEF LoadMarking
    <2> USE <2>1
    <2>2. CASE n_marking = 0 /\ a = Initiator
      <3>1. Goto(a, "barrier")
        BY <1>7, <2>2 DEF LoadMarking
      <3>2. Idles /\ pc'[a] = "barrier"
        BY <3>1, GotoIdles
      <3>3. tid = Initiator /\ pc[Initiator] # "inc"
        BY <2>2 DEF LoopInv, TidOK
      <3>4. Empty
        BY <2>2, <3>3, NobodyHasWork
      <3>5. Empty'
        BY <3>2, <3>4 DEF Empty, Idles, heap
      <3> QED
        BY <2>2, <3>2, <3>5, EmptyWork
    <2>3. CASE n_marking = 0 /\ a # Initiator
      <3>1. Goto(a, "stacks")
        BY <1>7, <2>3 DEF LoadMarking
      <3>2. Idles /\ \A c \in Threads : c # a => pc'[c] = pc[c]
        BY <2>3, <3>1, GotoIdles
      <3> QED
        BY <2>3, <3>2, IdleWork
    <2>4. CASE n_marking # 0
      <3>1. Goto(a, "count")
        BY <1>7, <2>4 DEF LoadMarking
      <3>2. Idles /\ pc'[a] = "count" /\ \A c \in Threads : c # a => pc'[c] = pc[c]
        BY <3>1, GotoIdles
      <3> QED
        BY <3>2, IdleWork
    <2> QED
      BY <2>2, <2>3, <2>4
  <1>8. CASE CountWork(a)
    <2>1. pc' = pc /\ Threads' = Threads
      BY <1>8 DEF CountWork, Threads
    <2>2. Idles
      BY <2>1 DEF Idles
    <2> QED
      BY <2>1, <2>2, IdleWork
  <1>9. CASE Decide(a)
    <2>1. pc[a] = "count" /\ \E l \in {"pop_ptr", "observe"} : Goto(a, l)
      BY <1>9 DEF Decide
    <2> USE <2>1
    <2>2. PICK l \in {"pop_ptr", "observe"} : Goto(a, l)
      OBVIOUS
    <2>3. Idles /\ pc'[a] = l /\ \A c \in Threads : c # a => pc'[c] = pc[c]
      BY <2>2, GotoIdles
    <2> QED
      BY <2>3, IdleWork
  <1> QED
    BY <1>6, <1>7, <1>8, <1>9 DEF ShouldMark

\* Waking the others leaves the heap alone and loses no visitor.
LEMMA WakeWork ==
    ASSUME LoopInv, gc_wake_all_for_marking
    PROVE  Idles /\ WorkInv'
  <1>1. /\ Broadcast("wake", "pop_ptr") /\ UNCHANGED <<heap, tid, stack_req>> /\ Initiator \in Threads
    BY Crew DEF gc_wake_all_for_marking, LoopInv, requests, marking
  <1> USE <1>1
  <1>2. /\ GCThreads' = GCThreads /\ "wake" \notin HeapLabels /\ "pop_ptr" \notin HeapLabels
        /\ "pop_ptr" \in InitiatorLabels /\ "wake" \in MarkPhase
    <2>1. "pop_ptr" \in InitiatorLabels
      BY DEF InitiatorLabels, MarkLabels
    <2> QED
      BY <2>1 DEF GCThreads, HeapLabels, MarkPhase
  <1>3. Idles /\ pc'[Initiator] = "pop_ptr" /\ pc[Initiator] = "wake"
    <2>1. /\ "wake" \notin HeapLabels \cup {"mutator", "tid", "clean", "finlist"}
          /\ "pop_ptr" \notin HeapLabels \cup {"dec", "mutator", "tid", "clean", "finlist"}
      BY SMTT(30) DEF HeapLabels
    <2> QED
      BY <1>2, <2>1, BroadcastIdles
  <1> USE <1>3
  <1>4. tid' # Null
    BY <1>2, ThreadsDistinct DEF LoopInv, TidOK
  <1>5. "pop_ptr" \notin QuietPhase \cup {"barrier"} /\ "pop_ptr" \in MarkLabels \ {"steal"}
    BY SMTT(30) DEF MarkLabels, QuietPhase, StackPhase, PagePhase, StackLabels, PageLabels
  <1>6. Attended'
    <2>1. Threads' = Threads /\ Queues' = Queues
      BY DEF Idles, Queues
    <2>2. \A q \in Queues : Visitor(Initiator, q)'
      BY <1>4, <1>5, VisitsAll
    <2> QED
      BY <2>1, <2>2 DEF Attended
  <1> QED
    BY <1>4, <1>5, <1>6 DEF WorkInv, Attended

\* sweep_stack_pool_loop and gc_sweep_pool_parallel.
LEMMA SweepersIdle ==
    ASSUME SweepInv, WorkInv, NEW a \in Threads, SweepStacks(a) \/ SweepPages(a)
    PROVE  Idles /\ WorkInv'
  <1>1. UNCHANGED <<heap, tid>>
    BY DEF SweepStacks, StackIn, StackTake, StackSweep, StackOut, SweepPages, PageIn, PageLoad, PageTake, PageSweep,
         PageOut, marking
  <1>2. Moves(a)
    BY SweepStacksSweep, SweepPagesSweep
  <1>3. /\ pc[a] \in StackLabels \cup PageLabels
        /\ \E l \in StackLabels \cup PageLabels \cup {"stack_wait_idx", "pages", "page_null", "check"} : Goto(a, l)
    <2>1. CASE SweepStacks(a)
      <3>1. CASE StackIn(a) \/ StackTake(a) \/ StackSweep(a)
        BY <3>1, SweepLabels DEF StackIn, StackTake, StackSweep, Step
      <3>2. CASE StackOut(a)
        BY <3>2, SweepLabels DEF StackOut, Step
      <3> QED
        BY <2>1, <3>1, <3>2 DEF SweepStacks
    <2>2. CASE SweepPages(a)
      <3>1. CASE PageIn(a) \/ PageTake(a) \/ PageSweep(a)
        BY <3>1, SweepLabels DEF PageIn, PageTake, PageSweep, Step
      <3>2. CASE PageLoad(a)
        BY <3>2, SweepLabels DEF PageLoad, Step
      <3>3. CASE PageOut(a)
        BY <3>3, SweepLabels DEF PageOut, Step
      <3> QED
        BY <2>2, <3>1, <3>2, <3>3 DEF SweepPages
    <2> QED
      BY <2>1, <2>2
  <1>4. PICK l \in StackLabels \cup PageLabels \cup {"stack_wait_idx", "pages", "page_null", "check"} : Goto(a, l)
    BY <1>3
  <1>5. /\ pc[a] \in SweepPhase /\ l # "observe"
        /\ l \in SweepPhase \cup {"check", "sleep", "asleep", "observe", "stacks", "pages"}
    BY <1>3, <1>4, SweepLabels
  <1> QED
    BY <1>1, <1>2, <1>4, <1>5, SweepIdles DEF SweepInv

\* jl_parallel_gc_threadfun between its phases.
LEMMA HelperIdles ==
    ASSUME SweepInv, WorkInv, NEW g \in GCThreads, Check(g) \/ Sleep(g) \/ Stacks(g) \/ PagesIf(g)
    PROVE  Idles /\ WorkInv'
  <1>1. UNCHANGED <<heap, tid>>
    BY DEF Check, Sleep, Stacks, PagesIf, marking
  <1>2. Moves(g) /\ pc[g] \in {"check", "sleep", "stacks", "pages"}
    BY HelperSweep
  <1>3. \E l \in {"observe", "sleep", "asleep", "stack_in", "pages", "page_in", "check"} : Goto(g, l)
    <2>1. CASE Check(g)
      BY <2>1 DEF Check
    <2>2. CASE Sleep(g)
      BY <2>2 DEF Sleep, Step
    <2>3. CASE Stacks(g)
      BY <2>3 DEF Stacks, Step
    <2>4. CASE PagesIf(g)
      BY <2>4 DEF PagesIf, Step
    <2> QED
      BY <2>1, <2>2, <2>3, <2>4
  <1>4. PICK l \in {"observe", "sleep", "asleep", "stack_in", "pages", "page_in", "check"} : Goto(g, l)
    BY <1>3
  <1>5. l \in SweepPhase \cup {"check", "sleep", "asleep", "observe", "stacks", "pages"}
    BY <1>4, SweepLabels
  <1>6. g \in Threads /\ g # Initiator
    BY Crew DEF SweepInv, LoopInv
  <1> QED
    BY <1>1, <1>2, <1>4, <1>5, <1>6, SweepIdles DEF SweepInv

\* The initiator around the sweeps.
LEMMA SweepingIdles ==
    ASSUME SweepInv, WorkInv, \/ StartStacks \/ StackWaitIdx \/ StackWaitN \/ StartPages \/ PageNull \/ PageWait
    PROVE  Idles /\ WorkInv'
  <1>1. UNCHANGED <<heap, tid>>
    BY DEF StartStacks, StackWaitIdx, StackWaitN, StartPages, PageNull, PageWait, marking
  <1>2. Moves(Initiator)
    BY SweepingSweep
  <1> DEFINE S == {"stack_start", "stack_wake", "stack_wait_idx", "stack_wait_n", "page_start", "page_wake",
                   "page_in", "page_null", "page_wait", "merge"}
  <1>3. pc[Initiator] \in S /\ \E l \in S : Goto(Initiator, l)
    <2>1. CASE StackWaitN
      BY <2>1 DEF StackWaitN, Step
    <2>2. CASE StartPages
      BY <2>2 DEF StartPages
    <2> QED
      BY <2>1, <2>2 DEF StartStacks, StackWaitIdx, PageNull, PageWait, Step
  <1>4. PICK l \in S : Goto(Initiator, l)
    BY <1>3
  <1>5. S \subseteq SweepPhase /\ "observe" \notin S
    BY SweepLabels
  <1>6. Initiator \in Threads
    BY Crew DEF SweepInv, LoopInv
  <1> HIDE DEF S
  <1>7. pc[Initiator] \in SweepPhase /\ l \in SweepPhase /\ l # "observe"
    BY <1>3, <1>4, <1>5
  <1> QED
    BY <1>1, <1>2, <1>4, <1>6, <1>7, SweepIdles DEF SweepInv

\* So does the waking of the sweepers.
LEMMA SweepWakeIdles ==
    ASSUME SweepInv, WorkInv, gc_sweep_wake_all_stacks \/ gc_sweep_wake_all_pages
    PROVE  Idles /\ WorkInv'
  <1>1. UNCHANGED <<heap, tid>>
    BY DEF gc_sweep_wake_all_stacks, gc_sweep_wake_all_pages, marking
  <1>2. GCThreads' = GCThreads
    BY WakeSweep
  <1>3. PICK f \in {"stack_wake", "page_wake"}, l \in {"stack_in", "page_in"} : Broadcast(f, l)
    BY DEF gc_sweep_wake_all_stacks, gc_sweep_wake_all_pages
  <1>4. /\ f \notin HeapLabels \cup {"mutator", "tid", "clean", "finlist"} /\ f \in QuietPhase /\ l \in QuietPhase
        /\ l \notin HeapLabels \cup {"dec", "mutator", "tid", "clean", "finlist"} /\ l \in InitiatorLabels
        /\ f \notin LoopLabels \cup {"wake"} /\ "asleep" \notin LoopLabels \cup {"wake"}
    BY SMTT(30) DEF HeapLabels, InitiatorLabels, QuietPhase, StackPhase, PagePhase, StackLabels, PageLabels, LoopLabels,
         MarkLabels
  <1> USE <1>4
  <1>5. /\ Idles /\ pc[Initiator] = f /\ pc'[Initiator] = l
        /\ \A c \in Threads : c # Initiator => pc'[c] = pc[c] \/ pc[c] = "asleep"
    BY <1>1, <1>2, <1>3, BroadcastIdles DEF SweepInv
  <1>6. \A c \in Threads : pc'[c] = pc[c] \/ pc[c] \notin LoopLabels \cup {"wake"}
    BY <1>5
  <1> QED
    BY <1>5, <1>6, IdleWork DEF SweepInv

\* Every step is one of gc_mark_and_steal, one of a few steps of the initiator alone,
\* or leaves the heap alone.
LEMMA StepKinds ==
    ASSUME Known, [Next]_vars
    PROVE  \/ \E a \in Threads : MarkAndSteal(a)
           \/ Collect \/ SetTid \/ gc_mark_loop_barrier \/ gc_mark_clean_reclaim_sets \/ gc_mark_finlist \/ Merge
           \/ Idles /\ WorkInv'
  <1>1. SweepInv /\ WalkInv /\ WorkInv /\ LoopInv /\ Initiator \in Threads /\ GCThreads \subseteq Threads
    BY Crew DEF Known, SweepInv, LoopInv
  <1> USE <1>1
  <1>2. ASSUME NEW a \in Threads, Both(a) PROVE MarkAndSteal(a) \/ (Idles /\ WorkInv')
    BY <1>2, ShouldMarkWork, SweepersIdle DEF Both
  <1>3. ASSUME NEW g \in GCThreads, Help(g) PROVE MarkAndSteal(g) \/ (Idles /\ WorkInv')
    BY <1>2, <1>3, HelperIdles DEF Help
  <1>4. CASE Initiate
    BY <1>2, <1>4, StartMarkingWork, WakeWork, SweepingIdles, SweepWakeIdles DEF Initiate
  <1>5. CASE UNCHANGED vars
    <2>1. UNCHANGED <<heap, tid, pc, stack_req>>
      BY <1>5 DEF vars, marking, requests
    <2>2. Idles
      BY <2>1 DEF Idles, GCThreads, Threads
    <2> QED
      BY <2>1, <2>2, IdleWork
  <1> QED
    BY <1>3, <1>4, <1>5 DEF Next

\* The invariant without the marking holds at the start.
LEMMA InitKnown ==
    ASSUME Init
    PROVE  Known
  <1>1. SweepInv
    BY InitSweep
  <1> USE <1>1
  <1>2. ThreadsOK /\ pc[Initiator] = "mutator" /\ tid = Null
    <2>1. Initiator \in Threads
      BY Crew DEF SweepInv, LoopInv
    <2> QED
      BY <2>1 DEF SweepInv, LoopInv, Init
  <1>3. \A c \in Threads : pc[c] \in {"mutator", "check"}
    BY DEF Init
  <1>4. /\ marked = {} /\ \A c \in Threads : /\ ptrs[c] = <<>> /\ chunks[c] = <<>> /\ pos[c] = 1
                                             /\ try[c] = Null /\ scan[c] = Idle
    BY DEF Init, Each
  <1> USE <1>4
  <1>5. Empty
    BY DEF Empty
  <1>6. \A l \in {"mutator", "check"} : l \notin MarkLabels \cup {"dec"} /\ l \notin {"mark_chunk", "scan", "claim"}
    BY SMTT(30) DEF MarkLabels
  <1> USE <1>6
  <1>7. HeapTypes
    <2>1. <<>> \in Seq(Objects) /\ <<>> \in Seq(Objects \X Nat)
          /\ Idle \in [o : Objects \cup {Null}, i : Nat, end : Nat, late : BOOLEAN]
      BY SMTT(30) DEF Idle
    <2> QED
      BY <2>1 DEF HeapTypes, Init, Each
  <1>8. Bounds
    <2>1. \A x : ~In(<<>>, x)
      BY SMTT(30) DEF In
    <2>2. \A c \in Threads : pc[c] # "mark_chunk" /\ ~Scanning(c) /\ pc[c] # "claim"
      BY <1>3 DEF Scanning
    <2> QED
      BY <2>1, <2>2 DEF Bounds, ScanOK, QueueOK
  <1>9. WalkInv
    <2>1. ASSUME NEW c \in Threads PROVE WalkAt(c)
      <3>1. Len(Walk(c)) \in Nat
        BY <2>1, WalkFacts DEF SweepInv, LoopInv
      <3>2. 1 \in 1..(Len(Walk(c)) + 1)
        BY SMTT(30), <3>1
      <3>3. pc[c] \notin {"pop_chunk", "steal", "dec"}
        BY <1>3 DEF MarkLabels
      <3> QED
        BY <3>2, <3>3 DEF WalkAt
    <2>2. pos \in [Threads -> Nat] /\ try \in [Threads -> Queues \cup {Null, Lost}]
      <3>1. 1 \in Nat
        BY SMTT(30)
      <3> QED
        BY <3>1 DEF Init, Each
    <2> QED
      BY <2>1, <2>2 DEF WalkInv
  <1>10. WorkInv
    BY <1>2, <1>5, ThreadsDistinct DEF WorkInv
  <1> QED
    BY <1>7, <1>8, <1>9, <1>10 DEF Known

\* Known is inductive.
LEMMA KnownStep ==
    ASSUME Known, [Next]_vars
    PROVE  Known'
  <1> USE DEF Known
  <1>1. SweepInv'
    BY SweepStep
  <1> USE <1>1
  <1>2. SweepInv /\ LoopInv /\ ThreadsOK /\ HeapTypes /\ Bounds /\ WalkInv /\ WorkInv
    BY DEF SweepInv, LoopInv
  <1> USE <1>2
  <1>3. ASSUME NEW a \in Threads, MarkAndSteal(a) PROVE Known'
    <2>1. Moves(a) /\ Effect(a)
      BY <1>3, MarkAndStealSweep, MarkAndStealEffect DEF MarkMove
    <2>2. Threads' = Threads
      BY <2>1, MovesThreads
    <2>3. HeapTypes' /\ Bounds'
      BY <2>1, <2>2, EffectHeap
    <2> QED
      BY <1>3, <2>3, MarkAndStealWalk, MarkAndStealWork
  <1>4. CASE Idles /\ WorkInv'
    BY <1>4, IdleHeap, IdleWalk
  <1>5. CASE SetTid \/ gc_mark_loop_barrier
    BY <1>5, TidSteps
  <1>6. CASE Collect \/ gc_mark_clean_reclaim_sets \/ gc_mark_finlist \/ Merge
    BY <1>6, CollectHeap, CleanHeap, FinlistHeap, MergeHeap
  <1> QED
    BY <1>3, <1>4, <1>5, <1>6, StepKinds

\* The inductive invariant of the mark phase and both sweeps.
THEOREM KnownInvariant == Spec => []Known
  <1>1. Init => Known
    BY SMTT(30), InitKnown
  <1>2. Known /\ [Next]_vars => Known'
    BY SMTT(30), KnownStep
  <1> QED
    BY <1>1, <1>2, PTL DEF Spec

\* Once gc_n_threads_marking is zero in the mark loop, every queue is empty,
\* no object is half scanned, and nobody is in gc_mark_and_steal: what the
\* comment on the barrier (src/gc-stock.c) claims, for any number of threads
\* that join and leave the loop at any time.
THEOREM NothingLeft == Spec => []NoWorkLeft
  <1>1. Known => NoWorkLeft
    BY NobodyHasWork DEF Known, SweepInv, NoWorkLeft
  <1> QED
    BY <1>1, KnownInvariant, PTL

\* A step of gc_mark_and_steal.
LEMMA MarkAndStealMark ==
    ASSUME Known, MarkInv, NEW a \in Threads, MarkAndSteal(a)
    PROVE  MarkInv'
  <1>1. LoopInv /\ ThreadsOK /\ HeapTypes /\ Bounds /\ WalkInv /\ SweepInv
    BY DEF Known, SweepInv, LoopInv
  <1> USE <1>1
  <1>2. MarkMove(a) /\ Effect(a) /\ Moves(a)
    BY MarkAndStealSweep, MarkAndStealEffect DEF MarkMove
  <1> USE <1>2
  <1>3. Threads' = Threads
    BY MovesThreads
  <1> USE <1>3
  <1>4. /\ tid' = tid
        /\ \A l \in {"mutator", "tid", "clean", "finlist"} : (pc'[Initiator] = l <=> pc[Initiator] = l)
    <2>1. Initiator \in Threads
      BY Crew
    <2>2. \A l \in {"mutator", "tid", "clean", "finlist"} : l \notin MarkLabels \cup {"dec", "stack_start"}
      BY SMTT(30) DEF MarkLabels
    <2>3. CASE a = Initiator
      BY <2>2, <2>3 DEF MarkMove
    <2>4. CASE a # Initiator
      BY <2>1, <2>4 DEF MarkMove, Moves
    <2> QED
      BY <2>3, <2>4 DEF MarkMove
  <1>5. Sources' = Sources
    BY <1>4 DEF Sources, RootSet
  <1> SUFFICES ASSUME pc[Initiator] # "mutator"
               PROVE  Sources' \subseteq marked' /\ marked' \subseteq Reach(Sources)' /\ Covered' /\ Targets'
    BY <1>4 DEF MarkInv
  <1>6. Sources \subseteq marked /\ marked \subseteq Reach(Sources) /\ Covered /\ Targets
    BY DEF MarkInv
  <1> USE <1>6
  <1>7. Covered' /\ Targets'
    BY EffectCovered, EffectTargets
  <1>8. Reach(Sources)' = Reach(Sources)
    BY <1>5 DEF Reach, Closed
  <1>9. marked \subseteq marked' /\ marked' \subseteq Reach(Sources)
    <2>1. CASE Claim(a)
      <3>1. /\ marked' = marked \cup {ToClaim(a)} /\ Scanning(a) /\ scan[a].i <= scan[a].end
        BY <2>1, ClaimFacts
      <3>2. scan[a].o \in marked /\ scan[a].i \in DOMAIN Refs[scan[a].o]
        BY <3>1, AtHand
      <3>3. Closed(Reach(Sources))
        BY SourcesKnown, ReachFacts
      <3>4. ToClaim(a) \in Reach(Sources)
        BY <3>2, <3>3 DEF Closed, ToClaim
      <3> QED
        BY <3>1, <3>4
    <2>2. CASE Look(a)
      BY <2>2, LookFacts
    <2> QED
      BY <2>1, <2>2, EffectOthers
  <1> QED
    BY <1>5, <1>7, <1>8, <1>9

\* Together.
LEMMA MarkStep ==
    ASSUME Known, MarkInv, [Next]_vars
    PROVE  MarkInv'
  <1>1. CASE Merge
    <2>1. LoopInv /\ HeapTypes /\ WalkInv /\ WorkInv
      BY DEF Known, SweepInv
    <2> QED
      BY <1>1, <2>1, MergeHeap DEF MarkInv
  <1> QED
    BY <1>1, StepKinds, MarkAndStealMark, CollectMark, TidMark, FinlistMark, IdleMark

\* With nothing queued and nobody in the mark loop, marking is complete.
LEMMA MarkingDone ==
    ASSUME Known, MarkInv, pc[Initiator] \in (QuietPhase \ {"mutator"}) \cup {"barrier"}
    PROVE  AllFollowed(Reach(Sources))
  <1>1. LoopInv /\ ThreadsOK /\ TidOK /\ HeapTypes /\ WorkInv /\ "mutator" # "barrier"
    BY DEF Known, SweepInv, LoopInv
  <1> USE <1>1
  <1>2. Sources \subseteq marked /\ marked \subseteq Reach(Sources) /\ Covered /\ Targets
    BY DEF MarkInv
  <1> USE <1>2
  <1>3. Empty
    BY DEF WorkInv
  <1>4. \A c \in Threads : pc[c] \notin LoopLabels
    <2>1. tid = Null \/ pc[Initiator] = "barrier"
      BY DEF TidOK
    <2>2. \A g \in GCThreads : pc[g] \notin LoopLabels
      BY <2>1 DEF LoopInv, Alone
    <2>3. "barrier" \notin LoopLabels
      BY DEF LoopLabels, MarkLabels
    <2>4. pc[Initiator] \notin LoopLabels
      BY <2>3, Phases
    <2> QED
      BY <2>2, <2>4, Crew
  <1>5. \A c \in Threads : pc[c] \notin {"mark_chunk", "scan", "claim"}
    BY <1>4 DEF LoopLabels, MarkLabels
  <1>6. \A x : ~In(<<>>, x)
    BY SMTT(30) DEF In
  <1>7. ASSUME NEW o \in marked, NEW k \in DOMAIN Refs[o] PROVE <<o, k>> \in done
    <2>1. o \in Objects /\ k \in Nat
      BY <1>7, RefsKnown DEF HeapTypes
    <2>2. ~Pending(o, k)
      BY <1>3, <1>5, <1>6, <2>1, ScansNone DEF Pending, Empty, Chunked
    <2> QED
      BY <1>7, <2>2 DEF Covered
  <1>8. ASSUME NEW o \in marked, NEW k \in DOMAIN Refs[o] PROVE Refs[o][k] \in marked
    <2>1. PICK d \in done : d = <<o, k>>
      BY <1>7, <1>8
    <2>2. d[1] = o /\ d[2] = k
      BY SMTT(30), <2>1
    <2>3. Refs[d[1]][d[2]] \in marked
      BY <1>5 DEF Targets
    <2> QED
      BY <2>2, <2>3
  <1>9. marked = Reach(Sources)
    <2>1. Closed(marked) /\ marked \in SUBSET Objects /\ Sources \in SUBSET Objects
      BY <1>8, SourcesKnown DEF Closed, HeapTypes
    <2> QED
      BY <2>1, ReachLeast
  <1>10. ASSUME NEW d \in done PROVE \E o \in marked : \E k \in DOMAIN Refs[o] : d = <<o, k>>
    BY <1>10 DEF Targets
  <1>11. done = UNION {{<<o, k>> : k \in DOMAIN Refs[o]} : o \in marked}
    <2> DEFINE S == {{<<o, k>> : k \in DOMAIN Refs[o]} : o \in marked}
    <2>1. ASSUME NEW d \in done PROVE d \in UNION S
      <3>1. PICK o \in marked : \E k \in DOMAIN Refs[o] : d = <<o, k>>
        BY <1>10, <2>1
      <3>2. d \in {<<o, k>> : k \in DOMAIN Refs[o]} /\ {<<o, k>> : k \in DOMAIN Refs[o]} \in S
        BY <3>1
      <3> QED
        BY <3>2
    <2>2. ASSUME NEW d \in UNION S PROVE d \in done
      <3>1. PICK s \in S : d \in s
        BY <2>2
      <3>2. PICK o \in marked : s = {<<o, k>> : k \in DOMAIN Refs[o]}
        BY <3>1
      <3>3. PICK k \in DOMAIN Refs[o] : d = <<o, k>>
        BY <3>1, <3>2
      <3> QED
        BY <1>7, <3>3
    <2> QED
      BY <2>1, <2>2
  <1> QED
    BY <1>9, <1>11 DEF AllFollowed

\* Marking is complete, for every heap and number of threads: after the mark
\* loop exactly what the roots reach is marked, and every reference of it was
\* followed; after the finalizer flush, what they and the finalizers reach.
THEOREM MarkingComplete == Spec => []AllMarked
  <1> DEFINE Inv == Known /\ MarkInv
  <1>1. Init => Inv
    <2> SUFFICES ASSUME Init PROVE Inv
      OBVIOUS
    <2>1. Known
      BY InitKnown
    <2>2. pc[Initiator] = "mutator"
      BY <2>1, InitMutator
    <2> QED
      BY <2>1, <2>2 DEF MarkInv
  <1>2. Inv /\ [Next]_vars => Inv'
    BY KnownStep, MarkStep
  <1>3. Inv => AllMarked
    <2> SUFFICES ASSUME Known, MarkInv PROVE AllMarked
      OBVIOUS
    <2>1. TidOK
      BY DEF Known, SweepInv, LoopInv
    <2>2. /\ \A l \in {"clean", "finlist", "stack_start", "stack_wait_n", "page_start", "merge"} : l \in QuietPhase \ {"mutator"}
          /\ "barrier" \in MarkPhase
      BY SMTT(30) DEF QuietPhase, StackPhase, PagePhase, StackLabels, PageLabels, MarkPhase
    <2> USE <2>2
    <2>3. ASSUME pc[Initiator] \in {"barrier", "clean", "finlist"} PROVE AllFollowed(Reach(RootSet))
      <3>1. Sources = RootSet
        BY <2>1, <2>3, ThreadsDistinct DEF TidOK, Sources
      <3>2. AllFollowed(Reach(Sources))
        BY <2>3, MarkingDone
      <3> QED
        BY <3>1, <3>2
    <2>4. ASSUME pc[Initiator] \in {"stack_start", "stack_wait_n", "page_start", "merge"}
          PROVE  AllFollowed(Reach(RootSet \cup {Finalized}))
      <3>1. pc[Initiator] \in QuietPhase \ {"mutator"} /\ pc[Initiator] \notin {"tid", "clean", "finlist"}
        BY <2>4
      <3>2. Sources = RootSet \cup {Finalized}
        BY <2>1, <3>1 DEF TidOK, Sources
      <3>3. AllFollowed(Reach(Sources))
        BY <3>1, MarkingDone
      <3> QED
        BY <3>2, <3>3
    <2> QED
      BY <2>3, <2>4 DEF AllMarked
  <1> QED
    BY <1>1, <1>2, <1>3, PTL DEF Spec

\* Between the phases nobody is in the mark loop.
LEMMA NobodyScans ==
    ASSUME Known, pc[Initiator] \in QuietPhase \cup {"tid", "barrier"}
    PROVE  \A c \in Threads : pc[c] \notin {"mark_chunk", "scan", "claim"}
  <1>1. LoopInv /\ ThreadsOK /\ TidOK
    BY DEF Known, SweepInv, LoopInv
  <1> USE <1>1
  <1>2. tid = Null \/ pc[Initiator] = "barrier"
    BY DEF TidOK
  <1>3. \A g \in GCThreads : pc[g] \notin LoopLabels
    BY <1>2 DEF LoopInv, Alone
  <1>4. "barrier" \notin LoopLabels
    BY DEF LoopLabels, MarkLabels
  <1>5. pc[Initiator] \notin LoopLabels
    BY <1>4, Phases
  <1>6. \A c \in Threads : pc[c] \notin LoopLabels
    BY <1>3, <1>5, Crew
  <1> QED
    BY <1>6 DEF LoopLabels, MarkLabels

\* The roots are queued once each.
LEMMA CollectOnce ==
    ASSUME Known, Collect
    PROVE  OnceInv'
  <1>1. LoopInv /\ ThreadsOK /\ WorkInv /\ Initiator \in Threads
    BY Crew DEF Known, SweepInv, LoopInv
  <1>2. /\ pc[Initiator] = "mutator" /\ Goto(Initiator, "tid") /\ UNCHANGED <<stack_req, chunks>>
        /\ ptrs' = [t \in Threads |-> Roots[t]] /\ done' = {}
    BY DEF Collect, Step, requests
  <1>3. /\ Threads' = Threads /\ pc'[Initiator] = "tid" /\ "mutator" \in QuietPhase
        /\ \A c \in Threads : c # Initiator => pc'[c] = pc[c]
    BY <1>1, <1>2 DEF Goto, Threads, GCThreads, ThreadsOK, QuietPhase
  <1>4. \A c \in Threads : chunks'[c] = <<>> /\ pc'[c] \notin {"mark_chunk", "scan", "claim"}
    BY <1>1, <1>2, <1>3, NobodyScans DEF WorkInv, Empty
  <1>5. PtrsOnce'
    <2>1. \A c \in Threads : c \in {Initiator} \cup {Helpers[j] : j \in DOMAIN Helpers}
      BY <1>1, Crew
    <2>2. ASSUME NEW c \in Threads PROVE DOMAIN Roots[c] = 1..Len(Roots[c])
      <3>1. Roots[c] \in Seq(Objects)
        BY <2>1, <2>2, HeapKnown
      <3> QED
        BY SMTT(30), <3>1
    <2>3. \A c, d \in Threads : \A j \in 1..Len(Roots[c]), k \in 1..Len(Roots[d]) :
            Roots[c][j] = Roots[d][k] => c = d /\ j = k
      <3> SUFFICES ASSUME NEW c \in Threads, NEW d \in Threads, NEW j \in 1..Len(Roots[c]), NEW k \in 1..Len(Roots[d])
                   PROVE  Roots[c][j] = Roots[d][k] => c = d /\ j = k
        OBVIOUS
      <3>1. j \in DOMAIN Roots[c] /\ k \in DOMAIN Roots[d]
        BY <2>2
      <3> QED
        BY <2>1, <3>1, HeapKnown
    <2>4. \A c \in Threads : Distinct(Roots[c])
      BY <2>3 DEF Distinct
    <2>5. \A c, d \in Threads, o \in Objects : In(Roots[c], o) /\ In(Roots[d], o) => c = d
      BY <2>3 DEF In
    <2>6. \A c \in Threads : ptrs'[c] = Roots[c]
      BY <1>2
    <2> QED
      BY <1>3, <2>4, <2>5, <2>6 DEF PtrsOnce
  <1> QED
    BY <1>2, <1>3, <1>4, <1>5, PtrsOnly DEF OnceInv

\* The finalizer lists are queued if they are not marked yet.
LEMMA FinlistOnce ==
    ASSUME Known, MarkInv, gc_mark_finlist
    PROVE  OnceInv'
  <1>1. LoopInv /\ ThreadsOK /\ HeapTypes /\ WalkInv /\ WorkInv /\ Initiator \in Threads
    BY Crew DEF Known, SweepInv, LoopInv
  <1> USE <1>1
  <1>2. /\ pc[Initiator] = "finlist" /\ Goto(Initiator, "pop_ptr") /\ UNCHANGED <<stack_req, done>>
        /\ ptrs' = [ptrs EXCEPT ![Initiator] = IF Finalized \in marked THEN <<>> ELSE <<Finalized>>]
    BY DEF gc_mark_finlist, Step, requests
  <1> USE <1>2
  <1>3. /\ Threads' = Threads /\ pc'[Initiator] = "pop_ptr" /\ "finlist" \in QuietPhase
        /\ \A c \in Threads : c # Initiator => pc'[c] = pc[c]
    BY DEF Goto, Threads, GCThreads, ThreadsOK, QuietPhase
  <1> USE <1>3
  <1>4. /\ \A c \in Threads : chunks'[c] = <<>>
        /\ \A c \in Threads : c # Initiator => ptrs'[c] = <<>>
        /\ \A x : In(ptrs'[Initiator], x) <=> Finalized \notin marked /\ x = Finalized
    BY FinlistHeap
  <1> USE <1>4
  <1>5. \A c \in Threads : pc'[c] \notin {"mark_chunk", "scan", "claim"}
    BY NobodyScans
  <1>6. (\A x : ~In(<<>>, x)) /\ Distinct(<<>>) /\ Distinct(<<Finalized>>)
    BY SMTT(30) DEF In, Distinct
  <1>7. \A c \in Threads, o \in Objects : In(ptrs'[c], o) => c = Initiator /\ o = Finalized /\ o \notin marked
    BY <1>6
  <1>8. PtrsOnce'
    <2>1. ptrs'[Initiator] = <<>> \/ ptrs'[Initiator] = <<Finalized>>
      BY DEF HeapTypes
    <2>2. \A c \in Threads : Distinct(ptrs'[c])
      BY <1>6, <2>1
    <2> QED
      BY <1>7, <2>2 DEF PtrsOnce
  <1>9. \A c \in Threads, o \in Objects, k \in Nat : In(ptrs'[c], o) => <<o, k>> \notin done'
    <2>1. \A d \in done : d[1] \in marked
      BY DEF MarkInv, Targets
    <2>2. \A o \in Objects, k \in Nat : <<o, k>>[1] = o
      BY SMTT(30)
    <2>3. \A o \in Objects, k \in Nat : o \notin marked => <<o, k>> \notin done
      BY <2>1, <2>2
    <2> QED
      BY <1>7, <2>3
  <1> QED
    BY <1>5, <1>8, <1>9, PtrsOnly DEF OnceInv

\* Every step of gc_mark_and_steal keeps each reference in one place,
LEMMA MarkAndStealOnce ==
    ASSUME Known, MarkInv, OnceInv, NEW a \in Threads, MarkAndSteal(a)
    PROVE  OnceInv'
  <1>1. LoopInv /\ ThreadsOK /\ HeapTypes /\ Bounds /\ WalkInv /\ SweepInv
    BY DEF Known, SweepInv, LoopInv
  <1> USE <1>1
  <1>2. MarkMove(a) /\ Effect(a) /\ Moves(a)
    BY MarkAndStealSweep, MarkAndStealEffect DEF MarkMove
  <1> USE <1>2
  <1>3. Threads' = Threads
    BY MovesThreads
  <1>4. pc'[Initiator] = "mutator" <=> pc[Initiator] = "mutator"
    <2>1. Initiator \in Threads
      BY Crew
    <2>2. "mutator" \notin MarkLabels \cup {"dec", "stack_start"}
      BY SMTT(30) DEF MarkLabels
    <2>3. CASE a = Initiator
      BY <2>2, <2>3 DEF MarkMove
    <2>4. CASE a # Initiator
      BY <2>1, <2>4 DEF MarkMove, Moves
    <2> QED
      BY <2>3, <2>4
  <1>5. CASE pc[Initiator] # "mutator"
    <2>1. Targets /\ Once
      BY <1>5 DEF MarkInv, OnceInv
    <2> QED
      BY <1>3, <2>1, EffectOnce DEF OnceInv
  <1> QED
    BY <1>4, <1>5 DEF OnceInv

\* and so does every step.
LEMMA OnceStep ==
    ASSUME Known, MarkInv, OnceInv, [Next]_vars
    PROVE  OnceInv'
  <1>1. CASE Merge
    <2>1. LoopInv /\ HeapTypes /\ WalkInv /\ WorkInv
      BY DEF Known, SweepInv
    <2> QED
      BY <1>1, <2>1, MergeHeap DEF OnceInv
  <1> QED
    BY <1>1, StepKinds, MarkAndStealOnce, CollectOnce, TidOnce, FinlistOnce, IdleOnce

\* The step that follows a reference is Look.
LEMMA FollowsLooks ==
    ASSUME Known, [Next]_vars, NEW a \in Threads, Follows(a)
    PROVE  Look(a)
  <1>1. LoopInv /\ ThreadsOK /\ HeapTypes /\ Bounds /\ WalkInv /\ WorkInv /\ SweepInv
    BY DEF Known, SweepInv, LoopInv
  <1> USE <1>1
  <1>2. ASSUME NEW b \in Threads, MarkAndSteal(b) PROVE Look(a)
    <2>1. Effect(b) /\ Moves(b)
      BY <1>2, MarkAndStealSweep, MarkAndStealEffect DEF MarkMove
    <2>2. Threads' = Threads
      BY <2>1, MovesThreads
    <2>3. CASE a # b
      BY <2>1, <2>2, <2>3, EffectOthers, NotFollows
    <2>4. CASE a = b
      <3>1. CASE PopPtr(a) \/ PopChunk(a) \/ gc_mark_chunk(a) \/ StealRandom(a) \/ StealLook(a) \/ StealTry(a)
                   \/ StealLost(a) \/ StealNothing(a) \/ Claim(a)
        <4>1. pc[a] # "scan"
          <5>1. CASE PopPtr(a) \/ PopChunk(a) \/ gc_mark_chunk(a) \/ Claim(a)
            BY <5>1 DEF PopPtr, PopChunk, gc_mark_chunk, Claim, Step
          <5>2. CASE StealRandom(a)
            BY <5>2 DEF StealRandom, Step
          <5>3. CASE StealLook(a)
            BY <5>3 DEF StealLook, Step
          <5>4. CASE StealTry(a)
            BY <5>4 DEF StealTry, Step
          <5>5. CASE StealLost(a)
            <6>1. pc[a] # "steal" => try[a] = Null
              BY DEF WalkInv, WalkAt
            <6> QED
              BY <5>5, <6>1, QueuesFresh DEF StealLost
          <5>6. CASE StealNothing(a)
            BY <5>6 DEF StealNothing, Step
          <5> QED
            BY <3>1, <5>1, <5>2, <5>3, <5>4, <5>5, <5>6
        <4> QED
          BY <4>1 DEF Follows
      <3>2. CASE Restore(a)
        <4>1. scan'[a] = scan[a] /\ pc'[a] = pc[a]
          BY <3>2 DEF Restore, heap
        <4> QED
          BY <4>1, NotFollows
      <3>3. CASE Scanned(a)
        <4>1. pc[a] = "scan" /\ scan'[a] = Idle /\ pc'[a] = "pop_ptr"
          BY <3>3 DEF Scanned, Step, Goto, HeapTypes, ThreadsOK
        <4>2. scan[a].i # 0 /\ scan[a].i \in Nat
          BY SMTT(30), <4>1 DEF HeapTypes, Bounds, ScanOK, Scanning
        <4>3. Idle.i # scan[a].i + 1
          BY SMTT(30), <4>2 DEF Idle
        <4> QED
          BY <4>1, <4>3 DEF Follows
      <3> QED
        BY <1>2, <2>4, <3>1, <3>2, <3>3 DEF MarkAndSteal
    <2> QED
      BY <2>3, <2>4
  <1>3. CASE Collect \/ SetTid \/ gc_mark_loop_barrier \/ gc_mark_clean_reclaim_sets \/ gc_mark_finlist \/ Merge
    <2>1. /\ UNCHANGED scan /\ pc[Initiator] # "scan"
          /\ \E l \in {"tid", "inc", "clean", "finlist", "pop_ptr", "mutator"} : Goto(Initiator, l)
      BY <1>3 DEF Collect, SetTid, gc_mark_loop_barrier, gc_mark_clean_reclaim_sets, gc_mark_finlist, Merge, Step,
           heap
    <2>2. a # Initiator
      BY <2>1 DEF Follows
    <2>3. pc'[a] = pc[a] /\ scan'[a] = scan[a]
      BY <2>1, <2>2 DEF Goto, ThreadsOK
    <2> QED
      BY <2>3, NotFollows
  <1>4. CASE Idles
    <2>1. pc[a] \in HeapLabels
      BY DEF Follows, HeapLabels
    <2>2. pc'[a] = pc[a] /\ scan'[a] = scan[a]
      BY <1>4, <2>1 DEF Idles, heap
    <2> QED
      BY <2>2, NotFollows
  <1> QED
    BY <1>2, <1>3, <1>4, StepKinds

\* FollowedOnce: in a collection no reference is followed twice, whichever
\* thread has it queued or stole it: gc_try_setmark_tag lets one thread queue an
\* object, and the chunks of an array do not overlap.
THEOREM FollowedOnceHolds == Spec => FollowedOnce
  <1>1. Init => Known /\ MarkInv /\ OnceInv
    <2> SUFFICES ASSUME Init PROVE Known /\ MarkInv /\ OnceInv
      OBVIOUS
    <2>1. Known
      BY InitKnown
    <2>2. pc[Initiator] = "mutator"
      BY <2>1, InitMutator
    <2> QED
      BY <2>1, <2>2 DEF MarkInv, OnceInv
  <1>2. Known /\ MarkInv /\ OnceInv /\ [Next]_vars => (Known /\ MarkInv /\ OnceInv)'
    BY KnownStep, MarkStep, OnceStep
  <1>3. ASSUME Known, OnceInv, [Next]_vars
        PROVE  \A a \in Threads :
                 pc[a] = "scan" /\ scan[a] # Idle /\ (scan'[a].i = scan[a].i + 1 \/ pc'[a] = "claim")
                    => <<scan[a].o, scan[a].i>> \notin done
    BY <1>3, FollowsLooks, LooksOnce DEF Follows
  <1> QED
    BY <1>1, <1>2, <1>3, PTL DEF Spec, FollowedOnce
=============================================================================
