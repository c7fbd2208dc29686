--------------------------- MODULE ParallelGCHeap ---------------------------
(* What one step of a thread does to the heap, to the mark queues, to the   *)
(* walk over them and to the references that are still to be followed.      *)
EXTENDS ParallelGCInvariant, TLAPS

(* The provers get more time than by default: there are many facts in scope. *)
USE ZenonT(30)

\* Who the threads are.
LEMMA Members ==
    ASSUME ThreadsOK
    PROVE  /\ Initiator \notin GCThreads
           /\ Initiator \in Threads /\ Null \notin Threads /\ GCThreads \subseteq Threads
           /\ \A a \in Threads : a = Initiator \/ a \in GCThreads
           /\ \A a \in Threads : a \in {Initiator} \cup {Helpers[j] : j \in DOMAIN Helpers}
  <1>1. PICK k \in 1..Len(Helpers) : GCThreads = {Helpers[j] : j \in 1..k}
    BY DEF ThreadsOK
  <1>2. k \in Nat /\ 1..k \subseteq DOMAIN Helpers
    BY SMT, ThreadsDistinct
  <1>3. GCThreads \subseteq {Helpers[j] : j \in DOMAIN Helpers} /\ Initiator \notin GCThreads /\ Null \notin GCThreads
    BY <1>1, <1>2, ThreadsDistinct
  <1> QED
    BY <1>3, ThreadsDistinct DEF Threads

\* A pop takes the last item of a queue and keeps the others,
LEMMA FrontTook ==
    ASSUME NEW S, NEW q \in Seq(S), q # <<>>
    PROVE  /\ Front(q) \in Seq(S) /\ Last(q) \in S /\ Took(q, Front(q), Last(q))
           /\ Len(q) # 1 => Front(q) # <<>>
  <1>1. Len(q) \in Nat /\ Len(q) >= 1 /\ \A j \in 1..Len(q) : q[j] \in S
    BY SMT
  <1> USE <1>1
  <1>2. /\ Front(q) \in Seq(S) /\ Len(Front(q)) = Len(q) - 1
        /\ \A j \in 1..(Len(q) - 1) : Front(q)[j] = q[j]
    <2> DEFINE n == Len(q) - 1
    <2>1. n \in Nat
      BY SMT
    <2>2. SubSeq(q, 1, n) = [k \in 1..n |-> q[k]]
      BY SMT, <2>1
    <2>3. \A k \in 1..n : q[k] \in S
      BY SMT
    <2> HIDE DEF n
    <2>4. [k \in 1..n |-> q[k]] \in Seq(S) /\ Len([k \in 1..n |-> q[k]]) = n
      BY SMT, <2>1, <2>3
    <2> QED
      BY <2>2, <2>4 DEF Front, n
  <1> USE <1>2
  <1>3. Last(q) \in S
    BY SMT DEF Last
  <1>4. Len(q) # 1 => Front(q) # <<>>
    BY SMT
  <1>5. In(q, Last(q))
    BY SMT DEF In, Last
  <1>6. \A y : In(Front(q), y) => In(q, y)
    BY SMT DEF In
  <1>7. \A y : In(q, y) => In(Front(q), y) \/ y = Last(q)
    BY SMT DEF In, Last
  <1>8. Distinct(q) => Distinct(Front(q)) /\ ~In(Front(q), Last(q))
    BY SMT DEF In, Last, Distinct
  <1> QED
    BY <1>3, <1>4, <1>5, <1>6, <1>7, <1>8 DEF Took

\* a steal takes the first.
LEMMA TailTook ==
    ASSUME NEW S, NEW q \in Seq(S), q # <<>>
    PROVE  Tail(q) \in Seq(S) /\ Head(q) \in S /\ Took(q, Tail(q), Head(q))
  <1>1. Len(q) \in Nat /\ Len(q) >= 1 /\ \A j \in 1..Len(q) : q[j] \in S
    BY SMT
  <1> USE <1>1
  <1>2. /\ Tail(q) \in Seq(S) /\ Len(Tail(q)) = Len(q) - 1
        /\ \A j \in 1..(Len(q) - 1) : Tail(q)[j] = q[j + 1]
        /\ Head(q) = q[1]
    BY SMT
  <1> USE <1>2
  <1>3. Head(q) \in S
    BY SMT
  <1>4. In(q, Head(q))
    BY SMT DEF In
  <1>5. \A y : In(Tail(q), y) => In(q, y)
    <2> SUFFICES ASSUME NEW y, NEW j \in 1..Len(Tail(q)), Tail(q)[j] = y PROVE In(q, y)
      BY DEF In
    <2>1. j + 1 \in 1..Len(q) /\ q[j + 1] = y
      BY SMT
    <2> QED
      BY <2>1 DEF In
  <1>6. \A y : In(q, y) => In(Tail(q), y) \/ y = Head(q)
    <2> SUFFICES ASSUME NEW y, NEW j \in 1..Len(q), q[j] = y, y # Head(q) PROVE In(Tail(q), y)
      BY DEF In
    <2>1. j - 1 \in 1..Len(Tail(q)) /\ Tail(q)[j - 1] = y
      BY SMT
    <2> QED
      BY <2>1 DEF In
  <1>7. Distinct(q) => Distinct(Tail(q)) /\ ~In(Tail(q), Head(q))
    <2> SUFFICES ASSUME Distinct(q) PROVE Distinct(Tail(q)) /\ ~In(Tail(q), Head(q))
      BY SMT
    <2>1. \A j, k \in 1..(Len(q) - 1) : q[j + 1] = q[k + 1] => j = k
      BY SMT DEF Distinct
    <2>2. \A j \in 1..(Len(q) - 1) : q[j + 1] # q[1]
      BY SMT DEF Distinct
    <2> QED
      BY SMT, <2>1, <2>2 DEF Distinct, In
  <1> QED
    BY <1>3, <1>4, <1>5, <1>6, <1>7 DEF Took

\* And a push at its end.
LEMMA AppendPut ==
    ASSUME NEW S, NEW q \in Seq(S), NEW x \in S
    PROVE  /\ Append(q, x) \in Seq(S) /\ \A y : In(Append(q, x), y) <=> In(q, y) \/ y = x
           /\ Distinct(q) /\ ~In(q, x) => Distinct(Append(q, x))
  <1>1. /\ Append(q, x) \in Seq(S) /\ Len(Append(q, x)) = Len(q) + 1 /\ Len(q) \in Nat
        /\ Append(q, x)[Len(q) + 1] = x /\ \A j \in 1..Len(q) : Append(q, x)[j] = q[j]
    BY SMT
  <1> USE <1>1
  <1>2. \A y : In(Append(q, x), y) <=> In(q, y) \/ y = x
    BY SMT DEF In
  <1>3. Distinct(q) /\ ~In(q, x) => Distinct(Append(q, x))
    BY SMT DEF In, Distinct
  <1> QED
    BY <1>2, <1>3

\* An object put on a pointer queue.
LEMMA PtrAppend ==
    ASSUME NEW q \in Seq(Objects), NEW x \in Objects
    PROVE  /\ Append(q, x) \in Seq(Objects) /\ \A y : In(Append(q, x), y) <=> In(q, y) \/ y = x
           /\ Distinct(q) /\ ~In(q, x) => Distinct(Append(q, x))
  BY AppendPut

\* An empty queue has no item, and another has one.
LEMMA EmptyQueue ==
    ASSUME NEW S, NEW q \in Seq(S)
    PROVE  /\ q = <<>> <=> ~\E y : In(q, y)
           /\ q = <<>> <=> Len(q) = 0
           /\ \A y : In(q, y) => y \in S
  <1>1. Len(q) \in Nat /\ (q = <<>> <=> Len(q) = 0) /\ \A j \in 1..Len(q) : q[j] \in S
    BY SMT
  <1> USE <1>1
  <1>2. Len(q) # 0 => In(q, q[1])
    BY SMT DEF In
  <1>3. Len(q) = 0 => \A y : ~In(q, y)
    BY SMT DEF In
  <1> QED
    BY <1>2, <1>3 DEF In

\* An array is split only when a chunk is left on either side of the split.
LEMMA Division ==
    ASSUME NEW n \in Nat, n \div GC_CHUNK_BATCH_SIZE > 1
    PROVE  n >= 2 * GC_CHUNK_BATCH_SIZE
  BY SMT, SizesPositive

\* The scan that gc_mark_objarray starts is of the rest of the object or of one chunk of it.
LEMMA ScanScansFrom ==
    ASSUME HeapTypes, NEW a \in Threads, NEW o \in Objects, NEW i \in 1..(Len(Refs[o]) + 1), Scan(a, o, i)
    PROVE  ScansFrom(a, o, i)
  <1> DEFINE count == Len(Refs[o]) - i + 1
             too_big == count \div GC_CHUNK_BATCH_SIZE > 1
             end == IF too_big THEN i + GC_CHUNK_BATCH_SIZE - 1 ELSE Len(Refs[o])
  <1>1. PICK late \in IF too_big THEN BOOLEAN ELSE {FALSE} :
          /\ scan' = [scan EXCEPT ![a] = [o |-> o, i |-> i, end |-> end, late |-> late]]
          /\ chunks' = IF too_big /\ ~late
                       THEN [chunks EXCEPT ![a] = Append(@, <<o, end + 1>>)] ELSE chunks
    BY DEF Scan
  <1> USE <1>1
  <1>2. Len(Refs[o]) \in Nat /\ count \in Nat /\ i \in Nat
    BY SMT, HeapKnown
  <1> USE <1>2
  <1>3. too_big => i + GC_CHUNK_BATCH_SIZE - 1 < Len(Refs[o]) /\ i + GC_CHUNK_BATCH_SIZE - 1 \in Nat
                   /\ i <= i + GC_CHUNK_BATCH_SIZE
    <2> SUFFICES ASSUME too_big PROVE i + GC_CHUNK_BATCH_SIZE - 1 < Len(Refs[o]) /\ i + GC_CHUNK_BATCH_SIZE - 1 \in Nat
                   /\ i <= i + GC_CHUNK_BATCH_SIZE
      BY SMT
    <2>1. count >= 2 * GC_CHUNK_BATCH_SIZE
      BY SMT, Division
    <2> QED
      BY SMT, <2>1, SizesPositive
  <1>4. end \in Nat /\ i <= end + 1 /\ end <= Len(Refs[o]) /\ (too_big => end < Len(Refs[o]))
        /\ (~too_big => end = Len(Refs[o]))
    <2> HIDE DEF too_big
    <2> QED
      BY SMT, <1>3, SizesPositive
  <1> USE <1>4
  <1>5. late \in BOOLEAN /\ (~too_big => late = FALSE)
    OBVIOUS
  <1> USE <1>5
  <1>6. /\ scan' \in [Threads -> [o : Objects \cup {Null}, i : Nat, end : Nat, late : BOOLEAN]]
        /\ scan'[a] = [o |-> o, i |-> i, end |-> end, late |-> late]
        /\ \A b \in Threads : b # a => scan'[b] = scan[b]
    <2> HIDE DEF end, too_big
    <2>1. scan \in [Threads -> [o : Objects \cup {Null}, i : Nat, end : Nat, late : BOOLEAN]]
      BY DEF HeapTypes
    <2>2. [o |-> o, i |-> i, end |-> end, late |-> late] \in [o : Objects \cup {Null}, i : Nat, end : Nat, late : BOOLEAN]
      BY SMT
    <2> QED
      BY SMT, <2>1, <2>2
  <1>7. \/ end = Len(Refs[o]) /\ late = FALSE /\ chunks' = chunks
        \/ end < Len(Refs[o]) /\ late = TRUE /\ chunks' = chunks
        \/ end < Len(Refs[o]) /\ late = FALSE /\ chunks' = [chunks EXCEPT ![a] = Append(@, <<o, end + 1>>)]
    <2> HIDE DEF end, too_big
    <2> QED
      BY SMT
  <1>8. scan'[a].o = o /\ scan'[a].i = i /\ scan'[a].end = end /\ scan'[a].late = late
    <2> HIDE DEF end
    <2> QED
      BY SMT, <1>6
  <1> HIDE DEF end, too_big, count
  <1> QED
    BY <1>6, <1>7, <1>8 DEF ScansFrom

\* Taking an object from a queue of pointers starts its scan.
LEMMA TakePtrEffect ==
    ASSUME HeapTypes, LoopInv, NEW a \in Threads, NEW b \in Threads, NEW x \in Objects, NEW r \in Seq(Objects),
           pc[a] \in {"pop_ptr", "steal"}, Goto(a, "scan"), UNCHANGED <<marked, done>>,
           Took(ptrs[b], r, x), ptrs' = [ptrs EXCEPT ![b] = r],
           Scan(a, x, 1)
    PROVE  TakesPtr(a, b, x)
  <1>1. pc \in [Threads -> InitiatorLabels \cup HelperLabels] /\ ptrs \in [Threads -> Seq(Objects)]
    BY DEF LoopInv, ThreadsOK, HeapTypes
  <1>2. pc'[a] = "scan"
    BY <1>1 DEF Goto
  <1>3. ptrs'[b] = r /\ ptrs' \in [Threads -> Seq(Objects)] /\ \A c \in Threads : c # b => ptrs'[c] = ptrs[c]
    BY <1>1
  <1>4. 1 \in 1..(Len(Refs[x]) + 1)
    BY SMT, HeapKnown
  <1>5. ScansFrom(a, x, 1)
    BY <1>4, ScanScansFrom
  <1> QED
    BY <1>2, <1>3, <1>5 DEF TakesPtr

\* Taking a chunk from a queue of chunks resumes the scan of its object.
LEMMA TakeChunkEffect ==
    ASSUME HeapTypes, LoopInv, NEW a \in Threads, NEW b \in Threads,
           NEW x \in Objects \X Nat, NEW r \in Seq(Objects \X Nat),
           pc[a] \in {"pop_chunk", "steal"}, Goto(a, "mark_chunk"), UNCHANGED <<marked, done, ptrs>>,
           Took(chunks[b], r, x), chunks' = [chunks EXCEPT ![b] = r],
           scan' = [scan EXCEPT ![a].o = x[1], ![a].i = x[2]]
    PROVE  TakesChunk(a, b, x[1], x[2]) /\ x[1] \in Objects /\ x[2] \in Nat
  <1>1. /\ pc \in [Threads -> InitiatorLabels \cup HelperLabels] /\ chunks \in [Threads -> Seq(Objects \X Nat)]
        /\ scan \in [Threads -> [o : Objects \cup {Null}, i : Nat, end : Nat, late : BOOLEAN]]
    BY DEF LoopInv, ThreadsOK, HeapTypes
  <1> USE <1>1
  <1>2. pc'[a] = "mark_chunk"
    BY DEF Goto
  <1>3. chunks'[b] = r /\ chunks' \in [Threads -> Seq(Objects \X Nat)]
        /\ \A c \in Threads : c # b => chunks'[c] = chunks[c]
    OBVIOUS
  <1>4. x[1] \in Objects /\ x[2] \in Nat /\ x = <<x[1], x[2]>>
    BY SMT
  <1>5. /\ scan' \in [Threads -> [o : Objects \cup {Null}, i : Nat, end : Nat, late : BOOLEAN]]
        /\ scan'[a].o = x[1] /\ scan'[a].i = x[2] /\ \A c \in Threads : c # a => scan'[c] = scan[c]
    BY <1>4
  <1> QED
    BY <1>2, <1>3, <1>4, <1>5 DEF TakesChunk

\* What gc_mark_and_steal does to the heap, action by action: a pop of a pointer,
LEMMA PopPtrEffect ==
    ASSUME HeapTypes, LoopInv, NEW a \in Threads, PopPtr(a)
    PROVE  Effect(a)
  <1>1. ptrs[a] \in Seq(Objects) /\ pc \in [Threads -> InitiatorLabels \cup HelperLabels]
    BY DEF HeapTypes, LoopInv, ThreadsOK
  <1>2. CASE ptrs[a] = <<>>
    <2>1. UNCHANGED <<marked, ptrs, chunks, scan, done>> /\ Goto(a, "pop_chunk") /\ pc[a] = "pop_ptr"
      BY <1>2 DEF PopPtr
    <2>2. pc'[a] = "pop_chunk"
      BY <1>1, <2>1 DEF Goto
    <2> QED
      BY <2>1, <2>2 DEF Effect, TakesNone
  <1>3. CASE ptrs[a] # <<>>
    <2>1. /\ pc[a] = "pop_ptr" /\ Goto(a, "scan") /\ UNCHANGED <<marked, done>>
          /\ ptrs' = [ptrs EXCEPT ![a] = Front(ptrs[a])] /\ Scan(a, Last(ptrs[a]), 1)
      BY <1>3 DEF PopPtr
    <2>2. Front(ptrs[a]) \in Seq(Objects) /\ Last(ptrs[a]) \in Objects
          /\ Took(ptrs[a], Front(ptrs[a]), Last(ptrs[a]))
      BY <1>1, <1>3, FrontTook
    <2>3. pc[a] \in {"pop_ptr", "steal"}
      BY <2>1
    <2>4. TakesPtr(a, a, Last(ptrs[a]))
      BY <2>1, <2>2, <2>3, TakePtrEffect
    <2> QED
      BY <2>2, <2>4 DEF Effect
  <1> QED
    BY <1>2, <1>3

\* a pop of a chunk,
LEMMA PopChunkEffect ==
    ASSUME HeapTypes, LoopInv, NEW a \in Threads, PopChunk(a)
    PROVE  Effect(a)
  <1>1. chunks[a] \in Seq(Objects \X Nat) /\ pc \in [Threads -> InitiatorLabels \cup HelperLabels]
    BY DEF HeapTypes, LoopInv, ThreadsOK
  <1>2. CASE chunks[a] = <<>>
    <2>1. UNCHANGED <<marked, ptrs, chunks, scan, done>> /\ Goto(a, "steal") /\ pc[a] = "pop_chunk"
      BY <1>2 DEF PopChunk
    <2>2. pc'[a] = "steal"
      BY <1>1, <2>1 DEF Goto
    <2> QED
      BY <2>1, <2>2 DEF Effect, TakesNone
  <1>3. CASE chunks[a] # <<>>
    <2> DEFINE x == Last(chunks[a])
    <2>1. /\ pc[a] = "pop_chunk" /\ Goto(a, "mark_chunk") /\ UNCHANGED <<marked, done, ptrs>>
          /\ chunks' = [chunks EXCEPT ![a] = Front(chunks[a])]
          /\ scan' = [scan EXCEPT ![a].o = x[1], ![a].i = x[2]]
      BY <1>3 DEF PopChunk
    <2>2. Front(chunks[a]) \in Seq(Objects \X Nat) /\ x \in Objects \X Nat
          /\ Took(chunks[a], Front(chunks[a]), x)
      BY <1>1, <1>3, FrontTook
    <2>3. pc[a] \in {"pop_chunk", "steal"}
      BY <2>1
    <2> HIDE DEF x
    <2>4. TakesChunk(a, a, x[1], x[2]) /\ x[1] \in Objects /\ x[2] \in Nat
      BY <2>1, <2>2, <2>3, TakeChunkEffect
    <2> QED
      BY <2>4 DEF Effect
  <1> QED
    BY <1>2, <1>3

\* a steal,
LEMMA StolenEffect ==
    ASSUME HeapTypes, LoopInv, NEW a \in Threads, NEW q \in Queues, pc[a] = "steal", Queue(q) # <<>>, Stolen(a, q)
    PROVE  Effect(a)
  <1>1. q[2] \in Threads /\ q[1] \in {"ptr", "chunk"} /\ pc[a] \in {"pop_ptr", "steal"} /\ pc[a] \in {"pop_chunk", "steal"}
    BY DEF Queues
  <1> USE <1>1
  <1>2. CASE q[1] = "ptr"
    <2> DEFINE s == ptrs[q[2]]
    <2>1. s \in Seq(Objects) /\ s # <<>> /\ Queue(q) = s
      BY <1>2 DEF HeapTypes, Queue
    <2>2. /\ Goto(a, "scan") /\ UNCHANGED <<marked, done>>
          /\ ptrs' = [ptrs EXCEPT ![q[2]] = Tail(s)] /\ Scan(a, Head(s), 1)
      BY <1>2, <2>1 DEF Stolen
    <2>3. Tail(s) \in Seq(Objects) /\ Head(s) \in Objects /\ Took(s, Tail(s), Head(s))
      BY <2>1, TailTook
    <2>4. TakesPtr(a, q[2], Head(s))
      BY <2>2, <2>3, TakePtrEffect
    <2> QED
      BY <2>3, <2>4 DEF Effect
  <1>3. CASE q[1] # "ptr"
    <2> DEFINE s == chunks[q[2]]
               x == Head(s)
    <2>1. s \in Seq(Objects \X Nat) /\ s # <<>> /\ Queue(q) = s
      BY <1>3 DEF HeapTypes, Queue
    <2>2. /\ Goto(a, "mark_chunk") /\ UNCHANGED <<marked, done, ptrs>>
          /\ chunks' = [chunks EXCEPT ![q[2]] = Tail(s)]
          /\ scan' = [scan EXCEPT ![a].o = x[1], ![a].i = x[2]]
      BY <1>3, <2>1 DEF Stolen
    <2>3. Tail(s) \in Seq(Objects \X Nat) /\ x \in Objects \X Nat /\ Took(s, Tail(s), x)
      BY <2>1, TailTook
    <2> HIDE DEF x
    <2>4. TakesChunk(a, q[2], x[1], x[2]) /\ x[1] \in Objects /\ x[2] \in Nat
      BY <2>2, <2>3, TakeChunkEffect
    <2> QED
      BY <2>4 DEF Effect
  <1> QED
    BY <1>2, <1>3

(* The walk visits the queues of every collector thread.                     *)
LEMMA OrderFacts ==
    ASSUME ThreadsOK
    PROVE  /\ Len(GCOrder) \in Nat /\ GCOrder \in Seq(GCThreads)
           /\ \A g \in GCThreads : \E j \in 1..Len(GCOrder) : GCOrder[j] = g
  <1>1. PICK k \in 1..Len(Helpers) : GCThreads = {Helpers[j] : j \in 1..k} /\ Cardinality(GCThreads) = k
    BY DEF ThreadsOK
  <1> USE <1>1
  <1>2. Len(Helpers) \in Nat /\ DOMAIN Helpers = 1..Len(Helpers) /\ k \in Nat /\ 1..k \subseteq DOMAIN Helpers
    BY SMT, ThreadsDistinct
  <1> USE <1>2
  <1> DEFINE h == [j \in 1..k |-> Helpers[j]]
  <1>3. h \in [1..k -> GCThreads] /\ \A g \in GCThreads : \E j \in 1..k : h[j] = g
    <2>1. \A j \in 1..k : h[j] = Helpers[j] /\ Helpers[j] \in GCThreads
      OBVIOUS
    <2>2. \A g \in GCThreads : \E j \in 1..k : Helpers[j] = g
      OBVIOUS
    <2> QED
      BY <2>1, <2>2
  <1> HIDE DEF h
  <1>4. SubSeq(Helpers, 1, k) = h
    BY SMT, ThreadsDistinct DEF h
  <1>5. GCOrder = h
    BY <1>4 DEF GCOrder
  <1>6. Len(h) = k /\ h \in Seq(GCThreads)
    BY SMT, <1>3 DEF h
  <1> QED
    BY <1>3, <1>5, <1>6

\* The walk has two rounds over the queues; while the initiator marks it visits every one.
LEMMA WalkFacts ==
    ASSUME ThreadsOK, TidOK, NEW a \in Threads
    PROVE  /\ Len(Walk(a)) = 2 * (Len(GCOrder) + 1) /\ Len(Walk(a)) \in Nat
           /\ \A k \in 1..Len(Walk(a)) : Walk(a)[k] \in Queues
           /\ tid = Initiator => \A q \in Queues : \E k \in 1..Len(Walk(a)) : Walk(a)[k] = q
  <1> DEFINE last == IF tid = Null THEN a ELSE tid
             who == Append(GCOrder, last)
             n == Len(GCOrder) + 1
  <1>1. /\ Len(GCOrder) \in Nat /\ GCOrder \in Seq(GCThreads)
        /\ \A g \in GCThreads : \E j \in 1..Len(GCOrder) : GCOrder[j] = g
    BY OrderFacts
  <1> USE <1>1
  <1>2. last \in Threads /\ (tid = Initiator => last = Initiator) /\ GCOrder \in Seq(Threads)
    <2>1. last \in Threads /\ (tid = Initiator => last = Initiator)
      BY Members, ThreadsDistinct DEF TidOK
    <2>2. GCThreads \subseteq Threads
      BY Members
    <2> QED
      BY SMT, <2>1, <2>2
  <1> HIDE DEF last
  <1>3. /\ Len(who) = n /\ n \in Nat /\ n >= 1 /\ who[n] = last /\ who \in Seq(Threads)
        /\ \A j \in 1..Len(GCOrder) : who[j] = GCOrder[j]
    BY SMT, <1>2
  <1> USE <1>3
  <1>4. \A j \in 1..n : who[j] \in Threads
    BY SMT
  <1>5. tid = Initiator => \A b \in Threads : \E j \in 1..n : who[j] = b
    <2> SUFFICES ASSUME tid = Initiator, NEW b \in Threads PROVE \E j \in 1..n : who[j] = b
      BY SMT
    <2>1. CASE b = Initiator
      <3>1. n \in 1..n /\ who[n] = b
        BY SMT, <1>2, <2>1
      <3> QED
        BY <3>1
    <2>2. CASE b # Initiator
      <3>1. PICK j \in 1..Len(GCOrder) : GCOrder[j] = b
        BY <2>2, Members
      <3>2. j \in 1..n /\ who[j] = b
        BY SMT, <3>1
      <3> QED
        BY <3>2
    <2> QED
      BY <2>1, <2>2
  <1> HIDE DEF who
  <1>6. Walk(a) = [k \in 1..(2 * n) |-> IF k <= n THEN <<"chunk", who[k]>> ELSE <<"ptr", who[k - n]>>]
    BY DEF Walk, who, last
  <1> HIDE DEF n
  <1>7. Len(Walk(a)) = 2 * n /\ 2 * n \in Nat
    <2>1. 2 * n \in Nat
      BY SMT
    <2> QED
      BY SMT, <1>6, <2>1
  <1>8. \A k \in 1..(2 * n) : Walk(a)[k] = IF k <= n THEN <<"chunk", who[k]>> ELSE <<"ptr", who[k - n]>>
    BY <1>6
  <1> USE <1>8
  <1>9. \A k \in 1..(2 * n) : Walk(a)[k] \in Queues
    <2> TAKE k \in 1..(2 * n)
    <2>1. CASE k <= n
      <3>1. k \in 1..n
        BY SMT, <2>1
      <3>2. Walk(a)[k] = <<"chunk", who[k]>> /\ who[k] \in Threads
        BY <1>4, <2>1, <3>1
      <3> QED
        BY SMT, <3>2 DEF Queues
    <2>2. CASE ~(k <= n)
      <3>1. k - n \in 1..n
        BY SMT, <2>2
      <3>2. Walk(a)[k] = <<"ptr", who[k - n]>> /\ who[k - n] \in Threads
        BY <1>4, <2>2, <3>1
      <3> QED
        BY SMT, <3>2 DEF Queues
    <2> QED
      BY <2>1, <2>2
  <1>10. tid = Initiator => \A q \in Queues : \E k \in 1..(2 * n) : Walk(a)[k] = q
    <2> SUFFICES ASSUME tid = Initiator, NEW q \in Queues PROVE \E k \in 1..(2 * n) : Walk(a)[k] = q
      BY SMT
    <2>1. PICK t \in {"ptr", "chunk"}, b \in Threads : q = <<t, b>>
      BY SMT DEF Queues
    <2>2. PICK j \in 1..n : who[j] = b
      BY <1>5
    <2>3. /\ j \in 1..(2 * n) /\ j <= n
          /\ j + n \in 1..(2 * n) /\ ~(j + n <= n) /\ (j + n) - n = j
      BY SMT
    <2> USE <2>3
    <2>4. CASE t = "chunk"
      <3>1. Walk(a)[j] = q
        BY <2>1, <2>2, <2>4
      <3> QED
        BY <3>1
    <2>5. CASE t = "ptr"
      <3>1. Walk(a)[j + n] = q
        BY <2>1, <2>2, <2>5
      <3> QED
        BY <3>1
    <2> QED
      BY <2>4, <2>5
  <1> QED
    BY <1>7, <1>9, <1>10 DEF n

\* No queue is Null, or the mark of a lost attempt.
LEMMA QueuesFresh ==
    ASSUME ThreadsOK
    PROVE  Null # Lost /\ \A q \in Queues : q # Null /\ q # Lost /\ q = <<q[1], q[2]>>
                                            /\ q[1] \in {"ptr", "chunk"} /\ q[2] \in Threads
  <1> DEFINE T == {Initiator, Null} \cup {Helpers[j] : j \in DOMAIN Helpers}
  <1>1. Threads \subseteq T /\ Null \in T
    BY Members
  <1>2. Null \notin {"ptr", "chunk", "lost"} \X T
    BY NullFresh
  <1> HIDE DEF T
  <1>3. Lost \in {"ptr", "chunk", "lost"} \X T
    BY SMT, <1>1 DEF Lost
  <1>4. \A q \in Queues : /\ q \in {"ptr", "chunk", "lost"} \X T /\ q # Lost /\ q = <<q[1], q[2]>>
                          /\ q[1] \in {"ptr", "chunk"} /\ q[2] \in Threads
    BY SMT, <1>1 DEF Queues, Lost
  <1> QED
    BY <1>2, <1>3, <1>4

\* and any step of it.
LEMMA MarkAndStealEffect ==
    ASSUME HeapTypes, WalkInv, LoopInv, NEW a \in Threads, MarkAndSteal(a)
    PROVE  Effect(a)
  <1>1. pc \in [Threads -> InitiatorLabels \cup HelperLabels]
    BY DEF LoopInv, ThreadsOK
  <1>2. ThreadsOK /\ TidOK
    BY DEF LoopInv
  <1> USE <1>2
  <1>3. CASE Restore(a)
    BY <1>3 DEF Restore, heap, Effect, TakesNone
  <1>4. CASE gc_mark_chunk(a)
    <2>1. pc'[a] = "scan" /\ pc[a] = "mark_chunk"
      BY <1>1, <1>4 DEF gc_mark_chunk, Step, Goto
    <2> QED
      BY <1>4, <2>1 DEF gc_mark_chunk, Effect, StartsChunk
  <1>5. CASE StealRandom(a)
    <2>1. PICK g \in GCThreads : LET q == <<Walk(a)[pos[a]][1], g>> IN Queue(q) # <<>> /\ Stolen(a, q)
      BY <1>5 DEF StealRandom
    <2>2. pos[a] \in 1..Len(Walk(a)) /\ pc[a] = "steal"
      <3>1. pc[a] = "steal" /\ pos[a] \in {1, Len(GCOrder) + 2}
        BY <1>5 DEF StealRandom
      <3>2. Len(Walk(a)) = 2 * (Len(GCOrder) + 1) /\ Len(GCOrder) \in Nat
        BY WalkFacts, OrderFacts
      <3> QED
        BY SMT, <3>1, <3>2
    <2>3. Walk(a)[pos[a]] \in Queues /\ g \in Threads
      BY <2>2, WalkFacts, Members
    <2> DEFINE q == <<Walk(a)[pos[a]][1], g>>
    <2>4. Walk(a)[pos[a]][1] \in {"ptr", "chunk"}
      BY <2>3, QueuesFresh
    <2>5. q \in Queues
      BY <2>3, <2>4 DEF Queues
    <2>6. Queue(q) # <<>> /\ Stolen(a, q)
      BY <2>1
    <2> HIDE DEF q
    <2> QED
      BY <2>2, <2>5, <2>6, StolenEffect
  <1>6. CASE StealLook(a)
    BY <1>6 DEF StealLook, Effect, TakesNone
  <1>7. CASE StealTry(a)
    <2>1. pc[a] = "steal" /\ try[a] \notin {Null, Lost} /\ Stolen(a, try[a])
      BY <1>7 DEF StealTry
    <2>2. try[a] \in Queues /\ Queue(try[a]) # <<>>
      BY <2>1 DEF WalkInv, WalkAt
    <2> QED
      BY <2>1, <2>2, StolenEffect
  <1>8. CASE StealLost(a)
    BY <1>8 DEF StealLost, Effect, TakesNone
  <1>9. CASE StealNothing(a)
    <2>1. pc[a] = "steal" /\ pc'[a] \in {"dec", "stack_start"}
      BY <1>1, <1>9 DEF StealNothing, Step, Goto
    <2> QED
      BY <1>9, <2>1 DEF StealNothing, Effect, TakesNone
  <1>10. CASE Look(a) \/ Claim(a) \/ Scanned(a)
    BY <1>10 DEF Effect
  <1> QED
    BY <1>3, <1>4, <1>5, <1>6, <1>7, <1>8, <1>9, <1>10, PopPtrEffect, PopChunkEffect DEF MarkAndSteal

(* The items of the queues and the scans, step by step.                      *)
LEMMA ScanOKFrame ==
    ASSUME NEW c \in Threads, ScanOK(c), pc'[c] = pc[c], scan'[c] = scan[c], marked \subseteq marked'
    PROVE  ScanOK(c)'
  BY DEF ScanOK, Scanning

\* The beginning of a scan.
LEMMA ScansFromOK ==
    ASSUME HeapTypes, NEW a \in Threads, NEW o \in marked, NEW i \in 1..(Len(Refs[o]) + 1),
           pc'[a] = "scan", UNCHANGED marked, ScansFrom(a, o, i)
    PROVE  /\ ScanOK(a)' /\ chunks' \in [Threads -> Seq(Objects \X Nat)]
           /\ scan' \in [Threads -> [o : Objects \cup {Null}, i : Nat, end : Nat, late : BOOLEAN]]
           /\ \A c \in Threads : c # a => scan'[c] = scan[c] /\ chunks'[c] = chunks[c]
           /\ \A x : In(chunks[a], x) => In(chunks'[a], x)
           /\ \A x : In(chunks'[a], x) => In(chunks[a], x) \/ \E f \in 1..Len(Refs[o]) : x = <<o, f>>
  <1>1. PICK end \in Nat, late \in BOOLEAN :
    /\ scan' \in [Threads -> [o : Objects \cup {Null}, i : Nat, end : Nat, late : BOOLEAN]]
    /\ scan'[a].o = o /\ scan'[a].i = i /\ scan'[a].end = end /\ scan'[a].late = late
    /\ \A b \in Threads : b # a => scan'[b] = scan[b]
    /\ i <= end + 1 /\ end <= Len(Refs[o])
    /\ \/ end = Len(Refs[o]) /\ late = FALSE /\ chunks' = chunks
       \/ end < Len(Refs[o]) /\ late = TRUE /\ chunks' = chunks
       \/ end < Len(Refs[o]) /\ late = FALSE /\ chunks' = [chunks EXCEPT ![a] = Append(@, <<o, end + 1>>)]
    BY DEF ScansFrom
  <1> USE <1>1
  <1>2. o \in Objects /\ Len(Refs[o]) \in Nat
    BY SMT, HeapKnown DEF HeapTypes
  <1> USE <1>2
  <1>3. i \in 1..(end + 1)
    BY SMT
  <1>4. pc'[a] # "claim" /\ pc'[a] # "mark_chunk" /\ (late = TRUE => end < Len(Refs[o]))
    BY SMT
  <1>5. ScanOK(a)'
    BY <1>3, <1>4 DEF ScanOK, Scanning
  <1>6. chunks \in [Threads -> Seq(Objects \X Nat)]
    BY DEF HeapTypes
  <1> USE <1>6
  <1>7. CASE chunks' = chunks
    BY <1>5, <1>7
  <1>8. CASE end < Len(Refs[o]) /\ chunks' = [chunks EXCEPT ![a] = Append(@, <<o, end + 1>>)]
    <2> DEFINE e == <<o, end + 1>>
    <2>1. e \in Objects \X Nat /\ end + 1 \in 1..Len(Refs[o])
      BY SMT, <1>8
    <2> HIDE DEF e
    <2>2. chunks' = [chunks EXCEPT ![a] = Append(chunks[a], e)]
      BY <1>8 DEF e
    <2>3. chunks[a] \in Seq(Objects \X Nat)
      OBVIOUS
    <2>4. Append(chunks[a], e) \in Seq(Objects \X Nat) /\ \A y : In(Append(chunks[a], e), y) <=> In(chunks[a], y) \/ y = e
      <3>1. ASSUME NEW s \in Seq(Objects \X Nat)
            PROVE  Append(s, e) \in Seq(Objects \X Nat) /\ \A y : In(Append(s, e), y) <=> In(s, y) \/ y = e
        BY <2>1, AppendPut
      <3> QED
        BY <2>3, <3>1
    <2>5. /\ chunks'[a] = Append(chunks[a], e) /\ chunks' \in [Threads -> Seq(Objects \X Nat)]
          /\ \A c \in Threads : c # a => chunks'[c] = chunks[c]
      <3>1. Append(chunks[a], e) \in Seq(Objects \X Nat)
        BY <2>4
      <3> QED
        BY <2>2, <3>1
    <2>6. \E f \in 1..Len(Refs[o]) : e = <<o, f>>
      BY <2>1 DEF e
    <2> QED
      BY <1>5, <2>4, <2>5, <2>6
  <1> QED
    BY <1>7, <1>8

\* What is queued on the queue of c is what was, and what is marked.
LEMMA QueueOKFrame ==
    ASSUME NEW c \in Threads, QueueOK(c), marked \subseteq marked',
           \A y : In(ptrs'[c], y) => In(ptrs[c], y) \/ y \in marked',
           \A y : In(chunks'[c], y) => \/ In(chunks[c], y)
                                       \/ \E o \in marked' : \E f \in 1..Len(Refs[o]) : y = <<o, f>>
    PROVE  QueueOK(c)'
  <1>1. \A o \in Objects : In(ptrs'[c], o) => o \in marked'
    BY DEF QueueOK
  <1>2. ASSUME NEW o \in Objects, NEW f \in Nat, In(chunks'[c], <<o, f>>)
        PROVE  o \in marked' /\ f \in 1..Len(Refs[o])
    <2>1. CASE In(chunks[c], <<o, f>>)
      BY <2>1 DEF QueueOK
    <2>2. CASE \E p \in marked' : \E h \in 1..Len(Refs[p]) : <<o, f>> = <<p, h>>
      <3>1. PICK p \in marked' : \E h \in 1..Len(Refs[p]) : <<o, f>> = <<p, h>>
        BY <2>2
      <3>2. o = p /\ f \in 1..Len(Refs[p])
        BY SMT, <3>1
      <3> QED
        BY <3>2
    <2> QED
      BY <1>2, <2>1, <2>2
  <1> QED
    BY <1>1, <1>2 DEF QueueOK

\* The types of the heap and the bounds of the scans last when a pointer is taken,
LEMMA TakesPtrHeap ==
    ASSUME HeapTypes, Bounds, NEW a \in Threads, Moves(a), Threads' = Threads,
           NEW b \in Threads, NEW x \in Objects, TakesPtr(a, b, x)
    PROVE  HeapTypes' /\ Bounds' /\ x \in marked
  <1>1. /\ pc'[a] = "scan" /\ UNCHANGED <<marked, done>> /\ Took(ptrs[b], ptrs'[b], x)
        /\ ptrs' \in [Threads -> Seq(Objects)] /\ \A c \in Threads : c # b => ptrs'[c] = ptrs[c]
        /\ ScansFrom(a, x, 1)
    BY DEF TakesPtr
  <1> USE <1>1
  <1>2. x \in marked
    BY DEF Took, Bounds, QueueOK
  <1> USE <1>2
  <1>3. 1 \in 1..(Len(Refs[x]) + 1)
    BY SMT, HeapKnown
  <1>4. /\ ScanOK(a)' /\ chunks' \in [Threads -> Seq(Objects \X Nat)]
        /\ scan' \in [Threads -> [o : Objects \cup {Null}, i : Nat, end : Nat, late : BOOLEAN]]
        /\ \A c \in Threads : c # a => scan'[c] = scan[c] /\ chunks'[c] = chunks[c]
        /\ \A y : In(chunks'[a], y) => In(chunks[a], y) \/ \E f \in 1..Len(Refs[x]) : y = <<x, f>>
    BY <1>3, ScansFromOK
  <1> USE <1>4
  <1>5. HeapTypes'
    BY DEF HeapTypes
  <1>6. ASSUME NEW c \in Threads PROVE ScanOK(c)' /\ QueueOK(c)'
    <2>1. ScanOK(c)'
      <3>1. CASE c = a
        BY <3>1
      <3>2. CASE c # a
        BY <3>2, ScanOKFrame DEF Bounds, Moves
      <3> QED
        BY <3>1, <3>2
    <2>2. \A y : In(ptrs'[c], y) => In(ptrs[c], y)
      BY DEF Took
    <2>3. \A y : In(chunks'[c], y) => \/ In(chunks[c], y)
                                      \/ \E o \in marked' : \E f \in 1..Len(Refs[o]) : y = <<o, f>>
      OBVIOUS
    <2>4. QueueOK(c)'
      BY <2>2, <2>3, QueueOKFrame DEF Bounds
    <2> QED
      BY <2>1, <2>4
  <1> QED
    BY <1>5, <1>6 DEF Bounds

\* when a chunk is taken,
LEMMA TakesChunkHeap ==
    ASSUME HeapTypes, Bounds, NEW a \in Threads, Moves(a), Threads' = Threads,
           NEW b \in Threads, NEW o \in Objects, NEW i \in Nat, TakesChunk(a, b, o, i)
    PROVE  HeapTypes' /\ Bounds' /\ o \in marked /\ i \in 1..Len(Refs[o])
  <1>1. /\ pc'[a] = "mark_chunk" /\ UNCHANGED <<marked, done, ptrs>>
        /\ Took(chunks[b], chunks'[b], <<o, i>>)
        /\ chunks' \in [Threads -> Seq(Objects \X Nat)] /\ \A c \in Threads : c # b => chunks'[c] = chunks[c]
        /\ scan' \in [Threads -> [o : Objects \cup {Null}, i : Nat, end : Nat, late : BOOLEAN]]
        /\ scan'[a].o = o /\ scan'[a].i = i /\ \A c \in Threads : c # a => scan'[c] = scan[c]
    BY DEF TakesChunk
  <1> USE <1>1
  <1>2. o \in marked /\ i \in 1..Len(Refs[o])
    BY DEF Took, Bounds, QueueOK
  <1>3. HeapTypes'
    BY DEF HeapTypes
  <1>4. ASSUME NEW c \in Threads PROVE ScanOK(c)' /\ QueueOK(c)'
    <2>1. ScanOK(c)'
      <3>1. CASE c = a
        BY <1>2, <3>1 DEF ScanOK, Scanning
      <3>2. CASE c # a
        BY <3>2, ScanOKFrame DEF Bounds, Moves
      <3> QED
        BY <3>1, <3>2
    <2>2. \A y : In(chunks'[c], y) => In(chunks[c], y)
      BY DEF Took
    <2>3. QueueOK(c)'
      BY <2>2, QueueOKFrame DEF Bounds
    <2> QED
      BY <2>1, <2>3
  <1> QED
    BY <1>2, <1>3, <1>4 DEF Bounds

\* when a chunk is started,
LEMMA StartsChunkHeap ==
    ASSUME HeapTypes, Bounds, NEW a \in Threads, Moves(a), Threads' = Threads, StartsChunk(a)
    PROVE  /\ HeapTypes' /\ Bounds' /\ ScansFrom(a, scan[a].o, scan[a].i)
           /\ scan[a].o \in marked /\ scan[a].i \in 1..Len(Refs[scan[a].o])
  <1> DEFINE o == scan[a].o
             i == scan[a].i
  <1>1. /\ pc[a] = "mark_chunk" /\ pc'[a] = "scan" /\ UNCHANGED <<marked, done, ptrs>>
        /\ Scan(a, o, i)
    BY DEF StartsChunk
  <1> USE <1>1
  <1>2. o \in marked /\ i \in 1..Len(Refs[o])
    BY DEF Bounds, ScanOK
  <1> USE <1>2
  <1> HIDE DEF o, i
  <1>3. o \in Objects /\ i \in 1..(Len(Refs[o]) + 1)
    BY SMT, HeapKnown DEF HeapTypes
  <1>4. ScansFrom(a, o, i)
    BY <1>3, ScanScansFrom
  <1>5. /\ ScanOK(a)' /\ chunks' \in [Threads -> Seq(Objects \X Nat)]
        /\ scan' \in [Threads -> [o : Objects \cup {Null}, i : Nat, end : Nat, late : BOOLEAN]]
        /\ \A c \in Threads : c # a => scan'[c] = scan[c] /\ chunks'[c] = chunks[c]
        /\ \A y : In(chunks'[a], y) => In(chunks[a], y) \/ \E f \in 1..Len(Refs[o]) : y = <<o, f>>
    BY <1>3, <1>4, ScansFromOK
  <1> USE <1>5
  <1>6. HeapTypes'
    BY DEF HeapTypes
  <1>7. ASSUME NEW c \in Threads PROVE ScanOK(c)' /\ QueueOK(c)'
    <2>1. ScanOK(c)'
      <3>1. CASE c = a
        BY <3>1
      <3>2. CASE c # a
        BY <3>2, ScanOKFrame DEF Bounds, Moves
      <3> QED
        BY <3>1, <3>2
    <2>2. \A y : In(chunks'[c], y) => \/ In(chunks[c], y)
                                      \/ \E p \in marked' : \E f \in 1..Len(Refs[p]) : y = <<p, f>>
      OBVIOUS
    <2>3. QueueOK(c)'
      BY <2>2, QueueOKFrame DEF Bounds
    <2> QED
      BY <2>1, <2>3
  <1> QED
    BY <1>4, <1>6, <1>7 DEF Bounds, o, i

\* (going on to the next reference changes the index and no more)
LEMMA NextRefFacts ==
    ASSUME HeapTypes, NEW a \in Threads, NextRef(a)
    PROVE  /\ scan' \in [Threads -> [o : Objects \cup {Null}, i : Nat, end : Nat, late : BOOLEAN]]
           /\ scan'[a].o = scan[a].o /\ scan'[a].i = scan[a].i + 1 /\ scan'[a].end = scan[a].end
           /\ scan'[a].late = scan[a].late /\ \A c \in Threads : c # a => scan'[c] = scan[c]
  <1>1. scan \in [Threads -> [o : Objects \cup {Null}, i : Nat, end : Nat, late : BOOLEAN]]
    BY DEF HeapTypes
  <1>2. scan[a].i \in Nat /\ scan[a].i + 1 \in Nat
    BY SMT, <1>1
  <1>3. scan' = [scan EXCEPT ![a].i = scan[a].i + 1]
    BY DEF NextRef
  <1> QED
    BY SMT, <1>1, <1>2, <1>3

\* The reference at hand.
LEMMA AtHand ==
    ASSUME HeapTypes, Bounds, NEW a \in Threads, Scanning(a), scan[a].i <= scan[a].end
    PROVE  /\ scan[a].o \in marked /\ scan[a].o \in Objects /\ scan[a].i \in DOMAIN Refs[scan[a].o]
           /\ scan[a].i \in Nat /\ scan[a].end \in Nat /\ ToClaim(a) \in Objects
           /\ DOMAIN Refs[scan[a].o] = 1..Len(Refs[scan[a].o]) /\ Len(Refs[scan[a].o]) \in Nat
           /\ scan[a].i + 1 \in 1..(scan[a].end + 1) /\ scan[a].end <= Len(Refs[scan[a].o])
  <1>1. /\ scan[a].o \in marked /\ scan[a].end <= Len(Refs[scan[a].o])
        /\ scan[a].i \in 1..(scan[a].end + 1)
    BY DEF Bounds, ScanOK
  <1> USE <1>1
  <1>2. scan[a].o \in Objects /\ scan[a].i \in Nat /\ scan[a].end \in Nat
    BY SMT DEF HeapTypes
  <1> USE <1>2
  <1>3. Refs[scan[a].o] \in Seq(Objects)
    BY HeapKnown
  <1>4. DOMAIN Refs[scan[a].o] = 1..Len(Refs[scan[a].o]) /\ Len(Refs[scan[a].o]) \in Nat
    BY SMT, <1>3
  <1>5. scan[a].i \in 1..Len(Refs[scan[a].o]) /\ scan[a].i + 1 \in 1..(scan[a].end + 1)
    BY SMT, <1>4
  <1>6. ToClaim(a) \in Objects
    BY SMT, <1>3, <1>5 DEF ToClaim
  <1> QED
    BY <1>4, <1>5, <1>6

\* The next one.
LEMMA NextRefOK ==
    ASSUME HeapTypes, Bounds, NEW a \in Threads, Scanning(a), scan[a].i <= scan[a].end,
           NextRef(a), pc'[a] = "scan", marked \subseteq marked'
    PROVE  ScanOK(a)'
  <1>1. /\ scan'[a].o = scan[a].o /\ scan'[a].i = scan[a].i + 1 /\ scan'[a].end = scan[a].end
        /\ scan'[a].late = scan[a].late
    BY NextRefFacts
  <1>2. /\ scan[a].o \in marked /\ scan[a].end <= Len(Refs[scan[a].o])
        /\ scan[a].i + 1 \in 1..(scan[a].end + 1)
        /\ scan[a].late => scan[a].end < Len(Refs[scan[a].o])
    BY AtHand DEF Bounds, ScanOK
  <1> QED
    BY <1>1, <1>2 DEF ScanOK, Scanning

\* when a reference is looked at,
LEMMA LookHeap ==
    ASSUME HeapTypes, Bounds, NEW a \in Threads, Moves(a), Threads' = Threads, Look(a)
    PROVE  HeapTypes' /\ Bounds'
  <1>1. /\ pc[a] = "scan" /\ scan[a].i <= scan[a].end /\ UNCHANGED <<marked, ptrs, chunks>>
        /\ IF ToClaim(a) \in marked THEN NextRef(a) /\ UNCHANGED pc
                                    ELSE Goto(a, "claim") /\ UNCHANGED scan
    BY DEF Look
  <1> USE <1>1
  <1>2. Scanning(a)
    BY DEF Scanning
  <1>3. /\ scan' \in [Threads -> [o : Objects \cup {Null}, i : Nat, end : Nat, late : BOOLEAN]]
        /\ \A c \in Threads : c # a => scan'[c] = scan[c]
    BY NextRefFacts DEF HeapTypes
  <1>4. HeapTypes'
    BY <1>3 DEF HeapTypes
  <1>5. ScanOK(a)'
    <2>1. CASE ToClaim(a) \in marked
      BY <1>2, <2>1, NextRefOK
    <2>2. CASE ToClaim(a) \notin marked
      <3>1. Goto(a, "claim") /\ UNCHANGED scan
        BY <2>2
      <3> USE <3>1
      <3>2. a \in DOMAIN pc
        BY DEF Moves, Goto
      <3>3. pc'[a] = "claim"
        BY <3>2 DEF Goto
      <3>4. "claim" # "mark_chunk" /\ ScanOK(a)
        BY DEF Bounds
      <3> QED
        BY <1>2, <3>3, <3>4 DEF ScanOK, Scanning
    <2> QED
      BY <2>1, <2>2
  <1>6. ASSUME NEW c \in Threads PROVE ScanOK(c)' /\ QueueOK(c)'
    <2>1. ScanOK(c)'
      <3>1. CASE c = a
        BY <1>5, <3>1
      <3>2. CASE c # a
        BY <1>3, <3>2, ScanOKFrame DEF Bounds, Moves
      <3> QED
        BY <3>1, <3>2
    <2> QED
      BY <2>1 DEF Bounds, QueueOK
  <1> QED
    BY <1>4, <1>6 DEF Bounds

\* (claiming an object marks it and pushes it when it was not marked)
LEMMA ClaimFacts ==
    ASSUME HeapTypes, Bounds, NEW a \in Threads, Moves(a), Claim(a)
    PROVE  /\ pc[a] = "claim" /\ pc'[a] = "scan" /\ Scanning(a) /\ scan[a].i <= scan[a].end
           /\ NextRef(a) /\ marked' = marked \cup {ToClaim(a)} /\ UNCHANGED <<chunks, done>>
           /\ ptrs' \in [Threads -> Seq(Objects)] /\ \A c \in Threads : c # a => ptrs'[c] = ptrs[c]
           /\ ToClaim(a) \in marked => ptrs' = ptrs
           /\ ToClaim(a) \notin marked => ptrs'[a] = Append(ptrs[a], ToClaim(a))
           /\ \A y : In(ptrs'[a], y) <=> In(ptrs[a], y) \/ (ToClaim(a) \notin marked /\ y = ToClaim(a))
  <1>1. /\ pc[a] = "claim" /\ Goto(a, "scan") /\ NextRef(a) /\ marked' = marked \cup {ToClaim(a)}
        /\ ptrs' = IF ToClaim(a) \in marked THEN ptrs ELSE [ptrs EXCEPT ![a] = Append(ptrs[a], ToClaim(a))]
        /\ UNCHANGED <<chunks, done>>
    BY DEF Claim, Step
  <1>2. Scanning(a) /\ scan[a].i <= scan[a].end
    BY <1>1 DEF Scanning, Bounds, ScanOK
  <1>3. ToClaim(a) \in Objects /\ ptrs[a] \in Seq(Objects) /\ ptrs \in [Threads -> Seq(Objects)]
    BY <1>2, AtHand DEF HeapTypes
  <1>4. pc'[a] = "scan"
    <2>1. a \in DOMAIN pc
      BY <1>1 DEF Moves, Goto
    <2> QED
      BY <1>1, <2>1 DEF Goto
  <1>5. /\ Append(ptrs[a], ToClaim(a)) \in Seq(Objects)
        /\ \A y : In(Append(ptrs[a], ToClaim(a)), y) <=> In(ptrs[a], y) \/ y = ToClaim(a)
    BY <1>3, PtrAppend
  <1>6. CASE ToClaim(a) \in marked
    BY <1>1, <1>2, <1>3, <1>4, <1>6
  <1>7. CASE ToClaim(a) \notin marked
    <2>1. Append(ptrs[a], ToClaim(a)) \in Seq(Objects)
      BY <1>5
    <2>2. /\ ptrs'[a] = Append(ptrs[a], ToClaim(a)) /\ ptrs' \in [Threads -> Seq(Objects)]
          /\ \A c \in Threads : c # a => ptrs'[c] = ptrs[c]
      BY <1>1, <1>3, <1>7, <2>1
    <2> QED
      BY <1>1, <1>2, <1>4, <1>5, <1>7, <2>2
  <1> QED
    BY <1>6, <1>7

\* when its object is claimed,
LEMMA ClaimHeap ==
    ASSUME HeapTypes, Bounds, NEW a \in Threads, Moves(a), Threads' = Threads, Claim(a)
    PROVE  HeapTypes' /\ Bounds'
  <1>1. /\ pc'[a] = "scan" /\ Scanning(a) /\ scan[a].i <= scan[a].end
        /\ NextRef(a) /\ marked' = marked \cup {ToClaim(a)} /\ UNCHANGED <<chunks, done>>
        /\ ptrs' \in [Threads -> Seq(Objects)] /\ \A c \in Threads : c # a => ptrs'[c] = ptrs[c]
        /\ \A y : In(ptrs'[a], y) <=> In(ptrs[a], y) \/ (ToClaim(a) \notin marked /\ y = ToClaim(a))
    BY ClaimFacts
  <1> USE <1>1
  <1>2. /\ scan' \in [Threads -> [o : Objects \cup {Null}, i : Nat, end : Nat, late : BOOLEAN]]
        /\ \A c \in Threads : c # a => scan'[c] = scan[c]
    BY NextRefFacts
  <1>3. HeapTypes'
    BY <1>2, AtHand DEF HeapTypes
  <1>4. marked \subseteq marked' /\ ToClaim(a) \in marked'
    OBVIOUS
  <1> USE <1>4
  <1>5. ASSUME NEW c \in Threads PROVE ScanOK(c)' /\ QueueOK(c)'
    <2>1. ScanOK(c)'
      <3>1. CASE c = a
        BY <3>1, NextRefOK
      <3>2. CASE c # a
        BY <1>2, <3>2, ScanOKFrame DEF Bounds, Moves
      <3> QED
        BY <3>1, <3>2
    <2>2. \A y : In(ptrs'[c], y) => In(ptrs[c], y) \/ y \in marked'
      OBVIOUS
    <2>3. QueueOK(c)'
      BY <2>2, QueueOKFrame DEF Bounds
    <2> QED
      BY <2>1, <2>3
  <1> QED
    BY <1>3, <1>5 DEF Bounds

\* (the end of a scan pushes the rest of the object when that was left for later)
LEMMA ScannedFacts ==
    ASSUME HeapTypes, Bounds, NEW a \in Threads, Moves(a), Scanned(a)
    PROVE  /\ pc[a] = "scan" /\ pc'[a] = "pop_ptr" /\ UNCHANGED <<marked, ptrs, done>>
           /\ scan[a].i = scan[a].end + 1 /\ scan[a].o \in marked
           /\ scan' \in [Threads -> [o : Objects \cup {Null}, i : Nat, end : Nat, late : BOOLEAN]]
           /\ scan'[a] = Idle /\ \A c \in Threads : c # a => scan'[c] = scan[c]
           /\ chunks' \in [Threads -> Seq(Objects \X Nat)] /\ \A c \in Threads : c # a => chunks'[c] = chunks[c]
           /\ scan[a].late => scan[a].i \in 1..Len(Refs[scan[a].o])
           /\ scan[a].late => chunks'[a] = Append(chunks[a], <<scan[a].o, scan[a].i>>)
           /\ ~scan[a].late => chunks' = chunks
           /\ \A y : In(chunks'[a], y) <=> In(chunks[a], y) \/ (scan[a].late /\ y = <<scan[a].o, scan[a].i>>)
  <1> DEFINE e == <<scan[a].o, scan[a].i>>
  <1>1. /\ pc[a] = "scan" /\ Goto(a, "pop_ptr") /\ scan[a].i > scan[a].end
        /\ chunks' = IF scan[a].late THEN [chunks EXCEPT ![a] = Append(chunks[a], e)] ELSE chunks
        /\ scan' = [scan EXCEPT ![a] = Idle] /\ UNCHANGED <<marked, ptrs, done>>
    BY DEF Scanned, Step
  <1> USE <1>1
  <1>2. /\ scan[a].o \in marked /\ scan[a].end <= Len(Refs[scan[a].o])
        /\ scan[a].i \in 1..(scan[a].end + 1)
        /\ scan[a].late => scan[a].end < Len(Refs[scan[a].o])
    BY DEF Bounds, ScanOK, Scanning
  <1> USE <1>2
  <1>3. /\ scan[a].o \in Objects /\ scan[a].i \in Nat /\ scan[a].end \in Nat /\ scan[a].late \in BOOLEAN
        /\ Len(Refs[scan[a].o]) \in Nat
    <2>1. scan[a].o \in Objects /\ scan[a].i \in Nat /\ scan[a].end \in Nat /\ scan[a].late \in BOOLEAN
      BY SMT DEF HeapTypes
    <2> QED
      BY SMT, <2>1, HeapKnown
  <1>4. scan[a].i = scan[a].end + 1 /\ (scan[a].late => scan[a].i \in 1..Len(Refs[scan[a].o]))
    BY SMT, <1>3
  <1>5. pc'[a] = "pop_ptr"
    <2>1. a \in DOMAIN pc
      BY DEF Moves, Goto
    <2> QED
      BY <2>1 DEF Goto
  <1>6. Idle \in [o : Objects \cup {Null}, i : Nat, end : Nat, late : BOOLEAN]
    BY SMT DEF Idle
  <1>7. /\ scan' \in [Threads -> [o : Objects \cup {Null}, i : Nat, end : Nat, late : BOOLEAN]]
        /\ scan'[a] = Idle /\ \A c \in Threads : c # a => scan'[c] = scan[c]
    BY <1>6 DEF HeapTypes
  <1>8. chunks \in [Threads -> Seq(Objects \X Nat)] /\ chunks[a] \in Seq(Objects \X Nat)
    BY DEF HeapTypes
  <1> USE <1>8
  <1>9. CASE ~scan[a].late
    BY <1>4, <1>5, <1>7, <1>9
  <1>10. CASE scan[a].late
    <2>1. e \in Objects \X Nat
      BY <1>3
    <2>2. chunks' = [chunks EXCEPT ![a] = Append(chunks[a], e)]
      BY <1>10
    <2> HIDE DEF e
    <2>3. ASSUME NEW s \in Seq(Objects \X Nat)
          PROVE  Append(s, e) \in Seq(Objects \X Nat) /\ \A y : In(Append(s, e), y) <=> In(s, y) \/ y = e
      BY <2>1, AppendPut
    <2>4. Append(chunks[a], e) \in Seq(Objects \X Nat)
      BY <2>3
    <2>5. \A y : In(Append(chunks[a], e), y) <=> In(chunks[a], y) \/ y = e
      BY <2>3
    <2>6. /\ chunks'[a] = Append(chunks[a], e) /\ chunks' \in [Threads -> Seq(Objects \X Nat)]
          /\ \A c \in Threads : c # a => chunks'[c] = chunks[c]
      BY <2>2, <2>4
    <2> QED
      BY <1>4, <1>5, <1>7, <1>10, <2>5, <2>6 DEF e
  <1> QED
    BY <1>9, <1>10

\* when a scan ends,
LEMMA ScannedHeap ==
    ASSUME HeapTypes, Bounds, NEW a \in Threads, Moves(a), Threads' = Threads, Scanned(a)
    PROVE  HeapTypes' /\ Bounds'
  <1>1. /\ pc'[a] = "pop_ptr" /\ UNCHANGED <<marked, ptrs, done>> /\ scan[a].o \in marked
        /\ scan' \in [Threads -> [o : Objects \cup {Null}, i : Nat, end : Nat, late : BOOLEAN]]
        /\ \A c \in Threads : c # a => scan'[c] = scan[c]
        /\ chunks' \in [Threads -> Seq(Objects \X Nat)] /\ \A c \in Threads : c # a => chunks'[c] = chunks[c]
        /\ scan[a].late => scan[a].i \in 1..Len(Refs[scan[a].o])
        /\ \A y : In(chunks'[a], y) <=> In(chunks[a], y) \/ (scan[a].late /\ y = <<scan[a].o, scan[a].i>>)
    BY ScannedFacts
  <1> USE <1>1
  <1>2. HeapTypes'
    BY DEF HeapTypes
  <1>3. ASSUME NEW c \in Threads PROVE ScanOK(c)' /\ QueueOK(c)'
    <2>1. ScanOK(c)'
      <3>1. CASE c = a
        BY <3>1 DEF ScanOK, Scanning
      <3>2. CASE c # a
        BY <3>2, ScanOKFrame DEF Bounds, Moves
      <3> QED
        BY <3>1, <3>2
    <2>2. \A y : In(chunks'[c], y) => \/ In(chunks[c], y)
                                      \/ \E p \in marked' : \E f \in 1..Len(Refs[p]) : y = <<p, f>>
      <3> SUFFICES ASSUME NEW y, In(chunks'[c], y), ~In(chunks[c], y)
                   PROVE  \E p \in marked' : \E f \in 1..Len(Refs[p]) : y = <<p, f>>
        OBVIOUS
      <3>1. c = a
        OBVIOUS
      <3>2. scan[a].late /\ y = <<scan[a].o, scan[a].i>>
        BY <3>1
      <3>3. scan[a].o \in marked' /\ scan[a].i \in 1..Len(Refs[scan[a].o])
        BY <3>2
      <3> QED
        BY <3>2, <3>3
    <2>3. QueueOK(c)'
      BY <2>2, QueueOKFrame DEF Bounds
    <2> QED
      BY <2>1, <2>3
  <1> QED
    BY <1>2, <1>3 DEF Bounds

\* Steps that leave the queues and the scans alone, and begin none.
LEMMA QuietHeap ==
    ASSUME HeapTypes, Bounds, Threads' = Threads, UNCHANGED <<marked, ptrs, chunks, scan>>,
           \A c \in Threads : pc'[c] = pc[c] \/ pc'[c] \notin {"mark_chunk", "scan", "claim"}
    PROVE  HeapTypes' /\ Bounds'
  <1>1. HeapTypes'
    BY DEF HeapTypes
  <1>2. ASSUME NEW c \in Threads PROVE ScanOK(c)' /\ QueueOK(c)'
    BY DEF Bounds, ScanOK, QueueOK, Scanning
  <1> QED
    BY <1>1, <1>2 DEF Bounds

\* and so at every step of gc_mark_and_steal.
LEMMA EffectHeap ==
    ASSUME HeapTypes, Bounds, NEW a \in Threads, Moves(a), Threads' = Threads, Effect(a)
    PROVE  HeapTypes' /\ Bounds'
  <1>1. CASE TakesNone(a)
    <2>1. \A c \in Threads : pc'[c] = pc[c] \/ pc'[c] \notin {"mark_chunk", "scan", "claim"}
      BY <1>1 DEF TakesNone, Moves
    <2> QED
      BY <1>1, <2>1, QuietHeap DEF TakesNone
  <1> QED
    BY <1>1, TakesPtrHeap, TakesChunkHeap, StartsChunkHeap, LookHeap, ClaimHeap, ScannedHeap DEF Effect

(* A sequence has no item or is empty.                                       *)
LEMMA NonEmpty ==
    ASSUME NEW S, NEW q \in Seq(S)
    PROVE  q # <<>> <=> \E x : In(q, x)
  <1>1. q # <<>> => 1 \in 1..Len(q)
    BY SMT
  <1>2. \A j \in 1..Len(q) : q # <<>>
    BY SMT
  <1> QED
    BY <1>1, <1>2 DEF In

\* The walk of c goes on as it was.
LEMMA OtherWalk ==
    ASSUME ThreadsOK, WalkInv, NEW c \in Threads, Other(c), pc'[c] = pc[c], Walk(c)' = Walk(c)
    PROVE  WalkAt(c)'
  <1>1. WalkAt(c) /\ try[c] \in Queues \cup {Null, Lost}
    BY DEF WalkInv
  <1> USE <1>1
  <1>2. Null # Lost /\ \A q \in Queues : q # Null /\ q # Lost
    BY QueuesFresh
  <1> USE <1>2
  <1>3. pc[c] # "steal" => try'[c] = Null /\ pos'[c] = 1
    BY DEF WalkAt, Other
  <1>4. try'[c] # Null => try[c] # Null
    BY DEF Other
  <1>5. \A q : try'[c] = q /\ q \notin {Null, Lost} => q \in Queues /\ try[c] = q /\ Queue(q)' # <<>>
    BY DEF Other
  <1>6. try'[c] \notin {Null, Lost} => Walk(c)[pos'[c]] = try'[c] /\ \A q : q = try'[c] => Queue(q)' # <<>>
    BY <1>5 DEF WalkAt, Other
  <1>7. \A q : q = try'[c] => (Queue(q)' # <<>> <=> Queue(try[c])' # <<>>)
    BY SMT DEF Queue
  <1> QED
    BY <1>3, <1>4, <1>6, <1>7 DEF WalkAt, Other

\* Nothing is taken: only queues of thread a change, and none becomes empty.
LEMMA GrowOthers ==
    ASSUME ThreadsOK, WalkInv, NEW a \in Threads,
           \A c \in Threads : c # a => /\ pos'[c] = pos[c] /\ try'[c] = try[c] /\ scan'[c] = scan[c]
                                       /\ ptrs'[c] = ptrs[c] /\ chunks'[c] = chunks[c],
           ptrs[a] # <<>> => ptrs'[a] # <<>>, chunks[a] # <<>> => chunks'[a] # <<>>
    PROVE  \A c \in Threads : c # a => Other(c)
  <1> SUFFICES ASSUME NEW c \in Threads, c # a PROVE Other(c)
    BY SMT
  <1>1. ASSUME NEW q \in Queues, try'[c] = q PROVE Queue(q)' # <<>>
    <2>1. q \notin {Null, Lost} /\ q[2] \in Threads /\ try[c] = q
      BY <1>1, QueuesFresh
    <2> USE <2>1
    <2>2. Queue(q) # <<>>
      BY DEF WalkInv, WalkAt
    <2>3. ptrs[q[2]] # <<>> => ptrs'[q[2]] # <<>>
      OBVIOUS
    <2>4. chunks[q[2]] # <<>> => chunks'[q[2]] # <<>>
      OBVIOUS
    <2> QED
      BY <2>2, <2>3, <2>4 DEF Queue
  <1> QED
    BY <1>1 DEF Other

\* An item of queue t is taken: who tried for it has lost.
LEMMA TakeOthers ==
    ASSUME ThreadsOK, WalkInv, NEW a \in Threads, NEW t \in Queues,
           \A c \in Threads : c # a =>
              /\ pos'[c] = pos[c] /\ scan'[c] = scan[c]
              /\ ptrs[c] = <<>> => ptrs'[c] = <<>>
              /\ chunks[c] = <<>> => chunks'[c] = <<>>
              /\ try'[c] = try[c] \/ (try[c] = t /\ try'[c] = Lost)
              /\ try'[c] = t => Queue(t)' # <<>>,
           \A q \in Queues : q # t /\ Queue(q) # <<>> => Queue(q)' # <<>>
    PROVE  \A c \in Threads : c # a => Other(c)
  <1> SUFFICES ASSUME NEW c \in Threads, c # a PROVE Other(c)
    BY SMT
  <1>1. ASSUME NEW q \in Queues, try'[c] = q PROVE Queue(q)' # <<>>
    <2>1. q \notin {Null, Lost}
      BY QueuesFresh
    <2>2. try[c] = q
      BY <1>1, <2>1
    <2>3. Queue(q) # <<>>
      BY <2>1, <2>2 DEF WalkInv, WalkAt
    <2> QED
      BY <1>1, <2>3
  <1> QED
    BY <1>1 DEF Other

\* Thread a is not walking.
LEMMA NotWalking ==
    ASSUME WalkInv, NEW a \in Threads, Walk(a)' = Walk(a), Len(Walk(a)) \in Nat,
           pos'[a] = 1, try'[a] = Null, pc'[a] \notin {"steal", "dec"},
           pc'[a] = "pop_chunk" => ptrs'[a] = <<>>,
           pc'[a] \notin {"mark_chunk", "scan", "claim"} => scan'[a] = Idle
    PROVE  WalkAt(a)'
  <1>1. 1 \in 1..(Len(Walk(a)) + 1)
    BY SMT
  <1>2. try'[a] \in {Null, Lost} /\ try'[a] = Null
    OBVIOUS
  <1> QED
    BY <1>1, <1>2 DEF WalkAt

\* The walk depends on who collects, and for whom.
LEMMA WalkSame ==
    ASSUME UNCHANGED <<tid, stack_req>>, NEW a
    PROVE  Walk(a)' = Walk(a)
  BY DEF Walk, GCOrder, GCThreads

\* Who is not walking will begin at the first queue.
LEMMA WalkBase ==
    ASSUME LoopInv, WalkInv, NEW a \in Threads
    PROVE  /\ ThreadsOK /\ TidOK /\ Len(Walk(a)) \in Nat /\ WalkAt(a)
           /\ pos \in [Threads -> Nat] /\ try \in [Threads -> Queues \cup {Null, Lost}]
           /\ Null # Lost /\ \A q \in Queues : q # Null /\ q # Lost
           /\ pc[a] # "steal" => pos[a] = 1 /\ try[a] = Null
  <1>1. ThreadsOK /\ TidOK
    BY DEF LoopInv
  <1>2. Len(Walk(a)) \in Nat
    BY <1>1, WalkFacts
  <1> QED
    BY <1>1, <1>2, QueuesFresh DEF WalkInv, WalkAt

\* An attempt that is not for queue q survives.
LEMMA LoseFacts ==
    ASSUME LoopInv, WalkInv, NEW q \in Queues
    PROVE  /\ Lose(q) \in [Threads -> Queues \cup {Null, Lost}]
           /\ \A c \in Threads : Lose(q)[c] = IF try[c] = q THEN Lost ELSE try[c]
           /\ \A c \in Threads : Lose(q)[c] # q
           /\ \A c \in Threads : try[c] = Null => Lose(q)[c] = Null
  <1>1. try \in [Threads -> Queues \cup {Null, Lost}]
    BY DEF WalkInv
  <1>2. q # Null /\ q # Lost
    BY QueuesFresh DEF LoopInv
  <1>3. \A c \in Threads : Lose(q)[c] = IF try[c] = q THEN Lost ELSE try[c]
    BY DEF Lose
  <1>4. Lose(q) \in [Threads -> Queues \cup {Null, Lost}]
    BY <1>1 DEF Lose
  <1> QED
    BY <1>2, <1>3, <1>4

\* Scanning adds chunks to the queue of a, and takes none.
LEMMA ScansFromGrows ==
    ASSUME HeapTypes, NEW a \in Threads, NEW o \in Objects, NEW i \in 1..(Len(Refs[o]) + 1), ScansFrom(a, o, i)
    PROVE  /\ chunks[a] # <<>> => chunks'[a] # <<>>
           /\ \A c \in Threads : c # a => scan'[c] = scan[c] /\ chunks'[c] = chunks[c]
  <1>1. PICK end \in Nat, late \in BOOLEAN :
          /\ \A b \in Threads : b # a => scan'[b] = scan[b]
          /\ chunks' = chunks \/ chunks' = [chunks EXCEPT ![a] = Append(chunks[a], <<o, end + 1>>)]
    BY DEF ScansFrom
  <1>2. chunks \in [Threads -> Seq(Objects \X Nat)] /\ chunks[a] \in Seq(Objects \X Nat)
    BY DEF HeapTypes
  <1>3. Append(chunks[a], <<o, end + 1>>) # <<>>
    <2>1. \A s \in Seq(Objects \X Nat), e \in Objects \X Nat : Append(s, e) # <<>>
      BY SMT
    <2>2. <<o, end + 1>> \in Objects \X Nat
      BY SMT, <1>1
    <2> QED
      BY <1>2, <2>1, <2>2
  <1> QED
    BY <1>1, <1>2, <1>3

\* The walk over the queues stays as described at a pop of a pointer,
LEMMA PopPtrWalk ==
    ASSUME HeapTypes, LoopInv, WalkInv, NEW a \in Threads, PopPtr(a), Walk(a)' = Walk(a), MarkMove(a)
    PROVE  Walks(a)
  <1>1. /\ ThreadsOK /\ Len(Walk(a)) \in Nat /\ WalkAt(a)
        /\ pos \in [Threads -> Nat] /\ try \in [Threads -> Queues \cup {Null, Lost}]
        /\ \A q \in Queues : q # Null /\ q # Lost
        /\ pos[a] = 1 /\ try[a] = Null /\ pc[a] = "pop_ptr" /\ scan[a] = Idle
    BY WalkBase DEF PopPtr, WalkAt
  <1> USE <1>1
  <1>2. ptrs \in [Threads -> Seq(Objects)] /\ ptrs[a] \in Seq(Objects)
    BY DEF HeapTypes
  <1>3. pc \in [Threads -> InitiatorLabels \cup HelperLabels] /\ pos' = pos
    BY DEF ThreadsOK, PopPtr
  <1> USE <1>3
  <1>4. CASE ptrs[a] = <<>>
    <2>1. Len(ptrs[a]) # 1
      BY SMT, <1>4
    <2>2. Goto(a, "pop_chunk") /\ UNCHANGED <<ptrs, scan, chunks, try>>
      BY <1>4, <2>1 DEF PopPtr
    <2> USE <2>2
    <2>3. pc'[a] = "pop_chunk"
      BY DEF Goto
    <2>4. WalkAt(a)'
      BY <1>4, <2>3, NotWalking
    <2>5. \A c \in Threads : c # a => Other(c)
      BY GrowOthers
    <2> QED
      BY <2>4, <2>5 DEF Walks
  <1>5. CASE ptrs[a] # <<>>
    <2> DEFINE x == Last(ptrs[a])
    <2>0. <<"ptr", a>> \in Queues
      BY SMT DEF Queues <2>t. PICK t \in Queues : t = <<"ptr", a>> BY Zenon, <2>0
    <2>1. /\ Goto(a, "scan") /\ ptrs' = [ptrs EXCEPT ![a] = Front(ptrs[a])] /\ Scan(a, x, 1)
          /\ try' = IF Len(ptrs[a]) = 1 THEN Lose(t) ELSE try
      BY <1>5, <2>t DEF PopPtr
    <2> USE <2>1
    <2>2. x \in Objects /\ (Len(ptrs[a]) # 1 => Front(ptrs[a]) # <<>>)
      BY <1>2, <1>5, FrontTook
    <2> USE <2>2
    <2>3. t \in Queues /\ t[1] = "ptr" /\ t[2] = a
      BY SMTT(30), <2>t
    <2> USE <2>3
    <2> HIDE DEF x
    <2>4. 1 \in 1..(Len(Refs[x]) + 1)
      BY SMT, HeapKnown
    <2>5. ScansFrom(a, x, 1)
      BY <2>4, ScanScansFrom
    <2>6. /\ chunks[a] # <<>> => chunks'[a] # <<>>
          /\ \A c \in Threads : c # a => scan'[c] = scan[c] /\ chunks'[c] = chunks[c]
      BY <2>4, <2>5, ScansFromGrows
    <2>7. ptrs'[a] = Front(ptrs[a]) /\ (\A c \in Threads : c # a => ptrs'[c] = ptrs[c]) /\ pc'[a] = "scan"
      BY <1>2 DEF Goto
    <2> USE <2>7
    <2>8. \A q \in Queues : q # t => IF q[1] = "ptr" THEN q[2] # a /\ q[2] \in Threads ELSE q[2] \in Threads
      BY SMT, <2>t DEF Queues
    <2>9. \A q \in Queues : q # t /\ Queue(q) # <<>> => Queue(q)' # <<>>
      BY <2>6, <2>8 DEF Queue
    <2>10. /\ try' \in [Threads -> Queues \cup {Null, Lost}] /\ try'[a] = Null
           /\ \A c \in Threads : try'[c] = try[c] \/ (try[c] = t /\ try'[c] = Lost)
           /\ \A c \in Threads : try'[c] = t => Len(ptrs[a]) # 1
      <3>1. CASE Len(ptrs[a]) = 1
        <4>1. try' = Lose(t)
          BY <3>1
        <4>2. /\ Lose(t) \in [Threads -> Queues \cup {Null, Lost}]
              /\ \A c \in Threads : Lose(t)[c] = IF try[c] = t THEN Lost ELSE try[c]
              /\ \A c \in Threads : Lose(t)[c] # t
              /\ \A c \in Threads : try[c] = Null => Lose(t)[c] = Null
          BY LoseFacts
        <4> QED
          BY <4>1, <4>2
      <3>2. CASE Len(ptrs[a]) # 1
        BY <3>2
      <3> QED
        BY <3>1, <3>2
    <2> USE <2>10
    <2>11. \A c \in Threads : try'[c] = t => Queue(t)' # <<>>
      BY DEF Queue
    <2>12. \A c \in Threads : c # a => Other(c)
      <3>1. ASSUME NEW c \in Threads, c # a
            PROVE  /\ pos'[c] = pos[c] /\ scan'[c] = scan[c]
                   /\ ptrs[c] = <<>> => ptrs'[c] = <<>>
                   /\ chunks[c] = <<>> => chunks'[c] = <<>>
                   /\ try'[c] = try[c] \/ (try[c] = t /\ try'[c] = Lost)
                   /\ try'[c] = t => Queue(t)' # <<>>
        BY <2>6, <2>11, <3>1
      <3> QED
        BY <2>9, <3>1, TakeOthers
    <2>13. WalkAt(a)'
      BY NotWalking
    <2> QED
      BY <2>12, <2>13 DEF Walks
  <1> QED
    BY <1>4, <1>5

\* at a pop of a chunk,
LEMMA PopChunkWalk ==
    ASSUME HeapTypes, LoopInv, WalkInv, NEW a \in Threads, PopChunk(a), Walk(a)' = Walk(a), MarkMove(a)
    PROVE  Walks(a)
  <1>1. /\ ThreadsOK /\ Len(Walk(a)) \in Nat /\ WalkAt(a)
        /\ pos \in [Threads -> Nat] /\ try \in [Threads -> Queues \cup {Null, Lost}]
        /\ \A q \in Queues : q # Null /\ q # Lost
        /\ pos[a] = 1 /\ try[a] = Null /\ pc[a] = "pop_chunk" /\ scan[a] = Idle /\ ptrs[a] = <<>>
    BY WalkBase DEF PopChunk, WalkAt
  <1>2. chunks \in [Threads -> Seq(Objects \X Nat)] /\ chunks[a] \in Seq(Objects \X Nat)
        /\ scan \in [Threads -> [o : Objects \cup {Null}, i : Nat, end : Nat, late : BOOLEAN]]
    BY DEF HeapTypes
  <1>3. pc \in [Threads -> InitiatorLabels \cup HelperLabels] /\ pos' = pos /\ ptrs' = ptrs
    BY <1>1 DEF ThreadsOK, PopChunk
  <1>4. CASE chunks[a] = <<>>
    <2>1. Len(chunks[a]) # 1
      BY SMT, <1>4
    <2>2. Goto(a, "steal") /\ UNCHANGED <<scan, chunks, try>>
      BY <1>4, <2>1 DEF PopChunk
    <2>3. pc'[a] = "steal"
      BY <1>3, <2>2 DEF Goto
    <2>4. WalkAt(a)'
      BY <1>1, <1>3, <1>4, <2>2, <2>3 DEF WalkAt
    <2>5. \A c \in Threads : c # a => Other(c)
      BY <1>1, <1>3, <2>2, GrowOthers
    <2> QED
      BY <1>1, <1>3, <2>2, <2>4, <2>5 DEF Walks
  <1>5. CASE chunks[a] # <<>>
    <2> DEFINE x == Last(chunks[a])
    <2>0. <<"chunk", a>> \in Queues
      BY SMT DEF Queues <2>t. PICK t \in Queues : t = <<"chunk", a>> BY Zenon, <2>0
    <2>1. /\ Goto(a, "mark_chunk") /\ chunks' = [chunks EXCEPT ![a] = Front(chunks[a])]
          /\ scan' = [scan EXCEPT ![a].o = x[1], ![a].i = x[2]]
          /\ try' = IF Len(chunks[a]) = 1 THEN Lose(t) ELSE try
      BY <1>5, <2>t DEF PopChunk
    <2>2. Len(chunks[a]) # 1 => Front(chunks[a]) # <<>>
      BY <1>2, <1>5, FrontTook
    <2>3. t \in Queues /\ t[1] = "chunk" /\ t[2] = a /\ "chunk" # "ptr"
      BY SMT, <2>t
    <2> HIDE DEF x
    <2>4. \A c \in Threads : c # a => scan'[c] = scan[c]
      BY <1>2, <2>1
    <2>5. chunks'[a] = Front(chunks[a]) /\ (\A c \in Threads : c # a => chunks'[c] = chunks[c]) /\ pc'[a] = "mark_chunk"
      BY <1>2, <1>3, <2>1 DEF Goto
    <2>6. \A q \in Queues : q # t => IF q[1] = "ptr" THEN q[2] \in Threads ELSE q[2] # a /\ q[2] \in Threads
      BY SMT, <2>t DEF Queues
    <2>7. \A q \in Queues : q # t /\ Queue(q) # <<>> => Queue(q)' # <<>>
      BY <1>3, <2>5, <2>6 DEF Queue
    <2>8. /\ try' \in [Threads -> Queues \cup {Null, Lost}] /\ try'[a] = Null
          /\ \A c \in Threads : try'[c] = try[c] \/ (try[c] = t /\ try'[c] = Lost)
          /\ \A c \in Threads : try'[c] = t => Len(chunks[a]) # 1
      <3>1. CASE Len(chunks[a]) = 1
        <4>1. try' = Lose(t)
          BY <2>1, <3>1
        <4>2. /\ Lose(t) \in [Threads -> Queues \cup {Null, Lost}]
              /\ \A c \in Threads : Lose(t)[c] = IF try[c] = t THEN Lost ELSE try[c]
              /\ \A c \in Threads : Lose(t)[c] # t
              /\ \A c \in Threads : try[c] = Null => Lose(t)[c] = Null
          BY <2>3, LoseFacts
        <4> QED
          BY <1>1, <4>1, <4>2
      <3>2. CASE Len(chunks[a]) # 1
        BY <1>1, <2>1, <3>2
      <3> QED
        BY <3>1, <3>2
    <2>9. \A c \in Threads : try'[c] = t => Queue(t)' # <<>>
      BY <2>2, <2>3, <2>5, <2>8 DEF Queue
    <2>10. \A c \in Threads : c # a => Other(c)
      <3>1. ASSUME NEW c \in Threads, c # a
            PROVE  /\ pos'[c] = pos[c] /\ scan'[c] = scan[c]
                   /\ ptrs[c] = <<>> => ptrs'[c] = <<>>
                   /\ chunks[c] = <<>> => chunks'[c] = <<>>
                   /\ try'[c] = try[c] \/ (try[c] = t /\ try'[c] = Lost)
                   /\ try'[c] = t => Queue(t)' # <<>>
        BY <1>3, <2>4, <2>5, <2>8, <2>9, <3>1
      <3> QED
        BY <1>1, <2>3, <2>7, <3>1, TakeOthers
    <2>11. WalkAt(a)'
      BY <1>1, <1>3, <2>5, <2>8, NotWalking
    <2> QED
      BY <1>1, <1>3, <2>8, <2>10, <2>11 DEF Walks
  <1> QED
    BY <1>4, <1>5

\* at a steal,
LEMMA StolenWalk ==
    ASSUME HeapTypes, LoopInv, WalkInv, NEW a \in Threads, NEW t \in Queues, pc[a] = "steal", Queue(t) # <<>>,
           Stolen(a, t), Walk(a)' = Walk(a)
    PROVE  Walks(a)
  <1>1. /\ ThreadsOK /\ Len(Walk(a)) \in Nat /\ WalkAt(a)
        /\ pos \in [Threads -> Nat] /\ try \in [Threads -> Queues \cup {Null, Lost}]
        /\ \A q \in Queues : q # Null /\ q # Lost
    BY WalkBase
  <1>2. ptrs \in [Threads -> Seq(Objects)] /\ chunks \in [Threads -> Seq(Objects \X Nat)]
        /\ scan \in [Threads -> [o : Objects \cup {Null}, i : Nat, end : Nat, late : BOOLEAN]]
    BY DEF HeapTypes
  <1>3. pc \in [Threads -> InitiatorLabels \cup HelperLabels]
    BY <1>1 DEF ThreadsOK
  <1>4. t[2] \in Threads /\ t[1] \in {"ptr", "chunk"} /\ "ptr" # "chunk"
        /\ \A q \in Queues : /\ q[2] \in Threads /\ q[1] \in {"ptr", "chunk"}
                             /\ q # t => q[1] # t[1] \/ q[2] # t[2]
    BY SMT DEF Queues
  <1>5. /\ pos' \in [Threads -> Nat] /\ pos'[a] = 1 /\ \A c \in Threads : c # a => pos'[c] = pos[c]
    <2>1. 1 \in Nat /\ pos' = [pos EXCEPT ![a] = 1]
      BY DEF Stolen
    <2> QED
      BY <1>1, <2>1
  <1>6. /\ try' \in [Threads -> Queues \cup {Null, Lost}] /\ try'[a] = Null
        /\ \A c \in Threads : c # a => try'[c] # t /\ (try'[c] = try[c] \/ (try[c] = t /\ try'[c] = Lost))
    <2>1. try' = [Lose(t) EXCEPT ![a] = Null]
      BY DEF Stolen
    <2>2. /\ Lose(t) \in [Threads -> Queues \cup {Null, Lost}]
          /\ \A c \in Threads : Lose(t)[c] = IF try[c] = t THEN Lost ELSE try[c]
          /\ \A c \in Threads : Lose(t)[c] # t
      BY LoseFacts
    <2>3. \A c \in Threads : c # a => try'[c] = Lose(t)[c]
      BY <2>1, <2>2
    <2> QED
      BY <2>1, <2>2, <2>3
  <1>7. /\ pc'[a] \in {"scan", "mark_chunk"}
        /\ \A c \in Threads : c # a => /\ scan'[c] = scan[c] /\ (ptrs[c] = <<>> => ptrs'[c] = <<>>)
                                       /\ (chunks[c] = <<>> => chunks'[c] = <<>>)
        /\ \A q \in Queues : q # t /\ Queue(q) # <<>> => Queue(q)' # <<>>
    <2>1. CASE t[1] = "ptr"
      <3> DEFINE s == ptrs[t[2]]
      <3>1. s \in Seq(Objects) /\ s # <<>> /\ Queue(t) = s
        BY <1>2, <1>4, <2>1 DEF Queue
      <3>2. /\ Goto(a, "scan") /\ ptrs' = [ptrs EXCEPT ![t[2]] = Tail(s)] /\ Scan(a, Head(s), 1)
        BY <2>1, <3>1 DEF Stolen
      <3>3. Head(s) \in Objects
        BY <3>1, TailTook
      <3>4. 1 \in 1..(Len(Refs[Head(s)]) + 1)
        BY SMT, <3>3, HeapKnown
      <3>5. ScansFrom(a, Head(s), 1)
        BY <3>2, <3>3, <3>4, ScanScansFrom
      <3>6. /\ chunks[a] # <<>> => chunks'[a] # <<>>
            /\ \A c \in Threads : c # a => scan'[c] = scan[c] /\ chunks'[c] = chunks[c]
        BY <3>3, <3>4, <3>5, ScansFromGrows
      <3>7. pc'[a] = "scan" /\ \A c \in Threads : c # t[2] => ptrs'[c] = ptrs[c]
        BY <1>2, <1>3, <3>2 DEF Goto
      <3>8. ASSUME NEW q \in Queues, q # t, Queue(q) # <<>> PROVE Queue(q)' # <<>>
        <4>1. CASE q[1] = "ptr"
          <5>1. ptrs'[q[2]] = ptrs[q[2]]
            BY <1>4, <2>1, <3>7, <3>8, <4>1
          <5> QED
            BY <3>8, <4>1, <5>1 DEF Queue
        <4>2. CASE q[1] # "ptr"
          <5>1. chunks[q[2]] # <<>> => chunks'[q[2]] # <<>>
            BY <1>4, <3>6
          <5> QED
            BY <3>8, <4>2, <5>1 DEF Queue
        <4> QED
          BY <4>1, <4>2
      <3>9. \A c \in Threads : ptrs[c] = <<>> => ptrs'[c] = <<>>
        BY <3>1, <3>7
      <3> QED
        BY <3>6, <3>7, <3>8, <3>9
    <2>2. CASE t[1] # "ptr"
      <3> DEFINE s == chunks[t[2]]
      <3>1. s # <<>> /\ Queue(t) = s
        BY <2>2 DEF Queue
      <3>2. /\ Goto(a, "mark_chunk") /\ ptrs' = ptrs /\ chunks' = [chunks EXCEPT ![t[2]] = Tail(s)]
            /\ scan' = [scan EXCEPT ![a].o = Head(s)[1], ![a].i = Head(s)[2]]
        BY <2>2, <3>1 DEF Stolen
      <3>3. /\ pc'[a] = "mark_chunk" /\ \A c \in Threads : c # t[2] => chunks'[c] = chunks[c]
            /\ \A c \in Threads : c # a => scan'[c] = scan[c]
        BY <1>2, <1>3, <3>2 DEF Goto
      <3>4. ASSUME NEW q \in Queues, q # t, Queue(q) # <<>> PROVE Queue(q)' # <<>>
        <4>1. CASE q[1] = "ptr"
          BY <3>2, <3>4, <4>1 DEF Queue
        <4>2. CASE q[1] # "ptr"
          <5>1. q[2] # t[2]
            BY <1>4, <2>2, <3>4, <4>2
          <5>2. chunks'[q[2]] = chunks[q[2]]
            BY <1>4, <3>3, <5>1
          <5> QED
            BY <3>4, <4>2, <5>2 DEF Queue
        <4> QED
          BY <4>1, <4>2
      <3>5. \A c \in Threads : chunks[c] = <<>> => chunks'[c] = <<>>
        BY <3>1, <3>3
      <3> QED
        BY <3>2, <3>3, <3>4, <3>5
    <2> QED
      BY <2>1, <2>2
  <1>8. \A c \in Threads : c # a => Other(c)
    <2>1. ASSUME NEW c \in Threads, c # a
          PROVE  /\ pos'[c] = pos[c] /\ scan'[c] = scan[c]
                 /\ ptrs[c] = <<>> => ptrs'[c] = <<>>
                 /\ chunks[c] = <<>> => chunks'[c] = <<>>
                 /\ try'[c] = try[c] \/ (try[c] = t /\ try'[c] = Lost)
                 /\ try'[c] = t => Queue(t)' # <<>>
      BY <1>5, <1>6, <1>7, <2>1
    <2> QED
      BY <1>1, <1>7, <2>1, TakeOthers
  <1>9. WalkAt(a)'
    <2>1. pc'[a] \notin {"steal", "dec"} /\ pc'[a] # "pop_chunk" /\ pc'[a] \in {"mark_chunk", "scan", "claim"}
      BY <1>7
    <2> QED
      BY <1>1, <1>5, <1>6, <2>1, NotWalking
  <1> QED
    BY <1>5, <1>6, <1>8, <1>9 DEF Walks

\* at the end of a pop,
LEMMA RestoreWalk ==
    ASSUME LoopInv, WalkInv, NEW a \in Threads, Restore(a), Walk(a)' = Walk(a)
    PROVE  Walks(a)
  <1>1. ThreadsOK /\ WalkAt(a) /\ pos \in [Threads -> Nat] /\ try \in [Threads -> Queues \cup {Null, Lost}]
    BY WalkBase
  <1> USE <1>1
  <1>2. UNCHANGED <<pc, ptrs, chunks, pos, try, scan>>
    BY DEF Restore, heap
  <1> USE <1>2
  <1>3. WalkAt(a)'
    BY DEF WalkAt, Queue
  <1>4. \A c \in Threads : c # a => Other(c)
    BY GrowOthers
  <1> QED
    BY <1>3, <1>4 DEF Walks

\* at a look at the next queue,
LEMMA StealLookWalk ==
    ASSUME LoopInv, WalkInv, NEW a \in Threads, StealLook(a), Walk(a)' = Walk(a)
    PROVE  Walks(a)
  <1>1. /\ ThreadsOK /\ TidOK /\ WalkAt(a) /\ pos \in [Threads -> Nat] /\ try \in [Threads -> Queues \cup {Null, Lost}]
        /\ Len(Walk(a)) \in Nat /\ \A q \in Queues : q # Null /\ q # Lost
    BY WalkBase
  <1> USE <1>1
  <1>2. UNCHANGED <<pc, ptrs, chunks, scan>> /\ pc[a] = "steal" /\ try[a] = Null /\ pos[a] <= Len(Walk(a))
    BY DEF StealLook
  <1> USE <1>2
  <1>3. /\ pos[a] \in 1..Len(Walk(a)) /\ pos[a] + 1 \in 1..(Len(Walk(a)) + 1) /\ pos[a] + 1 \in Nat
    BY SMT DEF WalkAt
  <1> USE <1>3
  <1>4. Walk(a)[pos[a]] \in Queues
    BY WalkFacts
  <1>5. PICK q \in Queues : q = Walk(a)[pos[a]]
    BY <1>4
  <1> USE <1>5
  <1>6. CASE Queue(q) = <<>> \/ dip[q[2]] = q[1]
    <2>1. pos' = [pos EXCEPT ![a] = pos[a] + 1] /\ try' = try
      BY <1>6 DEF StealLook
    <2> USE <2>1
    <2>2. /\ pos' \in [Threads -> Nat] /\ pos'[a] = pos[a] + 1 /\ \A c \in Threads : c # a => pos'[c] = pos[c]
      OBVIOUS
    <2> USE <2>2
    <2>3. WalkAt(a)'
      BY DEF WalkAt
    <2>4. \A c \in Threads : c # a => Other(c)
      BY GrowOthers
    <2> QED
      BY <2>3, <2>4 DEF Walks
  <1>7. CASE ~(Queue(q) = <<>> \/ dip[q[2]] = q[1])
    <2>1. try' = [try EXCEPT ![a] = q] /\ pos' = pos
      BY <1>7 DEF StealLook
    <2> USE <2>1
    <2>2. /\ try' \in [Threads -> Queues \cup {Null, Lost}] /\ try'[a] = q /\ \A c \in Threads : c # a => try'[c] = try[c]
      OBVIOUS
    <2> USE <2>2
    <2>3. Queue(try[a])' # <<>>
      BY <1>7 DEF Queue
    <2>4. WalkAt(a)'
      BY <2>3 DEF WalkAt
    <2>5. \A c \in Threads : c # a => Other(c)
      BY GrowOthers
    <2> QED
      BY <2>4, <2>5 DEF Walks
  <1> QED
    BY <1>6, <1>7

\* at a lost attempt,
LEMMA StealLostWalk ==
    ASSUME LoopInv, WalkInv, NEW a \in Threads, StealLost(a), Walk(a)' = Walk(a)
    PROVE  Walks(a) /\ pc[a] = "steal"
  <1>1. /\ ThreadsOK /\ WalkAt(a) /\ pos \in [Threads -> Nat] /\ try \in [Threads -> Queues \cup {Null, Lost}]
        /\ Len(Walk(a)) \in Nat /\ Null # Lost
    BY WalkBase
  <1> USE <1>1
  <1>2. /\ UNCHANGED <<pc, ptrs, chunks, scan>> /\ try[a] = Lost
        /\ try' = [try EXCEPT ![a] = Null] /\ pos' = [pos EXCEPT ![a] = pos[a] + 1]
    BY DEF StealLost
  <1> USE <1>2
  <1>3. pc[a] = "steal" /\ pos[a] <= Len(Walk(a)) /\ pos[a] \in 1..(Len(Walk(a)) + 1)
    BY DEF WalkAt
  <1> USE <1>3
  <1>4. pos[a] + 1 \in 1..(Len(Walk(a)) + 1) /\ pos[a] + 1 \in Nat
    BY SMT
  <1>5. /\ pos' \in [Threads -> Nat] /\ pos'[a] = pos[a] + 1 /\ \A c \in Threads : c # a => pos'[c] = pos[c]
        /\ try' \in [Threads -> Queues \cup {Null, Lost}] /\ try'[a] = Null /\ \A c \in Threads : c # a => try'[c] = try[c]
    BY <1>4
  <1> USE <1>5
  <1>6. WalkAt(a)'
    BY <1>4 DEF WalkAt
  <1>7. \A c \in Threads : c # a => Other(c)
    BY GrowOthers
  <1> QED
    BY <1>6, <1>7 DEF Walks

\* and at the end of the walk.
LEMMA StealNothingWalk ==
    ASSUME LoopInv, WalkInv, NEW a \in Threads, StealNothing(a), Walk(a)' = Walk(a)
    PROVE  Walks(a) /\ pc[a] = "steal" /\ pc'[a] = IF tid = Null THEN "stack_start" ELSE "dec"
  <1>1. /\ ThreadsOK /\ WalkAt(a) /\ pos \in [Threads -> Nat] /\ try \in [Threads -> Queues \cup {Null, Lost}]
        /\ Len(Walk(a)) \in Nat
    BY WalkBase
  <1> USE <1>1
  <1>2. /\ UNCHANGED <<ptrs, chunks, scan, try>> /\ pc[a] = "steal" /\ pos[a] > Len(Walk(a))
        /\ pos' = [pos EXCEPT ![a] = 1] /\ Goto(a, IF tid = Null THEN "stack_start" ELSE "dec")
    BY DEF StealNothing, Step
  <1> USE <1>2
  <1>3. pc'[a] = IF tid = Null THEN "stack_start" ELSE "dec"
    BY DEF ThreadsOK, Goto
  <1>4. ~(pos[a] <= Len(Walk(a))) /\ 1 \in 1..(Len(Walk(a)) + 1) /\ 1 \in Nat
    BY SMT
  <1> USE <1>4
  <1>5. try[a] = Null /\ ptrs[a] = <<>> /\ chunks[a] = <<>> /\ scan[a] = Idle
    BY DEF WalkAt
  <1>6. /\ pos' \in [Threads -> Nat] /\ pos'[a] = 1 /\ \A c \in Threads : c # a => pos'[c] = pos[c]
    OBVIOUS
  <1> USE <1>6
  <1>7. WalkAt(a)'
    <2>1. pc'[a] # "steal" /\ pc'[a] # "pop_chunk" /\ try'[a] = Null
      BY <1>3, <1>5
    <2> QED
      BY <1>5, <2>1 DEF WalkAt
  <1>8. \A c \in Threads : c # a => Other(c)
    BY GrowOthers
  <1> QED
    BY <1>3, <1>7, <1>8 DEF Walks

\* The steps of a scan.
LEMMA ScanWalk ==
    ASSUME HeapTypes, Bounds, LoopInv, WalkInv, NEW a \in Threads, Walk(a)' = Walk(a), Moves(a), Threads' = Threads,
           gc_mark_chunk(a) \/ Look(a) \/ Claim(a) \/ Scanned(a)
    PROVE  Walks(a) /\ pc'[a] \in {"scan", "claim", "pop_ptr"} /\ pc[a] \in {"mark_chunk", "scan", "claim"}
  <1>1. /\ ThreadsOK /\ WalkAt(a) /\ pos \in [Threads -> Nat] /\ try \in [Threads -> Queues \cup {Null, Lost}]
        /\ Len(Walk(a)) \in Nat /\ pc \in [Threads -> InitiatorLabels \cup HelperLabels]
        /\ pc[a] # "steal" => pos[a] = 1 /\ try[a] = Null
    BY WalkBase DEF ThreadsOK
  <1> USE <1>1
  <1>2. UNCHANGED <<pos, try>> /\ pc[a] \in {"mark_chunk", "scan", "claim"}
    BY DEF gc_mark_chunk, Look, Claim, Scanned, Step
  <1> USE <1>2
  <1>3. /\ pc'[a] \in {"scan", "claim", "pop_ptr"} /\ (pc'[a] = "pop_ptr" => scan'[a] = Idle)
        /\ \A c \in Threads : c # a => scan'[c] = scan[c] /\ ptrs'[c] = ptrs[c] /\ chunks'[c] = chunks[c]
        /\ ptrs[a] # <<>> => ptrs'[a] # <<>>
        /\ chunks[a] # <<>> => chunks'[a] # <<>>
    <2>1. CASE gc_mark_chunk(a)
      <3>1. /\ pc[a] = "mark_chunk" /\ pc'[a] = "scan" /\ UNCHANGED <<marked, done, ptrs>> /\ Scan(a, scan[a].o, scan[a].i)
        BY <2>1 DEF gc_mark_chunk, Step, Goto
      <3>2. StartsChunk(a)
        BY <3>1 DEF StartsChunk
      <3>3. ScansFrom(a, scan[a].o, scan[a].i) /\ scan[a].o \in marked /\ scan[a].i \in 1..Len(Refs[scan[a].o])
        BY <3>2, StartsChunkHeap
      <3>4. scan[a].o \in Objects /\ scan[a].i \in 1..(Len(Refs[scan[a].o]) + 1)
        BY SMT, <3>3, HeapKnown DEF HeapTypes
      <3> QED
        BY <3>1, <3>3, <3>4, ScansFromGrows
    <2>2. CASE Look(a)
      <3>1. /\ pc[a] = "scan" /\ UNCHANGED <<ptrs, chunks>>
            /\ (NextRef(a) /\ UNCHANGED pc) \/ (Goto(a, "claim") /\ UNCHANGED scan)
        BY <2>2 DEF Look
      <3> USE <3>1
      <3>2. \A c \in Threads : c # a => scan'[c] = scan[c]
        BY NextRefFacts
      <3>3. pc'[a] \in {"scan", "claim"}
        BY DEF Goto
      <3> QED
        BY <3>2, <3>3
    <2>3. CASE Claim(a)
      <3>1. /\ pc'[a] = "scan" /\ NextRef(a) /\ UNCHANGED <<chunks, done>>
            /\ ptrs' \in [Threads -> Seq(Objects)] /\ \A c \in Threads : c # a => ptrs'[c] = ptrs[c]
            /\ \A y : In(ptrs[a], y) => In(ptrs'[a], y)
        BY <2>3, ClaimFacts
      <3> USE <3>1
      <3>2. ptrs[a] # <<>> => ptrs'[a] # <<>>
        <4>1. ptrs[a] \in Seq(Objects) /\ ptrs'[a] \in Seq(Objects)
          BY DEF HeapTypes
        <4> QED
          BY <4>1, NonEmpty
      <3> QED
        BY <3>2, NextRefFacts
    <2>4. CASE Scanned(a)
      <3>1. /\ pc'[a] = "pop_ptr" /\ UNCHANGED ptrs /\ scan'[a] = Idle /\ \A c \in Threads : c # a => scan'[c] = scan[c]
            /\ chunks' \in [Threads -> Seq(Objects \X Nat)] /\ \A c \in Threads : c # a => chunks'[c] = chunks[c]
            /\ \A y : In(chunks[a], y) => In(chunks'[a], y)
        BY <2>4, ScannedFacts
      <3> USE <3>1
      <3>2. chunks[a] # <<>> => chunks'[a] # <<>>
        <4>1. chunks[a] \in Seq(Objects \X Nat) /\ chunks'[a] \in Seq(Objects \X Nat)
          BY DEF HeapTypes
        <4> QED
          BY <4>1, NonEmpty
      <3> QED
        BY <3>2
    <2> QED
      BY <2>1, <2>2, <2>3, <2>4
  <1> USE <1>3
  <1>4. WalkAt(a)'
    <2>1. pos'[a] = 1 /\ try'[a] = Null /\ pc'[a] \notin {"steal", "dec"} /\ pc'[a] # "pop_chunk"
          /\ (pc'[a] \notin {"mark_chunk", "scan", "claim"} => scan'[a] = Idle)
      OBVIOUS
    <2> QED
      BY <2>1, NotWalking
  <1>5. \A c \in Threads : c # a => Other(c)
    BY GrowOthers
  <1> QED
    BY <1>4, <1>5 DEF Walks

\* Who marks goes on marking.
LEMMA MarkingStays ==
    ASSUME LoopInv, NEW a \in Threads, MarkMove(a), tid # Null, NEW b \in Threads, Marking(b)
    PROVE  Marking(b)'
  <1>1. MarkLabels \subseteq LoopLabels /\ "dec" \in LoopLabels
    BY DEF LoopLabels
  <1>2. CASE b # a
    BY <1>2 DEF Marking, MarkMove, Moves
  <1>3. CASE b = a
    BY <1>1, <1>3 DEF Marking, MarkMove
  <1> QED
    BY <1>2, <1>3

\* Who tries for nothing new visits what it was to visit.
LEMMA VisitorStays ==
    ASSUME NEW c \in Threads, NEW q \in Queues, Visitor(c, q), pc'[c] = pc[c], tid' = tid, Walk(c)' = Walk(c),
           pos'[c] = pos[c], try'[c] = try[c]
    PROVE  Visitor(c, q)'
  BY DEF Visitor, Marking

\* A thread in the loop that is not walking will visit every queue.
LEMMA VisitsAll ==
    ASSUME NEW a \in Threads, NEW q \in Queues, pc'[a] \in MarkLabels \ {"steal"}, tid' # Null
    PROVE  Visitor(a, q)'
  <1>1. pc'[a] \in LoopLabels /\ pc'[a] # "dec" /\ pc'[a] # "steal"
    BY DEF LoopLabels, MarkLabels
  <1> QED
    BY <1>1 DEF Visitor, Marking

\* a step that takes nothing, by a thread that looked at what it leaves.
LEMMA QuietWork ==
    ASSUME LoopInv, Attended, tid # Null, NEW a \in Threads, MarkMove(a), Threads' = Threads,
           UNCHANGED <<ptrs, chunks>>, \A c \in Threads : Walk(c)' = Walk(c),
           \A c \in Threads : c # a => pos'[c] = pos[c] /\ try'[c] = try[c],
           \A q \in Queues : Queue(q) # <<>> /\ Visitor(a, q) => Visitor(a, q)' \/ Marking(q[2])
    PROVE  Attended'
  <1>1. Queues' = Queues /\ tid' = tid
    BY DEF Queues, MarkMove
  <1> SUFFICES ASSUME NEW q \in Queues, Queue(q)' # <<>>
               PROVE  Marking(q[2])' \/ \E b \in Threads : Visitor(b, q)'
    BY <1>1 DEF Attended
  <1>2. Queue(q) # <<>> /\ q[2] \in Threads
    BY DEF Queue, Queues
  <1>3. Marking(q[2]) => Marking(q[2])'
    BY <1>2, MarkingStays
  <1>4. \A b \in Threads : b # a /\ Visitor(b, q) => Visitor(b, q)'
    <2> SUFFICES ASSUME NEW b \in Threads, b # a, Visitor(b, q) PROVE Visitor(b, q)'
      OBVIOUS
    <2>1. pc'[b] = pc[b] /\ Walk(b)' = Walk(b) /\ pos'[b] = pos[b] /\ try'[b] = try[b]
      BY DEF MarkMove, Moves
    <2> QED
      BY <1>1, <2>1, VisitorStays
  <1> QED
    BY <1>2, <1>3, <1>4 DEF Attended

\* A queue with work that a thread passes over is one whose owner is still in the loop.
LEMMA StealLookWork ==
    ASSUME LoopInv, WalkInv, NEW a \in Threads, StealLook(a), Walk(a)' = Walk(a), tid # Null, tid' = tid,
           NEW q \in Queues, Queue(q) # <<>>, Visitor(a, q)
    PROVE  Visitor(a, q)' \/ Marking(q[2])
  <1>1. /\ pos \in [Threads -> Nat] /\ try \in [Threads -> Queues \cup {Null, Lost}] /\ Len(Walk(a)) \in Nat
        /\ Null # Lost /\ ThreadsOK /\ TidOK /\ \A u \in Queues : u # Null /\ u # Lost
    BY WalkBase
  <1> USE <1>1
  <1>2. /\ pc[a] = "steal" /\ try[a] = Null /\ pos[a] <= Len(Walk(a)) /\ pc' = pc
        /\ LET u == Walk(a)[pos[a]]
           IN  IF Queue(u) = <<>> \/ dip[u[2]] = u[1]
               THEN pos' = [pos EXCEPT ![a] = @ + 1] /\ try' = try
               ELSE try' = [try EXCEPT ![a] = u] /\ pos' = pos
    BY DEF StealLook
  <1> USE <1>2
  <1>3. PICK k \in pos[a]..Len(Walk(a)) : Walk(a)[k] = q /\ (try[a] = Lost => k # pos[a])
    BY DEF Visitor
  <1> USE <1>3
  <1>4. Marking(a) /\ Marking(a)' /\ pc'[a] = "steal"
    BY DEF Visitor, Marking
  <1>5. pos[a] \in Nat /\ k \in Nat /\ k <= Len(Walk(a)) /\ pos[a] <= k
    BY SMT
  <1> DEFINE u == Walk(a)[pos[a]]
  <1>6. CASE Queue(u) = <<>> \/ dip[u[2]] = u[1]
    <2>1. pos'[a] = pos[a] + 1 /\ try'[a] = Null
      BY <1>6
    <2>2. CASE k = pos[a]
      <3>1. dip[q[2]] = q[1] /\ q[1] # "" /\ q[2] \in Threads
        BY <1>6, <2>2 DEF Queues
      <3>2. pc[q[2]] \in {"pop_chunk", "mark_chunk", "steal", "scan"}
        BY <3>1 DEF LoopInv, Dips
      <3>3. pc[q[2]] \in LoopLabels
        BY <3>2 DEF LoopLabels, MarkLabels
      <3> QED
        BY <3>3 DEF Marking
    <2>3. CASE k # pos[a]
      <3>1. k \in (pos[a] + 1)..Len(Walk(a))
        BY SMT, <1>5, <2>3
      <3> QED
        BY <1>4, <2>1, <3>1 DEF Visitor
    <2> QED
      BY <2>2, <2>3
  <1>7. CASE ~(Queue(u) = <<>> \/ dip[u[2]] = u[1])
    <2>1. pos' = pos /\ try'[a] = u
      BY <1>7
    <2>2. pos[a] \in 1..Len(Walk(a))
      BY SMT, <1>5 DEF WalkInv, WalkAt
    <2>3. u \in Queues
      BY <2>2, WalkFacts
    <2>4. try'[a] # Lost
      BY <2>1, <2>3
    <2> QED
      BY <1>4, <2>1, <2>4 DEF Visitor
  <1> QED
    BY <1>6, <1>7

\* After a lost attempt the thread has the same queues to visit, without the one it lost at.
LEMMA StealLostWork ==
    ASSUME LoopInv, WalkInv, NEW a \in Threads, StealLost(a), Walk(a)' = Walk(a), tid' = tid,
           NEW q \in Queues, Visitor(a, q)
    PROVE  Visitor(a, q)'
  <1>1. /\ pos \in [Threads -> Nat] /\ try \in [Threads -> Queues \cup {Null, Lost}] /\ Len(Walk(a)) \in Nat
        /\ Null # Lost
    BY WalkBase
  <1> USE <1>1
  <1>2. pc[a] = "steal" /\ pc' = pc /\ try[a] = Lost
        /\ try' = [try EXCEPT ![a] = Null] /\ pos' = [pos EXCEPT ![a] = pos[a] + 1]
    BY StealLostWalk DEF StealLost
  <1> USE <1>2
  <1>3. PICK k \in pos[a]..Len(Walk(a)) : Walk(a)[k] = q /\ (try[a] = Lost => k # pos[a])
    BY DEF Visitor
  <1> USE <1>3
  <1>4. k # pos[a] /\ pos'[a] = pos[a] + 1 /\ try'[a] = Null
    OBVIOUS
  <1>5. k \in (pos[a] + 1)..Len(Walk(a))
    BY SMT, <1>4
  <1>6. Marking(a)' /\ pc'[a] = "steal"
    BY DEF Visitor, Marking
  <1> QED
    BY <1>4, <1>5, <1>6 DEF Visitor

\* Whoever is not in the mark loop scans nothing.
LEMMA ScansNothing ==
    ASSUME WalkInv, NEW a \in Threads, pc[a] \notin {"mark_chunk", "scan", "claim"}
    PROVE  scan[a] = Idle
  BY DEF WalkInv, WalkAt

\* One thread goes from a label to another.
LEMMA GotoIdles ==
    ASSUME LoopInv, NEW a \in Threads, NEW l, Goto(a, l), UNCHANGED <<heap, tid>>, GCThreads' = GCThreads,
           pc[a] \notin HeapLabels, l \notin HeapLabels \cup {"dec"},
           a = Initiator => /\ pc[a] \notin {"mutator", "tid", "clean", "finlist"}
                            /\ l \notin {"mutator", "tid", "clean", "finlist"}
    PROVE  Idles /\ pc'[a] = l /\ \A c \in Threads : c # a => pc'[c] = pc[c]
  <1>1. pc \in [Threads -> InitiatorLabels \cup HelperLabels] /\ Initiator \in Threads
    BY Members DEF LoopInv, ThreadsOK
  <1>2. pc'[a] = l /\ \A c \in Threads : c # a => pc'[c] = pc[c]
    BY <1>1 DEF Goto
  <1>3. Threads' = Threads
    BY DEF Threads
  <1> QED
    BY <1>1, <1>2, <1>3 DEF Idles

\* A step that leaves the heap alone keeps its types and bounds,
LEMMA IdleHeap ==
    ASSUME HeapTypes, Bounds, Idles
    PROVE  HeapTypes' /\ Bounds'
  <1>1. UNCHANGED <<marked, ptrs, chunks, scan>> /\ Threads' = Threads
    BY DEF Idles, heap
  <1>2. \A c \in Threads : pc'[c] = pc[c] \/ pc'[c] \notin {"mark_chunk", "scan", "claim"}
    BY DEF Idles, HeapLabels
  <1> QED
    BY <1>1, <1>2, QuietHeap

\* the order of every walk,
LEMMA IdleWalks ==
    ASSUME Idles
    PROVE  \A c : Walk(c)' = Walk(c)
  BY DEF Idles, Walk, GCOrder

\* and where each walk is.
LEMMA IdleWalk ==
    ASSUME LoopInv, WalkInv, Idles
    PROVE  WalkInv'
  <1>1. UNCHANGED <<ptrs, chunks, scan, pos, try>> /\ Threads' = Threads /\ Queues' = Queues
    BY DEF Idles, heap, Queues
  <1> USE <1>1
  <1>2. ASSUME NEW c \in Threads PROVE WalkAt(c)'
    <2>1. WalkAt(c) /\ Walk(c)' = Walk(c) /\ Len(Walk(c)) \in Nat
      BY IdleWalks, WalkBase
    <2> USE <2>1
    <2>2. CASE pc'[c] = pc[c]
      BY <2>2 DEF WalkAt, Queue
    <2>3. CASE pc[c] \notin HeapLabels /\ pc'[c] \notin HeapLabels \cup {"dec"}
      <3>1. pos[c] = 1 /\ try[c] = Null /\ scan[c] = Idle
        BY <2>3 DEF WalkAt, HeapLabels
      <3>2. pc'[c] \notin {"steal", "dec"} /\ pc'[c] # "pop_chunk"
        BY <2>3 DEF HeapLabels
      <3> QED
        BY <3>1, <3>2, NotWalking
    <2> QED
      BY <2>2, <2>3 DEF Idles
  <1> QED
    BY <1>2 DEF WalkInv, Lost

\* Nobody leaves the mark loop, and the initiator stays in its phase.
LEMMA IdleWork ==
    ASSUME LoopInv, WorkInv, Idles,
           \A c \in Threads : pc'[c] = pc[c] \/ pc[c] \notin LoopLabels \cup {"wake"},
           \/ pc'[Initiator] = pc[Initiator]
           \/ pc[Initiator] \in QuietPhase /\ pc'[Initiator] \in QuietPhase
           \/ pc[Initiator] \in {"observe", "count"} /\ pc'[Initiator] \in {"observe", "count", "pop_ptr"}
    PROVE  WorkInv'
  <1>1. /\ UNCHANGED <<ptrs, chunks, scan, pos, try, tid>> /\ Threads' = Threads /\ GCThreads' = GCThreads
        /\ \A c : Walk(c)' = Walk(c)
    BY IdleWalks DEF Idles, heap
  <1> USE <1>1
  <1>2. Queues' = Queues /\ \A q : Queue(q)' = Queue(q)
    BY DEF Queues, Queue
  <1>3. \A c \in Threads : Marking(c) => Marking(c)'
    BY DEF Marking
  <1>4. \A c \in Threads, q \in Queues : Visitor(c, q) => Visitor(c, q)'
    <2> SUFFICES ASSUME NEW c \in Threads, NEW q \in Queues, Visitor(c, q) PROVE Visitor(c, q)'
      OBVIOUS
    <2>1. pc'[c] = pc[c]
      BY DEF Visitor, Marking
    <2> QED
      BY <2>1, VisitorStays
  <1>5. /\ "inc" \notin QuietPhase \cup {"observe", "count", "pop_ptr"} /\ MarkLabels \cap QuietPhase = {}
        /\ {"observe", "count", "pop_ptr"} \cap (QuietPhase \cup {"barrier"}) = {} /\ {"observe", "count"} \subseteq MarkPhase
        /\ "barrier" \notin QuietPhase
    BY SMT DEF MarkLabels, MarkPhase, QuietPhase, StackPhase, PagePhase, StackLabels, PageLabels
  <1> USE <1>5
  <1>6. (tid = Initiator /\ pc[Initiator] # "inc" => Attended)'
    <2>1. pc'[Initiator] # "inc" => pc[Initiator] # "inc"
      OBVIOUS
    <2>2. \A q \in Queues : q[2] \in Threads
      BY DEF Queues
    <2> QED
      BY <1>2, <1>3, <1>4, <2>1, <2>2 DEF WorkInv, Attended
  <1>7. (pc[Initiator] \in QuietPhase \cup {"barrier"} => Empty)'
    <2>1. pc'[Initiator] \in QuietPhase \cup {"barrier"} => pc[Initiator] \in QuietPhase \cup {"barrier"}
      OBVIOUS
    <2> QED
      BY <2>1 DEF WorkInv, Empty
  <1>8. (pc[Initiator] \in MarkLabels /\ tid = Null => \A g \in GCThreads : ptrs[g] = <<>> /\ chunks[g] = <<>>)'
    <2>1. pc'[Initiator] \in MarkLabels /\ tid = Null => pc[Initiator] \in MarkLabels
      BY ThreadsDistinct DEF LoopInv, TidOK
    <2> QED
      BY <2>1 DEF WorkInv
  <1> QED
    BY <1>6, <1>7, <1>8 DEF WorkInv, Attended

\* A thread leaves the mark loop with its own queues empty.
LEMMA StopMarkingWork ==
    ASSUME LoopInv, WalkInv, WorkInv, NEW a \in Threads, StopMarking(a), Idles
    PROVE  WorkInv'
  <1>1. /\ UNCHANGED <<ptrs, chunks, scan, pos, try, tid>> /\ Threads' = Threads /\ GCThreads' = GCThreads
        /\ \A c : Walk(c)' = Walk(c)
    BY IdleWalks DEF Idles, heap
  <1> USE <1>1
  <1>2. Queues' = Queues /\ \A q : Queue(q)' = Queue(q)
    BY DEF Queues, Queue
  <1>3. pc[a] = "dec" /\ pc'[a] = "observe" /\ \A c \in Threads : c # a => pc'[c] = pc[c]
    BY DEF StopMarking, Step, Goto, LoopInv, ThreadsOK
  <1> USE <1>3
  <1>4. /\ "inc" # "dec" /\ "observe" \notin QuietPhase \cup {"barrier"} \cup MarkLabels
    BY SMT DEF MarkLabels, MarkPhase, QuietPhase, StackPhase, PagePhase, StackLabels, PageLabels
  <1>5. \A c \in Threads : c # a /\ Marking(c) => Marking(c)'
    BY DEF Marking
  <1>6. \A c \in Threads, q \in Queues : Visitor(c, q) => Visitor(c, q)'
    <2> SUFFICES ASSUME NEW c \in Threads, NEW q \in Queues, Visitor(c, q) PROVE Visitor(c, q)'
      OBVIOUS
    <2>1. pc'[c] = pc[c]
      BY DEF Visitor
    <2> QED
      BY <2>1, VisitorStays
  <1>7. ptrs[a] = <<>> /\ chunks[a] = <<>>
    BY DEF WalkInv, WalkAt
  <1>8. \A q \in Queues : Queue(q) # <<>> => q[2] \in Threads /\ q[2] # a
    <2>1. \A q \in Queues : q[2] \in Threads
      BY DEF Queues
    <2> QED
      BY <1>7, <2>1 DEF Queue
  <1>9. Initiator \in Threads
    BY Members DEF LoopInv
  <1>10. (tid = Initiator /\ pc[Initiator] # "inc" => Attended)'
    <2>1. pc'[Initiator] # "inc" => pc[Initiator] # "inc"
      BY <1>4, <1>9
    <2> QED
      BY <1>2, <1>5, <1>6, <1>8, <2>1 DEF WorkInv, Attended
  <1>11. pc'[Initiator] \in QuietPhase \cup {"barrier"} \cup MarkLabels => pc'[Initiator] = pc[Initiator]
    BY <1>4, <1>9
  <1> QED
    BY <1>10, <1>11 DEF WorkInv, Attended, Empty

\* Nothing is queued, and nobody marks.
LEMMA EmptyWork ==
    ASSUME ThreadsOK', Empty', pc'[Initiator] \notin MarkLabels
    PROVE  WorkInv'
  <1>1. \A q \in Queues' : Queue(q)' = <<>>
    <2>1. \A q \in Queues' : q[2] \in Threads'
      BY DEF Queues
    <2> QED
      BY <2>1 DEF Empty, Queue
  <1> QED
    BY <1>1 DEF WorkInv

\* The initiator will look at every queue.
LEMMA StartMarkingWork ==
    ASSUME LoopInv, StartMarking
    PROVE  Idles /\ WorkInv'
  <1>1. /\ pc[Initiator] = "inc" /\ Goto(Initiator, "wake") /\ UNCHANGED <<heap, tid, stack_req>>
        /\ "inc" \in MarkPhase /\ Initiator \in Threads
    BY Members DEF StartMarking, Step, MarkPhase, LoopInv, requests
  <1> USE <1>1
  <1>2. GCThreads' = GCThreads /\ "inc" \notin HeapLabels /\ "wake" \notin HeapLabels
    BY DEF GCThreads, HeapLabels
  <1>3. Idles /\ pc'[Initiator] = "wake"
    BY <1>2, GotoIdles
  <1> USE <1>3
  <1>4. tid = Initiator /\ tid # Null
    BY ThreadsDistinct DEF LoopInv, TidOK
  <1>5. Attended'
    <2>1. \A q \in Queues' : Visitor(Initiator, q)'
      BY DEF Visitor, Marking
    <2> QED
      BY <2>1 DEF Attended, Idles
  <1>6. "wake" \notin QuietPhase \cup {"barrier"} \cup MarkLabels
    BY SMT DEF MarkLabels, QuietPhase, StackPhase, PagePhase, StackLabels, PageLabels
  <1> QED
    BY <1>5, <1>6 DEF WorkInv, Attended

\* The initiator starts or ends its mark loop: nobody is in one.
LEMMA TidSteps ==
    ASSUME LoopInv, WorkInv, HeapTypes, Bounds, WalkInv, SetTid \/ gc_mark_loop_barrier
    PROVE  HeapTypes' /\ Bounds' /\ WalkInv' /\ WorkInv'
  <1>1. /\ \/ pc[Initiator] = "tid" /\ Goto(Initiator, "inc") /\ tid' = Initiator
           \/ pc[Initiator] = "barrier" /\ Goto(Initiator, "clean") /\ tid' = Null
        /\ UNCHANGED <<heap, stack_req>>
    BY DEF SetTid, gc_mark_loop_barrier, Step, requests
  <1> USE <1>1
  <1>2. /\ Initiator \in Threads /\ pc \in [Threads -> InitiatorLabels \cup HelperLabels] /\ ThreadsOK /\ TidOK
        /\ \A c \in Threads : c = Initiator \/ c \in GCThreads
    BY Members DEF LoopInv, ThreadsOK
  <1> USE <1>2
  <1>3. /\ GCThreads' = GCThreads /\ Threads' = Threads /\ Queues' = Queues
        /\ UNCHANGED <<marked, ptrs, chunks, scan, pos, try>>
    BY DEF GCThreads, Threads, Queues, heap
  <1> USE <1>3
  <1>4. /\ pc'[Initiator] \in {"inc", "clean"} /\ pc[Initiator] \in {"tid", "barrier"}
        /\ pc'[Initiator] = "inc" => pc[Initiator] = "tid"
        /\ pc'[Initiator] = "clean" => pc[Initiator] = "barrier" /\ tid' = Null
        /\ \A c \in GCThreads : pc'[c] = pc[c]
    <2>1. \A c \in GCThreads : c \in Threads /\ c # Initiator
      BY Members
    <2> QED
      BY <2>1 DEF Goto
  <1> USE <1>4
  <1>5. \A g \in GCThreads : pc[g] \notin LoopLabels
    <2>1. pc[Initiator] = "tid" => tid = Null
      BY DEF LoopInv, TidOK
    <2> QED
      BY <2>1 DEF LoopInv, Alone
  <1>6. \A c \in Threads : pc[c] \notin LoopLabels /\ pc'[c] \notin LoopLabels
    <2>1. {"tid", "barrier", "inc", "clean"} \cap LoopLabels = {}
      BY SMT DEF LoopLabels, MarkLabels
    <2> QED
      BY <1>5, <2>1
  <1>7. HeapTypes' /\ Bounds'
    <2>1. \A c \in Threads : pc'[c] \notin {"mark_chunk", "scan", "claim"}
      BY <1>6 DEF LoopLabels, MarkLabels
    <2> QED
      BY <2>1, QuietHeap
  <1>8. WalkInv'
    <2>1. ASSUME NEW c \in Threads PROVE WalkAt(c)'
      <3>1. /\ pc[c] # "steal" /\ pc'[c] \notin {"steal", "dec"} /\ pc'[c] # "pop_chunk"
            /\ pc[c] \notin {"mark_chunk", "scan", "claim"}
        BY <1>6 DEF LoopLabels, MarkLabels
      <3>2. pos'[c] = 1 /\ try'[c] = Null /\ scan'[c] = Idle
        BY <3>1 DEF WalkInv, WalkAt
      <3>3. 1 \in 1..(Len(Walk(c)') + 1)
        <4>1. PICK z \in Threads : z = IF tid' = Null THEN c ELSE tid'
          OBVIOUS
        <4>2. Len(GCOrder) \in Nat /\ GCOrder \in Seq(GCThreads) /\ GCThreads \subseteq Threads
          BY OrderFacts, Members
        <4> DEFINE who == Append(GCOrder, z)
                   n == Len(GCOrder) + 1
        <4>3. Len(who) = n /\ n \in Nat
          BY SMT, <4>2
        <4> HIDE DEF who
        <4>4. Walk(c)' = [k \in 1..(2 * n) |-> IF k <= n THEN <<"chunk", who[k]>> ELSE <<"ptr", who[k - n]>>]
          <5>1. GCOrder' = GCOrder
            BY DEF GCOrder
          <5> QED
            BY <4>1, <4>3, <5>1 DEF Walk, who
        <4> HIDE DEF n
        <4>5. 2 * n \in Nat
          BY SMT, <4>3
        <4>6. Len(Walk(c)') = 2 * n
          BY SMT, <4>4, <4>5
        <4> QED
          BY SMT, <4>5, <4>6
      <3> QED
        BY <3>1, <3>2, <3>3 DEF WalkAt
    <2> QED
      BY <2>1 DEF WalkInv, Lost
  <1>9. WorkInv'
    <2>1. CASE pc'[Initiator] = "inc"
      <3>1. "inc" \notin QuietPhase \cup {"barrier"} \cup MarkLabels
        BY SMT DEF MarkLabels, QuietPhase, StackPhase, PagePhase, StackLabels, PageLabels
      <3> QED
        BY <2>1, <3>1 DEF WorkInv
    <2>2. CASE pc'[Initiator] = "clean"
      <3>1. "clean" \notin MarkLabels
        BY SMT DEF MarkLabels
      <3>2. Empty
        BY <2>2 DEF WorkInv
      <3>3. Empty'
        BY <3>2 DEF Empty
      <3>4. tid' # Initiator
        BY <2>2, ThreadsDistinct
      <3> QED
        BY <2>2, <3>1, <3>3, <3>4 DEF WorkInv
    <2> QED
      BY <2>1, <2>2
  <1> QED
    BY <1>7, <1>8, <1>9

\* The initiator goes on by itself: nobody is in the mark loop.
LEMMA QuietStep ==
    ASSUME LoopInv, WalkInv, NEW l, Goto(Initiator, l), pc[Initiator] \in QuietPhase,
           l \notin HeapLabels \cup {"dec"}, UNCHANGED <<tid, stack_req, pos, try, scan>>
    PROVE  /\ WalkInv' /\ Threads' = Threads /\ GCThreads' = GCThreads /\ Queues' = Queues /\ pc'[Initiator] = l
           /\ tid = Null /\ Initiator \in Threads
           /\ \A c \in Threads : /\ pc[c] \notin LoopLabels /\ pc'[c] \notin HeapLabels \cup {"dec"}
                                 /\ c # Initiator => pc'[c] = pc[c]
  <1>1. /\ Initiator \in Threads /\ pc \in [Threads -> InitiatorLabels \cup HelperLabels] /\ tid = Null
        /\ \A c \in Threads : c = Initiator \/ c \in GCThreads
    BY Members DEF LoopInv, ThreadsOK, TidOK
  <1> USE <1>1
  <1>2. Threads' = Threads /\ GCThreads' = GCThreads /\ Queues' = Queues
    BY DEF Threads, GCThreads, Queues
  <1>3. pc'[Initiator] = l /\ \A c \in Threads : c # Initiator => pc'[c] = pc[c]
    BY DEF Goto
  <1>4. \A c \in Threads : pc[c] \notin LoopLabels
    <2>1. QuietPhase \cap LoopLabels = {}
      BY SMT DEF LoopLabels, MarkLabels, QuietPhase, StackPhase, PagePhase, StackLabels, PageLabels
    <2> QED
      BY <2>1 DEF LoopInv, Alone
  <1> USE <1>4
  <1>5. \A c \in Threads : pc'[c] \notin HeapLabels \cup {"dec"}
    <2>1. HeapLabels \cup {"dec"} \subseteq LoopLabels
      BY SMT DEF LoopLabels, MarkLabels, HeapLabels
    <2> QED
      BY <1>3, <2>1
  <1>6. ASSUME NEW c \in Threads PROVE WalkAt(c)'
    <2>1. pc[c] # "steal" /\ pc'[c] \notin {"steal", "dec"} /\ pc'[c] # "pop_chunk"
          /\ pc[c] \notin {"mark_chunk", "scan", "claim"}
      BY <1>5 DEF LoopLabels, MarkLabels, HeapLabels
    <2>2. pos'[c] = 1 /\ try'[c] = Null /\ scan'[c] = Idle
      BY <2>1 DEF WalkInv, WalkAt
    <2>3. Walk(c)' = Walk(c) /\ Len(Walk(c)) \in Nat
      BY WalkSame, WalkBase
    <2> QED
      BY <2>1, <2>2, <2>3, NotWalking
  <1>7. WalkInv'
    BY <1>2, <1>6 DEF WalkInv, Lost
  <1> QED
    BY <1>2, <1>3, <1>5, <1>7

\* Then what is queued is what it queues.
LEMMA QuietBounds ==
    ASSUME Threads' = Threads, \A c \in Threads : pc'[c] \notin HeapLabels \cup {"dec"},
           \A c \in Threads : chunks'[c] = <<>>,
           \A c \in Threads, o \in Objects : In(ptrs'[c], o) => o \in marked'
    PROVE  Bounds'
  <1>1. \A c \in Threads : pc'[c] \notin {"mark_chunk", "scan", "claim"}
    BY DEF HeapLabels
  <1>2. \A x : ~In(<<>>, x)
    BY SMT DEF In
  <1>3. \A c \in Threads : QueueOK(c)'
    BY <1>2 DEF QueueOK
  <1>4. \A c \in Threads : ScanOK(c)'
    BY <1>1 DEF ScanOK, Scanning
  <1> QED
    BY <1>3, <1>4 DEF Bounds

\* The roots are what the threads have queued at first.
LEMMA RootFacts ==
    ASSUME ThreadsOK
    PROVE  /\ \A o : o \in RootSet <=> \E c \in Threads : \E k \in DOMAIN Roots[c] : o = Roots[c][k]
           /\ \A o : o \in RootSet <=> \E c \in Threads : In(Roots[c], o)
           /\ \A c \in Threads : Roots[c] \in Seq(Objects)
           /\ RootSet \subseteq Objects
  <1>1. \A o : o \in RootSet <=> \E c \in Threads : \E k \in DOMAIN Roots[c] : o = Roots[c][k]
    BY SMT DEF RootSet
  <1> USE <1>1
  <1>2. \A c \in Threads : Roots[c] \in Seq(Objects)
    BY HeapKnown, Members
  <1>3. \A c \in Threads : /\ \A k \in DOMAIN Roots[c] : Roots[c][k] \in Objects
                           /\ DOMAIN Roots[c] = 1..Len(Roots[c])
    BY SMT, <1>2
  <1>5. \A o : o \in RootSet <=> \E c \in Threads : In(Roots[c], o)
    <2> TAKE o
    <2>1. o \in RootSet <=> \E c \in Threads : \E k \in DOMAIN Roots[c] : o = Roots[c][k]
      OBVIOUS
    <2>2. ASSUME NEW c \in Threads
          PROVE  In(Roots[c], o) <=> \E k \in DOMAIN Roots[c] : o = Roots[c][k]
      <3>1. DOMAIN Roots[c] = 1..Len(Roots[c])
        BY <1>3
      <3>2. In(Roots[c], o) <=> \E k \in DOMAIN Roots[c] : Roots[c][k] = o
        BY <3>1 DEF In
      <3> QED
        BY <3>2
    <2> QED
      BY <2>1, <2>2
  <1>6. RootSet \subseteq Objects
    <2> SUFFICES ASSUME NEW o \in RootSet PROVE o \in Objects
      BY SMT
    <2>1. PICK c \in Threads : \E k \in DOMAIN Roots[c] : o = Roots[c][k]
      OBVIOUS
    <2> QED
      BY <1>3, <2>1
  <1> QED
    BY <1>2, <1>5, <1>6

\* The start of a collection finds and leaves the queues consistent,
LEMMA CollectHeap ==
    ASSUME LoopInv, HeapTypes, WalkInv, WorkInv, Collect
    PROVE  HeapTypes' /\ Bounds' /\ WalkInv' /\ WorkInv'
  <1>1. /\ pc[Initiator] = "mutator" /\ Goto(Initiator, "tid") /\ UNCHANGED <<tid, stack_req, pos, try, scan, chunks>>
        /\ marked' = RootSet /\ ptrs' = [t \in Threads |-> Roots[t]]
    BY DEF Collect, Step, marking, requests, RootSet
  <1> USE <1>1
  <1>2. /\ "mutator" \in QuietPhase /\ "tid" \notin HeapLabels \cup {"dec"} /\ "tid" \notin MarkLabels \cup QuietPhase \cup {"barrier"}
    BY SMT DEF MarkLabels, QuietPhase, HeapLabels, StackPhase, PagePhase, StackLabels, PageLabels
  <1> USE <1>2
  <1>3. /\ WalkInv' /\ Threads' = Threads /\ pc'[Initiator] = "tid" /\ tid = Null
        /\ \A c \in Threads : pc'[c] \notin HeapLabels \cup {"dec"}
    BY QuietStep
  <1> USE <1>3
  <1>4. /\ \A c \in Threads : Roots[c] \in Seq(Objects)
        /\ RootSet \subseteq Objects /\ \A o : o \in RootSet <=> \E c \in Threads : In(Roots[c], o)
    BY RootFacts DEF LoopInv
  <1>6. HeapTypes'
    BY <1>4 DEF HeapTypes
  <1>7. \A c \in Threads, o \in Objects : In(ptrs'[c], o) => o \in marked'
    BY <1>4
  <1>8. \A c \in Threads : chunks'[c] = <<>>
    BY DEF WorkInv, Empty
  <1>9. Bounds'
    BY <1>7, <1>8, QuietBounds
  <1>10. WorkInv'
    BY ThreadsDistinct DEF WorkInv
  <1> QED
    BY <1>6, <1>9, <1>10

\* so does the reclaiming of the old buffers,
LEMMA CleanHeap ==
    ASSUME LoopInv, HeapTypes, WalkInv, WorkInv, gc_mark_clean_reclaim_sets
    PROVE  HeapTypes' /\ Bounds' /\ WalkInv' /\ WorkInv'
  <1>1. /\ pc[Initiator] = "clean" /\ Goto(Initiator, "finlist")
        /\ UNCHANGED <<tid, stack_req, pos, try, scan, marked>> /\ ptrs' = Each(<<>>) /\ chunks' = Each(<<>>)
    BY DEF gc_mark_clean_reclaim_sets, Step, marking, requests
  <1> USE <1>1
  <1>2. /\ "clean" \in QuietPhase /\ "finlist" \notin HeapLabels \cup {"dec"} /\ "finlist" \notin MarkLabels
    BY SMT DEF MarkLabels, QuietPhase, HeapLabels
  <1> USE <1>2
  <1>3. /\ WalkInv' /\ Threads' = Threads /\ pc'[Initiator] = "finlist" /\ tid = Null
        /\ \A c \in Threads : pc'[c] \notin HeapLabels \cup {"dec"}
    BY QuietStep
  <1> USE <1>3
  <1>4. <<>> \in Seq(Objects) /\ <<>> \in Seq(Objects \X Nat) /\ \A x : ~In(<<>>, x)
    BY SMT DEF In
  <1>5. \A c \in Threads : ptrs'[c] = <<>> /\ chunks'[c] = <<>>
    BY DEF Each
  <1>6. HeapTypes'
    BY <1>4 DEF HeapTypes, Each
  <1>7. Bounds'
    BY <1>4, <1>5, QuietBounds
  <1>8. Empty'
    BY <1>5 DEF WorkInv, Empty
  <1>9. WorkInv'
    BY <1>8, ThreadsDistinct DEF WorkInv
  <1> QED
    BY <1>6, <1>7, <1>9

\* the flush of the finalizer list, which pushes the one object it keeps,
LEMMA FinlistHeap ==
    ASSUME LoopInv, HeapTypes, WalkInv, WorkInv, gc_mark_finlist
    PROVE  /\ HeapTypes' /\ Bounds' /\ WalkInv' /\ WorkInv' /\ Empty /\ \A c \in Threads : chunks'[c] = <<>>
           /\ \A c \in Threads : c # Initiator => ptrs'[c] = <<>>
           /\ \A x : In(ptrs'[Initiator], x) <=> Finalized \notin marked /\ x = Finalized
  <1> DEFINE s == IF Finalized \in marked THEN <<>> ELSE <<Finalized>>
  <1>1. /\ pc[Initiator] = "finlist" /\ Goto(Initiator, "pop_ptr")
        /\ UNCHANGED <<tid, stack_req, pos, try, scan, chunks>> /\ marked' = marked \cup {Finalized}
        /\ ptrs' = [ptrs EXCEPT ![Initiator] = s]
    BY DEF gc_mark_finlist, Step, marking, requests
  <1> USE <1>1
  <1>2. /\ "finlist" \in QuietPhase /\ "pop_ptr" \notin HeapLabels \cup {"dec"} /\ "pop_ptr" \notin QuietPhase \cup {"barrier"}
    BY SMT DEF MarkLabels, QuietPhase, HeapLabels, StackPhase, PagePhase, StackLabels, PageLabels
  <1> USE <1>2
  <1>3. /\ WalkInv' /\ Threads' = Threads /\ GCThreads' = GCThreads /\ pc'[Initiator] = "pop_ptr" /\ tid = Null
        /\ Initiator \in Threads /\ \A c \in Threads : pc'[c] \notin HeapLabels \cup {"dec"}
    BY QuietStep
  <1> USE <1>3
  <1>4. Finalized \in Objects
    BY HeapKnown
  <1>5. s \in Seq(Objects) /\ \A x : In(s, x) <=> Finalized \notin marked /\ x = Finalized
    BY SMT, <1>4 DEF In
  <1> USE <1>5
  <1> HIDE DEF s
  <1>6. Empty
    BY DEF WorkInv
  <1>7. ptrs'[Initiator] = s /\ \A c \in Threads : chunks'[c] = <<>> /\ (c # Initiator => ptrs'[c] = <<>>)
    BY <1>6 DEF HeapTypes, Empty
  <1> USE <1>7
  <1>8. HeapTypes'
    BY <1>4 DEF HeapTypes
  <1>9. \A x : ~In(<<>>, x)
    BY SMT DEF In
  <1>10. \A c \in Threads, o \in Objects : In(ptrs'[c], o) => o \in marked'
    BY <1>9
  <1>11. Bounds'
    BY <1>10, QuietBounds
  <1>12. \A g \in GCThreads : g \in Threads /\ g # Initiator
    BY Members DEF LoopInv
  <1>13. WorkInv'
    BY <1>12, ThreadsDistinct DEF WorkInv
  <1> QED
    BY <1>6, <1>8, <1>11, <1>13

\* and the end of a collection.
LEMMA MergeHeap ==
    ASSUME LoopInv, HeapTypes, WalkInv, WorkInv, Merge
    PROVE  HeapTypes' /\ Bounds' /\ WalkInv' /\ WorkInv' /\ pc'[Initiator] = "mutator"
  <1>1. /\ pc[Initiator] = "merge" /\ Goto(Initiator, "mutator")
        /\ UNCHANGED <<tid, stack_req, pos, try, scan, ptrs, chunks>> /\ marked' = {}
    BY DEF Merge, Step, marking, requests
  <1> USE <1>1
  <1>2. "merge" \in QuietPhase /\ "mutator" \notin HeapLabels \cup {"dec"} /\ "mutator" \notin MarkLabels
    BY SMT DEF MarkLabels, QuietPhase, HeapLabels
  <1> USE <1>2
  <1>3. /\ WalkInv' /\ Threads' = Threads /\ pc'[Initiator] = "mutator" /\ tid = Null
        /\ \A c \in Threads : pc'[c] \notin HeapLabels \cup {"dec"}
    BY QuietStep
  <1> USE <1>3
  <1>4. Empty
    BY DEF WorkInv
  <1>5. \A c \in Threads : ptrs'[c] = <<>> /\ chunks'[c] = <<>>
    BY <1>4 DEF Empty
  <1>6. \A x : ~In(<<>>, x)
    BY SMT DEF In
  <1>7. HeapTypes'
    BY DEF HeapTypes
  <1>8. Bounds'
    BY <1>5, <1>6, QuietBounds
  <1>9. Empty'
    BY <1>4 DEF Empty
  <1>10. WorkInv'
    BY <1>9, ThreadsDistinct DEF WorkInv
  <1> QED
    BY <1>7, <1>8, <1>10

\* A step of the sweeps leaves the heap alone and happens with no work about.
LEMMA SweepIdles ==
    ASSUME LoopInv, WorkInv, NEW a \in Threads, NEW l, Moves(a), Goto(a, l), UNCHANGED <<heap, tid>>,
           pc[a] \in SweepPhase \cup {"check", "sleep", "stacks", "pages"},
           l \in SweepPhase \cup {"check", "sleep", "asleep", "observe", "stacks", "pages"},
           a = Initiator => l # "observe"
    PROVE  Idles /\ WorkInv'
  <1>1. \A k \in SweepPhase \cup {"check", "sleep", "asleep", "observe", "stacks", "pages"} :
           k \notin HeapLabels \cup {"dec"} /\ k \notin LoopLabels \cup {"wake"} /\ k \notin {"mutator", "tid", "clean", "finlist"}
    BY SMT DEF SweepPhase, HeapLabels, LoopLabels, MarkLabels, QuietPhase, StackPhase, PagePhase, StackLabels,
         PageLabels
  <1>2. pc'[a] = l
    BY DEF Goto, LoopInv, ThreadsOK
  <1>3. Idles /\ \A c \in Threads : c # a => pc'[c] = pc[c]
    BY <1>1, GotoIdles DEF Moves
  <1> USE <1>3
  <1>4. \/ pc'[Initiator] = pc[Initiator]
        \/ pc[Initiator] \in QuietPhase /\ pc'[Initiator] \in QuietPhase
    <2>1. CASE a = Initiator
      <3>1. pc[a] \in InitiatorLabels /\ pc'[a] \in InitiatorLabels
        BY <2>1 DEF LoopInv, ThreadsOK, Moves
      <3>2. \A k \in {"check", "sleep", "asleep", "stacks", "pages"} : k \notin InitiatorLabels
        BY SMT DEF InitiatorLabels, MarkLabels, MarkPhase, QuietPhase, StackPhase, StackLabels, PagePhase, PageLabels
      <3> QED
        BY <1>2, <2>1, <3>1, <3>2 DEF SweepPhase
    <2>2. CASE a # Initiator
      BY <2>2, Members DEF LoopInv
    <2> QED
      BY <2>1, <2>2
  <1>5. \A c \in Threads : pc'[c] = pc[c] \/ pc[c] \notin LoopLabels \cup {"wake"}
    BY <1>1
  <1> QED
    BY <1>4, <1>5, IdleWork

\* The labels of the sweeps.
LEMMA SweepLabels ==
    /\ StackLabels \cup PageLabels \cup {"stack_start", "stack_wake", "stack_wait_idx", "stack_wait_n", "page_start", "page_wake",
                                         "page_null", "page_wait", "merge"} \subseteq SweepPhase
    /\ "stack_in" \in StackLabels /\ "stack_take" \in StackLabels /\ "stack_sweep" \in StackLabels /\ "stack_out" \in StackLabels
    /\ "page_in" \in PageLabels /\ "page_load" \in PageLabels /\ "page_take" \in PageLabels /\ "page_sweep" \in PageLabels
    /\ "page_out" \in PageLabels /\ "observe" \notin SweepPhase
  BY SMT DEF SweepPhase, QuietPhase, StackPhase, PagePhase, StackLabels, PageLabels

(* Marking.  What can be reached: the least closed set.                      *)
LEMMA RefsKnown ==
    ASSUME NEW o \in Objects
    PROVE  /\ Refs[o] \in Seq(Objects) /\ Len(Refs[o]) \in Nat /\ DOMAIN Refs[o] = 1..Len(Refs[o])
           /\ \A k \in 1..Len(Refs[o]) : k \in Nat /\ k <= Len(Refs[o]) /\ Refs[o][k] \in Objects
  <1>1. Refs[o] \in Seq(Objects)
    BY HeapKnown
  <1> QED
    BY SMT, <1>1

\* What is reachable from S contains S, is closed under references and is made of objects,
LEMMA ReachFacts ==
    ASSUME NEW S \in SUBSET Objects
    PROVE  S \subseteq Reach(S) /\ Closed(Reach(S)) /\ Reach(S) \subseteq Objects
  <1>1. ASSUME NEW o \in Reach(S), NEW k \in DOMAIN Refs[o] PROVE Refs[o][k] \in Reach(S)
    <2>1. o \in Objects /\ \A C \in SUBSET Objects : S \subseteq C /\ Closed(C) => o \in C
      BY <1>1 DEF Reach
    <2>2. Refs[o][k] \in Objects
      BY <1>1, <2>1, RefsKnown
    <2>3. \A C \in SUBSET Objects : S \subseteq C /\ Closed(C) => Refs[o][k] \in C
      BY <1>1, <2>1 DEF Closed
    <2> QED
      BY <2>2, <2>3 DEF Reach
  <1>2. S \subseteq Reach(S) /\ Reach(S) \subseteq Objects
    BY DEF Reach
  <1> QED
    BY <1>1, <1>2 DEF Closed

\* is the least such set,
LEMMA ReachLeast ==
    ASSUME NEW S \in SUBSET Objects, NEW C \in SUBSET Objects, S \subseteq C, Closed(C)
    PROVE  Reach(S) \subseteq C
  BY DEF Reach

\* and grows with S.
LEMMA ReachGrows ==
    ASSUME NEW S \in SUBSET Objects, NEW T \in SUBSET Objects, S \subseteq T
    PROVE  Reach(S) \subseteq Reach(T)
  <1>1. T \subseteq Reach(T) /\ Closed(Reach(T)) /\ Reach(T) \in SUBSET Objects
    BY ReachFacts
  <1> QED
    BY <1>1, ReachLeast

(* How each kind of step moves the references that are still to be followed. *)
\* A thread that does nothing.
LEMMA ScansSame ==
    ASSUME NEW c \in Threads, NEW o \in Objects, NEW k \in Nat, pc'[c] = pc[c], scan'[c] = scan[c]
    PROVE  Scans(c, o, k)' <=> Scans(c, o, k)
  BY DEF Scans, Scanning

\* A thread that scans nothing.
LEMMA ScansNone ==
    ASSUME NEW c \in Threads, NEW o \in Objects, NEW k \in Nat
    PROVE  /\ pc[c] \notin {"mark_chunk", "scan", "claim"} => ~Scans(c, o, k)
           /\ pc'[c] \notin {"mark_chunk", "scan", "claim"} => ~Scans(c, o, k)'
  BY DEF Scans, Scanning

\* A queue of chunks that stays as it is holds the same references.
LEMMA ChunkedSame ==
    ASSUME NEW c \in Threads, NEW o \in Objects, NEW k \in Nat, chunks'[c] = chunks[c]
    PROVE  Chunked(c, o, k)' <=> Chunked(c, o, k)
  BY DEF Chunked

\* A chunk is queued.
LEMMA ChunkedPut ==
    ASSUME NEW c \in Threads, NEW x \in Objects, NEW e \in Nat \ {0}, NEW o \in Objects, NEW k \in Nat,
           \A y : In(chunks'[c], y) <=> In(chunks[c], y) \/ y = <<x, e>>
    PROVE  Chunked(c, o, k)' <=> Chunked(c, o, k) \/ (o = x /\ e <= k)
  <1>1. \A f \in 1..k : <<o, f>> = <<x, e>> <=> o = x /\ f = e
    BY SMT
  <1>2. e \in 1..k <=> e <= k
    BY SMT
  <1>3. \A f \in 1..k : In(chunks'[c], <<o, f>>) <=> In(chunks[c], <<o, f>>) \/ <<o, f>> = <<x, e>>
    OBVIOUS
  <1> QED
    BY <1>1, <1>2, <1>3 DEF Chunked

\* Pushing a chunk adds that one,
LEMMA ChunkAppend ==
    ASSUME NEW s \in Seq(Objects \X Nat), NEW p \in Objects \X Nat
    PROVE  Append(s, p) \in Seq(Objects \X Nat) /\ \A y : In(Append(s, p), y) <=> In(s, y) \/ y = p
  BY AppendPut

\* keeps the chunks distinct when it is new,
LEMMA ChunkDistinct ==
    ASSUME NEW s \in Seq(Objects \X Nat), NEW o \in Objects, NEW e \in Nat \ {0}, Distinct(s), ~In(s, <<o, e>>)
    PROVE  Distinct(Append(s, <<o, e>>))
  <1> DEFINE p == <<o, e>>
  <1>1. p \in Objects \X Nat /\ ~In(s, p)
    BY SMT
  <1> HIDE DEF p
  <1>2. Distinct(Append(s, p))
    BY <1>1, AppendPut
  <1> QED
    BY <1>2 DEF p

\* (in the form the scans use it)
LEMMA ChunkPut ==
    ASSUME NEW s \in Seq(Objects \X Nat), NEW o \in Objects, NEW e \in Nat \ {0}
    PROVE  \A y : In(Append(s, <<o, e>>), y) <=> In(s, y) \/ y = <<o, e>>
  <1> DEFINE p == <<o, e>>
  <1>1. p \in Objects \X Nat
    BY SMT
  <1> HIDE DEF p
  <1>2. \A y : In(Append(s, p), y) <=> In(s, y) \/ y = p
    BY <1>1, ChunkAppend
  <1> QED
    BY <1>2 DEF p

\* A scan that starts splits the object at one reference: the scan covers those before it,
\* and the queue those from it on.
LEMMA ScansFromExact ==
    ASSUME HeapTypes, NEW a \in Threads, NEW o \in Objects, NEW i \in 1..(Len(Refs[o]) + 1),
           ScansFrom(a, o, i), pc'[a] = "scan"
    PROVE  \E e \in Nat \ {0} : Splits(a, o, i, e)
  <1>1. PICK end \in Nat, late \in BOOLEAN :
          /\ scan'[a].o = o /\ scan'[a].i = i /\ scan'[a].end = end /\ scan'[a].late = late
          /\ i <= end + 1 /\ end <= Len(Refs[o])
          /\ \/ end = Len(Refs[o]) /\ late = FALSE /\ chunks' = chunks
             \/ end < Len(Refs[o]) /\ late = TRUE /\ chunks' = chunks
             \/ end < Len(Refs[o]) /\ late = FALSE /\ chunks' = [chunks EXCEPT ![a] = Append(chunks[a], <<o, end + 1>>)]
    BY DEF ScansFrom
  <1>2. Len(Refs[o]) \in Nat /\ i \in Nat /\ i # 0
    <2>1. Len(Refs[o]) \in Nat
      BY RefsKnown
    <2> QED
      BY SMT, <2>1
  <1>3. ASSUME NEW x \in Objects, NEW k \in Nat
        PROVE  Scans(a, x, k)' <=> x = o /\ i <= k /\ (k <= end \/ late)
    BY <1>1, <1>3 DEF Scans, Scanning
  <1>4. CASE chunks' = chunks /\ (end = Len(Refs[o]) \/ late)
    <2>1. PICK e \in Nat \ {0} : e = Len(Refs[o]) + 1
      BY SMTT(30), <1>2
    <2>2. i <= e /\ \A k \in Nat : k <= Len(Refs[o]) => (k < e /\ ~(e <= k) /\ (k <= end \/ late))
      BY SMTT(30), <1>1, <1>2, <1>4, <2>1
    <2>3. \A x \in Objects, k \in Nat : Chunked(a, x, k)' <=> Chunked(a, x, k)
      BY <1>4, ChunkedSame
    <2> QED
      BY <1>3, <1>4, <2>2, <2>3 DEF Splits
  <1>5. CASE end < Len(Refs[o]) /\ late = FALSE /\ chunks' = [chunks EXCEPT ![a] = Append(chunks[a], <<o, end + 1>>)]
    <2>1. PICK e \in Nat \ {0} : e = end + 1
      BY SMTT(30), <1>2
    <2>2. i <= e /\ e <= Len(Refs[o]) /\ (\A k \in Nat : (k <= end \/ late) <=> k < e)
      BY SMTT(30), <1>1, <1>2, <1>5, <2>1
    <2>3. <<o, e>> \in Objects \X Nat /\ chunks \in [Threads -> Seq(Objects \X Nat)] /\ chunks[a] \in Seq(Objects \X Nat)
      BY SMTT(30) DEF HeapTypes
    <2>4. chunks'[a] = Append(chunks[a], <<o, e>>)
      BY <1>5, <2>1, <2>3
    <2>5. \A y : In(chunks'[a], y) <=> In(chunks[a], y) \/ y = <<o, e>>
      <3>1. chunks[a] \in Seq(Objects \X Nat) /\ e \in Nat \ {0}
        BY <2>1, <2>3
      <3>2. \A y : In(Append(chunks[a], <<o, e>>), y) <=> In(chunks[a], y) \/ y = <<o, e>>
        BY <3>1, ChunkPut
      <3> QED
        BY <2>4, <3>2
    <2>6. \A x \in Objects, k \in Nat : Chunked(a, x, k)' <=> Chunked(a, x, k) \/ (x = o /\ e <= k)
      BY <2>5, ChunkedPut
    <2> QED
      BY <1>3, <2>2, <2>4, <2>6 DEF Splits
  <1> QED
    BY <1>1, <1>4, <1>5

\* What a step of each kind does to a reference that is still to be followed.
LEMMA TakesPtrCovers ==
    ASSUME HeapTypes, NEW a \in Threads, Moves(a), Threads' = Threads,
           NEW b \in Threads, NEW x \in Objects, TakesPtr(a, b, x),
           NEW o \in Objects, NEW k \in 1..Len(Refs[o]), Pending(o, k)
    PROVE  Pending(o, k)'
  <1>1. /\ pc[a] \notin {"mark_chunk", "scan", "claim"} /\ pc'[a] = "scan" /\ Took(ptrs[b], ptrs'[b], x)
        /\ \A c \in Threads : c # b => ptrs'[c] = ptrs[c]
        /\ ScansFrom(a, x, 1)
    BY DEF TakesPtr
  <1> USE <1>1
  <1>2. k \in Nat /\ k <= Len(Refs[o]) /\ 1 <= k
    BY SMTT(30), RefsKnown
  <1> USE <1>2
  <1>3. 1 \in 1..(Len(Refs[x]) + 1)
    BY SMT, RefsKnown
  <1>4. PICK e \in Nat \ {0} : Splits(a, x, 1, e)
    BY <1>3, ScansFromExact
  <1>5. k < e \/ e <= k
    BY SMT
  <1>6. \A c \in Threads : c # a => scan'[c] = scan[c] /\ chunks'[c] = chunks[c] /\ pc'[c] = pc[c]
    BY <1>3, ScansFromGrows DEF Moves
  <1>7. PICK c \in Threads : In(ptrs[c], o) \/ Chunked(c, o, k) \/ Scans(c, o, k)
    BY DEF Pending
  <1>8. CASE In(ptrs[c], o)
    <2>1. In(ptrs'[c], o) \/ o = x
      BY <1>8 DEF Took
    <2>2. o = x => Scans(a, o, k)' \/ Chunked(a, o, k)'
      BY <1>4, <1>5 DEF Splits
    <2> QED
      BY <2>1, <2>2 DEF Pending
  <1>9. CASE Chunked(c, o, k)
    <2>1. Chunked(c, o, k)'
      BY <1>4, <1>6, <1>9, ChunkedSame DEF Splits
    <2> QED
      BY <2>1 DEF Pending
  <1>10. CASE Scans(c, o, k)
    <2>1. Scans(c, o, k)'
      BY <1>6, <1>10, ScansSame, ScansNone
    <2> QED
      BY <2>1 DEF Pending
  <1> QED
    BY <1>7, <1>8, <1>9, <1>10

\* A reference still to be followed stays so when a chunk is taken,
LEMMA TakesChunkCovers ==
    ASSUME NEW a \in Threads, Moves(a), Threads' = Threads,
           NEW b \in Threads, NEW x \in Objects, NEW i \in Nat, TakesChunk(a, b, x, i),
           NEW o \in Objects, NEW k \in 1..Len(Refs[o]), Pending(o, k)
    PROVE  Pending(o, k)'
  <1>1. /\ pc[a] \notin {"mark_chunk", "scan", "claim"} /\ pc'[a] = "mark_chunk" /\ Took(chunks[b], chunks'[b], <<x, i>>)
        /\ UNCHANGED ptrs /\ \A c \in Threads : c # b => chunks'[c] = chunks[c]
        /\ scan'[a].o = x /\ scan'[a].i = i /\ \A c \in Threads : c # a => scan'[c] = scan[c]
    BY DEF TakesChunk
  <1> USE <1>1
  <1>2. k \in Nat
    BY SMT, RefsKnown
  <1>3. PICK c \in Threads : In(ptrs[c], o) \/ Chunked(c, o, k) \/ Scans(c, o, k)
    BY DEF Pending
  <1>4. CASE In(ptrs[c], o)
    BY <1>4 DEF Pending
  <1>5. CASE Chunked(c, o, k)
    <2>1. PICK f \in 1..k : In(chunks[c], <<o, f>>)
      BY <1>5 DEF Chunked
    <2>2. CASE In(chunks'[c], <<o, f>>)
      BY <2>1, <2>2 DEF Pending, Chunked
    <2>3. CASE ~In(chunks'[c], <<o, f>>)
      <3>1. <<o, f>> = <<x, i>>
        BY <2>1, <2>3 DEF Took
      <3>2. o = x /\ f = i /\ i <= k
        BY SMT, <1>2, <3>1
      <3>3. Scans(a, o, k)'
        BY <3>2 DEF Scans
      <3> QED
        BY <3>3 DEF Pending
    <2> QED
      BY <2>2, <2>3
  <1>6. CASE Scans(c, o, k)
    <2>1. Scans(c, o, k)'
      BY <1>2, <1>6, ScansSame, ScansNone DEF Moves
    <2> QED
      BY <2>1 DEF Pending
  <1> QED
    BY <1>3, <1>4, <1>5, <1>6

\* when a chunk is started,
LEMMA StartsChunkCovers ==
    ASSUME HeapTypes, Bounds, NEW a \in Threads, Moves(a), Threads' = Threads, StartsChunk(a),
           NEW o \in Objects, NEW k \in 1..Len(Refs[o]), Pending(o, k)
    PROVE  Pending(o, k)'
  <1>1. PICK x \in Objects, i \in Nat : x = scan[a].o /\ i = scan[a].i
    BY SMT DEF HeapTypes, Bounds, ScanOK, StartsChunk
  <1>2. /\ pc[a] = "mark_chunk" /\ pc'[a] = "scan" /\ UNCHANGED ptrs /\ ScansFrom(a, x, i)
        /\ i \in 1..Len(Refs[x])
    BY <1>1, StartsChunkHeap DEF StartsChunk
  <1> USE <1>2
  <1>3. i \in 1..(Len(Refs[x]) + 1) /\ k \in Nat /\ k <= Len(Refs[o])
    BY SMT, RefsKnown
  <1> USE <1>3
  <1>4. PICK e \in Nat \ {0} : Splits(a, x, i, e)
    BY ScansFromExact
  <1>5. k < e \/ e <= k
    BY SMT
  <1>6. \A c \in Threads : c # a => scan'[c] = scan[c] /\ chunks'[c] = chunks[c] /\ pc'[c] = pc[c]
    BY ScansFromGrows DEF Moves
  <1>7. PICK c \in Threads : In(ptrs[c], o) \/ Chunked(c, o, k) \/ Scans(c, o, k)
    BY DEF Pending
  <1>8. CASE In(ptrs[c], o)
    BY <1>8 DEF Pending
  <1>9. CASE Chunked(c, o, k)
    <2>1. Chunked(c, o, k)'
      BY <1>4, <1>6, <1>9, ChunkedSame DEF Splits
    <2> QED
      BY <2>1 DEF Pending
  <1>10. CASE Scans(c, o, k)
    <2>1. CASE c = a
      <3>1. o = x /\ i <= k
        BY <1>1, <1>10, <2>1 DEF Scans
      <3>2. Scans(a, o, k)' \/ Chunked(a, o, k)'
        BY <1>4, <1>5, <3>1 DEF Splits
      <3> QED
        BY <3>2 DEF Pending
    <2>2. CASE c # a
      <3>1. Scans(c, o, k)'
        BY <1>6, <1>10, <2>2, ScansSame
      <3> QED
        BY <3>1 DEF Pending
    <2> QED
      BY <2>1, <2>2
  <1> QED
    BY <1>7, <1>8, <1>9, <1>10

\* (looking at a reference goes on at once when its object is marked, and to the claim if not)
LEMMA LookFacts ==
    ASSUME HeapTypes, Bounds, NEW a \in Threads, Moves(a), Look(a)
    PROVE  /\ pc[a] = "scan" /\ Scanning(a) /\ scan[a].i <= scan[a].end /\ UNCHANGED <<marked, ptrs, chunks>>
           /\ done' = done \cup {<<scan[a].o, scan[a].i>>}
           /\ \A c \in Threads : c # a => scan'[c] = scan[c]
           /\ \/ ToClaim(a) \in marked /\ NextRef(a) /\ pc'[a] = "scan"
              \/ ToClaim(a) \notin marked /\ pc'[a] = "claim" /\ scan' = scan
  <1>1. /\ pc[a] = "scan" /\ scan[a].i <= scan[a].end /\ UNCHANGED <<marked, ptrs, chunks>>
        /\ done' = done \cup {<<scan[a].o, scan[a].i>>}
        /\ IF ToClaim(a) \in marked THEN NextRef(a) /\ UNCHANGED pc
                                    ELSE Goto(a, "claim") /\ UNCHANGED scan
    BY DEF Look
  <1> USE <1>1
  <1>2. CASE ToClaim(a) \in marked
    BY <1>2, NextRefFacts DEF Scanning
  <1>3. CASE ToClaim(a) \notin marked
    <2>1. a \in DOMAIN pc
      BY <1>3 DEF Moves, Goto
    <2> QED
      BY <1>3, <2>1 DEF Goto, Scanning
  <1> QED
    BY <1>2, <1>3

\* The next reference: the scan still has what it had, but the one at hand.
LEMMA NextRefScans ==
    ASSUME HeapTypes, Bounds, NEW a \in Threads, Scanning(a), scan[a].i <= scan[a].end, NextRef(a), pc'[a] = "scan",
           NEW o \in Objects, NEW k \in Nat
    PROVE  Scans(a, o, k)' <=> Scans(a, o, k) /\ <<o, k>> # <<scan[a].o, scan[a].i>>
  <1>1. /\ scan'[a].o = scan[a].o /\ scan'[a].i = scan[a].i + 1 /\ scan'[a].end = scan[a].end
        /\ scan'[a].late = scan[a].late
    BY NextRefFacts
  <1>2. scan[a].i \in Nat
    BY AtHand
  <1>3. scan[a].i + 1 <= k <=> scan[a].i <= k /\ scan[a].i # k
    BY SMT, <1>2
  <1>4. o = scan[a].o => (<<o, k>> # <<scan[a].o, scan[a].i>> <=> scan[a].i # k)
    BY SMT
  <1>5. Scans(a, o, k)' <=> o = scan[a].o /\ scan[a].i + 1 <= k /\ (k <= scan[a].end \/ scan[a].late)
    BY <1>1 DEF Scans, Scanning
  <1>6. pc[a] \in {"scan", "claim"}
    BY DEF Scanning
  <1>7. Scans(a, o, k) <=> /\ o = scan[a].o /\ scan[a].i <= k /\ (k <= scan[a].end \/ scan[a].late)
                           /\ pc[a] = "claim" => scan[a].i # k
    BY <1>6 DEF Scans, Scanning
  <1> QED
    BY <1>3, <1>4, <1>5, <1>7

\* gc_try_setmark_tag has looked at the reference at hand.
LEMMA LookScans ==
    ASSUME HeapTypes, Bounds, NEW a \in Threads, Moves(a), Look(a), NEW o \in Objects, NEW k \in Nat, NEW c \in Threads
    PROVE  Scans(c, o, k)' <=> Scans(c, o, k) /\ (c = a => <<o, k>> # <<scan[a].o, scan[a].i>>)
  <1>1. /\ pc[a] = "scan" /\ Scanning(a) /\ scan[a].i <= scan[a].end
        /\ \A d \in Threads : d # a => scan'[d] = scan[d]
        /\ \/ ToClaim(a) \in marked /\ NextRef(a) /\ pc'[a] = "scan"
           \/ ToClaim(a) \notin marked /\ pc'[a] = "claim" /\ scan' = scan
    BY LookFacts
  <1> USE <1>1
  <1>2. CASE c # a
    BY <1>2, ScansSame DEF Moves
  <1>3. CASE c = a /\ NextRef(a) /\ pc'[a] = "scan"
    BY <1>3, NextRefScans
  <1>4. CASE c = a /\ pc'[a] = "claim" /\ scan' = scan
    <2>1. o = scan[a].o => (<<o, k>> # <<scan[a].o, scan[a].i>> <=> scan[a].i # k)
      BY SMT
    <2> QED
      BY <1>4, <2>1 DEF Scans, Scanning
  <1> QED
    BY <1>2, <1>3, <1>4

\* when a reference is looked at, unless it is that one,
LEMMA LookCovers ==
    ASSUME HeapTypes, Bounds, NEW a \in Threads, Moves(a), Threads' = Threads, Look(a),
           NEW o \in Objects, NEW k \in 1..Len(Refs[o]), Pending(o, k)
    PROVE  <<o, k>> \in done' \/ Pending(o, k)'
  <1>1. UNCHANGED <<ptrs, chunks>> /\ done' = done \cup {<<scan[a].o, scan[a].i>>}
    BY LookFacts
  <1>2. k \in Nat
    BY SMT, RefsKnown
  <1>3. PICK c \in Threads : In(ptrs[c], o) \/ Chunked(c, o, k) \/ Scans(c, o, k)
    BY DEF Pending
  <1>4. CASE In(ptrs[c], o) \/ Chunked(c, o, k)
    BY <1>1, <1>2, <1>4, ChunkedSame DEF Pending
  <1>5. CASE Scans(c, o, k)
    <2>1. Scans(c, o, k)' \/ <<o, k>> = <<scan[a].o, scan[a].i>>
      BY <1>2, <1>5, LookScans
    <2> QED
      BY <1>1, <2>1 DEF Pending
  <1> QED
    BY <1>3, <1>4, <1>5

\* The claim: the object is marked and, by the thread that marked it, queued.
LEMMA ClaimScans ==
    ASSUME HeapTypes, Bounds, NEW a \in Threads, Moves(a), Claim(a), NEW o \in Objects, NEW k \in Nat, NEW c \in Threads
    PROVE  Scans(c, o, k)' <=> Scans(c, o, k)
  <1>1. pc[a] = "claim" /\ pc'[a] = "scan" /\ Scanning(a) /\ scan[a].i <= scan[a].end /\ NextRef(a)
    BY ClaimFacts
  <1> USE <1>1
  <1>2. \A d \in Threads : d # a => scan'[d] = scan[d]
    BY NextRefFacts
  <1>3. CASE c # a
    BY <1>2, <1>3, ScansSame DEF Moves
  <1>4. CASE c = a
    <2>1. <<o, k>> = <<scan[a].o, scan[a].i>> => scan[a].i = k
      BY SMT
    <2>2. Scans(a, o, k) => scan[a].i # k
      BY DEF Scans
    <2> QED
      BY <1>4, <2>1, <2>2, NextRefScans
  <1> QED
    BY <1>3, <1>4

\* when an object is claimed, whose references are added,
LEMMA ClaimCovers ==
    ASSUME HeapTypes, Bounds, NEW a \in Threads, Moves(a), Threads' = Threads, Claim(a),
           NEW o \in Objects, NEW k \in 1..Len(Refs[o]), Pending(o, k) \/ o \in marked' \ marked
    PROVE  Pending(o, k)'
  <1>1. /\ marked' = marked \cup {ToClaim(a)} /\ UNCHANGED chunks /\ \A c \in Threads : c # a => ptrs'[c] = ptrs[c]
        /\ \A y : In(ptrs'[a], y) <=> In(ptrs[a], y) \/ (ToClaim(a) \notin marked /\ y = ToClaim(a))
    BY ClaimFacts
  <1> USE <1>1
  <1>2. k \in Nat
    BY SMT, RefsKnown
  <1>3. CASE o \in marked' \ marked
    <2>1. In(ptrs'[a], o)
      BY <1>3
    <2> QED
      BY <2>1 DEF Pending
  <1>4. CASE Pending(o, k)
    <2>1. PICK c \in Threads : In(ptrs[c], o) \/ Chunked(c, o, k) \/ Scans(c, o, k)
      BY <1>4 DEF Pending
    <2>2. In(ptrs[c], o) => In(ptrs'[c], o)
      OBVIOUS
    <2>3. Chunked(c, o, k) => Chunked(c, o, k)'
      BY <1>2, ChunkedSame
    <2>4. Scans(c, o, k) => Scans(c, o, k)'
      BY <1>2, ClaimScans
    <2> QED
      BY <2>1, <2>2, <2>3, <2>4 DEF Pending
  <1> QED
    BY <1>3, <1>4

\* The end of a scan: what it leaves is queued as a chunk.
LEMMA ScannedScans ==
    ASSUME HeapTypes, Bounds, NEW a \in Threads, Moves(a), Scanned(a), NEW o \in Objects, NEW k \in Nat, k <= Len(Refs[o])
    PROVE  /\ Scans(a, o, k) <=> scan[a].late /\ o = scan[a].o /\ scan[a].i <= k
           /\ ~Scans(a, o, k)'
           /\ \A c \in Threads : c # a => (Scans(c, o, k)' <=> Scans(c, o, k))
           /\ Chunked(a, o, k)' <=> Chunked(a, o, k) \/ Scans(a, o, k)
           /\ \A c \in Threads : c # a => (Chunked(c, o, k)' <=> Chunked(c, o, k))
  <1>1. /\ pc[a] = "scan" /\ pc'[a] = "pop_ptr"
        /\ scan[a].i = scan[a].end + 1 /\ scan[a].o \in marked
        /\ \A c \in Threads : c # a => scan'[c] = scan[c] /\ chunks'[c] = chunks[c]
        /\ scan[a].late => scan[a].i \in 1..Len(Refs[scan[a].o])
        /\ ~scan[a].late => chunks' = chunks
        /\ \A y : In(chunks'[a], y) <=> In(chunks[a], y) \/ (scan[a].late /\ y = <<scan[a].o, scan[a].i>>)
    BY ScannedFacts
  <1> USE <1>1
  <1>2. PICK x \in Objects, i \in Nat \ {0}, n \in Nat : x = scan[a].o /\ i = scan[a].i /\ n = scan[a].end /\ i = n + 1
    BY SMTT(30) DEF HeapTypes
  <1> USE <1>2
  <1>3. i <= k => ~(k <= n)
    BY SMT
  <1>4. Scans(a, o, k) <=> scan[a].late /\ o = scan[a].o /\ scan[a].i <= k
    BY <1>3 DEF Scans, Scanning
  <1> USE <1>4
  <1>5. Chunked(a, o, k)' <=> Chunked(a, o, k) \/ Scans(a, o, k)
    <2>1. CASE scan[a].late
      <3>1. \A y : In(chunks'[a], y) <=> In(chunks[a], y) \/ y = <<x, i>>
        BY <2>1
      <3>2. Chunked(a, o, k)' <=> Chunked(a, o, k) \/ (o = x /\ i <= k)
        BY <3>1, ChunkedPut
      <3> QED
        BY <2>1, <3>2
    <2>2. CASE ~scan[a].late
      BY <2>2, ChunkedSame
    <2> QED
      BY <2>1, <2>2
  <1>6. ~Scans(a, o, k)'
    BY ScansNone
  <1>7. ASSUME NEW c \in Threads, c # a
        PROVE  (Scans(c, o, k)' <=> Scans(c, o, k)) /\ (Chunked(c, o, k)' <=> Chunked(c, o, k))
    BY <1>7, ScansSame, ChunkedSame DEF Moves
  <1> QED
    BY <1>5, <1>6, <1>7

\* and when a scan ends.
LEMMA ScannedCovers ==
    ASSUME HeapTypes, Bounds, NEW a \in Threads, Moves(a), Threads' = Threads, Scanned(a),
           NEW o \in Objects, NEW k \in 1..Len(Refs[o]), Pending(o, k)
    PROVE  Pending(o, k)'
  <1>1. UNCHANGED ptrs
    BY ScannedFacts
  <1>2. k \in Nat /\ k <= Len(Refs[o])
    BY SMT, RefsKnown
  <1>3. PICK c \in Threads : In(ptrs[c], o) \/ Chunked(c, o, k) \/ Scans(c, o, k)
    BY DEF Pending
  <1>4. In(ptrs'[c], o) \/ Chunked(c, o, k)' \/ Scans(c, o, k)'
    BY <1>1, <1>2, <1>3, ScannedScans
  <1> QED
    BY <1>4 DEF Pending

\* A thread that takes nothing.
LEMMA NoneCovers ==
    ASSUME Threads' = Threads, UNCHANGED <<ptrs, chunks, scan>>,
           \A c \in Threads : pc'[c] = pc[c] \/ pc[c] \notin {"mark_chunk", "scan", "claim"},
           NEW o \in Objects, NEW k \in Nat, Pending(o, k)
    PROVE  Pending(o, k)'
  <1>1. PICK c \in Threads : In(ptrs[c], o) \/ Chunked(c, o, k) \/ Scans(c, o, k)
    BY DEF Pending
  <1>2. In(ptrs'[c], o) \/ Chunked(c, o, k)' \/ Scans(c, o, k)'
    BY <1>1, ScansSame, ScansNone, ChunkedSame
  <1> QED
    BY <1>2 DEF Pending

\* Together: every reference of a marked object is followed or will be.
LEMMA EffectCovered ==
    ASSUME HeapTypes, Bounds, NEW a \in Threads, Moves(a), Threads' = Threads, Effect(a), Covered
    PROVE  Covered'
  <1>1. ASSUME NEW o \in marked', NEW k \in DOMAIN Refs[o] PROVE <<o, k>> \in done' \/ Pending(o, k)'
    <2>1. o \in Objects
      BY <1>1, EffectHeap DEF HeapTypes
    <2> USE <2>1
    <2>2. DOMAIN Refs[o] = 1..Len(Refs[o]) /\ k \in 1..Len(Refs[o]) /\ k \in Nat
      BY <1>1, RefsKnown
    <2> USE <2>2
    <2>3. CASE Claim(a)
      <3>1. done' = done
        BY <2>3, ClaimFacts
      <3>2. CASE o \in marked
        BY <1>1, <2>3, <3>1, <3>2, ClaimCovers DEF Covered
      <3>3. CASE o \notin marked
        BY <1>1, <2>3, <3>3, ClaimCovers
      <3> QED
        BY <3>2, <3>3
    <2>4. CASE Look(a)
      <3>1. marked' = marked /\ done \subseteq done'
        BY <2>4, LookFacts
      <3> QED
        BY <1>1, <2>4, <3>1, LookCovers DEF Covered
    <2>5. CASE Scanned(a)
      <3>1. UNCHANGED <<marked, done>>
        BY <2>5, ScannedFacts
      <3> QED
        BY <1>1, <2>5, <3>1, ScannedCovers DEF Covered
    <2>6. CASE TakesNone(a)
      <3>1. UNCHANGED <<marked, done, ptrs, chunks, scan>>
        BY <2>6 DEF TakesNone
      <3>2. \A c \in Threads : pc'[c] = pc[c] \/ pc[c] \notin {"mark_chunk", "scan", "claim"}
        BY <2>6 DEF TakesNone, Moves
      <3> QED
        BY <1>1, <3>1, <3>2, NoneCovers DEF Covered
    <2>7. CASE StartsChunk(a)
      <3>1. UNCHANGED <<marked, done>>
        BY <2>7 DEF StartsChunk
      <3> QED
        BY <1>1, <2>7, <3>1, StartsChunkCovers DEF Covered
    <2>8. ASSUME NEW b \in Threads, NEW x \in Objects, TakesPtr(a, b, x)
          PROVE  <<o, k>> \in done' \/ Pending(o, k)'
      <3>1. UNCHANGED <<marked, done>>
        BY <2>8 DEF TakesPtr
      <3> QED
        BY <1>1, <2>8, <3>1, TakesPtrCovers DEF Covered
    <2>9. ASSUME NEW b \in Threads, NEW x \in Objects, NEW i \in Nat, TakesChunk(a, b, x, i)
          PROVE  <<o, k>> \in done' \/ Pending(o, k)'
      <3>1. UNCHANGED <<marked, done>>
        BY <2>9 DEF TakesChunk
      <3> QED
        BY <1>1, <2>9, <3>1, TakesChunkCovers DEF Covered
    <2> QED
      BY <2>3, <2>4, <2>5, <2>6, <2>7, <2>8, <2>9 DEF Effect
  <1> QED
    BY <1>1 DEF Covered

\* The others, and the reference that is looked at.
LEMMA EffectOthers ==
    ASSUME HeapTypes, Bounds, NEW a \in Threads, Moves(a), Threads' = Threads, Effect(a)
    PROVE  /\ \A c \in Threads : c # a => scan'[c] = scan[c] /\ pc'[c] = pc[c]
           /\ \/ Look(a)
              \/ Claim(a)
              \/ UNCHANGED <<marked, done>> /\ (pc[a] = "claim" => pc'[a] = "claim" /\ scan'[a] = scan[a])
  <1>1. \A c \in Threads : c # a => pc'[c] = pc[c]
    BY DEF Moves
  <1> USE <1>1
  <1>2. CASE Look(a)
    BY <1>2, LookFacts
  <1>3. CASE Claim(a)
    BY <1>3, ClaimFacts, NextRefFacts
  <1>4. CASE Scanned(a)
    BY <1>4, ScannedFacts
  <1>5. CASE TakesNone(a)
    BY <1>5 DEF TakesNone
  <1>6. CASE StartsChunk(a)
    <2>1. ScansFrom(a, scan[a].o, scan[a].i)
      BY <1>6, StartsChunkHeap
    <2> QED
      BY <1>6, <2>1 DEF StartsChunk, ScansFrom
  <1>7. CASE \E b \in Threads, x \in Objects : TakesPtr(a, b, x)
    BY <1>7 DEF TakesPtr, ScansFrom
  <1>8. CASE \E b \in Threads, o \in Objects, i \in Nat : TakesChunk(a, b, o, i)
    BY <1>8 DEF TakesChunk
  <1> QED
    BY <1>2, <1>3, <1>4, <1>5, <1>6, <1>7, <1>8 DEF Effect

\* The object of a followed reference is marked or about to be, and stays so.
LEMMA TargetKept ==
    ASSUME NEW d \in done, Target(d), Threads' = Threads, marked \subseteq marked',
           \A c \in Threads : pc[c] = "claim" =>
              (pc'[c] = "claim" /\ scan'[c] = scan[c]) \/ Refs[scan[c].o][scan[c].i] \in marked'
    PROVE  Target(d)'
  <1>1. CASE Refs[d[1]][d[2]] \in marked
    BY <1>1 DEF Target
  <1>2. ASSUME NEW c \in Threads, pc[c] = "claim", scan[c].o = d[1], scan[c].i = d[2] PROVE Target(d)'
    <2>1. CASE pc'[c] = "claim" /\ scan'[c] = scan[c]
      BY <1>2, <2>1 DEF Target
    <2>2. CASE Refs[scan[c].o][scan[c].i] \in marked'
      BY <1>2, <2>2 DEF Target
    <2> QED
      BY <1>2, <2>1, <2>2
  <1> QED
    BY <1>1, <1>2 DEF Target

\* Hence at every step of gc_mark_and_steal.
LEMMA EffectTargets ==
    ASSUME HeapTypes, Bounds, NEW a \in Threads, Moves(a), Threads' = Threads, Effect(a), Targets
    PROVE  Targets'
  <1>1. \A d \in done : Target(d)
    BY DEF Targets, Target
  <1> USE <1>1
  <1>2. \A c \in Threads : c # a => scan'[c] = scan[c] /\ pc'[c] = pc[c]
    BY EffectOthers
  <1> USE <1>2
  <1>3. CASE Look(a)
    <2>1. /\ pc[a] = "scan" /\ Scanning(a) /\ scan[a].i <= scan[a].end /\ UNCHANGED <<marked, ptrs, chunks>>
          /\ done' = done \cup {<<scan[a].o, scan[a].i>>}
          /\ \/ ToClaim(a) \in marked
             \/ pc'[a] = "claim" /\ scan' = scan
      BY <1>3, LookFacts
    <2> USE <2>1
    <2>2. scan[a].o \in marked /\ scan[a].i \in DOMAIN Refs[scan[a].o]
      BY AtHand
    <2>3. ASSUME NEW d, d = <<scan[a].o, scan[a].i>> PROVE Target(d)'
      <3>1. d[1] = scan[a].o /\ d[2] = scan[a].i /\ d = <<d[1], d[2]>>
        BY SMT, <2>3
      <3> QED
        BY <2>2, <3>1 DEF Target, ToClaim
    <2>4. ASSUME NEW d \in done PROVE Target(d)'
      BY TargetKept
    <2> QED
      BY <2>3, <2>4 DEF Targets, Target
  <1>4. CASE Claim(a)
    <2>1. pc[a] = "claim" /\ marked' = marked \cup {ToClaim(a)} /\ UNCHANGED done
      BY <1>4, ClaimFacts
    <2>2. marked \subseteq marked' /\ Refs[scan[a].o][scan[a].i] \in marked'
      BY <2>1 DEF ToClaim
    <2>3. ASSUME NEW d \in done PROVE Target(d)'
      BY <2>2, TargetKept
    <2> QED
      BY <2>1, <2>3 DEF Targets, Target
  <1>5. CASE UNCHANGED <<marked, done>> /\ (pc[a] = "claim" => pc'[a] = "claim" /\ scan'[a] = scan[a])
    <2>1. ASSUME NEW d \in done PROVE Target(d)'
      BY <1>5, TargetKept
    <2> QED
      BY <1>5, <2>1 DEF Targets, Target
  <1> QED
    BY <1>3, <1>4, <1>5, EffectOthers

\* The roots and the finalizer's object are objects.
LEMMA SourcesKnown ==
    ASSUME ThreadsOK
    PROVE  Sources \in SUBSET Objects /\ RootSet \in SUBSET Objects /\ RootSet \cup {Finalized} \in SUBSET Objects
  <1>1. RootSet \subseteq Objects /\ Finalized \in Objects
    BY RootFacts, HeapKnown
  <1> QED
    BY <1>1 DEF Sources

\* Steps that leave the heap as it is.
LEMMA SameMark ==
    ASSUME Threads' = Threads, UNCHANGED <<marked, done>>,
           \A c \in Threads : ptrs'[c] = ptrs[c] /\ chunks'[c] = chunks[c] /\ scan'[c] = scan[c],
           \A c \in Threads : pc'[c] = pc[c] \/ pc[c] \notin {"mark_chunk", "scan", "claim"},
           HeapTypes, Covered, Targets
    PROVE  Covered' /\ Targets'
  <1>1. ASSUME NEW o \in marked, NEW k \in DOMAIN Refs[o], Pending(o, k) PROVE Pending(o, k)'
    <2>1. o \in Objects /\ k \in Nat
      BY <1>1, RefsKnown DEF HeapTypes
    <2>2. PICK c \in Threads : In(ptrs[c], o) \/ Chunked(c, o, k) \/ Scans(c, o, k)
      BY <1>1 DEF Pending
    <2>3. In(ptrs'[c], o) \/ Chunked(c, o, k)' \/ Scans(c, o, k)'
      BY <2>1, <2>2, ScansSame, ScansNone, ChunkedSame
    <2> QED
      BY <2>3 DEF Pending
  <1>2. Covered'
    BY <1>1 DEF Covered
  <1>3. ASSUME NEW d \in done PROVE Target(d)'
    <2>1. Target(d)
      BY <1>3 DEF Targets, Target
    <2> QED
      BY <1>3, <2>1, TargetKept
  <1>4. Targets'
    BY <1>3 DEF Targets, Target
  <1> QED
    BY <1>2, <1>4

\* The marking invariant lasts when roots and marks stay.
LEMMA SourcesMark ==
    ASSUME MarkInv, pc[Initiator] # "mutator", Sources' = Sources, UNCHANGED marked, Covered', Targets'
    PROVE  MarkInv'
  <1>1. Sources \subseteq marked /\ marked \subseteq Reach(Sources)
    BY DEF MarkInv
  <1>2. Reach(Sources)' = Reach(Sources)
    BY DEF Reach, Closed
  <1> QED
    BY <1>1, <1>2 DEF MarkInv

\* So it does at a step that leaves the heap alone.
LEMMA IdleMark ==
    ASSUME Known, MarkInv, Idles
    PROVE  MarkInv'
  <1>1. /\ UNCHANGED <<marked, ptrs, chunks, scan, done, tid>> /\ Threads' = Threads /\ HeapTypes
    BY DEF Idles, heap, Known
  <1> USE <1>1
  <1>2. \A l \in {"mutator", "tid", "clean", "finlist"} : (pc'[Initiator] = l <=> pc[Initiator] = l)
    BY DEF Idles
  <1>3. Sources' = Sources
    BY <1>2 DEF Sources, RootSet
  <1>4. \A c \in Threads : pc'[c] = pc[c] \/ pc[c] \notin {"mark_chunk", "scan", "claim"}
    BY DEF Idles, HeapLabels
  <1>5. CASE pc[Initiator] = "mutator"
    BY <1>2, <1>5 DEF MarkInv
  <1>6. CASE pc[Initiator] # "mutator"
    <2>1. Covered /\ Targets
      BY <1>6 DEF MarkInv
    <2>2. Covered' /\ Targets'
      BY <1>4, <2>1, SameMark
    <2> QED
      BY <1>3, <1>6, <2>2, SourcesMark
  <1> QED
    BY <1>5, <1>6

\* The steps before and after the mark loop that leave the marks alone.
LEMMA TidMark ==
    ASSUME Known, MarkInv, SetTid \/ gc_mark_loop_barrier \/ gc_mark_clean_reclaim_sets
    PROVE  MarkInv'
  <1>1. LoopInv /\ ThreadsOK /\ TidOK /\ HeapTypes /\ WorkInv /\ Initiator \in Threads
    BY Members DEF Known, SweepInv, LoopInv
  <1> USE <1>1
  <1>2. /\ pc[Initiator] \in {"tid", "barrier", "clean"} /\ UNCHANGED <<marked, done, scan, stack_req>>
        /\ \E l \in {"inc", "clean", "finlist"} : Goto(Initiator, l)
    BY DEF SetTid, gc_mark_loop_barrier, gc_mark_clean_reclaim_sets, Step, heap, requests
  <1> USE <1>2
  <1>3. Threads' = Threads /\ pc'[Initiator] \in {"inc", "clean", "finlist"}
        /\ \A c \in Threads : c # Initiator => pc'[c] = pc[c]
    BY DEF Goto, Threads, GCThreads, ThreadsOK
  <1> USE <1>3
  <1>4. \A c \in Threads : ptrs'[c] = ptrs[c] /\ chunks'[c] = chunks[c] /\ scan'[c] = scan[c]
    <2>1. CASE gc_mark_clean_reclaim_sets
      <3>1. "clean" \in QuietPhase
        BY DEF QuietPhase
      <3>2. Empty
        BY <2>1, <3>1 DEF WorkInv, gc_mark_clean_reclaim_sets, Step
      <3>3. \A c \in Threads : ptrs'[c] = <<>> /\ chunks'[c] = <<>>
        BY <2>1 DEF gc_mark_clean_reclaim_sets, Each
      <3> QED
        BY <3>2, <3>3 DEF Empty
    <2>2. CASE SetTid \/ gc_mark_loop_barrier
      BY <2>2 DEF SetTid, gc_mark_loop_barrier, heap
    <2> QED
      BY <2>1, <2>2
  <1>5. \A c \in Threads : pc'[c] = pc[c] \/ pc[c] \notin {"mark_chunk", "scan", "claim"}
    OBVIOUS
  <1>6. Sources = RootSet /\ Sources' = RootSet
    <2>1. RootSet' = RootSet
      BY DEF RootSet
    <2>2. Sources = RootSet
      <3>1. "barrier" \in MarkPhase
        BY DEF MarkPhase
      <3> QED
        BY <3>1, ThreadsDistinct DEF Sources, TidOK
    <2>3. pc'[Initiator] \in {"tid", "clean", "finlist"} \/ tid' # Null
      <3>1. CASE SetTid
        BY <3>1, ThreadsDistinct DEF SetTid
      <3>2. CASE gc_mark_loop_barrier \/ gc_mark_clean_reclaim_sets
        BY <3>2 DEF gc_mark_loop_barrier, gc_mark_clean_reclaim_sets, Step, Goto, ThreadsOK
      <3> QED
        BY <3>1, <3>2
    <2> QED
      BY <2>1, <2>2, <2>3 DEF Sources
  <1>7. pc[Initiator] # "mutator"
    OBVIOUS
  <1>8. Covered /\ Targets
    BY <1>7 DEF MarkInv
  <1>9. Covered' /\ Targets'
    BY <1>4, <1>5, <1>8, SameMark
  <1> QED
    BY <1>6, <1>7, <1>9, SourcesMark

\* A collection begins: the roots are marked and queued.
LEMMA CollectMark ==
    ASSUME Known, Collect
    PROVE  MarkInv'
  <1>1. LoopInv /\ ThreadsOK /\ TidOK /\ Initiator \in Threads
    BY Members DEF Known, SweepInv, LoopInv
  <1> USE <1>1
  <1>2. /\ pc[Initiator] = "mutator" /\ Goto(Initiator, "tid") /\ UNCHANGED <<tid, stack_req>>
        /\ marked' = RootSet /\ ptrs' = [t \in Threads |-> Roots[t]] /\ done' = {}
    BY DEF Collect, Step, marking, requests, RootSet
  <1> USE <1>2
  <1>3. Threads' = Threads /\ pc'[Initiator] = "tid"
    BY DEF Goto, Threads, GCThreads, ThreadsOK
  <1>4. Sources' = RootSet
    BY <1>3 DEF Sources, RootSet
  <1>5. RootSet \subseteq Reach(RootSet)
    BY SourcesKnown, ReachFacts
  <1>6. Reach(Sources)' = Reach(RootSet)
    BY <1>4 DEF Reach, Closed
  <1>7. ASSUME NEW o \in RootSet, NEW k PROVE Pending(o, k)'
    <2>1. PICK c \in Threads : In(Roots[c], o)
      BY <1>7, RootFacts
    <2>2. In(ptrs'[c], o)
      BY <2>1
    <2> QED
      BY <1>3, <2>2 DEF Pending
  <1>8. Covered' /\ Targets'
    BY <1>7 DEF Covered, Targets
  <1> QED
    BY <1>4, <1>5, <1>6, <1>8 DEF MarkInv

\* The finalizer lists are marked and queued.
LEMMA FinlistMark ==
    ASSUME Known, MarkInv, gc_mark_finlist
    PROVE  MarkInv'
  <1>1. LoopInv /\ ThreadsOK /\ TidOK /\ Initiator \in Threads /\ HeapTypes /\ WalkInv /\ WorkInv
    BY Members DEF Known, SweepInv, LoopInv
  <1> USE <1>1
  <1>2. /\ pc[Initiator] = "finlist" /\ Goto(Initiator, "pop_ptr") /\ UNCHANGED <<tid, stack_req, scan, chunks, done>>
        /\ marked' = marked \cup {Finalized}
    BY DEF gc_mark_finlist, Step, marking, requests
  <1> USE <1>2
  <1>3. /\ Threads' = Threads /\ pc'[Initiator] = "pop_ptr" /\ "finlist" \in QuietPhase
        /\ \A c \in Threads : c # Initiator => pc'[c] = pc[c]
    BY DEF Goto, Threads, GCThreads, ThreadsOK, QuietPhase
  <1> USE <1>3
  <1>4. tid = Null /\ Empty
    BY DEF TidOK, WorkInv
  <1> USE <1>4
  <1>5. \A x : In(ptrs'[Initiator], x) <=> Finalized \notin marked /\ x = Finalized
    BY FinlistHeap
  <1>6. Sources = RootSet /\ Sources' = RootSet \cup {Finalized}
    BY DEF Sources, RootSet
  <1> USE <1>6
  <1>7. RootSet \subseteq marked /\ marked \subseteq Reach(RootSet) /\ Covered /\ Targets
    BY DEF MarkInv
  <1> USE <1>7
  <1>8. /\ RootSet \cup {Finalized} \subseteq Reach(RootSet \cup {Finalized})
        /\ Reach(RootSet) \subseteq Reach(RootSet \cup {Finalized})
    BY SourcesKnown, ReachFacts, ReachGrows
  <1>9. Reach(Sources)' = Reach(RootSet \cup {Finalized})
    BY DEF Reach, Closed
  <1>10. \A c \in Threads : pc[c] \notin {"mark_chunk", "scan", "claim"}
    <2>1. \A c \in Threads : c = Initiator \/ pc[c] \notin LoopLabels
      BY Members DEF LoopInv, Alone
    <2> QED
      BY <2>1 DEF LoopLabels, MarkLabels
  <1>11. ASSUME NEW o \in marked', NEW k \in DOMAIN Refs[o] PROVE <<o, k>> \in done' \/ Pending(o, k)'
    <2>1. CASE o \notin marked
      <3>1. In(ptrs'[Initiator], o)
        BY <1>5, <1>11, <2>1
      <3> QED
        BY <3>1 DEF Pending
    <2>2. CASE o \in marked
      <3>1. o \in Objects /\ k \in Nat
        BY <1>11, <2>2, RefsKnown DEF HeapTypes
      <3>2. \A x : ~In(<<>>, x)
        BY SMT DEF In
      <3>3. ~Pending(o, k)
        BY <1>10, <3>1, <3>2, ScansNone DEF Pending, Empty, Chunked
      <3> QED
        BY <1>11, <2>2, <3>3 DEF Covered
    <2> QED
      BY <2>1, <2>2
  <1>12. Covered'
    BY <1>11 DEF Covered
  <1>13. ASSUME NEW d \in done PROVE Target(d)'
    <2>1. Target(d) /\ marked \subseteq marked'
      BY <1>13 DEF Targets, Target
    <2> QED
      BY <1>10, <1>13, <2>1, TargetKept
  <1>14. Targets'
    BY <1>13 DEF Targets, Target
  <1> QED
    BY <1>8, <1>9, <1>12, <1>14 DEF MarkInv

\* Marking has not begun at first.
LEMMA InitMutator ==
    ASSUME Known, Init
    PROVE  pc[Initiator] = "mutator"
  <1>1. Initiator \in Threads
    BY Members DEF Known, SweepInv, LoopInv
  <1> QED
    BY <1>1 DEF Init

(* No reference is followed twice.                                           *)
\* Nothing is added to what covers reference k of o.
LEMMA FewerOnce ==
    ASSUME NEW o \in Objects, NEW k \in Nat, OnceAt(o, k), Threads' = Threads,
           \A c \in Threads : /\ In(ptrs'[c], o) => In(ptrs[c], o)
                              /\ Chunked(c, o, k)' => Chunked(c, o, k)
                              /\ Scans(c, o, k)' => Scans(c, o, k),
           <<o, k>> \in done' => <<o, k>> \in done
    PROVE  OnceAt(o, k)'
  <1>1. Pending(o, k)' => Pending(o, k)
    BY DEF Pending
  <1> QED
    BY <1>1 DEF OnceAt

\* It is covered by thread a alone, in one way, and was not followed.
LEMMA HeldOnce ==
    ASSUME NEW a \in Threads, NEW o \in Objects, NEW k \in Nat, Threads' = Threads, <<o, k>> \notin done',
           \A c \in Threads : c # a => ~In(ptrs'[c], o) /\ ~Chunked(c, o, k)' /\ ~Scans(c, o, k)',
           \/ ~Chunked(a, o, k)' /\ ~Scans(a, o, k)'
           \/ ~In(ptrs'[a], o) /\ ~Scans(a, o, k)'
           \/ ~In(ptrs'[a], o) /\ ~Chunked(a, o, k)'
    PROVE  OnceAt(o, k)'
  BY DEF OnceAt

\* Who covers a reference does so alone.
LEMMA OnceMeans ==
    ASSUME NEW o \in Objects, NEW k \in Nat, OnceAt(o, k), NEW b \in Threads
    PROVE  /\ In(ptrs[b], o) => /\ <<o, k>> \notin done
                                /\ \A c \in Threads : ~Chunked(c, o, k) /\ ~Scans(c, o, k)
           /\ Chunked(b, o, k) => /\ <<o, k>> \notin done
                                  /\ \A c \in Threads : ~In(ptrs[c], o) /\ ~Scans(c, o, k)
           /\ Scans(b, o, k) => /\ <<o, k>> \notin done
                                /\ \A c \in Threads : ~In(ptrs[c], o) /\ ~Chunked(c, o, k) /\ (c # b => ~Scans(c, o, k))
  BY DEF OnceAt, Pending

\* A reference is in one place at most after a pointer is taken,
LEMMA TakesPtrOnce ==
    ASSUME HeapTypes, PtrsOnce, NEW a \in Threads, Moves(a), Threads' = Threads,
           NEW b \in Threads, NEW x \in Objects, TakesPtr(a, b, x),
           NEW o \in Objects, NEW k \in 1..Len(Refs[o]), OnceAt(o, k)
    PROVE  OnceAt(o, k)'
  <1>1. /\ pc[a] \notin {"mark_chunk", "scan", "claim"} /\ pc'[a] = "scan" /\ Took(ptrs[b], ptrs'[b], x)
        /\ \A c \in Threads : c # b => ptrs'[c] = ptrs[c]
        /\ ScansFrom(a, x, 1) /\ UNCHANGED done
    BY DEF TakesPtr
  <1> USE <1>1
  <1>2. k \in Nat /\ k <= Len(Refs[o]) /\ 1 \in 1..(Len(Refs[x]) + 1)
    BY SMT, RefsKnown
  <1> USE <1>2
  <1>3. PICK e \in Nat \ {0} : Splits(a, x, 1, e)
    BY ScansFromExact
  <1>4. ~(k < e /\ e <= k)
    BY SMT
  <1>5. /\ Scans(a, o, k)' <=> o = x /\ 1 <= k /\ k < e
        /\ Chunked(a, o, k)' <=> Chunked(a, o, k) \/ (o = x /\ e <= k)
    BY <1>3 DEF Splits
  <1>6. \A c \in Threads : c # a => scan'[c] = scan[c] /\ chunks'[c] = chunks[c] /\ pc'[c] = pc[c]
    BY ScansFromGrows DEF Moves
  <1>7. \A c \in Threads : c # a => (Scans(c, o, k)' <=> Scans(c, o, k)) /\ (Chunked(c, o, k)' <=> Chunked(c, o, k))
    BY <1>6, ScansSame, ChunkedSame
  <1>8. \A c \in Threads : In(ptrs'[c], o) => In(ptrs[c], o) /\ o # x
    <2>1. In(ptrs[b], x) /\ ~In(ptrs'[b], x) /\ \A y : In(ptrs'[b], y) => In(ptrs[b], y)
      BY DEF Took, PtrsOnce
    <2> QED
      BY <2>1 DEF PtrsOnce
  <1> USE <1>8
  <1>9. CASE o # x
    <2>1. \A c \in Threads : (Chunked(c, o, k)' => Chunked(c, o, k)) /\ (Scans(c, o, k)' => Scans(c, o, k))
      BY <1>5, <1>7, <1>9
    <2> QED
      BY <2>1, FewerOnce
  <1>10. CASE o = x
    <2>1. <<o, k>> \notin done' /\ \A c \in Threads : ~Chunked(c, o, k) /\ ~Scans(c, o, k)
      <3>1. In(ptrs[b], o)
        BY <1>10 DEF Took
      <3> QED
        BY <3>1, OnceMeans
    <2> USE <2>1
    <2>2. \A c \in Threads : c # a => ~In(ptrs'[c], o) /\ ~Chunked(c, o, k)' /\ ~Scans(c, o, k)'
      BY <1>7, <1>10
    <2>3. ~In(ptrs'[a], o) /\ (~Scans(a, o, k)' \/ ~Chunked(a, o, k)')
      BY <1>4, <1>5, <1>10
    <2> QED
      BY <2>2, <2>3, HeldOnce
  <1> QED
    BY <1>9, <1>10

\* after a chunk is taken,
LEMMA TakesChunkOnce ==
    ASSUME ChunksOnce, NEW a \in Threads, Moves(a), Threads' = Threads,
           NEW b \in Threads, NEW x \in Objects, NEW i \in Nat, TakesChunk(a, b, x, i),
           NEW o \in Objects, NEW k \in 1..Len(Refs[o]), i # 0, OnceAt(o, k)
    PROVE  OnceAt(o, k)'
  <1>1. /\ pc[a] \notin {"mark_chunk", "scan", "claim"} /\ pc'[a] = "mark_chunk" /\ Took(chunks[b], chunks'[b], <<x, i>>)
        /\ UNCHANGED <<ptrs, done>> /\ \A c \in Threads : c # b => chunks'[c] = chunks[c]
        /\ scan'[a].o = x /\ scan'[a].i = i /\ \A c \in Threads : c # a => scan'[c] = scan[c]
    BY DEF TakesChunk
  <1>2. k \in Nat
    BY SMTT(30), RefsKnown
  <1>3. Scans(a, o, k)' <=> o = x /\ i <= k
    BY <1>1 DEF Scans, Scanning
  <1>4. \A c \in Threads : c # a => (Scans(c, o, k)' <=> Scans(c, o, k))
    BY <1>1, <1>2, ScansSame DEF Moves
  <1>5. \A f \in 1..k : f \in Nat
    BY SMTT(30), <1>2
  <1>6. In(chunks[b], <<x, i>>) /\ ~In(chunks'[b], <<x, i>>) /\ \A y : In(chunks'[b], y) => In(chunks[b], y)
    BY <1>1 DEF Took, ChunksOnce
  <1>7. ASSUME NEW c \in Threads, Chunked(c, o, k)' PROVE Chunked(c, o, k) /\ o # x
    <2>1. PICK f \in 1..k : In(chunks'[c], <<o, f>>)
      BY <1>7 DEF Chunked
    <2>2. In(chunks[c], <<o, f>>)
      BY <1>1, <1>6, <2>1
    <2>3. o = x => c = b /\ f = i
      <3> SUFFICES ASSUME o = x PROVE c = b /\ f = i
        OBVIOUS
      <3>1. In(chunks[c], <<x, f>>) /\ f \in Nat
        BY <1>5, <2>1, <2>2
      <3> QED
        BY <1>6, <3>1 DEF ChunksOnce
    <2> QED
      BY <1>6, <2>1, <2>2, <2>3 DEF Chunked
  <1>8. CASE o = x /\ i <= k
    <2>1. i \in 1..k
      BY SMTT(30), <1>2, <1>8
    <2>2. Chunked(b, o, k)
      BY <1>6, <1>8, <2>1 DEF Chunked
    <2>3. <<o, k>> \notin done' /\ \A c \in Threads : ~In(ptrs'[c], o) /\ ~Scans(c, o, k)
      BY <1>1, <1>2, <2>2, OnceMeans
    <2>4. \A c \in Threads : ~Chunked(c, o, k)'
      BY <1>7, <1>8
    <2> QED
      BY <1>2, <1>4, <2>3, <2>4, HeldOnce
  <1>9. CASE ~(o = x /\ i <= k)
    <2>1. \A c \in Threads : Scans(c, o, k)' => Scans(c, o, k)
      BY <1>3, <1>4, <1>9
    <2>2. \A c \in Threads : In(ptrs'[c], o) => In(ptrs[c], o)
      BY <1>1
    <2> QED
      BY <1>1, <1>2, <1>7, <2>1, <2>2, FewerOnce
  <1> QED
    BY <1>8, <1>9

\* after a chunk is started,
LEMMA StartsChunkOnce ==
    ASSUME HeapTypes, Bounds, NEW a \in Threads, Moves(a), Threads' = Threads, StartsChunk(a),
           NEW o \in Objects, NEW k \in 1..Len(Refs[o]), OnceAt(o, k)
    PROVE  OnceAt(o, k)'
  <1>1. PICK x \in Objects, i \in Nat : x = scan[a].o /\ i = scan[a].i
    BY SMT DEF HeapTypes, Bounds, ScanOK, StartsChunk
  <1>2. /\ pc[a] = "mark_chunk" /\ pc'[a] = "scan" /\ UNCHANGED <<ptrs, done>> /\ ScansFrom(a, x, i)
        /\ i \in 1..Len(Refs[x])
    BY <1>1, StartsChunkHeap DEF StartsChunk
  <1> USE <1>2
  <1>3. i \in 1..(Len(Refs[x]) + 1) /\ k \in Nat /\ k <= Len(Refs[o])
    BY SMT, RefsKnown
  <1> USE <1>3
  <1>4. PICK e \in Nat \ {0} : Splits(a, x, i, e)
    BY ScansFromExact
  <1>5. i <= e /\ (e <= k => i <= k) /\ ~(k < e /\ e <= k)
    BY SMT, <1>4 DEF Splits
  <1>6. /\ Scans(a, o, k)' <=> o = x /\ i <= k /\ k < e
        /\ Chunked(a, o, k)' <=> Chunked(a, o, k) \/ (o = x /\ e <= k)
    BY <1>4 DEF Splits
  <1>7. \A c \in Threads : c # a => scan'[c] = scan[c] /\ chunks'[c] = chunks[c] /\ pc'[c] = pc[c]
    BY ScansFromGrows DEF Moves
  <1>8. \A c \in Threads : c # a => (Scans(c, o, k)' <=> Scans(c, o, k)) /\ (Chunked(c, o, k)' <=> Chunked(c, o, k))
    BY <1>7, ScansSame, ChunkedSame
  <1>9. Scans(a, o, k) <=> o = x /\ i <= k
    BY <1>1 DEF Scans, Scanning
  <1>10. CASE o = x /\ e <= k
    <2>1. Scans(a, o, k)
      BY <1>5, <1>9, <1>10
    <2>2. <<o, k>> \notin done' /\ \A c \in Threads : ~In(ptrs'[c], o) /\ ~Chunked(c, o, k) /\ (c # a => ~Scans(c, o, k))
      BY <2>1, OnceMeans
    <2>3. ~Scans(a, o, k)'
      BY <1>5, <1>6, <1>10
    <2> QED
      BY <1>8, <2>2, <2>3, HeldOnce
  <1>11. CASE ~(o = x /\ e <= k)
    <2>1. \A c \in Threads : (Chunked(c, o, k)' => Chunked(c, o, k)) /\ (Scans(c, o, k)' => Scans(c, o, k))
      BY <1>6, <1>8, <1>9, <1>11
    <2> QED
      BY <2>1, FewerOnce
  <1> QED
    BY <1>10, <1>11

\* after a look at a reference,
LEMMA LookOnce ==
    ASSUME HeapTypes, Bounds, NEW a \in Threads, Moves(a), Threads' = Threads, Look(a),
           NEW o \in Objects, NEW k \in 1..Len(Refs[o]), OnceAt(o, k)
    PROVE  OnceAt(o, k)'
  <1>1. UNCHANGED <<ptrs, chunks>> /\ done' = done \cup {<<scan[a].o, scan[a].i>>} /\ pc[a] = "scan" /\ scan[a].i <= scan[a].end
    BY LookFacts
  <1> USE <1>1
  <1>2. k \in Nat
    BY SMT, RefsKnown
  <1> USE <1>2
  <1>3. \A c \in Threads : /\ Chunked(c, o, k)' <=> Chunked(c, o, k)
                           /\ Scans(c, o, k)' <=> Scans(c, o, k) /\ (c = a => <<o, k>> # <<scan[a].o, scan[a].i>>)
    BY ChunkedSame, LookScans
  <1>4. CASE <<o, k>> # <<scan[a].o, scan[a].i>>
    BY <1>3, <1>4, FewerOnce
  <1>5. CASE <<o, k>> = <<scan[a].o, scan[a].i>>
    <2>1. o = scan[a].o /\ k = scan[a].i /\ scan[a].i <= k
      BY SMT, <1>5
    <2>2. Scans(a, o, k)
      BY <2>1 DEF Scans, Scanning
    <2>3. \A c \in Threads : ~In(ptrs[c], o) /\ ~Chunked(c, o, k) /\ (c # a => ~Scans(c, o, k))
      BY <2>2, OnceMeans
    <2>4. \A c \in Threads : ~In(ptrs'[c], o) /\ ~Chunked(c, o, k)' /\ ~Scans(c, o, k)'
      BY <1>3, <1>5, <2>3
    <2> QED
      BY <2>4 DEF OnceAt, Pending
  <1> QED
    BY <1>4, <1>5

\* What is not marked is neither queued nor scanned, nor was it followed.
LEMMA UnmarkedFree ==
    ASSUME HeapTypes, Bounds, Targets, NEW o \in Objects, o \notin marked, NEW k \in Nat, k <= Len(Refs[o])
    PROVE  /\ <<o, k>> \notin done
           /\ \A c \in Threads : ~In(ptrs[c], o) /\ ~Chunked(c, o, k) /\ ~Scans(c, o, k)
  <1>1. \A d \in done : d[1] \in marked
    BY DEF Targets
  <1>2. <<o, k>>[1] = o
    BY SMT
  <1>3. \A f \in 1..k : f \in Nat
    BY SMT
  <1>4. ASSUME NEW c \in Threads PROVE ~In(ptrs[c], o) /\ ~Chunked(c, o, k) /\ ~Scans(c, o, k)
    <2>1. ~In(ptrs[c], o) /\ ~Chunked(c, o, k)
      <3>1. QueueOK(c)
        BY <1>4 DEF Bounds
      <3> QED
        BY <1>3, <3>1 DEF QueueOK, Chunked
    <2>2. ~Scans(c, o, k)
      <3>1. ScanOK(c)
        BY <1>4 DEF Bounds
      <3>2. pc[c] = "mark_chunk" \/ Scanning(c) => scan[c].o # o
        BY <3>1 DEF ScanOK
      <3> QED
        BY <3>2 DEF Scans
    <2> QED
      BY <2>1, <2>2
  <1> QED
    BY <1>1, <1>2, <1>4

\* after a claim,
LEMMA ClaimOnce ==
    ASSUME HeapTypes, Bounds, Targets, NEW a \in Threads, Moves(a), Threads' = Threads, Claim(a),
           NEW o \in Objects, NEW k \in 1..Len(Refs[o]), OnceAt(o, k)
    PROVE  OnceAt(o, k)'
  <1>1. /\ UNCHANGED <<chunks, done>> /\ \A c \in Threads : c # a => ptrs'[c] = ptrs[c]
        /\ \A y : In(ptrs'[a], y) <=> In(ptrs[a], y) \/ (ToClaim(a) \notin marked /\ y = ToClaim(a))
    BY ClaimFacts
  <1> USE <1>1
  <1>2. k \in Nat /\ k <= Len(Refs[o])
    BY SMTT(30), RefsKnown
  <1> USE <1>2
  <1>3. \A c \in Threads : (Chunked(c, o, k)' <=> Chunked(c, o, k)) /\ (Scans(c, o, k)' <=> Scans(c, o, k))
    BY ChunkedSame, ClaimScans
  <1> USE <1>3
  <1>4. CASE o \in marked
    <2>1. ASSUME NEW c \in Threads, In(ptrs'[c], o) PROVE In(ptrs[c], o)
      <3>1. CASE c = a
        <4>1. ToClaim(a) \notin marked => o # ToClaim(a)
          BY <1>4
        <4> QED
          BY <2>1, <3>1, <4>1
      <3>2. CASE c # a
        BY <2>1, <3>2
      <3> QED
        BY <3>1, <3>2
    <2> QED
      BY <2>1, FewerOnce
  <1>5. CASE o \notin marked
    <2>1. /\ <<o, k>> \notin done
          /\ \A c \in Threads : ~In(ptrs[c], o) /\ ~Chunked(c, o, k) /\ ~Scans(c, o, k)
      BY <1>5, UnmarkedFree
    <2>2. \A c \in Threads : c # a => ~In(ptrs'[c], o) /\ ~Chunked(c, o, k)' /\ ~Scans(c, o, k)'
      BY <2>1
    <2> QED
      BY <2>1, <2>2, HeldOnce
  <1> QED
    BY <1>4, <1>5

\* and after the end of a scan.
LEMMA ScannedOnce ==
    ASSUME HeapTypes, Bounds, NEW a \in Threads, Moves(a), Threads' = Threads, Scanned(a),
           NEW o \in Objects, NEW k \in 1..Len(Refs[o]), OnceAt(o, k)
    PROVE  OnceAt(o, k)'
  <1>1. UNCHANGED <<ptrs, done>>
    BY ScannedFacts
  <1>2. k \in Nat /\ k <= Len(Refs[o])
    BY SMT, RefsKnown
  <1> USE <1>2
  <1>3. /\ ~Scans(a, o, k)' /\ (Chunked(a, o, k)' <=> Chunked(a, o, k) \/ Scans(a, o, k))
        /\ \A c \in Threads : c # a => (Scans(c, o, k)' <=> Scans(c, o, k)) /\ (Chunked(c, o, k)' <=> Chunked(c, o, k))
    BY ScannedScans
  <1>4. CASE Scans(a, o, k)
    <2>1. <<o, k>> \notin done' /\ \A c \in Threads : ~In(ptrs'[c], o) /\ ~Chunked(c, o, k) /\ (c # a => ~Scans(c, o, k))
      BY <1>1, <1>4, OnceMeans
    <2> QED
      BY <1>3, <2>1, HeldOnce
  <1>5. CASE ~Scans(a, o, k)
    <2>1. \A c \in Threads : (Chunked(c, o, k)' => Chunked(c, o, k)) /\ (Scans(c, o, k)' => Scans(c, o, k))
      BY <1>3, <1>5
    <2> QED
      BY <1>1, <2>1, FewerOnce
  <1> QED
    BY <1>4, <1>5

\* The items of the queues.
LEMMA PtrsStay ==
    ASSUME PtrsOnce, Threads' = Threads, \A c \in Threads : ptrs'[c] = ptrs[c]
    PROVE  PtrsOnce'
  BY DEF PtrsOnce

\* Chunks are queued once when the queues of chunks stay,
LEMMA ChunksStay ==
    ASSUME ChunksOnce, Threads' = Threads, \A c \in Threads : chunks'[c] = chunks[c]
    PROVE  ChunksOnce'
  BY SMT DEF ChunksOnce

\* pointers are queued once when one of them is taken,
LEMMA TakesPtrPtrs ==
    ASSUME PtrsOnce, Threads' = Threads, NEW a \in Threads, NEW b \in Threads, NEW x \in Objects, TakesPtr(a, b, x)
    PROVE  PtrsOnce'
  <1>1. Took(ptrs[b], ptrs'[b], x) /\ \A c \in Threads : c # b => ptrs'[c] = ptrs[c]
    BY DEF TakesPtr
  <1>2. Distinct(ptrs'[b]) /\ \A y : In(ptrs'[b], y) => In(ptrs[b], y)
    BY <1>1 DEF Took, PtrsOnce
  <1>3. \A c \in Threads : Distinct(ptrs'[c]) /\ \A y : In(ptrs'[c], y) => In(ptrs[c], y)
    BY <1>1, <1>2 DEF PtrsOnce
  <1> QED
    BY <1>3 DEF PtrsOnce

\* and chunks when one of them is taken.
LEMMA TakesChunkChunks ==
    ASSUME ChunksOnce, Threads' = Threads,
           NEW a \in Threads, NEW b \in Threads, NEW x \in Objects, NEW i \in Nat, TakesChunk(a, b, x, i)
    PROVE  ChunksOnce'
  <1>1. Took(chunks[b], chunks'[b], <<x, i>>) /\ \A c \in Threads : c # b => chunks'[c] = chunks[c]
    BY DEF TakesChunk
  <1>2. Distinct(chunks'[b]) /\ \A y : In(chunks'[b], y) => In(chunks[b], y)
    BY <1>1 DEF Took, ChunksOnce
  <1>3. \A c \in Threads : Distinct(chunks'[c]) /\ \A y : In(chunks'[c], y) => In(chunks[c], y)
    BY <1>1, <1>2 DEF ChunksOnce
  <1> QED
    BY SMT, <1>3 DEF ChunksOnce

\* gc_try_claim_and_push: only the thread that set the mark bit queues.
LEMMA ClaimPtrs ==
    ASSUME HeapTypes, Bounds, PtrsOnce, NEW a \in Threads, Moves(a), Threads' = Threads, Claim(a)
    PROVE  PtrsOnce'
  <1>1. /\ \A c \in Threads : c # a => ptrs'[c] = ptrs[c]
        /\ ToClaim(a) \in marked => ptrs' = ptrs
        /\ ToClaim(a) \notin marked => ptrs'[a] = Append(ptrs[a], ToClaim(a))
        /\ \A y : In(ptrs'[a], y) <=> In(ptrs[a], y) \/ (ToClaim(a) \notin marked /\ y = ToClaim(a))
        /\ Scanning(a) /\ scan[a].i <= scan[a].end
    BY ClaimFacts
  <1> USE <1>1
  <1>2. CASE ToClaim(a) \in marked
    BY <1>2, PtrsStay
  <1>3. CASE ToClaim(a) \notin marked
    <2>1. PICK x \in Objects : x = ToClaim(a)
      BY AtHand
    <2> USE <2>1
    <2>2. \A c \in Threads : ~In(ptrs[c], x)
      BY <1>3 DEF Bounds, QueueOK
    <2>3. ptrs[a] \in Seq(Objects) /\ ptrs'[a] = Append(ptrs[a], x) /\ Distinct(ptrs[a])
      BY <1>3 DEF HeapTypes, PtrsOnce
    <2>4. Distinct(ptrs'[a])
      BY <2>2, <2>3, PtrAppend
    <2>5. \A c \in Threads : Distinct(ptrs'[c])
      BY <2>4 DEF PtrsOnce
    <2>6. \A c \in Threads, y \in Objects : In(ptrs'[c], y) <=> In(ptrs[c], y) \/ (c = a /\ y = x)
      BY <1>3
    <2>7. ASSUME NEW c \in Threads, NEW d \in Threads, NEW y \in Objects, In(ptrs'[c], y), In(ptrs'[d], y) PROVE c = d
      <3>1. CASE y = x
        BY <2>2, <2>6, <2>7, <3>1
      <3>2. CASE y # x
        BY <2>6, <2>7, <3>2 DEF PtrsOnce
      <3> QED
        BY <3>1, <3>2
    <2> QED
      BY <2>5, <2>7 DEF PtrsOnce
  <1> QED
    BY <1>2, <1>3

\* A chunk of x is queued when there is no other.
LEMMA ChunkQueued ==
    ASSUME HeapTypes, ChunksOnce, Threads' = Threads, NEW a \in Threads, NEW x \in Objects, NEW e \in Nat \ {0},
           \A c \in Threads : c # a => chunks'[c] = chunks[c], chunks'[a] = Append(chunks[a], <<x, e>>),
           \A c \in Threads, f \in Nat : ~In(chunks[c], <<x, f>>)
    PROVE  ChunksOnce'
  <1>1. chunks[a] \in Seq(Objects \X Nat) /\ e \in Nat
    BY DEF HeapTypes
  <1> USE <1>1
  <1>2. \A y : In(chunks'[a], y) <=> In(chunks[a], y) \/ y = <<x, e>>
    <2>1. \A y : In(Append(chunks[a], <<x, e>>), y) <=> In(chunks[a], y) \/ y = <<x, e>>
      BY ChunkPut
    <2> QED
      BY <2>1
  <1>3. Distinct(chunks'[a])
    <2>1. Distinct(chunks[a]) /\ ~In(chunks[a], <<x, e>>)
      BY DEF ChunksOnce
    <2> QED
      BY <2>1, ChunkDistinct
  <1>4. \A c \in Threads : Distinct(chunks'[c])
    BY <1>3 DEF ChunksOnce
  <1>5. \A o \in Objects, f \in Nat : <<o, f>> = <<x, e>> <=> o = x /\ f = e
    BY SMT
  <1>6. \A c \in Threads, o \in Objects, f \in Nat : In(chunks'[c], <<o, f>>) <=> In(chunks[c], <<o, f>>) \/ (c = a /\ o = x /\ f = e)
    BY <1>2, <1>5
  <1>7. ASSUME NEW c \in Threads, NEW d \in Threads, NEW o \in Objects, NEW f \in Nat, NEW g \in Nat,
               In(chunks'[c], <<o, f>>), In(chunks'[d], <<o, g>>)
        PROVE  c = d /\ f = g
    <2>1. CASE o = x
      <3>1. ~In(chunks[c], <<o, f>>) /\ ~In(chunks[d], <<o, g>>)
        BY <2>1
      <3> QED
        BY <1>6, <1>7, <3>1
    <2>2. CASE o # x
      <3>1. In(chunks[c], <<o, f>>) /\ In(chunks[d], <<o, g>>)
        BY <1>6, <1>7, <2>2
      <3> QED
        BY SMT, <3>1 DEF ChunksOnce
    <2> QED
      BY <2>1, <2>2
  <1> QED
    BY SMTT(30), <1>4, <1>7 DEF ChunksOnce

\* No chunk of x is queued if its last reference is covered in another way.
LEMMA NoChunk ==
    ASSUME Bounds, NEW x \in Objects, Len(Refs[x]) \in Nat, \A c \in Threads : ~Chunked(c, x, Len(Refs[x]))
    PROVE  \A c \in Threads, f \in Nat : ~In(chunks[c], <<x, f>>)
  BY DEF Bounds, QueueOK, Chunked

\* The beginning of a scan.
LEMMA SplitChunks ==
    ASSUME HeapTypes, Bounds, Once, Threads' = Threads, NEW a \in Threads, NEW x \in Objects, NEW i \in 1..(Len(Refs[x]) + 1),
           ScansFrom(a, x, i), pc'[a] = "scan",
           \/ \E b \in Threads : In(ptrs[b], x)
           \/ pc[a] = "mark_chunk" /\ scan[a].o = x /\ scan[a].i = i /\ i <= Len(Refs[x])
    PROVE  ChunksOnce'
  <1>1. PICK e \in Nat \ {0} : Splits(a, x, i, e)
    BY ScansFromExact
  <1>2. \A c \in Threads : c # a => chunks'[c] = chunks[c]
    BY ScansFromGrows
  <1>3. CASE chunks'[a] = chunks[a]
    BY <1>2, <1>3, ChunksStay DEF Once
  <1>4. CASE e <= Len(Refs[x]) /\ chunks'[a] = Append(chunks[a], <<x, e>>)
    <2>1. Len(Refs[x]) \in Nat
      BY RefsKnown
    <2> USE <2>1
    <2>2. PICK n \in 1..Len(Refs[x]) : n = Len(Refs[x])
      BY SMTT(30), <1>4
    <2> USE <2>2
    <2>3. OnceAt(x, n) /\ n \in Nat
      BY DEF Once
    <2>4. \A c \in Threads : ~Chunked(c, x, n)
      <3>1. CASE \E b \in Threads : In(ptrs[b], x)
        BY <2>3, <3>1 DEF OnceAt
      <3>2. CASE pc[a] = "mark_chunk" /\ scan[a].o = x /\ scan[a].i = i /\ i <= Len(Refs[x])
        <4>1. Scans(a, x, n)
          BY <3>2 DEF Scans
        <4> QED
          BY <2>3, <4>1 DEF OnceAt
      <3> QED
        BY <3>1, <3>2
    <2>5. \A c \in Threads, f \in Nat : ~In(chunks[c], <<x, f>>)
      BY <2>4, NoChunk
    <2> QED
      BY <1>2, <1>4, <2>5, ChunkQueued DEF Once
  <1> QED
    BY <1>1, <1>3, <1>4 DEF Splits

\* The end of a scan.
LEMMA ScannedChunks ==
    ASSUME HeapTypes, Bounds, Once, NEW a \in Threads, Moves(a), Threads' = Threads, Scanned(a)
    PROVE  ChunksOnce'
  <1>1. /\ pc[a] = "scan" /\ scan[a].i = scan[a].end + 1 /\ scan[a].o \in marked
        /\ \A c \in Threads : c # a => chunks'[c] = chunks[c]
        /\ scan[a].late => scan[a].i \in 1..Len(Refs[scan[a].o])
        /\ scan[a].late => chunks'[a] = Append(chunks[a], <<scan[a].o, scan[a].i>>)
        /\ ~scan[a].late => chunks' = chunks
    BY ScannedFacts
  <1> USE <1>1
  <1>2. CASE ~scan[a].late
    BY <1>2, ChunksStay DEF Once
  <1>3. CASE scan[a].late
    <2>1. PICK x \in Objects, i \in Nat \ {0} : x = scan[a].o /\ i = scan[a].i
      BY SMT DEF HeapTypes
    <2> USE <2>1
    <2>2. Len(Refs[x]) \in Nat /\ i \in 1..Len(Refs[x])
      BY <1>3, RefsKnown
    <2> USE <2>2
    <2>3. PICK n \in 1..Len(Refs[x]) : n = Len(Refs[x])
      BY SMT
    <2> USE <2>3
    <2>4. OnceAt(x, n) /\ n \in Nat
      BY DEF Once
    <2>5. i <= n
      BY SMT
    <2>6. Scans(a, x, n)
      BY <1>3, <2>5 DEF Scans, Scanning
    <2>7. \A c \in Threads : ~Chunked(c, x, n)
      BY <2>4, <2>6 DEF OnceAt
    <2>8. \A c \in Threads, f \in Nat : ~In(chunks[c], <<x, f>>)
      BY <2>7, NoChunk
    <2>9. chunks'[a] = Append(chunks[a], <<x, i>>)
      BY <1>3
    <2> QED
      BY <2>8, <2>9, ChunkQueued DEF Once
  <1> QED
    BY <1>2, <1>3

\* Steps that leave the heap as it is.
LEMMA SameOnce ==
    ASSUME Once, Threads' = Threads, \A c \in Threads : ptrs'[c] = ptrs[c] /\ chunks'[c] = chunks[c] /\ scan'[c] = scan[c],
           done' = done, \A c \in Threads : pc'[c] = pc[c] \/ pc'[c] \notin {"mark_chunk", "scan", "claim"}
    PROVE  Once'
  <1>1. PtrsOnce' /\ ChunksOnce'
    BY PtrsStay, ChunksStay DEF Once
  <1>2. ASSUME NEW o \in Objects, NEW k \in 1..Len(Refs[o]) PROVE OnceAt(o, k)'
    <2>1. k \in Nat
      BY SMTT(30), <1>2, RefsKnown
    <2>2. \A c \in Threads : (Chunked(c, o, k)' => Chunked(c, o, k)) /\ (Scans(c, o, k)' => Scans(c, o, k))
      BY <2>1, ChunkedSame, ScansSame, ScansNone
    <2>3. OnceAt(o, k)
      BY <1>2 DEF Once
    <2> QED
      BY <2>1, <2>2, <2>3, FewerOnce
  <1> QED
    BY <1>1, <1>2 DEF Once

\* A step of gc_mark_and_steal.
LEMMA EffectOnce ==
    ASSUME HeapTypes, Bounds, Targets, Once, NEW a \in Threads, Moves(a), Threads' = Threads, Effect(a)
    PROVE  Once'
  <1>1. PtrsOnce /\ ChunksOnce /\ \A o \in Objects : \A k \in 1..Len(Refs[o]) : OnceAt(o, k)
    BY DEF Once
  <1> USE <1>1
  <1>2. CASE Claim(a)
    <2>1. PtrsOnce'
      BY <1>2, ClaimPtrs
    <2>2. chunks' = chunks
      BY <1>2, ClaimFacts
    <2>3. ChunksOnce'
      BY <2>2, ChunksStay
    <2>4. \A o \in Objects : \A k \in 1..Len(Refs[o]) : OnceAt(o, k)'
      BY <1>2, ClaimOnce
    <2> QED
      BY <2>1, <2>3, <2>4 DEF Once
  <1>3. CASE Look(a)
    <2>1. UNCHANGED <<ptrs, chunks>>
      BY <1>3, LookFacts
    <2>2. PtrsOnce' /\ ChunksOnce'
      BY <2>1, PtrsStay, ChunksStay
    <2>3. \A o \in Objects : \A k \in 1..Len(Refs[o]) : OnceAt(o, k)'
      BY <1>3, LookOnce
    <2> QED
      BY <2>2, <2>3 DEF Once
  <1>4. CASE Scanned(a)
    <2>1. ptrs' = ptrs
      BY <1>4, ScannedFacts
    <2>2. PtrsOnce' /\ ChunksOnce'
      BY <1>4, <2>1, PtrsStay, ScannedChunks
    <2>3. \A o \in Objects : \A k \in 1..Len(Refs[o]) : OnceAt(o, k)'
      BY <1>4, ScannedOnce
    <2> QED
      BY <2>2, <2>3 DEF Once
  <1>5. CASE TakesNone(a)
    <2>1. UNCHANGED <<ptrs, chunks, scan, done>>
      BY <1>5 DEF TakesNone
    <2>2. \A c \in Threads : pc'[c] = pc[c] \/ pc'[c] \notin {"mark_chunk", "scan", "claim"}
      BY <1>5 DEF TakesNone, Moves
    <2> QED
      BY <2>1, <2>2, SameOnce
  <1>6. CASE StartsChunk(a)
    <2>1. PICK x \in Objects, i \in Nat : x = scan[a].o /\ i = scan[a].i
      BY SMTT(30), <1>6 DEF HeapTypes, Bounds, ScanOK, StartsChunk
    <2>2. /\ pc[a] = "mark_chunk" /\ pc'[a] = "scan" /\ ptrs' = ptrs /\ ScansFrom(a, x, i)
          /\ i \in 1..Len(Refs[x])
      BY <1>6, <2>1, StartsChunkHeap DEF StartsChunk
    <2>3. i \in 1..(Len(Refs[x]) + 1) /\ i <= Len(Refs[x])
      BY SMTT(30), <2>2, RefsKnown
    <2>4. PtrsOnce' /\ ChunksOnce'
      BY <2>1, <2>2, <2>3, PtrsStay, SplitChunks
    <2>5. \A o \in Objects : \A k \in 1..Len(Refs[o]) : OnceAt(o, k)'
      BY <1>6, StartsChunkOnce
    <2> QED
      BY <2>4, <2>5 DEF Once
  <1>7. ASSUME NEW b \in Threads, NEW x \in Objects, TakesPtr(a, b, x) PROVE Once'
    <2>1. 1 \in 1..(Len(Refs[x]) + 1)
      BY SMTT(30), RefsKnown
    <2>2. ScansFrom(a, x, 1) /\ pc'[a] = "scan" /\ In(ptrs[b], x)
      BY <1>7 DEF TakesPtr, Took
    <2>3. PtrsOnce' /\ ChunksOnce'
      BY <1>7, <2>1, <2>2, TakesPtrPtrs, SplitChunks
    <2>4. \A o \in Objects : \A k \in 1..Len(Refs[o]) : OnceAt(o, k)'
      BY <1>7, TakesPtrOnce
    <2> QED
      BY <2>3, <2>4 DEF Once
  <1>8. ASSUME NEW b \in Threads, NEW x \in Objects, NEW i \in Nat, TakesChunk(a, b, x, i) PROVE Once'
    <2>1. ptrs' = ptrs
      BY <1>8 DEF TakesChunk
    <2>2. i # 0
      <3>1. i \in 1..Len(Refs[x])
        BY <1>8, TakesChunkHeap
      <3> QED
        BY SMTT(30), <3>1, RefsKnown
    <2>3. PtrsOnce' /\ ChunksOnce'
      BY <1>8, <2>1, PtrsStay, TakesChunkChunks
    <2>4. \A o \in Objects : \A k \in 1..Len(Refs[o]) : OnceAt(o, k)'
      BY <1>8, <2>2, TakesChunkOnce
    <2> QED
      BY <2>3, <2>4 DEF Once
  <1> QED
    BY <1>2, <1>3, <1>4, <1>5, <1>6, <1>7, <1>8 DEF Effect

\* Nobody scans and no chunk is queued: only the pointer queues matter.
LEMMA PtrsOnly ==
    ASSUME PtrsOnce', Threads' = Threads,
           \A c \in Threads : chunks'[c] = <<>> /\ pc'[c] \notin {"mark_chunk", "scan", "claim"},
           \A c \in Threads, o \in Objects, k \in Nat : In(ptrs'[c], o) => <<o, k>> \notin done'
    PROVE  Once'
  <1>1. (\A x : ~In(<<>>, x)) /\ Distinct(<<>>)
    BY SMT DEF In, Distinct
  <1>2. ChunksOnce'
    <2>1. \A c \in Threads : Distinct(chunks'[c]) /\ \A y : ~In(chunks'[c], y)
      BY <1>1
    <2> QED
      BY <2>1 DEF ChunksOnce
  <1>3. ASSUME NEW o \in Objects, NEW k \in 1..Len(Refs[o]) PROVE OnceAt(o, k)'
    <2>1. k \in Nat
      BY SMTT(30), <1>3, RefsKnown
    <2>2. \A c \in Threads : ~Chunked(c, o, k)' /\ ~Scans(c, o, k)'
      BY <1>1, <2>1, ScansNone DEF Chunked
    <2> QED
      BY <1>3, <2>1, <2>2 DEF OnceAt, Pending
  <1> QED
    BY <1>2, <1>3 DEF Once

\* Steps outside gc_mark_and_steal that change no queue.
LEMMA TidOnce ==
    ASSUME Known, OnceInv, SetTid \/ gc_mark_loop_barrier \/ gc_mark_clean_reclaim_sets
    PROVE  OnceInv'
  <1>1. LoopInv /\ ThreadsOK /\ WorkInv /\ Initiator \in Threads
    BY Members DEF Known, SweepInv, LoopInv
  <1>2. /\ pc[Initiator] \in {"tid", "barrier", "clean"} /\ UNCHANGED <<done, scan, stack_req>>
        /\ \E l \in {"inc", "clean", "finlist"} : Goto(Initiator, l)
    BY DEF SetTid, gc_mark_loop_barrier, gc_mark_clean_reclaim_sets, Step, heap, requests
  <1> USE <1>2
  <1>3. Threads' = Threads /\ pc'[Initiator] \in {"inc", "clean", "finlist"}
        /\ \A c \in Threads : c # Initiator => pc'[c] = pc[c]
    BY <1>1 DEF Goto, Threads, GCThreads, ThreadsOK
  <1>4. \A c \in Threads : ptrs'[c] = ptrs[c] /\ chunks'[c] = chunks[c] /\ scan'[c] = scan[c]
    <2>1. CASE gc_mark_clean_reclaim_sets
      <3>1. "clean" \in QuietPhase
        BY DEF QuietPhase
      <3>2. Empty
        BY <1>1, <2>1, <3>1 DEF WorkInv, gc_mark_clean_reclaim_sets, Step
      <3>3. \A c \in Threads : ptrs'[c] = <<>> /\ chunks'[c] = <<>>
        BY <2>1 DEF gc_mark_clean_reclaim_sets, Each
      <3> QED
        BY <3>2, <3>3 DEF Empty
    <2>2. CASE SetTid \/ gc_mark_loop_barrier
      BY <2>2 DEF SetTid, gc_mark_loop_barrier, heap
    <2> QED
      BY <2>1, <2>2
  <1>5. \A c \in Threads : pc'[c] = pc[c] \/ pc'[c] \notin {"mark_chunk", "scan", "claim"}
    BY <1>3
  <1>6. Once
    BY DEF OnceInv
  <1> QED
    BY <1>3, <1>4, <1>5, <1>6, SameOnce DEF OnceInv

\* A step that leaves the heap alone keeps every reference in one place.
LEMMA IdleOnce ==
    ASSUME OnceInv, Idles
    PROVE  OnceInv'
  <1>1. /\ UNCHANGED <<ptrs, chunks, scan, done>> /\ Threads' = Threads
    BY DEF Idles, heap
  <1>2. pc'[Initiator] = "mutator" <=> pc[Initiator] = "mutator"
    BY DEF Idles
  <1>3. \A c \in Threads : pc'[c] = pc[c] \/ pc'[c] \notin {"mark_chunk", "scan", "claim"}
    BY DEF Idles, HeapLabels
  <1> QED
    BY <1>1, <1>2, <1>3, SameOnce DEF OnceInv

\* A scan stays where it is except in a step of its own thread.
LEMMA NotFollows ==
    ASSUME HeapTypes, NEW a \in Threads, scan'[a] = scan[a], pc'[a] = pc[a]
    PROVE  ~Follows(a)
  <1>1. scan[a].i \in Nat
    BY SMTT(30) DEF HeapTypes
  <1>2. scan[a].i # scan[a].i + 1
    BY SMTT(30), <1>1
  <1> QED
    BY <1>2 DEF Follows

\* No thread follows a reference that was followed.
LEMMA LooksOnce ==
    ASSUME Known, OnceInv, NEW a \in Threads, Look(a)
    PROVE  <<scan[a].o, scan[a].i>> \notin done
  <1>1. LoopInv /\ ThreadsOK /\ TidOK /\ Alone /\ HeapTypes /\ Bounds
    BY DEF Known, SweepInv, LoopInv
  <1> USE <1>1
  <1>2. pc[a] = "scan" /\ scan[a].i <= scan[a].end
    BY DEF Look
  <1> USE <1>2
  <1>3. pc[Initiator] # "mutator"
    <2>1. "scan" \in LoopLabels /\ "mutator" \in QuietPhase
      BY SMT DEF LoopLabels, MarkLabels, QuietPhase
    <2>2. CASE a = Initiator
      BY <2>2
    <2>3. CASE a # Initiator
      BY <2>1, <2>3, Members DEF Alone, TidOK
    <2> QED
      BY <2>2, <2>3
  <1>4. scan[a].o \in marked /\ scan[a].end <= Len(Refs[scan[a].o]) /\ scan[a].i \in 1..(scan[a].end + 1)
    BY DEF Bounds, ScanOK, Scanning
  <1>5. PICK o \in Objects, k \in Nat : o = scan[a].o /\ k = scan[a].i
    BY SMTT(30), <1>4 DEF HeapTypes
  <1> USE <1>5
  <1>6. k \in 1..Len(Refs[o])
    <2>1. Len(Refs[o]) \in Nat /\ scan[a].end \in Nat
      BY SMTT(30), RefsKnown DEF HeapTypes
    <2> QED
      BY SMTT(30), <1>4, <2>1
  <1>7. Scans(a, o, k)
    <2>1. scan[a].i <= k
      BY SMT
    <2> QED
      BY <2>1 DEF Scans, Scanning
  <1>8. OnceAt(o, k)
    BY <1>3, <1>6 DEF OnceInv, Once
  <1> QED
    BY <1>7, <1>8 DEF OnceAt, Pending
=============================================================================
