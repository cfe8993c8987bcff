--------------------------- MODULE JobQueueProofs ---------------------------
(***************************************************************************)
(* Proofs about the linked list of src/src/job.c, for any set of jobs: its *)
(* shape, the walk of its destruction, and that it implements FifoQueue.   *)
(***************************************************************************)
EXTENDS JobQueue, SequenceLemmas

IInv == TypeOK /\ ListShape /\ WalkFollowsList

\* The head pointer is NULL exactly when the list is empty, so the tests of
\* add_job (job.c:84) and of pop_job (job.c:98) cannot disagree.
LEMMA EmptyTests ==
  ASSUME TypeOK, ListShape
  PROVE  /\ LooksEmpty <=> order = <<>>
         /\ size = 0 <=> order = <<>>
<1>1. CASE order = <<>>
  BY <1>1, EmptySeq DEF LooksEmpty, TypeOK, ListShape
<1>2. CASE order # <<>>
  <2>1. Len(order) \in Nat \ {0} /\ order[1] \in Jobs
    BY <1>2, EmptySeq, ElementOfSeq DEF TypeOK
  <2> QED BY <1>2, <2>1, NullAssumption DEF LooksEmpty, ListShape
<1> QED BY <1>1, <1>2

\* A queue just created by threadpool_job_queue_new is well formed.
LEMMA InitIInv == Init => IInv
<1> SUFFICES ASSUME Init PROVE IInv
  OBVIOUS
<1>1. order = <<>> /\ Len(order) = 0 /\ order \in Seq(Jobs)
  BY EmptySeq DEF Init
<1>2. Range(order) = {} /\ IsInjective(order)
  BY <1>1 DEF Range, IsInjective
<1>3. TypeOK
  BY <1>1 DEF Init, TypeOK
<1>4. ListShape
  BY <1>1, <1>2 DEF Init, ListShape
<1>5. WalkFollowsList
  BY <1>1 DEF Init, WalkFollowsList
<1> QED BY <1>3, <1>4, <1>5 DEF IInv

\* threadpool_job_queue_add_job keeps the list well formed (job.c:81-95).
LEMMA AddJobIInv ==
  ASSUME IInv, NEW j \in Jobs, AddJob(j)
  PROVE  IInv'
<1> USE DEF IInv
<1>1. /\ order' = Append(order, j) /\ order' \in Seq(Jobs) /\ order' # <<>>
      /\ Len(order') = Len(order) + 1 /\ Len(order) \in Nat
      /\ \A i \in 1..Len(order) : order'[i] = order[i]
      /\ order'[Len(order) + 1] = j
  BY AppendProperties, LenProperties DEF AddJob, TypeOK
<1>2. Range(order') = Range(order) \cup {j} /\ IsInjective(order')
  BY <1>1, RangeAppend, DistinctAppend DEF AddJob, TypeOK, ListShape
<1>3. \A i \in 1..Len(order) : order[i] \in Jobs /\ order[i] # j
  BY ElementOfSeq, RangeMember DEF AddJob, TypeOK
<1>4. TypeOK'
  BY <1>1 DEF AddJob, TypeOK, LinkBehindTail, walk
<1>5. WalkFollowsList'
  BY <1>1 DEF AddJob, WalkFollowsList, walk, TypeOK
<1>6. size' = Len(order') /\ tail' = order'[Len(order')]
  BY <1>1 DEF AddJob, ListShape
<1>7. CASE order = <<>>
  <2>1. head' = j /\ next' = next
    BY <1>7, EmptyTests DEF AddJob
  <2>2. Len(order) = 0 /\ Range(order) = {}
    BY <1>7 DEF Range
  <2>3. next[j] = NULL
    BY <2>2 DEF ListShape
  <2> QED BY <1>1, <1>2, <1>4, <1>5, <1>6, <2>1, <2>2, <2>3 DEF ListShape
<1>8. CASE order # <<>>
  <2>1. head' = head /\ next' = [next EXCEPT ![j] = NULL, ![tail] = j]
    BY <1>8, EmptyTests DEF AddJob, LinkBehindTail
  <2>2. Len(order) > 0 /\ tail = order[Len(order)] /\ head = order[1]
    BY <1>8, EmptySeq DEF ListShape, TypeOK
  <2>3. /\ next'[j] = NULL /\ next'[tail] = j
        /\ \A k \in Jobs : k # j /\ k # tail => next'[k] = next[k]
    BY <1>1, <1>3, <2>1, <2>2 DEF TypeOK
  <2>4. \A i \in 1..Len(order) : order[i] = tail => i = Len(order)
    BY <1>1, <2>2, LenProperties DEF ListShape, IsInjective, TypeOK
  <2>5. ASSUME NEW i \in 1..Len(order')
        PROVE  next'[order'[i]] =
                 IF i = Len(order') THEN NULL ELSE order'[i + 1]
    <3>1. CASE i = Len(order) + 1
      BY <1>1, <2>3, <3>1
    <3>2. CASE i = Len(order)
      BY <1>1, <2>2, <2>3, <3>2
    <3>3. CASE i \in 1..Len(order) /\ i # Len(order)
      <4>1. order'[i] = order[i] /\ order[i] # j /\ order[i] # tail
        BY <1>1, <1>3, <2>4, <3>3
      <4>2. next'[order[i]] = next[order[i]]
        BY <1>3, <2>3, <3>3, <4>1
      <4>3. next[order[i]] = order[i + 1] /\ order'[i + 1] = order[i + 1]
        BY <1>1, <3>3 DEF ListShape
      <4> QED BY <1>1, <3>3, <4>1, <4>2, <4>3
    <3> QED BY <1>1, <3>1, <3>2, <3>3
  <2>6. ASSUME NEW k \in Jobs \ Range(order') PROVE next'[k] = NULL
    <3>1. k \notin Range(order) /\ k # j
      BY <1>2, <2>6
    <3>2. k # tail
      BY <2>2, <3>1, <1>1, RangeMember DEF TypeOK
    <3> QED BY <2>3, <2>6, <3>1, <3>2 DEF ListShape
  <2>7. head' = order'[1]
    BY <1>1, <2>1, <2>2
  <2> QED BY <1>1, <1>2, <1>4, <1>5, <1>6, <2>5, <2>6, <2>7 DEF ListShape
<1> QED BY <1>7, <1>8

\* threadpool_job_queue_pop_job keeps the list well formed (job.c:96-109),
\* and what it returns is the oldest job.
LEMMA PopJobIInv ==
  ASSUME IInv, PopJob
  PROVE  /\ IInv'
         /\ order # <<>> => popped' = Head(order)
<1> USE DEF IInv
<1>1. CASE order = <<>>
  <2>1. popped' = NULL /\ UNCHANGED <<list, order, phase, walk>>
    BY <1>1, EmptyTests DEF PopJob, PopNothing
  <2> QED BY <1>1, <2>1 DEF list, walk, TypeOK, ListShape, WalkFollowsList,
                           MoreToFree
<1>2. CASE order # <<>>
  <2>1. /\ popped' = head
        /\ head' = next[head]
        /\ next' = [next EXCEPT ![head] = NULL]
        /\ size' = size - 1
        /\ order' = Tail(order)
        /\ tail' = tail
    BY <1>2, EmptyTests DEF PopJob, PopFirst
  <2>2. /\ Len(order) \in Nat \ {0} /\ head = order[1] /\ head \in Jobs
        /\ tail = order[Len(order)]
    BY <1>2, EmptySeq, ElementOfSeq DEF ListShape, TypeOK
  <2>3. /\ order' \in Seq(Jobs) /\ Len(order') = Len(order) - 1
        /\ \A i \in 1..Len(order') : order'[i] = order[i + 1]
    BY <1>2, <2>1, HeadTailProperties DEF TypeOK
  <2>4. /\ IsInjective(order') /\ Range(order') = Range(order) \ {head}
        /\ Head(order) = head
    BY <1>2, <2>1, <2>2, TailOfDistinct DEF TypeOK, ListShape
  <2>5. TypeOK'
    BY <2>1, <2>2, <2>3 DEF PopJob, TypeOK, ListShape, walk
  <2>6. WalkFollowsList'
    BY <2>1, <2>2, <2>3 DEF PopJob, WalkFollowsList, walk
  <2>7. ASSUME NEW i \in 1..Len(order')
        PROVE  next'[order'[i]] =
                 IF i = Len(order') THEN NULL ELSE order'[i + 1]
    <3>1. /\ i + 1 \in 1..Len(order) /\ order'[i] = order[i + 1]
          /\ order[i + 1] \in Jobs
      BY <2>2, <2>3, ElementOfSeq DEF TypeOK
    <3>2. order[i + 1] # head
      BY <2>2, <3>1, LenProperties DEF ListShape, IsInjective, TypeOK
    <3>3. next'[order[i + 1]] = next[order[i + 1]]
      BY <2>1, <3>1, <3>2 DEF TypeOK
    <3>4. i # Len(order') => order'[i + 1] = order[i + 2]
      BY <2>2, <2>3
    <3> QED BY <2>2, <2>3, <3>1, <3>3, <3>4 DEF ListShape
  <2>8. ASSUME NEW k \in Jobs \ Range(order') PROVE next'[k] = NULL
    BY <2>1, <2>2, <2>4 DEF ListShape, TypeOK
  <2>9. order' = <<>> => head' = NULL
    <3>1. order' = <<>> => Len(order) = 1
      BY <2>2, <2>3, EmptySeq
    <3> QED BY <2>1, <2>2, <3>1 DEF ListShape
  <2>10. order' # <<>> => head' = order'[1] /\ tail' = order'[Len(order')]
    <3> SUFFICES ASSUME order' # <<>>
                 PROVE  head' = order'[1] /\ tail' = order'[Len(order')]
      OBVIOUS
    <3>1. Len(order') > 0
      BY <2>3, EmptySeq
    <3>2. head' = order[2]
      BY <2>1, <2>2, <2>3, <3>1 DEF ListShape
    <3> QED BY <2>1, <2>2, <2>3, <3>1, <3>2
  <2>11. size' = Len(order')
    BY <2>1, <2>3 DEF ListShape
  <2> QED BY <2>1, <2>4, <2>5, <2>6, <2>7, <2>8, <2>9, <2>10, <2>11
          DEF ListShape
<1> QED BY <1>1, <1>2

\* Each step of threadpool_job_queue_destroy keeps its cursor on the oldest
\* job not freed yet (job.c:110-121).
LEMMA DestroyIInv ==
  ASSUME IInv, DestroyBegin \/ FreeJob \/ DestroyEnd
  PROVE  IInv'
<1> USE DEF IInv
<1>1. /\ UNCHANGED <<list, order, popped>> /\ Len(order) \in Nat
      /\ size = Len(order)
  BY LenProperties DEF DestroyBegin, FreeJob, DestroyEnd, ListShape, TypeOK
<1>2. ListShape'
  BY <1>1 DEF ListShape, list
<1>3. CASE DestroyBegin
  <2>1. size > 0 => cur' = order[1]
    BY <1>1, <1>3, EmptySeq DEF DestroyBegin, ListShape
  <2>2. TypeOK'
    BY <1>1, <1>3 DEF DestroyBegin, TypeOK, list
  <2>3. WalkFollowsList'
    BY <1>1, <1>3, <2>1
    DEF DestroyBegin, WalkFollowsList, MoreToFree, list
  <2> QED BY <1>2, <2>2, <2>3
<1>4. CASE FreeJob
  <2>1. /\ walked < Len(order) /\ cur = order[walked + 1] /\ cur \in Jobs
        /\ walked + 1 \in 1..Len(order)
    BY <1>1, <1>4, ElementOfSeq
    DEF FreeJob, MoreToFree, WalkFollowsList, TypeOK
  <2>2. walked + 1 < Len(order) => cur' = order[walked + 2]
    BY <1>1, <1>4, <2>1 DEF FreeJob, ListShape, TypeOK
  <2>3. freed' = {order[i] : i \in 1..(walked + 1)}
    <3>1. 1..(walked + 1) = (1..walked) \cup {walked + 1}
      BY DEF TypeOK
    <3> QED BY <1>4, <2>1, <3>1 DEF FreeJob, WalkFollowsList
  <2>4. TypeOK'
    BY <1>1, <1>4, <2>1 DEF FreeJob, TypeOK, list
  <2>5. WalkFollowsList'
    BY <1>1, <1>4, <2>1, <2>2, <2>3
    DEF FreeJob, WalkFollowsList, MoreToFree, list, TypeOK
  <2> QED BY <1>2, <2>4, <2>5
<1>5. CASE DestroyEnd
  <2>1. walked = Len(order)
    BY <1>1, <1>5 DEF DestroyEnd, MoreToFree, WalkFollowsList, TypeOK
  <2>2. TypeOK' /\ WalkFollowsList'
    BY <1>1, <1>5, <2>1
    DEF DestroyEnd, TypeOK, WalkFollowsList, MoreToFree, list, walk
  <2> QED BY <1>2, <2>2
<1> QED BY <1>3, <1>4, <1>5

\* Every step of the queue keeps the inductive invariant.
LEMMA StepIInv == IInv /\ [Next]_vars => IInv'
<1> SUFFICES ASSUME IInv, [Next]_vars PROVE IInv'
  OBVIOUS
<1>1. CASE UNCHANGED vars
  BY <1>1 DEF vars, list, walk, IInv, TypeOK, ListShape, WalkFollowsList,
              MoreToFree
<1>2. ASSUME NEW j \in Jobs, AddJob(j) PROVE IInv'
  BY <1>2, AddJobIInv
<1>3. CASE PopJob
  BY <1>3, PopJobIInv
<1>4. CASE DestroyBegin \/ FreeJob \/ DestroyEnd
  BY <1>4, DestroyIInv
<1> QED BY <1>1, <1>2, <1>3, <1>4 DEF Next

LEMMA AlwaysIInv == Spec => []IInv
  BY InitIInv, StepIInv, PTL DEF Spec

-----------------------------------------------------------------------------
\* The pointers and the counter keep their types; in particular size_t size
\* never wraps below zero (job.c:105).
THEOREM TypeCorrect == Spec => []TypeOK
  BY AlwaysIInv, PTL DEF IInv

\* head, tail, size and the next fields describe the queued jobs in the order
\* of their addition, whatever calls came before (job.c:81-109).
THEOREM ListShapeCorrect == Spec => []ListShape
  BY AlwaysIInv, PTL DEF IInv

\* Destroying the queue frees each queued job once and no other (job.c:110).
THEOREM WalkCorrect == Spec => []WalkFollowsList
  BY AlwaysIInv, PTL DEF IInv

-----------------------------------------------------------------------------
\* A new list stands for the empty FIFO queue.
LEMMA InitRefines == Init => Fifo!Init
  BY DEF Init, Fifo!Init

\* Each step of the list is a step of the FIFO queue or invisible to it.
LEMMA StepRefines == IInv /\ IInv' /\ [Next]_vars => [Fifo!Next]_(Fifo!vars)
<1> SUFFICES ASSUME IInv, IInv', [Next]_vars PROVE [Fifo!Next]_(Fifo!vars)
  OBVIOUS
<1> USE DEF IInv, Fifo!vars
<1>1. CASE UNCHANGED vars
  BY <1>1 DEF vars, list, walk
<1>2. ASSUME NEW j \in Jobs, AddJob(j) PROVE Fifo!Put(j)
  BY <1>2 DEF AddJob, Fifo!Put, walk, Range, Fifo!Range
<1>3. CASE PopJob /\ order = <<>>
  <2>1. Fifo!Miss
    BY <1>3, EmptyTests DEF PopJob, PopNothing, Fifo!Miss, walk
  <2> QED BY <2>1 DEF Fifo!Next
<1>4. CASE PopJob /\ order # <<>>
  <2>1. popped' = Head(order) /\ order' = Tail(order)
    BY <1>4, PopJobIInv, EmptyTests DEF PopJob
  <2>2. Fifo!Take
    BY <1>4, <2>1 DEF PopJob, Fifo!Take, walk
  <2> QED BY <2>2 DEF Fifo!Next
<1>5. CASE DestroyBegin \/ FreeJob
  BY <1>5 DEF DestroyBegin, FreeJob
<1>6. CASE DestroyEnd
  <2>1. freed' = Range(order)
    <3>1. freed' = {order[i] : i \in 1..Len(order)}
      BY <1>6 DEF DestroyEnd, WalkFollowsList, walk
    <3> QED BY <3>1, RangeEquality DEF TypeOK
  <2>2. Fifo!Close
    BY <1>6, <2>1 DEF DestroyEnd, Fifo!Close, Range, Fifo!Range
  <2> QED BY <2>2 DEF Fifo!Next
<1> QED BY <1>1, <1>2, <1>3, <1>4, <1>5, <1>6 DEF Next, Fifo!Next

\* The linked list of job.c implements the FIFO queue: jobs come out in the
\* order of their addition, NULL only from an empty queue, and destruction
\* frees exactly what is left.
THEOREM QueueIsFifo == Spec => RefinesFifo
<1>1. Spec => Fifo!Spec
  BY AlwaysIInv, InitRefines, StepRefines, PTL DEF Spec, Fifo!Spec
<1> QED BY <1>1 DEF RefinesFifo
=============================================================================
