-------------------------- MODULE ThreadPoolProofs --------------------------
(***************************************************************************)
(* Proofs about the thread pool of src/src/threadpool.c, for any finite    *)
(* set of workers and any set of jobs.  The invariant is proved in layers: *)
(* types; who holds the mutex and who can be cancelled; where each job is; *)
(* what ensure_jobs_done has waited for; and the count that keeps a worker *)
(* from sleeping while a job is pending.                                   *)
(***************************************************************************)
EXTENDS ThreadPool, SequenceLemmas, FiniteSetTheorems

\* The owner takes the pool apart in order, with no add_work in progress.
OwnerOrder ==
  /\ mutex = Destroyed => owner \in {"mutexDestroyed", "gone"}
  /\ \A j \in Jobs : submit[j] \in {"locked", "added"} => PoolOpen
  /\ QueueFreed => queue = <<>>

\* A worker is masked while it handles what it popped, and again cancellable
\* afterwards (unless it has run into freed memory); it executes only real jobs.
CancelState ==
  \A w \in Workers :
    /\ pc[w] \in {"exec", "run", "warn", "resume"} => w \in masked
    /\ w \in masked => pc[w] \in {"exec", "run", "warn", "resume", "undefined"}
    /\ pc[w] \in {"exec", "run"} => job[w] # NoJob

Control == MutexDiscipline /\ OwnerOrder /\ CancelState /\ CancelledHoldsNoJob

\* A job is in the queue, in the hands of one worker, finished or discarded,
\* in one of these places only, and in one of them exactly once it is added.
OnePlace ==
  /\ IsInjective(queue)
  /\ \A j \in Jobs :
       j \in Range(queue) \cup Running \cup finished \cup discarded
         <=> submit[j] \in {"added", "queued"}
  /\ \A v, w \in Workers : job[v] = job[w] /\ job[v] # NoJob => v = w
  /\ Range(queue) \cap (Running \cup finished \cup discarded) = {}
  /\ Running \cap (finished \cup discarded) = {}
  /\ finished \cap discarded = {}

\* What ensure_jobs_done asked for had been added when it was called.
AskedWereAdded ==
  /\ \A j \in asked : submit[j] = "queued"
  /\ EnsureStarted

IInv == TypeOK /\ Control /\ OnePlace /\ AskedWereAdded /\ NoIdleWhilePending

-----------------------------------------------------------------------------
(***************************************************************************)
(* Types.                                                                  *)
(***************************************************************************)

\* What pop_job returns and leaves behind when the queue is not empty.
LEMMA PoppedIsHead ==
  ASSUME TypeOK, NEW w \in Workers, TakeJob(w)
  PROVE  /\ queue # <<>> /\ queue' = Tail(queue) /\ queue' \in Seq(Jobs)
         /\ Len(queue') = Len(queue) - 1 /\ Head(queue) \in Jobs
         /\ job' = [job EXCEPT ![w] = Head(queue)]
         /\ pc' = [pc EXCEPT ![w] = "unlock"]
  BY HeadTailProperties DEF TakeJob, Popped, TypeOK

\* pthread_cond_signal moves at most one worker, from its wait.
LEMMA SignalMoves ==
  ASSUME TypeOK, SignalOne
  PROVE  \/ Waiting = {} /\ pc' = pc
         \/ \E w \in Workers :
              pc[w] = "wait" /\ pc' = [pc EXCEPT ![w] = "woken"]
<1>1. CASE Waiting = {}
  BY <1>1 DEF SignalOne
<1>2. CASE Waiting # {}
  <2>1. PICK w \in Waiting : pc' = [pc EXCEPT ![w] = "woken"]
    BY <1>2 DEF SignalOne
  <2> QED BY <2>1 DEF Waiting
<1> QED BY <1>1, <1>2

LEMMA InitTypeOK == Init => TypeOK
  BY EmptySeq DEF Init, TypeOK

\* Every call and every step of a worker keeps the types.
LEMMA StepTypeOK == ASSUME TypeOK, CancelState, [Next]_vars PROVE TypeOK'
<1> USE DEF TypeOK, threads, stops, outcome
<1>1. CASE UNCHANGED vars
  BY <1>1 DEF vars
<1>2. ASSUME NEW j \in Jobs, SubmitLock(j) PROVE TypeOK'
  BY <1>2 DEF SubmitLock
<1>3. ASSUME NEW j \in Jobs, SubmitAdd(j) PROVE TypeOK'
  BY <1>3, AppendProperties DEF SubmitAdd
<1>4. ASSUME NEW j \in Jobs, SubmitSignal(j) PROVE TypeOK'
  BY <1>4, SignalMoves DEF SubmitSignal
<1>5. ASSUME NEW w \in Workers, Lock(w) PROVE TypeOK'
  BY <1>5 DEF Lock
<1>6. ASSUME NEW w \in Workers, Pop(w) PROVE TypeOK'
  <2>1. CASE TakeJob(w)
    BY <1>6, <2>1, PoppedIsHead DEF Pop, ReleaseMutex
  <2>2. CASE ~TakeJob(w)
    BY <1>6, <2>2 DEF Pop, ReleaseMutex
  <2> QED BY <2>1, <2>2
<1>7. ASSUME NEW w \in Workers, SpuriousWake(w) \/ Relock(w) PROVE TypeOK'
  BY <1>7 DEF SpuriousWake, Relock
<1>8. ASSUME NEW w \in Workers, Repop(w) PROVE TypeOK'
  <2>1. CASE TakeJob(w)
    BY <1>8, <2>1, PoppedIsHead DEF Repop
  <2>2. CASE ~TakeJob(w)
    BY <1>8, <2>2 DEF Repop
  <2> QED BY <2>1, <2>2
<1>9. ASSUME NEW w \in Workers, Unlock(w) PROVE TypeOK'
  BY <1>9 DEF Unlock, DisableCancel, ReleaseMutex, AfterUnlock
<1>10. ASSUME NEW w \in Workers, Announce(w) \/ Warn(w) \/ Resume(w)
       PROVE  TypeOK'
  BY <1>10 DEF Announce, Warn, LogWorker, Resume
<1>11. ASSUME NEW w \in Workers, ActOnCancel(w) \/ Die(w) \/ TouchFreed(w)
       PROVE  TypeOK'
  BY <1>11 DEF ActOnCancel, Die, TouchFreed
<1>12. CASE EnsureCall \/ EnsureReturn
  BY <1>12 DEF EnsureCall, EnsureReturn
<1>13. ASSUME NEW w \in Workers, StopWorker(w) \/ FreeWorker(w) PROVE TypeOK'
  BY <1>13 DEF StopWorker, FreeWorker
<1>14. CASE DestroyQueue
  BY <1>14, EmptySeq, RangeOfSeq DEF DestroyQueue
<1>15. CASE DestroyMutex \/ FreePool
  BY <1>15 DEF DestroyMutex, FreePool
<1>16. ASSUME NEW w \in Workers, Exec(w) PROVE TypeOK'
  <2>1. job[w] \in Jobs
    BY <1>16 DEF Exec, CancelState
  <2> QED BY <1>16, <2>1 DEF Exec
<1> QED BY <1>1, <1>2, <1>3, <1>4, <1>5, <1>6, <1>7, <1>8, <1>9, <1>10, <1>11,
           <1>12, <1>13, <1>14, <1>15, <1>16
        DEF Next, AddWork, WorkerStep, Destroy

-----------------------------------------------------------------------------
(***************************************************************************)
(* The mutex, cancellation and the order of the destruction.               *)
(***************************************************************************)
LEMMA InitControl == Init => Control
<1> SUFFICES ASSUME Init PROVE Control
  OBVIOUS
<1>1. MutexDiscipline
  BY MutexAssumption DEF Init, MutexDiscipline
<1>2. OwnerOrder /\ CancelState /\ CancelledHoldsNoJob
  BY MutexAssumption
  DEF Init, OwnerOrder, CancelState, CancelledHoldsNoJob, QueueFreed
<1> QED BY <1>1, <1>2 DEF Control

\* Every step keeps the mutex with one thread, a worker that holds a job out
\* of the reach of pthread_cancel, and the queue empty once it is freed.
LEMMA StepControl == ASSUME TypeOK, Control, [Next]_vars PROVE Control'
<1> USE JobsAssumption, MutexAssumption
    DEF TypeOK, Control, threads, stops, outcome, PoolOpen, QueueFreed, PoolFreed
<1>1. CASE UNCHANGED vars
  BY <1>1
  DEF vars, MutexDiscipline, OwnerOrder, CancelState, CancelledHoldsNoJob
<1>2. ASSUME NEW j \in Jobs, SubmitLock(j) PROVE Control'
  <2>1. MutexDiscipline'
    BY <1>2 DEF SubmitLock, MutexDiscipline
  <2>2. OwnerOrder' /\ CancelState' /\ CancelledHoldsNoJob'
    BY <1>2 DEF SubmitLock, OwnerOrder, CancelState, CancelledHoldsNoJob
  <2> QED BY <2>1, <2>2
<1>3. ASSUME NEW j \in Jobs, SubmitAdd(j) PROVE Control'
  <2>1. MutexDiscipline'
    BY <1>3 DEF SubmitAdd, MutexDiscipline
  <2>2. OwnerOrder' /\ CancelState' /\ CancelledHoldsNoJob'
    BY <1>3 DEF SubmitAdd, OwnerOrder, CancelState, CancelledHoldsNoJob
  <2> QED BY <2>1, <2>2
<1>4. ASSUME NEW j \in Jobs, SubmitSignal(j) PROVE Control'
  <2>1. \A w \in Workers : \/ pc'[w] = pc[w]
                           \/ pc[w] = "wait" /\ pc'[w] = "woken"
    BY <1>4, SignalMoves DEF SubmitSignal
  <2>2. mutex = j /\ mutex' = Nobody
    BY <1>4 DEF SubmitSignal, MutexDiscipline
  <2>3. MutexDiscipline'
    BY <1>4, <2>1, <2>2 DEF SubmitSignal, MutexDiscipline
  <2>4. OwnerOrder' /\ CancelState' /\ CancelledHoldsNoJob'
    BY <1>4, <2>1 DEF SubmitSignal, OwnerOrder, CancelState, CancelledHoldsNoJob
  <2> QED BY <2>3, <2>4
<1>5. ASSUME NEW w \in Workers, Lock(w) \/ Relock(w) \/ Die(w) PROVE Control'
  <2>1. MutexDiscipline'
    BY <1>5 DEF Lock, Relock, Die, MutexDiscipline, OwnerOrder
  <2>2. OwnerOrder' /\ CancelState' /\ CancelledHoldsNoJob'
    BY <1>5
    DEF Lock, Relock, Die, OwnerOrder, CancelState, CancelledHoldsNoJob
  <2> QED BY <2>1, <2>2
<1>6. ASSUME NEW w \in Workers, Pop(w) \/ Repop(w), TakeJob(w) PROVE Control'
  <2>1. /\ mutex = w /\ mutex' = mutex
        /\ pc[w] \in {"pop", "repop"} /\ pc' = [pc EXCEPT ![w] = "unlock"]
        /\ UNCHANGED <<masked, submit, owner>> /\ ~QueueFreed
        /\ job' = [job EXCEPT ![w] = Head(queue)] /\ Head(queue) \in Jobs
    BY <1>6, PoppedIsHead DEF Pop, Repop, MutexDiscipline, ReleaseMutex
  <2>2. MutexDiscipline'
    BY <2>1 DEF MutexDiscipline
  <2>3. OwnerOrder' /\ CancelState' /\ CancelledHoldsNoJob'
    BY <2>1 DEF OwnerOrder, CancelState, CancelledHoldsNoJob
  <2> QED BY <2>2, <2>3
<1>7. ASSUME NEW w \in Workers, Pop(w), ~TakeJob(w) PROVE Control'
  <2>1. MutexDiscipline'
    BY <1>7 DEF Pop, ReleaseMutex, MutexDiscipline
  <2>2. OwnerOrder' /\ CancelState' /\ CancelledHoldsNoJob'
    BY <1>7 DEF Pop, ReleaseMutex, OwnerOrder, CancelState, CancelledHoldsNoJob
  <2> QED BY <2>1, <2>2
<1>8. ASSUME NEW w \in Workers, Repop(w), ~TakeJob(w) PROVE Control'
  <2>1. MutexDiscipline'
    BY <1>8 DEF Repop, MutexDiscipline
  <2>2. OwnerOrder' /\ CancelState' /\ CancelledHoldsNoJob'
    BY <1>8 DEF Repop, OwnerOrder, CancelState, CancelledHoldsNoJob
  <2> QED BY <2>1, <2>2
<1>9. ASSUME NEW w \in Workers, Unlock(w) PROVE Control'
  <2>1. MutexDiscipline'
    BY <1>9 DEF Unlock, ReleaseMutex, AfterUnlock, MutexDiscipline
  <2>2. OwnerOrder' /\ CancelState' /\ CancelledHoldsNoJob'
    BY <1>9 DEF Unlock, ReleaseMutex, AfterUnlock, DisableCancel,
                OwnerOrder, CancelState, CancelledHoldsNoJob
  <2> QED BY <2>1, <2>2
<1>10. ASSUME NEW w \in Workers,
              \/ SpuriousWake(w) \/ Announce(w) \/ Exec(w) \/ Warn(w)
              \/ Resume(w) \/ TouchFreed(w)
       PROVE  Control'
  <2>1. MutexDiscipline'
    BY <1>10 DEF SpuriousWake, Announce, Exec, Warn, LogWorker, Resume, TouchFreed,
                 MutexDiscipline
  <2>2. OwnerOrder' /\ CancelState' /\ CancelledHoldsNoJob'
    BY <1>10 DEF SpuriousWake, Announce, Exec, Warn, LogWorker, Resume, TouchFreed,
                 OwnerOrder, CancelState, CancelledHoldsNoJob
  <2> QED BY <2>1, <2>2
<1>11. ASSUME NEW w \in Workers, ActOnCancel(w) PROVE Control'
  <2>1. pc[w] = "wait" /\ pc' = [pc EXCEPT ![w] = "dying"]
    BY <1>11 DEF ActOnCancel, CancelState
  <2>2. MutexDiscipline'
    BY <1>11, <2>1 DEF ActOnCancel, MutexDiscipline
  <2>3. OwnerOrder' /\ CancelState' /\ CancelledHoldsNoJob'
    BY <1>11, <2>1
    DEF ActOnCancel, OwnerOrder, CancelState, CancelledHoldsNoJob
  <2> QED BY <2>2, <2>3
<1>12. CASE EnsureCall \/ EnsureReturn
  BY <1>12 DEF EnsureCall, EnsureReturn, MutexDiscipline, OwnerOrder,
               CancelState, CancelledHoldsNoJob
<1>13. ASSUME NEW w \in Workers, StopWorker(w) \/ FreeWorker(w) PROVE Control'
  BY <1>13 DEF StopWorker, FreeWorker, MutexDiscipline, OwnerOrder, CancelState,
               CancelledHoldsNoJob
<1>14. CASE DestroyQueue \/ FreePool
  BY <1>14 DEF DestroyQueue, FreePool, MutexDiscipline, OwnerOrder,
               CancelState, CancelledHoldsNoJob
<1>15. CASE DestroyMutex
  BY <1>15 DEF DestroyMutex, MutexInUse, MutexDiscipline, OwnerOrder,
               CancelState, CancelledHoldsNoJob
<1> QED BY <1>1, <1>2, <1>3, <1>4, <1>5, <1>6, <1>7, <1>8, <1>9, <1>10, <1>11,
           <1>12, <1>13, <1>14, <1>15
        DEF Next, AddWork, WorkerStep, Destroy

-----------------------------------------------------------------------------
(***************************************************************************)
(* Where each job is.                                                      *)
(***************************************************************************)

\* The steps that move no job.
MovesNoJob ==
  /\ UNCHANGED <<queue, job, finished, discarded>>
  /\ \A j \in Jobs :
       submit'[j] \in {"added", "queued"} <=> submit[j] \in {"added", "queued"}

\* A pop, the first or the one after the wait, that finds a job.
Takes(w) == (Pop(w) \/ Repop(w)) /\ TakeJob(w)

LEMMA QuietSteps ==
  ASSUME TypeOK, [Next]_vars,
         \A j \in Jobs : ~SubmitAdd(j),
         \A w \in Workers : ~Takes(w) /\ ~Exec(w),
         ~DestroyQueue
  PROVE  MovesNoJob
<1> USE DEF TypeOK, threads, stops, outcome, MovesNoJob
<1>1. CASE UNCHANGED vars
  BY <1>1 DEF vars
<1>2. ASSUME NEW j \in Jobs, SubmitLock(j) \/ SubmitSignal(j)
      PROVE  MovesNoJob
  BY <1>2 DEF SubmitLock, SubmitSignal
<1>3. ASSUME NEW w \in Workers, Lock(w) \/ Pop(w) \/ Relock(w) \/ Repop(w)
      PROVE  MovesNoJob
  BY <1>3 DEF Takes, Lock, Pop, Relock, Repop
<1>4. ASSUME NEW w \in Workers,
             Unlock(w) \/ Announce(w) \/ Warn(w) \/ Resume(w) \/ SpuriousWake(w)
      PROVE  MovesNoJob
  BY <1>4 DEF Unlock, Announce, Warn, LogWorker, Resume, SpuriousWake
<1>5. ASSUME NEW w \in Workers, ActOnCancel(w) \/ Die(w) \/ TouchFreed(w)
      PROVE  MovesNoJob
  BY <1>5 DEF ActOnCancel, Die, TouchFreed
<1>6. ASSUME NEW w \in Workers, StopWorker(w) \/ FreeWorker(w) PROVE MovesNoJob
  BY <1>6 DEF StopWorker, FreeWorker
<1>7. CASE EnsureCall \/ EnsureReturn \/ DestroyMutex \/ FreePool
  BY <1>7 DEF EnsureCall, EnsureReturn, DestroyMutex, FreePool
<1> QED BY <1>1, <1>2, <1>3, <1>4, <1>5, <1>6, <1>7
        DEF Next, AddWork, WorkerStep, Destroy

LEMMA InitOnePlace == Init => OnePlace
<1> SUFFICES ASSUME Init PROVE OnePlace
  OBVIOUS
<1>1. Range(queue) = {} /\ IsInjective(queue)
  BY DEF Init, Range, IsInjective
<1>2. Running = {}
  BY DEF Init, Running
<1> QED BY <1>1, <1>2 DEF Init, OnePlace

\* threadpool_add_work puts a job that is nowhere into the queue.
LEMMA SubmitAddOnePlace ==
  ASSUME TypeOK, OnePlace, NEW j \in Jobs, SubmitAdd(j)
  PROVE  OnePlace'
<1>1. j \notin Range(queue) \cup Running \cup finished \cup discarded
  BY DEF SubmitAdd, OnePlace
<1>2. /\ queue' = Append(queue, j)
      /\ UNCHANGED <<job, finished, discarded>>
      /\ submit' = [submit EXCEPT ![j] = "added"]
  BY DEF SubmitAdd, threads, outcome
<1>3. Range(queue') = Range(queue) \cup {j} /\ IsInjective(queue')
  BY <1>1, <1>2, RangeAppend, DistinctAppend DEF OnePlace, TypeOK
<1>4. Running' = Running
  BY <1>2 DEF Running
<1> QED BY <1>1, <1>2, <1>3, <1>4 DEF OnePlace, TypeOK

\* A pop moves the head of the queue into the hands of one idle worker.
LEMMA TakesOnePlace ==
  ASSUME TypeOK, Control, OnePlace, NEW w \in Workers, Takes(w)
  PROVE  /\ OnePlace'
         /\ Running' = Running \cup {Head(queue)}
         /\ job[w] = NoJob
         /\ UNCHANGED <<finished, discarded, submit>>
<1> DEFINE h == Head(queue)
<1>1. job[w] = NoJob /\ UNCHANGED <<finished, discarded, submit>>
  BY DEF Takes, Pop, Repop, outcome, Control, CancelledHoldsNoJob
<1>2. /\ queue # <<>> /\ queue' = Tail(queue) /\ h \in Jobs
      /\ job' = [job EXCEPT ![w] = h]
  BY PoppedIsHead DEF Takes
<1>3. /\ Range(queue') = Range(queue) \ {h} /\ h \in Range(queue)
      /\ IsInjective(queue')
  BY <1>2, TailOfDistinct DEF OnePlace, TypeOK
<1>4. h # NoJob /\ \A v \in Workers : job[v] # h
  BY <1>2, <1>3, JobsAssumption DEF OnePlace, Running
<1>5. Running' = Running \cup {h}
  BY <1>1, <1>2, <1>4 DEF Running, TypeOK
<1>6. \A u, v \in Workers : job'[u] = job'[v] /\ job'[u] # NoJob => u = v
  BY <1>2, <1>4 DEF OnePlace, TypeOK
<1> QED BY <1>1, <1>3, <1>4, <1>5, <1>6 DEF OnePlace

\* Executing a job moves it from its worker to the finished ones.
LEMMA ExecOnePlace ==
  ASSUME TypeOK, CancelState, OnePlace, NEW w \in Workers, Exec(w)
  PROVE  /\ OnePlace'
         /\ Running' = Running \ {job[w]}
         /\ job[w] \in Running
<1>1. /\ job[w] \in Running /\ job[w] # NoJob
      /\ job' = [job EXCEPT ![w] = NoJob]
      /\ finished' = finished \cup {job[w]}
      /\ UNCHANGED <<queue, discarded, submit>>
  BY DEF Exec, CancelState, Running
<1>2. \A v \in Workers : v # w => job[v] # job[w]
  BY <1>1 DEF OnePlace
<1>3. Running' = Running \ {job[w]}
  BY <1>1, <1>2 DEF Running, TypeOK
<1>4. \A u, v \in Workers : job'[u] = job'[v] /\ job'[u] # NoJob => u = v
  BY <1>1 DEF OnePlace, TypeOK
<1> QED BY <1>1, <1>3, <1>4 DEF OnePlace

LEMMA StepOnePlace ==
  ASSUME TypeOK, Control, OnePlace, [Next]_vars
  PROVE  OnePlace'
<1>1. ASSUME NEW j \in Jobs, SubmitAdd(j) PROVE OnePlace'
  BY <1>1, SubmitAddOnePlace
<1>2. ASSUME NEW w \in Workers, Takes(w) PROVE OnePlace'
  BY <1>2, TakesOnePlace
<1>3. ASSUME NEW w \in Workers, Exec(w) PROVE OnePlace'
  BY <1>3, ExecOnePlace DEF Control
<1>4. CASE DestroyQueue
  <2>1. /\ queue' = <<>> /\ discarded' = discarded \cup Range(queue)
        /\ UNCHANGED <<job, finished, submit>>
    BY <1>4 DEF DestroyQueue, threads
  <2>2. Range(queue') = {} /\ IsInjective(queue') /\ Running' = Running
    BY <2>1 DEF Range, IsInjective, Running
  <2> QED BY <2>1, <2>2 DEF OnePlace
<1>5. CASE MovesNoJob
  BY <1>5 DEF MovesNoJob, OnePlace, Running
<1> QED BY <1>1, <1>2, <1>3, <1>4, <1>5, QuietSteps

-----------------------------------------------------------------------------
(***************************************************************************)
(* threadpool_ensure_jobs_done.                                            *)
(***************************************************************************)

\* The queue only grows by jobs that nobody has asked for yet.
LEMMA StepAskedWereAdded ==
  ASSUME TypeOK, Control, OnePlace, AskedWereAdded, [Next]_vars
  PROVE  AskedWereAdded'
<1> USE DEF AskedWereAdded, EnsureStarted
<1>1. ASSUME NEW j \in Jobs, SubmitAdd(j) PROVE AskedWereAdded'
  <2>1. /\ submit[j] = "locked" /\ submit' = [submit EXCEPT ![j] = "added"]
        /\ queue' = Append(queue, j) /\ UNCHANGED <<owner, asked>>
    BY <1>1 DEF SubmitAdd
  <2>2. Range(queue') = Range(queue) \cup {j} /\ j \notin asked
    BY <2>1, RangeAppend DEF TypeOK
  <2> QED BY <2>1, <2>2 DEF TypeOK
<1>2. ASSUME NEW w \in Workers, Takes(w) PROVE AskedWereAdded'
  <2>1. queue' = Tail(queue) /\ queue # <<>> /\ UNCHANGED <<owner, asked, submit>>
    BY <1>2, PoppedIsHead DEF Takes, Pop, Repop
  <2>2. Range(queue') \subseteq Range(queue)
    BY <2>1, TailOfDistinct DEF TypeOK, OnePlace
  <2> QED BY <2>1, <2>2
<1>3. CASE EnsureCall
  BY <1>3 DEF EnsureCall
<1>4. CASE EnsureReturn
  <2>1. queue = <<>>
    BY <1>4, EmptySeq DEF EnsureReturn, QueueDrained, TypeOK
  <2> QED BY <1>4, <2>1 DEF EnsureReturn, Range
<1>5. ASSUME NEW j \in Jobs, SubmitLock(j) \/ SubmitSignal(j)
      PROVE  AskedWereAdded'
  BY <1>5 DEF SubmitLock, SubmitSignal, TypeOK
<1>6. ASSUME NEW w \in Workers, StopWorker(w) \/ FreeWorker(w)
      PROVE  AskedWereAdded'
  BY <1>6 DEF StopWorker, FreeWorker
<1>7. CASE DestroyQueue \/ DestroyMutex \/ FreePool
  BY <1>7 DEF DestroyQueue, DestroyMutex, FreePool
<1>8. CASE UNCHANGED <<queue, submit, owner, asked>>
  BY <1>8
<1>9. ASSUME NEW w \in Workers, ~Takes(w), WorkerStep(w) \/ SpuriousWake(w)
      PROVE  UNCHANGED <<queue, submit, owner, asked>>
  BY <1>9 DEF WorkerStep, Lock, Pop, Relock, Repop, Unlock, Announce, Exec,
              Warn, LogWorker, Resume,
              ActOnCancel, Die, TouchFreed, SpuriousWake, Takes
<1> QED BY <1>1, <1>2, <1>3, <1>4, <1>5, <1>6, <1>7, <1>8, <1>9
        DEF Next, AddWork, Destroy, vars

-----------------------------------------------------------------------------
(***************************************************************************)
(* No worker sleeps while a job waits for one.                             *)
(***************************************************************************)
LEMMA CountsAreNat ==
  ASSUME TypeOK, MutexDiscipline
  PROVE  /\ IsFiniteSet(Heading) /\ Cardinality(Heading) \in Nat
         /\ IsFiniteSet(Signalling) /\ Cardinality(Signalling) \in Nat
         /\ Len(queue) \in Nat
<1>1. Heading \in SUBSET Workers
  BY DEF Heading
<1>2. Signalling \in SUBSET {mutex}
  BY DEF Signalling, MutexDiscipline
<1>3. IsFiniteSet(Heading) /\ IsFiniteSet(Signalling)
  BY <1>1, <1>2, FS_Subset, FS_Singleton, WorkersAssumption
<1> QED BY <1>3, FS_CardinalityType, LenProperties DEF TypeOK

\* Steps after which no fewer workers head for the queue and no more sleep.
NoFewerHeading ==
  /\ UNCHANGED <<queue, Signalling>>
  /\ Heading \subseteq Heading'
  /\ Waiting' \subseteq Waiting

LEMMA NoFewerHeadingSteps ==
  ASSUME TypeOK, NEW w \in Workers,
         \/ Lock(w) \/ SpuriousWake(w) \/ Relock(w) \/ Unlock(w) \/ Announce(w)
         \/ Exec(w) \/ Warn(w) \/ Resume(w) \/ ActOnCancel(w) \/ Die(w)
  PROVE  NoFewerHeading
<1> USE DEF NoFewerHeading, Heading, Waiting, Signalling, TypeOK
<1>1. CASE Lock(w) \/ SpuriousWake(w) \/ Relock(w) \/ Die(w)
  BY <1>1 DEF Lock, SpuriousWake, Relock, Die
<1>2. CASE Unlock(w) \/ Announce(w) \/ Exec(w) \/ Warn(w) \/ Resume(w)
  BY <1>2 DEF Unlock, AfterUnlock, Announce, Exec, Warn, LogWorker, Resume
<1>3. CASE ActOnCancel(w)
  BY <1>3 DEF ActOnCancel
<1> QED BY <1>1, <1>2, <1>3

\* A job added meets a worker still to pop, or wakes one (threadpool.c:33);
\* a worker goes to sleep only when it has seen the queue empty.
LEMMA StepNoIdle ==
  ASSUME TypeOK, Control, NoIdleWhilePending, [Next]_vars, TypeOK', Control'
  PROVE  NoIdleWhilePending'
<1> USE DEF Control
<1> DEFINE heading == Cardinality(Heading)
           signalling == Cardinality(Signalling)
<1>1. /\ heading \in Nat /\ signalling \in Nat /\ Len(queue) \in Nat
      /\ heading' \in Nat /\ signalling' \in Nat /\ Len(queue') \in Nat
      /\ IsFiniteSet(Heading) /\ IsFiniteSet(Signalling)
      /\ IsFiniteSet(Heading')
  <2>1. /\ IsFiniteSet(Heading') /\ heading' \in Nat /\ signalling' \in Nat
        /\ Len(queue') \in Nat
    <3>1. Heading' \in SUBSET Workers /\ Signalling' \in SUBSET {mutex'}
      BY DEF Heading, Signalling, MutexDiscipline
    <3>2. IsFiniteSet(Heading') /\ IsFiniteSet(Signalling')
      BY <3>1, FS_Subset, FS_Singleton, WorkersAssumption
    <3> QED BY <3>2, FS_CardinalityType, LenProperties DEF TypeOK
  <2> QED BY <2>1, CountsAreNat
<1>2. CASE queue' = <<>>
  BY <1>1, <1>2, EmptySeq DEF NoIdleWhilePending
<1>3. CASE NoFewerHeading
  <2>1. heading <= heading'
    BY <1>1, <1>3, FS_Subset DEF NoFewerHeading
  <2> QED BY <1>1, <1>3, <2>1 DEF NoFewerHeading, NoIdleWhilePending
<1>4. ASSUME NEW j \in Jobs, SubmitAdd(j) PROVE NoIdleWhilePending'
  <2>1. Heading' = Heading /\ Waiting' = Waiting
    BY <1>4 DEF SubmitAdd, Heading, Waiting, threads
  <2>2. Signalling' = Signalling \cup {j} /\ j \notin Signalling
    BY <1>4 DEF SubmitAdd, Signalling, TypeOK
  <2>3. signalling' = signalling + 1
    BY <1>1, <2>2, FS_AddElement
  <2>4. Len(queue') = Len(queue) + 1
    BY <1>4, AppendProperties DEF SubmitAdd, TypeOK
  <2> QED BY <1>1, <2>1, <2>3, <2>4 DEF NoIdleWhilePending
<1>5. ASSUME NEW j \in Jobs, SubmitSignal(j) PROVE NoIdleWhilePending'
  <2>1. Signalling' = Signalling \ {j} /\ j \in Signalling /\ queue' = queue
    BY <1>5 DEF SubmitSignal, Signalling, TypeOK
  <2>2. signalling' = signalling - 1
    BY <1>1, <2>1, FS_RemoveElement
  <2>3. CASE Waiting = {} /\ pc' = pc
    BY <2>3 DEF NoIdleWhilePending, Waiting
  <2>4. ASSUME NEW w \in Workers,
               pc[w] = "wait", pc' = [pc EXCEPT ![w] = "woken"]
        PROVE  NoIdleWhilePending'
    <3>1. Heading' = Heading \cup {w} /\ w \notin Heading
      BY <2>4 DEF Heading, TypeOK
    <3>2. heading' = heading + 1
      BY <1>1, <3>1, FS_AddElement
    <3>3. w \in Waiting
      BY <2>4 DEF Waiting
    <3> QED BY <1>1, <2>1, <2>2, <3>2, <3>3 DEF NoIdleWhilePending
  <2> QED BY <1>5, <2>3, <2>4, SignalMoves DEF SubmitSignal
<1>6. ASSUME NEW w \in Workers, Takes(w) PROVE NoIdleWhilePending'
  <2>1. /\ pc[w] \in {"pop", "repop"} /\ pc' = [pc EXCEPT ![w] = "unlock"]
        /\ Len(queue') = Len(queue) - 1 /\ submit' = submit
    BY <1>6, PoppedIsHead DEF Takes, Pop, Repop
  <2>2. Heading' = Heading \ {w} /\ w \in Heading
    BY <2>1 DEF Heading, TypeOK
  <2>3. heading' = heading - 1
    BY <1>1, <2>2, FS_RemoveElement
  <2>4. Waiting' = Waiting /\ Signalling' = Signalling
    BY <2>1 DEF Waiting, Signalling, TypeOK
  <2> QED BY <1>1, <2>1, <2>3, <2>4 DEF NoIdleWhilePending
<1>7. ASSUME NEW w \in Workers, Pop(w) \/ Repop(w), ~Takes(w)
      PROVE  queue' = <<>>
  BY <1>7 DEF Pop, Repop, Takes
<1>8. ASSUME NEW w \in Workers, TouchFreed(w)
      PROVE  queue' = <<>> \/ NoFewerHeading
  <2>1. CASE PoolFreed \/ QueueFreed
    BY <1>8, <2>1 DEF TouchFreed, OwnerOrder, PoolFreed, QueueFreed
  <2>2. CASE pc[w] \in {"exec", "warn"}
    BY <1>8, <2>2
    DEF TouchFreed, NoFewerHeading, Heading, Waiting, Signalling, TypeOK
  <2> QED BY <1>8, <2>1, <2>2 DEF TouchFreed
<1>9. CASE DestroyQueue
  BY <1>2, <1>9 DEF DestroyQueue
<1>10. ASSUME NEW j \in Jobs, SubmitLock(j) PROVE NoFewerHeading
  BY <1>10 DEF SubmitLock, NoFewerHeading, Heading, Waiting, Signalling,
               threads, TypeOK
<1>11. ASSUME NEW w \in Workers, StopWorker(w) \/ FreeWorker(w)
       PROVE  NoFewerHeading
  BY <1>11 DEF StopWorker, FreeWorker, NoFewerHeading, Heading, Waiting, Signalling, threads
<1>12. CASE EnsureCall \/ EnsureReturn \/ DestroyMutex \/ FreePool
  <2>1. NoFewerHeading
    BY <1>12 DEF EnsureCall, EnsureReturn, DestroyMutex, FreePool,
                 NoFewerHeading, Heading, Waiting, Signalling, threads
  <2> QED BY <1>3, <2>1
<1>13. CASE UNCHANGED vars
  <2>1. NoFewerHeading
    BY <1>13 DEF vars, NoFewerHeading, Heading, Waiting, Signalling, threads
  <2> QED BY <1>3, <2>1
<1> QED BY <1>2, <1>3, <1>4, <1>5, <1>6, <1>7, <1>8, <1>9, <1>10, <1>11, <1>12,
           <1>13, NoFewerHeadingSteps
        DEF Next, AddWork, WorkerStep, Destroy

-----------------------------------------------------------------------------
(***************************************************************************)
(* The invariant, and what follows from it.                                *)
(***************************************************************************)
LEMMA InitIInv == Init => IInv
<1> SUFFICES ASSUME Init PROVE IInv
  OBVIOUS
<1>1. TypeOK /\ Control /\ OnePlace
  BY InitTypeOK, InitControl, InitOnePlace
<1>2. AskedWereAdded
  BY DEF Init, AskedWereAdded, EnsureStarted
<1>3. NoIdleWhilePending
  BY DEF Init, NoIdleWhilePending, Waiting
<1> QED BY <1>1, <1>2, <1>3 DEF IInv

LEMMA StepIInv == IInv /\ [Next]_vars => IInv'
<1> SUFFICES ASSUME IInv, [Next]_vars PROVE IInv'
  OBVIOUS
<1>1. TypeOK'
  BY StepTypeOK DEF IInv, Control
<1>2. Control'
  BY StepControl DEF IInv
<1>3. OnePlace'
  BY StepOnePlace DEF IInv
<1>4. AskedWereAdded'
  BY StepAskedWereAdded DEF IInv
<1>5. NoIdleWhilePending'
  BY <1>1, <1>2, StepNoIdle DEF IInv
<1> QED BY <1>1, <1>2, <1>3, <1>4, <1>5 DEF IInv

LEMMA AlwaysIInv == Spec => []IInv
  BY InitIInv, StepIInv, PTL DEF Spec

\* Every variable keeps its type; in particular only real jobs are executed
\* (threadpool.c:64).
THEOREM TypeCorrect == Spec => []TypeOK
  BY AlwaysIInv, PTL DEF IInv

\* Mutual exclusion on pool->mutex, and what cancellation does to it
\* (threadpool.c:56-63 and 85-89).
THEOREM MutexCorrect == Spec => []MutexDiscipline
  BY AlwaysIInv, PTL DEF IInv, Control

\* pthread_cancel ends no worker that holds a job (threadpool.c:62-71).
THEOREM NoJobLostToCancel == Spec => []CancelledHoldsNoJob
  BY AlwaysIInv, PTL DEF IInv, Control

\* No wakeup is lost: sleeping workers imply a worker for each queued job
\* (threadpool.c:33 and 57-61).
THEOREM WorkConserving == Spec => []NoIdleWhilePending
  BY AlwaysIInv, PTL DEF IInv

\* What ensure_jobs_done really ensures (threadpool.c:37-40).
THEOREM EnsureCorrect == Spec => []EnsureStarted
  BY AlwaysIInv, PTL DEF IInv, AskedWereAdded

\* A job is in one place at a time: never executed twice, never executed and
\* freed (threadpool.c:51-74, job.c:110-121).
THEOREM JobsInOnePlace == Spec => []OnePlace
  BY AlwaysIInv, PTL DEF IInv

-----------------------------------------------------------------------------
(***************************************************************************)
(* The pool implements JobPool.                                            *)
(***************************************************************************)

\* Cardinality means the same inside the abstract pool and outside it.
LEMMA SameCardinality == ASSUME NEW S PROVE Pool!Cardinality(S) = Cardinality(S)
  BY DEF Pool!Cardinality, Cardinality

\* The jobs the abstract pool knows are those that are somewhere.
LEMMA KnownIsSomewhere ==
  Pool!Known = Range(queue) \cup Running \cup finished \cup discarded
  BY DEF Pool!Known, Pool!Range, Range

\* While one worker is about to take a job, fewer jobs run than there are
\* workers.
LEMMA RoomForOne ==
  ASSUME TypeOK, NEW w \in Workers, job[w] = NoJob
  PROVE  Cardinality(Running) < Cardinality(Workers)
<1> DEFINE busy == {v \in Workers : job[v] # NoJob}
           hand == [v \in busy |-> job[v]]
<1>1. busy \in SUBSET (Workers \ {w})
  OBVIOUS
<1>2. /\ IsFiniteSet(Workers \ {w})
      /\ Cardinality(Workers \ {w}) = Cardinality(Workers) - 1
  BY FS_RemoveElement, WorkersAssumption
<1>3. IsFiniteSet(busy) /\ Cardinality(busy) <= Cardinality(Workers) - 1
  BY <1>1, <1>2, FS_Subset
<1>4. hand \in Surjection(busy, Running)
  <2>1. hand \in [busy -> Running]
    BY DEF Running
  <2>2. \A j \in Running : \E v \in busy : hand[v] = j
    BY DEF Running
  <2> QED BY <2>1, <2>2 DEF Surjection
<1>5. IsFiniteSet(Running) /\ Cardinality(Running) <= Cardinality(busy)
  BY <1>3, <1>4, FS_Surjection
<1>6. /\ Cardinality(Running) \in Nat /\ Cardinality(busy) \in Nat
      /\ Cardinality(Workers) \in Nat
  BY <1>3, <1>5, FS_CardinalityType, WorkersAssumption
<1> QED BY <1>3, <1>5, <1>6

LEMMA InitRefines == Init => Pool!Init
  BY DEF Init, Pool!Init, Running

\* Adding, popping, executing and discarding a job are the steps of the
\* abstract pool; everything else is invisible to it.
LEMMA StepRefines == IInv /\ [Next]_vars => [Pool!Next]_(Pool!vars)
<1> SUFFICES ASSUME IInv, [Next]_vars PROVE [Pool!Next]_(Pool!vars)
  OBVIOUS
<1> USE DEF IInv
<1>1. ASSUME NEW j \in Jobs, SubmitAdd(j) PROVE Pool!Next
  <2>1. j \notin Pool!Known
    BY <1>1, KnownIsSomewhere DEF SubmitAdd, OnePlace
  <2>2. Running' = Running
    BY <1>1 DEF SubmitAdd, Running, threads
  <2>3. Pool!Submit(j)
    BY <1>1, <2>1, <2>2 DEF SubmitAdd, Pool!Submit, outcome
  <2> QED BY <2>3 DEF Pool!Next
<1>2. ASSUME NEW w \in Workers, Takes(w) PROVE Pool!Next
  <2>1. /\ Running' = Running \cup {Head(queue)} /\ job[w] = NoJob
        /\ UNCHANGED <<finished, discarded>>
    BY <1>2, TakesOnePlace
  <2>2. queue # <<>> /\ queue' = Tail(queue)
    BY <1>2, PoppedIsHead DEF Takes
  <2>3. Pool!Start
    BY <2>1, <2>2, RoomForOne, SameCardinality DEF Pool!Start
  <2> QED BY <2>3 DEF Pool!Next
<1>3. ASSUME NEW w \in Workers, Exec(w) PROVE Pool!Next
  <2>1. /\ Running' = Running \ {job[w]} /\ job[w] \in Running
        /\ job[w] \in Jobs
    BY <1>3, ExecOnePlace DEF Control, Running, TypeOK
  <2>2. Pool!Finish(job[w])
    BY <1>3, <2>1 DEF Exec, Pool!Finish
  <2> QED BY <2>1, <2>2 DEF Pool!Next
<1>4. CASE DestroyQueue
  <2>1. Running' = Running
    BY <1>4 DEF DestroyQueue, Running, threads
  <2>2. Pool!Discard
    BY <1>4, <2>1 DEF DestroyQueue, Pool!Discard, Pool!Range, Range
  <2> QED BY <2>2 DEF Pool!Next
<1>5. CASE MovesNoJob
  BY <1>5 DEF MovesNoJob, Running, Pool!vars
<1> QED BY <1>1, <1>2, <1>3, <1>4, <1>5, QuietSteps

\* The thread pool keeps what JobPool promises: jobs start in the order of
\* their addition, each once, on no more than Size workers.
THEOREM PoolIsJobPool == Spec => RefinesJobPool
<1>1. Spec => Pool!Spec
  BY AlwaysIInv, InitRefines, StepRefines, PTL DEF Spec, Pool!Spec
<1> QED BY <1>1 DEF RefinesJobPool
=============================================================================
