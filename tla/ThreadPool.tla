----------------------------- MODULE ThreadPool -----------------------------
(***************************************************************************)
(* The thread pool of src/src/threadpool.c: the worker threads, the threads *)
(* that call threadpool_add_work, and the owner, who may wait in            *)
(* threadpool_ensure_jobs_done and in the end calls threadpool_destroy.     *)
(*                                                                          *)
(* The job queue is the FIFO queue that JobQueue is shown to implement; a   *)
(* call of add_job or pop_job is one step.  threadpool_job_exec is one step *)
(* here and is opened up in JobResult.  Mutex, condition variable and       *)
(* cancellation are those of glibc: a cancelled waiter takes the mutex back *)
(* before it ends, pthread_join of a detached thread returns at once,       *)
(* pthread_mutex_destroy refuses a mutex in use, and pthread_cond_destroy   *)
(* waits until nobody waits.  A step that touches freed memory - the pool,  *)
(* its queue, or the worker's own struct - leaves the worker "undefined":   *)
(* nothing is said of it from then on.                                      *)
(***************************************************************************)
EXTENDS Naturals, Sequences, FiniteSets, Functions

CONSTANTS
  Workers,   \* the worker threads
  Jobs,      \* the jobs that may be added, each by a call of its own
  NoJob,     \* a NULL job pointer
  Nobody,    \* pool->mutex is unlocked
  Destroyed  \* pool->mutex has been destroyed

\* threadpool_new refuses a pool without workers (threadpool.c:13).
ASSUME WorkersAssumption == IsFiniteSet(Workers) /\ Workers # {}
ASSUME JobsAssumption == NoJob \notin Jobs /\ Workers \cap Jobs = {}
ASSUME MutexAssumption ==
  /\ Nobody # Destroyed
  /\ {Nobody, Destroyed} \cap (Workers \cup Jobs) = {}

VARIABLES
  mutex,      \* pool->mutex: its holder, Nobody or Destroyed
  queue,      \* pool->queue
  pc,         \* where each worker is
  job,        \* the local variable job of threadpool_worker_func
  cancelled,  \* workers with a pthread_cancel pending or acted on
  freed,      \* workers whose threadpool_worker_t has been freed
  masked,     \* workers with their cancel state disabled
  submit,     \* where the call of threadpool_add_work for each job is
  owner,      \* what the owner of the pool is doing
  asked,      \* jobs added before the last call of ensure_jobs_done
  finished,   \* jobs executed
  discarded   \* jobs freed by threadpool_job_queue_destroy

threads == <<pc, job, masked>>
outcome == <<finished, discarded>>
stops == <<cancelled, freed>>
vars == <<mutex, queue, threads, stops, submit, owner, asked, outcome>>

Waiting == {w \in Workers : pc[w] = "wait"}

\* threadpool_new; every worker is on its way to its first lock, cancellable.
Init ==
  /\ mutex = Nobody
  /\ queue = <<>>
  /\ pc = [w \in Workers |-> "lock"]
  /\ job = [w \in Workers |-> NoJob]
  /\ cancelled = {}
  /\ freed = {}
  /\ masked = {}
  /\ submit = [j \in Jobs |-> "new"]
  /\ owner = "open"
  /\ asked = {}
  /\ finished = {}
  /\ discarded = {}

PoolOpen == owner \in {"open", "ensuring", "ensured"}
QueueFreed == owner \in {"queueFreed", "mutexDestroyed", "gone"}
PoolFreed == owner = "gone"

-----------------------------------------------------------------------------
(***************************************************************************)
(* threadpool_add_work.  Calls are made while the pool is open.            *)
(***************************************************************************)
SubmitLock(j) ==
  /\ PoolOpen
  /\ submit[j] = "new"
  /\ mutex = Nobody
  /\ mutex' = j
  /\ submit' = [submit EXCEPT ![j] = "locked"]
  /\ UNCHANGED <<queue, threads, stops, owner, asked, outcome>>

SubmitAdd(j) ==
  /\ submit[j] = "locked"
  /\ queue' = Append(queue, j)
  /\ submit' = [submit EXCEPT ![j] = "added"]
  /\ UNCHANGED <<mutex, threads, stops, owner, asked, outcome>>

SignalNobody == UNCHANGED pc        \* mutated form of SignalOne
SignalOne ==
  IF Waiting = {}
  THEN UNCHANGED pc
  ELSE \E w \in Waiting : pc' = [pc EXCEPT ![w] = "woken"]

\* pthread_cond_signal and, with no step of another thread that could tell
\* the difference, pthread_mutex_unlock.
SubmitSignal(j) ==
  /\ submit[j] = "added"
  /\ SignalOne
  /\ mutex' = Nobody
  /\ submit' = [submit EXCEPT ![j] = "queued"]
  /\ UNCHANGED <<queue, job, masked, stops, owner, asked, outcome>>

-----------------------------------------------------------------------------
(***************************************************************************)
(* threadpool_worker_func.                                                 *)
(***************************************************************************)

\* Locking a destroyed mutex fails with EINVAL, which nobody looks at.
Lock(w) ==
  /\ pc[w] = "lock"
  /\ ~PoolFreed
  /\ mutex \in {Nobody, Destroyed}
  /\ mutex' = IF mutex = Nobody THEN w ELSE mutex
  /\ pc' = [pc EXCEPT ![w] = "pop"]
  /\ UNCHANGED <<queue, job, masked, stops, submit, owner, asked, outcome>>

PopLast ==                          \* mutated form of Popped
  [first |-> queue[Len(queue)], rest |-> SubSeq(queue, 1, Len(queue) - 1)]
Popped == [first |-> Head(queue), rest |-> Tail(queue)]

\* pop_job finds a job.
TakeJob(w) ==
  /\ queue # <<>>
  /\ job' = [job EXCEPT ![w] = Popped.first]
  /\ queue' = Popped.rest
  /\ pc' = [pc EXCEPT ![w] = "unlock"]

KeepMutex == UNCHANGED mutex        \* mutated form of ReleaseMutex
ReleaseMutex == mutex' = Nobody

\* The first pop; on NULL pthread_cond_wait releases the mutex.
Pop(w) ==
  /\ pc[w] = "pop"
  /\ ~QueueFreed
  /\ \/ TakeJob(w) /\ UNCHANGED mutex
     \/ /\ queue = <<>>
        /\ ReleaseMutex
        /\ pc' = [pc EXCEPT ![w] = "wait"]
        /\ UNCHANGED <<queue, job>>
  /\ UNCHANGED <<masked, stops, submit, owner, asked, outcome>>

\* POSIX lets pthread_cond_wait return although nobody signalled.
SpuriousWake(w) ==
  /\ pc[w] = "wait"
  /\ pc' = [pc EXCEPT ![w] = "woken"]
  /\ UNCHANGED
       <<mutex, queue, job, masked, stops, submit, owner, asked, outcome>>

Relock(w) ==
  /\ pc[w] = "woken"
  /\ mutex = Nobody
  /\ mutex' = w
  /\ pc' = [pc EXCEPT ![w] = "repop"]
  /\ UNCHANGED <<queue, job, masked, stops, submit, owner, asked, outcome>>

\* The second pop, after the wait; it is not repeated when it finds nothing.
Repop(w) ==
  /\ pc[w] = "repop"
  /\ ~QueueFreed
  /\ \/ TakeJob(w)
     \/ /\ queue = <<>>
        /\ pc' = [pc EXCEPT ![w] = "unlock"]
        /\ UNCHANGED <<queue, job>>
  /\ UNCHANGED <<mutex, masked, stops, submit, owner, asked, outcome>>

StayCancellable(w) == UNCHANGED masked  \* mutated form of DisableCancel
DisableCancel(w) == masked' = masked \cup {w}

AlwaysExec(w) == "exec"             \* mutated form of AfterUnlock
AfterUnlock(w) == IF job[w] = NoJob THEN "resume" ELSE "exec"

Unlock(w) ==
  /\ pc[w] = "unlock"
  /\ ~PoolFreed
  /\ DisableCancel(w)
  /\ ReleaseMutex
  /\ pc' = [pc EXCEPT ![w] = AfterUnlock(w)]
  /\ UNCHANGED <<queue, job, stops, submit, owner, asked, outcome>>

\* The log entry before a job, and the one after a job that has failed, read
\* the number of the worker from its struct.
LogWorker(w, from, to) ==
  /\ pc[w] = from
  /\ w \notin freed
  /\ pc' = [pc EXCEPT ![w] = to]
  /\ UNCHANGED
       <<mutex, queue, job, masked, stops, submit, owner, asked, outcome>>

Announce(w) == LogWorker(w, "exec", "run")
Warn(w) == LogWorker(w, "warn", "resume")

\* A job fails when it has no function.
Exec(w) ==
  /\ pc[w] = "run"
  /\ finished' = finished \cup {job[w]}
  /\ job' = [job EXCEPT ![w] = NoJob]
  /\ \E next \in {"warn", "resume"} : pc' = [pc EXCEPT ![w] = next]
  /\ UNCHANGED
       <<mutex, queue, masked, stops, submit, owner, asked, discarded>>

Resume(w) ==
  /\ pc[w] = "resume"
  /\ masked' = masked \ {w}
  /\ pc' = [pc EXCEPT ![w] = "lock"]
  /\ UNCHANGED
       <<mutex, queue, job, stops, submit, owner, asked, outcome>>

-----------------------------------------------------------------------------
\* pthread_cond_wait is a cancellation point, and so are the writes to the log
\* and the calls a job's function makes; pthread_mutex_lock and
\* pthread_setcancelstate are not.
ActOnCancel(w) ==
  /\ w \in cancelled \ masked
  /\ pc[w] \in {"wait", "exec", "run", "warn"}
  /\ pc' = [pc EXCEPT ![w] = IF pc[w] = "wait" THEN "dying" ELSE "dead"]
  /\ UNCHANGED
       <<mutex, queue, job, masked, stops, submit, owner, asked, outcome>>

\* A waiter that ends first takes the mutex back; no cleanup handler frees it.
Die(w) ==
  /\ pc[w] = "dying"
  /\ mutex = Nobody
  /\ mutex' = w
  /\ pc' = [pc EXCEPT ![w] = "dead"]
  /\ UNCHANGED <<queue, job, masked, stops, submit, owner, asked, outcome>>

\* The next thing the worker does dereferences the freed pool, queue or struct.
TouchFreed(w) ==
  /\ \/ PoolFreed /\ pc[w] \in {"lock", "unlock"}
     \/ QueueFreed /\ pc[w] \in {"pop", "repop"}
     \/ w \in freed /\ pc[w] \in {"exec", "warn"}
  /\ pc' = [pc EXCEPT ![w] = "undefined"]
  /\ UNCHANGED
       <<mutex, queue, job, masked, stops, submit, owner, asked, outcome>>

-----------------------------------------------------------------------------
(***************************************************************************)
(* The owner.                                                              *)
(***************************************************************************)
EnsureCall ==
  /\ owner \in {"open", "ensured"}
  /\ owner' = "ensuring"
  /\ asked' = {j \in Jobs : submit[j] = "queued"}
  /\ UNCHANGED <<mutex, queue, threads, stops, submit, outcome>>

OneLeft == Len(queue) <= 1          \* mutated form of QueueDrained
QueueDrained == Len(queue) = 0

\* The spin on pool->queue->size, read without a lock.
EnsureReturn ==
  /\ owner = "ensuring"
  /\ QueueDrained
  /\ owner' = "ensured"
  /\ UNCHANGED <<mutex, queue, threads, stops, submit, asked, outcome>>

Joinable(w) ==                      \* mutated form of JoinReturns
  pc[w] \in {"dead", "undefined"}
JoinReturns(w) == TRUE              \* EINVAL: the thread was detached

\* threadpool_worker_stop cancels a worker, joins it and frees its struct,
\* whether the thread has ended or not; then comes the next one's turn.
\* The owner does not start while a call of add_work is in progress.
StopWorker(w) ==
  /\ owner \in {"open", "ensured", "stopping"}
  /\ \A j \in Jobs : submit[j] \notin {"locked", "added"}
  /\ w \notin cancelled
  /\ cancelled \subseteq freed
  /\ owner' = "stopping"
  /\ cancelled' = cancelled \cup {w}
  /\ UNCHANGED <<mutex, queue, threads, freed, submit, asked, outcome>>

FreeWorker(w) ==
  /\ w \in cancelled \ freed
  /\ JoinReturns(w)
  /\ freed' = freed \cup {w}
  /\ UNCHANGED <<mutex, queue, threads, cancelled, submit, owner, asked, outcome>>

DestroyQueue ==
  /\ owner = "stopping"
  /\ freed = Workers
  /\ owner' = "queueFreed"
  /\ discarded' = discarded \cup Range(queue)
  /\ queue' = <<>>
  /\ UNCHANGED <<mutex, threads, stops, submit, asked, finished>>

MutexInUse ==
  \/ mutex # Nobody
  \/ \E w \in Workers : pc[w] \in {"wait", "woken", "dying"}

DestroyMutex ==
  /\ owner = "queueFreed"
  /\ owner' = "mutexDestroyed"
  /\ mutex' = IF MutexInUse THEN mutex ELSE Destroyed
  /\ UNCHANGED <<queue, threads, stops, submit, asked, outcome>>

\* pthread_cond_destroy, then free(pool).
FreePool ==
  /\ owner = "mutexDestroyed"
  /\ Waiting = {}
  /\ owner' = "gone"
  /\ UNCHANGED <<mutex, queue, threads, stops, submit, asked, outcome>>

-----------------------------------------------------------------------------
AddWork(j) == SubmitLock(j) \/ SubmitAdd(j) \/ SubmitSignal(j)

WorkerStep(w) ==
  \/ Lock(w)
  \/ Pop(w)
  \/ Relock(w)
  \/ Repop(w)
  \/ Unlock(w)
  \/ Announce(w)
  \/ Exec(w)
  \/ Warn(w)
  \/ Resume(w)
  \/ ActOnCancel(w)
  \/ Die(w)
  \/ TouchFreed(w)

Destroy ==
  \/ \E w \in Workers : StopWorker(w) \/ FreeWorker(w)
  \/ DestroyQueue
  \/ DestroyMutex
  \/ FreePool

Next ==
  \/ \E j \in Jobs : AddWork(j)
  \/ \E w \in Workers : WorkerStep(w) \/ SpuriousWake(w)
  \/ EnsureCall
  \/ EnsureReturn
  \/ Destroy

\* Threads that can take a step of their own do, jobs end, and the owner
\* finishes a destruction it has begun.  Nothing makes anybody add a job or
\* destroy the pool, and no wakeup is spurious by obligation.
Fairness ==
  /\ \A j \in Jobs : WF_vars(SubmitAdd(j) \/ SubmitSignal(j))
  /\ \A w \in Workers : WF_vars(WorkerStep(w))
  /\ WF_vars(~PoolOpen /\ Destroy)

Spec == Init /\ [][Next]_vars
FairSpec == Spec /\ Fairness

-----------------------------------------------------------------------------
(***************************************************************************)
(* Properties.                                                             *)
(***************************************************************************)
TypeOK ==
  /\ mutex \in Workers \cup Jobs \cup {Nobody, Destroyed}
  /\ queue \in Seq(Jobs)
  /\ pc \in [Workers -> {"lock", "pop", "wait", "woken", "repop", "unlock",
                         "exec", "run", "warn", "resume", "dying", "dead",
                         "undefined"}]
  /\ job \in [Workers -> Jobs \cup {NoJob}]
  /\ cancelled \in SUBSET Workers
  /\ freed \in SUBSET Workers
  /\ masked \in SUBSET Workers
  /\ submit \in [Jobs -> {"new", "locked", "added", "queued"}]
  /\ owner \in {"open", "ensuring", "ensured", "stopping", "queueFreed",
                "mutexDestroyed", "gone"}
  /\ asked \in SUBSET Jobs
  /\ finished \in SUBSET Jobs
  /\ discarded \in SUBSET Jobs

\* Whoever is between lock and unlock holds pool->mutex and nobody else does,
\* through the release inside pthread_cond_wait and the race with
\* pthread_mutex_destroy.  A worker ended by cancellation keeps the mutex for
\* ever, so at most one of the cancelled workers ever ends (threadpool.c:86).
MutexDiscipline ==
  /\ \A w \in Workers :
       /\ pc[w] \in {"repop", "unlock", "dead"} => mutex = w
       /\ pc[w] = "pop" => mutex = w \/ (mutex = Destroyed /\ QueueFreed)
       /\ mutex = w => pc[w] \in {"pop", "repop", "unlock", "dead", "undefined"}
  /\ \A j \in Jobs : mutex = j <=> submit[j] \in {"locked", "added"}

\* Cancellation never takes a job with it: from the pop to the end of the
\* job a worker does not act on pthread_cancel (threadpool.c:62 and 71), so
\* none ends, or sleeps, with a job in its hands.
CancelledHoldsNoJob ==
  \A w \in Workers :
    job[w] # NoJob => pc[w] \in {"unlock", "exec", "run", "undefined"}

\* While a worker sleeps in pthread_cond_wait, every queued job has a worker
\* of its own on its way to pop it (or a submitter about to signal): one
\* signal per job suffices, and the if of threadpool.c:58 loses none.
Heading == {w \in Workers : pc[w] \in {"lock", "pop", "woken", "repop"}}
Signalling == {j \in Jobs : submit[j] = "added"}
NoIdleWhilePending ==
  Waiting # {} => Len(queue) <= Cardinality(Heading) + Cardinality(Signalling)

\* When threadpool_ensure_jobs_done returns, every job added before the call
\* has left the queue, whatever was added meanwhile.
EnsureStarted == owner = "ensured" => asked \cap Range(queue) = {}

\* "ensure that all avaiable jobs are done" (include/threadpool.h:29).
EnsureMeansDone == owner = "ensured" => asked \subseteq finished

\* The pool implements the abstract pool: first in first out, each job
\* started once, never more running than there are workers.
Running == {job[w] : w \in Workers} \ {NoJob}

Pool == INSTANCE JobPool WITH
          Size    <- Cardinality(Workers),
          pending <- queue,
          running <- Running

RefinesJobPool == Pool!Spec

\* A job that has been added is executed, or is freed with the queue, unless
\* the worker that popped it has run into freed memory: into the pool at the
\* unlock, or into its own struct, which threadpool_worker_stop frees without
\* waiting for it (threadpool.c:88), at the log entry before the job
\* (threadpool.c:65).
JobsSettle ==
  \A j \in Jobs :
    submit[j] = "queued" ~>
      \/ j \in finished \cup discarded
      \/ \E w \in Workers : pc[w] = "undefined" /\ job[w] = j

\* threadpool_destroy returns, although cancelled workers block on a mutex
\* that an ended worker holds: it joins none of them, and every waiter leaves
\* the condition variable.
DestroyReturns == owner = "stopping" ~> owner = "gone"
=============================================================================
