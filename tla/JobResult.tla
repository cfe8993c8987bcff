----------------------------- MODULE JobResult -----------------------------
(***************************************************************************)
(* One job and its result cell: the worker that runs threadpool_job_exec   *)
(* (src/src/job.c:53-67, called from src/src/threadpool.c:66) against the  *)
(* threads that call threadpool_job_result_await (job.c:31-38) on the same *)
(* threadpool_job_result_t.  A critical section of jres->mutex is one      *)
(* action, and so is each access made without the mutex: the reads of res  *)
(* at job.c:37 and job.c:66 and of done at threadpool.c:67.                *)
(***************************************************************************)
EXTENDS Integers, FiniteSets

CONSTANTS
  Awaiters,  \* the threads that call await
  Results,   \* what the job's function may return
  NULL

ASSUME AwaitersAssumption == IsFiniteSet(Awaiters)
ASSUME NullAssumption == NULL \notin Results

VARIABLES
  function,  \* job->function is not NULL
  done,      \* jres->done: 1 pending, 0 finished, -1 failed
  res,       \* jres->res
  exec,      \* where the worker is
  result,    \* the local variable result of threadpool_job_exec
  await,     \* where each awaiter is
  got,       \* what await returned to it
  destroyed, \* threadpool_job_result_destroy has freed the cell
  lateReads  \* lines of the worker that read the cell after that

jres == <<done, res>>
vars == <<function, jres, exec, result, await, got, destroyed, lateReads>>

Uninitialised == "garbage"          \* mutated form of FreshRes
FreshRes == NULL

\* threadpool_job_result_new inside threadpool_job_new.
Init ==
  /\ function \in BOOLEAN
  /\ done = 1
  /\ res = FreshRes
  /\ exec = "start"
  /\ result = NULL
  /\ await = [a \in Awaiters |-> "calling"]
  /\ got = [a \in Awaiters |-> NULL]
  /\ destroyed = FALSE
  /\ lateReads = {}

Waiting == {a \in Awaiters : await[a] = "waiting"}

-----------------------------------------------------------------------------
(***************************************************************************)
(* The worker.                                                             *)
(***************************************************************************)

FallThrough ==                      \* mutated form of Fail
  /\ exec = "start"
  /\ ~function
  /\ done' = -1
  /\ result' \in Results
  /\ exec' = "set"
  /\ UNCHANGED <<function, res, await, got, destroyed, lateReads>>

\* A job without a function fails, and nobody is signalled.
Fail ==
  /\ exec = "start"
  /\ ~function
  /\ done' = -1
  /\ exec' = "check"
  /\ UNCHANGED <<function, res, result, await, got, destroyed, lateReads>>

RunFunction ==
  /\ exec = "start"
  /\ function
  /\ result' \in Results
  /\ exec' = "set"
  /\ UNCHANGED <<function, jres, await, got, destroyed, lateReads>>

SetResult ==
  /\ exec = "set"
  /\ res' = result
  /\ exec' = "publish"
  /\ UNCHANGED <<function, done, result, await, got, destroyed, lateReads>>

SignalNobody == UNCHANGED await     \* mutated form of Signal
Signal ==
  IF Waiting = {}
  THEN UNCHANGED await
  ELSE \E a \in Waiting : await' = [await EXCEPT ![a] = "woken"]

Publish ==
  /\ exec = "publish"
  /\ done' = 0
  /\ Signal
  /\ exec' = "return"
  /\ UNCHANGED <<function, res, result, got, destroyed, lateReads>>

ReadCell(line) ==
  lateReads' = IF destroyed THEN lateReads \cup {line} ELSE lateReads

\* return job->jres->res, read without the mutex.
ReturnRes ==
  /\ exec = "return"
  /\ ReadCell("job.c:66")
  /\ exec' = "check"
  /\ UNCHANGED <<function, jres, result, await, got, destroyed>>

\* if (job->jres->done == -1), read without the mutex.
CheckFailed ==
  /\ exec = "check"
  /\ ReadCell("threadpool.c:67")
  /\ exec' = "idle"
  /\ UNCHANGED <<function, jres, result, await, got, destroyed>>

-----------------------------------------------------------------------------
(***************************************************************************)
(* The awaiters.                                                           *)
(***************************************************************************)
Pending == done > 0

AwaitCall(a) ==
  /\ await[a] = "calling"
  /\ ~destroyed
  /\ await' = [await EXCEPT ![a] = IF Pending THEN "waiting" ELSE "reading"]
  /\ UNCHANGED <<function, jres, exec, result, got, destroyed, lateReads>>

\* POSIX lets pthread_cond_wait return although nobody signalled.
SpuriousWake(a) ==
  /\ await[a] = "waiting"
  /\ await' = [await EXCEPT ![a] = "woken"]
  /\ UNCHANGED <<function, jres, exec, result, got, destroyed, lateReads>>

LeaveOnWake == FALSE                \* mutated form of WaitAgain
WaitAgain == Pending

AwaitRecheck(a) ==
  /\ await[a] = "woken"
  /\ await' = [await EXCEPT ![a] = IF WaitAgain THEN "waiting" ELSE "reading"]
  /\ UNCHANGED <<function, jres, exec, result, got, destroyed, lateReads>>

\* return jres->res, read after the mutex has been released.
AwaitReturn(a) ==
  /\ await[a] = "reading"
  /\ got' = [got EXCEPT ![a] = res]
  /\ await' = [await EXCEPT ![a] = "returned"]
  /\ UNCHANGED <<function, jres, exec, result, destroyed, lateReads>>

\* A caller frees the cell once no await is in progress and one has returned,
\* as test/threadpool.c:34-53 does; nobody calls await afterwards.
Destroy ==
  /\ ~destroyed
  /\ \E a \in Awaiters : await[a] = "returned"
  /\ \A a \in Awaiters : await[a] \in {"calling", "returned"}
  /\ destroyed' = TRUE
  /\ UNCHANGED <<function, jres, exec, result, await, got, lateReads>>

-----------------------------------------------------------------------------
Worker ==
  \/ Fail
  \/ RunFunction
  \/ SetResult
  \/ Publish
  \/ ReturnRes
  \/ CheckFailed

Proceed(a) == AwaitRecheck(a) \/ AwaitReturn(a)

Next ==
  \/ Worker
  \/ \E a \in Awaiters : AwaitCall(a) \/ SpuriousWake(a) \/ Proceed(a)
  \/ Destroy

\* The worker runs to the end of the job and an awaiter that can go on does;
\* nothing makes anybody call await, destroy the cell or wake spuriously.
Fairness ==
  /\ WF_vars(Worker)
  /\ \A a \in Awaiters : WF_vars(Proceed(a))

Spec == Init /\ [][Next]_vars
FairSpec == Spec /\ Fairness

-----------------------------------------------------------------------------
(***************************************************************************)
(* Properties.                                                             *)
(***************************************************************************)
TypeOK ==
  /\ function \in BOOLEAN
  /\ done \in {1, 0, -1}
  /\ res \in Results \cup {NULL}
  /\ exec \in {"start", "set", "publish", "return", "check", "idle"}
  /\ result \in Results \cup {NULL}
  /\ await \in [Awaiters ->
                  {"calling", "waiting", "woken", "reading", "returned"}]
  /\ got \in [Awaiters -> Results \cup {NULL}]
  /\ destroyed \in BOOLEAN
  /\ lateReads \in SUBSET {"job.c:66", "threadpool.c:67"}

\* await hands every caller the value the function returned, although
\* job.c:37 reads res after unlocking, and NULL for a job that had no
\* function; it never returns while the job is still to be executed.
AwaitReturnsResult ==
  \A a \in Awaiters :
    await[a] = "returned" =>
      /\ done # 1
      /\ got[a] = IF function THEN result ELSE NULL

\* Once done leaves 1 the cell is immutable: neither done nor res changes any
\* more, which is what makes the unlocked reads agree with the locked ones.
PublishedIsFinal == [][done # 1 => UNCHANGED jres]_vars

\* A job with a function does not leave all its awaiters asleep: if some wait
\* while the job is pending, one of them returns.  (With several awaiters the
\* single pthread_cond_signal of job.c:64 promises no more than one.)
SomeAwaiterReturns ==
  (function /\ Waiting # {}) ~> (\E a \in Awaiters : await[a] = "returned")

\* The worker is done with a result once await has returned it: a caller may
\* destroy it then, as the test does, and the worker reads it no more.
NoReadAfterDestroy == function => lateReads = {}
=============================================================================
