-------------------------- MODULE JobResultProofs --------------------------
(***************************************************************************)
(* Proofs about the result cell of src/src/job.c, for any number of        *)
(* awaiting threads and any set of results.                                *)
(***************************************************************************)
EXTENDS JobResult, TLAPS

\* done is 1 exactly until the worker publishes, and from the moment the
\* function has been run and stored, res is its result.
CellFollowsWorker ==
  /\ done = 1 <=> exec \in {"start", "set", "publish"}
  /\ function => done # -1
  /\ ~function => exec \in {"start", "check", "idle"}
  /\ exec = "start" \/ ~function => res = NULL /\ result = NULL
  /\ function /\ exec \in {"publish", "return", "check", "idle"} => res = result

\* Nobody is past the loop of await while the job is pending.
PastLoop ==
  \A a \in Awaiters : await[a] \in {"reading", "returned"} => done # 1

GotRes == \A a \in Awaiters : await[a] = "returned" => got[a] = res

IInv == TypeOK /\ CellFollowsWorker /\ PastLoop /\ GotRes

LEMMA InitIInv == Init => IInv
<1> SUFFICES ASSUME Init PROVE IInv
  OBVIOUS
<1> USE DEF Init, FreshRes
<1>1. TypeOK
  BY DEF TypeOK
<1>2. CellFollowsWorker
  BY DEF CellFollowsWorker
<1>3. PastLoop /\ GotRes
  BY DEF PastLoop, GotRes
<1> QED BY <1>1, <1>2, <1>3 DEF IInv

\* The steps of the worker (job.c:53-67) before it publishes leave the
\* awaiters alone; publishing wakes at most one and stores nothing.
LEMMA WorkerIInv == ASSUME IInv, Worker PROVE IInv'
<1> USE NullAssumption DEF IInv, jres
<1>1. CASE Fail
  BY <1>1 DEF Fail, TypeOK, CellFollowsWorker, PastLoop, GotRes
<1>2. CASE RunFunction
  BY <1>2 DEF RunFunction, TypeOK, CellFollowsWorker, PastLoop, GotRes
<1>3. CASE SetResult
  <2>1. TypeOK' /\ CellFollowsWorker' /\ PastLoop'
    BY <1>3 DEF SetResult, TypeOK, CellFollowsWorker, PastLoop
  <2>2. GotRes'
    BY <1>3 DEF SetResult, CellFollowsWorker, PastLoop, GotRes
  <2> QED BY <2>1, <2>2
<1>4. CASE Publish
  <2>1. /\ await' \in [Awaiters ->
                         {"calling", "waiting", "woken", "reading", "returned"}]
        /\ \A a \in Awaiters :
             await'[a] = await[a] \/ (await[a] = "waiting" /\ await'[a] = "woken")
    <3>1. CASE Waiting = {}
      BY <1>4, <3>1 DEF Publish, Signal, TypeOK
    <3>2. CASE Waiting # {}
      <4>1. PICK b \in Waiting : await' = [await EXCEPT ![b] = "woken"]
        BY <1>4, <3>2 DEF Publish, Signal
      <4>2. b \in Awaiters /\ await[b] = "waiting"
        BY <4>1 DEF Waiting
      <4> QED BY <4>1, <4>2 DEF TypeOK
    <3> QED BY <3>1, <3>2
  <2>2. TypeOK' /\ CellFollowsWorker'
    BY <1>4, <2>1 DEF Publish, TypeOK, CellFollowsWorker
  <2>3. PastLoop' /\ GotRes'
    BY <1>4, <2>1 DEF Publish, PastLoop, GotRes
  <2> QED BY <2>2, <2>3
<1>5. CASE ReturnRes
  BY <1>5 DEF ReturnRes, ReadCell, TypeOK, CellFollowsWorker, PastLoop, GotRes
<1>6. CASE CheckFailed
  BY <1>6 DEF CheckFailed, ReadCell, TypeOK, CellFollowsWorker, PastLoop, GotRes
<1> QED BY <1>1, <1>2, <1>3, <1>4, <1>5, <1>6 DEF Worker

\* An awaiter leaves the loop of job.c:33 only when done is no longer 1.
LEMMA AwaiterIInv ==
  ASSUME IInv, NEW a \in Awaiters,
         AwaitCall(a) \/ SpuriousWake(a) \/ Proceed(a)
  PROVE  IInv'
<1> USE DEF IInv, jres
<1>1. UNCHANGED <<function, jres, exec, result, destroyed, lateReads>>
  BY DEF AwaitCall, SpuriousWake, Proceed, AwaitRecheck, AwaitReturn
<1>2. CellFollowsWorker'
  BY <1>1 DEF CellFollowsWorker
<1>3. CASE AwaitCall(a) \/ SpuriousWake(a) \/ AwaitRecheck(a)
  <2>1. /\ await' \in [Awaiters ->
                         {"calling", "waiting", "woken", "reading", "returned"}]
        /\ await'[a] # "returned"
        /\ await'[a] = "reading" => done # 1
        /\ \A b \in Awaiters \ {a} : await'[b] = await[b]
    BY <1>3 DEF AwaitCall, SpuriousWake, AwaitRecheck, WaitAgain, Pending, TypeOK
  <2>2. got' = got
    BY <1>3 DEF AwaitCall, SpuriousWake, AwaitRecheck
  <2>3. TypeOK'
    BY <1>1, <2>1, <2>2 DEF TypeOK
  <2>4. PastLoop' /\ GotRes'
    BY <1>1, <2>1, <2>2 DEF PastLoop, GotRes
  <2> QED BY <1>2, <2>3, <2>4
<1>4. CASE AwaitReturn(a)
  BY <1>1, <1>2, <1>4 DEF AwaitReturn, TypeOK, PastLoop, GotRes
<1> QED BY <1>3, <1>4 DEF Proceed

LEMMA StepIInv == IInv /\ [Next]_vars => IInv'
<1> SUFFICES ASSUME IInv, [Next]_vars PROVE IInv'
  OBVIOUS
<1>1. CASE UNCHANGED vars
  BY <1>1 DEF vars, jres, IInv, TypeOK, CellFollowsWorker, PastLoop, GotRes
<1>2. CASE Worker
  BY <1>2, WorkerIInv
<1>3. ASSUME NEW a \in Awaiters, AwaitCall(a) \/ SpuriousWake(a) \/ Proceed(a)
      PROVE  IInv'
  BY <1>3, AwaiterIInv
<1>4. CASE Destroy
  BY <1>4 DEF Destroy, jres, IInv, TypeOK, CellFollowsWorker, PastLoop, GotRes
<1> QED BY <1>1, <1>2, <1>3, <1>4 DEF Next

LEMMA AlwaysIInv == Spec => []IInv
  BY InitIInv, StepIInv, PTL DEF Spec

-----------------------------------------------------------------------------
\* done is only ever 1, 0 or -1, and res a result of the function or NULL.
THEOREM TypeCorrect == Spec => []TypeOK
  BY AlwaysIInv, PTL DEF IInv

\* threadpool_job_result_await returns the function's result to every
\* awaiter, never before the job is done (job.c:31-38).
THEOREM AwaitCorrect == Spec => []AwaitReturnsResult
<1>1. IInv => AwaitReturnsResult
  <2> SUFFICES ASSUME IInv, NEW a \in Awaiters, await[a] = "returned"
               PROVE  done # 1 /\ got[a] = IF function THEN result ELSE NULL
    BY DEF AwaitReturnsResult
  <2>1. done # 1 /\ got[a] = res
    BY DEF IInv, PastLoop, GotRes
  <2>2. exec \in {"return", "check", "idle"}
    BY <2>1 DEF IInv, CellFollowsWorker, TypeOK
  <2> QED BY <2>1, <2>2 DEF IInv, CellFollowsWorker, TypeOK
<1> QED BY <1>1, AlwaysIInv, PTL

\* A published result is never written again (job.c:53-67).
THEOREM PublishedOnce == Spec => PublishedIsFinal
<1>1. IInv /\ [Next]_vars => [done # 1 => UNCHANGED jres]_vars
  <2> SUFFICES ASSUME IInv, Next, done # 1 PROVE UNCHANGED jres
    OBVIOUS
  <2>1. exec \notin {"start", "set", "publish"}
    BY DEF IInv, CellFollowsWorker
  <2>2. CASE Worker
    BY <2>1, <2>2
    DEF Worker, Fail, RunFunction, SetResult, Publish, ReturnRes, CheckFailed
  <2>3. ASSUME NEW a \in Awaiters, AwaitCall(a) \/ SpuriousWake(a) \/ Proceed(a)
        PROVE  UNCHANGED jres
    BY <2>3 DEF AwaitCall, SpuriousWake, Proceed, AwaitRecheck, AwaitReturn
  <2>4. CASE Destroy
    BY <2>4 DEF Destroy
  <2> QED BY <2>2, <2>3, <2>4 DEF Next
<1> QED BY <1>1, AlwaysIInv, PTL DEF Spec, PublishedIsFinal
=============================================================================
