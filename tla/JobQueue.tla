------------------------------ MODULE JobQueue ------------------------------
(***************************************************************************)
(* The linked list of threadpool_job_queue_t (src/src/job.c:70-121): the   *)
(* pointers head and tail, the counter size, and the next field of every   *)
(* job.  add_job and pop_job run wholly under queue->rwmutex, so each is   *)
(* one action; the loop of queue_destroy is one action per iteration.  A   *)
(* caller adds a job only while it is not queued, and does nothing with    *)
(* the queue once it has asked for its destruction.                        *)
(***************************************************************************)
EXTENDS Naturals, Sequences, Functions

CONSTANTS Jobs, NULL

ASSUME NullAssumption == NULL \notin Jobs

VARIABLES
  head, tail,  \* queue->head, queue->tail
  size,        \* queue->size
  next,        \* job->next, for every job
  popped,      \* the value the last pop_job returned
  phase,       \* "open", "walking" (inside queue_destroy) or "gone"
  cur, walked, \* the locals cur and i of queue_destroy
  freed,       \* the jobs threadpool_job_destroy has freed
  order        \* history: the queued jobs, in the order they were added

list == <<head, tail, size, next>>
walk == <<cur, walked, freed>>
vars == <<list, popped, phase, walk, order>>

\* threadpool_job_queue_new, and jobs fresh from threadpool_job_new.
Init ==
  /\ head = NULL
  /\ tail = NULL
  /\ size = 0
  /\ next = [j \in Jobs |-> NULL]
  /\ popped = NULL
  /\ phase = "open"
  /\ cur = NULL
  /\ walked = 0
  /\ freed = {}
  /\ order = <<>>

-----------------------------------------------------------------------------
TailIsEmpty == tail = NULL          \* mutated form of LooksEmpty
LooksEmpty == head = NULL

LinkBehindTail(j) == [next EXCEPT ![j] = NULL, ![tail] = j]

AddJob(j) ==
  /\ phase = "open"
  /\ j \notin Range(order)
  /\ tail' = j
  /\ IF LooksEmpty
     THEN head' = j /\ UNCHANGED next
     ELSE next' = LinkBehindTail(j) /\ UNCHANGED head
  /\ size' = size + 1
  /\ order' = Append(order, j)
  /\ UNCHANGED <<popped, phase, walk>>

DanglingPop ==                      \* mutated form of PopFirst
  /\ popped' = head
  /\ head' = next[head]
  /\ size' = size - 1
  /\ UNCHANGED next
PopFirst ==
  /\ popped' = head
  /\ head' = next[head]
  /\ next' = [next EXCEPT ![head] = NULL]
  /\ size' = size - 1

CountMiss ==                        \* mutated form of PopNothing
  /\ popped' = NULL
  /\ size' = size - 1
  /\ UNCHANGED <<head, tail, next, order>>
PopNothing == popped' = NULL /\ UNCHANGED <<list, order>>

\* The tail pointer is left alone even when the last job goes.
PopJob ==
  /\ phase = "open"
  /\ IF size = 0
     THEN PopNothing
     ELSE PopFirst /\ order' = Tail(order) /\ UNCHANGED tail
  /\ UNCHANGED <<phase, walk>>

-----------------------------------------------------------------------------
DestroyBegin ==
  /\ phase = "open"
  /\ phase' = "walking"
  /\ cur' = head
  /\ UNCHANGED <<list, popped, walked, freed, order>>

LeaveLast == walked + 1 < size      \* mutated form of MoreToFree
MoreToFree == walked < size

\* cur->next is read before cur is freed.
FreeJob ==
  /\ phase = "walking"
  /\ MoreToFree
  /\ freed' = freed \cup {cur}
  /\ cur' = next[cur]
  /\ walked' = walked + 1
  /\ UNCHANGED <<list, popped, phase, order>>

DestroyEnd ==
  /\ phase = "walking"
  /\ ~MoreToFree
  /\ phase' = "gone"
  /\ UNCHANGED <<list, popped, walk, order>>

Next ==
  \/ \E j \in Jobs : AddJob(j)
  \/ PopJob
  \/ DestroyBegin
  \/ FreeJob
  \/ DestroyEnd

Spec == Init /\ [][Next]_vars

-----------------------------------------------------------------------------
(***************************************************************************)
(* Properties.                                                             *)
(***************************************************************************)

\* Every variable keeps its type: pointers are jobs or NULL, the counter of
\* job.c:92 and job.c:105 never goes below zero.
TypeOK ==
  /\ head \in Jobs \cup {NULL}
  /\ tail \in Jobs \cup {NULL}
  /\ size \in Nat
  /\ next \in [Jobs -> Jobs \cup {NULL}]
  /\ popped \in Jobs \cup {NULL}
  /\ phase \in {"open", "walking", "gone"}
  /\ cur \in Jobs \cup {NULL}
  /\ walked \in Nat
  /\ freed \in SUBSET Jobs
  /\ order \in Seq(Jobs)

\* The pointers describe exactly the jobs added and not yet popped: the test
\* of add_job (head is NULL, job.c:84) and the test of pop_job (size is 0,
\* job.c:98) agree, following next from head visits the jobs in the order in
\* which they were added and ends in NULL, and tail is the last of them
\* whenever there is one, however stale it was while the queue was empty.
ListShape ==
  /\ size = Len(order)
  /\ IsInjective(order)
  /\ order = <<>> => head = NULL
  /\ order # <<>> => head = order[1] /\ tail = order[Len(order)]
  /\ \A i \in 1..Len(order) :
       next[order[i]] = IF i = Len(order) THEN NULL ELSE order[i + 1]
  /\ \A j \in Jobs \ Range(order) : next[j] = NULL

\* queue_destroy counts iterations instead of looking for NULL: the cursor
\* is the oldest job not freed yet, never NULL and never a job freed before,
\* and what has been freed is exactly the part of the list behind it.
WalkFollowsList ==
  /\ phase = "walking" /\ MoreToFree => cur = order[walked + 1]
  /\ freed = {order[i] : i \in 1..walked}
  /\ walked <= Len(order)
  /\ phase = "open" => walked = 0
  /\ phase = "gone" => walked = Len(order)

\* The linked list implements the FIFO queue.
Fifo == INSTANCE FifoQueue WITH
          q       <- IF phase = "gone" THEN <<>> ELSE order,
          dropped <- IF phase = "gone" THEN freed ELSE {},
          open    <- phase # "gone"

RefinesFifo == Fifo!Spec
=============================================================================
