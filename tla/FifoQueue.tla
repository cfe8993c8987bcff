----------------------------- MODULE FifoQueue -----------------------------
(***************************************************************************)
(* What threadpool_job_queue_t promises to its callers: a queue that hands *)
(* jobs out in the order in which they were put in, answers NULL when it   *)
(* is empty, and when it is destroyed frees exactly what it still holds.   *)
(***************************************************************************)
EXTENDS Sequences, Functions

CONSTANTS Jobs, NULL

VARIABLES
  q,        \* the jobs held, oldest first
  popped,   \* what the last pop returned
  dropped,  \* the jobs destroyed together with the queue
  open      \* the queue has not been destroyed

vars == <<q, popped, dropped, open>>

Init ==
  /\ q = <<>>
  /\ popped = NULL
  /\ dropped = {}
  /\ open = TRUE

\* A job enters at the back; the caller owns it, so it is not queued already.
Put(j) ==
  /\ open
  /\ j \notin Range(q)
  /\ q' = Append(q, j)
  /\ UNCHANGED <<popped, dropped, open>>

Take ==
  /\ open
  /\ q # <<>>
  /\ popped' = Head(q)
  /\ q' = Tail(q)
  /\ UNCHANGED <<dropped, open>>

Miss ==
  /\ open
  /\ q = <<>>
  /\ popped' = NULL
  /\ UNCHANGED <<q, dropped, open>>

Close ==
  /\ open
  /\ open' = FALSE
  /\ dropped' = Range(q)
  /\ q' = <<>>
  /\ UNCHANGED popped

Next ==
  \/ \E j \in Jobs : Put(j)
  \/ Take
  \/ Miss
  \/ Close

Spec == Init /\ [][Next]_vars
=============================================================================
