------------------------------ MODULE JobPool ------------------------------
(***************************************************************************)
(* What a threadpool_t promises to the threads that use it: jobs wait in   *)
(* the order in which they were added, each is started at most once and by *)
(* one worker, no more than Size run at a time, and the jobs still waiting *)
(* when the pool is destroyed are discarded without having been started.   *)
(***************************************************************************)
EXTENDS Naturals, Sequences, FiniteSets, Functions

CONSTANTS Jobs, Size

VARIABLES
  pending,   \* jobs waiting, oldest first
  running,   \* jobs being executed
  finished,  \* jobs whose execution has ended
  discarded  \* jobs freed with the pool

vars == <<pending, running, finished, discarded>>

Known == Range(pending) \cup running \cup finished \cup discarded

Init ==
  /\ pending = <<>>
  /\ running = {}
  /\ finished = {}
  /\ discarded = {}

Submit(j) ==
  /\ j \notin Known
  /\ pending' = Append(pending, j)
  /\ UNCHANGED <<running, finished, discarded>>

Start ==
  /\ pending # <<>>
  /\ Cardinality(running) < Size
  /\ pending' = Tail(pending)
  /\ running' = running \cup {Head(pending)}
  /\ UNCHANGED <<finished, discarded>>

Finish(j) ==
  /\ j \in running
  /\ running' = running \ {j}
  /\ finished' = finished \cup {j}
  /\ UNCHANGED <<pending, discarded>>

Discard ==
  /\ pending' = <<>>
  /\ discarded' = discarded \cup Range(pending)
  /\ UNCHANGED <<running, finished>>

Next ==
  \/ \E j \in Jobs : Submit(j) \/ Finish(j)
  \/ Start
  \/ Discard

Spec == Init /\ [][Next]_vars
=============================================================================
