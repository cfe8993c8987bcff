--------------------------- MODULE ResourceLoader ---------------------------
(***************************************************************************)
(* The resource loader (src/src/resource.c), which every worker asks for    *)
(* files, and the table of file descriptors of the process, which it shares *)
(* with the connections.  load and preload hold resload->mutex from start   *)
(* to end, preload even beyond its end if the file is loaded already.       *)
(*                                                                          *)
(* load maps a file that is not in the list and does not add it: nobody     *)
(* closes its descriptor.                                                   *)
(***************************************************************************)
EXTENDS Naturals

CONSTANTS
  Files,   \* paths of readable files with contents
  Empty,   \* paths of readable files of size 0
  MaxFds,  \* the number of descriptors the process may have open
  Nothing, \* NULL; also the owner of an unused descriptor
  AFile    \* the owner of the descriptor of a resource

VARIABLES
  fds,     \* who has opened each descriptor
  cached,  \* the paths in the list at resload->head
  mutex    \* resload->mutex: "free", or "left" locked by a call that is over

Fds == 1 .. MaxFds
\* Standard input taken for an unused descriptor: a mutated form of Free.
FreeFromZero == {n \in 0 .. MaxFds : n = 0 \/ fds[n] = Nothing}
Free == {n \in Fds : fds[n] = Nothing}
NoneFree == Free = {}

\* The lowest unused descriptor is taken.
Opened(owner) ==
  [fds EXCEPT ![CHOOSE n \in Free : \A m \in Free : n <= m] = owner]

LoaderInit ==
  /\ fds = [n \in Fds |-> Nothing]
  /\ cached = {}
  /\ mutex = "free"

\* httpserv_resource_new: mmap refuses an empty file, whose descriptor stays
\* open.
ResourceNew(path, res) ==
  \/ /\ path \notin Files \cup Empty \/ NoneFree
     /\ res = Nothing
     /\ UNCHANGED fds
  \/ /\ path \in Files \cup Empty /\ ~NoneFree
     /\ res = IF path \in Files THEN path ELSE Nothing
     /\ fds' = Opened(AFile)

\* httpserv_resource_loader_load; the first form does not look at the list.
LoadAnew(path, res) ==
  mutex = "free" /\ ResourceNew(path, res) /\ UNCHANGED <<cached, mutex>>

Load(path, res) ==
  /\ mutex = "free"
  /\ \/ path \in cached /\ res = path /\ UNCHANGED fds
     \/ path \notin cached /\ ResourceNew(path, res)
  /\ UNCHANGED <<cached, mutex>>

\* httpserv_resource_loader_preload
StayLocked == "left"
Unlocked == "free"

PreloadNew(path, res) ==
  /\ mutex = "free" /\ path \notin cached
  /\ ResourceNew(path, res)
  /\ cached' = IF res = Nothing THEN cached ELSE cached \cup {path}
  /\ mutex' = Unlocked

\* The early return of resource.c:100.
PreloadAgain(path) ==
  /\ mutex = "free" /\ path \in cached
  /\ mutex' = "left"
  /\ UNCHANGED <<fds, cached>>
=============================================================================
