----------------------------- MODULE CwebServer -----------------------------
(***************************************************************************)
(* The life of the cweb process: main (cweb.c:67-208), the accept loop it   *)
(* runs (httpserv_httpserver_run, src/src/net/server.c:244-288), the SIGINT *)
(* handler that interrupts it on the same thread (cweb.c:46-53), and the    *)
(* cleanup either of them performs (cweb.c:38-44, server.c:289-301).        *)
(*                                                                          *)
(* The thread pool is the abstract JobPool that ThreadPool implements, with *)
(* a connection as the job; what a job does to its connection is left out.  *)
(* signal() of a -std=c11 program is the one-shot signal of System V: the   *)
(* handler runs once, accept is not restarted, and a second SIGINT kills.   *)
(***************************************************************************)
EXTENDS Naturals, Sequences, FiniteSets, Functions

CONSTANTS
  Clients,  \* each opens one connection
  Failures, \* calls of accept that fail; each leaves a connection object too
  Threads,  \* the number of worker threads
  NoConn    \* no connection, or that of an interrupted accept

ASSUME ThreadsAssumption == Threads \in Nat \ {0}
ASSUME ConnsAssumption ==
  /\ Clients \cap Failures = {}
  /\ NoConn \notin Clients \cup Failures

Conns == Clients \cup Failures

VARIABLES
  main,        \* where main is; its steps are named by what comes next
  handler,     \* where handle_sigint is, or "idle"
  disposition, \* what a SIGINT does: "handle" or "default"
  process,     \* "running", or how it has ended
  cfg, srv,    \* the globals are not NULL
  freed,       \* what cweb_cleanup has freed
  keep_alive, alive,  \* server->keep_alive, server->alive
  held,        \* connfd of the accept loop
  backlog,     \* clients whose connection waits to be accepted
  closed,      \* connections main has closed without serving them
  listened,    \* history: listen has succeeded
  stopped,     \* history: the handler has asked the loop to stop
  late,        \* history: connections accepted after that
  pending, running, finished, discarded  \* the thread pool

flags == <<cfg, srv, freed, keep_alive, alive>>
net == <<held, backlog, closed, late>>
pool == <<pending, running, finished, discarded>>
past == <<listened, stopped>>
vars == <<main, handler, disposition, process, flags, net, pool, past>>

Pool == INSTANCE JobPool WITH Jobs <- Conns, Size <- Threads

Init ==
  /\ main = "arguments"
  /\ handler = "idle"
  /\ disposition = "handle"
  /\ process = "running"
  /\ cfg = FALSE /\ srv = FALSE
  /\ freed = {}
  /\ keep_alive = FALSE /\ alive = FALSE
  /\ held = NoConn
  /\ backlog = {} /\ closed = {}
  /\ listened = FALSE /\ stopped = FALSE
  /\ late = {}
  /\ Pool!Init

\* main runs while it is not interrupted.
At(step) == process = "running" /\ handler = "idle" /\ main = step
Go(step) == main' = step /\ UNCHANGED <<handler, disposition, process>>
End(how) == process' = how /\ UNCHANGED <<main, handler, disposition>>

-----------------------------------------------------------------------------
(***************************************************************************)
(* Up to the accept loop.                                                  *)
(***************************************************************************)
\* -h and -v end the process.
ParseArguments ==
  /\ At("arguments")
  /\ End("exited") \/ Go("config")
  /\ UNCHANGED <<flags, net, pool, past>>

\* Without a configuration main exits and cleans nothing up.
LoadConfig ==
  /\ At("config")
  /\ cfg' \in BOOLEAN
  /\ \/ ~cfg' /\ End("exited")
     \/ cfg' /\ Go("settings")
  /\ UNCHANGED <<srv, freed, keep_alive, alive, net, pool, past>>

\* The log is opened; then address and port are looked for.
ReadSettings ==
  /\ At("settings")
  /\ Go("detach") \/ Go("freeCfg")
  /\ UNCHANGED <<flags, net, pool, past>>

\* With -d main forks twice: the first process returns from main as it is, and
\* so does the second when it cannot fork; else it cleans up, and the third,
\* like a process without -d, goes on.
Detach ==
  /\ At("detach")
  /\ Go("create") \/ Go("freeCfg") \/ End("exited")
  /\ UNCHANGED <<flags, net, pool, past>>

\* httpserv_httpserver_new may return NULL.
CreateServer ==
  /\ At("create")
  /\ srv' \in BOOLEAN
  /\ Go("setup")
  /\ UNCHANGED <<cfg, freed, keep_alive, alive, net, pool, past>>

\* Without a router, or without a server, main exits and cleans nothing up.
\* httpserv_ssl_init returns NULL for a certificate or key it cannot use, and
\* httpserv_httpserver_use_ssl follows it.
Setup ==
  /\ At("setup")
  /\ \/ End("exited")
     \/ srv /\ End("crashed")
     \/ srv /\ Go("listen")
  /\ UNCHANGED <<flags, net, pool, past>>

Listen ==
  /\ At("listen")
  /\ \/ Go("freeCfg") /\ UNCHANGED listened
     \/ Go("keepAlive") /\ listened' = TRUE
  /\ UNCHANGED <<flags, net, pool, stopped>>

\* The mutated form of FlagOrder.
AliveFirst == [first |-> "alive", second |-> "keep_alive"]
FlagOrder == [first |-> "keep_alive", second |-> "alive"]

Raise(flag) ==
  /\ keep_alive' = (keep_alive \/ flag = "keep_alive")
  /\ alive' = (alive \/ flag = "alive")

\* keep_alive = 1, then alive = 1.
RaiseFlag ==
  /\ \/ At("keepAlive") /\ Raise(FlagOrder.first) /\ Go("alive")
     \/ At("alive") /\ Raise(FlagOrder.second) /\ Go("test")
  /\ UNCHANGED <<cfg, srv, freed, net, pool, past>>

-----------------------------------------------------------------------------
(***************************************************************************)
(* The accept loop.                                                        *)
(***************************************************************************)
AlwaysOn == TRUE                    \* mutated form of GoesOn
GoesOn == keep_alive

Test ==
  /\ At("test")
  /\ Go(IF GoesOn THEN "call" ELSE "leave")
  /\ UNCHANGED <<flags, net, pool, past>>

\* From here on a signal finds main blocked in accept.
CallAccept ==
  /\ At("call")
  /\ Go("accept")
  /\ UNCHANGED <<flags, net, pool, past>>

\* The descriptor of a failed accept is -1; nothing tests for it.
FailuresLeft == Failures \ (closed \cup Pool!Known)

Accept ==
  /\ At("accept")
  /\ \E c \in backlog \cup FailuresLeft :
       /\ held' = c
       /\ backlog' = backlog \ {c}
       /\ late' = IF stopped THEN late \cup {c} ELSE late
  /\ Go("check")
  /\ UNCHANGED <<flags, closed, pool, past>>

AlwaysAdd == TRUE                   \* mutated form of StillServing
StillServing == keep_alive

Check ==
  /\ At("check")
  /\ Go(IF StillServing THEN "add" ELSE "drop")
  /\ UNCHANGED <<flags, net, pool, past>>

\* threadpool_add_work
Add ==
  /\ At("add")
  /\ Pool!Submit(held)
  /\ held' = NoConn
  /\ Go("test")
  /\ UNCHANGED <<flags, backlog, closed, late, past>>

\* httpserv_net_connector_destroy_connection; the first form forgets the
\* connection and leaves it open.
LeaveOpen == closed
CloseHeld == closed \cup ({held} \ {NoConn})

Drop ==
  /\ At("drop")
  /\ closed' = CloseHeld
  /\ held' = NoConn
  /\ Go("test")
  /\ UNCHANGED <<flags, backlog, late, pool, past>>

Leave ==
  /\ At("leave")
  /\ alive' = FALSE
  /\ Go("freeCfg")
  /\ UNCHANGED <<cfg, srv, freed, keep_alive, net, pool, past>>

-----------------------------------------------------------------------------
(***************************************************************************)
(* cweb_cleanup, performed by main or by the handler.  The globals are not *)
(* set to NULL, so a second cleanup frees everything a second time.        *)
(***************************************************************************)
FreesTwice(step) ==
  \/ step = "freeCfg" /\ cfg /\ "cfg" \in freed
  \/ step = "freeSrv" /\ srv /\ "srv" \in freed
  \/ step = "freeLog" /\ "log" \in freed

FreeCfg ==
  /\ freed' = IF cfg THEN freed \cup {"cfg"} ELSE freed
  /\ UNCHANGED <<keep_alive, pool>>

\* httpserv_httpserver_destroy: it spins until the loop is not alive, then
\* destroys the pool with the connections that nobody has started to serve.
FreeSrv ==
  \/ /\ srv
     /\ ~alive
     /\ freed' = freed \cup {"srv"}
     /\ keep_alive' = FALSE
     /\ Pool!Discard
  \/ ~srv /\ UNCHANGED <<freed, keep_alive, pool>>

FreeLog == freed' = freed \cup {"log"} /\ UNCHANGED <<keep_alive, pool>>

CleanupStep(step) ==
  /\ ~FreesTwice(step)
  /\ \/ step = "freeCfg" /\ FreeCfg
     \/ step = "freeSrv" /\ FreeSrv
     \/ step = "freeLog" /\ FreeLog
  /\ UNCHANGED <<cfg, srv, alive, net, past>>

NextStep == [freeCfg |-> "freeSrv", freeSrv |-> "freeLog", freeLog |-> "exit"]

MainCleanup ==
  \E step \in DOMAIN NextStep :
    At(step) /\ CleanupStep(step) /\ Go(NextStep[step])

MainExit ==
  /\ At("exit")
  /\ End("exited")
  /\ UNCHANGED <<flags, net, pool, past>>

\* Freeing twice, by either of them, is undefined.
DoubleFree ==
  /\ process = "running"
  /\ FreesTwice(IF handler = "idle" THEN main ELSE handler)
  /\ End("undefined")
  /\ UNCHANGED <<flags, net, pool, past>>

-----------------------------------------------------------------------------
(***************************************************************************)
(* SIGINT.                                                                 *)
(***************************************************************************)
KeepHandler == "handle"             \* mutated form of AfterSignal
AfterSignal == "default"            \* SA_RESETHAND

Sigint ==
  /\ process = "running"
  /\ \/ /\ disposition = "handle"
        /\ handler' = "check"
        /\ disposition' = AfterSignal
        /\ UNCHANGED <<main, process>>
     \/ disposition = "default" /\ End("killed")
  /\ UNCHANGED <<flags, net, pool, past>>

InHandler(step) == process = "running" /\ handler = step

\* An interrupted accept returns -1 when the handler does.
Return ==
  /\ handler' = "idle"
  /\ main' = IF main = "accept" THEN "check" ELSE main
  /\ UNCHANGED <<disposition, process>>

\* The handler dereferences srv, NULL until the server has been created.
HandleSigint ==
  /\ InHandler("check")
  /\ \/ /\ ~srv
        /\ End("crashed")
        /\ UNCHANGED <<keep_alive, stopped>>
     \/ /\ srv /\ "srv" \in freed
        /\ End("undefined")
        /\ UNCHANGED <<keep_alive, stopped>>
     \/ /\ srv /\ "srv" \notin freed /\ ~alive
        /\ handler' = "freeCfg"
        /\ UNCHANGED <<main, disposition, process, keep_alive, stopped>>
     \/ /\ srv /\ "srv" \notin freed /\ alive
        /\ keep_alive' = FALSE
        /\ stopped' = TRUE
        /\ Return
  /\ UNCHANGED <<cfg, srv, freed, alive, net, pool, listened>>

HandlerCleanup ==
  \E step \in DOMAIN NextStep :
    /\ InHandler(step)
    /\ CleanupStep(step)
    /\ handler' = NextStep[step]
    /\ UNCHANGED <<main, disposition, process>>

ReturnToMain == Return              \* mutated form of ExitProcess
ExitProcess == End("exited")

HandlerExit ==
  /\ InHandler("exit")
  /\ ExitProcess
  /\ UNCHANGED <<flags, net, pool, past>>

-----------------------------------------------------------------------------
(***************************************************************************)
(* The clients and the workers.                                            *)
(***************************************************************************)
Connect(c) ==
  /\ process = "running"
  /\ listened /\ "srv" \notin freed
  /\ c \notin backlog \cup {held} \cup closed \cup Pool!Known
  /\ backlog' = backlog \cup {c}
  /\ UNCHANGED <<main, handler, disposition, process, flags, held, closed, late,
                 pool, past>>

Serve ==
  /\ process = "running"
  /\ Pool!Start \/ \E c \in Conns : Pool!Finish(c)
  /\ UNCHANGED <<main, handler, disposition, process, flags, net, past>>

MainStep ==
  \/ ParseArguments
  \/ LoadConfig
  \/ ReadSettings
  \/ Detach
  \/ CreateServer
  \/ Setup
  \/ Listen
  \/ RaiseFlag
  \/ Test
  \/ CallAccept
  \/ Accept
  \/ Check
  \/ Add
  \/ Drop
  \/ Leave
  \/ MainCleanup
  \/ MainExit
  \/ DoubleFree

HandlerStep == HandleSigint \/ HandlerCleanup \/ HandlerExit

Next ==
  \/ MainStep
  \/ HandlerStep
  \/ Sigint
  \/ \E c \in Clients : Connect(c)
  \/ Serve

\* main and the handler run whenever they can.  No client need connect, no
\* connection need be served to its end, and no SIGINT need be sent.
Spec == Init /\ [][Next]_vars
FairSpec == Spec /\ WF_vars(MainStep) /\ WF_vars(HandlerStep)

-----------------------------------------------------------------------------
(***************************************************************************)
(* Properties.                                                             *)
(***************************************************************************)
Steps == {"arguments", "config", "settings", "detach", "create", "setup", "listen",
          "keepAlive", "alive", "test", "call", "accept", "check", "add", "drop",
          "leave", "exit"}
          \cup DOMAIN NextStep

TypeOK ==
  /\ main \in Steps
  /\ handler \in {"idle", "check", "exit"} \cup DOMAIN NextStep
  /\ disposition \in {"handle", "default"}
  /\ process \in {"running", "exited", "killed", "crashed", "undefined"}
  /\ {cfg, srv, keep_alive, alive, listened, stopped} \subseteq BOOLEAN
  /\ freed \in SUBSET {"cfg", "srv", "log"}
  /\ held \in Conns \cup {NoConn}
  /\ backlog \subseteq Clients /\ {closed, late} \subseteq SUBSET Conns
  /\ pending \in Seq(Conns)
  /\ {running, finished, discarded} \subseteq SUBSET Conns

\* A stop request is never overwritten: the only assignment that could undo
\* it (server.c:261) comes before alive is set, and until then the handler
\* does not request a stop but ends the process (cweb.c:48).
StopSticks == stopped => ~keep_alive

\* A connection accepted after the stop request is never given to the pool and
\* not leaked either: main has closed it, or still holds it on its way there,
\* whatever accept was doing when the signal came (server.c:281-285).
LateConnectionsClosed ==
  /\ late \cap Pool!Known = {}
  /\ late \ closed \subseteq {held}

\* Nothing is added to a pool that has been destroyed: what ThreadPool
\* assumes of the callers of threadpool_add_work.
AddOnlyToLivePool ==
  [][Range(pending') \subseteq Range(pending) \/ "srv" \notin freed]_vars

\* Once the server listens, the process neither dereferences a NULL or freed
\* server nor frees anything twice, although main and the handler both clean
\* up and neither clears the globals (cweb.c:38-44); the handler being
\* one-shot is what keeps them apart.  (Before that there is no such luck:
\* a SIGINT during startup or during the cleanup after a failed listen does
\* both, and so does a certificate that cannot be used.)
ListeningServerEndsCleanly == listened => process \notin {"crashed", "undefined"}

\* A stop request is obeyed: the process ends when the request finds main
\* anywhere but in front of accept - blocked in accept it is interrupted - and
\* otherwise as soon as one more client connects (server.c:263-293).
StopIsObeyed ==
  stopped /\ (main \notin {"call", "accept"} \/ backlog # {})
    ~> process # "running"

\* "got SIGINT. Stopping server..." (the text at cweb.c:47, of which the call
\* writes the first 11 bytes): the process ends.
SigintStopsServer == stopped ~> process # "running"
=============================================================================
