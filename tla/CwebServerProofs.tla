-------------------------- MODULE CwebServerProofs --------------------------
(***************************************************************************)
(* Proofs about the cweb process (cweb.c and the accept loop of             *)
(* src/src/net/server.c), for any number of clients, failing accepts and    *)
(* workers, and a SIGINT before any step.                                   *)
(***************************************************************************)
EXTENDS CwebServer, SequenceLemmas

Loop == {"test", "call", "accept", "check", "add", "drop", "leave"}
Startup == {"arguments", "config", "settings", "detach", "create", "setup", "listen"}
Frees == {"freeCfg", "freeSrv", "freeLog"}
Cleanup == Frees \cup {"exit"}

\* alive is up exactly while main is in the loop, and keep_alive falls there
\* only by a stop request (or with a server the handler has destroyed).
FlagsFollowMain ==
  /\ alive <=> main \in Loop
  /\ keep_alive => main \in Loop \cup {"alive"}
  /\ main \in Loop \cup {"alive"} /\ ~keep_alive =>
       stopped \/ "srv" \in freed
  /\ main = "leave" => ~keep_alive
  /\ StopSticks

\* The server exists from listen on, and the handler runs only once.
OneHandler ==
  /\ listened \/ main = "listen" => srv
  /\ main \in Startup => ~listened
  /\ main \in Loop \cup {"keepAlive", "alive"} => listened
  /\ stopped \/ handler # "idle" => disposition = "default"
  /\ stopped => handler = "idle" /\ main \in Loop \cup Cleanup
  /\ handler \in Cleanup => ~alive
  /\ listened /\ main \in Cleanup => stopped

\* Whoever cleans up has freed what the steps behind it free, and no more.
Cleaner == IF handler \in Cleanup THEN handler ELSE main
FreedInOrder ==
  listened \/ main \in Startup =>
    /\ "cfg" \in freed => Cleaner \in {"freeSrv", "freeLog", "exit"}
    /\ "srv" \in freed => Cleaner \in {"freeLog", "exit"}
    /\ "log" \in freed => Cleaner = "exit"

\* A connection is in one place, and a late one is on its way to be closed.
LatePath ==
  /\ held # NoConn => main \in {"check", "add", "drop"}
  /\ main = "add" => held # NoConn
  /\ main = "check" /\ held = NoConn => ~keep_alive
  /\ held \in late => ~keep_alive /\ main \in {"check", "drop"}
  /\ late \subseteq closed \cup {held}
  /\ held \notin closed \cup Pool!Known \cup backlog
  /\ NoConn \notin late
  /\ closed \cap (Pool!Known \cup backlog) = {}
  /\ backlog \cap Pool!Known = {}
  /\ late # {} => stopped

Control ==
  FlagsFollowMain /\ OneHandler /\ FreedInOrder /\ ListeningServerEndsCleanly

IInv == TypeOK /\ Control /\ LatePath

-----------------------------------------------------------------------------
(***************************************************************************)
(* The pool, and the order of the cleanup.                                 *)
(***************************************************************************)
\* Known is the union of the places the pool keeps connections in.
LEMMA KnownConns ==
  /\ Pool!Known = Range(pending) \cup running \cup finished \cup discarded
  /\ Pool!Known' = Range(pending') \cup running' \cup finished' \cup discarded'
  BY DEF Pool!Known, Pool!Range, Range

\* threadpool_add_work makes one more connection known to the pool.
LEMMA SubmitKnown ==
  ASSUME TypeOK, NEW c \in Conns, Pool!Submit(c)
  PROVE  /\ pending' \in Seq(Conns)
         /\ Pool!Known' = Pool!Known \cup {c}
         /\ UNCHANGED <<running, finished, discarded>>
<1>1. /\ pending' = Append(pending, c) /\ pending' \in Seq(Conns)
      /\ UNCHANGED <<running, finished, discarded>>
  BY AppendProperties DEF Pool!Submit, TypeOK
<1>2. Range(pending') = Range(pending) \cup {c}
  BY <1>1, RangeAppend DEF TypeOK
<1> QED BY <1>1, <1>2, KnownConns

\* Workers and the destruction of the pool move connections about, they
\* bring none in.
PoolMoves ==
  /\ pending' \in Seq(Conns)
  /\ {running', finished', discarded'} \subseteq SUBSET Conns
  /\ Range(pending') \subseteq Range(pending)
  /\ Pool!Known' = Pool!Known

LEMMA MovesKnown ==
  ASSUME TypeOK,
         \/ Pool!Start
         \/ \E c \in Conns : Pool!Finish(c)
         \/ Pool!Discard
         \/ UNCHANGED pool
  PROVE  PoolMoves
<1> USE DEF PoolMoves, TypeOK
<1>1. CASE Pool!Start
  <2>1. /\ pending # <<>> /\ pending' = Tail(pending)
        /\ running' = running \cup {Head(pending)}
        /\ UNCHANGED <<finished, discarded>>
    BY <1>1 DEF Pool!Start
  <2>2. /\ Head(pending) \in Conns /\ pending' \in Seq(Conns)
        /\ Range(pending) = Range(pending') \cup {Head(pending)}
    BY <2>1, RangeHeadTail
  <2> QED BY <2>1, <2>2, KnownConns
<1>2. CASE \E c \in Conns : Pool!Finish(c)
  BY <1>2, KnownConns DEF Pool!Finish
<1>3. CASE Pool!Discard
  <2>1. /\ pending' = <<>> /\ discarded' = discarded \cup Range(pending)
        /\ UNCHANGED <<running, finished>>
    BY <1>3 DEF Pool!Discard, Pool!Range, Range
  <2>2. Range(pending') = {} /\ pending' \in Seq(Conns)
    BY <2>1, EmptySeq DEF Range
  <2>3. Range(pending) \subseteq Conns
    BY RangeMember, ElementOfSeq
  <2> QED BY <2>1, <2>2, <2>3, KnownConns
<1>4. CASE UNCHANGED pool
  BY <1>4, KnownConns DEF pool
<1> QED BY <1>1, <1>2, <1>3, <1>4

\* The order of cweb_cleanup.
LEMMA CleanupSteps ==
  /\ DOMAIN NextStep = Frees
  /\ NextStep["freeCfg"] = "freeSrv"
  /\ NextStep["freeSrv"] = "freeLog"
  /\ NextStep["freeLog"] = "exit"
  BY DEF NextStep, Frees

-----------------------------------------------------------------------------
(***************************************************************************)
(* Types.                                                                  *)
(***************************************************************************)
LEMMA InitIInv == Init => IInv
<1> SUFFICES ASSUME Init PROVE IInv
  OBVIOUS
<1>1. Range(<<>>) = {} /\ <<>> \in Seq(Conns)
  BY EmptySeq DEF Range
<1>2. TypeOK
  BY <1>1 DEF Init, Pool!Init, TypeOK, Steps
<1>3. Control
  BY DEF Init, Control, FlagsFollowMain, OneHandler, FreedInOrder, Cleaner,
         ListeningServerEndsCleanly, StopSticks, Loop, Startup, Cleanup, Frees
<1>4. LatePath
  BY <1>1, KnownConns DEF Init, Pool!Init, LatePath
<1> QED BY <1>2, <1>3, <1>4 DEF IInv

\* Add needs LatePath: what it submits is a connection, not NoConn.
LEMMA StepTypeOK == ASSUME TypeOK, LatePath, [Next]_vars PROVE TypeOK'
<1> USE CleanupSteps
    DEF TypeOK, Steps, Frees, At, Go, End, flags, net, pool, past
<1>1. CASE UNCHANGED vars
  BY <1>1 DEF vars
<1>2. CASE \/ ParseArguments \/ LoadConfig \/ ReadSettings \/ Detach
           \/ CreateServer \/ Setup \/ Listen
  BY <1>2 DEF ParseArguments, LoadConfig, ReadSettings, Detach,
     CreateServer, Setup, Listen
<1>3. CASE RaiseFlag
  BY <1>3 DEF RaiseFlag, FlagOrder, Raise
<1>4. CASE Test \/ CallAccept \/ Check
  BY <1>4 DEF Test, GoesOn, CallAccept, Check
<1>5. CASE Accept
  BY <1>5 DEF Accept, FailuresLeft, Conns
<1>6. CASE Add
  <2>1. held \in Conns /\ Pool!Submit(held)
    BY <1>6 DEF Add, LatePath
  <2> QED BY <1>6, <2>1, SubmitKnown DEF Add
<1>7. CASE Drop
  <2>1. closed' \in SUBSET Conns /\ held' = NoConn
    BY <1>7 DEF Drop, CloseHeld
  <2> QED BY <1>7, <2>1 DEF Drop
<1>8. CASE Leave
  BY <1>8 DEF Leave
<1>9. ASSUME NEW step \in Frees, CleanupStep(step)
      PROVE  /\ freed' \in SUBSET {"cfg", "srv", "log"}
             /\ keep_alive' \in BOOLEAN
             /\ pending' \in Seq(Conns)
             /\ {running', finished', discarded'} \subseteq SUBSET Conns
             /\ UNCHANGED <<cfg, srv, alive, net, past>>
             /\ NextStep[step] \in Frees \cup {"exit"}
  <2>1. PoolMoves
    BY <1>9, MovesKnown DEF CleanupStep, FreeCfg, FreeSrv, FreeLog
  <2> QED BY <1>9, <2>1
          DEF CleanupStep, FreeCfg, FreeSrv, FreeLog, PoolMoves
<1>10. CASE MainCleanup
  BY <1>9, <1>10 DEF MainCleanup
<1>11. CASE MainExit \/ DoubleFree
  BY <1>11 DEF MainExit, DoubleFree
<1>12. CASE HandleSigint
  BY <1>12 DEF HandleSigint, InHandler, Return
<1>13. CASE HandlerCleanup
  BY <1>9, <1>13 DEF HandlerCleanup, InHandler
<1>14. CASE HandlerExit \/ Sigint
  BY <1>14 DEF HandlerExit, ExitProcess, Sigint, AfterSignal
<1>15. ASSUME NEW c \in Clients, Connect(c) PROVE TypeOK'
  BY <1>15 DEF Connect
<1>16. CASE Serve
  BY <1>16, MovesKnown DEF Serve, PoolMoves
<1> QED BY <1>1, <1>2, <1>3, <1>4, <1>5, <1>6, <1>7, <1>8, <1>10, <1>11, <1>12,
           <1>13, <1>14, <1>15, <1>16 DEF Next, MainStep, HandlerStep

-----------------------------------------------------------------------------
(***************************************************************************)
(* Flags, the handler and the cleanup.                                     *)
(***************************************************************************)
LEMMA StepControl ==
  ASSUME TypeOK, Control, [Next]_vars
  PROVE  Control'
<1> USE CleanupSteps
    DEF Control, FlagsFollowMain, OneHandler, FreedInOrder, Cleaner, StopSticks,
        ListeningServerEndsCleanly, Loop, Startup, Cleanup, Frees,
        At, Go, End, flags, net, pool, past
<1>1. CASE UNCHANGED vars
  BY <1>1 DEF vars
<1>2. CASE \/ ParseArguments \/ LoadConfig \/ ReadSettings \/ Detach
           \/ CreateServer \/ Setup \/ Listen
  BY <1>2 DEF ParseArguments, LoadConfig, ReadSettings, Detach,
     CreateServer, Setup, Listen
<1>3. CASE RaiseFlag
  BY <1>3 DEF RaiseFlag, FlagOrder, Raise
<1>4. CASE Test \/ CallAccept \/ Check
  BY <1>4 DEF Test, GoesOn, CallAccept, Check
<1>5. CASE Accept \/ Add \/ Drop
  BY <1>5 DEF Accept, Add, Drop, CloseHeld
<1>6. CASE Leave
  BY <1>6 DEF Leave
<1>7. CASE MainCleanup
  BY <1>7 DEF MainCleanup, CleanupStep, FreeCfg, FreeSrv, FreeLog
<1>8. CASE MainExit
  BY <1>8 DEF MainExit
<1>9. CASE DoubleFree
  BY <1>9 DEF DoubleFree, FreesTwice
<1>10. CASE HandleSigint
  BY <1>10 DEF HandleSigint, InHandler, Return
<1>11. CASE HandlerCleanup
  BY <1>11 DEF HandlerCleanup, InHandler, CleanupStep, FreeCfg, FreeSrv, FreeLog
<1>12. CASE HandlerExit
  BY <1>12 DEF HandlerExit, ExitProcess
<1>13. CASE Sigint
  BY <1>13 DEF Sigint, AfterSignal
<1>14. ASSUME NEW c \in Clients, Connect(c) PROVE Control'
  BY <1>14 DEF Connect
<1>15. CASE Serve
  BY <1>15 DEF Serve
<1> QED BY <1>1, <1>2, <1>3, <1>4, <1>5, <1>6, <1>7, <1>8, <1>9, <1>10, <1>11,
           <1>12, <1>13, <1>14, <1>15 DEF Next, MainStep, HandlerStep

-----------------------------------------------------------------------------
(***************************************************************************)
(* Where each connection is.                                               *)
(***************************************************************************)
\* The descriptor of an interrupted accept is nobody's connection.
LEMMA NoConnNowhere ==
  ASSUME TypeOK
  PROVE  NoConn \notin closed \cup backlog \cup Pool!Known
<1>1. Range(pending) \subseteq Conns
  BY RangeMember, ElementOfSeq DEF TypeOK
<1> QED BY <1>1, KnownConns, ConnsAssumption DEF TypeOK, Conns

LEMMA StepLatePath ==
  ASSUME TypeOK, Control, LatePath, [Next]_vars
  PROVE  LatePath'
<1> USE DEF LatePath, At, Go, End, flags, net, past
<1>1. CASE UNCHANGED vars
  BY <1>1, KnownConns DEF vars, pool
<1>2. CASE \/ ParseArguments \/ LoadConfig \/ ReadSettings \/ Detach
           \/ CreateServer \/ Setup \/ Listen
  BY <1>2, KnownConns DEF ParseArguments, LoadConfig, ReadSettings, Detach,
     CreateServer, Setup, Listen, pool
<1>3. CASE RaiseFlag
  <2>1. /\ UNCHANGED <<net, pool, past>> /\ held = NoConn
        /\ main' \in {"alive", "test"}
    BY <1>3 DEF RaiseFlag
  <2> QED BY <2>1, KnownConns DEF pool
<1>4. CASE Test \/ CallAccept \/ Leave \/ MainExit
  BY <1>4, KnownConns DEF Test, GoesOn, CallAccept, Leave, MainExit, pool
<1>5. CASE Check
  BY <1>5, KnownConns DEF Check, StillServing, pool
<1>6. CASE Accept
  <2>1. UNCHANGED pool /\ Pool!Known' = Pool!Known /\ held = NoConn
    BY <1>6, KnownConns DEF Accept, pool
  <2>2. PICK c \in backlog \cup FailuresLeft :
          /\ held' = c
          /\ backlog' = backlog \ {c}
          /\ late' = IF stopped THEN late \cup {c} ELSE late
    BY <1>6 DEF Accept
  <2>3. c \notin closed \cup Pool!Known /\ c # NoConn
    BY <2>2, ConnsAssumption DEF FailuresLeft, TypeOK
  <2>4. stopped => ~keep_alive
    BY DEF Control, FlagsFollowMain, StopSticks
  <2> QED BY <1>6, <2>1, <2>2, <2>3, <2>4 DEF Accept
<1>7. CASE Add
  <2>1. held \in Conns /\ Pool!Submit(held)
    BY <1>7 DEF Add, TypeOK
  <2>2. Pool!Known' = Pool!Known \cup {held}
    BY <2>1, SubmitKnown
  <2>3. NoConn \notin Pool!Known' \cup closed \cup backlog
    BY <2>1, <2>2, ConnsAssumption, NoConnNowhere DEF Conns
  <2>4. /\ main = "add" /\ held' = NoConn /\ main' = "test"
        /\ UNCHANGED <<backlog, closed, late, stopped>>
    BY <1>7 DEF Add
  <2>5. held \notin late /\ held \notin closed \cup Pool!Known \cup backlog
    BY <2>4
  <2> QED BY <2>2, <2>3, <2>4, <2>5
<1>8. CASE Drop
  <2>1. Pool!Known' = Pool!Known
    BY <1>8, KnownConns DEF Drop, pool
  <2>2. NoConn \notin Pool!Known \cup closed' \cup backlog
    BY <1>8, NoConnNowhere DEF Drop, CloseHeld
  <2> QED BY <1>8, <2>1, <2>2 DEF Drop, CloseHeld
<1>9. CASE MainCleanup
  <2>1. PICK step \in Frees : At(step) /\ CleanupStep(step) /\ Go(NextStep[step])
    BY <1>9, CleanupSteps DEF MainCleanup
  <2>2. PoolMoves
    BY <2>1, MovesKnown DEF CleanupStep, FreeCfg, FreeSrv, FreeLog
  <2>3. main' \in {"freeSrv", "freeLog", "exit"}
    BY <2>1, CleanupSteps DEF Frees
  <2>4. main \notin {"check", "add", "drop"}
    BY <2>1 DEF Frees
  <2> QED BY <2>1, <2>2, <2>3, <2>4 DEF CleanupStep, PoolMoves
<1>10. CASE HandlerCleanup
  <2>1. PICK step \in Frees : InHandler(step) /\ CleanupStep(step) /\ main' = main
    BY <1>10, CleanupSteps DEF HandlerCleanup
  <2>2. PoolMoves
    BY <2>1, MovesKnown DEF CleanupStep, FreeCfg, FreeSrv, FreeLog
  <2>3. keep_alive' => keep_alive
    BY <2>1 DEF CleanupStep, FreeCfg, FreeSrv, FreeLog
  <2> QED BY <2>1, <2>2, <2>3 DEF CleanupStep, PoolMoves
<1>11. CASE DoubleFree \/ HandlerExit \/ Sigint
  BY <1>11, KnownConns DEF DoubleFree, HandlerExit, ExitProcess, Sigint, pool
<1>12. CASE HandleSigint
  <2>1. UNCHANGED <<net, pool>> /\ Pool!Known' = Pool!Known
    BY <1>12, KnownConns DEF HandleSigint, pool
  <2> QED BY <1>12, <2>1 DEF HandleSigint, Return
<1>13. ASSUME NEW c \in Clients, Connect(c) PROVE LatePath'
  BY <1>13, KnownConns DEF Connect, pool
<1>14. CASE Serve
  <2>1. PoolMoves
    BY <1>14, MovesKnown DEF Serve
  <2> QED BY <1>14, <2>1 DEF Serve, PoolMoves
<1> QED BY <1>1, <1>2, <1>3, <1>4, <1>5, <1>6, <1>7, <1>8, <1>9, <1>10, <1>11,
           <1>12, <1>13, <1>14 DEF Next, MainStep, HandlerStep

-----------------------------------------------------------------------------
LEMMA StepIInv == IInv /\ [Next]_vars => IInv'
  BY StepTypeOK, StepControl, StepLatePath DEF IInv

LEMMA AlwaysIInv == Spec => []IInv
  BY InitIInv, StepIInv, PTL DEF Spec

\* The process, its flags and its connections keep their types.
THEOREM TypeCorrect == Spec => []TypeOK
<1>1. IInv => TypeOK
  BY DEF IInv
<1> QED BY <1>1, AlwaysIInv, PTL

\* A stop request of the SIGINT handler is never overwritten by the
\* assignment at server.c:261.
THEOREM StopRequestSticks == Spec => []StopSticks
<1>1. IInv => StopSticks
  BY DEF IInv, Control, FlagsFollowMain
<1> QED BY <1>1, AlwaysIInv, PTL

\* A connection accepted after a stop request never reaches the pool and is
\* closed, for any number of clients (server.c:281-284).
THEOREM LateConnectionsNeverServed == Spec => []LateConnectionsClosed
<1>1. IInv => LateConnectionsClosed
  BY DEF IInv, LatePath, LateConnectionsClosed
<1> QED BY <1>1, AlwaysIInv, PTL

\* From listen on, nothing is freed twice and no missing or freed server is
\* dereferenced, whenever the SIGINT comes (cweb.c:38-53).
THEOREM EndsCleanly == Spec => []ListeningServerEndsCleanly
<1>1. IInv => ListeningServerEndsCleanly
  BY DEF IInv, Control
<1> QED BY <1>1, AlwaysIInv, PTL

\* Only Add brings a connection into the pool, and main is not in the loop
\* any more when somebody destroys the pool.
LEMMA StepAddsToLivePool ==
  IInv /\ [Next]_vars =>
    Range(pending') \subseteq Range(pending) \/ "srv" \notin freed
<1> SUFFICES ASSUME IInv, [Next]_vars
             PROVE  Range(pending') \subseteq Range(pending) \/ "srv" \notin freed
  OBVIOUS
<1> USE DEF IInv
<1>1. CASE Add
  <2>1. main = "add" /\ handler = "idle"
    BY <1>1 DEF Add, At
  <2> QED BY <2>1
          DEF Control, OneHandler, FreedInOrder, Cleaner, Loop, Cleanup, Frees
<1>2. CASE UNCHANGED pool
  BY <1>2 DEF pool
<1>3. CASE MainCleanup \/ HandlerCleanup
  <2>1. PICK step \in Frees : CleanupStep(step)
    BY <1>3, CleanupSteps DEF MainCleanup, HandlerCleanup
  <2> QED BY <2>1, MovesKnown
          DEF CleanupStep, FreeCfg, FreeSrv, FreeLog, PoolMoves
<1>4. CASE Serve
  BY <1>4, MovesKnown DEF Serve, PoolMoves
<1>5. UNCHANGED pool \/ Add \/ MainCleanup \/ HandlerCleanup \/ Serve
  <2>1. CASE MainStep
    BY <2>1 DEF MainStep, ParseArguments, LoadConfig, ReadSettings, Detach,
                CreateServer, Setup, Listen, RaiseFlag,
                Test, CallAccept, Accept, Check, Drop, Leave, MainExit, DoubleFree
  <2>2. CASE HandlerStep \/ Sigint
    BY <2>2 DEF HandlerStep, HandleSigint, HandlerExit, Sigint
  <2>3. CASE \E c \in Clients : Connect(c)
    BY <2>3 DEF Connect
  <2>4. CASE UNCHANGED vars
    BY <2>4 DEF vars
  <2> QED BY <2>1, <2>2, <2>3, <2>4 DEF Next
<1> QED BY <1>1, <1>2, <1>3, <1>4, <1>5

\* No work is added to a pool that has been destroyed: the assumption under
\* which ThreadPool models threadpool_add_work.
THEOREM AddsToLivePool == Spec => AddOnlyToLivePool
<1>1. IInv /\ [Next]_vars =>
        [Range(pending') \subseteq Range(pending) \/ "srv" \notin freed]_vars
  BY StepAddsToLivePool
<1> QED BY <1>1, AlwaysIInv, PTL DEF Spec, AddOnlyToLivePool
=============================================================================
