-------------------------- MODULE HttpWorkerProofs --------------------------
(***************************************************************************)
(* Proofs about the connection handler and the resource loader, for any     *)
(* number of clients, failing accepts, workers, descriptors and files.      *)
(***************************************************************************)
EXTENDS HttpWorker, SequenceLemmas

\* The types the arguments below rest on.
Types ==
  /\ job \in [Conns -> Stages]
  /\ conn \in [Conns -> Fds \cup {NoFd}]
  /\ fds \in [Fds -> Conns \cup {Nothing, AFile}]
  /\ request \in [Clients -> Requests]
  /\ sent \in [Clients -> {"nothing", "head", "body"}]
  /\ preloads \in [Preloads -> Nat]
  /\ DOMAIN reply = Conns /\ DOMAIN answer = Conns

\* A connection waits to be accepted, or in the queue, once, or is in the hands
\* of one worker.
OnePlace ==
  /\ backlog \subseteq Clients
  /\ \A c \in backlog : job[c] = "none"
  /\ queue \in Seq(Conns) /\ IsInjective(queue)
  /\ \A c \in Range(queue) : job[c] = "queued"

\* A job that has come past the head of a request has a client that has sent
\* it, one that answers has an answer, and one that has begun to, has told it.
Progress ==
  \A c \in Conns :
    /\ job[c] \in {"body", "lookup", "load", "answer", "contents", "close"} =>
         c \in Clients /\ sent[c] # "nothing"
    /\ job[c] \in {"answer", "contents"} => reply[c].status # 0
    /\ job[c] = "contents" => answer[c].status # 0

\* What is in the list has been preloaded.
ListedOnce == \A p \in Preloads \cap cached : preloads[p] > 0

Control == OnePlace /\ OwnDescriptor
Reasons == Progress /\ ListedOnce /\ LockLeftByPreload /\ EndsForAReason
IInv == Types /\ Control /\ Reasons

-----------------------------------------------------------------------------
\* There is a lowest unused descriptor when there is any.
LEMMA LowestFree ==
  ASSUME Free # {}
  PROVE  \E n \in Free : \A m \in Free : n <= m
<1>1. Free \subseteq Nat
  BY WorkerAssumption DEF Free, Fds
<1> QED
  BY <1>1, LeastOf

\* An opened descriptor was unused, and no other changes hands.
LEMMA OpenedOne ==
  ASSUME NEW owner, ~NoneFree
  PROVE  LET n == CHOOSE n \in Free : \A m \in Free : n <= m
         IN  n \in Fds /\ fds[n] = Nothing /\ Opened(owner) = [fds EXCEPT ![n] = owner]
BY LowestFree DEF Free, Opened, NoneFree

-----------------------------------------------------------------------------
LEMMA InitInv == Init => IInv
<1> SUFFICES ASSUME Init PROVE IInv
  OBVIOUS
<1> USE DEF Init, LoaderInit
<1>1. Types
  BY WorkerAssumption DEF Types, Stages
<1>2. Range(queue) = {} /\ IsInjective(queue) /\ queue \in Seq(Conns)
  BY DEF Range, IsInjective
<1>3. Control
  BY <1>2 DEF Control, OnePlace, OwnDescriptor
<1>4. Reasons
  BY DEF Reasons, Progress, ListedOnce, LockLeftByPreload, EndsForAReason
<1> QED
  BY <1>1, <1>3, <1>4 DEF IInv

-----------------------------------------------------------------------------
(***************************************************************************)
(* A step of a job moves this job alone, and touches the table of           *)
(* descriptors by closing its own or by opening an unused one.              *)
(***************************************************************************)
Moves(c, to) ==
  /\ job[c] \notin Idle /\ to \in Stages \ {"none", "queued"}
  /\ job' = [job EXCEPT ![c] = to]
  /\ \/ fds' = fds
     \/ to = "returned" /\ fds' = Closed(c)
     \/ ~NoneFree /\ fds' = Opened(AFile)

Frame == UNCHANGED <<setup, request, sent, gone, backlog, queue, conn, preloads, cached, mutex>>

OthersKeep(c) ==
  /\ DOMAIN reply' = Conns /\ DOMAIN answer' = Conns
  /\ \A d \in Conns : d # c => reply'[d] = reply[d] /\ answer'[d] = answer[d]

WorkStep(c) == (\E to \in Stages : Moves(c, to)) /\ Frame /\ OthersKeep(c)

LEMMA WorkIsStep ==
  ASSUME Types, NEW c \in Conns, Work(c)
  PROVE  WorkStep(c)
<1> USE DEF WorkStep, Moves, Frame, OthersKeep, Types, Idle, Stages, Step, Quiet, net, setup
<1>1. CASE Handshake(c)
  BY <1>1 DEF Handshake, loader
<1>2. CASE ReadHead(c)
  <2>1. c \in Clients => AfterHead[request[c].body] \in {"lookup", "body", "refuse"}
    BY WorkerAssumption DEF AfterHead
  <2> QED
    BY <1>2, <2>1 DEF ReadHead, HeadArrived
<1>3. CASE ReadBody(c)
  <2>1. job[c] = "body" /\ UNCHANGED <<reply, answer, setup, net, queue, conn, loader, preloads>>
    BY <1>3 DEF ReadBody
  <2>2. \E to \in {"lookup", "body"} : job' = [job EXCEPT ![c] = to]
    BY <1>3 DEF ReadBody
  <2> QED
    BY <2>1, <2>2 DEF loader
<1>4. CASE LookUp(c)
  <2>1. CASE FindRoute(c)
    BY <1>4, <2>1 DEF LookUp, FindRoute, loader
  <2>2. CASE UNCHANGED <<job, target, reply>>
    <3>1. job' = [job EXCEPT ![c] = "lookup"]
      BY <1>4, <2>2 DEF LookUp
    <3> QED
      BY <1>4, <2>2, <3>1 DEF LookUp, loader
  <2> QED
    BY <1>4, <2>1, <2>2 DEF LookUp
<1>5. CASE LoadFile(c)
  BY <1>5 DEF LoadFile, Load, ResourceNew
<1>6. CASE WriteHead(c)
  BY <1>6 DEF WriteHead, loader
<1>7. CASE WriteContents(c)
  BY <1>7 DEF WriteContents, loader
<1>8. CASE Close(c)
  BY <1>8 DEF Close
<1> QED
  BY <1>1, <1>2, <1>3, <1>4, <1>5, <1>6, <1>7, <1>8 DEF Work

LEMMA WorkKeepsControl ==
  ASSUME Types, Control, NEW c \in Conns, WorkStep(c)
  PROVE  /\ Control'
         /\ job' \in [Conns -> Stages] /\ fds' \in [Fds -> Conns \cup {Nothing, AFile}]
<1>1. PICK to \in Stages : Moves(c, to)
  BY DEF WorkStep
<1>2. UNCHANGED <<backlog, queue, conn>>
  BY DEF WorkStep, Frame
<1>3. job' \in [Conns -> Stages] /\ \A d \in Conns : job'[d] = IF d = c THEN to ELSE job[d]
  BY <1>1 DEF Types, Moves
<1>4. c \notin backlog /\ c \notin Range(queue)
  BY <1>1 DEF Control, OnePlace, Moves, Idle
<1>5. Range(queue) \subseteq Conns /\ backlog \subseteq Conns
  BY RangeMember DEF Control, OnePlace, Conns
<1>6. OnePlace'
  BY <1>2, <1>3, <1>4, <1>5 DEF Control, OnePlace
<1>7. job[c] \notin {"none", "returned"}
  BY <1>1 DEF Moves, Idle
<1>8. CASE fds' = fds
  BY <1>2, <1>3, <1>6, <1>7, <1>8 DEF Control, OwnDescriptor, Types
<1>9. CASE to = "returned" /\ fds' = Closed(c)
  <2>1. \A d \in Conns : d # c /\ job[d] \notin {"none", "returned"} /\ conn[d] # NoFd =>
          conn[d] # conn[c]
    BY <1>7 DEF Control, OwnDescriptor, Types
  <2>2. \A n \in Fds : n # conn[c] => fds'[n] = fds[n]
    BY <1>9 DEF Closed
  <2>3. fds' \in [Fds -> Conns \cup {Nothing, AFile}]
    BY <1>9 DEF Closed, Types
  <2> QED
    BY <1>2, <1>3, <1>6, <1>9, <2>1, <2>2, <2>3 DEF Control, OwnDescriptor, Types
<1>10. CASE ~NoneFree /\ fds' = Opened(AFile)
  <2>1. PICK n \in Fds : fds[n] = Nothing /\ fds' = [fds EXCEPT ![n] = AFile]
    BY <1>10, OpenedOne
  <2>2. \A d \in Conns : job[d] \notin {"none", "returned"} /\ conn[d] # NoFd => conn[d] # n
    BY <2>1, WorkerAssumption DEF Control, OwnDescriptor
  <2>3. fds' \in [Fds -> Conns \cup {Nothing, AFile}]
    BY <2>1 DEF Types
  <2> QED
    BY <1>2, <1>3, <1>6, <1>7, <2>1, <2>2, <2>3 DEF Control, OwnDescriptor, Types
<1> QED
  BY <1>1, <1>8, <1>9, <1>10 DEF Moves

\* What a job has reached by its own step.
LEMMA WorkKeepsProgress ==
  ASSUME Types, Progress, NEW c \in Conns, Work(c), WorkStep(c)
  PROVE  Progress'
<1> DEFINE Reached(d) ==
      /\ job[d] \in {"body", "lookup", "load", "answer", "contents", "close"} =>
           d \in Clients /\ sent[d] # "nothing"
      /\ job[d] \in {"answer", "contents"} => reply[d].status # 0
      /\ job[d] = "contents" => answer[d].status # 0
<1>1. \A d \in Conns : d # c => job'[d] = job[d] /\ reply'[d] = reply[d] /\ answer'[d] = answer[d]
  BY DEF WorkStep, Moves, OthersKeep, Types
<1>2. sent' = sent
  BY DEF WorkStep, Frame
<1>3. \A d \in Conns : d # c => Reached(d)'
  BY <1>1, <1>2 DEF Progress
<1> USE DEF Types, Step, Progress
<1>4. Reached(c)'
  <2>1. CASE Handshake(c)
    BY <1>2, <2>1 DEF Handshake
  <2>2. CASE ReadHead(c)
    <3>1. c \in Clients => AfterHead[request[c].body] \in {"lookup", "body", "refuse"}
      BY WorkerAssumption DEF AfterHead
    <3>2. CASE HeadArrived(c)
      BY <1>2, <2>2, <3>1, <3>2 DEF ReadHead, HeadArrived
    <3>3. CASE ~HeadArrived(c)
      BY <1>2, <2>2, <3>3 DEF ReadHead
    <3> QED
      BY <3>2, <3>3
  <2>3. CASE ReadBody(c)
    BY <1>2, <2>3 DEF ReadBody
  <2>4. CASE LookUp(c)
    <3>1. CASE FindRoute(c)
      BY <1>2, <2>4, <3>1 DEF LookUp, FindRoute, Reply
    <3>2. CASE UNCHANGED <<job, target, reply>>
      BY <1>2, <2>4, <3>2 DEF LookUp
    <3> QED
      BY <2>4, <3>1, <3>2 DEF LookUp
  <2>5. CASE LoadFile(c)
    BY <1>2, <2>5 DEF LoadFile, Reply
  <2>6. CASE WriteHead(c)
    BY <1>2, <2>6 DEF WriteHead
  <2>7. CASE WriteContents(c)
    BY <1>2, <2>7 DEF WriteContents
  <2>8. CASE Close(c)
    BY <1>2, <2>8 DEF Close
  <2> QED
    BY <2>1, <2>2, <2>3, <2>4, <2>5, <2>6, <2>7, <2>8 DEF Work
<1> QED
  BY <1>3, <1>4

\* Only reading a missing request, copying a vast body and writing to a client
\* that has left can end the process by a step of a job.
LEMMA WorkEndsForAReason ==
  ASSUME Types, Progress, NEW c \in Conns, Work(c), WorkStep(c), process = "running"
  PROVE  EndsForAReason'
<1>1. UNCHANGED <<sent, request, gone, preloads>>
  BY DEF WorkStep, Frame
<1>2. CASE UNCHANGED process
  BY <1>2 DEF EndsForAReason
<1>3. CASE (LookUp(c) /\ FollowsNull(c)) \/ (ReadBody(c) /\ request[c].body = "vast")
  <2>1. c \in Clients /\ sent[c] # "nothing"
    BY <1>3 DEF LookUp, ReadBody, Progress
  <2>2. process' = "crashed" /\ (request[c].path = BadRequest \/ request[c].body = "vast")
    BY <1>3 DEF LookUp, ReadBody, FollowsNull
  <2> QED
    BY <1>1, <2>1, <2>2 DEF EndsForAReason
<1>4. CASE (WriteHead(c) \/ WriteContents(c)) /\ c \in gone /\ process' = "killed"
  <2>1. answer'[c].status # 0
    BY <1>4 DEF WriteHead, WriteContents, Step, Progress, Types
  <2> QED
    BY <1>1, <1>4, <2>1 DEF EndsForAReason, NoReply, Reply
<1> QED
  BY <1>2, <1>3, <1>4 DEF Work, Handshake, ReadHead, ReadBody, LookUp, LoadFile,
     WriteHead, WriteContents, Write, Close, Quiet

\* When memory runs out, or the heap turns out to be damaged, nothing else
\* changes.
LEMMA FailureKeepsInv ==
  ASSUME IInv, NEW c \in Conns, Exhaust(c) \/ HeapFails(c)
  PROVE  IInv'
<1> USE DEF IInv
<1>1. /\ process' = "crashed" /\ (job[c] = "spin" \/ Overrun(c))
      /\ UNCHANGED <<setup, net, jobs, loader, preloads>>
  BY DEF Exhaust, HeapFails
<1> USE DEF net, jobs, loader
<1>2. EndsForAReason'
  BY <1>1 DEF EndsForAReason, Overrun
<1>3. Types' /\ Control'
  BY <1>1 DEF Types, Control, OnePlace, OwnDescriptor
<1>4. Progress' /\ ListedOnce' /\ LockLeftByPreload'
  BY <1>1 DEF Reasons, Progress, ListedOnce, LockLeftByPreload
<1> QED
  BY <1>2, <1>3, <1>4 DEF Reasons

-----------------------------------------------------------------------------
(***************************************************************************)
(* The steps of clients, the accept loop, the pool and the program.        *)
(***************************************************************************)
LEMMA NetKeepsInv ==
  ASSUME IInv, NEW c \in Clients, Connect(c) \/ Send(c) \/ Leave(c), UNCHANGED process,
         process = "running"
  PROVE  IInv'
<1> USE DEF IInv, net, jobs, loader
<1>1. UNCHANGED <<request, queue, job, conn, reply, answer, fds, cached, mutex, preloads>>
  BY DEF Connect, Send, Leave
<1>2. /\ sent' \in [Clients -> {"nothing", "head", "body"}]
      /\ \A d \in Clients : sent[d] # "nothing" => sent'[d] # "nothing"
  BY DEF Connect, Send, Leave, Types
<1>3. Types'
  BY <1>1, <1>2 DEF Types
<1>4. backlog' \subseteq Clients /\ \A d \in backlog' : job[d] = "none"
  BY DEF Connect, Send, Leave, Control, OnePlace
<1>5. Control'
  BY <1>1, <1>4 DEF Control, OnePlace, OwnDescriptor
<1>6. Reasons'
  BY <1>1, <1>2 DEF Reasons, Progress, ListedOnce, LockLeftByPreload, EndsForAReason
<1> QED
  BY <1>3, <1>5, <1>6

\* A job that is made, and one that is started, has nothing to answer for yet.
LEMMA FreshKeepsReasons ==
  ASSUME Types, Reasons, NEW c \in Conns, NEW to \in {"queued", "handshake", "head"},
         job' = [job EXCEPT ![c] = to], process = "running",
         UNCHANGED <<process, request, sent, reply, answer, cached, mutex, preloads>>
  PROVE  Reasons'
BY DEF Types, Reasons, Progress, ListedOnce, LockLeftByPreload, EndsForAReason

LEMMA EnqueueKeepsPlace ==
  ASSUME Types, OnePlace, NEW c \in Conns, NEW fd \in Fds \cup {NoFd}, Enqueue(c, fd),
         job[c] = "none", backlog' \subseteq backlog, c \notin backlog'
  PROVE  OnePlace'
<1>1. queue' = Append(queue, c) /\ job' = [job EXCEPT ![c] = "queued"]
  BY DEF Enqueue
<1>2. c \notin Range(queue) /\ Range(queue) \subseteq Conns
  BY RangeMember DEF OnePlace
<1>3. IsInjective(queue') /\ queue' \in Seq(Conns)
  BY <1>1, <1>2, DistinctAppend, AppendProperties DEF OnePlace
<1>4. Range(queue') = Range(queue) \cup {c}
  BY <1>1, RangeAppend DEF OnePlace
<1> QED
  BY <1>1, <1>2, <1>3, <1>4 DEF OnePlace, Types, Conns

LEMMA AcceptKeepsInv ==
  ASSUME IInv, NEW c \in Clients, Accept(c), UNCHANGED process, process = "running"
  PROVE  IInv'
<1> USE DEF IInv
<1>1. PICK n \in Fds : /\ fds[n] = Nothing
                       /\ fds' = [fds EXCEPT ![n] = c]
                       /\ Enqueue(c, n)
  BY OpenedOne DEF Accept
<1>2. job[c] = "none" /\ backlog' = backlog \ {c} /\ c \in Conns
  BY DEF Accept, Control, OnePlace, Conns
<1>3. /\ conn' = [conn EXCEPT ![c] = n] /\ job' = [job EXCEPT ![c] = "queued"]
      /\ UNCHANGED <<request, sent, reply, answer, cached, mutex, preloads>>
  BY <1>1 DEF Enqueue, OwnData, Accept
<1>4. Types'
  BY <1>1, <1>2, <1>3 DEF Types, Stages
<1>5. OnePlace'
  BY <1>1, <1>2, EnqueueKeepsPlace DEF Control
<1>6. \A d \in Conns : job[d] \notin {"none", "returned"} /\ conn[d] # NoFd => conn[d] # n
  BY <1>1, WorkerAssumption DEF Control, OwnDescriptor
<1>7. OwnDescriptor'
  BY <1>1, <1>2, <1>3, <1>6 DEF Control, OwnDescriptor, Types
<1>8. Reasons'
  BY <1>2, <1>3, FreshKeepsReasons
<1> QED
  BY <1>4, <1>5, <1>7, <1>8 DEF Control

LEMMA AcceptFailsKeepsInv ==
  ASSUME IInv, NEW c \in Failures, AcceptFails(c), UNCHANGED process, process = "running"
  PROVE  IInv'
<1> USE DEF IInv
<1>1. job[c] = "none" /\ Enqueue(c, NoFd) /\ c \in Conns
  BY DEF AcceptFails, Conns
<1>2. /\ conn' = [conn EXCEPT ![c] = NoFd] /\ job' = [job EXCEPT ![c] = "queued"]
      /\ UNCHANGED <<request, sent, backlog, reply, answer, fds, cached, mutex, preloads>>
  BY <1>1 DEF Enqueue, OwnData, AcceptFails, net, loader
<1>3. Types'
  BY <1>1, <1>2 DEF Types, Stages
<1>4. c \notin backlog
  BY WorkerAssumption DEF Control, OnePlace
<1>5. OnePlace'
  BY <1>1, <1>2, <1>4, EnqueueKeepsPlace DEF Control
<1>6. OwnDescriptor'
  BY <1>1, <1>2 DEF Control, OwnDescriptor, Types
<1>7. Reasons'
  BY <1>1, <1>2, FreshKeepsReasons
<1> QED
  BY <1>3, <1>5, <1>6, <1>7 DEF Control

LEMMA StartKeepsInv ==
  ASSUME IInv, Start, UNCHANGED process, process = "running"
  PROVE  IInv'
<1> USE DEF IInv
<1> DEFINE c == Head(queue)
<1>1. /\ queue # <<>> /\ queue' = Tail(queue)
      /\ UNCHANGED <<request, sent, backlog, conn, reply, answer, fds, cached, mutex, preloads>>
  BY DEF Start, net, loader
<1>2. PICK to \in {"handshake", "head"} : job' = [job EXCEPT ![c] = to]
  BY DEF Start
<1>3. /\ c \in Conns /\ Tail(queue) \in Seq(Conns) /\ IsInjective(Tail(queue))
      /\ Range(Tail(queue)) = Range(queue) \ {c} /\ job[c] = "queued"
  BY <1>1, RangeHeadTail, TailOfDistinct DEF Control, OnePlace
<1>4. Range(queue) \subseteq Conns /\ backlog \subseteq Conns
  BY RangeMember DEF Control, OnePlace, Conns
<1> HIDE DEF c
<1>5. Types'
  BY <1>1, <1>2, <1>3 DEF Types, Stages
<1>6. OnePlace'
  BY <1>1, <1>2, <1>3, <1>4 DEF Control, OnePlace, Types
<1>7. OwnDescriptor'
  BY <1>1, <1>2, <1>3 DEF Control, OwnDescriptor, Types
<1>8. Reasons'
  BY <1>1, <1>2, <1>3, FreshKeepsReasons
<1> QED
  BY <1>5, <1>6, <1>7, <1>8 DEF Control

LEMMA WorkKeepsInv ==
  ASSUME IInv, NEW c \in Conns, Work(c), process = "running"
  PROVE  IInv'
<1> USE DEF IInv
<1>1. WorkStep(c)
  BY WorkIsStep
<1>2. Control' /\ job' \in [Conns -> Stages] /\ fds' \in [Fds -> Conns \cup {Nothing, AFile}]
  BY <1>1, WorkKeepsControl
<1>3. Types'
  BY <1>1, <1>2 DEF Types, WorkStep, Frame, OthersKeep
<1>4. Progress' /\ EndsForAReason'
  BY <1>1, WorkKeepsProgress, WorkEndsForAReason DEF Reasons
<1>5. ListedOnce' /\ LockLeftByPreload'
  BY <1>1 DEF WorkStep, Frame, Reasons, ListedOnce, LockLeftByPreload
<1> QED
  BY <1>2, <1>3, <1>4, <1>5 DEF Reasons

LEMMA PreloadKeepsInv ==
  ASSUME IInv, NEW p \in Preloads, Preload(p), process = "running"
  PROVE  IInv'
<1> USE DEF IInv
<1>1. /\ preloads' = [preloads EXCEPT ![p] = @ + 1]
      /\ UNCHANGED <<request, sent, gone, backlog, queue, job, conn, reply, answer>>
  BY DEF Preload, net, jobs
<1>2. /\ preloads' \in [Preloads -> Nat] /\ preloads'[p] > 0
      /\ \A q \in Preloads : preloads[q] > 0 => preloads'[q] > 0
      /\ preloads[p] > 0 => preloads'[p] > 1
      /\ \A q \in Preloads : preloads[q] > 1 => preloads'[q] > 1
  BY <1>1 DEF Types
<1>3. /\ cached' \subseteq cached \cup {p}
      /\ mutex' = "left" => mutex = "left" \/ p \in cached
  BY DEF Preload, PreloadNew, PreloadAgain, Unlocked, loader
<1>4. process' # "killed"
  BY DEF Preload
<1>5. fds' = fds \/ (~NoneFree /\ fds' = Opened(AFile))
  BY DEF Preload, PreloadNew, PreloadAgain, ResourceNew, loader
<1>6. /\ fds' \in [Fds -> Conns \cup {Nothing, AFile}]
      /\ \A d \in Conns : job[d] \notin {"none", "returned"} /\ conn[d] # NoFd =>
           fds'[conn[d]] = fds[conn[d]]
  <2>1. CASE fds' = fds
    BY <2>1 DEF Types
  <2>2. CASE ~NoneFree /\ fds' = Opened(AFile)
    <3>1. PICK n \in Fds : fds[n] = Nothing /\ fds' = [fds EXCEPT ![n] = AFile]
      BY <2>2, OpenedOne
    <3>2. \A d \in Conns : job[d] \notin {"none", "returned"} /\ conn[d] # NoFd => conn[d] # n
      BY <3>1, WorkerAssumption DEF Control, OwnDescriptor
    <3> QED
      BY <3>1, <3>2 DEF Types
  <2> QED
    BY <1>5, <2>1, <2>2
<1>7. Types'
  BY <1>1, <1>2, <1>6 DEF Types
<1>8. Control'
  BY <1>1, <1>6 DEF Control, OnePlace, OwnDescriptor
<1>9. Progress'
  BY <1>1 DEF Reasons, Progress
<1>10. ListedOnce' /\ LockLeftByPreload'
  BY <1>2, <1>3 DEF Reasons, ListedOnce, LockLeftByPreload
<1>11. EndsForAReason'
  BY <1>2, <1>4 DEF EndsForAReason
<1> QED
  BY <1>7, <1>8, <1>9, <1>10, <1>11 DEF Reasons

LEMMA NextInv == IInv /\ [Next]_vars => IInv'
<1> SUFFICES ASSUME IInv, [Next]_vars PROVE IInv'
  OBVIOUS
<1>1. CASE UNCHANGED vars
  BY <1>1 DEF vars, net, jobs, loader, IInv, Types, Control, OnePlace, OwnDescriptor, Reasons,
     Progress, ListedOnce, LockLeftByPreload, EndsForAReason, Overrun
<1>2. CASE process = "running" /\ Others /\ UNCHANGED <<process, setup>>
  BY <1>2, NetKeepsInv, AcceptKeepsInv, AcceptFailsKeepsInv, StartKeepsInv DEF Others
<1>3. CASE process = "running" /\ \E c \in Conns : Work(c)
  BY <1>3, WorkKeepsInv
<1>4. CASE process = "running" /\ \E p \in Preloads : Preload(p)
  BY <1>4, PreloadKeepsInv
<1>5. CASE \E c \in Conns : Exhaust(c) \/ HeapFails(c)
  BY <1>5, FailureKeepsInv
<1>6. CASE /\ process = "loading"
           /\ ReadRoute \/ Listen
           /\ UNCHANGED <<ckind, net, jobs, loader, preloads>>
  BY <1>6 DEF ReadRoute, Listen, net, jobs, loader, IInv, Types, Control, OnePlace, OwnDescriptor,
     Reasons, Progress, ListedOnce, LockLeftByPreload, EndsForAReason
<1> QED
  BY <1>1, <1>2, <1>3, <1>4, <1>5, <1>6 DEF Next

\* The inductive invariant holds in every reachable state.
LEMMA Inv == Spec => []IInv
BY InitInv, NextInv, PTL DEF Spec

-----------------------------------------------------------------------------
(***************************************************************************)
(* The theorems.                                                           *)
(***************************************************************************)
\* However many connections are opened, closed and opened again, a job uses
\* and closes the descriptor of its own client only.
THEOREM DescriptorCorrect == Spec => []OwnDescriptor
<1>1. IInv => OwnDescriptor
  BY DEF IInv, Control
<1> QED
  BY <1>1, Inv, PTL

\* Loads of any files by any number of workers never leave the mutex of the
\* loader locked; only a repeated preload does.
THEOREM LockCorrect == Spec => []LockLeftByPreload
<1>1. IInv => LockLeftByPreload
  BY DEF IInv, Reasons
<1> QED
  BY <1>1, Inv, PTL

\* The process ends only for a reason that EndsForAReason names, whatever any
\* number of clients ask for, announce, leave unsent and do not wait for.
THEOREM EndCorrect == Spec => []EndsForAReason
<1>1. IInv => EndsForAReason
  BY DEF IInv, Reasons
<1> QED
  BY <1>1, Inv, PTL

\* A file that exists is reported missing only for want of descriptors, and
\* never when it has been preloaded.
THEOREM NotFoundCorrect == Spec => NotFoundMeansMissing
<1> DEFINE Missing ==
      \A c \in Conns :
        reply'[c] # reply[c] /\ reply'[c].status = 404 /\ target[c] \in Files =>
          NoneFree /\ target[c] \notin cached
<1>1. IInv /\ [Next]_vars => [Missing]_vars
  <2> SUFFICES ASSUME IInv, [Next]_vars, NEW c \in Conns, reply'[c] # reply[c],
                      reply'[c].status = 404, target[c] \in Files
               PROVE  NoneFree /\ target[c] \notin cached
    OBVIOUS
  <2>1. PICK d \in Conns : Work(d)
    BY DEF Next, Exhaust, HeapFails, Others, Connect, Send, Leave, Accept, AcceptFails, Enqueue, Start, Preload,
       vars, net, jobs
  <2>2. WorkStep(d)
    BY <2>1, WorkIsStep DEF IInv
  <2>3. d = c
    BY <2>2 DEF WorkStep, OthersKeep
  <2>4. LoadFile(c) \/ FindRoute(c)
    BY <2>1, <2>3 DEF Work, Handshake, ReadHead, ReadBody, LookUp, WriteHead, WriteContents, Close
  <2>5. ~FindRoute(c)
    <3> SUFFICES ASSUME FindRoute(c) PROVE FALSE
      OBVIOUS
    <3> DEFINE route == Lookup(routes, request[c].path)
               status == IF route.kind = "redirect" THEN 301 ELSE 302
    <3>1. reply' = [reply EXCEPT ![c] = Reply(status, Nothing, route.to)]
      BY DEF FindRoute
    <3>2. status # 404
      OBVIOUS
    <3> HIDE DEF status, route
    <3> QED
      BY <3>1, <3>2 DEF Reply, IInv, Types
  <2>6. PICK res \in Files \cup {Nothing} :
          /\ Load(target[c], res)
          /\ reply' = [reply EXCEPT ![c] = Reply(IF res = Nothing THEN 404 ELSE 200, res, Nothing)]
    BY <2>4, <2>5 DEF LoadFile
  <2>7. res = Nothing
    BY <2>6 DEF Reply, IInv, Types
  <2> QED
    BY <2>6, <2>7, WorkerAssumption DEF Load, ResourceNew
<1> QED
  BY <1>1, Inv, PTL DEF Spec, NotFoundMeansMissing

-----------------------------------------------------------------------------
(***************************************************************************)
(* The workers keep what HttpExchange promises to each client.             *)
(***************************************************************************)
\* The list at router->head is the file of routes read so far, backwards.
Table ==
  /\ routes \in Seq(Range(Routes)) /\ Len(routes) <= Len(Routes)
  /\ \A n \in 1..Len(routes) : routes[n] = Routes[Len(routes) + 1 - n]
  /\ process # "loading" => Len(routes) = Len(Routes)

-----------------------------------------------------------------------------
(***************************************************************************)
(* The router.                                                             *)
(***************************************************************************)
LEMMA ReadRouteKeepsTable ==
  ASSUME Table, ReadRoute
  PROVE  Table'
<1> DEFINE r == Routes[Len(routes) + 1]
           S == Range(Routes)
<1>1. Routes \in Seq(S)
  BY WorkerAssumption
<1>2. Len(routes) \in Nat /\ Len(Routes) \in Nat
  BY <1>1, LenProperties DEF Table
<1>3. Len(routes) + 1 \in 1..Len(Routes)
  BY <1>2 DEF ReadRoute
<1>4. r \in S
  BY <1>1, <1>3, ElementOfSeq
<1> HIDE DEF S
<1>5. <<r>> \in Seq(S) /\ Len(<<r>>) = 1 /\ <<r>>[1] = r
  BY <1>4
<1> HIDE DEF r
<1>6. routes \in Seq(S) /\ routes' = <<r>> \o routes
  BY DEF Table, S, r, ReadRoute, AddRoute
<1>7. /\ routes' \in Seq(S) /\ Len(routes') = Len(routes) + 1
      /\ \A i \in 1..Len(routes) + 1 :
           routes'[i] = IF i <= 1 THEN <<r>>[i] ELSE routes[i - 1]
  BY <1>5, <1>6, ConcatProperties, 1 + Len(routes) = Len(routes) + 1, <1>2
<1>8. ASSUME NEW i \in 1..Len(routes')
      PROVE  routes'[i] = Routes[Len(routes') + 1 - i]
  <2>1. CASE i = 1
    <3>1. Len(routes') + 1 - i = Len(routes) + 1
      BY <1>2, <1>7, <2>1
    <3> QED
      BY <1>2, <1>5, <1>7, <2>1, <3>1 DEF r
  <2>2. CASE i # 1
    <3>1. i - 1 \in 1..Len(routes) /\ routes'[i] = routes[i - 1]
      BY <1>2, <1>7, <1>8, <2>2
    <3>2. routes[i - 1] = Routes[Len(routes) + 1 - (i - 1)]
      BY <3>1 DEF Table
    <3>3. Len(routes) + 1 - (i - 1) = Len(routes') + 1 - i
      BY <1>2, <1>7, <1>8
    <3> QED
      BY <3>1, <3>2, <3>3
  <2> QED
    BY <2>1, <2>2
<1>9. process' = process /\ (process # "loading" => FALSE)
  BY <1>2 DEF ReadRoute, Table
<1> QED
  BY <1>2, <1>3, <1>7, <1>8, <1>9 DEF Table, S

\* A lookup finds the route of the last line that matches, unless this leads
\* to the path itself (httpserv_router_lookup).
LEMMA LookupDecides ==
  ASSUME Table, process # "loading", NEW path
  PROVE  \/ Lookup(routes, path) = NoRoute /\ Exchange!Deciding(path) = {}
         \/ \E n \in Exchange!Deciding(path) :
              n \in DOMAIN Routes /\ Lookup(routes, path) = Routes[n] /\ Routes[n] # NoRoute
<1> DEFINE L == Len(Routes)
           hit == {i \in 1..Len(routes) : Matches(routes[i].pattern, path)}
           lines == {n \in DOMAIN Routes : Exchange!Matches(Routes[n].pattern, path)}
           first == IF hit # {} THEN Min(hit) ELSE 0
<1>1. /\ L \in Nat /\ Len(routes) = L /\ DOMAIN Routes = 1..L
      /\ \A i \in 1..L : routes[i] = Routes[L + 1 - i]
  BY WorkerAssumption, LenProperties DEF Table
<1>2. \A n \in 1..L : n \in lines <=> Matches(Routes[n].pattern, path)
  BY <1>1 DEF Exchange!Matches, Matches
<1>3. \A i \in 1..L : i \in hit <=> L + 1 - i \in lines
  BY <1>1, <1>2
<1>5. Lookup(routes, path) = IF first = 0 THEN NoRoute
                             ELSE IF routes[first].to = path THEN NoRoute
                             ELSE routes[first]
  BY DEF Lookup, SelectInSeq
<1>6. Exchange!Deciding(path) =
        {n \in lines : (\A m \in lines : m <= n) /\ Routes[n].to # path}
  BY DEF Exchange!Deciding
<1>7. hit \subseteq 1..L /\ lines \subseteq 1..L
  BY <1>1
<1>8. ASSUME hit # {} PROVE first \in hit /\ \A i \in hit : first <= i
  <2> HIDE DEF hit
  <2>1. hit \subseteq Nat
    BY <1>1, <1>7
  <2>2. \E n \in hit : \A m \in hit : n <= m
    BY <1>8, <2>1, LeastOf
  <2> QED
    BY <1>8, <2>2 DEF Min
<1> HIDE DEF hit, lines, first, L
<1>9. CASE hit = {}
  <2>1. lines = {}
    <3> SUFFICES ASSUME NEW n \in lines PROVE FALSE
      OBVIOUS
    <3>1. L + 1 - n \in 1..L /\ L + 1 - (L + 1 - n) = n
      BY <1>1, <1>7
    <3> QED
      BY <1>3, <1>9, <3>1
  <2> QED
    BY <1>5, <1>6, <1>9, <2>1 DEF first
<1>10. CASE hit # {}
  <2> DEFINE n == L + 1 - first
  <2>1. /\ first \in 1..L /\ n \in 1..L /\ n \in lines
        /\ routes[first] = Routes[n] /\ first # 0
    <3>1. first \in hit /\ first \in 1..L
      BY <1>7, <1>8, <1>10
    <3>2. n \in 1..L /\ first # 0
      BY <1>1, <3>1
    <3> QED
      BY <1>1, <1>3, <3>1, <3>2
  <2>2. ASSUME NEW m \in lines PROVE m <= n
    <3>1. L + 1 - m \in 1..L /\ L + 1 - (L + 1 - m) = m /\ m \in 1..L
      BY <1>1, <1>7
    <3>2. L + 1 - m \in hit
      BY <1>3, <3>1
    <3> QED
      BY <1>1, <1>8, <2>1, <3>1, <3>2
  <2>3. \A m \in lines : (\A k \in lines : k <= m) => m = n
    BY <1>1, <1>7, <2>1, <2>2
  <2>4. Routes[n] # NoRoute
    BY <1>1, <2>1, WorkerAssumption DEF Range
  <2> HIDE DEF n
  <2>5. CASE Routes[n].to = path
    BY <1>5, <1>6, <2>1, <2>3, <2>5
  <2>6. CASE Routes[n].to # path
    <3>1. n \in Exchange!Deciding(path)
      BY <1>6, <2>1, <2>2, <2>6
    <3> QED
      BY <1>1, <1>5, <2>1, <2>4, <2>6, <3>1
  <2> QED
    BY <2>5, <2>6
<1> QED
  BY <1>9, <1>10

-----------------------------------------------------------------------------
(***************************************************************************)
(* The rest of the types, and what the exchange with a client has come to. *)
(***************************************************************************)
Shape ==
  /\ process \in {"loading", "running", "crashed", "killed"}
  /\ ckind \in {"SCK", "SSL"}
  /\ request \in Talks
  /\ gone \subseteq Clients
  /\ target \in [Conns -> Targets \cup {Nothing}]
  /\ reply \in [Conns -> Replies] /\ answer \in [Conns -> Replies]
  /\ cached \subseteq Files
  /\ mutex \in {"free", "left"}

\* Nothing has been told before the answer is ready; what is being loaded, or
\* is ready, is what the path of the request calls for.
Agreed(c) ==
  /\ job[c] \notin {"contents", "close", "returned"} => answer[c] = NoReply
  /\ job[c] = "load" =>
       Exchange!Contents(target[c]) \subseteq Exchange!Permitted(request[c].path)
  /\ job[c] = "answer" => reply[c] \in Exchange!Permitted(request[c].path)

AllAgreed == \A c \in Clients : Agreed(c)

XInv == IInv /\ Table /\ Shape /\ AllAgreed

LEMMA ReplyType ==
  ASSUME NEW status \in {0, 200, 301, 302, 404}, NEW res \in Files \cup {Nothing},
         NEW location \in Targets \cup {Nothing}
  PROVE  Reply(status, res, location) \in Replies
BY DEF Reply, Replies

LEMMA InitXInv == Init => XInv
<1> SUFFICES ASSUME Init PROVE XInv
  OBVIOUS
<1> USE DEF Init, LoaderInit
<1>1. IInv
  BY InitInv
<1>2. Table
  <2>1. routes \in Seq(Range(Routes)) /\ Len(routes) = 0 /\ 1..0 = {}
    OBVIOUS
  <2>2. Len(Routes) \in Nat
    BY WorkerAssumption, LenProperties
  <2> QED
    BY <2>1, <2>2 DEF Table
<1>3. NoReply \in Replies
  BY ReplyType DEF NoReply
<1>4. Shape
  BY <1>3 DEF Shape
<1>5. AllAgreed
  BY DEF AllAgreed, Agreed, Conns
<1> QED
  BY <1>1, <1>2, <1>4, <1>5 DEF XInv

-----------------------------------------------------------------------------
(***************************************************************************)
(* A step of a job.                                                        *)
(***************************************************************************)
\* The route that a lookup returns is one of the table.
LEMMA RouteOfTable ==
  ASSUME Table, process # "loading", NEW path, Lookup(routes, path) # NoRoute
  PROVE  LET r == Lookup(routes, path)
         IN  /\ r \in Range(Routes) /\ r.to \in Targets
             /\ r.kind \in {"alias", "redirect", "route"}
<1>1. PICK n \in DOMAIN Routes : Lookup(routes, path) = Routes[n]
  BY LookupDecides
<1>2. Routes[n] \in Range(Routes)
  BY DEF Range
<1> QED
  BY <1>1, <1>2, WorkerAssumption DEF Targets

LEMMA WorkKeepsShape ==
  ASSUME XInv, NEW c \in Conns, Work(c), process = "running"
  PROVE  Shape'
<1> USE DEF Shape
<1>1. WorkStep(c)
  BY WorkIsStep DEF XInv, IInv
<1>2. Shape /\ UNCHANGED <<ckind, request, gone, cached, mutex>>
  BY <1>1 DEF XInv, WorkStep, Frame, setup
<1>3. CASE Handshake(c) \/ ReadHead(c) \/ ReadBody(c) \/ Close(c)
  <2>1. process' \in {"running", "crashed"} /\ UNCHANGED <<target, reply, answer>>
    BY <1>3 DEF Handshake, ReadHead, ReadBody, Close, Quiet
  <2> QED
    BY <1>2, <2>1
<1>4. CASE LookUp(c)
  <2>1. CASE FollowsNull(c) /\ process' = "crashed" /\ UNCHANGED <<job, target, reply>>
    BY <1>2, <1>4, <2>1 DEF LookUp
  <2>2. CASE FindRoute(c) /\ UNCHANGED process
    <3> DEFINE route == Lookup(routes, request[c].path)
    <3>1. answer' = answer
      BY <1>4 DEF LookUp
    <3>2. c \in Clients
      BY <1>4 DEF LookUp, XInv, IInv, Reasons, Progress
    <3>3. request[c].path \in Targets
      BY <3>2 DEF XInv, IInv, Types, Targets
    <3>4. route # NoRoute => route.to \in Targets
      BY RouteOfTable DEF XInv
    <3>5. target' \in [Conns -> Targets \cup {Nothing}]
      BY <1>2, <2>2, <3>3, <3>4 DEF FindRoute
    <3>6. ASSUME route # NoRoute
          PROVE  /\ Reply(301, Nothing, route.to) \in Replies
                 /\ Reply(302, Nothing, route.to) \in Replies
      BY <3>4, <3>6, ReplyType
    <3> HIDE DEF route
    <3>7. reply' \in [Conns -> Replies]
      <4>1. \/ reply' = reply
            \/ /\ route # NoRoute
               /\ \/ reply' = [reply EXCEPT ![c] = Reply(301, Nothing, route.to)]
                  \/ reply' = [reply EXCEPT ![c] = Reply(302, Nothing, route.to)]
        BY <2>2 DEF FindRoute, route
      <4> QED
        BY <1>2, <3>6, <4>1
    <3> QED
      BY <1>2, <2>2, <3>1, <3>5, <3>7
  <2> QED
    BY <1>4, <2>1, <2>2 DEF LookUp
<1>5. CASE LoadFile(c)
  <2>1. PICK res \in Files \cup {Nothing} :
          reply' = [reply EXCEPT ![c] = Reply(IF res = Nothing THEN 404 ELSE 200, res, Nothing)]
    BY <1>5 DEF LoadFile
  <2>2. Reply(IF res = Nothing THEN 404 ELSE 200, res, Nothing) \in Replies
    BY ReplyType
  <2>3. reply' \in [Conns -> Replies]
    BY <1>2, <2>1, <2>2
  <2> QED
    BY <1>2, <1>5, <2>3 DEF LoadFile, Quiet
<1>6. CASE WriteHead(c)
  BY <1>2, <1>6 DEF WriteHead, Write
<1>7. CASE WriteContents(c)
  BY <1>2, <1>7 DEF WriteContents, Write
<1> QED
  BY <1>3, <1>4, <1>5, <1>6, <1>7 DEF Work

\* A lookup decides as the file of routes does.
LEMMA FindRouteAgrees ==
  ASSUME XInv, NEW c \in Clients, FindRoute(c), request[c].path # BadRequest,
         process = "running"
  PROVE  \/ /\ job' = [job EXCEPT ![c] = "load"]
            /\ Exchange!Contents(target'[c]) \subseteq Exchange!Permitted(request[c].path)
         \/ /\ job' = [job EXCEPT ![c] = "answer"]
            /\ reply'[c] \in Exchange!Permitted(request[c].path)
<1> DEFINE path == request[c].path
           route == Lookup(routes, path)
<1>1. c \in DOMAIN target /\ c \in DOMAIN reply
  BY DEF XInv, IInv, Types, Shape, Conns
<1>2. \/ route = NoRoute /\ Exchange!Deciding(path) = {}
      \/ \E n \in Exchange!Deciding(path) : route = Routes[n] /\ Routes[n] # NoRoute
  BY LookupDecides DEF XInv
<1>3. CASE route = NoRoute
  <2>1. job' = [job EXCEPT ![c] = "load"] /\ target'[c] = path
    BY <1>1, <1>3 DEF FindRoute, Step
  <2>2. Exchange!Permitted(path) = Exchange!Contents(path)
    BY <1>2, <1>3 DEF Exchange!Permitted
  <2> QED
    BY <2>1, <2>2
<1>4. CASE route # NoRoute
  <2>1. PICK n \in Exchange!Deciding(path) : route = Routes[n]
    BY <1>2, <1>4
  <2>2. route.kind \in {"alias", "redirect", "route"}
    BY <1>4, RouteOfTable DEF XInv
  <2> DEFINE asked(r) == CASE r.kind = "alias" -> Exchange!Contents(r.to)
                           [] r.kind = "redirect" -> {Exchange!Answer(301, Nothing, r.to)}
                           [] r.kind = "route" -> {Exchange!Answer(302, Nothing, r.to)}
  <2>3. Exchange!Permitted(path) = UNION {asked(Routes[m]) : m \in Exchange!Deciding(path)}
    BY <2>1 DEF Exchange!Permitted
  <2>4. asked(route) \subseteq Exchange!Permitted(path)
    BY <2>1, <2>3
  <2>5. CASE route.kind = "alias"
    <3>1. job' = [job EXCEPT ![c] = "load"] /\ target'[c] = route.to
      BY <1>1, <1>4, <2>5 DEF FindRoute, Step
    <3> QED
      BY <2>4, <2>5, <3>1
  <2>6. CASE route.kind = "redirect"
    <3>1. job' = [job EXCEPT ![c] = "answer"] /\ reply'[c] = Reply(301, Nothing, route.to)
      BY <1>1, <1>4, <2>6 DEF FindRoute, Step
    <3>2. asked(route) = {Reply(301, Nothing, route.to)}
      BY <2>6 DEF Exchange!Answer, Reply
    <3> QED
      BY <2>4, <3>1, <3>2
  <2>7. CASE route.kind = "route"
    <3>1. job' = [job EXCEPT ![c] = "answer"] /\ reply'[c] = Reply(302, Nothing, route.to)
      BY <1>1, <1>4, <2>7 DEF FindRoute, Step
    <3>2. asked(route) = {Reply(302, Nothing, route.to)}
      BY <2>7 DEF Exchange!Answer, Reply
    <3> QED
      BY <2>4, <3>1, <3>2
  <2> QED
    BY <2>2, <2>5, <2>6, <2>7
<1> QED
  BY <1>3, <1>4

\* A file that is loaded is the one asked for.
LEMMA LoadAgrees ==
  ASSUME XInv, NEW c \in Clients, LoadFile(c)
  PROVE  reply'[c] \in Exchange!Contents(target[c])
<1>1. PICK res \in Files \cup {Nothing} :
        /\ Load(target[c], res)
        /\ reply' = [reply EXCEPT ![c] = Reply(IF res = Nothing THEN 404 ELSE 200, res, Nothing)]
  BY DEF LoadFile
<1>2. reply'[c] = Reply(IF res = Nothing THEN 404 ELSE 200, res, Nothing)
  BY <1>1 DEF XInv, Shape, Conns
<1>3. CASE res = Nothing
  BY <1>2, <1>3 DEF Exchange!Contents, Exchange!Answer, Reply
<1>4. CASE res # Nothing
  <2>1. res = target[c] /\ target[c] \in Files
    BY <1>1, <1>4 DEF Load, ResourceNew, XInv, Shape
  <2> QED
    BY <1>2, <1>4, <2>1 DEF Exchange!Contents, Exchange!Answer, Reply
<1> QED
  BY <1>3, <1>4

LEMMA WorkKeepsAgreed ==
  ASSUME XInv, NEW c \in Conns, Work(c), process = "running"
  PROVE  AllAgreed'
<1> DEFINE path(d) == request[d].path
<1>1. WorkStep(c)
  BY WorkIsStep DEF XInv, IInv
<1>2. /\ request' = request
      /\ \A d \in Conns : d # c => job'[d] = job[d] /\ reply'[d] = reply[d] /\ answer'[d] = answer[d]
      /\ job \in [Conns -> Stages]
  BY <1>1 DEF WorkStep, Frame, Moves, OthersKeep, XInv, IInv, Types
<1>3. \A d \in Conns : d # c => target'[d] = target[d]
  BY DEF Work, Handshake, ReadHead, ReadBody, LookUp, FindRoute, LoadFile, WriteHead,
     WriteContents, Close, XInv, Shape
<1>4. ASSUME NEW d \in Clients, d # c PROVE Agreed(d)'
  <2>1. d \in Conns /\ Agreed(d)
    BY DEF Conns, XInv, AllAgreed
  <2> QED
    BY <1>2, <1>3, <1>4, <2>1 DEF Agreed
<1>5. ASSUME c \in Clients PROVE Agreed(c)'
  <2>1. Agreed(c)
    BY <1>5 DEF XInv, AllAgreed
  <2> USE DEF Step
  <2>2. CASE Handshake(c)
    BY <1>2, <2>1, <2>2 DEF Handshake, Agreed
  <2>3. CASE ReadHead(c)
    <3>1. AfterHead[request[c].body] \in {"lookup", "body", "refuse"}
      BY <1>5, WorkerAssumption DEF AfterHead, XInv, IInv, Types
    <3>2. /\ job[c] = "head" /\ job'[c] \in {"lookup", "body", "returned", "spin"}
          /\ answer' = answer
      BY <1>2, <2>3, <3>1 DEF ReadHead
    <3> QED
      BY <2>1, <3>2 DEF Agreed
  <2>4. CASE ReadBody(c)
    BY <1>2, <2>1, <2>4 DEF ReadBody, Agreed
  <2>5. CASE LookUp(c)
    <3>1. answer'[c] = NoReply
      BY <2>1, <2>5 DEF LookUp, Agreed
    <3>2. CASE UNCHANGED <<job, target, reply>>
      BY <2>5, <3>1, <3>2 DEF LookUp, Agreed
    <3>3. CASE FindRoute(c) /\ request[c].path # BadRequest
      <4>1. \/ /\ job' = [job EXCEPT ![c] = "load"]
               /\ Exchange!Contents(target'[c]) \subseteq Exchange!Permitted(request[c].path)
            \/ /\ job' = [job EXCEPT ![c] = "answer"]
               /\ reply'[c] \in Exchange!Permitted(request[c].path)
        BY <1>5, <3>3, FindRouteAgrees
      <4> QED
        BY <1>2, <3>1, <4>1 DEF Agreed
    <3> QED
      BY <2>5, <3>2, <3>3 DEF LookUp, FollowsNull
  <2>6. CASE LoadFile(c)
    <3>1. reply'[c] \in Exchange!Permitted(request[c].path)
      BY <1>5, <2>1, <2>6, LoadAgrees DEF Agreed, LoadFile
    <3> QED
      BY <1>2, <2>1, <2>6, <3>1 DEF LoadFile, Agreed
  <2>7. CASE WriteHead(c)
    BY <1>2, <2>7 DEF WriteHead, Agreed
  <2>8. CASE WriteContents(c)
    BY <1>2, <2>8 DEF WriteContents, Agreed
  <2>9. CASE Close(c)
    BY <1>2, <2>9 DEF Close, Agreed
  <2> QED
    BY <2>2, <2>3, <2>4, <2>5, <2>6, <2>7, <2>8, <2>9 DEF Work
<1> QED
  BY <1>4, <1>5 DEF AllAgreed

-----------------------------------------------------------------------------
(***************************************************************************)
(* The other steps, which bring no job to an answer.                       *)
(***************************************************************************)
LEMMA QuietKeepsAgreed ==
  ASSUME XInv, UNCHANGED <<request, target, reply, answer>>,
         \A d \in Clients : job'[d] # job[d] =>
           job[d] \in {"none", "queued"} /\ job'[d] \in {"queued", "handshake", "head"}
  PROVE  AllAgreed'
<1> SUFFICES ASSUME NEW d \in Clients PROVE Agreed(d)'
  BY DEF AllAgreed
<1>1. Agreed(d)
  BY DEF XInv, AllAgreed
<1> QED
  BY <1>1 DEF Agreed

\* What the others do to a job.
LEMMA OthersMove ==
  ASSUME XInv, Others
  PROVE  /\ UNCHANGED <<request, target, reply, answer, cached, mutex>>
         /\ gone' \subseteq Clients
         /\ \A d \in Conns : job'[d] # job[d] =>
              job[d] \in {"none", "queued"} /\ job'[d] \in {"queued", "handshake", "head"}
<1> USE DEF jobs, loader, net
<1>1. ASSUME NEW c \in Clients, Connect(c) \/ Send(c) \/ Leave(c)
      PROVE  /\ UNCHANGED <<request, job, target, reply, answer, cached, mutex>>
             /\ gone' \subseteq Clients
  BY <1>1 DEF Connect, Send, Leave, XInv, Shape
<1>2. ASSUME NEW c \in Conns, job[c] = "none", job' = [job EXCEPT ![c] = "queued"]
      PROVE  \A d \in Conns : job'[d] # job[d] => job[d] = "none" /\ job'[d] = "queued"
  BY <1>2 DEF XInv, IInv, Types
<1>3. ASSUME NEW c \in Clients, Accept(c)
      PROVE  /\ UNCHANGED <<request, gone, target, reply, answer, cached, mutex>>
             /\ job[c] = "none" /\ job' = [job EXCEPT ![c] = "queued"]
  BY <1>3 DEF Accept, Enqueue, XInv, IInv, Control, OnePlace
<1>4. ASSUME NEW c \in Failures, AcceptFails(c)
      PROVE  /\ UNCHANGED <<request, gone, target, reply, answer, cached, mutex>>
             /\ job[c] = "none" /\ job' = [job EXCEPT ![c] = "queued"]
  BY <1>4 DEF AcceptFails, Enqueue
<1>5. ASSUME Start
      PROVE  /\ UNCHANGED <<request, gone, target, reply, answer, cached, mutex>>
             /\ \A d \in Conns : job'[d] # job[d] =>
                  job[d] = "queued" /\ job'[d] \in {"handshake", "head"}
  <2>1. Head(queue) \in Conns /\ job[Head(queue)] = "queued"
    BY <1>5, TailOfDistinct, RangeHeadTail DEF Start, XInv, IInv, Control, OnePlace
  <2> QED
    BY <1>5, <2>1 DEF Start, XInv, IInv, Types
<1>6. Clients \subseteq Conns /\ Failures \subseteq Conns /\ gone \subseteq Clients
  BY DEF Conns, XInv, Shape
<1> QED
  BY <1>1, <1>2, <1>3, <1>4, <1>5, <1>6 DEF Others

LEMMA PreloadKeepsShape ==
  ASSUME XInv, NEW p \in Preloads, Preload(p), UNCHANGED setup, process = "running"
  PROVE  Shape'
<1>1. UNCHANGED <<ckind, request, gone, target, reply, answer>>
  BY DEF Preload, net, jobs, setup
<1>2. process' \in {"running", "crashed"}
  BY DEF Preload
<1>3. cached' \subseteq Files /\ mutex' \in {"free", "left"}
  BY DEF Preload, PreloadNew, PreloadAgain, ResourceNew, Unlocked, loader, XInv, Shape
<1> QED
  BY <1>1, <1>2, <1>3 DEF XInv, Shape

LEMMA NextXInv == XInv /\ [Next]_vars => XInv'
<1> SUFFICES ASSUME XInv, [Next]_vars PROVE XInv'
  OBVIOUS
<1>1. IInv'
  BY NextInv DEF XInv
<1>2. CASE UNCHANGED vars
  BY <1>1, <1>2, QuietKeepsAgreed DEF vars, setup, net, jobs, loader, XInv, Table, Shape
<1>3. CASE /\ process = "loading"
           /\ ReadRoute \/ Listen
           /\ UNCHANGED <<ckind, net, jobs, loader, preloads>>
  <2> USE DEF net, jobs, loader
  <2>1. Table'
    <3>1. CASE ReadRoute
      BY <3>1, ReadRouteKeepsTable DEF XInv
    <3>2. CASE Listen
      BY <3>2 DEF Listen, XInv, Table
    <3> QED
      BY <1>3, <3>1, <3>2
  <2>2. Shape'
    BY <1>3 DEF ReadRoute, Listen, XInv, Shape
  <2>3. AllAgreed'
    BY <1>3, QuietKeepsAgreed
  <2> QED
    BY <1>1, <2>1, <2>2, <2>3 DEF XInv
<1>4. CASE process = "running" /\ Others /\ UNCHANGED <<process, setup>>
  <2>1. Table'
    BY <1>4 DEF setup, XInv, Table
  <2>2. Shape'
    BY <1>4, OthersMove DEF setup, XInv, Shape
  <2>3. AllAgreed'
    BY <1>4, OthersMove, QuietKeepsAgreed DEF Conns
  <2> QED
    BY <1>1, <2>1, <2>2, <2>3 DEF XInv
<1>5. ASSUME process = "running", NEW c \in Conns, Work(c) PROVE XInv'
  <2>1. WorkStep(c)
    BY <1>5, WorkIsStep DEF XInv, IInv
  <2>2. Table'
    BY <1>5, <2>1 DEF WorkStep, Frame, setup, XInv, Table
  <2> QED
    BY <1>1, <1>5, <2>2, WorkKeepsShape, WorkKeepsAgreed DEF XInv
<1>6. ASSUME process = "running", NEW p \in Preloads, Preload(p), UNCHANGED setup PROVE XInv'
  <2>1. Table'
    BY <1>6 DEF setup, XInv, Table
  <2>2. AllAgreed'
    BY <1>6, QuietKeepsAgreed DEF Preload, net, jobs
  <2> QED
    BY <1>1, <1>6, <2>1, <2>2, PreloadKeepsShape DEF XInv
<1>7. ASSUME process = "running", NEW c \in Conns, Exhaust(c) \/ HeapFails(c) PROVE XInv'
  <2>1. process' = "crashed" /\ UNCHANGED <<setup, net, jobs, loader, preloads>>
    BY <1>7 DEF Exhaust, HeapFails
  <2> USE DEF setup, net, jobs, loader
  <2>2. Table' /\ Shape'
    BY <1>7, <2>1 DEF XInv, Table, Shape
  <2>3. AllAgreed'
    BY <2>1, QuietKeepsAgreed
  <2> QED
    BY <1>1, <2>2, <2>3 DEF XInv
<1> QED
  BY <1>2, <1>3, <1>4, <1>5, <1>6, <1>7 DEF Next

\* The strengthened invariant holds in every reachable state.
LEMMA ExchangeInv == Spec => []XInv
BY InitXInv, NextXInv, PTL DEF Spec

\* The variables keep their types: among them that only files that exist are
\* ever in the loader's list, and only the places that routes name are told.
THEOREM TypeCorrect == Spec => []TypeOK
<1>1. XInv => TypeOK
  BY WorkerAssumption DEF XInv, IInv, Types, Control, OnePlace, Table, Shape, TypeOK
<1> QED
  BY <1>1, ExchangeInv, PTL

-----------------------------------------------------------------------------
(***************************************************************************)
(* The refinement: a client that sends its head asks, the write of a head  *)
(* tells, and a job that returns is the end.                               *)
(***************************************************************************)
Asks == [d \in Clients |-> IF sent[d] = "nothing" THEN Silence ELSE request[d].path]
Answers == [d \in Clients |-> IF answer[d] = NoReply THEN Silence ELSE answer[d]]
Over == {d \in Clients : job[d] = "returned"}
Told == <<Asks, Answers, Over>>

LEMMA InitExchange == Init => Exchange!Init
<1> SUFFICES ASSUME Init PROVE Exchange!Init
  OBVIOUS
<1>1. Clients \subseteq Conns
  BY DEF Conns
<1> QED
  BY <1>1 DEF Init, Exchange!Init

LEMMA SameExchange ==
  ASSUME UNCHANGED Told
  PROVE  UNCHANGED Exchange!vars
BY DEF Exchange!vars, Told, Asks, Answers, Over

\* A response that a client may be told has a status.
LEMMA PermittedIsReply ==
  ASSUME NEW path, NEW a \in Exchange!Permitted(path)
  PROVE  a # NoReply
<1> DEFINE asked(r) == CASE r.kind = "alias" -> Exchange!Contents(r.to)
                         [] r.kind = "redirect" -> {Exchange!Answer(301, Nothing, r.to)}
                         [] r.kind = "route" -> {Exchange!Answer(302, Nothing, r.to)}
<1>1. \A to : \A b \in Exchange!Contents(to) : b.status # 0
  BY DEF Exchange!Contents, Exchange!Answer
<1>2. a \in Exchange!Contents(path) \/ \E n \in Exchange!Deciding(path) : a \in asked(Routes[n])
  BY DEF Exchange!Permitted
<1>3. ASSUME NEW n \in Exchange!Deciding(path), a \in asked(Routes[n]) PROVE a.status # 0
  <2>1. Routes[n].kind \in {"alias", "redirect", "route"}
    BY WorkerAssumption DEF Exchange!Deciding, Range
  <2> QED
    BY <1>1, <1>3, <2>1 DEF Exchange!Answer
<1>4. a.status # 0
  BY <1>1, <1>2, <1>3
<1> QED
  BY <1>4 DEF NoReply, Reply

LEMMA SendAsks ==
  ASSUME XInv, NEW c \in Clients, Send(c)
  PROVE  [Exchange!Next]_(Exchange!vars)
<1>1. UNCHANGED <<request, answer, job>> /\ request[c] \in Requests
  BY DEF Send, jobs, XInv, IInv, Types
<1>2. Answers' = Answers /\ Over' = Over
  BY <1>1 DEF Answers, Over
<1>3. CASE sent[c] = "nothing" /\ sent' = [sent EXCEPT ![c] = "head"]
  <2>1. Asks' = [Asks EXCEPT ![c] = request[c].path] /\ Asks[c] = Silence
    BY <1>1, <1>3 DEF Asks, XInv, IInv, Types
  <2>2. Exchange!Ask(c)
    BY <1>1, <1>2, <2>1 DEF Exchange!Ask, Asks, Answers, Over
  <2> QED
    BY <2>2 DEF Exchange!Next
<1>4. CASE sent[c] = "head" /\ sent' = [sent EXCEPT ![c] = "body"]
  <2>1. Asks' = Asks
    BY <1>1, <1>4 DEF Asks, XInv, IInv, Types
  <2> QED
    BY <1>2, <2>1, SameExchange DEF Told
<1> QED
  BY <1>3, <1>4 DEF Send

\* The write of a head tells the client what it may be told, and nothing has
\* been told before.
LEMMA WriteHeadTells ==
  ASSUME XInv, NEW c \in Clients, WriteHead(c)
  PROVE  Exchange!Tell(c)
<1>1. job[c] = "answer" /\ Agreed(c)
  BY DEF WriteHead, Step, XInv, AllAgreed
<1>2. answer[c] = NoReply /\ reply[c] \in Exchange!Permitted(request[c].path)
  BY <1>1 DEF Agreed
<1>3. c \in Conns /\ sent[c] # "nothing" /\ request[c] \in Requests
  BY <1>1 DEF Conns, XInv, IInv, Types, Reasons, Progress
<1>4. Asks[c] = request[c].path /\ Asks[c] # Silence
  BY <1>3, WorkerAssumption DEF Asks
<1>5. reply[c] # NoReply
  BY <1>2, PermittedIsReply
<1>6. Answers[c] = Silence /\ Answers' = [Answers EXCEPT ![c] = reply[c]]
  BY <1>2, <1>3, <1>5 DEF WriteHead, Answers, XInv, Shape, Conns
<1>7. Asks' = Asks
  BY DEF WriteHead, net, Asks
<1>8. c \notin Over /\ Over' = Over
  BY <1>1 DEF WriteHead, Step, Over, XInv, IInv, Types
<1> QED
  BY <1>2, <1>4, <1>6, <1>7, <1>8 DEF Exchange!Tell, Asks, Answers, Over

LEMMA WorkRefines ==
  ASSUME XInv, NEW c \in Conns, Work(c)
  PROVE  [Exchange!Next]_(Exchange!vars)
<1>1. WorkStep(c)
  BY WorkIsStep DEF XInv, IInv
<1>2. Asks' = Asks
  BY <1>1 DEF WorkStep, Frame, Asks
<1>3. /\ job[c] # "returned"
      /\ \A d \in Conns : d # c => job'[d] = job[d] /\ answer'[d] = answer[d]
      /\ Clients \subseteq Conns
  BY <1>1 DEF WorkStep, Moves, Idle, OthersKeep, XInv, IInv, Types, Conns
<1>4. CASE c \in Clients /\ WriteHead(c)
  BY <1>4, WriteHeadTells DEF Exchange!Next
<1>5. CASE c \notin Clients
  <2>1. Answers' = Answers /\ Over' = Over
    BY <1>3, <1>5 DEF Answers, Over
  <2> QED
    BY <1>2, <2>1, SameExchange DEF Told
<1>6. CASE c \in Clients /\ ~WriteHead(c)
  <2>1. answer' = answer
    BY <1>6 DEF Work, Handshake, ReadHead, ReadBody, LookUp, LoadFile, WriteContents, Close
  <2>2. Answers' = Answers
    BY <2>1 DEF Answers
  <2>3. CASE job'[c] = "returned"
    <3>1. Over' = Over \cup {c}
      BY <1>3, <1>6, <2>3 DEF Over
    <3>2. Exchange!Finish(c)
      BY <1>2, <2>2, <3>1 DEF Exchange!Finish, Asks, Answers, Over
    <3> QED
      BY <1>6, <3>2 DEF Exchange!Next
  <2>4. CASE job'[c] # "returned"
    <3>1. Over' = Over
      BY <1>3, <1>6, <2>4 DEF Over
    <3> QED
      BY <1>2, <2>2, <3>1, SameExchange DEF Told
  <2> QED
    BY <2>3, <2>4
<1> QED
  BY <1>4, <1>5, <1>6

LEMMA NextRefines == XInv /\ [Next]_vars => [Exchange!Next]_(Exchange!vars)
<1> SUFFICES ASSUME XInv, [Next]_vars PROVE [Exchange!Next]_(Exchange!vars)
  OBVIOUS
<1> USE DEF net, jobs, loader
<1>1. ASSUME UNCHANGED <<request, sent, answer, job>> PROVE UNCHANGED Exchange!vars
  <2>1. UNCHANGED Told
    BY <1>1 DEF Told, Asks, Answers, Over
  <2> QED
    BY <2>1, SameExchange
<1>2. CASE UNCHANGED vars
  BY <1>1, <1>2 DEF vars
<1>3. CASE UNCHANGED <<ckind, net, jobs, loader, preloads>>
  BY <1>1, <1>3
<1>4. CASE Others
  <2>1. CASE \E c \in Clients : Send(c)
    BY <2>1, SendAsks
  <2>2. CASE ~\E c \in Clients : Send(c)
    <3>1. sent' = sent
      BY <1>4, <2>2 DEF Others, Connect, Leave, Accept, AcceptFails, Start
    <3>2. Over' = Over
      BY <1>4, OthersMove DEF Over, Conns
    <3>3. Asks' = Asks /\ Answers' = Answers
      BY <1>4, <3>1, OthersMove DEF Asks, Answers
    <3> QED
      BY <3>2, <3>3, SameExchange DEF Told
  <2> QED
    BY <2>1, <2>2
<1>5. CASE \E c \in Conns : Work(c)
  BY <1>5, WorkRefines
<1>6. CASE \E p \in Preloads : Preload(p)
  BY <1>1, <1>6 DEF Preload
<1>7. CASE \E c \in Conns : Exhaust(c) \/ HeapFails(c)
  BY <1>1, <1>7 DEF Exhaust, HeapFails
<1> QED
  BY <1>2, <1>3, <1>4, <1>5, <1>6, <1>7 DEF Next

\* Each client gets at most one answer, to its own request, and the one its
\* path calls for, whatever the others ask for, send and leave unsent.
THEOREM ExchangeCorrect == Spec => RefinesExchange
<1>1. Spec => Exchange!Spec
  BY ExchangeInv, InitExchange, NextRefines, PTL DEF Spec, Exchange!Spec
<1> QED
  BY <1>1 DEF RefinesExchange
=============================================================================
