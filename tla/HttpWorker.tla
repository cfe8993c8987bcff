----------------------------- MODULE HttpWorker -----------------------------
(***************************************************************************)
(* What the workers of the server do with connections                       *)
(* (httpserv_httpserver_worker, src/src/net/server.c:36-155): read a        *)
(* request, look up its path, load a file, answer and close - for clients   *)
(* that may send late, stop sending, or leave at any moment.                *)
(*                                                                          *)
(* The pool is taken as what JobPool says of it: jobs start in order, at    *)
(* most Threads at a time.  Between two steps of one job the other jobs,    *)
(* the accept loop and the clients take theirs; the calls of router and     *)
(* loader, made under their mutexes, are one step each.                     *)
(*                                                                          *)
(* Memory runs out for a body that is announced as larger than malloc gives *)
(* and for a job that spins; any other allocation succeeds, what a client    *)
(* sends before the end of its head being bounded.                          *)
(***************************************************************************)
EXTENDS ResourceLoader, RouteTable, FiniteSets

CONSTANTS
  Clients,     \* each opens one connection
  Failures,    \* calls of accept that fail; each makes a job all the same
  Threads,     \* the number of workers
  Requests,    \* what clients send: a path and the kind of body announced
  Talks,       \* which client may send which: functions to Requests
  Routes,      \* the routes, in the order in which they were added
  Preloads,    \* files the program that embeds the server may preload
  MaxPreloads, \* bound: how often
  BadRequest,  \* a path in a request that cannot be parsed
  Silence      \* HttpExchange's: no request, no answer

Conns == Clients \cup Failures
NoFd == MaxFds + 1      \* -1

ASSUME WorkerAssumption ==
  /\ MaxFds \in Nat /\ Threads \in Nat
  /\ Talks \subseteq [Clients -> Requests]
  /\ \A r \in Requests : /\ r.body \in {"none", "some", "zero", "vast"}
                         /\ r.path = BadRequest => r.body = "none"
  /\ Clients \cap Failures = {}
  /\ {Nothing, AFile} \cap Conns = {}
  /\ Nothing # AFile
  /\ Nothing \notin Files
  /\ Routes \in Seq(Range(Routes))
  /\ \A r \in Range(Routes) : r # NoRoute /\ r.kind \in {"alias", "redirect", "route"}
  /\ \A r \in Requests : r.path # Silence

VARIABLES
  process,  \* "loading", "running", "crashed", or "killed" by SIGPIPE
  ckind,    \* "SCK" or "SSL"
  routes,   \* the list at router->head
  request,  \* request[c], what client c has to say
  sent,     \* how far it is: "nothing", "head" or "body"
  gone,     \* the clients that have closed their end
  backlog,  \* clients whose connection waits to be accepted
  queue,    \* jobs that wait for a worker
  job,      \* where each job is; its steps are named by what comes next
  conn,     \* the descriptor of its connection
  target,   \* the path to load
  reply,    \* the response under construction
  answer,   \* what the client has been sent
  preloads  \* history: calls of preload for each file

setup == <<ckind, routes>>
net == <<request, sent, gone, backlog>>
jobs == <<queue, job, conn, target, reply, answer>>
loader == <<fds, cached, mutex>>
vars == <<process, setup, net, jobs, loader, preloads>>

Reply(status, res, location) == [status |-> status, res |-> res, location |-> location]
NoReply == Reply(0, Nothing, Nothing)

Stages == {"none", "queued", "handshake", "head", "body", "lookup", "load", "answer",
           "contents", "close", "spin", "returned"}
Idle == {"none", "queued", "returned"}
Running == {c \in Conns : job[c] \notin Idle}

Init ==
  /\ process = "loading"
  /\ ckind \in {"SCK", "SSL"}
  /\ routes = <<>>
  /\ request \in Talks
  /\ sent = [c \in Clients |-> "nothing"]
  /\ gone = {}
  /\ backlog = {}
  /\ queue = <<>>
  /\ job = [c \in Conns |-> "none"]
  /\ conn = [c \in Conns |-> NoFd]
  /\ target = [c \in Conns |-> Nothing]
  /\ reply = [c \in Conns |-> NoReply]
  /\ answer = [c \in Conns |-> NoReply]
  /\ LoaderInit
  /\ preloads = [p \in Preloads |-> 0]

-----------------------------------------------------------------------------
(***************************************************************************)
(* Before it listens, the program adds its routes in their order.          *)
(***************************************************************************)
ReadRoute ==
  /\ Len(routes) < Len(Routes)
  /\ routes' = AddRoute(routes, Routes[Len(routes) + 1])
  /\ UNCHANGED process

Listen ==
  /\ Len(routes) = Len(Routes)
  /\ process' = "running"
  /\ UNCHANGED routes

-----------------------------------------------------------------------------
(***************************************************************************)
(* The clients.                                                            *)
(***************************************************************************)
Connected(c) == c \in backlog \/ job[c] \notin {"none", "returned"}

Connect(c) ==
  /\ job[c] = "none" /\ c \notin backlog
  /\ backlog' = backlog \cup {c}
  /\ UNCHANGED <<request, sent, gone, jobs, loader, preloads>>

Send(c) ==
  /\ Connected(c) /\ c \notin gone
  /\ \/ sent[c] = "nothing" /\ sent' = [sent EXCEPT ![c] = "head"]
     \/ /\ sent[c] = "head" /\ request[c].body \in {"some", "vast"}
        /\ sent' = [sent EXCEPT ![c] = "body"]
  /\ UNCHANGED <<request, gone, backlog, jobs, loader, preloads>>

Leave(c) ==
  /\ Connected(c)
  /\ gone' = gone \cup {c}
  /\ UNCHANGED <<request, sent, backlog, jobs, loader, preloads>>

-----------------------------------------------------------------------------
(***************************************************************************)
(* The accept loop and the pool.                                           *)
(***************************************************************************)
\* A struct HttpservWorkerData of its own for each job; with one for all, the
\* mutated form, every job would have the latest connection.
SharedData(c, fd) == [d \in Conns |-> fd]
OwnData(c, fd) == [conn EXCEPT ![c] = fd]

Enqueue(c, fd) ==
  /\ conn' = OwnData(c, fd)
  /\ job' = [job EXCEPT ![c] = "queued"]
  /\ queue' = Append(queue, c)
  /\ UNCHANGED <<target, reply, answer>>

Accept(c) ==
  /\ c \in backlog /\ ~NoneFree
  /\ backlog' = backlog \ {c}
  /\ fds' = Opened(c)
  /\ Enqueue(c, CHOOSE n \in Free : \A m \in Free : n <= m)
  /\ UNCHANGED <<request, sent, gone, cached, mutex, preloads>>

\* For want of a descriptor or because a client has left.
AcceptFails(c) ==
  /\ job[c] = "none"
  /\ Enqueue(c, NoFd)
  /\ UNCHANGED <<net, loader, preloads>>

Start ==
  /\ queue # <<>> /\ Cardinality(Running) < Threads
  /\ queue' = Tail(queue)
  /\ job' = [job EXCEPT ![Head(queue)] = IF ckind = "SSL" THEN "handshake" ELSE "head"]
  /\ UNCHANGED <<conn, target, reply, answer, net, loader, preloads>>

-----------------------------------------------------------------------------
(***************************************************************************)
(* A job, step by step.                                                    *)
(***************************************************************************)
\* The handler goes from one line to a later one.  The connection it begins by
\* testing is there, since httpserv_net_connector_init has made one even for a
\* failed accept.
Step(c, from, to) == job[c] = from /\ job' = [job EXCEPT ![c] = to]

\* What is known of the other end: of a failed accept there is none.
Absent(c) == c \in Failures \/ c \in gone
BodyOnly(c) == c \in Clients /\ sent[c] = "body"    \* mutated form of HeadArrived
HeadArrived(c) == c \in Clients /\ sent[c] \in {"head", "body"}

Closed(c) == [n \in Fds |-> IF n = conn[c] THEN Nothing ELSE fds[n]]
Quiet == UNCHANGED <<process, setup, net, queue, conn, preloads>>

\* SSL_accept.  Only -1 is taken for a failure, and then nothing is closed.
Handshake(c) ==
  /\ \/ ~Absent(c) /\ HeadArrived(c) /\ Step(c, "handshake", "head")
     \/ c \in gone /\ Step(c, "handshake", "head")
     \/ (Absent(c) \/ HeadArrived(c)) /\ Step(c, "handshake", "returned")
  /\ UNCHANGED <<target, reply, answer, loader>> /\ Quiet

\* What a request's Content-Length makes of the job; "zero" stands for any
\* that strtol reads as 0, "vast" for one that malloc refuses, every negative
\* one among them.
AfterHead == [none |-> "lookup", some |-> "body", zero |-> "refuse", vast |-> "body"]

\* The loop ends at the end of the head.  Without one it goes round for ever,
\* because the result of read is not looked at.
ReadHead(c) ==
  /\ \/ /\ HeadArrived(c)
        /\ \/ AfterHead[request[c].body] # "refuse"
              /\ Step(c, "head", AfterHead[request[c].body])
              /\ UNCHANGED fds
           \/ AfterHead[request[c].body] = "refuse"
              /\ Step(c, "head", "returned")
              /\ fds' = Closed(c)
     \/ Absent(c) /\ ~HeadArrived(c) /\ Step(c, "head", "spin") /\ UNCHANGED fds
  /\ UNCHANGED <<target, reply, answer, cached, mutex>> /\ Quiet

\* While a job spins, its buffer grows by a byte at each turn; nothing tests
\* the result of realloc.
Exhaust(c) ==
  /\ job[c] = "spin"
  /\ process' = "crashed"
  /\ UNCHANGED <<setup, net, jobs, loader, preloads>>

\* One read: it waits for the first bytes, or the end, and takes what there is.
\* Into the missing buffer of a vast body it reads nothing, at once or when
\* there is something to read; then the body is copied from NULL to NULL.
ReadBody(c) ==
  /\ job[c] = "body"
  /\ \/ /\ request[c].body # "vast"
        /\ sent[c] = "body" \/ c \in gone
        /\ job' = [job EXCEPT ![c] = "lookup"]
        /\ UNCHANGED process
     \/ /\ request[c].body = "vast"
        /\ process' = "crashed"
        /\ UNCHANGED job
  /\ UNCHANGED <<target, reply, answer, setup, net, queue, conn, loader, preloads>>

\* The status is assigned where the kind of the route is looked at; the
\* Location header is added behind it (server.c:132).
FindRoute(c) ==
  LET route == Lookup(routes, request[c].path)
  IN  \/ /\ route = NoRoute
         /\ target' = [target EXCEPT ![c] = request[c].path]
         /\ Step(c, "lookup", "load")
         /\ UNCHANGED reply
      \/ /\ route # NoRoute /\ route.kind = "alias"
         /\ target' = [target EXCEPT ![c] = route.to]
         /\ Step(c, "lookup", "load")
         /\ UNCHANGED reply
      \/ /\ route # NoRoute /\ route.kind # "alias"
         /\ reply' = [reply EXCEPT ![c] =
              Reply(IF route.kind = "redirect" THEN 301 ELSE 302, Nothing, route.to)]
         /\ Step(c, "lookup", "answer")
         /\ UNCHANGED target

\* Status 400 is chosen for a request that cannot be parsed, and then the path
\* of the missing request is read.  In the mutated form a missing route is
\* followed too.
FollowsNullRoute(c) ==
  IF request[c].path = BadRequest THEN TRUE ELSE Lookup(routes, request[c].path) = NoRoute
FollowsNull(c) == request[c].path = BadRequest

LookUp(c) ==
  /\ job[c] = "lookup"
  /\ \/ /\ ~FollowsNull(c)
        /\ FindRoute(c)
        /\ UNCHANGED process
     \/ /\ FollowsNull(c)
        /\ process' = "crashed"
        /\ UNCHANGED <<job, target, reply>>
  /\ UNCHANGED <<setup, net, queue, conn, answer, loader, preloads>>

LoadFile(c) ==
  /\ \E res \in Files \cup {Nothing} :
       /\ Load(target[c], res)
       /\ reply' = [reply EXCEPT ![c] = Reply(IF res = Nothing THEN 404 ELSE 200, res, Nothing)]
  /\ Step(c, "load", "answer")
  /\ UNCHANGED <<target, answer>> /\ Quiet

\* A write to a connection that the client has closed may raise SIGPIPE, which
\* nobody has blocked or handles.
Write(c) ==
  \/ UNCHANGED process
  \/ c \in gone /\ process' = "killed"

\* build has made room for the text of 200, the status at creation.  That of
\* another one is written past the block: the process may end there or at any
\* later use of the heap, or never, since blocks are larger than asked for.
\* (For 200 it is a single NUL that is written past the block, and malloc's
\* rounding has room for it.)
Overrun(c) == reply[c].status \notin {0, 200}

HeapFails(c) ==
  /\ job[c] \in {"answer", "close", "returned"} /\ Overrun(c)
  /\ process' = "crashed"
  /\ UNCHANGED <<setup, net, jobs, loader, preloads>>

\* The head is built and written, unless HeapFails ends the process instead.
WriteHead(c) ==
  /\ Step(c, "answer", IF reply[c].res = Nothing THEN "close" ELSE "contents")
  /\ answer' = [answer EXCEPT ![c] = reply[c]]
  /\ Write(c)
  /\ UNCHANGED <<setup, net, queue, conn, target, reply, loader, preloads>>

WriteContents(c) ==
  /\ Step(c, "contents", "close")
  /\ Write(c)
  /\ UNCHANGED <<setup, net, queue, conn, target, reply, answer, loader, preloads>>

Close(c) ==
  /\ Step(c, "close", "returned")
  /\ fds' = Closed(c)
  /\ UNCHANGED <<target, reply, answer, cached, mutex>> /\ Quiet

Work(c) ==
  \/ Handshake(c)
  \/ ReadHead(c)
  \/ ReadBody(c)
  \/ LookUp(c)
  \/ LoadFile(c)
  \/ WriteHead(c)
  \/ WriteContents(c)
  \/ Close(c)

-----------------------------------------------------------------------------
(***************************************************************************)
(* A thread of the program that embeds the server preloads files.  The     *)
(* result of httpserv_resource_new is used before it is tested, and the     *)
(* name is put together in a buffer that is not terminated first            *)
(* (resource.c:93-94): what malloc left there may become part of it.        *)
(***************************************************************************)
Preload(p) ==
  /\ preloads[p] < MaxPreloads
  /\ preloads' = [preloads EXCEPT ![p] = @ + 1]
  /\ \/ \E res \in Files \cup {Nothing} :
          /\ PreloadNew(p, res)
          /\ process' = IF res = Nothing THEN "crashed" ELSE process
     \/ PreloadAgain(p) /\ UNCHANGED process
     \/ mutex = "free" /\ process' = "crashed" /\ UNCHANGED loader
  /\ UNCHANGED <<net, jobs>>

Others ==
  \/ \E c \in Clients : Connect(c) \/ Send(c) \/ Leave(c)
  \/ \E c \in Clients : Accept(c)
  \/ \E c \in Failures : AcceptFails(c)
  \/ Start

Next ==
  \/ /\ process = "loading"
     /\ ReadRoute \/ Listen
     /\ UNCHANGED <<ckind, net, jobs, loader, preloads>>
  \/ /\ process = "running"
     /\ \/ Others /\ UNCHANGED <<process, setup>>
        \/ \E c \in Conns : Work(c)
        \/ \E c \in Conns : Exhaust(c) \/ HeapFails(c)
        \/ \E p \in Preloads : Preload(p) /\ UNCHANGED setup

\* A read waits for a client that keeps still.
Stalled(c) ==
  /\ ~Absent(c)
  /\ \/ job[c] \in {"handshake", "head"} /\ ~HeadArrived(c)
     \/ job[c] = "body" /\ sent[c] # "body"

\* Workers run whenever they can, and the pool gives them work.  Nothing is
\* asked of clients, of accept or of the program that preloads; memory need
\* not run out, and damage to the heap need not show.
Fairness ==
  /\ WF_vars(process = "running" /\ Start /\ UNCHANGED <<process, setup>>)
  /\ \A c \in Conns : WF_vars(process = "running" /\ ~Stalled(c) /\ Work(c))

Spec == Init /\ [][Next]_vars
FairSpec == Spec /\ Fairness

-----------------------------------------------------------------------------
(***************************************************************************)
(* Properties.                                                             *)
(***************************************************************************)
Targets == {r.to : r \in Range(Routes)} \cup {r.path : r \in Requests}
Replies == [status : {0, 200, 301, 302, 404}, res : Files \cup {Nothing},
            location : Targets \cup {Nothing}]

TypeOK ==
  /\ process \in {"loading", "running", "crashed", "killed"}
  /\ ckind \in {"SCK", "SSL"}
  /\ routes \in Seq(Range(Routes))
  /\ request \in Talks
  /\ sent \in [Clients -> {"nothing", "head", "body"}]
  /\ {gone, backlog} \subseteq SUBSET Clients
  /\ queue \in Seq(Conns)
  /\ job \in [Conns -> Stages]
  /\ conn \in [Conns -> Fds \cup {NoFd}]
  /\ target \in [Conns -> Targets \cup {Nothing}]
  /\ {reply, answer} \subseteq [Conns -> Replies]
  /\ fds \in [Fds -> Conns \cup {Nothing, AFile}]
  /\ cached \subseteq Files
  /\ mutex \in {"free", "left"}
  /\ preloads \in [Preloads -> Nat]

\* A job reads, writes and closes the connection of its own client, although
\* descriptor numbers are used again at once: on no path through the handler
\* is a connection closed twice, or used after it has been closed
\* (server.c:75, 142, 152; resource.c:56).
OwnDescriptor ==
  \A c \in Conns : job[c] \notin {"none", "returned"} /\ conn[c] # NoFd => fds[conn[c]] = c

\* The mutex of the loader is left locked by a repeated preload and by nothing
\* else, whatever a load finds (resource.c:100).
LockLeftByPreload == mutex = "left" => \E p \in Preloads : preloads[p] > 1

\* The process survives a failed accept, a client that stalls or leaves before
\* its request is read, one that is refused, an exhausted table of descriptors,
\* and all requests for files that can be served.  It ends only where nothing
\* else can be said: a request that cannot be parsed (server.c:96) or announces
\* a body that malloc refuses (server.c:78), an answer other than 200, whose
\* text build writes past its block (response.c:54), a worker that spins until
\* memory runs out (server.c:57), a preload, or a client that has left while it
\* is answered (SIGPIPE at connector.c:30 and resource.c:56).
EndsForAReason ==
  /\ process = "crashed" =>
       \/ \E c \in Clients :
            sent[c] # "nothing" /\ (request[c].path = BadRequest \/ request[c].body = "vast")
       \/ \E c \in Conns : Overrun(c) \/ job[c] = "spin"
       \/ \E p \in Preloads : preloads[p] > 0
  /\ process = "killed" => \E c \in gone : answer[c] # NoReply

\* A file that can be served is reported missing only when every descriptor is
\* in use, and a preloaded one never, although each load of another leaves a
\* descriptor open (resource.c:126).
NotFoundMeansMissing ==
  [][\A c \in Conns :
       reply'[c] # reply[c] /\ reply'[c].status = 404 /\ target[c] \in Files =>
         NoneFree /\ target[c] \notin cached]_vars

\* Each client gets at most one answer, to its own request, and the one its
\* path calls for (HttpExchange).
Exchange == INSTANCE HttpExchange WITH
  Paths <- {r.path : r \in Requests} \ {BadRequest},
  RouteFile <- Routes,
  asks <- [c \in Clients |-> IF sent[c] = "nothing" THEN Silence ELSE request[c].path],
  answers <- [c \in Clients |-> IF answer[c] = NoReply THEN Silence ELSE answer[c]],
  over <- {c \in Clients : job[c] = "returned"}

RefinesExchange == Exchange!Spec

\* A worker that does not come back: it spins, waits for a client that keeps
\* still, or for a mutex nobody will unlock.
Held(c) ==
  \/ job[c] = "spin"
  \/ Stalled(c)
  \/ job[c] = "load" /\ mutex = "left"

AllHeld == Cardinality({c \in Conns : Held(c)}) = Threads

Asked(c) ==
  /\ job[c] = "queued"
  /\ sent[c] = IF request[c].body \in {"some", "vast"} THEN "body" ELSE "head"

\* A client that has sent its request is done with, whatever the others do,
\* as long as the process runs - unless in the end every worker is lost to
\* connections that spin or stall, or the loader is locked.
RequestsSettle ==
  \/ <>[](AllHeld \/ mutex = "left")
  \/ \A c \in Clients : Asked(c) ~> (job[c] = "returned" \/ process # "running")
=============================================================================
