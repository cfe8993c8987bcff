# A verification project for httpserv

`httpserv` is a small HTTP server in C: the library `libhttpserv` (a thread
pool, a router, a resource loader, request and response objects, sockets with
or without TLS) and the daemon `cweb` built on it. This directory holds TLA+
models of the program, the TLC configurations that check them on small
instances, and proofs, checked by TLAPS, of the safety properties for every
value of the constants.

Source paths below are relative to the repository: `src/threadpool.c`,
`src/net/server.c`, `cweb.c`, and so on.

## 1. The system

| component | state | operations | talks to |
|---|---|---|---|
| thread pool (`src/threadpool.c`) | `pool->mutex`, `pool->cond`, the worker threads, their cancel state | `threadpool_new`, `add_work`, `ensure_jobs_done`, `destroy`, the worker loop | job queue, job result; called by the accept loop |
| job queue (`src/job.c:70-121`) | `head`, `tail`, `size`, `next` of every job | `add_job`, `pop_job`, `destroy` | called under the pool's mutex |
| job and result (`src/job.c:10-68`) | `done`, `res`, a mutex and a condition variable per job | `exec`, `result_set`, `await`, `result_destroy` | one worker, any number of awaiting threads |
| cweb and the server's life cycle (`cweb.c`, `src/net/server.c:157-301`) | `cfg`, `srv`, `keep_alive`, `alive`, the listening socket | `main`, `httpserver_new/run/destroy`, `handle_sigint`, `cweb_cleanup` | everything; interrupted by SIGINT on its own thread |
| connection handler (`src/net/server.c:36-155`) | one connection, one request, one response | the job run for each connection | router, resource loader, request, response, connector |
| router (`src/router.c`) | list of routes under a mutex | `add_route`, `lookup`, `parse_from_file` | the connection handlers of all workers |
| resource loader (`src/resource.c`) | list of mapped files under a mutex | `load`, `preload`, `destroy` | the connection handlers of all workers |
| request (`src/http/request.c`), response (`src/http/response.c`) | local to a handler | parser, header access; header and body, `build` | - |
| configuration, strings (`src/config.c`, `src/stringh.c`) | the tree of settings | line parser, stripping, comparison | `main` before any thread exists |
| logging, connector, TLS, status table, versions | a log file and a shared time buffer; file descriptors | wrappers and constants | all |

How they interact: `main` reads the settings, creates the server and runs the
accept loop. Each accepted connection becomes a job of the pool; a worker runs
the handler, which asks the router and the loader (both shared, each behind its
own mutex) and writes the answer. SIGINT interrupts the main thread; the
handler either asks the loop to stop (`keep_alive = 0`) or, when the loop is
not running, cleans up and exits by itself.

What is hard about it:

* *condition variables and cancellation* - a worker waits behind an `if`, not a
  loop, is cancelled inside `pthread_cond_wait`, and masks cancellation while
  it holds a job;
* *no joins* - workers are detached, so destruction runs concurrently with
  them;
* *reads without a lock* - `await` and `exec` read the result cell after
  unlocking, `ensure_jobs_done` and `httpserver_destroy` spin on plain fields;
* *redundant state* - the queue keeps a counter and a tail pointer that may be
  stale beside the head pointer;
* *a signal handler that shares globals with `main`* - both run the same
  cleanup, neither clears the pointers;
* *peers that stall or leave* - the result of `read` is not looked at, nothing
  handles `SIGPIPE`, there is no timeout: a client can hold a worker, or end the
  process;
* *one table of descriptors* - connections and loaded files share it, numbers
  are used again at once, and each load of a file that is not preloaded keeps one;
* *memory nobody tests for* - a request decides how much the server asks
  `malloc` for, and a status how much `build` writes past its block;
* *locks with early returns* - `preload` of a loaded file returns with the
  loader's mutex locked;
* *parsers that step by one or two characters, and lengths kept by hand* - the
  request parser moves one position through four loops, and a response's length is added
  up call by call, beside the strings it describes.

`PROJECT.json` lists every such hazard at its line, with the properties that
watch it or the reason why none does.

What makes each part correct: the queue is FIFO and frees exactly what it
holds; `await` returns the job's own result, once and for all; a pool starts
each job once, in order, leaves none behind while workers sleep, and never loses
one to cancellation; a stop request survives, is obeyed, and no connection
reaches a destroyed pool; a client gets at most one answer, to its own request
and consistent with its route, over a connection nobody else uses or closes;
loads never leave the loader locked; a length is the sum of its parts, and the
parsers read what was written.

## 2. The modules

| module | models | kind |
|---|---|---|
| `FifoQueue` | what a queue of jobs promises | abstract specification |
| `JobQueue` | `job.c:70-121`, the linked list | detailed; implements `FifoQueue` |
| `JobResult` | `job.c:10-68`, `threadpool.c:64-69`, one result cell | detailed |
| `JobPool` | what a thread pool promises its callers | abstract specification |
| `ThreadPool` | `threadpool.c` | detailed; implements `JobPool` |
| `MCThreadPool` | the symmetry used by one run of `ThreadPool` | for TLC |
| `CwebServer` | `cweb.c`, `server.c:157-301`, over `JobPool` | composition |
| `HttpExchange` | what the server promises each client | abstract specification |
| `HttpWorker` | `server.c:36-155`, the handler, and `server.c:263-285`, with clients, accept and a program that preloads | composition; implements `HttpExchange` |
| `ResourceLoader` | `resource.c`, the loader and the table of descriptors | component, extended by `HttpWorker` |
| `RouteTable` | `router.c:22-60`, adding and looking up | component, extended by `HttpWorker`, `HttpExchange` and `Router` |
| `MCHttpWorker` | the requests, files and routes of one run of `HttpWorker` | for TLC |
| `HttpResponse` | `response.c`, `status.c`, by lengths | detailed |
| `HttpRequest` | `server.c:51-67`, `request.c`: reading, parsing and searching a head | detailed, sequential |
| `Router` | `router.c:76-157`: the file of routes, line by line and character by character | detailed, sequential |
| `ConfigFile` | `config.c`, `stringh.c`: the configuration file | detailed, sequential |
| `Texts` | the four modules above side by side, and how the texts they read are written | composition |
| `MCTexts` | the small texts of one run | for TLC |
| `SequenceLemmas` | facts on `Range`, `Append` and `Tail` that the library's theorems do not state | lemmas |
| `JobQueueProofs`, `JobResultProofs`, `ThreadPoolProofs`, `CwebServerProofs` | theorems on the module each is named after | proofs |
| `HttpWorkerProofs` | theorems on `HttpWorker`, and that it implements `HttpExchange` | proofs |
| `TextProofs` | theorems on `HttpResponse`, `Router` and `ConfigFile` | proofs |
| `RequestProofs` | theorems on `HttpRequest`, over `TextProofs` | proofs |

They stack: `ThreadPool` takes the queue as the sequence that `JobQueue`
implements, `CwebServer` and `HttpWorker` take the pool as the `JobPool` that
`ThreadPool` implements. A job's execution, one step in `ThreadPool`, is opened
up twice: in `JobResult`, for what becomes of its result, and in `HttpWorker`,
for what the job of this server does. `HttpWorker` takes a request as the path
and the kind of body that `HttpRequest` reads from a head, and a response as its
status, file and location; what is built from them is `HttpResponse`.

### JobQueue

Variables are the C fields: `head`, `tail`, `size`, and `next` as a function on
jobs. `add_job` and `pop_job` run under `queue->rwmutex` from start to end, so
each is one action (`AddJob`, `PopJob`). `queue_destroy` is a loop over `size`:
`DestroyBegin`, one `FreeJob` per turn, `DestroyEnd`. `order` is a history
variable: the jobs added and not yet popped. A caller adds a job only while it
is not queued (`threadpool_add_work` always makes a fresh one), but a popped job
may be added again, so stale `next` fields would show.

### JobResult

One job, one worker, any number of awaiters. A critical section of `jres->mutex`
is one action. Every access outside a critical section is one of its own: the
reads of `res` at `job.c:37` and `job.c:66`, of `done` at `threadpool.c:67`.
`pthread_cond_wait` may return spuriously. `Destroy` is what
`test/threadpool.c` does: free the cell when an `await` has returned.

### ThreadPool

`pc[w]` is where worker `w` is:

| pc | next in the code |
|---|---|
| `lock` | `pthread_mutex_lock`, line 56 |
| `pop` | the first `pop_job`, line 57 |
| `wait`, `woken` | inside `pthread_cond_wait`, line 59, asleep or about to take the mutex back |
| `repop` | the second `pop_job`, line 60 |
| `unlock` | lines 62-63 |
| `exec` | the log entry before the job, line 65, which reads the worker's struct |
| `run` | `threadpool_job_exec`, line 66 |
| `warn` | the log entry after a job that has failed, line 68 |
| `resume` | line 71 |
| `dying`, `dead` | acting on `pthread_cancel`: must take the mutex back first; ended |
| `undefined` | has touched freed memory: the pool, its queue or its own struct; nothing is said of it afterwards |

A call of `add_work` is three steps (lock; add; signal and unlock), and there is
one call per job. The owner calls `ensure_jobs_done` any number of times, then
`destroy`: `StopWorker` and `FreeWorker` for each worker (`freed` are those whose
struct is gone, whether their thread has ended or not), `DestroyQueue`, `DestroyMutex`,
`FreePool`. The semantics of the C library are those of glibc on Linux:
`pthread_join` of a detached thread returns `EINVAL` at once,
`pthread_mutex_destroy` refuses a locked or waited-for mutex,
`pthread_cond_destroy` waits until no thread is in the condition variable,
locking a destroyed mutex returns an error that nobody reads. Callers add jobs
only while the pool is not being destroyed; `AddOnlyToLivePool` of `CwebServer`
shows that the accept loop is such a caller.

### CwebServer

`main` (a variable) names the next step of the main thread; `handler` the next
step of `handle_sigint`, or `idle`. Both are one thread: while the handler is
active `main` takes no step. `-std=c11` makes glibc's `signal` the System V one,
so the handler is reset when it is entered (`disposition`), a second SIGINT
kills the process, and an interrupted `accept` returns -1 when the handler does.
Linux delivers a signal sent to a process to its main thread whenever that
thread does not block it, so the workers do not run the handler. The start-up is
one action per step of `main` - `ParseArguments`, `LoadConfig`, `ReadSettings`,
`Detach`, `CreateServer`, `Setup`, `Listen` - each with the ways in which it ends:
go on, clean up and exit, exit without a cleanup or, for a certificate that
cannot be used, crash. Of the processes that `-d` forks the model follows any
one. `cweb_cleanup` is the sequence
`freeCfg`, `freeSrv`, `freeLog`, run by `main` or by the handler; freeing twice
leads to `process = "undefined"`, a NULL server to `"crashed"`.

### HttpWorker, ResourceLoader, RouteTable

`job[c]` is where the job of connection `c` is, named by what comes next:

| job | next in the code |
|---|---|
| `none`, `queued` | not accepted yet (or in the backlog); waiting for a worker |
| `handshake` | `SSL_accept`, line 43, when `ckind` is `SSL` |
| `head` | the loop of lines 55-67 |
| `body` | the buffer, the one `read` and the copy of the body, lines 78-81 |
| `lookup` | parsing (83), the route (96) and what it makes of status and location |
| `load` | the loader, line 112 |
| `answer`, `contents` | the write of the head (134-144), the write of the file |
| `close` | line 152 |
| `spin` | the loop at line 55 when the other end is gone: it goes on until memory runs out |
| `returned` | the handler has returned, on any of its paths |

`fds` is the process's table of descriptors, each with the connection whose it
is, or `AFile`; `conn[c]` is the number the job holds (`NoFd` for the -1 of a
failed `accept`, which becomes a job as well). `routes` is the list at
`router->head`: the program adds the routes of its file one by one
(`ReadRoute`, process `"loading"`), then listens. Calls that hold the mutex of
router or loader are one step each; `mutex = "left"` is the loader's mutex after
the early return of `resource.c:100`, where `Load` waits for ever. A client
connects, sends its head and perhaps its body, and leaves at any time; a program
that embeds the library may `Preload` while the server runs, which `cweb` does
not. `Write` to a client that has left may raise `SIGPIPE` (`process =
"killed"`); a request that cannot be parsed, a preload of what cannot be loaded
and one whose name is garbled by its unterminated buffer end in `"crashed"`.

A request announces one of four kinds of body: none; some, which is read; zero,
for which the connection is closed; and vast, whose `Content-Length`, negative or
huge, makes `malloc` return NULL, so that `ReadBody` ends the process. Two more
actions end it, both without having to happen: `Exhaust`, when the buffer of a job
that spins has grown until `realloc` fails (`server.c:57`), and `HeapFails`, at any
time after the building of an answer whose status is not 200 (`Overrun`):
`build` writes its longer text past the block, as `RawLengthIsContentLength` of
`HttpResponse` shows, and what this hits is undefined.

`HttpExchange` knows only what clients see: what each has asked, what it has been
told, who is done with. Its `Permitted(path)` says, from the file of routes in
the order in which it is written, which answers a path may get: by the last line
that matches, unless it leads to the path itself. 404 is always permitted for a
file, because a server without descriptors says so; `NotFoundMeansMissing`
states when it does.

### HttpResponse

`resp` is the C object, with the array of headers as its number and the total
length of its strings, and the body as its length and the length of the text in
front of its first NUL. `length` is `response->lenght`, added up as the code
does; `Content` is what `build` writes. A response is created with a code that has a
text (`NewCodes`; for another, `new` would follow NULL, and the handler creates
with 200 and 400 only); then calls come in any order, any code is assigned, `realloc` may
fail, and a body of length 0 put over another makes it return NULL.

### HttpRequest, Router, ConfigFile, Texts

Each has a history variable with what was written (`sent`, `file`, `text`), the
parser's buffers and positions, and one action per branch of the parser's loops,
so that a property can relate what was read to what was written. A symbol is a
character, or a word whose characters the parser does not tell apart. In
`Router` a regular expression is literal text matching anywhere, one with a `[`
does not compile. In `ConfigFile` each turn of the loops over the file and over
a line (`config.c:80-98`, `config.c:26-44`) is an action, and `linebuf`, `i` and `phase` are
where the parser is. `Texts` lets each behaviour be one of a response, a
request, a configuration or a file of routes (`what`), which share nothing.

## 3. The runs

| run | instance | states | shows |
|---|---|---|---|
| `job_queue` | 4 jobs | 1967 | head, tail, size and next agree (`ListShape`), destruction frees exactly the queued jobs (`WalkFollowsList`), the list implements `FifoQueue` |
| `job_result` | 2 awaiters, 2 result values | 281 | `await` returns the job's result and only when it has ended (`AwaitReturnsResult`), the cell never changes afterwards (`PublishedIsFinal`), a wakeup reaches one of the waiters (`SomeAwaiterReturns`) |
| `result_freed` (violation) | 1 awaiter | - | the worker reads a result cell that its awaiter has freed |
| `thread_pool` | 3 workers, 3 jobs, symmetry | 104187 | who holds the mutex, cancellation takes no job, no worker sleeps while a job lacks one, `ensure_jobs_done` waits for all that was queued, the pool implements `JobPool` |
| `thread_pool_live` | 2 workers, 2 jobs | 27112 | every job is executed or discarded, unless its worker runs into freed memory (`JobsSettle`), `threadpool_destroy` returns (`DestroyReturns`) |
| `ensure_jobs_done` (violation) | 1 worker, 1 job | - | `ensure_jobs_done` returns while a job is still running |
| `cweb_server` | 3 clients, 1 failing accept, 2 workers | 39122 | the stop request sticks, late connections are neither served nor leaked, nothing is added to a destroyed pool, no double free once listening, a stop request is obeyed |
| `sigint_stops` (violation) | 1 client, 1 worker | - | a SIGINT just before `accept` leaves the process blocked |
| `http_worker` | 2 clients, 1 failing accept, 2 workers, 2 descriptors, 6 requests, 4 routes | 728983 | no job uses another's descriptor, only a repeated preload leaves the loader locked, why the process can end, when 404 is said of a file that exists, the handler implements `HttpExchange`, a request that has been sent is settled |
| `texts` | heads of up to 4 lines, 7 characters of configuration, 2 routes, 2 headers | 286758 | the length of a response adds up, `build` crashes only after an announced failure, requests, routes and settings are read as written |
| `response_length` (violation) | created with 200, 404 assigned | - | the declared length is 19, the content 26 characters |
| `route_kinds` (violation) | as `texts` | - | a route's kind is always `route` |

Why the bounds are enough. A list of four exercises an empty queue, a first, a
middle and a last element, and reuse of a popped job. Two awaiters are the least
for which one signal is not enough for all. Three workers and three jobs allow,
at once, one worker asleep, one stealing the job another was woken for and one
being cancelled; the theorems below remove the bound. The liveness run is one
smaller because symmetry is unsound there. `cweb_server` has fewer workers than
connections, so that some are pending, some running and some discarded when the
server stops. In `http_worker` two descriptors are fewer than two connections
and a file need, so `accept` and `open` run out; two workers can both be lost,
to a spinning and to a stalled connection; a failing accept may take one of
them. The six requests take every way through the handler: an alias to a
file; a request with a body, answered with a place; one with two routes that
match, of which the one that decides leads to the path itself, an empty file;
one refused for its Content-Length of 0; one that cannot be parsed; one that
announces a body too large for memory. `MCTalks` gives the clients pairs of them,
in one order, since nothing tells clients apart: every pair of the first three, and each of
the last three, which are never answered, with each of the first two. (Other
tables of routes are left to `ExchangeCorrect`, section 4.) Two preloads are the
least that leave the mutex locked (`MaxPreloads`). In `texts`, two routes are
the least for which their order shows, and its patterns contain the parser's own
characters; 7 characters hold two assignments (`a=\n` twice) and a comment
or blanks between; three header lines hold a header between two others, with
lines that look like no header; two headers and two
status changes already make every difference that `build` can see
(`MaxHeads`; the theorems hold for as many as the model allows, three, because
from the fourth on the array runs over its block).

The bounds `MaxHeads`, `MaxChars`, `MaxLines` and `MaxPreloads` are guards;
other state spaces are finite as they are. Deadlock is not checked because every
model stops by design, after a destruction or at the end of the process.

The five violations are the findings of `PROJECT.json`:

* `NoReadAfterDestroy` - the test suite destroys results right after `await`;
  the worker reads them twice more (`job.c:66`, `threadpool.c:67`).
* `EnsureMeansDone` - `include/threadpool.h:29` says "ensure that all avaiable
  jobs are done"; the code waits for an empty queue.
* `SigintStopsServer` - the handler announces "Stopping server..." (in its source;
  the call writes 11 bytes of the text); a signal
  between the test of `keep_alive` and the system call is lost until somebody
  connects. `StopIsObeyed` states what does hold.
* `RawLengthIsContentLength` - `include/http/response.h:17-18` promises the
  content "and its length"; `lenght` keeps the text of the status at creation
  (`response.c:16`), and the handler assigns another. The run shows 200 changed to
  404, seven characters short. `LengthAccounted` states by exactly how much it is off.
* `KindsAsDocumented` - `README.md:81-84` gives the three kinds a meaning each;
  `router.c:108` compares zero characters and takes the first for all.

### Fairness

* `JobResult`: the worker keeps running (the functions jobs run are assumed to
  return) and an awaiter that is runnable runs. Nobody has to call `await`.
* `ThreadPool`: the same for workers and for a call of `add_work` that has begun;
  the owner finishes a destruction it has begun. Weak fairness of each thread is
  what a preemptive scheduler gives. A worker that competes for the mutex with
  others is treated weakly too: no property needs that it ever wins.
  Spurious wakeups, new jobs and `destroy` are never forced.
* `CwebServer`: `main` and the handler run whenever they can. No client has to
  connect, no connection has to be served to its end, no SIGINT has to come.
* `HttpWorker`: a job that can go on goes on (each worker is a thread), and the
  pool hands a queued job to a worker that is free, which `JobsSettle` of
  `ThreadPool` says of it. Nothing is asked of clients, of `accept` or of the program that
  preloads: a client may stay silent for ever. `RequestsSettle` therefore says
  what the server owes a client that has sent all of its request: to be done
  with it, unless all workers end up with connections that spin or stall, or
  behind the loader's mutex, or the process ends. A job is not asked to go on while it is
  `Stalled`, waiting for a client that keeps still; memory need not run out, and damage
  to the heap need not show.

## 4. The proofs

TLAPS proves the following for every value of the constants. Assumed are only
the named `ASSUME`s of the modules: the set of workers is finite and not empty
(`threadpool_new` refuses size 0; creating threads is finite), the set of
awaiters is finite, and the markers (`NULL`, `NoJob`, `Nobody`, `Destroyed`) are
no jobs, threads, results or connections. Jobs, clients and failing accepts may
be infinitely many. `Texts` assumes besides that the characters the parsers look
for are symbols (`SymbolsAssumption`), and says how a text is split into its parts, not
which texts there are: in a line of routes the pattern ends where the first `=>`
begins and the target at the first `|` behind it, and a line without `=>` is all
pattern (`RoutesAssumption`; every line splits in exactly one such way); a line of a request
is what lies between two line ends (`RequestAssumption`). Lines, files and
requests may be of any length.

**JobQueueProofs.** `TypeOK /\ ListShape /\ WalkFollowsList` is inductive as it
stands: `ListShape` gives `head # NULL` exactly when `size # 0`, without which
`pop_job` would follow a NULL pointer. From it `QueueIsFifo`, the refinement of
`FifoQueue`.

**JobResultProofs.** `AwaitReturnsResult` is not inductive. The invariant adds
how the cell follows the worker (`CellFollowsWorker`: from `publish` on `res` is
the result, `done` is 1 until then), that an awaiter past its loop has seen
`done # 1` (`PastLoop`), and that what was returned is `res` (`GotRes`). Since
the cell no longer changes once `done` has left 1, the unlocked read at
`job.c:37` is as good as a locked one; that is `PublishedOnce`.

**ThreadPoolProofs.** The invariant comes in layers, each proved with the ones
below:

1. `TypeOK`;
2. `Control`: `MutexDiscipline`, the order in which the owner dismantles the
   pool (`OwnerOrder`), masked exactly while handling what was popped
   (`CancelState`), and `CancelledHoldsNoJob`;
3. `OnePlace`: an added job is in the queue, with one worker, finished or
   discarded, and in one of these only;
4. `AskedWereAdded`: what `ensure_jobs_done` waits for was queued, hence
   `EnsureStarted`;
5. `NoIdleWhilePending`: while some worker sleeps, the queue is no longer than
   the workers on their way to a pop plus the submitters about to signal. A
   worker falls asleep only on an empty queue, and adding a job brings either
   its signal or finds nobody asleep. This is why the `if` at
   `threadpool.c:58` loses no wakeup.

`PoolIsJobPool` follows from layers 1-3: the pop is `Start`, the end of `exec` is
`Finish`, `DestroyQueue` is `Discard`; that no more jobs run than there are
workers is the counting lemma `RoomForOne`.

**CwebServerProofs.** Three layers over `TypeOK`. `FlagsFollowMain`: `alive` is
up exactly while main is in the loop, and `keep_alive` falls there only by a
stop request; with it `StopSticks`. `OneHandler` and `FreedInOrder`: the handler
runs once, main reaches its own cleanup after `listen` only when a stop request
brought it there, so the handler is spent by then; and whoever is at a step of the
cleanup has freed what the steps before it free. That gives
`ListeningServerEndsCleanly`, and `AddOnlyToLivePool`, because main is not in
the loop when the pool goes. `LatePath`: every connection is in one place, and a
late one is held at the test of `keep_alive`, or at the close, or closed; hence
both halves of `LateConnectionsClosed`. The same layer shows that the connection of an
interrupted `accept` is never added to the pool.

**HttpWorkerProofs.** For any number of clients, workers, descriptors, files and
preloads. Assumed (`WorkerAssumption`): markers are no connections or files, the
routes have one of the three kinds, requests have one of four kinds of body (none
when they cannot be parsed). Over the types:

1. `OnePlace` (a connection is in the backlog, once in the queue, or with one
   worker) and `OwnDescriptor`. The latter is inductive only because the table
   names an owner for each number: a job that closes frees its own entry and, as no two
   live jobs hold the same number, nobody else's; a new connection or file gets
   an entry that was free, so no live job holds it.
2. `Progress` (behind the head there is a client that has sent something, and one
   that is being answered has an answer), `ListedOnce` (what is in the loader's
   list was preloaded), `LockLeftByPreload`, `EndsForAReason`. `Progress` is what
   excludes a crash for a failed `accept`, but by spinning: its job never comes past the
   head. `EndsForAReason` names the reasons; no other step of a job, of a client or of the
   accept loop ends the process.

`WorkIsStep` sums up a step of any job - it moves one job, and closes its own
descriptor or opens a free one - so that what concerns the other jobs is proved once;
`FailureKeepsInv` does the same for the two actions that only end the process.

The refinement `ExchangeCorrect`, for any file of routes. `Table`: the list
at `router->head` is what has been read of the file, backwards; it is an
invariant of `ReadRoute`. From it `LookupDecides`: the first match in the list is
the last in the file. `Agreed`: nothing is told before the answer is written; what a job
loads, or has ready, is permitted for the path of its client. Then `Send` is
`Ask`, `WriteHead` is `Tell`, the step to `returned` is `Finish`, and all other
steps stutter. `TypeOK` of `HttpWorker` comes with it: that a job's file exists
follows from the loader's list containing files only.

**TextProofs.** One part per reader; `Behaviours` says that a behaviour of
`TextsSpec` is one of each module's own specification, so each is proved by itself.

* The response, for any codes and lengths. Conservation of the length (`Account`,
  which gives `LengthAccounted`) is proved with the type invariant: each call moves both
  sides by the same amount. `CrashAnnounced` needs that a missing body with a
  length left over (`MissingBody`) is only there when the last `set_body` has
  returned 1. Assumed: codes and lengths are numbers, responses are created with a code that
  has a text (`NewCodesAssumption`), and `MaxHeadsAssumption`.
* The file of routes, for any lines (`RoutesInv`). While a line is read, what has been
  collected is the part of the line the scan has passed, and what is still to
  be collected is the rest (`Follows`); the table is the file's complete lines,
  backwards. A lookup takes the first match of the table, hence the last of the
  file (`LookupCorrect`); with patterns that all compile the router is there
  (`GoodRouter`).
* The configuration, for any text (`ConfigInv`). The line buffer is the text
  since the last newline (`Collected`); where the loop over a line stands says
  what label and value are so far (`LineSays`), at its end that they are those of the
  line; the tree enumerates, stripped, the assignments of the lines that have been
  processed, in their order (`Enumerates`). That gives `ConfigCorrect`, and, as
  `httpserv_strstripltw` is called once for each label and each value, `UnderreadCorrect`.

**RequestProofs.** The request, for any lines and keys (`RequestTypes`,
`HeadersInv`, `RequestInv`).

1. `HeadersInv`, for any head: what is being collected ends where the parser is, and the
   headers kept lie before it, in this order and without overlap. Hence `HeadersSentCorrect`.
2. `HeaderFoundCorrect` needs the types only: the search is `strncmp` over the
   length of the key, and the least position where it succeeds is the first
   header whose name begins with the key.
3. `ReadAsSentCorrect`, for well-formed requests. `Layout` places the lines of a request
   in its content, `Seen` says what the parser sees some symbols into a line,
   and `CompleteLine` that only an empty line behind another ends the reading
   loop (`HeadEndsThere`). With these, each position of the four parsing loops
   is in a known line (`FirstLine`, `InLine`, `AtLine`), and the lines before it
   have been kept as they were sent (`ReadSoFar`). That no step of one or two characters skips
   a line end is what the invariant is about.
4. `TextsTypeCorrect`: the types of all four; in particular the parser of requests never
   gets further than one character behind the NUL of its content.

Nothing here is an induction over data: the searches of the community modules
are taken by their definition, as least positions (`LeastOf` in
`SequenceLemmas`), and each loop is followed by its invariant.

Every invariant, every action property of the passing runs and every refinement has a
theorem. Only model-checked are the liveness properties (`SomeAwaiterReturns`, `JobsSettle`,
`DestroyReturns`, `StopIsObeyed`, `RequestsSettle`), which are outside the
prover's reach.

## 5. Not modelled, and what the models abstract

* A response fits the socket's buffer: a client that does not read never blocks
  a write in `HttpWorker`.
* What is in the body of a request: the handler copies it (`ReadBody`) and never
  looks at it, so a short read and the uninitialised rest of the buffer have no
  effect that the model could show.
* Allocations that fail, but for a vast body and a job that spins: the head of a request
  is taken as small enough for memory. What a write past a block hits is not followed
  either (`HeapFails` ends the process, or nothing is seen of it); for a 200 it is the
  one NUL behind the content, for which the rounding of `malloc` has room.
* The 404 page's Content-Length is allocated and never written
  (`server.c:119`): no model looks into the text of a header.
* The write beyond the array from the fourth header on (`response.c:30`).
* `httpserv_http_request_build` (marked TODO, returns uninitialised memory),
  `write_to_fd`
  and the destroy functions that only free: nobody calls them while others use
  the object.
* Which options and settings make the start-up of `cweb` take which way, and what
  certificates and TLS contexts are made of: `CwebServer` has the outcomes of each step.
* Memory is modelled where it can be used after being freed, not where it leaks
  (jobs, worker data, the pool's mutex).
* The models follow the default build, without optimisation: a spin on a plain
  field reads it at each turn.
* The handler's calls of `free` and `exit` are not async-signal-safe; steps of
  `main` are atomic with respect to the handler in `CwebServer`.
* Logging, whose buffer and file the cleanup frees under workers that may still use
  them, text and formatting, the status table and the version numbers.
* `libtree` is a submodule whose sources are not in the repository.

## 6. Plan, and what is left

The order followed what matters most to the program: first the concurrency every
request depends on, then the process around it, then what one worker does with
one connection, and last the sequential parsers.

1. `JobQueue`, `JobResult`, `ThreadPool`, with proofs - done.
2. `CwebServer` over `JobPool`, with proofs - done.
3. `HttpResponse`, with proofs - done.
4. `ResourceLoader`, `RouteTable` - done.
5. `HttpWorker`, composing 4 with clients that send, stall or leave; the
   abstract `HttpExchange`; both proved - done.
6. `HttpRequest`, `Router`, `ConfigFile` with the string helpers, checked against
   what the texts say; composed in `Texts`, with proofs - done.

Left: the destruction of server, router and loader under running workers
(`ThreadPool` shows only that workers may outlive their pool), and routes added
while the server runs, which the mutex allows and `cweb` does not do.
