# Defold engine: its concurrent core in TLA+

This directory holds TLA+ models of the concurrent core of the Defold engine:
how resources get from disk into the game while it runs, how the engine's
threads talk to each other, how HTTP requests share connections, how scripts'
timers are kept, and how content downloaded at run time is stored and found
again at the next start. Every module is written from the C++ source;
`PROJECT.json` maps each definition to the lines it stands for.

    tlc -workers 2 -config MCLoadQueue.cfg MCLoadQueue      # a model-checking run
    tlapm LoadQueueProofs.tla                               # a module of proofs

Contents: [inventory](#inventory), [plan](#plan),
[modules and code](#modules-and-code), [runs](#runs), [bounds](#bounds),
[fairness](#fairness), [proofs](#proofs),
[where code and promise differ](#where-code-and-promise-differ),
[not modelled](#not-modelled).

## Inventory

The engine is a set of C++ libraries around a main loop. Nearly all of it runs
on the main thread; the parts below are where threads, callbacks or long
sequences of calls meet.

| Part | State | Operations | Talks to | What is hard | Correct when |
|---|---|---|---|---|---|
| Load queue (`engine/resource/src/async`) | ring of 16 requests with three counters, bytes waiting, worker thread, condition variable | `BeginLoad`, `EndLoad`, `FreeLoad`, `CreateQueue`, `DeleteQueue`, `LoadThread` | called by the preloader; worker reads files through the factory and runs preload functions | buffers used outside the mutex, counters that wrap, wakeups that are sent only sometimes, a byte throttle, an idle trim | slots are never shared, the worker never sleeps with work to do, each request gets its own bytes, bytes are bounded and given back, shutdown ends |
| Preloader (`resource_preloader.cpp`) | tree of requests in a fixed table with a free list, paths in progress, hints, queue of PostCreate calls, persisted names | `NewPreloader`, `UpdatePreloader`, `PreloadHint`, `DeletePreloader` | load queue, factory, resource types' functions; other users of the factory | hints come from the worker, indices are reused, requests are freed during the walk, the same path is loaded twice, tables fill up | the tree is sound, no assert fails, references balance, the result is the one a direct `Get` gives, it ends |
| Resource factory (`resource.cpp`) | table of reference-counted resources | `Get`, `Release`, `IncRef`, `InsertResource`, `FindByHash`, reload | everyone | recursion through create functions, failure in the middle | counts equal the references held |
| Message sockets (`dlib/message.cpp`) | hash table of sockets with reference count, queue, page allocator, mutex and condition variable | `NewSocket`, `DeleteSocket`, `Post`, `HasMessages`, `Dispatch`, `DispatchBlocking`, `Consume` | every part of the engine, HTTP service, log server, profiler | deletion while others post or dispatch, memory reuse, signal only for the first message | the last user disposes, no message is lost, doubled or overwritten, no consumer sleeps on work |
| Connection pool (`dlib/connection_pool.cpp`) | slots with a state, a socket and a version; descriptors the system reuses | `Dial`, `Return`, `Close`, `Shutdown`, `Reopen`, expiry | HTTP client threads | reservation before a long dial, shutdown in between, error paths, expiry | a socket has one owner, a connection one holder, no slot is lost, shutdown comes to an end |
| HTTP client (`dlib/http_client.cpp`) | the request, its attempts, its timeout and cancel flag | `Get`, `Request` and the exchange | connection pool | a kept connection may be dead and shows it only when used; timeouts at any moment | a request has attempts enough, its connection is given back or closed once |
| HTTP cache (`dlib/http_cache.cpp`) | entries in a table and files | `Begin`, `Add`, `End`, `Get`, `Release`, `Flush` | HTTP client | readers and writers of one entry | an entry is not read while it is written |
| Script timers (`script/src/script_timer.cpp`) | dense array, index table, index pool, version | `AddTimer`, `CancelTimer`, `KillTimers`, `UpdateTimers` | Lua callbacks | callbacks change the array during the walk; erasing moves timers; handles outlive timers | a handle names its own timer or none, no timer is called twice or after it was cancelled, none is overdue |
| HTTP service (`script/src/http_service.cpp`, `script_http.cpp`) | balancer and workers on message sockets | `New`, `Delete`, `Http_Request`, load balancing, `HandleRequest` | message sockets, HTTP client | stop racing requests in two queues and in progress | `Delete` returns, every request posted before it has one answer, nothing is used after it is freed |
| Live update (`liveupdate/src`, `resource_archive.cpp`) | job queues, one result slot with a flag, an index in memory, five files | `StoreResource`, `StoreArchive`, `AsyncUpdate`, `AsyncThread`, `Finalize`, boot | factory's load mutex, archives, the file system | one slot behind a flag, a thread that builds on what another publishes, a crash between two writes | each request is done and answered once, indices only grow, no state of the files fails two boots in a row, what is stored is there after a restart |
| Path cache of the preloader | names interned under a spinlock | `InternalizePath` | main thread and worker | manual unlock inside a scoped lock | the lock excludes |
| Index pool, handles, hash table, block allocator (`dlib`, `resource`) | free lists | push, pop, put, erase | all of the above | reuse of indices | no index is handed out twice |
| Game objects, collections, components (`gameobject`, `gamesys`) | object hierarchy, deferred deletion | create, delete, update, post-update | message sockets, factory | deletion during update | objects are finalised once |
| Script, sound, render, graphics, GUI, physics, particles, input, editor, Bob | data | | | numeric, device or file code | |

How they meet in what is modelled: the main thread calls `UpdatePreloader`,
which begins loads in the load queue; the queue's worker reads the file, runs
the type's preload function, and that function adds hints to the preloader
under a spinlock; the main thread picks up hints and finished loads, creates
resources, whose create functions call `Get` in the factory, and queues
PostCreate calls. Other code on the main thread gets and releases the same
resources between two updates. Message sockets are independent of this and
used by any thread: the HTTP service is a user of them, its workers call the HTTP
client, and all clients of the process share the connection pool. Live update
has a job thread of its own; it meets the loading of resources at the load
mutex and in the archive's index and data file.

The hazards in `PROJECT.json` list, line by line, what a test of this code would
hardly reach, and the property that covers each of them.

## Plan

Written, in this order: `LoadQueue` with its promise `LoadQueueSpec` and its
proofs; `ResourceFactory` and `Preloader` on top of `LoadQueueSpec`; `Message`;
`ConnectionPool` and, composed with it, `HttpClient`; `Timers` with its promise
`TimersPromise`; `HttpService`; `LiveUpdateStore` (the files and what a boot makes
of them) and `LiveUpdate` on top of it.

Proved, in this order: `LoadQueue`, `HttpClient` with `ConnectionPool`, `HttpService`,
`LiveUpdate`, `Message`, the refinement of `LoadQueueSpec`, `Timers` and the refinement of
`TimersPromise`, `ResourceFactory`, `Preloader` ([below](#proofs)).

Every safety property of the runs of these components is a theorem, but for three of the
preloader's and one of live update's ([not proved](#not-proved)). Theorems next: `AgreesWithGet`, for which the results
of the requests have to be tied to what `Loadable` says of their paths, and `AllNamesLoaded`,
which needs it.

Models next: the preloader's `PathCache` (a spinlock with an unlock inside its
scope), the HTTP cache, stored manifests of live update, an abstract socket that
`Message` implements and `HttpService` uses, deferred deletion of game objects.

## Modules and code

### LoadQueue (`load_queue_threaded.cpp`)

One module, two actors. The worker `LoadThread` has a program counter: it is
outside the lock and about to take it (`lock`), loading without the mutex
(`load`), about to publish (`loaded`), asleep (`wait`) or gone (`exited`). One
action is one critical section or the load itself: `WorkerPoll`,
`WorkerPublish`, `WorkerWake`, `SpuriousWake`, `WorkerLoad`. The client's
operations are `BeginLoad`, `EndLoad`, `FreeLoad`, `DeleteQueue` and `Join`; each
is the whole body of the function. The counters are kept modulo `COUNTER_RANGE`
(2^32 in the code), which must be a multiple of the number of slots, as 2^32 is
of 16. A buffer is its size, its capacity and the name of the resource whose
bytes it holds. `handle` is what the client has done with a slot; the guards on
it say that the preloader ends what it began and frees what it ended, once.

`LoadQueueSpec` is the promise: a sequence of requests, answered in order, freed in
any order, removed from the head. `RingSequence` maps the ring to that sequence.

### ResourceFactory and Preloader (`resource.cpp`, `resource_preloader.cpp`)

`ResourceFactory` has the factory's operations as operators on a record of
state (`Get` with everything it creates on the way, `Release` with everything it
destroys). The code's recursions (a create function that calls `Get`, a destroy function
that calls `Release`, the removal of children, the climb towards the root) are recursive
functions of the number of rounds that are left, which what they consume bounds: the names
not yet in the chain of gets, the references held, the requests. `Preloader` has the request tree. The recursion
`PreloaderUpdateOneItem` / `DoPreloaderUpdateOneReq` is a stack of indices and
one action per kind of visit (`VisitResolved`, `VisitLoop`, `VisitUnknownType`,
`VisitPendingLoad`, `VisitFinishedLoad`, `VisitChildren`, `VisitAlreadyLoaded`,
`VisitWait`, `VisitBeginLoad`, `VisitRefused`); a visit includes every creation it
triggers towards the root. The loop of `UpdatePreloader` is `StartWalk`,
`PopHintsAfterWalk`, `PostCreateUpdateOneItem`, `CompleteCallback` and
`AwaitPostCreate`; deletion is `DeletePreloader` and `ReleaseRootAndPersisted`.
The worker is `PreloadHint` and `WorkerAnswer` on an instance of
`LoadQueueSpec`, so what is proved and checked of the ring carries over.
`ExternalGet` and `ExternalRelease` are the rest of the main thread.

A freed request keeps its contents until it is allocated again, as in the code:
that is how reading a freed sibling shows. The asserts about the tree, its counts, the paths
in progress, the buffers and the reference counts are kept (`resource_preloader.cpp:291`,
`:298`, `:315`, `:409-412`, `:442`, `:515-516`, `:539`, `:1041`, `resource.cpp:1700-1704`);
the first that fails sets `abort`, to the function it is in (`Aborts`), and stops the program.
The others are left out. Some are about arguments and pointers that the model does not have:
`resource_preloader.cpp:227`, `:592`, `:622-623`, and in `resource.cpp` the arguments, the
second table from pointers to hashes (`:1130`, `:1668`) and the file names (`:1725`).
The rest restate what the code has just established on the only way to them:
`resource_preloader.cpp:358-359` and `:406` in the insertion and the free list, `:518` (a request
without a type is never loaded), `:576` after the buffer is dropped, `:783` (`m_Resource` is set
together with the result, and a request with a result is not visited so far), `resource.cpp:1303-1304`
(a descriptor filled in by the caller) and `:1671-1672` (`IncRef` on what was just found).

`DoCreateResource` calls the PostCreate function at once, and its error ends the `Get`: the
instance is not inserted and not destroyed, so what it refers to keeps the references
it took. The model keeps them in `lost` of its path (`Abandon`). The preloader calls
PostCreate later, on what is already inserted, so there the same error only becomes the result of
the root. `MaxLost` bounds the references lost in a run.

The files are an input: a *world* gives the names to preload and, for every path,
what it refers to, how its load ends and whether its type has a PostCreate
function. `MCPreloader` lists the worlds, and its assumption `WorldsAreAcyclic` says which of
them the [proofs](#preloader) are about.

### Message (`dlib/message.cpp`, `AllocateEntry` of `hashtable.h`)

A thread is idle or somewhere in one call. `AcquireSocket` takes a reference
under the spinlock; `PostMessage`, `HasMessages`, `DispatchTake`, `DispatchEmpty`,
`DispatchWoken` and `DispatchReclaim` are the sections under the socket's mutex;
`DispatchCallback` is one message outside it; `ReleaseSocket` and `DeleteSocket`
drop the reference and `DisposeSocket` follows outside the spinlock. A message has
a place (page and offset) and a dispatch reads what that place holds, so that a
page that is reused too early shows. Sockets live in table entries, and an entry
is taken from the unused ones before the erased ones, as the hash table does.
`Consume` is `Dispatch` with an empty callback. A callback that posts behaves as
another poster.

Each socket has one dispatching thread, as every user in the repository has. Two
threads in `Dispatch` on the same socket are outside the model: the first would
hand back pages in which the second still has messages.

### ConnectionPool and HttpClient (`connection_pool.cpp`, `http_client.cpp`)

`ConnectionPool` is the pool's table, its mutex sections and the descriptors of
the process. `DialResolve` reads `m_AllowNewConnections` and looks the host up;
`DialReuse`, `DialReserve` and `DialNoSlot` are the first section under the mutex,
which also purges what has expired; `DialConnected`, `DialFailed` and
`DialHandshakeFailed` are the connection, made without the mutex, with the second
section. A dial tries IPv4, then IPv6, as `Dial` does. Sockets are numbers that
the system hands out again, with what became of them: open, closed by the peer,
shut down. `abandoned` holds those that a failed handshake leaves open.
`HttpClient` extends it with the threads that use it: `DoRequest` begins an
attempt, `DoDoRequest` is the exchange, reduced to the ways it can end (`Outcomes`),
`Release` is the destructor of the response, `AfterRequest` is the loop of
`dmHttpClient::Get`. `Expire` is the timeout or the cancel flag.
`ShutdownConnectionPool` is called until it returns 0, as its documentation
proposes (the engine calls it once, on exit).

### Timers (`script_timer.cpp`, `script_timer_private.h`)

The array, the index table, the index pool and the version are variables.
`UpdateTimers` is a walk: `PassTimer`, `CallTimer` (the callback begins),
`CallbackReturns`, `EndWalk`, `SweepTimer` and `EndUpdate`; between `CallTimer` and
`CallbackReturns` scripts add, cancel and kill timers, as they do between updates.
The world's loops that free timers are `Sweep`, round by round, because erasing
moves the last timer into the hole. Time is an integer. `TimersPromise` has a set
of active timers, those the update has yet to come to, and the one being called.

### HttpService (`http_service.cpp`, `script_http.cpp`)

The balancer, the workers and `Delete` are one actor each. A socket is the
sequence of its messages and `DispatchBlocking` takes them as one batch, which is
what `Message` does. `HandleRequest` ends with an answer for a URL that does not
parse or a host that is not found, else the worker is in the request until
`RequestReturns`, with any result `HttpClient` can give. `Delete` is one action per
wait or post: `Delete`, `DeleteJoinBalancer`, `DeleteStopWorker`,
`DeleteJoinWorker`.

### LiveUpdateStore and LiveUpdate (`liveupdate*.cpp`, `resource_archive.cpp`)

`LiveUpdateStore` has the files (`liveupdate.arci`, its `.tmp`, `.arcd`, the zip
reference and its `.tmp`) and the operators a boot applies to them:
`DetermineLUType`, `LULoadManifest`, `RenameTempIndex`, `Mountable`,
`LUCleanupArchive`. An index file is absent, empty (less than its version number), a part
(cut short behind it, with some of its entries) or whole: the mount looks at the version number
and at nothing else. `LiveUpdate` is the
running engine on these files: `LoadManifest` and `LULoadArchive` at boot, the latter with each
of its results (`LoadResults`: a zip archive that does not fit is dropped and the boot goes
on, an I/O error fails the boot), `StoreResource` and `StoreArchive`, `AsyncUpdate` on the main thread, the job
thread step by step down to opening and writing each file (`ThreadTop` ...
`ThreadFlag`), a loading thread (`LoadResource`, `ReadEntry`) that shares the data
file's position, the three steps of a shutdown, and `Crash` between any two of
them. `SavePart` is the temporary index on its way to the disk. `WriteFails` is a write
of the data that comes short, `SaveFails` an index file that cannot be opened or a device that is
full. `FindEntryInPart` is a lookup behind the end of a mapped index that is cut short: it
may end the process.

## Runs

| Run | Result | States | Checks |
|---|---|---|---|
| `load_queue_safety` | pass | 1.2 million | `RingPartition`: counters, slots and the client's view agree, across the wrap. `NoLostWakeup`. `DeliversRequested`: own bytes or an error. `ThrottleBound`. `BytesCovered`: the unsigned byte count never goes below what waits. `BufferStable`: no step touches a buffer the client reads |
| `load_queue_live` | pass | 58 thousand | `RefinesPromise`: the ring implements `LoadQueueSpec`. Without read errors: `EveryLoadFinishes`, `DeleteQueueReturns` |
| `preloader` | pass | 270 thousand, 426 worlds | `NoAssertFails`, `TreeIsSound`, `WorkerNamesLiveRequests` (with `OneLoadPerPath`), `PostCreateOnLiveResource`: a resource is destroyed before its PostCreate call only when one above it cannot be loaded. `ReferenceCountsExact`: counts are the references held, and only a failed PostCreate inside `Get` loses any. `AgreesWithGet`: what a direct `Get` would create is created, and what is created every create function agrees to; they differ only where a PostCreate function fails. `AllNamesLoaded`, `PreloaderFinishes`, `DeletePreloaderReturns` |
| `message` | pass | 405 thousand | `DisposedByTheLast`, `MessageMemoryIntact`, `EveryMessageOnce`, `NoPageLost`, `EveryMessageHandled` |
| `http_client_safety` | pass | 635 thousand | `SocketsOwnedOnce` (with `FlaggedIsShut`: what Shutdown passes over is shut), `ConnectionsHeldByOne`: the handles' assertions hold and no slot is lost. `RetriesSuffice`: "we must loop MAX_POOL_CONNECTIONS + 1 times" is enough |
| `http_client_live` | pass | 97 thousand | `ShutdownDrains`: repeated `Shutdown` comes to 0 |
| `timers` | pass | 1.13 million | `IndicesConsistent`, `HandleFindsItsTimer`, `NeverOverdue`, `RefinesPromise`: the walk implements `TimersPromise` |
| `http_service` | pass | 92 thousand | `AnsweredOnce` (with `NoneBehindStop`: a worker's early return drops nothing), `NoUseAfterDelete`, `DeleteReturns` |
| `liveupdate` | pass | 990 thousand | `RequestsConserved`, `SessionIndexKept`: indices grow from the published one. `BootRecovers`: no files fail two boots in a row. `StoredIsMounted`: what the first session stored is mounted in the second, unless the index was cut short. `RequestsAnswered`, `FinalizeReturns` |
| `preloader_cycle`, `pool_shutdown`, `liveupdate_restart` | violation | | see [below](#where-code-and-promise-differ) |

A run states each of its properties once. The type invariant `TypeOK` is the first
conjunct of one of a module's invariants (in `LoadQueue` it is proved). Each
passing property has a mutant of the code it must catch; the mutated form stands
before the definition it replaces (for instance `ReclaimsOne` before `Reclaims`:
the loop of `FreeLoad` as an `if`).

## Bounds

*Load queue*: 3 slots, so that requests can be freed out of order with one left
in the middle, and counters modulo 6, so that they wrap while the ring is in
use. Sizes 1 and 3 with a default capacity of 1 and a limit of 4: a buffer that
grows and one that does not, and both a single and a combined way over the
limit. Two interchangeable names to tell own from foreign data. The live run has
one name: it is the order, not the identity, that it is about.

*Preloader*: 4 paths, one with two names, 4 requests and 2 queue slots, so that
the table and the queue both fill up: a root with three children
leaves no request for a grandchild, whose hint is dropped; factory capacities of 1 and 2
exhaust the factory. The worlds cover shared dependencies, several names to load, one
failure of each kind at each place (of PostCreate at the root and at its child `b`, which others
may get), failing parents and siblings of a child with a PostCreate function, and self
references. `MaxLost` is 2: two failed gets of a resource that refers to another. `preloader`
leaves out, knowingly, the worlds of three divergences below: a self reference with
a failing sibling and a first name without a type followed by a second name, in which
`NoAssertFails` is false, and cross references (`preloader_cycle`). The other users of the
factory get the names `b` and `c` but never the first name, with which `AllNamesLoaded` would
be false.

*Message*: one owner, two posters, one consumer, one name, pages of two messages,
five messages, two creations. Five messages are what it takes for a page to be
filled, dispatched, handed back and used again. With two entries and two
creations no entry is reused, which with 256 entries takes as many creations. `CHECK_DEADLOCK FALSE`: when all messages are posted and the socket is
deleted nothing is left to do.

*HTTP client*: two clients, two connections and two descriptors, so that both
the table and the descriptors run out and are reused; versions modulo 2, so
that every slot gets its old version again. The host has only an IPv6 address,
which makes a dial go through both families. The live run has one client, both
families, a spare descriptor and GETs that are tried twice. `CHECK_DEADLOCK FALSE`:
a client need not make a request, nor anybody reopen a pool that is shut.

*Timers*: three timers, a table of one entry that grows by three to a limit of
three (the amount passes the limit), delays 0 and 2 with steps 1 and 3: a step
shorter than a period and one that skips a period. Versions modulo 16 do not wrap
in this instance; a handle that survives 65536 changes of version is outside the
property, as its comment says.

*HTTP service*: two workers, three requests, a URL with a host and one that does
not parse: both workers have a request and one of them a second in its queue when
Delete comes.

*Live update*: two resources, three requests, three boots and one fault (a crash
or a failed write): files of a first session, damaged or not, meet a second and a
third. One of the resources is loaded while the job thread works.
`CHECK_DEADLOCK FALSE`: when the boots are used up the engine stays off.

## Fairness

*Load queue*: weak fairness of the worker's steps and of the join (the operating
system runs threads), of a signalled wakeup but not of a spurious one, and of
`EndLoad` and `FreeLoad` (the preloader polls every request it has begun, in every
update).

*Preloader*: the client keeps calling `UpdatePreloader` while it returns
`RESULT_PENDING`, as its description in `resource.h` has it and as
`DeletePreloader` does in a loop. `MainEnabled`
spells out when the main thread has something to do, in place of `ENABLED`.
Weak fairness of the worker. Strong fairness of a PostCreate call that
completes: a function that reports pending is called again and is taken to end.

*Message*: weak fairness of a thread inside a call, and of the consumer's next
call of `Dispatch` (each socket's owner dispatches once a frame).

*HTTP client*: threads go on, with one exception: a request that has time left
may wait on an open connection for ever, and no fairness says that it is
answered. Shutdown is called again until it returns 0.

*HTTP service*: weak fairness of every thread's steps. A request in progress is
only taken to return once it is cancelled: without a timeout it may wait for
ever, and then the cancel flag is what ends it.

*Live update*: weak fairness of the job thread, of a load that has begun and of the
steps of a shutdown. Strong fairness of `AsyncUpdate`: it is tried in every frame
and gives up when the load mutex is taken; loads end, so the mutex is free again
and again, and a frame now and then falls into such a gap.

## Proofs

Eight modules hold the proofs, one for each component (`ConnectionPool` is proved about in
`HttpClientProofs`). All but that of the factory, which has operators and no behaviour of its
own, prove an inductive invariant, made of named parts, for every value of the constants that
satisfies the module's assumptions; the properties of the runs are consequences of it. Two of
them prove a refinement. The assumptions
are in the modules that declare the constants, and TLC evaluates them in the runs.

### LoadQueue

`LoadQueueProofs` proves, for every number of slots, counter range, default
capacity, limit, set of names and set of sizes that satisfy the assumptions of
`LoadQueue`:

| Theorem | Statement |
|---|---|
| `TypeCorrect` | `Spec => []TypeOK` |
| `Invariance` | `Spec => []IndInv` |
| `RingIsPartitioned` | `Spec => []RingPartition` |
| `NoWakeupIsLost` | `Spec => []NoLostWakeup` |
| `ThrottleWorks` | `Spec => []ThrottleBound` |
| `WorkerSlotIsExclusive` | `Spec => []WorkerOwnsSlot` |
| `AnswersAreOwn` | `Spec => []DeliversRequested` |
| `BuffersAreStable` | `Spec => BufferStable` |
| `BytesAreCovered` | `Spec => []BytesCovered` |

Assumptions: `RingAssumption` (at least one slot; a counter range larger than the
number of slots and a multiple of it), `NameAssumption` (the null name is no
resource) and `BufferAssumption` (capacities and sizes are naturals, default and
limit not zero). TLC evaluates them in every run of `MCLoadQueue`.

The argument. First the arithmetic of the ring: the position of a slot behind
`m_Back` is injective, moves with `m_Back` and is not disturbed by the wrap
(`PositionInjective`, `PositionAdvance`, `WrapKeepsSlot`); it is here that the
range has to be a multiple of the number of slots. `RingPartition` alone is not
inductive: that a published slot is no longer pending needs to know which slot
the worker is at, that the worker starts from an empty buffer needs the buffers
of all slots behind `m_Loaded` to be empty, and that an answer is the client's own
needs this of every loaded slot, not only of those the client has ended. So

    IndInv == TypeOK /\ RingPartition /\ WorkerSlot /\ EmptyBuffers
              /\ OwnData /\ NoLostWakeup /\ ThrottleBound

and each conjunct is preserved by each action (`RingStep`, `WorkerStep`,
`BufferStep`, `WakeupStep`, `ThrottleStep`). `BufferStable` follows from it for each
step: the idle trim only touches empty buffers and the worker only its slot,
which is pending and so not one the client has ended.

`BytesCovered` compares the byte count with a sum over the ring, which is a recursive
function (`Total`). Its partial sums are shown to exist by induction over the slots, in the
form of the least number for which a claim fails (`AllUpTo`, `PartialSums`), and
`TotalStep` is the one fact about sums the steps need: if no slot but one holds more,
the sum grows by no more than that slot does. `RingPartition` says which slots count.

`TypeOK` and `WorkerOwnsSlot` are in no run: the proofs have them for every
instance.

`LoadQueueProofs` ends with `QueueKeepsItsPromise`: `Spec => RefinesPromise`. The mapping
`RingSequence` reads the slots from `m_Back` on, so the wrap has to leave the slot of
every later position alone, not only that of the first (`WrapKeepsLaterSlot`). The
proof needs `IndInv` and one fact more, `ErrorData`: a slot whose load failed holds no
data. With these, `BeginLoad` is an abstract Begin, `WorkerPublish` an Answer,
`FreeLoad` a Free with the removal of every request at the head that is freed,
`DeleteQueue` a Close, and each other action leaves the sequence as it was
(`BeginStep`, `AnswerStep`, `FreeStep`, `CloseStep`, `QuietStep`).

### HttpClient and ConnectionPool

| Theorem | Statement |
|---|---|
| `Invariance` | `Spec => []IndInv` |
| `PoolOwned` | `Spec => []ConnectionsHeldByOne` |
| `SocketsOwned` | `Spec => []SocketsOwnedOnce` |
| `LoopIsLongEnough` | `Spec => []RetriesSuffice` |

For every number of connections, descriptors, versions, threads and hosts.
Assumptions: `ConnectionPoolAssumption` (at least one connection and two versions; each
host has addresses of some families) and `HttpClientAssumption` (at least one try).

    IndInv == Typed /\ Phases /\ Owners /\ SlotSockets /\ Descriptors /\ Budget

`ConnectionsHeldByOne` is not inductive: that a thread's handle is still good needs
to know at which steps of a request a thread has a slot (`Phases`), that nobody
purges or reuses a slot in use (`Owners`, by the slot's state), and that a slot
that may be handed out has a socket (`SlotSockets`). The proof does not use that
versions differ: a slot in use has one user whatever the versions are, which is
why the wrap does no harm. `Descriptors` says of each open descriptor who has it.
`Budget` is the argument behind the comment in `DoRequest`: a request that nobody has
disturbed has more attempts left than there are idle connections, because each
attempt on a reused connection takes one away and none is added.

### HttpService

| Theorem | Statement |
|---|---|
| `Invariance` | `Spec => []IndInv` |
| `EveryRequestAnswered` | `Spec => []AnsweredOnce` |
| `DeletedIsOver` | `Spec => []NoUseAfterDelete` |

For every number of workers and requests and every set of hosts, under
`HttpServiceAssumption` (at least one worker).

    IndInv == Typed /\ DeleteInv /\ BalancerInv /\ LineInv /\ WorkersInv /\ PlaceInv

`DeleteInv` ties the place of `Delete` to the threads that are over. `BalancerInv`
says that whatever the balancer has not taken when it meets the message to stop was
posted after `Delete` began, `WorkersInv` that a worker's stop is the last thing in its
line; together they are why no request that counts is left in a queue. `PlaceInv`
gives every request one place (a queue, a batch, a worker, answered, or lost behind
the balancer's stop), `LineInv` that numbers reach the balancer in order, so that a
place is left for good.

### LiveUpdate and LiveUpdateStore

| Theorem | Statement |
|---|---|
| `Invariance` | `Spec => []IndInv` |
| `NoRequestLost` | `Spec => []RequestsConserved` |
| `IndexGrows` | `Spec => []SessionIndexKept` |
| `OneFailedBoot` | `Spec => []BootRecovers` |

For every set of resources and every number of requests, boots and faults, under
`LiveUpdateAssumption`.

    IndInv == Typed /\ QuietInv /\ SlotInv /\ OffsetInv /\ IndexInv /\ BootInv /\ PlaceInv

`SlotInv` is the protocol of `m_JobCompleteData`: the thread's until the flag is set,
the main thread's until it is cleared; with it `PlaceInv` gives each request one
place. `IndexInv` carries the published index through the copy, the job and the
temporary file, for which `OffsetInv` has to say that nothing but archives is stored
before the index is made. `BootInv` says what a failed boot leaves: nothing that the next
one could refuse (`NothingLeft`), because the files of one format are cleaned up and those of the
other were removed before (`OneFormat`). `OneFailedBoot` is about `LoadArchives`: an index that is cut
short behind its version number is not refused, so it fails no boot, and it stays mounted in every later
one, where lookups may end the process.

### Message

| Theorem | Statement |
|---|---|
| `SocketsInvariance` | `Spec /\ [][EntryIsFree]_vars => []SocketsInv` |
| `LastUserDisposes` | `Spec /\ [][EntryIsFree]_vars => []DisposedByTheLast` |
| `PagesAccounted` | `Spec /\ [][EntryIsFree]_vars => []NoPageLost` |
| `SocketsOfFreshEntries` | if `MaxCreations <= MAX_SOCKETS`: `Spec => [](DisposedByTheLast /\ NoPageLost)` |
| `MessagesInvariance` | `Spec /\ [][EntryIsFree]_vars /\ []OneDispatcher => []MessagesInv` |
| `NoPageReusedEarly` | `Spec /\ [][EntryIsFree]_vars /\ []OneDispatcher => []MessageMemoryIntact` |
| `MessagesHandledOnce` | `Spec /\ [][EntryIsFree]_vars /\ []OneDispatcher => []EveryMessageOnce` |
| `SingleDispatcher` | if moreover there is at most one consumer: `Spec =>` all four, always |

The two hypotheses are what the code relies on and does not enforce. `EntryIsFree`:
`NewSocket` is not given the entry of a socket whose last user has not disposed of it
(`DeleteSocket` erases the entry at once, so this can happen when all 256 entries
have been used before). `OneDispatcher`: no two threads are in callbacks on one
socket. Both are satisfiable, and `SocketsOfFreshEntries` and `SingleDispatcher`
discharge them: a program that creates at most `MAX_SOCKETS` sockets gets fresh
entries, and one that has one dispatching thread has one dispatcher. These are
the conditions of the run `message`.

    SocketsInv == Typed /\ BudgetInv /\ TableInv /\ PtrInv /\ RefsInv /\ EmptyInv /\ PagesInv
    MessagesInv == SocketsInv /\ MemoryInv /\ OnceInv

`RefsInv` is the reference count: the table's reference and one for each thread in a
call. It needs `TableInv`, so that an entry has one name and an unused one none, and
`PtrInv`. `PagesInv` gives each page its one place among the heap, the free and full
lists and current page of each socket, and the pages a dispatch has unlinked.
`MemoryInv` is why a page is not reused too early: every message that waits is on a
page its socket keeps, and every message being dispatched on such a page or on one
this dispatch has unlinked. `OnceInv` gives each message one place. Assumptions:
`MessageAssumption` (finitely many threads; `None` is no page). `PostMessage` carries the
bound of the heap, `PageAvailable`: `malloc` is not modelled as failing, and a model
with finitely many pages must not ask for one more.

### Timers

| Theorem | Statement |
|---|---|
| `Invariance` | `Spec => []IndInv` |
| `IndicesStayConsistent` | `Spec => []IndicesConsistent` |
| `NothingOverdue` | `Spec => []NeverOverdue` |
| `HandlesStayOwn` | `Spec /\ []VersionsLeft => []HandleFindsItsTimer` |
| `HandlesOfFewTimers` | if `2 * MaxTimers < VersionRange - 1`: `Spec => []HandleFindsItsTimer` |
| `TimersKeepTheirPromise` | `Spec => RefinesPromise` |

    IndInv == Typed /\ Indexed(World) /\ DistinctIds(World) /\ GivenInv /\ WalkInv /\ TimeInv

`Indexed` is `IndicesConsistent` in the form the steps preserve: the array and the pool
together are as long as the table, every timer is where the table says, and no index
is twice in the pool or in the pool and in use. Each operation has a lemma that says
what it does to the array (`AddEffect`, `CancelMarks` and `CancelFrees`, `KillMarks` and
`KillFrees`, `CallEffect`, `ReturnEffect`, `SweepEffect`), and both the invariant and the
refinement use the operations through these alone. The loop of `KillTimers` is the
recursive function `Sweep`; it is shown to keep its loop invariant `Swept` in every
round by looking at the least round in which it would fail (`LeastNumber`, `AllRounds`,
`SweptRound`, `SweepFacts`), so that no operator has to be passed to an induction
theorem. `NothingOverdue` needs `TimeInv`, and the arithmetic by which a repeating timer
skips the periods a long frame has missed (`WrappedInTime`).

A handle is an index and a 16-bit version, and the version wraps. `HandlesStayOwn`
says that this is the only way a handle can find another timer: as long as the version
has not come to its last value, no handle is newer than the world, an index back in
the pool has left its handles behind (but for a sweep that has not ended, when nobody
can look) and no handle is given twice (`HandleInv`). `HandlesOfFewTimers` discharges the
hypothesis: a timer is good for two changes of the version, one when it is killed
and one when it is freed (`BudgetInv`), so a program of few timers never
comes to the wrap. The run `timers` is such a program. The refinement needs no such hypothesis:
what is called and when does not depend on the handles. Assumption:
`TimersAssumption`.

### Resource factory

| Theorem | Statement |
|---|---|
| `GetExact` | if all counts are exact, they are after `Get`, with one reference more for the caller if it succeeds and none if it fails |
| `CreateFunctionExact` | the same for a create function, which holds one reference to each resource it refers to if it succeeds, and none if it fails |

Neither says that nothing leaks: the references of an instance that `DoCreateResource` abandons,
because its PostCreate failed, are counted with those of loaded resources (`Held`), and nobody
gives them back. What the theorems say is that these are the only ones.

`Exact(f, users)` says that every count of a table is what `users` hold plus the references of
loaded resources and abandoned instances, that a resource that is not loaded holds none, that
only paths whose PostCreate fails have abandoned instances, and that no assert has failed; `Plus` adds the references in a sequence to the users. Both theorems are about worlds
in which references go down in rank (`RefsDescend`): a resource that refers to itself is one
that its own create function waits for.

`Release` is a loop over a worklist: a release that destroys a resource
puts the references it held on the list. `ReleaseExact` shows that giving up the
references in a sequence that is accounted for leaves the others exact, however many
resources this destroys. The argument is the invariant of a round (the list and the users
together account for every count) and the number of references in the table, which each
round lowers. `Get` is a function of the depth that is left (`GetWithin`); `GetWithinExact`
shows that each depth does what is promised, given that the one below does. Both go by the
least round for which the claim would fail (`EveryRound`), so no operator is passed to
an induction theorem. Sums over holders are cardinalities of sets of pairs
(`HeldBy`), about which there are a few lemmas.

### Preloader

| Theorem | Statement |
|---|---|
| `TreeStaysSound` | `Spec /\ AcyclicWorld => []TreeIsSound` |
| `WorkerStaysInTree` | `Spec /\ AcyclicWorld => []WorkerNamesLiveRequests` |
| `AssertsHold` | `Spec /\ AcyclicWorld => []NoAssertFails` |
| `CountsStayExact` | `Spec /\ AcyclicWorld => []ReferenceCountsExact` |

For every number of requests and of queue slots, all sets of names and paths and every
capacity of the factory, with every fate of every resource and any use of the factory by
others. The assumptions are those of `ResourceFactory` and `Preloader`.

`AcyclicWorld` is a hypothesis on the files, which no step changes: there are ranks so that
every resource refers to resources of lower rank only, and, when several names
are given, the first is well formed, of a known type, and above the others. It cannot be
dropped, because the properties are false without it: with a reference of a resource to
itself and one to a missing file the walk goes on from a freed request, and when the first
of several names has no type the assert in `DeletePreloader` fails
([below](#where-code-and-promise-differ)). All worlds
of the run `preloader` but the six with self references satisfy it: that is
the assumption `WorldsAreAcyclic` of `MCPreloader`. Those six, and what the code does against
loops (`IsLoop`, `VisitLoop`), are only model-checked.

    IInv == \E rank : Inv(rank)
    Inv(rank) == WorldOK(rank) /\ PlainOK /\ Core(world, rank, persistCount, Tree, ...)

`Core` is made of `Sound` (the tree and the counts), `QueueOK`, `HintsOK` and `Walks`:

- `Shape` is the tree as such. Every live request has a stamp, later ones a higher one; a
  child's is above its parent's, the first child is the one with the highest stamp and the
  next sibling the next lower one. With it, what `TreeIsSound` reaches by links from the root is what is not on
  the free list (`ReachedAreLive`, `ChildrenAreKids`), and nothing is on it twice.
- `NodeOK` says of a request what its fields say of each other: that the pending count is
  exact, that a resolved request has no children and neither a buffer nor a load, that
  a request with children is loading, has its buffer or is the root, that children of a
  request without a buffer have not been visited, and that ranks go down.
- `ProgressOK` is `m_InProgress`: the paths of the busy requests, one each.
- `PersistRoom` is why the persisted names fit their array: one place for every name that
  has not been given up by the tree yet.
- `Accounts` is `Exact` with the users that `ReferenceCountsExact` counts. Within a step it also
  counts references "in hand": those of an instance that is created and not yet
  inserted.
- `QueueOK` gives every loading request its one outstanding entry in the queue, `HintsOK` says
  that a hint's parent is loading and its name of lower rank.
- `WalkOK` is what the walk's stack may hold. It is a path of the tree, but the visit of a
  child may remove a whole part of the tree below an ancestor (`PreloaderTryPruneParent`), so
  requests on the stack may be free. They are then leftovers (`Gone`): resolved, and with their
  next siblings gone too, so that the walk passes over them.

Each operator of the model has a lemma that says what it does to a tree (`Inserted`, `Emptied`,
`Resolves`, `Recorded`, `Created`, `Climbing`, `Visited`), each action one that it keeps `Core`. The
loops go round by round as in the factory: `RemoveChildren` keeps `Emptying`, the climb
`Climbing`, the hints `Grown`. `NewPreloader` inserts the names into a tree that has only a
root, at indices taken in order from the free list, which is how the first
`persistCount` indices come to be the persisted names (`FreshList`, `Growing`).

### Not proved

Only model-checked:

- liveness under fairness, of every component;
- `PostCreateOnLiveResource`, `AgreesWithGet` and `AllNamesLoaded`, which compare what the preloader does with the
  closure `Loadable` of the resources;
- `StoredIsMounted`;
- the preloader in worlds with cycles.

## Where code and promise differ

Three runs show a behaviour of the code that contradicts a comment or a
documentation of its own. `PROJECT.json` quotes the lines.

- `preloader_cycle`: two siblings that refer to each other wait for ever; only
  ancestors are searched for a loop.
- `pool_shutdown`: a dial that has passed the check of `m_AllowNewConnections`
  connects after `Shutdown` has returned 0, and its connection is in use in a pool
  that is shut down.
- `liveupdate_restart`: the first `store_resource` of a second session empties the
  data file that the index mounted at boot still refers to; what was stored before
  is lost although its callback was given success.

Met while modelling, and not kept as runs of their own:

- *Load queue.* A read that fails after the buffer has grown counts its capacity;
  the idle trim frees the buffer before it is picked up and `FreeLoad` subtracts
  nothing. The bytes stay counted, and enough of them throttle the worker for good.
- *Preloader.* A resource that refers to itself and to a missing file is created
  twice, because the walk goes on from a freed request. When the first of several
  names has no type, the others' requests are never given back and the assert in
  `DeletePreloader` fails. When the creation of a parent fails its children are released, as if
  the parent had references of its own to them (`:581`): a child that waits for its PostCreate
  call is destroyed, and PostCreate is called on it. The run `preloader` has this
  (`FailingParentWorlds`), and `PostCreateOnLiveResource` says that it is the only way. When a
  PostCreate function fails inside `Get`, the instance is neither inserted nor destroyed
  (`resource.cpp:1114`), and what it refers to stays loaded until `DeleteFactory` logs it as leaked;
  `ReferenceCountsExact` says that nothing else leaks. A first name
  that another user has already loaded resolves the root at once and drops the
  other names (`resource_preloader.cpp:836`; this is why `ExternalNames` leaves it
  out). The result of a PostCreate function is kept only when the root is already
  resolved (`:937`), so a parent is created although the PostCreate of its child fails, which
  a direct `Get` of it would not do.
- *Message.* A deleted socket's table entry is given to a new socket while a thread
  is still inside `Post` or `Dispatch` on the old one. `DispatchBlocking` returns
  without a message after a spurious wakeup, because the wait at `message.cpp:542`
  is not a loop (`SpuriousWake` keeps it in the model). Two threads in `Dispatch` on
  one socket would hand back each other's pages. Messages that are left when
  a socket is deleted lose the buffers they point to.
- *Connections.* A failed handshake leaves its socket open
  (`connection_pool.cpp:333`; `abandoned`). A request that times out right after it
  is connected returns `RESULT_OK` without an answer. On a host that has only an
  IPv6 address, the socket result of the failed IPv4 dial makes the client drop a
  connection that it could reuse. A request other than GET is sent a second time
  when a reused connection fails without an answer. Idle connections are not shut
  by `Shutdown`.
- *Timers.* `TimerTrigger` looks a timer up by index and does not compare the handle
  (`script_timer.cpp:705`), unlike `CancelTimer`.
- *HTTP service.* The status is not reset between requests (`http_service.cpp:234`
  to `:248`), so one that succeeds without headers is answered with the status before.
  An invalid URL is answered with an empty user datum (`:203`), so the script's
  callback is not called. The path to store a response in is posted as a pointer
  to a Lua string that nobody keeps (`script_http.cpp:231`).
- *Live update.* A job writes the temporary index over that of the job before
  (`resource_archive.cpp:962`). A crash or a full device in the middle leaves a part of it, and
  `WrapArchiveBuffer` looks at its version number only, so the next boot mounts and keeps it: resources
  whose callback was given success are not found, and lookups read behind the end of the
  mapped file, in every session from then on. The run `liveupdate` has this (`SavePart`, `FindEntryInPart`), and
  `StoredIsMounted` says that nothing else loses what the first session stored. The job thread and a load share one `FILE`; the job thread seeks
  and writes without the load mutex (`resource_archive.cpp:833` against `:480`). A
  store that is refused in a later session empties the data file too. `Finalize`
  deletes the manifest before it joins the thread (`liveupdate.cpp:483`). When the
  data cannot be written the new index is deleted twice (`resource_archive.cpp:915`
  and `:956`); the model's `WriteFails` may be followed by `Crash`.
  When the bundle has changed, its version file is removed before the
  stored manifest (`liveupdate_archive.cpp:95`), so that a crash between the two
  leaves a manifest that passes for one of the new bundle.

## Not modelled

`PROJECT.json` lists every part with the reason. In short: the synchronous load
queue (no interleaving), archives and manifests (byte layouts), reloading and
HTTP loading in the factory, URL parsing in `message.cpp`, the soft time limit
of `UpdatePreloader` (any number of steps may happen between two calls of the
client), the preloader's path cache (taken to have room), the HTTP cache and the
bytes of HTTP, the trigger function and the Lua bindings of timers, stored
manifests and the content of zip archives in live update, and everything under
"Models next" of the [plan](#plan). Numeric, rendering and device code, the editor and the Java build
tools have no protocol that a model of this kind would check.
