----------------------------- MODULE LoadQueue -----------------------------
(***************************************************************************)
(* The threaded load queue of the resource system                          *)
(* (engine/resource/src/async/load_queue_threaded.cpp).                    *)
(*                                                                         *)
(* One worker thread, LoadThread, loads the requests of a ring of          *)
(* QUEUE_SLOTS slots in the order they were begun.  One client thread (the *)
(* preloader) begins loads, polls them with EndLoad, reads the buffer      *)
(* EndLoad handed out without holding the mutex, and frees the request.    *)
(* Everything between taking and releasing m_Mutex is one action; waiting  *)
(* on m_WakeupCond releases the mutex and so ends an action.               *)
(*                                                                         *)
(* The ring counters are 32-bit and wrap: COUNTER_RANGE stands for 2^32.   *)
(***************************************************************************)
EXTENDS Integers

CONSTANTS Names,             \* the resources a client may ask for
          NoName,            \* the null m_Name of a slot that is not in use
          QUEUE_SLOTS,
          COUNTER_RANGE,     \* the counters are kept modulo this (2^32)
          DEFAULT_CAPACITY,
          MAX_PENDING_DATA,
          Sizes,             \* the sizes a resource may have on disk
          ReadErrors         \* may reading fail after the size is known?

\* The wrap of the counters agrees with the wrap of the ring.
ASSUME RingAssumption ==
  /\ QUEUE_SLOTS \in Nat \ {0}
  /\ COUNTER_RANGE \in Nat
  /\ COUNTER_RANGE > QUEUE_SLOTS
  /\ COUNTER_RANGE % QUEUE_SLOTS = 0

ASSUME NameAssumption == NoName \notin Names

ASSUME BufferAssumption ==
  /\ DEFAULT_CAPACITY \in Nat \ {0}
  /\ MAX_PENDING_DATA \in Nat \ {0}
  /\ Sizes \subseteq Nat
  /\ ReadErrors \in BOOLEAN

\* Results of a load; PENDING until the worker has published one.
PENDING == "RESULT_PENDING"
OK == "RESULT_OK"
NOT_FOUND == "RESULT_RESOURCE_NOT_FOUND"
IO_ERROR == "RESULT_IO_ERROR"
Results == {PENDING, OK, NOT_FOUND, IO_ERROR}

Slots == 0 .. (QUEUE_SLOTS - 1)
Counters == 0 .. (COUNTER_RANGE - 1)

\* A slot of the ring; "data" is the resource whose bytes the buffer holds.
Request == [m_Name : Names \cup {NoName},
            data : Names \cup {NoName},
            size : Nat,
            capacity : Nat,
            m_LoadResult : Results]

VARIABLES m_Request, m_Front, m_Back, m_Loaded, m_BytesWaiting, m_Shutdown,
          pc,        \* where the worker is
          current,   \* the slot the worker is loading (valid in "load", "loaded")
          result,    \* the worker's temporary result
          signalled, \* m_WakeupCond has been signalled since the worker waits
          handle,    \* what the client has done with each slot
          client     \* "open" until the client calls DeleteQueue

queueVars == <<m_Request, m_Front, m_Back, m_Loaded, m_BytesWaiting, m_Shutdown>>
workerVars == <<pc, current, result>>
vars == <<m_Request, m_Front, m_Back, m_Loaded, m_BytesWaiting, m_Shutdown,
          pc, current, result, signalled, handle, client>>

\* Unsigned subtraction and increment of the 32-bit counters.
Minus(a, b) == (a - b) % COUNTER_RANGE
Plus(a, k) == (a + k) % COUNTER_RANGE
SlotOf(counter) == counter % QUEUE_SLOTS

\* The ring seen from m_Back: how many slots are in use, how many of them are
\* loaded, and how far behind m_Back a slot comes.
Used == Minus(m_Front, m_Back)
Done == Minus(m_Loaded, m_Back)
Position(i) == (i - m_Back) % QUEUE_SLOTS

-----------------------------------------------------------------------------
(* CreateQueue *)
Init ==
  /\ m_Request = [i \in Slots |-> [m_Name |-> NoName, data |-> NoName, size |-> 0,
                                   capacity |-> 0, m_LoadResult |-> OK]]
  /\ m_Front = 0 /\ m_Back = 0 /\ m_Loaded = 0
  /\ m_BytesWaiting = 0
  /\ m_Shutdown = FALSE
  /\ pc = "lock"
  /\ current = 0
  /\ result = PENDING
  /\ signalled = FALSE
  /\ handle = [i \in Slots |-> "free"]
  /\ client = "open"

\* dmConditionVariable::Signal is lost when the worker does not wait.
Signal == signalled' = (signalled \/ pc = "wait")

(* GetNextRequest: whether there is a request the worker may load now. *)
HasNextRequestUnthrottled(bytes, loaded, front) == loaded # front

HasNextRequest(bytes, loaded, front) ==
  /\ bytes < MAX_PENDING_DATA
  /\ loaded # front

\* The idle worker frees the memory of every empty buffer that has grown.
TrimInUse(requests) ==
  [i \in Slots |-> [requests[i] EXCEPT !.size = 0, !.capacity = 0]]

Trim(requests) ==
  [i \in Slots |->
     [requests[i] EXCEPT
        !.capacity = IF requests[i].size = 0 /\ @ > DEFAULT_CAPACITY THEN 0 ELSE @]]

(* The worker after its critical section has published the finished load, *)
(* if there was one: leave on shutdown, take the next request, or trim    *)
(* the idle buffers and wait.                                             *)
NextOrWait(requests, loaded, bytes) ==
  \/ /\ m_Shutdown
     /\ pc' = "exited"
     /\ m_Request' = requests
     /\ UNCHANGED <<current, signalled>>
  \/ /\ ~m_Shutdown
     /\ HasNextRequest(bytes, loaded, m_Front)
     /\ pc' = "load"
     /\ current' = SlotOf(loaded)
     /\ m_Request' = requests
     /\ UNCHANGED signalled
  \/ /\ ~m_Shutdown
     /\ ~HasNextRequest(bytes, loaded, m_Front)
     /\ pc' = "wait"
     /\ signalled' = FALSE
     /\ m_Request' = Trim(requests)
     /\ UNCHANGED current

(* Top of LoadThread's loop with current = 0. *)
WorkerPoll ==
  /\ pc = "lock"
  /\ NextOrWait(m_Request, m_Loaded, m_BytesWaiting)
  /\ UNCHANGED <<m_Front, m_Back, m_Loaded, m_BytesWaiting, m_Shutdown, result,
                 handle, client>>

\* A slot whose result the worker publishes.
Published(r) == [r EXCEPT !.m_LoadResult = result]

\* What a published buffer adds to m_BytesWaiting.
BytesOfSize(r) == r.size
BytesOf(r) == r.capacity

(* Top of LoadThread's loop with a load just finished: publish it first. *)
WorkerPublish ==
  /\ pc = "loaded"
  /\ m_BytesWaiting' = m_BytesWaiting + BytesOf(m_Request[current])
  /\ m_Loaded' = Plus(m_Loaded, 1)
  /\ NextOrWait([m_Request EXCEPT ![current] = Published(@)],
                m_Loaded', m_BytesWaiting')
  /\ UNCHANGED <<m_Front, m_Back, m_Shutdown, result, handle, client>>

(* Return from dmConditionVariable::Wait, signalled or spuriously. *)
WakeUp ==
  /\ pc = "wait"
  /\ signalled' = FALSE
  /\ \/ /\ HasNextRequest(m_BytesWaiting, m_Loaded, m_Front)
        /\ pc' = "load"
        /\ current' = SlotOf(m_Loaded)
     \/ /\ ~HasNextRequest(m_BytesWaiting, m_Loaded, m_Front)
        /\ pc' = "lock"
        /\ UNCHANGED current
  /\ UNCHANGED <<queueVars, result, handle, client>>

WorkerWake == signalled /\ WakeUp
SpuriousWake == ~signalled /\ WakeUp

\* What DoLoadResource may leave in a buffer of default capacity: the buffer
\* grows to the size on disk before the bytes are read.
Grown(size) == IF size > DEFAULT_CAPACITY THEN size ELSE DEFAULT_CAPACITY

LoadOutcomes ==
  {[res |-> NOT_FOUND, size |-> 0, capacity |-> DEFAULT_CAPACITY]}
    \cup {[res |-> OK, size |-> s, capacity |-> Grown(s)] : s \in Sizes}
    \cup {[res |-> IO_ERROR, size |-> 0, capacity |-> Grown(s)] :
            s \in {t \in Sizes : ReadErrors}}

\* A slot whose buffer a load has filled.
Filled(r, o) == [r EXCEPT !.size = o.size,
                          !.capacity = o.capacity,
                          !.data = IF o.res = OK THEN r.m_Name ELSE NoName]

(* LoadThread outside the mutex: load into the buffer, keep the result for *)
(* the next critical section.                                              *)
WorkerLoad ==
  /\ pc = "load"
  /\ \E o \in LoadOutcomes :
       /\ m_Request' = [m_Request EXCEPT ![current] = Filled(@, o)]
       /\ result' = o.res
  /\ pc' = "loaded"
  /\ UNCHANGED <<m_Front, m_Back, m_Loaded, m_BytesWaiting, m_Shutdown, current,
                 signalled, handle, client>>

-----------------------------------------------------------------------------
\* A slot as BeginLoad fills it: the buffer is left as it is.
BegunNotPending(r, name) == [r EXCEPT !.m_Name = name]
Begun(r, name) == [r EXCEPT !.m_Name = name, !.m_LoadResult = PENDING]

\* BeginLoad wakes the worker when there was nothing left to load before.
NothingToLoadAfter == m_Loaded = Plus(m_Front, 1)
NothingToLoad == m_Loaded = m_Front

(* The client.  Refusing a request of a full queue changes nothing. *)
BeginLoad(name) ==
  /\ client = "open"
  /\ Used # QUEUE_SLOTS
  /\ IF NothingToLoad THEN Signal ELSE UNCHANGED signalled
  /\ m_Front' = Plus(m_Front, 1)
  /\ m_Request' = [m_Request EXCEPT ![SlotOf(m_Front)] = Begun(@, name)]
  /\ handle' = [handle EXCEPT ![SlotOf(m_Front)] = "begun"]
  /\ UNCHANGED <<m_Back, m_Loaded, m_BytesWaiting, m_Shutdown, workerVars, client>>

(* EndLoad of a load that has been published; of a pending one it changes *)
(* nothing.                                                               *)
EndLoad(i) ==
  /\ client = "open"
  /\ handle[i] = "begun"
  /\ m_Request[i].m_LoadResult # PENDING
  /\ handle' = [handle EXCEPT ![i] = "ended"]
  /\ UNCHANGED <<queueVars, workerVars, signalled, client>>

\* A slot as FreeLoad leaves it.
Freed(r) == [r EXCEPT !.size = 0, !.m_Name = NoName]

\* FreeLoad wakes the worker to trim a grown buffer, or when this free ends the
\* throttling.
FreeSignalsGrownOnly(capacity, before, after) == capacity # DEFAULT_CAPACITY

FreeSignals(capacity, before, after) ==
  \/ capacity # DEFAULT_CAPACITY
  \/ before >= MAX_PENDING_DATA /\ after < MAX_PENDING_DATA

\* The first k slots behind m_Back are exactly those the loop of FreeLoad drops.
ReclaimsAll(requests, k) == k = Done

ReclaimsOne(requests, k) ==
  k = IF Done > 0 /\ requests[SlotOf(m_Back)].m_Name = NoName THEN 1 ELSE 0

Reclaims(requests, k) ==
  /\ \A j \in Slots : Position(j) < k => requests[j].m_Name = NoName
  /\ k = Done \/ \E j \in Slots : Position(j) = k /\ requests[j].m_Name # NoName

FreeLoad(i) ==
  /\ client = "open"
  /\ handle[i] = "ended"
  /\ m_Request' = [m_Request EXCEPT ![i] = Freed(@)]
  /\ m_BytesWaiting' = m_BytesWaiting - m_Request[i].capacity
  /\ IF FreeSignals(m_Request[i].capacity, m_BytesWaiting, m_BytesWaiting')
     THEN Signal
     ELSE UNCHANGED signalled
  /\ \E k \in 0 .. Done : Reclaims(m_Request', k) /\ m_Back' = Plus(m_Back, k)
  /\ handle' = [handle EXCEPT ![i] = "free"]
  /\ UNCHANGED <<m_Front, m_Loaded, m_Shutdown, workerVars, client>>

(* DeleteQueue up to the join, and the join with the worker. *)
ShutdownSilently == m_Shutdown' = TRUE /\ UNCHANGED signalled
Shutdown == m_Shutdown' = TRUE /\ Signal

DeleteQueue ==
  /\ client = "open"
  /\ client' = "joining"
  /\ Shutdown
  /\ UNCHANGED <<m_Request, m_Front, m_Back, m_Loaded, m_BytesWaiting, workerVars,
                 handle>>

Join ==
  /\ client = "joining"
  /\ pc = "exited"
  /\ client' = "deleted"
  /\ UNCHANGED <<queueVars, workerVars, signalled, handle>>

Deleted == client = "deleted" /\ UNCHANGED vars

-----------------------------------------------------------------------------
Next ==
  \/ WorkerPoll \/ WorkerPublish \/ WorkerWake \/ SpuriousWake \/ WorkerLoad
  \/ \E n \in Names : BeginLoad(n)
  \/ \E i \in Slots : EndLoad(i) \/ FreeLoad(i)
  \/ DeleteQueue \/ Join \/ Deleted

Spec == Init /\ [][Next]_vars

(* The worker thread is scheduled, a signalled waiter wakes, the preloader *)
(* polls every request it has begun and frees it, and Join returns.        *)
Fairness ==
  /\ WF_vars(WorkerPoll) /\ WF_vars(WorkerPublish)
  /\ WF_vars(WorkerWake) /\ WF_vars(WorkerLoad)
  /\ \A i \in Slots : WF_vars(EndLoad(i)) /\ WF_vars(FreeLoad(i))
  /\ WF_vars(Join)

FairSpec == Spec /\ Fairness

-----------------------------------------------------------------------------
(* Correctness.                                                            *)

TypeOK ==
  /\ m_Request \in [Slots -> Request]
  /\ m_Front \in Counters /\ m_Back \in Counters /\ m_Loaded \in Counters
  /\ m_BytesWaiting \in Int
  /\ m_Shutdown \in BOOLEAN
  /\ pc \in {"lock", "load", "loaded", "wait", "exited"}
  /\ current \in Slots
  /\ result \in Results
  /\ signalled \in BOOLEAN
  /\ handle \in [Slots -> {"free", "begun", "ended"}]
  /\ client \in {"open", "joining", "deleted"}

\* The three counters cut the ring into loaded, to-load and unused slots, as the
\* diagram beside the counters says, and the client's view of every slot agrees
\* with the part it is in, whatever the order of the frees and across the wrap
\* of the counters: in particular BeginLoad never hands out a slot in use.
RingPartition ==
  /\ Done <= Used
  /\ Used <= QUEUE_SLOTS
  /\ \A i \in Slots :
       /\ Position(i) < Done =>
            /\ m_Request[i].m_LoadResult # PENDING
            /\ handle[i] = "free" <=> m_Request[i].m_Name = NoName
       /\ Position(i) >= Done /\ Position(i) < Used =>
            /\ m_Request[i].m_LoadResult = PENDING
            /\ m_Request[i].m_Name \in Names
            /\ handle[i] = "begun"
       /\ Position(i) >= Used =>
            /\ m_Request[i].m_Name = NoName
            /\ handle[i] = "free"

\* While LoadThread works on a slot without the mutex, the slot is the oldest
\* request not yet loaded, still pending for EndLoad, and its buffer was empty
\* when the load began (the assertion before DoLoadResource).
WorkerOwnsSlot ==
  pc \in {"load", "loaded"} =>
    /\ m_Loaded # m_Front
    /\ current = SlotOf(m_Loaded)
    /\ m_Request[current].m_LoadResult = PENDING
    /\ pc = "load" => m_Request[current].size = 0

\* A worker that sleeps on m_WakeupCond with no signal under way has nothing it
\* could do: neither a request it may load nor a shutdown to obey.
NoLostWakeup ==
  pc = "wait" /\ ~signalled =>
    /\ ~HasNextRequest(m_BytesWaiting, m_Loaded, m_Front)
    /\ ~m_Shutdown

\* What the client reads between EndLoad and FreeLoad is what it asked for.
DeliversRequested ==
  \A i \in Slots :
    handle[i] = "ended" =>
      /\ m_Request[i].m_LoadResult # PENDING
      /\ m_Request[i].m_LoadResult = OK => m_Request[i].data = m_Request[i].m_Name

\* The throttle of GetNextRequest bounds the bytes waiting by its limit and
\* the one buffer whose load was let through.
ThrottleBound ==
  /\ pc \in {"load", "loaded"} => m_BytesWaiting < MAX_PENDING_DATA
  /\ \E s \in Sizes \cup {0} : m_BytesWaiting < MAX_PENDING_DATA + Grown(s)

\* What a slot holds of a load that is published and not yet freed.
BytesIn(i) == IF Position(i) < Done /\ handle[i] # "free" THEN m_Request[i].capacity ELSE 0

\* The sum of a number for each slot.
Total(f) ==
  LET sum[k \in 0 .. QUEUE_SLOTS] == IF k = 0 THEN 0 ELSE sum[k - 1] + f[k - 1]
  IN sum[QUEUE_SLOTS]

\* m_BytesWaiting never underflows below what is really waiting: a wrapped
\* 64-bit value would throttle the worker for ever.
BytesCovered == m_BytesWaiting >= Total([i \in Slots |-> BytesIn(i)])

KeepsBuffer(i) ==
  /\ m_Request'[i].size = m_Request[i].size
  /\ m_Request'[i].data = m_Request[i].data
  /\ m_Request'[i].m_LoadResult = m_Request[i].m_LoadResult
  /\ m_Request[i].size > 0 => m_Request'[i].capacity = m_Request[i].capacity

\* The client uses the buffer EndLoad gave it without the mutex until FreeLoad:
\* no step of the worker (its idle trim included) changes it meanwhile.
BufferStable ==
  [][\A i \in Slots :
       handle[i] = "ended" /\ handle'[i] = "ended" => KeepsBuffer(i)]_vars

\* Every load that is begun is published to a client that keeps polling and
\* freeing its requests, unless the queue is deleted.
EveryLoadFinishes ==
  \A i \in Slots : handle[i] = "begun" ~> (handle[i] = "ended" \/ client # "open")

\* DeleteQueue returns: the worker sees the shutdown from wherever it is.
DeleteQueueReturns == client = "joining" ~> client = "deleted"

\* The slot of the k-th request, from 0.
SlotAt(k) == SlotOf(m_Back + k)

\* What the client knows of the request in slot i.
RequestIn(i) ==
  LET r == m_Request[i]
      pending == r.m_LoadResult = PENDING
  IN  IF handle[i] = "free"
      THEN [name |-> NoName, status |-> "freed", answer |-> NoName, data |-> NoName]
      ELSE [name |-> r.m_Name,
            status |-> IF pending THEN "begun" ELSE "answered",
            answer |-> IF pending THEN NoName ELSE r.m_LoadResult,
            data |-> IF pending THEN NoName ELSE r.data]

\* The ring read as a sequence, oldest request first.
RingSequence == [k \in 1 .. Used |-> RequestIn(SlotAt(k - 1))]

Promise == INSTANCE LoadQueueSpec
             WITH MaxOutstanding <- QUEUE_SLOTS,
                  Answers <- Results \ {PENDING},
                  requests <- RingSequence,
                  open <- client = "open"

\* Every step of the ring and its worker is a step of the ordered queue that
\* load_queue.h promises (or none): in order, own data, out-of-order frees.
RefinesPromise == Promise!AbsSpec

=============================================================================
