------------------------------ MODULE Message ------------------------------
(***************************************************************************)
(* Message sockets (engine/dlib/src/dlib/message.cpp).  Sockets live by    *)
(* value in the entries of one hash table; a thread that uses one takes a  *)
(* counted reference under a global spinlock, works under the socket's     *)
(* mutex, and the last one to let go disposes of it.  Messages are placed  *)
(* in pages of memory that are handed back after they are dispatched.      *)
(*                                                                         *)
(* One action is one critical section or one callback.  A thread in a      *)
(* dispatch callback may post as any poster does, so callbacks do not post *)
(* themselves.  Names stand for their hashes.                              *)
(***************************************************************************)
EXTENDS Integers, Sequences, FiniteSets, SequencesExt

CONSTANTS Threads,
          Owners, Posters, Consumers, \* threads that create and delete, post, dispatch
          Blocking,                   \* consumers that call DispatchBlocking
          Names,
          MAX_SOCKETS,
          PageMessages,               \* messages that fit in a page
          Pages,                      \* pages the heap can hand out
          MaxPosts, MaxCreations      \* bounds on what a run does

None == 0

ASSUME MessageAssumption ==
  /\ Owners \cup Posters \cup Consumers \subseteq Threads /\ Blocking \subseteq Consumers
  /\ IsFiniteSet(Threads) /\ None \notin Pages
  /\ MAX_SOCKETS \in Nat \ {0} /\ PageMessages \in Nat \ {0}
  /\ MaxPosts \in Nat /\ MaxCreations \in Nat

Entries == 1 .. MAX_SOCKETS
Messages == 1 .. MaxPosts

VARIABLES table,    \* m_Sockets: the entry of each name
          freeEntries, created, \* entries erased, and entries ever taken
          sock,     \* the MessageSocket in each entry, with its allocator
          mem,      \* the message at each place of each page
          heap,     \* pages not allocated
          pc, ptr,  \* where each thread is, and its MessageSocket*
          op,       \* what it was called for
          batch, unlinked, \* InternalDispatch's messages and pages
          posted,   \* messages posted so far
          gone      \* how often each message was dispatched or destroyed

tableVars == <<table, freeEntries, created>>
pageVars == <<mem, heap>>
threadVars == <<pc, ptr, op>>
dispatchVars == <<batch, unlinked>>
vars == <<tableVars, sock, pageVars, threadVars, dispatchVars, posted, gone>>

\* A socket; m_RefCount is protected by the spinlock, the rest by its mutex.
NewMessageSocket == [refs |-> 1, queue |-> <<>>, current |-> None, used |-> 0,
                     full |-> <<>>, free |-> <<>>, live |-> TRUE]
Disposed == [NewMessageSocket EXCEPT !.refs = 0, !.live = FALSE]

\* A message in its place.
At(page, offset, id) == [page |-> page, offset |-> offset, id |-> id]

Init ==
  /\ table = [n \in Names |-> None] /\ freeEntries = <<>> /\ created = 0
  /\ sock = [e \in Entries |-> Disposed]
  /\ mem = [p \in Pages |-> [k \in 1 .. PageMessages |-> None]] /\ heap = Pages
  /\ pc = [t \in Threads |-> "idle"] /\ ptr = [t \in Threads |-> None]
  /\ op = [t \in Threads |-> "none"]
  /\ batch = [t \in Threads |-> <<>>] /\ unlinked = [t \in Threads |-> <<>>]
  /\ posted = 0 /\ gone = [m \in Messages |-> 0]

Goto(t, label) == pc' = [pc EXCEPT ![t] = label]
Here(t, label) == pc[t] = label

\* Goes on to "label" with the socket e; the call returns when that is "idle".
GotoOrReturn(t, label, e) ==
  /\ Goto(t, label)
  /\ ptr' = [ptr EXCEPT ![t] = IF label = "idle" THEN None ELSE e]
  /\ op' = [op EXCEPT ![t] = IF label = "idle" THEN "none" ELSE @]

-----------------------------------------------------------------------------
(* Creation and deletion.                                                  *)

\* The hash table takes entries it never used before it uses erased ones.
AllocateEntry == IF created < MAX_SOCKETS THEN created + 1 ELSE Head(freeEntries)

SocketsFull == Cardinality({n \in Names : table[n] # None}) = MAX_SOCKETS

NewSocket(t, n) ==
  /\ Here(t, "idle") /\ t \in Owners
  /\ created < MaxCreations
  /\ ~SocketsFull /\ table[n] = None
  /\ sock' = [sock EXCEPT ![AllocateEntry] = NewMessageSocket]
  /\ table' = [table EXCEPT ![n] = AllocateEntry]
  /\ freeEntries' = IF created < MAX_SOCKETS THEN freeEntries ELSE Tail(freeEntries)
  /\ created' = created + 1
  /\ UNCHANGED <<pageVars, threadVars, dispatchVars, posted, gone>>

DecRef(s) == [s EXCEPT !.refs = @ - 1]

\* Deletion is deferred to the last thread that uses the socket.
AfterDecRefAlways(s) == "dispose"

AfterDecRef(s) == IF s.refs > 1 THEN "idle" ELSE "dispose"

DeleteSocket(t, n) ==
  /\ Here(t, "idle") /\ t \in Owners /\ table[n] # None
  /\ table' = [table EXCEPT ![n] = None]
  /\ freeEntries' = <<table[n]>> \o freeEntries
  /\ sock' = [sock EXCEPT ![table[n]] = DecRef(@)]
  /\ GotoOrReturn(t, AfterDecRef(sock[table[n]]), table[n])
  /\ UNCHANGED <<created, pageVars, batch, unlinked, posted, gone>>

\* ReleaseSocket.
ReleaseSocket(t) ==
  /\ Here(t, "release")
  /\ sock' = [sock EXCEPT ![ptr[t]] = DecRef(@)]
  /\ GotoOrReturn(t, AfterDecRef(sock[ptr[t]]), ptr[t])
  /\ UNCHANGED <<tableVars, pageVars, batch, unlinked, posted, gone>>

PagesOf(s) == ToSet(s.full) \cup ToSet(s.free) \cup ({s.current} \ {None})

DisposeSocket(t) ==
  /\ Here(t, "dispose")
  /\ LET s == sock[ptr[t]]
     IN  /\ gone' = [m \in Messages |->
                       gone[m] + Cardinality({k \in DOMAIN s.queue : s.queue[k].id = m})]
         /\ heap' = heap \cup PagesOf(s)
         /\ sock' = [sock EXCEPT ![ptr[t]] = Disposed]
  /\ GotoOrReturn(t, "idle", None)
  /\ UNCHANGED <<tableVars, mem, batch, unlinked, posted>>

-----------------------------------------------------------------------------
(* Post and HasMessages.                                                   *)

\* AcquireSocket; an unknown socket changes nothing.
AcquireSocket(t, n, operation, label) ==
  /\ Here(t, "idle") /\ table[n] # None
  /\ ptr' = [ptr EXCEPT ![t] = table[n]]
  /\ op' = [op EXCEPT ![t] = operation]
  /\ sock' = [sock EXCEPT ![table[n]].refs = @ + 1]
  /\ Goto(t, label)
  /\ UNCHANGED <<tableVars, pageVars, dispatchVars, posted, gone>>

\* At most MaxPosts messages are posted in a run.
MayPost == posted + Cardinality({t \in Threads : pc[t] = "enqueue"}) < MaxPosts

BeginPost(t, n) == t \in Posters /\ MayPost /\ AcquireSocket(t, n, "post", "enqueue")
BeginHasMessages(t, n) == t \in Posters /\ AcquireSocket(t, n, "peek", "peek")

HasMessages(t) ==
  /\ Here(t, "peek")
  /\ Goto(t, "release")
  /\ UNCHANGED <<tableVars, sock, pageVars, ptr, op, dispatchVars, posted, gone>>

\* AllocateNewPage: the current page is full; a free page is used, or a new one.
NewPage(s) == IF s.free # <<>> THEN Head(s.free) ELSE CHOOSE p \in heap : TRUE
WithNewPageUnlinked(s, page) ==
  [s EXCEPT !.free = IF @ = <<>> THEN @ ELSE Tail(@), !.current = page, !.used = 0]

WithNewPage(s, page) ==
  [s EXCEPT !.full = IF s.current = None THEN @ ELSE <<s.current>> \o @,
            !.free = IF @ = <<>> THEN @ ELSE Tail(@),
            !.current = page, !.used = 0]

NeedsPage(s) == s.current = None \/ s.used = PageMessages

\* The heap has a page when one is asked for: Pages bounds it.
PageAvailable(s) == NeedsPage(s) => s.free # <<>> \/ heap # {}

\* AllocateMessage: the socket with room for one more message on its page.
Allocated(s) == IF NeedsPage(s) THEN WithNewPage(s, NewPage(s)) ELSE s

AppendedToStaleTail(s, id) ==
  [s EXCEPT !.used = @ + 1,
            !.queue = SubSeq(@, 1, IF @ = <<>> THEN 0 ELSE 1)
                      \o <<At(s.current, s.used + 1, id)>>]

Appended(s, id) ==
  [s EXCEPT !.used = @ + 1, !.queue = Append(@, At(s.current, s.used + 1, id))]

\* Only the first message in the queue signals.
Signals(s) == s.queue = <<>>

WaitingOn(e) == {t \in Threads : pc[t] = "wait" /\ ptr[t] = e}

PostMessage(t) ==
  /\ Here(t, "enqueue") /\ PageAvailable(sock[ptr[t]])
  /\ LET s == Allocated(sock[ptr[t]])
     IN  /\ sock' = [sock EXCEPT ![ptr[t]] = Appended(s, posted + 1)]
         /\ mem' = [mem EXCEPT ![s.current][s.used + 1] = posted + 1]
         /\ heap' = heap \ {s.current}
  /\ posted' = posted + 1
  /\ IF Signals(sock[ptr[t]]) /\ WaitingOn(ptr[t]) # {}
     THEN \E w \in WaitingOn(ptr[t]) :
            pc' = [pc EXCEPT ![t] = "release", ![w] = "woken"]
     ELSE Goto(t, "release")
  /\ UNCHANGED <<tableVars, ptr, op, dispatchVars, gone>>

-----------------------------------------------------------------------------
(* InternalDispatch.                                                       *)

BeginDispatch(t, n) == t \in Consumers /\ AcquireSocket(t, n, "dispatch", "take")
BeginDispatchBlocking(t, n) == t \in Blocking /\ AcquireSocket(t, n, "blocking", "take")

\* The pages that hold nothing but messages of this dispatch, or older ones.
UnlinkedPages(s) == s.full

\* The queue and the full pages are taken under the mutex.
TakeAndReclaim(t) ==
  /\ batch' = [batch EXCEPT ![t] = sock[ptr[t]].queue]
  /\ sock' = [sock EXCEPT ![ptr[t]].queue = <<>>, ![ptr[t]].full = <<>>,
                          ![ptr[t]].free = sock[ptr[t]].full \o @]
  /\ Goto(t, "callbacks")
  /\ UNCHANGED <<tableVars, pageVars, ptr, op, unlinked, posted, gone>>

Take(t) ==
  /\ batch' = [batch EXCEPT ![t] = sock[ptr[t]].queue]
  /\ unlinked' = [unlinked EXCEPT ![t] = UnlinkedPages(sock[ptr[t]])]
  /\ sock' = [sock EXCEPT ![ptr[t]].queue = <<>>, ![ptr[t]].full = <<>>]
  /\ Goto(t, "callbacks")
  /\ UNCHANGED <<tableVars, pageVars, ptr, op, posted, gone>>

\* A slip: the count of messages is compared with 1.
DispatchTakeMany(t) == Here(t, "take") /\ Len(sock[ptr[t]].queue) > 1 /\ Take(t)

DispatchTake(t) == Here(t, "take") /\ sock[ptr[t]].queue # <<>> /\ Take(t)

DispatchEmpty(t) ==
  /\ Here(t, "take") /\ sock[ptr[t]].queue = <<>>
  /\ Goto(t, IF op[t] = "blocking" THEN "wait" ELSE "release")
  /\ UNCHANGED <<tableVars, sock, pageVars, ptr, op, dispatchVars, posted, gone>>

\* After the wait the queue is taken as it is, empty or not.
DispatchWoken(t) == Here(t, "woken") /\ Take(t)

SpuriousWake(t) ==
  /\ Here(t, "wait")
  /\ Goto(t, "woken")
  /\ UNCHANGED <<tableVars, sock, pageVars, ptr, op, dispatchVars, posted, gone>>

\* The callback and the destroy callback, on what the message's memory holds.
DispatchCallback(t) ==
  /\ Here(t, "callbacks") /\ batch[t] # <<>>
  /\ LET m == mem[Head(batch[t]).page][Head(batch[t]).offset]
     IN  gone' = [gone EXCEPT ![m] = @ + 1]
  /\ batch' = [batch EXCEPT ![t] = Tail(@)]
  /\ UNCHANGED <<tableVars, sock, pageVars, threadVars, unlinked, posted>>

DispatchReclaim(t) ==
  /\ Here(t, "callbacks") /\ batch[t] = <<>>
  /\ sock' = [sock EXCEPT ![ptr[t]].free = Reverse(unlinked[t]) \o @]
  /\ unlinked' = [unlinked EXCEPT ![t] = <<>>]
  /\ Goto(t, "release")
  /\ UNCHANGED <<tableVars, pageVars, ptr, op, batch, posted, gone>>

-----------------------------------------------------------------------------
Step(t) ==
  \/ ReleaseSocket(t) \/ DisposeSocket(t) \/ HasMessages(t) \/ PostMessage(t)
  \/ DispatchTake(t) \/ DispatchEmpty(t) \/ DispatchWoken(t) \/ DispatchCallback(t)
  \/ DispatchReclaim(t)

Call(t, n) ==
  \/ NewSocket(t, n) \/ DeleteSocket(t, n) \/ BeginPost(t, n) \/ BeginHasMessages(t, n)
  \/ BeginDispatch(t, n) \/ BeginDispatchBlocking(t, n)

Next == \E t \in Threads : Step(t) \/ SpuriousWake(t) \/ \E n \in Names : Call(t, n)

Spec == Init /\ [][Next]_vars

(***************************************************************************)
(* The operating system runs every thread that is in a call, and consumers *)
(* call Dispatch again and again.                                          *)
(***************************************************************************)
FairSpec ==
  /\ Spec
  /\ \A t \in Threads : WF_vars(Step(t))
  /\ \A t \in Consumers : WF_vars(\E n \in Names : BeginDispatch(t, n))

-----------------------------------------------------------------------------
(* Properties.                                                             *)

Labels == {"idle", "dispose", "release", "enqueue", "peek", "take", "wait", "woken", "callbacks"}
Places == [page : Pages, offset : 1 .. PageMessages, id : Messages]

\* Every variable keeps its type.
TypeOK ==
  /\ table \in [Names -> Entries \cup {None}] /\ freeEntries \in Seq(Entries)
  /\ created \in 0 .. MaxCreations /\ posted \in 0 .. MaxPosts
  /\ sock \in [Entries -> [refs : Nat, queue : Seq(Places), current : Pages \cup {None},
                           used : 0 .. PageMessages, full : Seq(Pages), free : Seq(Pages),
                           live : BOOLEAN]]
  /\ pc \in [Threads -> Labels] /\ ptr \in [Threads -> Entries \cup {None}]
  /\ batch \in [Threads -> Seq(Places)] /\ unlinked \in [Threads -> Seq(Pages)]
  /\ heap \subseteq Pages /\ gone \in [Messages -> Nat]

Users(e) == {t \in Threads : ptr[t] = e /\ pc[t] \notin {"idle", "dispose"}}
Disposers(e) == {t \in Threads : ptr[t] = e /\ pc[t] = "dispose"}
InTable(e) == \E n \in Names : table[n] = e

\* The state is well typed and a socket is disposed of by exactly one thread, once it is out of the table
\* and no thread uses it any more: deletion by one thread while others are in
\* Post or Dispatch is deferred to the last of them.
DisposedByTheLast ==
  /\ TypeOK
  /\ \A e \in Entries :
       /\ Users(e) # {} \/ InTable(e) => sock[e].live /\ Disposers(e) = {}
       /\ sock[e].live => Users(e) # {} \/ InTable(e) \/ Cardinality(Disposers(e)) = 1

Batched == UNION {ToSet(batch[t]) : t \in Threads}
Queued == UNION {ToSet(sock[e].queue) : e \in Entries}

\* No page is used again while a message in it is still to be dispatched:
\* the memory of such a message holds that message.
MessageMemoryIntact == \A m \in Batched \cup Queued : mem[m.page][m.offset] = m.id

\* A message that was posted is waiting, or being dispatched, or was handled or
\* destroyed once: none is lost and none is seen twice.
EveryMessageOnce ==
  \A m \in Messages :
    LET places == Cardinality({q \in Batched \cup Queued : q.id = m}) + gone[m]
    IN  places = (IF m <= posted THEN 1 ELSE 0)

\* Every page belongs to the heap, to one socket or to one dispatch.
Holders(p) ==
  {<<"socket", e>> : e \in {f \in Entries : sock[f].live /\ p \in PagesOf(sock[f])}}
  \cup {<<"dispatch", t>> : t \in {u \in Threads : p \in ToSet(unlinked[u])}}
  \cup (IF p \in heap THEN {<<"heap", p>>} ELSE {})

NoPageLost == \A p \in Pages : Cardinality(Holders(p)) = 1

\* A consumer that waits on a socket that is no longer in the table is never
\* signalled: DeleteSocket does not, and nobody can post to it.
Stranded(t) == pc[t] = "wait" /\ ~ InTable(ptr[t])

\* As long as no consumer is stranded, every message that was posted is dispatched
\* or destroyed in the end.
EveryMessageHandled ==
  []<>((\A m \in 1 .. posted : gone[m] > 0) \/ \E t \in Consumers : Stranded(t))

=============================================================================
