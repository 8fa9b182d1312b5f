----------------------------- MODULE Preloader -----------------------------
(***************************************************************************)
(* The resource preloader (engine/resource/src/resource_preloader.cpp):    *)
(* one main thread that runs UpdatePreloader, walks a tree of requests     *)
(* depth first, starts loads, and creates a resource when all its children *)
(* are resolved; and the load queue's worker, whose preload functions add  *)
(* hints, that is children, while they run.                                *)
(*                                                                         *)
(* The walk is the pair PreloaderUpdateOneItem / DoPreloaderUpdateOneReq.  *)
(* Its recursion is the variable "stack", one index per level; the visit   *)
(* of one node, with the creations it triggers on the way to the root, is  *)
(* one action, because nothing it touches is shared with the worker except *)
(* through the load queue and the hints.  A freed node keeps its contents  *)
(* until it is allocated again, as in the code.  A failed assert() stops   *)
(* the program: "abort" names it.                                          *)
(*                                                                         *)
(* The load queue is the one LoadQueueSpec promises and LoadQueue          *)
(* implements.  The files and the types' functions are outside: "world"    *)
(* gives the names to preload and, for every path, the names it refers to, *)
(* which its preload function hints and its create function gets.          *)
(***************************************************************************)
EXTENDS ResourceFactory

CONSTANTS Worlds,        \* the worlds a run starts in
          MAX_PRELOADER_REQUESTS,
          QUEUE_SLOTS,
          ExternalNames, \* what other users of the factory get and release
          MaxLost        \* bound: others call Get while fewer references are lost at a path

ASSUME PreloaderAssumption ==
  /\ MAX_PRELOADER_REQUESTS \in Nat \ {0} /\ QUEUE_SLOTS \in Nat
  /\ ExternalNames \subseteq Names /\ MaxLost \in Nat
  /\ \A w \in Worlds :
       /\ w.names \in Seq(Names) /\ w.names # <<>>
       /\ w.refs \in [Paths -> Seq(Names)] /\ w.fate \in [Paths -> Fates]
       /\ {p \in Paths : w.fate[p] = "post_error"} \subseteq w.post
       /\ w.post \subseteq Paths /\ w.capacity \in Nat

None == -1
Nodes == 0 .. (MAX_PRELOADER_REQUESTS - 1)
LOOP == "RESULT_RESOURCE_LOOP_ERROR"

VARIABLES req,       \* m_Request
          freelist,  \* m_Freelist, its top last
          inProgress, persisted, post,
          res, abort,      \* the factory and the failed assert
          persistCount, newHints, queueFull, createComplete,
          external,        \* the names other users hold a reference to
          requests, open,  \* the load queue, see LoadQueueSpec
          hinted,          \* hints the worker's current preload function gave
          pc, stack,       \* where the main thread is in UpdatePreloader
          phase            \* before, in and after DeletePreloader

treeVars == <<world, req, freelist, inProgress, persisted, post, res, abort>>
loopVars == <<pc, stack, phase, createComplete, queueFull, persistCount>>
workerVars == <<requests, open, hinted, newHints>>
vars == <<treeVars, loopVars, workerVars, external>>

Queue == INSTANCE LoadQueueSpec
           WITH Names <- Nodes, NoName <- None, MaxOutstanding <- QUEUE_SLOTS,
                Answers <- Results

-----------------------------------------------------------------------------
(* The tree of requests.  Its operations map a record of treeVars to the   *)
(* next one; the factory's part of the record is a factory state.          *)

Tree == [req |-> req, free |-> freelist, inProgress |-> inProgress,
         persisted |-> persisted, post |-> post, res |-> res, abort |-> abort]

Becomes(s) ==
  /\ req' = s.req /\ freelist' = s.free /\ inProgress' = s.inProgress
  /\ persisted' = s.persisted /\ post' = s.post /\ res' = s.res /\ abort' = s.abort
  /\ UNCHANGED world

Factory(s) == [res |-> s.res, post |-> s.post, abort |-> s.abort]
WithFactory(s, f) == [s EXCEPT !.res = f.res, !.post = f.post, !.abort = f.abort]
ReleaseAll(s, paths) == WithFactory(s, Release(Factory(s), paths))

PathOf(r) == IF r.name \in Malformed THEN NoPath ELSE CanonicalPath[r.name]

MarkPathInProgress(s, i) ==
  LET p == PathOf(s.req[i])
  IN  [Require(s, p \notin s.inProgress, "MarkPathInProgress") EXCEPT !.inProgress = @ \cup {p}]

UnmarkPathInProgress(s, i) ==
  LET p == PathOf(s.req[i])
  IN  [Require(s, p \in s.inProgress, "UnmarkPathInProgress") EXCEPT !.inProgress = @ \ {p}]

RemoveFromParentPendingCount(s, i) ==
  LET p == s.req[i].parent
  IN  IF p = None THEN s
      ELSE [Require(s, s.req[p].pending > 0, "RemoveFromParentPendingCount")
              EXCEPT !.req[p].pending = @ - 1]

NewRequest(name) ==
  [name |-> name, parent |-> None, first |-> None, next |-> None, pending |-> 0,
   loading |-> FALSE, buffer |-> FALSE, result |-> PENDING, resource |-> FALSE]

\* The children of a node: what a walk from m_FirstChild along m_NextSibling meets.
Children(s, i) ==
  Reach(Nodes, {s.req[i].first} \ {None}, [j \in Nodes |-> {s.req[j].next} \ {None}])

\* What a walk from i along m_Parent meets.
Ancestors(s, i) == Reach(Nodes, {i}, [j \in Nodes |-> {s.req[j].parent} \ {None}])

\* mutant: only the parent is looked at
IsLoopWithParent(s, parent, name) == PathOf(s.req[parent]) = CanonicalPath[name]

\* A recursive resource is resolved, with an error, as soon as it is inserted:
\* the parent does not wait for it.
IsLoop(s, parent, name) ==
  \E k \in Ancestors(s, parent) : PathOf(s.req[k]) = CanonicalPath[name]

PendingAfterInsertCountsLoop(count, loop) == count + 1

PendingAfterInsert(count, loop) == IF loop THEN count ELSE count + 1

PreloaderTreeInsert(s, i, parent, name) ==
  LET loop == IsLoop(s, parent, name)
  IN  [s EXCEPT !.req = [@ EXCEPT
         ![i] = [NewRequest(name) EXCEPT !.parent = parent,
                                         !.next = s.req[parent].first,
                                         !.result = IF loop THEN LOOP ELSE PENDING],
         ![parent].first = i,
         ![parent].pending = PendingAfterInsert(@, loop)]]

Registered(s, parent, name) == \E k \in Children(s, parent) : s.req[k].name = name

PreloadPathDescriptor(s, parent, name) ==
  IF Registered(s, parent, name) \/ s.free = <<>> THEN s
  ELSE PreloaderTreeInsert([s EXCEPT !.free = Front(@)], Last(s.free), parent, name)

PopHint(s, hint) == PreloadPathDescriptor(s, hint.parent, hint.name)

PopHints(s, hints) ==
  LET after[n \in 0 .. Len(hints)] ==
        IF n = 0 THEN s ELSE PopHint(after[n - 1], hints[n])
  IN  after[Len(hints)]

PersistsButLast(i) == i < persistCount - 1

\* The names the preloader was given stay loaded until it is deleted.
Persists(i) == i < persistCount

ReleaseOrPersist(s, i) ==
  IF ~s.req[i].resource THEN s
  ELSE IF Persists(i) THEN [s EXCEPT !.persisted = Append(@, PathOf(s.req[i]))]
  ELSE ReleaseAll(s, <<PathOf(s.req[i])>>)

Unlink(s, i) == [s EXCEPT !.req[s.req[i].parent].first = s.req[i].next]
ForgetPending(s, i) ==
  IF s.req[i].result = PENDING THEN RemoveFromParentPendingCount(s, i) ELSE s
IsFirstLeaf(s, i) ==
  s.req[i].first = None /\ s.req[i].pending = 0 /\ s.req[s.req[i].parent].first = i

PreloaderRemoveLeaf(s, i) ==
  [ForgetPending(Unlink(ReleaseOrPersist(Require(s, IsFirstLeaf(s, i), "PreloaderRemoveLeaf"),
                                         i), i), i)
     EXCEPT !.free = Append(@, i)]

RemoveFirstChild(s, i) ==
  IF s.req[i].first = None \/ s.abort # "none" THEN s
  ELSE PreloaderRemoveLeaf(s, s.req[i].first)

\* Every round returns a request to the free list.
RemoveChildren(s, i) ==
  LET after[n \in 0 .. MAX_PRELOADER_REQUESTS] ==
        IF n = 0 THEN s ELSE RemoveFirstChild(after[n - 1], i)
      t == after[MAX_PRELOADER_REQUESTS]
  IN  Require(t, t.req[i].pending = 0, "RemoveChildren")

-----------------------------------------------------------------------------
(* CreateResource and the climb towards the root.                          *)

Callback(p, refs) == [path |-> p, destroy |-> FALSE, refs |-> refs, dead |-> FALSE]

DestroyLeaking(s, path, refs) ==
  IF HasPostCreate(path) THEN [s EXCEPT !.post[Len(s.post)].destroy = TRUE] ELSE s

\* The instance just created is destroyed, after its PostCreate if it has one.
Destroy(s, path, refs) ==
  IF HasPostCreate(path) THEN [s EXCEPT !.post[Len(s.post)].destroy = TRUE]
  ELSE ReleaseAll(s, refs)

\* A resource that was loaded by someone else meanwhile is used instead.
InsertOrDestroy(s, i, p, refs) ==
  IF Loaded(s, p)
  THEN Destroy([IncRef(s, p) EXCEPT !.req[i].resource = TRUE], p, refs)
  ELSE IF Full(s)
  THEN Destroy([s EXCEPT !.req[i].result = "RESULT_OUT_OF_RESOURCES"], p, refs)
  ELSE [InsertResource(s, p, refs) EXCEPT !.req[i].resource = TRUE]

\* The result of the type's CreateFunction, and a PostCreate callback for it.
RecordCreated(s, i, p, created) ==
  [s EXCEPT !.req[i].result = IF created.ok THEN OK ELSE "RESULT_FORMAT_ERROR",
            !.req[i].buffer = FALSE,
            !.post = IF created.ok /\ HasPostCreate(p)
                     THEN Append(@, Callback(p, created.refs)) ELSE @]

InsertIfCreated(s, i, p, created) ==
  IF created.ok /\ s.abort = "none" THEN InsertOrDestroy(s, i, p, created.refs) ELSE s

AfterCreateFunction(s, i, p, created) ==
  InsertIfCreated(
    RemoveChildren(RemoveFromParentPendingCount(RecordCreated(s, i, p, created), i), i),
    i, p, created)

\* inPlace: the buffer is the load queue's, not one the request keeps.
MayCreate(r, inPlace) == r.result = PENDING /\ r.pending = 0 /\ (inPlace \/ r.buffer)

CreateResource(s, i, inPlace) ==
  IF ~MayCreate(s.req[i], inPlace) THEN Require(s, FALSE, "CreateResource")
  ELSE LET created == CreateFunction(Factory(s), PathOf(s.req[i]), <<>>)
       IN  AfterCreateFunction(WithFactory(s, created.f), i, PathOf(s.req[i]), created)

PrunesEarly(s, i) == s.req[i].parent # None

\* The parent of i is created if i was the last child it waited for.
Prunes(s, i) == s.req[i].parent # None /\ s.req[s.req[i].parent].pending = 0

CreateBuffered(s, i) == [s |-> UnmarkPathInProgress(CreateResource(s, i, FALSE), i), i |-> i]
Climb(r) ==
  IF r.s.abort = "none" /\ Prunes(r.s, r.i) THEN CreateBuffered(r.s, r.s.req[r.i].parent) ELSE r

\* Every round resolves one more request.
PreloaderTryPruneParent(s, i) ==
  LET after[n \in 0 .. MAX_PRELOADER_REQUESTS] ==
        IF n = 0 THEN [s |-> s, i |-> i] ELSE Climb(after[n - 1])
  IN  after[MAX_PRELOADER_REQUESTS].s

-----------------------------------------------------------------------------
(* NewPreloader: the first name is the root, the others are its children.  *)

RootOnly(name) ==
  LET root == [NewRequest(name) EXCEPT
                 !.result = IF name \in Malformed THEN "RESULT_INVALID_DATA" ELSE PENDING]
  IN  [req |-> [i \in Nodes |-> IF i = 0 THEN root ELSE NewRequest(name)],
       free |-> [k \in 1 .. (MAX_PRELOADER_REQUESTS - 1) |-> MAX_PRELOADER_REQUESTS - k],
       inProgress |-> {}, persisted |-> <<>>, post |-> <<>>,
       res |-> [p \in Paths |-> Unloaded], abort |-> "none"]

PreloadHintInternal(s, parent, name) ==
  IF name \in Malformed THEN s ELSE PreloadPathDescriptor(s, parent, name)

NewPreloader(names) ==
  LET after[n \in 0 .. (Len(names) - 1)] ==
        IF n = 0 THEN RootOnly(names[1]) ELSE PreloadHintInternal(after[n - 1], 0, names[n + 1])
  IN  after[Len(names) - 1]

Init ==
  /\ world \in Worlds
  /\ LET s == NewPreloader(world.names)
     IN  /\ req = s.req
         /\ freelist = s.free
         /\ inProgress = s.inProgress /\ persisted = s.persisted /\ post = s.post
         /\ res = s.res /\ abort = s.abort
         /\ persistCount = MAX_PRELOADER_REQUESTS - Len(s.free)
  /\ newHints = <<>> /\ queueFull = FALSE /\ createComplete = FALSE
  /\ external = {}
  /\ Queue!AbsInit /\ hinted = 0
  /\ pc = "update" /\ stack = <<>> /\ phase = "running"

-----------------------------------------------------------------------------
(* The walk.  Returning TRUE ends it; returning FALSE goes on to the next  *)
(* sibling, read from the node after the visit, or up.                     *)

\* The deepest level with a next sibling moves on to it, the ones below it return.
Advance(s, levels) ==
  LET more == {l \in DOMAIN levels : s.req[levels[l]].next # None}
      deepest == CHOOSE l \in more : \A m \in more : m <= l
  IN  IF more = {} THEN <<>>
      ELSE Append(SubSeq(levels, 1, deepest - 1), s.req[levels[deepest]].next)

ReturnTrue == stack' = <<>> /\ pc' = "update"
ReturnFalse(s) ==
  /\ stack' = Advance(s, stack)
  /\ pc' = IF stack' = <<>> THEN "hints" ELSE "walk"
Return(b, s) == IF b THEN ReturnTrue ELSE ReturnFalse(s)

\* The visit of the current node resolves it, which leaves the tree s; its
\* parents are created as far as they wait for nothing else.
ReturnPruned(created, s) == Becomes(s) /\ Return(created, s)
ResolveNode(s) == ReturnPruned(Prunes(s, Last(stack)), PreloaderTryPruneParent(s, Last(stack)))

Node == Last(stack)
Visiting(state) == pc = "walk" /\ abort = "none" /\ req[Node].result = state

NotBuffered == ~req[Node].buffer /\ Fate(PathOf(req[Node])) # "untyped"

\* A load must finish, and then the children, before anything else is tried.
NotLoading == ~req[Node].loading /\ ~req[Node].buffer /\ Fate(PathOf(req[Node])) # "untyped"
unchangedByVisit == <<phase, createComplete, persistCount, external>>

VisitResolved ==
  /\ pc = "walk" /\ req[Node].result \notin {PENDING, LOOP}
  /\ ReturnFalse(Tree)
  /\ UNCHANGED <<treeVars, workerVars, queueFull, unchangedByVisit>>

VisitLoop ==
  /\ Visiting(LOOP)
  /\ ResolveNode(Tree)
  /\ UNCHANGED <<workerVars, queueFull, unchangedByVisit>>

VisitUnknownType ==
  /\ Visiting(PENDING) /\ Fate(PathOf(req[Node])) = "untyped"
  /\ ResolveNode(RemoveFromParentPendingCount(
       [Tree EXCEPT !.req[Node].result = "RESULT_UNKNOWN_RESOURCE_TYPE"], Node))
  /\ UNCHANGED <<workerVars, queueFull, unchangedByVisit>>

\* The place in the load queue of the request a node has begun.
LoadOf(i) == CHOOSE k \in DOMAIN requests :
               requests[k].name = i /\ requests[k].status # "freed"

VisitPendingLoad ==
  /\ Visiting(PENDING) /\ req[Node].loading
  /\ requests[LoadOf(Node)].status = "begun"
  /\ ReturnFalse(Tree)
  /\ UNCHANGED <<treeVars, workerVars, queueFull, unchangedByVisit>>

LoadFailedNotPreload(answer) == answer = "RESULT_RESOURCE_NOT_FOUND"

\* The load failed, or the preload function did.
LoadFailed(answer) == answer # OK

\* On error all children are removed.
RecordLoad(s, i, answer) ==
  IF ~LoadFailed(answer) THEN s
  ELSE RemoveFromParentPendingCount(
         RemoveChildren([s EXCEPT !.req[i].result = answer], i), i)

\* Without children the resource is created at once, from the queue's buffer.
CreatesInPlace(s, i) == s.req[i].result = PENDING /\ s.req[i].first = None

FreeLoad(s, i) == [s EXCEPT !.req[i].loading = FALSE]

AfterRecordLoad(s, i) ==
  IF s.req[i].first = None
  THEN PreloaderTryPruneParent(
         FreeLoad(UnmarkPathInProgress(
           IF CreatesInPlace(s, i) THEN CreateResource(s, i, TRUE) ELSE s, i), i), i)
  ELSE FreeLoad([s EXCEPT !.req[i].buffer = TRUE], i)

FinishLoad(s, i) == ReturnPruned(CreatesInPlace(s, i), AfterRecordLoad(s, i))

\* A load that has ended makes room in the queue.
ResetQueueFull == queueFull' = FALSE

VisitFinishedLoad ==
  /\ Visiting(PENDING) /\ req[Node].loading
  /\ requests[LoadOf(Node)].status = "answered"
  /\ FinishLoad(RecordLoad(PopHints(Tree, newHints), Node, requests[LoadOf(Node)].answer), Node)
  /\ Queue!Free(LoadOf(Node))
  /\ newHints' = <<>>
  /\ ResetQueueFull
  /\ UNCHANGED <<hinted, unchangedByVisit>>

VisitChildren ==
  /\ Visiting(PENDING) /\ req[Node].buffer
  /\ stack' = Append(stack, req[Node].first)
  /\ UNCHANGED <<pc, treeVars, workerVars, queueFull, unchangedByVisit>>

Found(s, i) == [IncRef(s, PathOf(s.req[i])) EXCEPT !.req[i].resource = TRUE, !.req[i].result = OK]

VisitAlreadyLoaded ==
  /\ Visiting(PENDING) /\ NotLoading /\ Loaded(Tree, PathOf(req[Node]))
  /\ ResolveNode(RemoveFromParentPendingCount(RemoveChildren(Found(Tree, Node), Node), Node))
  /\ UNCHANGED <<workerVars, queueFull, unchangedByVisit>>

\* A different item is loading the same resource, or the load queue was full.
MustWait == queueFull \/ PathOf(req[Node]) \in inProgress
Waits == NotLoading /\ ~Loaded(Tree, PathOf(req[Node]))

VisitWait ==
  /\ Visiting(PENDING) /\ Waits /\ MustWait
  /\ ReturnFalse(Tree)
  /\ UNCHANGED <<treeVars, workerVars, queueFull, unchangedByVisit>>

VisitBeginLoad ==
  /\ Visiting(PENDING) /\ Waits /\ ~MustWait
  /\ Queue!Begin(Node)
  /\ Becomes(MarkPathInProgress([Tree EXCEPT !.req[Node].loading = TRUE], Node))
  /\ ReturnTrue
  /\ UNCHANGED <<hinted, newHints, queueFull, unchangedByVisit>>

VisitRefused ==
  /\ Visiting(PENDING) /\ Waits /\ ~MustWait
  /\ Len(requests) = QUEUE_SLOTS
  /\ queueFull' = TRUE
  /\ ReturnFalse(Tree)
  /\ UNCHANGED <<treeVars, workerVars, unchangedByVisit>>

Visit ==
  \/ VisitResolved \/ VisitLoop \/ VisitUnknownType \/ VisitPendingLoad
  \/ VisitFinishedLoad \/ VisitChildren \/ VisitAlreadyLoaded \/ VisitWait
  \/ VisitBeginLoad \/ VisitRefused

-----------------------------------------------------------------------------
(* UpdatePreloader.  "update" is the head of its loop, and also where it   *)
(* is between two calls: its time limit may end a call after any turn.     *)

AtLoopHead == pc = "update" /\ abort = "none" /\ phase # "deleted"
Resolved == req[0].result # PENDING

\* The tree is walked when no PostCreate is queued, or the first one pends.
StartWalk ==
  /\ AtLoopHead /\ ~Resolved
  /\ pc' = "walk" /\ stack' = <<0>>
  /\ UNCHANGED <<treeVars, workerVars, queueFull, unchangedByVisit>>

PopHintsAfterWalk ==
  /\ pc = "hints" /\ abort = "none"
  /\ Becomes(PopHints(Tree, newHints))
  /\ newHints' = <<>> /\ pc' = "update"
  /\ UNCHANGED <<stack, requests, open, hinted, queueFull, unchangedByVisit>>

\* mutant: not for a preloader that is being deleted
PostCreateDueUnlessDeleting == AtLoopHead /\ post # <<>> /\ phase = "running"

PostCreateDue == AtLoopHead /\ post # <<>>

PostCreateResult(path) == IF PostCreateFails(path) THEN "RESULT_FORMAT_ERROR" ELSE OK

\* The result of PostCreate counts once the root is created.
PostCreateUpdateOneItem ==
  /\ PostCreateDue
  /\ Becomes(ReleaseAll([Tree EXCEPT !.post = Tail(@),
                                     !.req[0].result = IF @ = OK THEN PostCreateResult(Head(post).path)
                                                        ELSE @],
                        IF Head(post).destroy THEN Head(post).refs ELSE <<>>))
  /\ UNCHANGED <<loopVars, workerVars, external>>

\* complete_callback, which DeletePreloader does not pass.
CompleteCallback(succeeds) ==
  /\ AtLoopHead /\ Resolved /\ ~createComplete
  /\ createComplete' = TRUE
  /\ req' = [req EXCEPT ![0].result =
               IF @ = OK /\ phase = "running" /\ ~succeeds THEN "RESULT_NOT_LOADED" ELSE @]
  /\ UNCHANGED <<world, freelist, inProgress, persisted, post, res, abort, pc, stack, phase,
                 queueFull, persistCount, workerVars, external>>

\* The root is resolved and a PostCreate pends.
AwaitPostCreate ==
  /\ AtLoopHead /\ Resolved /\ createComplete /\ post # <<>>
  /\ pc' = "hints"
  /\ UNCHANGED <<stack, treeVars, workerVars, queueFull, unchangedByVisit>>

AllDoneButPostCreate == AtLoopHead /\ Resolved /\ createComplete

\* UpdatePreloader returns the root's result.
AllDone == AtLoopHead /\ Resolved /\ createComplete /\ post = <<>>

\* DeletePreloader calls UpdatePreloader until it is done.
DeletePreloader ==
  /\ AtLoopHead /\ phase = "running"
  /\ phase' = "deleting"
  /\ UNCHANGED <<treeVars, pc, stack, createComplete, queueFull, persistCount, workerVars,
                 external>>

ReleaseRootAndPersisted ==
  /\ AllDone /\ phase = "deleting"
  /\ Becomes(Require(ReleaseAll([Tree EXCEPT !.persisted = <<>>, !.req[0].resource = FALSE],
                                IF req[0].resource THEN Append(persisted, PathOf(req[0]))
                                ELSE persisted),
                     Len(freelist) = MAX_PRELOADER_REQUESTS - 1, "DeletePreloader"))
  /\ Queue!Close
  /\ phase' = "deleted"
  /\ UNCHANGED <<pc, stack, createComplete, queueFull, persistCount, hinted, newHints,
                 external>>

-----------------------------------------------------------------------------
(* The load queue's worker: it loads the oldest request and runs its       *)
(* type's preload function, whose hints are children of that request.      *)

Loading(k) == open /\ requests[k].status = "begun"
              /\ \A j \in 1 .. (k - 1) : requests[j].status # "begun"
PathOfLoad(k) == PathOf(req[requests[k].name])

PreloadHint(k) ==
  /\ Loading(k) /\ Fate(PathOfLoad(k)) # "missing"
  /\ hinted < Len(Refs(PathOfLoad(k)))
  /\ LET name == Refs(PathOfLoad(k))[hinted + 1]
     IN  newHints' = IF name \in Malformed THEN newHints
                     ELSE Append(newHints, [parent |-> requests[k].name, name |-> name])
  /\ hinted' = hinted + 1
  /\ UNCHANGED <<treeVars, loopVars, requests, open, external>>

\* A preload function may fail after any number of hints.
AnswerOf(path, hints) ==
  CASE Fate(path) = "missing" -> {"RESULT_RESOURCE_NOT_FOUND"}
    [] Fate(path) = "preload_error" -> {"RESULT_FORMAT_ERROR"}
    [] OTHER -> IF hints = Len(Refs(path)) THEN {OK} ELSE {}

WorkerAnswer(k) ==
  /\ Loading(k)
  /\ \E a \in AnswerOf(PathOfLoad(k), hinted) : Queue!Answer(k, a)
  /\ hinted' = 0
  /\ UNCHANGED <<treeVars, loopVars, newHints, external>>

-----------------------------------------------------------------------------
(* Other users of the factory, on the main thread between two updates.     *)

BetweenUpdates == pc = "update" /\ abort = "none" /\ phase # "deleting"

Gotten(got, name) ==
  Becomes(WithFactory(Tree, got.f)) /\ external' = IF got.ok THEN external \cup {name} ELSE external

ExternalGet(name) ==
  /\ BetweenUpdates /\ name \notin external
  /\ \A p \in Paths : Len(res[p].lost) < MaxLost
  /\ Gotten(Get(Factory(Tree), name, <<>>), name)
  /\ UNCHANGED <<loopVars, workerVars>>

ExternalRelease(name) ==
  /\ BetweenUpdates /\ name \in external
  /\ Becomes(ReleaseAll(Tree, <<CanonicalPath[name]>>))
  /\ external' = external \ {name}
  /\ UNCHANGED <<loopVars, workerVars>>

Main ==
  \/ StartWalk \/ Visit \/ PopHintsAfterWalk \/ AwaitPostCreate
  \/ \E b \in BOOLEAN : CompleteCallback(b)
  \/ ReleaseRootAndPersisted
PostCreate == PostCreateUpdateOneItem
Worker == \E k \in DOMAIN requests : PreloadHint(k) \/ WorkerAnswer(k)
External == \E name \in ExternalNames : ExternalGet(name) \/ ExternalRelease(name)

\* A preloader that is done, or deleted, may stay that way.
Rest == (AllDone \/ phase = "deleted") /\ phase # "deleting" /\ UNCHANGED vars

Next == Main \/ PostCreate \/ DeletePreloader \/ Worker \/ External \/ Rest

Spec == Init /\ [][Next]_vars

(***************************************************************************)
(* The client keeps calling UpdatePreloader (weak fairness of Main), the   *)
(* operating system runs the worker, and a PostCreate function that pends  *)
(* is called again until it does not (strong fairness of PostCreate); the  *)
(* states in which Main and PostCreate are enabled are spelt out.          *)
(***************************************************************************)
MainEnabled == abort = "none" /\ phase # "deleted" /\ ~(AllDone /\ phase = "running")

Fairness ==
  /\ []<>(~MainEnabled) \/ []<><<Main>>_vars
  /\ WF_vars(Worker)
  /\ <>[](~PostCreateDue) \/ []<><<PostCreate>>_vars

FairSpec == Spec /\ Fairness

-----------------------------------------------------------------------------
(* Properties.                                                             *)

\* The nodes of the tree: what is reached from the root.
LiveNodes == Reach(Nodes, {0}, [j \in Nodes |-> {req[j].first, req[j].next} \ {None}])
ChildrenOf(i) == Children(Tree, i)
LoadingNodes == {i \in LiveNodes : req[i].loading}
Outstanding == {k \in DOMAIN requests : requests[k].status # "freed"}

NodeResults == Results \cup {PENDING, LOOP, "RESULT_OUT_OF_RESOURCES", "RESULT_INVALID_DATA",
                             "RESULT_UNKNOWN_RESOURCE_TYPE", "RESULT_NOT_LOADED"}

\* Every variable of the preloader keeps its type.
TypeOK ==
  /\ req \in [Nodes -> [name : Names, parent : Nodes \cup {None}, first : Nodes \cup {None},
                        next : Nodes \cup {None}, pending : Nodes, loading : BOOLEAN,
                        buffer : BOOLEAN, result : NodeResults, resource : BOOLEAN]]
  /\ freelist \in Seq(Nodes \ {0}) /\ inProgress \subseteq Paths
  /\ persisted \in Seq(Paths) /\ Len(persisted) < Len(world.names)
  /\ persistCount \in 1 .. Len(world.names)
  /\ res \in [Paths -> Resources]
  /\ external \subseteq Names /\ hinted \in Nat /\ stack \in Seq(Nodes)
  /\ pc \in {"update", "walk", "hints"} /\ phase \in {"running", "deleting", "deleted"}
  /\ createComplete \in BOOLEAN /\ queueFull \in BOOLEAN /\ open \in BOOLEAN

\* None of the preloader's and the factory's asserts ever fails.
NoAssertFails == abort = "none"

\* The state is well typed, every request is either in the tree, once, or on the
\* free list, once, and m_PendingChildCount counts the unresolved children: too
\* high and the parent waits for ever, too low and it is created before them.
TreeIsSound ==
  /\ TypeOK
  /\ LiveNodes \cap ToSet(freelist) = {}
  /\ Cardinality(LiveNodes) + Len(freelist) = MAX_PRELOADER_REQUESTS
  /\ \A i \in LiveNodes :
       /\ \A k \in ChildrenOf(i) : req[k].parent = i
       /\ req[i].pending = Cardinality({k \in ChildrenOf(i) : req[k].result = PENDING})

\* m_InProgress holds exactly the paths of the requests between BeginLoad and
\* CreateResource, and no path is loaded by two requests at a time.
OneLoadPerPath ==
  LET busy == {i \in LiveNodes : req[i].loading \/ req[i].buffer}
  IN  /\ inProgress = {PathOf(req[i]) : i \in busy}
      /\ Cardinality(inProgress) = Cardinality(busy)

\* A load in the queue and a hint on the way belong to a request that is still
\* in the tree and loading: no request is removed, and its index used again,
\* while the worker may still name it.  No two of them load one path.
WorkerNamesLiveRequests ==
  /\ OneLoadPerPath
  /\ {requests[k].name : k \in Outstanding} = LoadingNodes
  /\ Cardinality(Outstanding) = Cardinality(LoadingNodes)
  /\ \A k \in DOMAIN newHints : newHints[k].parent \in LoadingNodes

\* The references to p that instances hold that are about to be destroyed.
DoomedHoldersOf(callbacks, p) ==
  UNION {{k} \X PlacesOf(p, callbacks[k].refs) : k \in {k \in DOMAIN callbacks : callbacks[k].destroy}}

\* The references the preloader, other users and resources hold to a path.
ReferencesTo(p) ==
  Cardinality({n \in external : CanonicalPath[n] = p})
  + Cardinality({i \in LiveNodes : req[i].resource /\ PathOf(req[i]) = p})
  + Times(p, persisted)
  + Cardinality(HoldersOf(res, p))
  + Cardinality(DoomedHoldersOf(post, p))

\* Every reference count is the number of references that are held, also when a
\* resource is loaded twice at the same time and the second instance is thrown
\* away: none is destroyed under a user, and what outlives its users is held by
\* an instance that DoCreateResource abandoned because its PostCreate failed.
ReferenceCountsExact ==
  \A p \in Paths :
    /\ res[p].count = ReferencesTo(p)
    /\ res[p].lost # <<>> => PostCreateFails(p)

\* The table has room for everything.
Roomy == world.capacity >= Cardinality(Paths)

\* A resource above "path" cannot be loaded.
FailsAbove(path) ==
  \E n \in Names \ Malformed : /\ CanonicalPath[n] # path /\ ~Loadable(n)
                               /\ path \in Closure({CanonicalPath[n]})

\* A resource is destroyed under its queued PostCreate call in one case only: one
\* above it cannot be loaded.  CreateResource releases the children also of a parent
\* that failed.  Neither other users nor DeletePreloader bring it about.
PostCreateOnLiveResource ==
  Roomy => \A k \in DOMAIN post : post[k].dead => FailsAbove(post[k].path)

\* Preloading the first name ends as getting it would on a factory without
\* resources, however the loads interleave and also when there is no request left
\* for a child.  Only a PostCreate function that fails makes a difference: Get
\* fails with it, and the preloader, which calls it later, creates the parent.
NewFactory == [res |-> [p \in Paths |-> Unloaded], post |-> <<>>, abort |-> "none"]
AgreesWithGet ==
  Resolved /\ phase # "deleted" /\ Roomy =>
    /\ Get(NewFactory, world.names[1], <<>>).ok => req[0].resource
    /\ req[0].resource => Creatable(world.names[1])
    /\ Loadable(world.names[1]) <=> Get(NewFactory, world.names[1], <<>>).ok

\* When the first name is loaded, so is every other name that can be.
AllNamesLoaded ==
  req[0].result = OK /\ phase # "deleted" /\ Roomy =>
    \A n \in ToSet(world.names) : Loadable(n) => Loaded(Tree, CanonicalPath[n])

\* UpdatePreloader ends with a result.
PreloaderFinishes == <>Resolved

\* DeletePreloader returns.
DeletePreloaderReturns == phase = "deleting" ~> phase = "deleted"

=============================================================================
