------------------------------- MODULE Timers -------------------------------
(***************************************************************************)
(* The timers of a script world (engine/script/src/script_timer.cpp).      *)
(* They lie in an array without holes that UpdateTimers walks; erasing one *)
(* moves the last one into its place.  A handle is a version and an index  *)
(* into a table of positions; the version of the world changes when        *)
(* indices are given back.  A callback may add, cancel, kill and trigger   *)
(* timers while the walk is under way, and nothing is erased before the    *)
(* walk is over.                                                           *)
(*                                                                         *)
(* Time is an integer: the model does not show rounding.  Positions count  *)
(* from 1.  Each timer carries an identity that the code does not have.    *)
(***************************************************************************)
EXTENDS Integers, Sequences, FiniteSets

CONSTANTS Owners,
          INITIAL_TIMER_CAPACITY, TIMER_CAPACITY_GROWTH, MAX_TIMER_CAPACITY,
          VersionRange,  \* 2^16, the range of m_Version
          Delays, Steps, \* delays of timers, and time steps of updates
          MaxTimers      \* bound on the timers ever added

ASSUME TimersAssumption ==
  /\ INITIAL_TIMER_CAPACITY \in Nat \ {0} /\ TIMER_CAPACITY_GROWTH \in Nat \ {0}
  /\ MAX_TIMER_CAPACITY \in Nat /\ MAX_TIMER_CAPACITY >= INITIAL_TIMER_CAPACITY
  /\ VersionRange \in Nat \ {0} /\ MaxTimers \in Nat
  /\ Delays \subseteq Nat /\ Steps \subseteq Nat

VARIABLES timers,  \* m_Timers
          lookup,  \* m_IndexLookup, with the capacity of the index pool
          pool,    \* m_IndexPool: the indices left, next one first
          version, \* m_Version
          pc,      \* "idle", or where UpdateTimers is: "walk", "callback" or "sweep"
          walk,    \* its i, its size on entry and dt
          given    \* the handle each timer got

worldVars == <<timers, lookup, pool>>
vars == <<worldVars, version, pc, walk, given>>

Ids == 1 .. MaxTimers
NoWalk == [i |-> 0, size |-> 0, dt |-> 0]
InUpdate == pc \in {"walk", "callback"} \* m_InUpdate

Smaller(a, b) == IF a < b THEN a ELSE b

\* dmIndexPool::SetCapacity, and the table filled with the first position.
Grown(from, to) == [k \in 1 .. to - from |-> from + k]
Zeros(n) == [k \in 1 .. n |-> 1]

Init == \* NewTimerWorld
  /\ timers = <<>> /\ lookup = Zeros(INITIAL_TIMER_CAPACITY)
  /\ pool = Grown(0, INITIAL_TIMER_CAPACITY)
  /\ version = 0 /\ pc = "idle" /\ walk = NoWalk /\ given = <<>>

-----------------------------------------------------------------------------
(* The array and the table.  A world is a record of both.                  *)

IdsOf(positions) == {timers[p].id : p \in positions}
World == [timers |-> timers, lookup |-> lookup, pool |-> pool]

\* mutant: the table is not told of the timer that moved
EraseTimerUnmoved(w, p) ==
  [w EXCEPT !.timers = [q \in 1 .. Len(w.timers) - 1 |->
                          w.timers[IF q = p THEN Len(w.timers) ELSE q]]]

\* EraseTimer: the last timer takes the place of the one at p.
EraseTimer(w, p) ==
  LET last == Len(w.timers)
      moved == w.timers[last]
  IN [w EXCEPT !.timers = [q \in 1 .. last - 1 |-> IF q = p THEN moved ELSE w.timers[q]],
               !.lookup = IF p < last THEN [@ EXCEPT ![moved.handle.index] = p] ELSE @]

FreeTimer(w, timer) ==
  EraseTimer([w EXCEPT !.pool = <<timer.handle.index>> \o @], w.lookup[timer.handle.index])

\* One round of the loops that free timers: position i is freed, or passed.
SweepRound(w, i, dead) ==
  IF w.timers[i].id \in dead THEN [world |-> FreeTimer(w, w.timers[i]), i |-> i]
                             ELSE [world |-> w, i |-> i + 1]

\* The world after the whole loop, which has as many rounds as there were timers.
Sweep(w, dead) ==
  LET after[n \in 0 .. Len(w.timers)] ==
        IF n = 0 THEN [world |-> w, i |-> 1]
        ELSE SweepRound(after[n - 1].world, after[n - 1].i, dead)
  IN after[Len(w.timers)].world

SetWorld(w) == timers' = w.timers /\ lookup' = w.lookup /\ pool' = w.pool
NextVersion == version' = (version + 1) % VersionRange

-----------------------------------------------------------------------------
(* What a script calls, between updates or in a callback.                  *)

Script == pc \in {"idle", "callback"}

Capacity == Len(lookup)
GrownCapacity == Smaller(Capacity + TIMER_CAPACITY_GROWTH, MAX_TIMER_CAPACITY)

\* AllocateTimer's pool and table, grown if no index is left.
PoolBefore == IF pool = <<>> THEN Grown(Capacity, GrownCapacity) ELSE pool
LookupBefore == IF pool = <<>> THEN lookup \o Zeros(GrownCapacity - Capacity) ELSE lookup

AddTimer(owner, delay, repeat) ==
  /\ Script /\ Len(given) < MaxTimers
  /\ Len(timers) # MAX_TIMER_CAPACITY
  /\ LET handle == [version |-> version, index |-> Head(PoolBefore)]
     IN /\ timers' = Append(timers, [id |-> Len(given) + 1, handle |-> handle, owner |-> owner,
                                     delay |-> delay, remaining |-> delay,
                                     repeat |-> repeat, alive |-> TRUE, valid |-> TRUE])
        /\ lookup' = [LookupBefore EXCEPT ![handle.index] = Len(timers) + 1]
        /\ given' = Append(given, handle)
  /\ pool' = Tail(PoolBefore)
  /\ UNCHANGED <<version, pc, walk>>

\* CancelTimer's search: the position a handle leads to, and whether it is taken.
InTable(h) == h.index <= Capacity /\ lookup[h.index] <= Len(timers)
At(h) == timers[lookup[h.index]]
CancelFinds(h) == InTable(h) /\ At(h).handle = h /\ At(h).alive

\* The Lua callback is told, and destroyed.  Outside of an update the timer is freed.
CancelTimer(x) ==
  /\ Script /\ x \in DOMAIN given /\ CancelFinds(given[x])
  /\ LET p == lookup[given[x].index]
         cancelled == [World EXCEPT !.timers[p].alive = FALSE, !.timers[p].valid = FALSE]
     IN IF InUpdate
        THEN SetWorld(cancelled) /\ UNCHANGED version
        ELSE SetWorld(FreeTimer(cancelled, cancelled.timers[p])) /\ NextVersion
  /\ UNCHANGED <<pc, walk, given>>

\* KillTimers; the version changes if any timer was alive.
Killed(owner) == {p \in DOMAIN timers : timers[p].owner = owner /\ timers[p].alive}
KillTimers(owner) ==
  /\ Script
  /\ LET killed == [World EXCEPT !.timers = [q \in DOMAIN timers |->
                      [timers[q] EXCEPT !.alive = @ /\ timers[q].owner # owner]]]
     IN SetWorld(IF InUpdate THEN killed
                 ELSE Sweep(killed, IdsOf({q \in DOMAIN timers : timers[q].owner = owner})))
  /\ IF Killed(owner) # {} THEN NextVersion ELSE UNCHANGED version
  /\ UNCHANGED <<pc, walk, given>>

-----------------------------------------------------------------------------
(* UpdateTimers.                                                           *)

UpdateTimers(dt) ==
  /\ pc = "idle"
  /\ pc' = "walk" /\ walk' = [i |-> 1, size |-> Len(timers), dt |-> dt]
  /\ UNCHANGED <<worldVars, version, given>>

Here == timers[walk.i]
WalkingOn == pc = "walk" /\ walk.i <= Len(timers) \* mutant: to the current size
Walking == pc = "walk" /\ walk.i <= walk.size
Left == Here.remaining - walk.dt

\* A timer that is not alive, or whose time is not up.
PassTimer ==
  /\ Walking /\ (~Here.alive \/ Left > 0)
  /\ timers' = [timers EXCEPT ![walk.i].remaining = IF Here.alive THEN Left ELSE @]
  /\ walk' = [walk EXCEPT !.i = @ + 1]
  /\ UNCHANGED <<lookup, pool, version, pc, given>>

CallTimer ==
  /\ Walking /\ Here.alive /\ Left <= 0
  /\ timers' = [timers EXCEPT ![walk.i].remaining = Left]
  /\ pc' = "callback"
  /\ UNCHANGED <<lookup, pool, version, walk, given>>

WrappedOnce(t) == t.remaining + t.delay \* mutant: one period is added
\* The time to the next call of a timer that repeats.
Wrapped(t) == IF t.delay = 0 THEN 0
              ELSE t.remaining + (((-t.remaining) \div t.delay) + 1) * t.delay

\* The callback returns: the timer may have been cancelled or killed in it.  That of a
\* timer that does not repeat is destroyed.
Called(t) == IF ~t.alive THEN [t EXCEPT !.valid = @ /\ t.repeat]
             ELSE IF t.repeat THEN [t EXCEPT !.remaining = Wrapped(t)]
             ELSE [t EXCEPT !.alive = FALSE, !.valid = FALSE]
CallbackReturns ==
  /\ pc = "callback"
  /\ timers' = [timers EXCEPT ![walk.i] = Called(@)]
  /\ pc' = "walk" /\ walk' = [walk EXCEPT !.i = @ + 1]
  /\ UNCHANGED <<lookup, pool, version, given>>

\* The walk is over: what is not alive is freed, one timer after the other.
EndWalk ==
  /\ pc = "walk" /\ walk.i > walk.size
  /\ pc' = "sweep" /\ walk' = [walk EXCEPT !.i = 1, !.size = Len(timers)]
  /\ UNCHANGED <<worldVars, version, given>>

Dead == IdsOf({q \in DOMAIN timers : ~timers[q].alive})
SweepTimer ==
  /\ pc = "sweep" /\ walk.i <= Len(timers)
  /\ SetWorld(SweepRound(World, walk.i, Dead).world)
  /\ walk' = [walk EXCEPT !.i = SweepRound(World, walk.i, Dead).i]
  /\ UNCHANGED <<version, pc, given>>

\* mutant: the version is not changed
EndUpdateSameVersion ==
  /\ pc = "sweep" /\ walk.i > Len(timers)
  /\ pc' = "idle" /\ walk' = NoWalk
  /\ UNCHANGED <<worldVars, version, given>>

EndUpdate ==
  /\ pc = "sweep" /\ walk.i > Len(timers)
  /\ IF Len(timers) # walk.size THEN NextVersion ELSE UNCHANGED version
  /\ pc' = "idle" /\ walk' = NoWalk
  /\ UNCHANGED <<worldVars, given>>

Update == PassTimer \/ CallTimer \/ CallbackReturns \/ EndWalk \/ SweepTimer \/ EndUpdate

Next ==
  \/ \E o \in Owners, d \in Delays, r \in BOOLEAN : AddTimer(o, d, r)
  \/ \E x \in Ids : CancelTimer(x)
  \/ \E o \in Owners : KillTimers(o)
  \/ \E dt \in Steps : UpdateTimers(dt)
  \/ Update

Spec == Init /\ [][Next]_vars

-----------------------------------------------------------------------------
(* Properties.                                                             *)

Alive == {p \in DOMAIN timers : timers[p].alive}

\* The type invariant.
TypeOK ==
  /\ \A p \in DOMAIN timers :
       timers[p] \in [id : Ids, handle : [version : 0 .. VersionRange - 1, index : 1 .. Capacity],
                      owner : Owners, delay : Delays, remaining : Int, repeat : BOOLEAN,
                      alive : BOOLEAN, valid : BOOLEAN]
  /\ Len(timers) <= MAX_TIMER_CAPACITY /\ Capacity <= MAX_TIMER_CAPACITY
  /\ \A k \in 1 .. Capacity : lookup[k] \in 1 .. MAX_TIMER_CAPACITY
  /\ \A k \in DOMAIN pool : pool[k] \in 1 .. Capacity
  /\ version \in 0 .. VersionRange - 1
  /\ pc \in {"idle", "walk", "callback", "sweep"} /\ (InUpdate => walk.size <= Len(timers))

\* The state is well typed, and every index is in the pool or belongs to one timer in the array, and the table
\* leads from it to that timer's position, however often erasing has moved timers.
IndicesConsistent ==
  /\ TypeOK
  /\ \A p \in DOMAIN timers : lookup[timers[p].handle.index] = p
  /\ {timers[p].handle.index : p \in DOMAIN timers} \cap {pool[k] : k \in DOMAIN pool} = {}
  /\ Len(timers) + Len(pool) = Capacity
  /\ Cardinality({pool[k] : k \in DOMAIN pool}) = Len(pool)

\* "The caller to CancelTimer is allowed to call with an handle of a timer that
\* already has expired": every handle ever given leads CancelTimer to its own timer
\* as long as that is alive, and to none afterwards, as long as versions do not wrap.
HandleFindsItsTimer ==
  \A x \in DOMAIN given :
    /\ CancelFinds(given[x]) <=> \E p \in Alive : timers[p].id = x
    /\ CancelFinds(given[x]) => At(given[x]).id = x

\* Between updates no timer is overdue, none waits longer than its delay, and none
\* that is dead is left: the next call of a repeating timer is computed past any
\* number of periods a long step has skipped.
NeverOverdue ==
  pc = "idle" => \A p \in DOMAIN timers :
    /\ timers[p].alive
    /\ IF timers[p].delay = 0 THEN timers[p].remaining = 0
                              ELSE timers[p].remaining \in 1 .. timers[p].delay

\* The positions the walk has yet to come to.
ToCome == CASE pc = "walk" -> walk.i .. walk.size
            [] pc = "callback" -> walk.i + 1 .. walk.size
            [] OTHER -> {}

\* The timers that may be called, those the walk has yet to come to, and the one whose
\* callback runs.
Active == {[id |-> timers[p].id, owner |-> timers[p].owner, repeat |-> timers[p].repeat] :
             p \in Alive}
Due == {timers[p].id : p \in Alive \cap ToCome}
Calling == IF pc = "callback" THEN Here.id ELSE 0

\* The array, the table and the walk implement the promise.
Promise == INSTANCE TimersPromise WITH active <- Active, due <- Due, calling <- Calling

\* Timers that callbacks add are not called by the update in progress, no timer is
\* called twice by one update or after it was cancelled or its owner killed, and a
\* timer that does not repeat is called once.
RefinesPromise == Promise!Spec

=============================================================================
