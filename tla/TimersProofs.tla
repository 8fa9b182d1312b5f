---------------------------- MODULE TimersProofs ----------------------------
(***************************************************************************)
(* What holds of the timers of a script world for every capacity, growth,  *)
(* delay and step of time: the array, the index table and the pool stay    *)
(* consistent through every loop that erases timers; no timer is overdue   *)
(* between updates; and a handle never leads to another timer as long as   *)
(* versions do not wrap.  And the array, walked by an update while         *)
(* callbacks add, cancel and kill timers, implements the set of timers of  *)
(* TimersPromise.                                                          *)
(*                                                                         *)
(* The loop inside KillTimers is a recursive function.  Induction over its *)
(* rounds is by the least round for which the loop's invariant fails.      *)
(***************************************************************************)
EXTENDS Timers, SequenceTheorems, FunctionTheorems, FiniteSetTheorems, WellFoundedInduction, TLAPS

-----------------------------------------------------------------------------
(* The inductive invariant. *)

\* A handle.
HandleRecord == [version : 0 .. VersionRange - 1, index : 1 .. MAX_TIMER_CAPACITY]
\* A timer of the array.
TimerRecord == [id : Ids, handle : HandleRecord, owner : Owners, delay : Delays, remaining : Int,
                repeat : BOOLEAN, alive : BOOLEAN, valid : BOOLEAN]
\* A world: the array, the table and the pool.
WorldRecord == [timers : Seq(TimerRecord), lookup : Seq(1 .. MAX_TIMER_CAPACITY),
                pool : Seq(1 .. MAX_TIMER_CAPACITY)]

\* No element twice.
NoDup(s) == \A k, l \in 1 .. Len(s) : s[k] = s[l] => k = l

\* The table leads from the index of every timer to its position; the indices of the
\* pool are the others.
Indexed(w) ==
  /\ Len(w.lookup) <= MAX_TIMER_CAPACITY
  /\ Len(w.timers) + Len(w.pool) = Len(w.lookup)
  /\ \A p \in 1 .. Len(w.timers) : /\ w.timers[p].handle.index <= Len(w.lookup)
                                   /\ w.lookup[w.timers[p].handle.index] = p
  /\ NoDup(w.pool)
  /\ \A k \in 1 .. Len(w.pool) : w.pool[k] <= Len(w.lookup)
  /\ \A p \in 1 .. Len(w.timers), k \in 1 .. Len(w.pool) : w.pool[k] # w.timers[p].handle.index

\* No timer twice.
DistinctIds(w) == \A p, q \in 1 .. Len(w.timers) : w.timers[p].id = w.timers[q].id => p = q

\* The type of every variable.
Typed ==
  /\ World \in WorldRecord
  /\ version \in 0 .. VersionRange - 1
  /\ pc \in {"idle", "walk", "callback", "sweep"}
  /\ walk \in [i : Nat, size : Nat, dt : Nat]
  /\ given \in Seq(HandleRecord) /\ Len(given) <= MaxTimers

\* A timer has the handle that was given out for it.
GivenInv == \A p \in 1 .. Len(timers) : /\ timers[p].id <= Len(given)
                                        /\ timers[p].handle = given[timers[p].id]

\* The walk stays in the part of the array that was there when it began, the sweep in
\* what is left of it.
WalkInv ==
  /\ InUpdate => walk.size <= Len(timers) /\ walk.i >= 1 /\ walk.i <= walk.size + 1
  /\ pc = "callback" => walk.i <= walk.size
  /\ pc = "sweep" => walk.i >= 1 /\ walk.i <= Len(timers) + 1 /\ Len(timers) <= walk.size

\* The time left is neither over nor more than the delay.
InTime(t) == IF t.delay = 0 THEN t.remaining = 0 ELSE t.remaining \in 1 .. t.delay

\* Every timer that is alive is in time, but for the one whose callback runs; the dead
\* are gone when the sweep has passed.
TimeInv ==
  /\ \A p \in 1 .. Len(timers) : timers[p].alive =>
       IF pc = "callback" /\ p = walk.i THEN timers[p].remaining <= 0 ELSE InTime(timers[p])
  /\ pc = "idle" => \A p \in 1 .. Len(timers) : timers[p].alive
  /\ pc = "sweep" => \A p \in 1 .. Len(timers) : p < walk.i => timers[p].alive

\* The inductive invariant.
IndInv == Typed /\ Indexed(World) /\ DistinctIds(World) /\ GivenInv /\ WalkInv /\ TimeInv

\* The timers in the array.
Present == {timers[p].id : p \in 1 .. Len(timers)}
\* The timers that are alive.
Living == {timers[p].id : p \in {q \in 1 .. Len(timers) : timers[q].alive}}
\* The sweep in progress has freed a timer.
HasFreed == IF pc = "sweep" /\ Len(timers) # walk.size THEN 1 ELSE 0
\* A timer is good for two changes of the version, one when it is killed and one when it
\* is freed.
BudgetInv == version + Cardinality(Present) + Cardinality(Living) + HasFreed <= 2 * Len(given)

\* While versions do not wrap: no handle ever given is newer than the world, an
\* index in the pool has left the handles it was part of behind, but for a sweep that has
\* not ended, and no handle was given twice.
HandleInv ==
  /\ \A x \in 1 .. Len(given) : given[x].version <= version /\ given[x].index <= Len(lookup)
  /\ \A x \in 1 .. Len(given), k \in 1 .. Len(pool) : given[x].index = pool[k] =>
       given[x].version < version \/ (pc = "sweep" /\ Len(timers) # walk.size)
  /\ NoDup(given)

-----------------------------------------------------------------------------
(* Induction over the rounds of a loop. *)

\* A set of numbers that is not empty has a least element.
LEMMA LeastNumber ==
  ASSUME NEW T, T \subseteq Nat, T # {}
  PROVE  \E x \in T : \A y \in T : x <= y
<1> DEFINE R == OpToRel(<, Nat)
<1>1. IsWellFoundedOn(R, Nat)
  BY NatLessThanWellFounded
<1>2. \A x, y \in Nat : ~(<<y, x>> \in R) => x <= y
  BY DEF OpToRel
<1> HIDE DEF R
<1>3. PICK x \in T : \A y \in T : ~ (<<y, x>> \in R)
  BY <1>1, WFMin
<1>4. x \in Nat /\ \A y \in T : y \in Nat
  OBVIOUS
<1> QED
  BY <1>2, <1>3, <1>4

\* Induction over the elements of a set of numbers.
LEMMA AllRounds ==
  ASSUME NEW L \in Nat, NEW S, 0 \in S,
         \A n \in 0 .. L : n \in S /\ n < L => n + 1 \in S
  PROVE  0 .. L \subseteq S
<1> SUFFICES ASSUME ~(0 .. L \subseteq S) PROVE FALSE
  OBVIOUS
<1> DEFINE T == {n \in 0 .. L : n \notin S}
<1>1. T \subseteq Nat /\ T # {}
  OBVIOUS
<1>2. PICK x \in T : \A y \in T : x <= y
  BY <1>1, LeastNumber
<1>3. x # 0 /\ x \in 1 .. L
  BY <1>2
<1>4. x - 1 \in 0 .. L /\ x - 1 < L /\ (x - 1) + 1 = x
  BY <1>3
<1>5. x - 1 \notin T
  BY <1>2, <1>3
<1> QED
  BY <1>2, <1>4, <1>5

\* The rounds of a sweep as a function: the definition by recursion has a solution.
LEMMA SweepRounds ==
  ASSUME NEW w, NEW dead, Len(w.timers) \in Nat
  PROVE  \E g : /\ g[0] = [world |-> w, i |-> 1]
                /\ \A n \in 1 .. Len(w.timers) :
                     g[n] = SweepRound(g[n - 1].world, g[n - 1].i, dead)
                /\ Sweep(w, dead) = g[Len(w.timers)].world
<1> DEFINE L == Len(w.timers)
           First == [world |-> w, i |-> 1]
           Round(x) == SweepRound(x.world, x.i, dead)
           after[n \in 0 .. Len(w.timers)] ==
             IF n = 0 THEN [world |-> w, i |-> 1]
             ELSE SweepRound(after[n - 1].world, after[n - 1].i, dead)
           Body(g, m) == [n \in 0 .. m |-> IF n = 0 THEN [world |-> w, i |-> 1]
                            ELSE SweepRound(g[n - 1].world, g[n - 1].i, dead)]
           S == {m \in 0 .. L : \E g : g = Body(g, m)}
<1>1. 0 \in S
  <2>1. [n \in 0 .. 0 |-> First] = Body([n \in 0 .. 0 |-> First], 0)
    OBVIOUS
  <2> HIDE DEF Body
  <2> QED
    BY <2>1
<1>2. ASSUME NEW m \in 0 .. L, m \in S, m < L PROVE m + 1 \in S
  <2>1. PICK g : g = Body(g, m)
    BY <1>2
  <2> DEFINE h == [n \in 0 .. m + 1 |-> IF n <= m THEN g[n] ELSE SweepRound(g[m].world, g[m].i, dead)]
  <2>2. h = Body(h, m + 1)
    <3>1. ASSUME NEW n \in 0 .. m + 1 PROVE h[n] = Body(h, m + 1)[n]
      <4>1. CASE n = 0
        BY <2>1, <4>1
      <4>2. CASE n \in 1 .. m
        <5>1. n - 1 \in 0 .. m /\ h[n - 1] = g[n - 1] /\ h[n] = g[n]
          BY <4>2
        <5> QED
          BY <2>1, <4>2, <5>1
      <4>3. CASE n = m + 1
        <5>1. h[n - 1] = g[m]
          BY <4>3
        <5> QED
          BY <4>3, <5>1
      <4> QED
        BY <4>1, <4>2, <4>3
    <3> QED
      BY <3>1
  <2> HIDE DEF Body, h
  <2>3. m + 1 \in 0 .. L /\ \E x : x = Body(x, m + 1)
    BY <1>2, <2>2
  <2> QED
    BY <2>3
<1>3. 0 .. L \subseteq S
  <2> HIDE DEF S
  <2> QED
    BY ZenonT(60), <1>1, <1>2, AllRounds
<1>4. \E g : g = Body(g, L)
  BY SMTT(60), <1>3
<1>5. after = Body(after, L)
  BY ZenonT(60), <1>4
<1>6. Sweep(w, dead) = after[L].world
  BY DEF Sweep
<1> HIDE DEF after
<1>7. after[0] = [world |-> w, i |-> 1]
  BY <1>5
<1>8. ASSUME NEW n \in 1 .. L
      PROVE  after[n] = SweepRound(after[n - 1].world, after[n - 1].i, dead)
  BY <1>5
<1> QED
  BY <1>6, <1>7, <1>8

-----------------------------------------------------------------------------
(* What erasing and sweeping do to a world. *)

\* The capacity is a number, at least one.
LEMMA CapacityFacts == MAX_TIMER_CAPACITY \in Nat /\ MAX_TIMER_CAPACITY >= 1
  BY TimersAssumption

\* FreeTimer: the last timer takes the place of the freed one, and the indices stay
\* consistent.
LEMMA FreeTimerFacts ==
  ASSUME NEW w \in WorldRecord, Indexed(w), NEW p \in 1 .. Len(w.timers)
  PROVE  LET f == FreeTimer(w, w.timers[p])
         IN  /\ f \in WorldRecord /\ Indexed(f)
             /\ Len(f.timers) = Len(w.timers) - 1 /\ Len(f.lookup) = Len(w.lookup)
             /\ \A q \in 1 .. Len(w.timers) - 1 :
                  f.timers[q] = IF q = p THEN w.timers[Len(w.timers)] ELSE w.timers[q]
<1> DEFINE x == w.timers[p].handle.index
           last == Len(w.timers)
           moved == w.timers[last]
           y == moved.handle.index
           T == [q \in 1 .. last - 1 |-> IF q = p THEN moved ELSE w.timers[q]]
           K == IF p < last THEN [w.lookup EXCEPT ![y] = p] ELSE w.lookup
           P == <<x>> \o w.pool
           f == FreeTimer(w, w.timers[p])
<1>1. /\ w.timers \in Seq(TimerRecord) /\ w.lookup \in Seq(1 .. MAX_TIMER_CAPACITY)
      /\ w.pool \in Seq(1 .. MAX_TIMER_CAPACITY)
      /\ last \in Nat /\ Len(w.lookup) \in Nat /\ Len(w.pool) \in Nat
      /\ last \in 1 .. last /\ p <= last
  <2>1. /\ w.timers \in Seq(TimerRecord) /\ w.lookup \in Seq(1 .. MAX_TIMER_CAPACITY)
        /\ w.pool \in Seq(1 .. MAX_TIMER_CAPACITY)
    BY DEF WorldRecord
  <2>2. last \in Nat /\ Len(w.lookup) \in Nat /\ Len(w.pool) \in Nat
    BY <2>1, LenProperties
  <2> QED
    BY <2>1, <2>2
<1>0. Len(w.timers) + Len(w.pool) = Len(w.lookup) /\ Len(w.lookup) <= MAX_TIMER_CAPACITY
  BY DEF Indexed
<1>2. ASSUME NEW q \in 1 .. last
      PROVE  /\ w.timers[q] \in TimerRecord
             /\ w.timers[q].handle.index \in 1 .. MAX_TIMER_CAPACITY
             /\ w.timers[q].handle.index <= Len(w.lookup)
             /\ w.lookup[w.timers[q].handle.index] = q
  <2>1. w.timers[q] \in TimerRecord
    BY <1>1, ElementOfSeq
  <2>2. w.timers[q].handle.index \in 1 .. MAX_TIMER_CAPACITY
    BY <2>1 DEF TimerRecord, HandleRecord
  <2> QED
    BY <2>1, <2>2 DEF Indexed
<1>3. x \in 1 .. Len(w.lookup) /\ w.lookup[x] = p /\ y \in 1 .. Len(w.lookup) /\ w.lookup[y] = last
      /\ x \in 1 .. MAX_TIMER_CAPACITY
  BY SMTT(60), <1>1, <1>2
<1>4. f = [timers |-> T, lookup |-> K, pool |-> P]
  <2>1. PICK v : v = [w EXCEPT !.pool = <<x>> \o @]
    OBVIOUS
  <2>2. v = [timers |-> w.timers, lookup |-> w.lookup, pool |-> P]
    BY <2>1 DEF WorldRecord
  <2>3. v.timers = w.timers /\ v.lookup = w.lookup /\ v.pool = P
    BY <2>2
  <2>4. f = EraseTimer(v, w.lookup[x])
    BY <2>1 DEF FreeTimer
  <2>5. f = [v EXCEPT !.timers = T, !.lookup = K]
    BY <2>3, <2>4, <1>3 DEF EraseTimer
  <2> HIDE DEF T, K, P, f
  <2> QED
    BY <2>2, <2>5
<1>5. T \in Seq(TimerRecord) /\ Len(T) = last - 1
  <2>1. last - 1 \in Nat /\ \A q \in 1 .. last - 1 : T[q] \in TimerRecord
    BY <1>1, <1>2
  <2>2. T \in [1 .. last - 1 -> TimerRecord]
    BY <2>1
  <2> HIDE DEF T
  <2> QED
    BY <2>1, <2>2
<1>6. K \in Seq(1 .. MAX_TIMER_CAPACITY) /\ Len(K) = Len(w.lookup)
  <2>1. p \in 1 .. MAX_TIMER_CAPACITY
    <3>1. last \in Nat /\ Len(w.pool) \in Nat /\ Len(w.lookup) \in Nat /\ p \in Nat /\ p >= 1 /\ p <= last
      BY <1>1
    <3> HIDE DEF last
    <3>2. last + Len(w.pool) = Len(w.lookup)
      BY <1>0 DEF last
    <3> QED
      BY <1>0, <3>1, <3>2, CapacityFacts
  <2>2. /\ [w.lookup EXCEPT ![y] = p] \in Seq(1 .. MAX_TIMER_CAPACITY)
        /\ Len([w.lookup EXCEPT ![y] = p]) = Len(w.lookup)
    BY <1>1, <1>3, <2>1, ExceptSeq
  <2> QED
    BY <1>1, <2>2
<1>7. /\ P \in Seq(1 .. MAX_TIMER_CAPACITY) /\ Len(P) = Len(w.pool) + 1
      /\ P[1] = x /\ \A k \in 1 .. Len(w.pool) : P[k + 1] = w.pool[k]
  <2>1. <<x>> \in Seq(1 .. MAX_TIMER_CAPACITY) /\ Len(<<x>>) = 1 /\ <<x>>[1] = x
    BY <1>3
  <2>2. /\ P \in Seq(1 .. MAX_TIMER_CAPACITY) /\ Len(P) = 1 + Len(w.pool)
        /\ \A k \in 1 .. 1 + Len(w.pool) : P[k] = IF k <= 1 THEN <<x>>[k] ELSE w.pool[k - 1]
    BY SMTT(60), <1>1, <2>1, ConcatProperties
  <2>3. ASSUME NEW k \in 1 .. Len(w.pool) PROVE P[k + 1] = w.pool[k]
    <3>1. k + 1 \in 1 .. 1 + Len(w.pool) /\ ~(k + 1 <= 1) /\ (k + 1) - 1 = k
      BY SMTT(60), <1>1
    <3> HIDE DEF P
    <3> QED
      BY <2>2, <3>1
  <2> QED
    BY <1>1, <2>1, <2>2, <2>3
<1>8. \A q \in 1 .. last - 1 : T[q] = IF q = p THEN moved ELSE w.timers[q]
  BY SMTT(60)
<1>9. ASSUME NEW q \in 1 .. last - 1
      PROVE  /\ T[q].handle.index <= Len(K) /\ K[T[q].handle.index] = q
             /\ T[q].handle.index # x
  <2>1. q \in 1 .. last /\ q # last
    BY <1>1
  <2>2. CASE q = p
    <3>1. p < last /\ T[q] = moved
      BY <1>1, <1>8, <2>1, <2>2
    <3>2. K[y] = p
      BY <1>1, <1>3, <1>6, <3>1
    <3>3. y # x
      BY <1>3, <2>1, <2>2
    <3> HIDE DEF K, T
    <3> QED
      BY <1>3, <1>6, <2>2, <3>1, <3>2, <3>3
  <2>3. CASE q # p
    <3>1. T[q] = w.timers[q]
      BY <1>8, <2>3
    <3>2. w.timers[q].handle.index # y /\ w.timers[q].handle.index # x
      BY <1>2, <1>3, <2>1, <2>3
    <3>3. w.timers[q].handle.index \in 1 .. Len(w.lookup) /\ w.lookup[w.timers[q].handle.index] = q
      BY <1>1, <1>2, <2>1
    <3>4. K[w.timers[q].handle.index] = w.lookup[w.timers[q].handle.index]
      BY SMTT(60), <1>1, <3>2, <3>3
    <3> HIDE DEF K, T
    <3> QED
      BY <1>6, <3>1, <3>2, <3>3, <3>4
  <2> QED
    BY <2>2, <2>3
<1>10. ASSUME NEW k \in 1 .. Len(P)
       PROVE  \/ k = 1 /\ P[k] = x
              \/ \E l \in 1 .. Len(w.pool) : k = l + 1 /\ P[k] = w.pool[l]
  <2>1. CASE k = 1
    BY <1>7, <2>1
  <2>2. CASE k # 1
    <3>1. k - 1 \in 1 .. Len(w.pool) /\ k = (k - 1) + 1
      BY <1>1, <1>7, <2>2
    <3> HIDE DEF P
    <3> QED
      BY <1>7, <3>1
  <2> QED
    BY <2>1, <2>2
<1>11. \A l \in 1 .. Len(w.pool) : w.pool[l] # x
  BY DEF Indexed
<1>12. NoDup(P)
  <2> SUFFICES ASSUME NEW k \in 1 .. Len(P), NEW l \in 1 .. Len(P), P[k] = P[l] PROVE k = l
    BY DEF NoDup
  <2> HIDE DEF P, x
  <2> QED
    BY SMTT(60), <1>10, <1>11 DEF Indexed, NoDup
<1>13. \A k \in 1 .. Len(P) : P[k] <= Len(w.lookup)
  <2> HIDE DEF P, x
  <2> QED
    BY <1>3, <1>10 DEF Indexed
<1>14. ASSUME NEW q \in 1 .. last - 1, NEW k \in 1 .. Len(P) PROVE P[k] # T[q].handle.index
  <2>1. CASE P[k] = x
    BY <1>9, <2>1
  <2>2. CASE \E l \in 1 .. Len(w.pool) : P[k] = w.pool[l]
    <3>1. PICK r \in 1 .. last : T[q] = w.timers[r]
      <4>1. q \in 1 .. last /\ T[q] = IF q = p THEN w.timers[last] ELSE w.timers[q]
        BY <1>1, <1>8
      <4> HIDE DEF T
      <4> QED
        BY <1>1, <4>1
    <3> HIDE DEF P, T
    <3> QED
      BY <2>2, <3>1 DEF Indexed
  <2> QED
    BY SMTT(60), <1>10, <2>1, <2>2
<1> HIDE DEF T, K, P, f
<1>15. f.timers = T /\ f.lookup = K /\ f.pool = P
  BY <1>4
<1>16. f \in WorldRecord
  BY <1>4, <1>5, <1>6, <1>7 DEF WorldRecord
<1>17. Len(T) + Len(P) = Len(K) /\ Len(K) <= MAX_TIMER_CAPACITY
  <2>1. last \in Nat /\ Len(w.pool) \in Nat /\ Len(w.lookup) \in Nat
    BY <1>1
  <2>2. last + Len(w.pool) = Len(w.lookup)
    BY <1>0
  <2>3. Len(T) = last - 1 /\ Len(P) = Len(w.pool) + 1 /\ Len(K) = Len(w.lookup)
    BY <1>5, <1>6, <1>7
  <2> HIDE DEF last
  <2>4. (last - 1) + (Len(w.pool) + 1) = Len(w.lookup)
    BY <2>1, <2>2
  <2> QED
    BY <1>0, <2>3, <2>4
<1>18. Indexed(f)
  BY <1>5, <1>6, <1>9, <1>12, <1>13, <1>14, <1>15, <1>17 DEF Indexed
<1> QED
  BY <1>5, <1>6, <1>8, <1>15, <1>16, <1>18 DEF f

\* The world has timer t.
Has(w, t) == \E p \in 1 .. Len(w.timers) : w.timers[p] = t

\* FreeTimer takes exactly one timer away.
LEMMA FreedTimers ==
  ASSUME NEW w \in WorldRecord, Indexed(w), DistinctIds(w), NEW p \in 1 .. Len(w.timers)
  PROVE  LET f == FreeTimer(w, w.timers[p])
         IN  /\ DistinctIds(f)
             /\ \A t : Has(f, t) <=> Has(w, t) /\ t.id # w.timers[p].id
<1> DEFINE last == Len(w.timers)
<1>1. PICK f : f = FreeTimer(w, w.timers[p])
  OBVIOUS
<1>2. /\ Len(f.timers) = last - 1
      /\ \A q \in 1 .. last - 1 : f.timers[q] = IF q = p THEN w.timers[last] ELSE w.timers[q]
  BY <1>1, FreeTimerFacts
<1>3. last \in Nat /\ last \in 1 .. last
  <2>1. w.timers \in Seq(TimerRecord)
    BY DEF WorldRecord
  <2>2. last \in Nat
    BY <2>1, LenProperties
  <2> QED
    BY <2>2
<1> HIDE DEF last
<1>4. \A r, q \in 1 .. last : w.timers[r].id = w.timers[q].id => r = q
  BY DEF DistinctIds, last
<1>5. ASSUME NEW q \in 1 .. last - 1
      PROVE  \E r \in 1 .. last : /\ f.timers[q] = w.timers[r] /\ r # p
                                  /\ r = IF q = p THEN last ELSE q
  <2>1. CASE q = p
    <3>1. last # p
      BY <1>3, <2>1
    <3> QED
      BY <1>2, <1>3, <2>1, <3>1
  <2>2. CASE q # p
    <3>1. q \in 1 .. last
      BY <1>3
    <3> QED
      BY <1>2, <2>2, <3>1
  <2> QED
    BY <2>1, <2>2
<1>6. DistinctIds(f)
  <2> SUFFICES ASSUME NEW q \in 1 .. last - 1, NEW r \in 1 .. last - 1, f.timers[q].id = f.timers[r].id
               PROVE  q = r
    BY <1>2 DEF DistinctIds
  <2>1. PICK a \in 1 .. last : f.timers[q] = w.timers[a] /\ a = IF q = p THEN last ELSE q
    BY <1>5
  <2>2. PICK b \in 1 .. last : f.timers[r] = w.timers[b] /\ b = IF r = p THEN last ELSE r
    BY <1>5
  <2>3. a = b
    BY <1>4, <2>1, <2>2
  <2>4. q # last /\ r # last
    BY <1>3
  <2> QED
    BY <2>1, <2>2, <2>3, <2>4
<1>7. ASSUME NEW t, Has(f, t) PROVE Has(w, t) /\ t.id # w.timers[p].id
  <2>1. PICK q \in 1 .. last - 1 : f.timers[q] = t
    BY <1>2, <1>7 DEF Has
  <2>2. PICK r \in 1 .. last : t = w.timers[r] /\ r # p
    BY <1>5, <2>1
  <2>3. p \in 1 .. last
    BY DEF last
  <2> QED
    BY <1>4, <2>2, <2>3 DEF Has, last
<1>8. ASSUME NEW t, Has(w, t), t.id # w.timers[p].id PROVE Has(f, t)
  <2>1. PICK r \in 1 .. last : w.timers[r] = t
    BY <1>8 DEF Has, last
  <2>2. r # p /\ p \in 1 .. last
    BY <1>8, <2>1 DEF last
  <2>3. CASE r = last
    <3>1. p \in 1 .. last - 1 /\ f.timers[p] = t
      BY <1>2, <1>3, <2>1, <2>2, <2>3
    <3> QED
      BY <1>2, <3>1 DEF Has
  <2>4. CASE r # last
    <3>1. r \in 1 .. last - 1
      BY <1>3, <2>4
    <3>2. f.timers[r] = t
      BY <1>2, <2>1, <2>2, <3>1
    <3> QED
      BY <1>2, <3>1, <3>2 DEF Has
  <2> QED
    BY <2>3, <2>4
<1> QED
  BY <1>1, <1>6, <1>7, <1>8

\* The loop after n rounds: it has come to position i, as many timers are ahead as
\* rounds are left, those behind are to stay, and none was lost that is to stay.
Swept(w, dead, n, g) ==
  /\ g.world \in WorldRecord /\ Indexed(g.world) /\ DistinctIds(g.world)
  /\ Len(g.world.lookup) = Len(w.lookup)
  /\ g.i \in Nat /\ g.i >= 1 /\ Len(g.world.timers) + 1 - g.i = Len(w.timers) - n
  /\ \A q \in 1 .. Len(g.world.timers) : q < g.i => g.world.timers[q].id \notin dead
  /\ \A t : Has(g.world, t) => Has(w, t)
  /\ \A t : Has(w, t) /\ t.id \notin dead => Has(g.world, t)
  /\ (\A q \in 1 .. Len(w.timers) : w.timers[q].id \notin dead) => g.world = w

\* One round.
LEMMA SweptRound ==
  ASSUME NEW w \in WorldRecord, NEW dead, NEW n \in Nat, n < Len(w.timers),
         NEW g, Swept(w, dead, n, g)
  PROVE  Swept(w, dead, n + 1, SweepRound(g.world, g.i, dead))
<1>1. PICK v : v = g.world
  OBVIOUS
<1>2. PICK i : i = g.i
  OBVIOUS
<1>3. /\ v \in WorldRecord /\ Indexed(v) /\ DistinctIds(v) /\ Len(v.lookup) = Len(w.lookup)
      /\ i \in Nat /\ i >= 1 /\ Len(v.timers) + 1 - i = Len(w.timers) - n
      /\ \A q \in 1 .. Len(v.timers) : q < i => v.timers[q].id \notin dead
      /\ \A t : Has(v, t) => Has(w, t)
      /\ \A t : Has(w, t) /\ t.id \notin dead => Has(v, t)
      /\ (\A q \in 1 .. Len(w.timers) : w.timers[q].id \notin dead) => v = w
  BY <1>1, <1>2 DEF Swept
<1>4. Len(v.timers) \in Nat /\ Len(w.timers) \in Nat
  <2>1. v.timers \in Seq(TimerRecord) /\ w.timers \in Seq(TimerRecord)
    BY <1>3 DEF WorldRecord
  <2> QED
    BY <2>1, LenProperties
<1>5. i \in 1 .. Len(v.timers)
  BY <1>3, <1>4
<1>6. CASE v.timers[i].id \in dead
  <2>1. PICK f : f = FreeTimer(v, v.timers[i])
    OBVIOUS
  <2>2. SweepRound(g.world, g.i, dead) = [world |-> f, i |-> i]
    BY <1>1, <1>2, <1>6, <2>1 DEF SweepRound
  <2>3. /\ f \in WorldRecord /\ Indexed(f)
        /\ Len(f.timers) = Len(v.timers) - 1 /\ Len(f.lookup) = Len(v.lookup)
        /\ \A q \in 1 .. Len(v.timers) - 1 :
             f.timers[q] = IF q = i THEN v.timers[Len(v.timers)] ELSE v.timers[q]
    BY <1>3, <1>5, <2>1, FreeTimerFacts
  <2>4. DistinctIds(f) /\ \A t : Has(f, t) <=> Has(v, t) /\ t.id # v.timers[i].id
    BY <1>3, <1>5, <2>1, FreedTimers
  <2>5. Len(f.timers) + 1 - i = Len(w.timers) - (n + 1)
    BY <1>3, <1>4, <2>3
  <2>6. ASSUME NEW q \in 1 .. Len(f.timers), q < i PROVE f.timers[q].id \notin dead
    <3>1. q \in 1 .. Len(v.timers) - 1 /\ q \in 1 .. Len(v.timers) /\ q # i
      BY SMTT(60), <1>3, <1>4, <2>3, <2>6
    <3>2. f.timers[q] = v.timers[q]
      BY <2>3, <3>1
    <3> QED
      BY <1>3, <2>6, <3>1, <3>2
  <2>7. \A t : Has(f, t) => Has(w, t)
    BY <1>3, <2>4
  <2>8. \A t : Has(w, t) /\ t.id \notin dead => Has(f, t)
    BY <1>3, <1>6, <2>4
  <2>9. \E q \in 1 .. Len(w.timers) : w.timers[q].id \in dead
    <3>1. Has(w, v.timers[i])
      BY <1>3, <1>5 DEF Has
    <3> QED
      BY <1>6, <3>1 DEF Has
  <2>10. PICK h : h = SweepRound(g.world, g.i, dead) /\ h.world = f /\ h.i = i
    BY <2>2
  <2>11. Len(f.lookup) = Len(w.lookup) /\ i \in Nat /\ i >= 1
    BY <1>3, <2>3
  <2>12. Swept(w, dead, n + 1, h)
    BY <2>3, <2>4, <2>5, <2>6, <2>7, <2>8, <2>9, <2>10, <2>11 DEF Swept
  <2> QED
    BY <2>10, <2>12
<1>7. CASE v.timers[i].id \notin dead
  <2>1. SweepRound(g.world, g.i, dead) = [world |-> v, i |-> i + 1]
    BY <1>1, <1>2, <1>7 DEF SweepRound
  <2>2. i + 1 \in Nat /\ i + 1 >= 1 /\ Len(v.timers) + 1 - (i + 1) = Len(w.timers) - (n + 1)
    <3>1. i \in Nat /\ Len(v.timers) + 1 - i = Len(w.timers) - n
      BY <1>3
    <3>2. \A a, b \in Nat : a + 1 - i = b - n => a + 1 - (i + 1) = b - (n + 1)
      BY <3>1
    <3>3. i + 1 \in Nat /\ i + 1 >= 1
      BY <3>1
    <3> QED
      BY <1>4, <3>1, <3>2, <3>3
  <2>3. ASSUME NEW q \in 1 .. Len(v.timers), q < i + 1 PROVE v.timers[q].id \notin dead
    <3>1. q < i \/ q = i
      BY <1>3, <1>4, <2>3
    <3> QED
      BY <1>3, <1>7, <3>1
  <2>4. PICK h : h = SweepRound(g.world, g.i, dead) /\ h.world = v /\ h.i = i + 1
    BY <2>1
  <2>5. Swept(w, dead, n + 1, h)
    BY <1>3, <2>2, <2>3, <2>4 DEF Swept
  <2> QED
    BY <2>4, <2>5
<1> QED
  BY <1>6, <1>7

\* The whole loop: exactly the timers in dead are gone.
LEMMA SweepFacts ==
  ASSUME NEW w \in WorldRecord, Indexed(w), DistinctIds(w), NEW dead
  PROVE  /\ Sweep(w, dead) \in WorldRecord /\ Indexed(Sweep(w, dead)) /\ DistinctIds(Sweep(w, dead))
         /\ Len(Sweep(w, dead).lookup) = Len(w.lookup)
         /\ \A t : Has(Sweep(w, dead), t) <=> Has(w, t) /\ t.id \notin dead
         /\ (\A q \in 1 .. Len(w.timers) : w.timers[q].id \notin dead) => Sweep(w, dead) = w
<1> DEFINE L == Len(w.timers)
<1>1. L \in Nat
  <2>1. w.timers \in Seq(TimerRecord)
    BY DEF WorldRecord
  <2> QED
    BY <2>1, LenProperties
<1>2. PICK g : /\ g[0] = [world |-> w, i |-> 1]
               /\ \A n \in 1 .. L : g[n] = SweepRound(g[n - 1].world, g[n - 1].i, dead)
               /\ Sweep(w, dead) = g[L].world
  BY <1>1, SweepRounds
<1> DEFINE S == {n \in 0 .. L : Swept(w, dead, n, g[n])}
<1>3. 0 \in S
  BY <1>1, <1>2 DEF Swept
<1>4. ASSUME NEW n \in 0 .. L, n \in S, n < L PROVE n + 1 \in S
  <2>1. n + 1 \in 1 .. L /\ (n + 1) - 1 = n /\ n \in Nat /\ n < Len(w.timers)
    BY <1>1, <1>4
  <2>2. g[n + 1] = SweepRound(g[n].world, g[n].i, dead)
    BY <1>2, <2>1
  <2>3. Swept(w, dead, n + 1, g[n + 1])
    BY <1>4, <2>1, <2>2, SweptRound
  <2> QED
    BY <2>1, <2>3
<1>5. 0 .. L \subseteq S
  <2> HIDE DEF S
  <2> QED
    BY <1>1, <1>3, <1>4, AllRounds
<1>6. Swept(w, dead, L, g[L])
  BY <1>1, <1>5
<1>7. PICK v : v = Sweep(w, dead)
  OBVIOUS
<1>8. Len(v.timers) \in Nat
  <2>1. v.timers \in Seq(TimerRecord)
    BY <1>2, <1>6, <1>7 DEF Swept, WorldRecord
  <2> QED
    BY <2>1, LenProperties
<1>9. \A q \in 1 .. Len(v.timers) : v.timers[q].id \notin dead
  BY SMTT(60), <1>1, <1>2, <1>6, <1>7, <1>8 DEF Swept
<1>10. \A t : Has(v, t) => t.id \notin dead
  BY <1>9 DEF Has
<1> QED
  BY <1>2, <1>6, <1>7, <1>10 DEF Swept

-----------------------------------------------------------------------------
(* AllocateTimer. *)

\* A world with its fields.
LEMMA WorldFields ==
  ASSUME NEW w \in WorldRecord
  PROVE  /\ w.timers \in Seq(TimerRecord) /\ w.lookup \in Seq(1 .. MAX_TIMER_CAPACITY)
         /\ w.pool \in Seq(1 .. MAX_TIMER_CAPACITY)
         /\ Len(w.timers) \in Nat /\ Len(w.lookup) \in Nat /\ Len(w.pool) \in Nat
<1>1. /\ w.timers \in Seq(TimerRecord) /\ w.lookup \in Seq(1 .. MAX_TIMER_CAPACITY)
      /\ w.pool \in Seq(1 .. MAX_TIMER_CAPACITY)
  BY DEF WorldRecord
<1> QED
  BY <1>1, LenProperties

\* A function on the first n numbers is a sequence of length n.
LEMMA FunctionIsSeq ==
  ASSUME NEW S, NEW n \in Nat, NEW f \in [1 .. n -> S]
  PROVE  f \in Seq(S) /\ Len(f) = n
  OBVIOUS

\* A full world that may grow gets fresh indices, which no timer has.
LEMMA GrowFacts ==
  ASSUME NEW w \in WorldRecord, Indexed(w), w.pool = <<>>, Len(w.timers) # MAX_TIMER_CAPACITY,
         NEW to, to = Smaller(Len(w.lookup) + TIMER_CAPACITY_GROWTH, MAX_TIMER_CAPACITY)
  PROVE  LET v == [timers |-> w.timers, lookup |-> w.lookup \o Zeros(to - Len(w.lookup)),
                   pool |-> Grown(Len(w.lookup), to)]
         IN  /\ v \in WorldRecord /\ Indexed(v) /\ v.pool # <<>>
             /\ \A k \in 1 .. Len(v.pool) : v.pool[k] > Len(w.lookup)
             /\ Len(v.lookup) >= Len(w.lookup)
<1>1. PICK c \in Nat : c = Len(w.lookup)
  BY WorldFields
<1>2. PICK G : G = Grown(c, to)
  OBVIOUS
<1>3. PICK Z : Z = Zeros(to - c)
  OBVIOUS
<1>4. PICK K : K = w.lookup \o Z
  OBVIOUS
<1>5. /\ w.timers \in Seq(TimerRecord) /\ w.lookup \in Seq(1 .. MAX_TIMER_CAPACITY)
      /\ Len(w.timers) \in Nat /\ Len(w.pool) = 0
      /\ MAX_TIMER_CAPACITY \in Nat /\ MAX_TIMER_CAPACITY >= 1
      /\ TIMER_CAPACITY_GROWTH \in Nat /\ TIMER_CAPACITY_GROWTH >= 1
  BY WorldFields, CapacityFacts, TimersAssumption
<1>6. Len(w.timers) + Len(w.pool) = c /\ c <= MAX_TIMER_CAPACITY
  BY <1>1 DEF Indexed
<1>7. Len(w.timers) = c /\ c < MAX_TIMER_CAPACITY
  BY <1>5, <1>6
<1>8. to \in Nat /\ to > c /\ to <= MAX_TIMER_CAPACITY
  BY <1>1, <1>5, <1>7 DEF Smaller
<1>9. PICK n \in Nat : n = to - c /\ n >= 1
  BY <1>8
<1>10. /\ G \in Seq(1 .. MAX_TIMER_CAPACITY) /\ Len(G) = n
       /\ \A k \in 1 .. n : G[k] = c + k
  <2>1. \A k \in 1 .. n : c + k \in 1 .. MAX_TIMER_CAPACITY
    BY <1>5, <1>8, <1>9
  <2>2. G = [k \in 1 .. n |-> c + k]
    BY <1>2, <1>9 DEF Grown
  <2>3. G \in [1 .. n -> 1 .. MAX_TIMER_CAPACITY]
    BY <2>1, <2>2
  <2> QED
    <3>1. G \in Seq(1 .. MAX_TIMER_CAPACITY) /\ Len(G) = n
      BY <2>3, FunctionIsSeq
    <3> QED
      BY <2>2, <3>1
<1>11. Z \in Seq(1 .. MAX_TIMER_CAPACITY) /\ Len(Z) = n
  <2>1. Z = [k \in 1 .. n |-> 1]
    BY <1>3, <1>9 DEF Zeros
  <2>2. Z \in [1 .. n -> 1 .. MAX_TIMER_CAPACITY]
    BY <1>5, <2>1
  <2> QED
    BY <2>2, FunctionIsSeq
<1>12. /\ K \in Seq(1 .. MAX_TIMER_CAPACITY) /\ Len(K) = c + n
       /\ \A k \in 1 .. c : K[k] = w.lookup[k]
  <2>1. /\ K \in Seq(1 .. MAX_TIMER_CAPACITY) /\ Len(K) = c + n
        /\ \A k \in 1 .. c + n : K[k] = IF k <= c THEN w.lookup[k] ELSE Z[k - c]
    <3>1. /\ K \in Seq(1 .. MAX_TIMER_CAPACITY) /\ Len(K) = Len(w.lookup) + Len(Z)
          /\ \A k \in 1 .. Len(w.lookup) + Len(Z) :
               K[k] = IF k <= Len(w.lookup) THEN w.lookup[k] ELSE Z[k - Len(w.lookup)]
      <4>1. PICK l \in Seq(1 .. MAX_TIMER_CAPACITY) : l = w.lookup
        BY <1>5
      <4>2. Z \in Seq(1 .. MAX_TIMER_CAPACITY)
        BY <1>11
      <4>3. /\ l \o Z \in Seq(1 .. MAX_TIMER_CAPACITY) /\ Len(l \o Z) = Len(l) + Len(Z)
            /\ \A k \in 1 .. Len(l) + Len(Z) :
                 (l \o Z)[k] = IF k <= Len(l) THEN l[k] ELSE Z[k - Len(l)]
        BY <4>2, ConcatProperties
      <4> QED
        BY <1>4, <4>1, <4>3
    <3>2. Len(w.lookup) = c /\ Len(Z) = n
      BY <1>1, <1>11
    <3> QED
      BY <3>1, <3>2
  <2> QED
    BY <1>8, <2>1
<1>13. Len(K) = to
  BY <1>8, <1>9, <1>12
<1>14. PICK v : v = [timers |-> w.timers, lookup |-> K, pool |-> G]
  OBVIOUS
<1>15. v.timers = w.timers /\ v.lookup = K /\ v.pool = G
  BY <1>14
<1>16. v \in WorldRecord
  BY <1>5, <1>10, <1>12, <1>14 DEF WorldRecord
<1>17. ASSUME NEW p \in 1 .. Len(w.timers)
       PROVE  /\ w.timers[p].handle.index <= c /\ w.timers[p].handle.index <= to
              /\ K[w.timers[p].handle.index] = p
  <2>1. w.timers[p].handle.index \in 1 .. MAX_TIMER_CAPACITY
    <3>1. w.timers[p] \in TimerRecord
      BY <1>5, ElementOfSeq
    <3> QED
      BY <3>1 DEF TimerRecord, HandleRecord
  <2>2. w.timers[p].handle.index <= c /\ w.lookup[w.timers[p].handle.index] = p
    BY <1>1 DEF Indexed
  <2> QED
    <3>1. PICK y \in 1 .. MAX_TIMER_CAPACITY : y = w.timers[p].handle.index
      BY <2>1
    <3>2. y \in 1 .. c /\ y <= to
      BY <1>5, <1>8, <2>2, <3>1
    <3> QED
      BY <1>12, <2>2, <3>1, <3>2
<1>18. NoDup(G)
  <2> SUFFICES ASSUME NEW k \in 1 .. Len(G), NEW l \in 1 .. Len(G), G[k] = G[l] PROVE k = l
    BY DEF NoDup
  <2>1. G[k] = c + k /\ G[l] = c + l
    BY <1>10
  <2> QED
    <3>1. k \in 1 .. n /\ l \in 1 .. n /\ c + k = c + l
      BY <1>10, <2>1
    <3> QED
      BY <3>1
<1>19. \A k \in 1 .. Len(G) : G[k] > c /\ G[k] <= to
  BY <1>8, <1>9, <1>10
<1>20. \A p \in 1 .. Len(w.timers), k \in 1 .. Len(G) : G[k] # w.timers[p].handle.index
  <2> SUFFICES ASSUME NEW p \in 1 .. Len(w.timers), NEW k \in 1 .. Len(G), G[k] = w.timers[p].handle.index
               PROVE  FALSE
    OBVIOUS
  <2>1. G[k] > c /\ G[k] <= c /\ G[k] = c + k
    BY <1>10, <1>17, <1>19
  <2> QED
    BY <1>8, <1>10, <2>1
<1>21. Len(w.timers) + Len(G) = to
  BY <1>7, <1>8, <1>9, <1>10
<1>22. Indexed(v)
  BY <1>8, <1>13, <1>15, <1>17, <1>18, <1>19, <1>20, <1>21 DEF Indexed
<1>23. G # <<>>
  BY <1>9, <1>10
<1>24. Len(v.lookup) >= c
  BY <1>8, <1>13, <1>15
<1> QED
  BY <1>1, <1>2, <1>3, <1>4, <1>14, <1>15, <1>16, <1>19, <1>22, <1>23, <1>24

\* A new timer takes the first index of the pool.
LEMMA AllocateFacts ==
  ASSUME NEW w \in WorldRecord, Indexed(w), w.pool # <<>>,
         NEW t \in TimerRecord, t.handle.index = Head(w.pool)
  PROVE  LET v == [timers |-> Append(w.timers, t),
                   lookup |-> [w.lookup EXCEPT ![t.handle.index] = Len(w.timers) + 1],
                   pool |-> Tail(w.pool)]
         IN  /\ v \in WorldRecord /\ Indexed(v)
             /\ \A k \in 1 .. Len(v.pool) : \E l \in 1 .. Len(w.pool) : v.pool[k] = w.pool[l] /\ l # 1
<1>1. PICK x : x = t.handle.index
  OBVIOUS
<1>2. PICK T : T = Append(w.timers, t)
  OBVIOUS
<1>3. PICK K : K = [w.lookup EXCEPT ![x] = Len(w.timers) + 1]
  OBVIOUS
<1>4. PICK P : P = Tail(w.pool)
  OBVIOUS
<1>5. /\ w.timers \in Seq(TimerRecord) /\ w.lookup \in Seq(1 .. MAX_TIMER_CAPACITY)
      /\ w.pool \in Seq(1 .. MAX_TIMER_CAPACITY)
      /\ Len(w.timers) \in Nat /\ Len(w.lookup) \in Nat /\ Len(w.pool) \in Nat
      /\ MAX_TIMER_CAPACITY \in Nat
  BY WorldFields, CapacityFacts
<1>6. Len(w.timers) + Len(w.pool) = Len(w.lookup) /\ Len(w.lookup) <= MAX_TIMER_CAPACITY
  BY DEF Indexed
<1>7. Len(w.pool) >= 1 /\ 1 \in 1 .. Len(w.pool) /\ x = w.pool[1]
  BY <1>1, <1>5, EmptySeq
<1>8. x \in 1 .. Len(w.lookup) /\ x \in 1 .. MAX_TIMER_CAPACITY
  <2>1. w.pool[1] \in 1 .. MAX_TIMER_CAPACITY
    BY <1>5, <1>7, ElementOfSeq
  <2>2. w.pool[1] <= Len(w.lookup)
    BY <1>7 DEF Indexed
  <2> QED
    BY <1>5, <1>7, <2>1, <2>2
<1>9. /\ T \in Seq(TimerRecord) /\ Len(T) = Len(w.timers) + 1
      /\ \A p \in 1 .. Len(w.timers) : T[p] = w.timers[p]
      /\ T[Len(w.timers) + 1] = t
  BY <1>2, <1>5, AppendProperties
<1>10. /\ K \in Seq(1 .. MAX_TIMER_CAPACITY) /\ Len(K) = Len(w.lookup)
       /\ \A k \in 1 .. Len(w.lookup) : K[k] = IF k = x THEN Len(w.timers) + 1 ELSE w.lookup[k]
  <2>1. Len(w.timers) + 1 \in 1 .. MAX_TIMER_CAPACITY
    <3>1. \A m, n, c, x1 \in Nat : m + n = c /\ c <= x1 /\ n >= 1 => m + 1 \in 1 .. x1
      OBVIOUS
    <3> QED
      BY <1>5, <1>6, <1>7, <3>1
  <2> QED
    BY SMTT(60), <1>3, <1>5, <1>8, <2>1, ExceptSeq
<1>11. /\ P \in Seq(1 .. MAX_TIMER_CAPACITY) /\ Len(P) = Len(w.pool) - 1
       /\ \A k \in 1 .. Len(P) : P[k] = w.pool[k + 1]
  BY <1>4, <1>5, HeadTailProperties
<1>12. \A k \in 1 .. Len(P) : k + 1 \in 1 .. Len(w.pool) /\ k + 1 # 1
  BY <1>5, <1>11
<1>13. PICK v : v = [timers |-> T, lookup |-> K, pool |-> P]
  OBVIOUS
<1>14. v.timers = T /\ v.lookup = K /\ v.pool = P
  BY <1>13
<1>15. v \in WorldRecord
  BY <1>9, <1>10, <1>11, <1>13 DEF WorldRecord
<1>16. ASSUME NEW p \in 1 .. Len(T)
       PROVE  /\ T[p].handle.index <= Len(K) /\ K[T[p].handle.index] = p
              /\ \A k \in 1 .. Len(P) : P[k] # T[p].handle.index
  <2>1. CASE p = Len(w.timers) + 1
    <3>1. T[p].handle.index = x
      BY <1>1, <1>9, <2>1
    <3>2. \A k \in 1 .. Len(P) : P[k] # x
      BY <1>7, <1>11, <1>12 DEF Indexed, NoDup
    <3> QED
      BY <1>5, <1>8, <1>10, <2>1, <3>1, <3>2
  <2>2. CASE p \in 1 .. Len(w.timers)
    <3>1. T[p] = w.timers[p] /\ w.timers[p] \in TimerRecord
      BY <1>5, <1>9, <2>2, ElementOfSeq
    <3>2. PICK y : y = w.timers[p].handle.index
      OBVIOUS
    <3>3. y \in 1 .. MAX_TIMER_CAPACITY
      BY <3>1, <3>2 DEF TimerRecord, HandleRecord
    <3>4. y <= Len(w.lookup) /\ w.lookup[y] = p /\ \A l \in 1 .. Len(w.pool) : w.pool[l] # y
      BY <2>2, <3>2 DEF Indexed
    <3>5. y \in 1 .. Len(w.lookup) /\ y # x
      BY SMTT(60), <1>5, <1>7, <3>3, <3>4
    <3>6. K[y] = p
      BY <1>10, <3>4, <3>5
    <3>7. \A k \in 1 .. Len(P) : P[k] # y
      BY <1>11, <1>12, <3>4
    <3> QED
      BY <1>10, <3>1, <3>2, <3>4, <3>6, <3>7
  <2> QED
    BY SMTT(60), <1>5, <1>9, <2>1, <2>2
<1>17. NoDup(P)
  <2> SUFFICES ASSUME NEW k \in 1 .. Len(P), NEW l \in 1 .. Len(P), P[k] = P[l] PROVE k = l
    BY DEF NoDup
  <2>1. w.pool[k + 1] = w.pool[l + 1] /\ k + 1 \in 1 .. Len(w.pool) /\ l + 1 \in 1 .. Len(w.pool)
    BY <1>11, <1>12
  <2>2. k + 1 = l + 1
    BY <2>1 DEF Indexed, NoDup
  <2> QED
    BY <2>2
<1>18. \A k \in 1 .. Len(P) : P[k] <= Len(K)
  BY <1>10, <1>11, <1>12 DEF Indexed
<1>19. Len(T) + Len(P) = Len(K) /\ Len(K) <= MAX_TIMER_CAPACITY
  <2>1. \A m, n, c \in Nat : m + n = c => (m + 1) + (n - 1) = c
    OBVIOUS
  <2>2. Len(T) = Len(w.timers) + 1 /\ Len(P) = Len(w.pool) - 1 /\ Len(K) = Len(w.lookup)
    BY <1>9, <1>10, <1>11
  <2>3. (Len(w.timers) + 1) + (Len(w.pool) - 1) = Len(w.lookup)
    <3>1. PICK m \in Nat, n \in Nat, c \in Nat : m = Len(w.timers) /\ n = Len(w.pool) /\ c = Len(w.lookup)
      BY <1>5
    <3>2. m + n = c
      BY <1>6, <3>1
    <3>3. (m + 1) + (n - 1) = c
      BY <3>2
    <3> QED
      BY <3>1, <3>3
  <2> QED
    BY <1>6, <2>2, <2>3
<1>20. Indexed(v)
  BY <1>14, <1>16, <1>17, <1>18, <1>19 DEF Indexed
<1>21. \A k \in 1 .. Len(P) : \E l \in 1 .. Len(w.pool) : P[k] = w.pool[l] /\ l # 1
  BY <1>11, <1>12
<1> QED
  BY <1>1, <1>2, <1>3, <1>4, <1>13, <1>14, <1>15, <1>20, <1>21

-----------------------------------------------------------------------------
(* What each operation does to the world. *)

\* The fields of a timer.
LEMMA TimerFields ==
  ASSUME NEW t \in TimerRecord
  PROVE  /\ t.id \in Ids /\ t.id \in Nat /\ t.id >= 1
         /\ t.handle \in HandleRecord /\ t.handle.index \in 1 .. MAX_TIMER_CAPACITY
         /\ t.handle.version \in 0 .. VersionRange - 1
         /\ t.owner \in Owners /\ t.delay \in Delays /\ t.delay \in Nat /\ t.remaining \in Int
         /\ t.repeat \in BOOLEAN /\ t.alive \in BOOLEAN /\ t.valid \in BOOLEAN
<1>1. /\ t.id \in Ids /\ t.handle \in HandleRecord
      /\ t.owner \in Owners /\ t.delay \in Delays /\ t.remaining \in Int
      /\ t.repeat \in BOOLEAN /\ t.alive \in BOOLEAN /\ t.valid \in BOOLEAN
  BY DEF TimerRecord
<1>2. t.handle.index \in 1 .. MAX_TIMER_CAPACITY /\ t.handle.version \in 0 .. VersionRange - 1
  BY <1>1 DEF HandleRecord
<1>3. t.id \in Nat /\ t.id >= 1
  BY <1>1, TimersAssumption DEF Ids
<1>4. t.delay \in Nat
  BY <1>1, TimersAssumption
<1> QED
  BY <1>1, <1>2, <1>3, <1>4

\* Both records are one timer: nothing differs but its time and whether it is alive.
Same(t, u) == /\ t.id = u.id /\ t.handle = u.handle /\ t.owner = u.owner
              /\ t.delay = u.delay /\ t.repeat = u.repeat

\* A timer whose callback is destroyed.
LEMMA Cancelled ==
  ASSUME NEW t \in TimerRecord, NEW u, u = [t EXCEPT !.alive = FALSE, !.valid = FALSE]
  PROVE  u \in TimerRecord /\ Same(u, t) /\ u.alive = FALSE /\ u.remaining = t.remaining
  BY DEF TimerRecord, Same

\* A timer that is killed, or left alone.
LEMMA Deadened ==
  ASSUME NEW t \in TimerRecord, NEW a \in BOOLEAN, NEW u, u = [t EXCEPT !.alive = a]
  PROVE  u \in TimerRecord /\ Same(u, t) /\ u.alive = a /\ u.remaining = t.remaining
         /\ (a = t.alive => u = t)
  BY DEF TimerRecord, Same

\* A timer whose callback may be destroyed.
LEMMA Invalidated ==
  ASSUME NEW t \in TimerRecord, NEW a \in BOOLEAN, NEW u, u = [t EXCEPT !.valid = a]
  PROVE  u \in TimerRecord /\ Same(u, t) /\ u.alive = t.alive /\ u.remaining = t.remaining
  BY DEF TimerRecord, Same

\* A timer whose time passes.
LEMMA Passed ==
  ASSUME NEW t \in TimerRecord, NEW r \in Int, NEW u, u = [t EXCEPT !.remaining = r]
  PROVE  u \in TimerRecord /\ Same(u, t) /\ u.alive = t.alive /\ u.remaining = r
  BY DEF TimerRecord, Same

\* Timers that change in place leave the indices alone.
LEMMA TouchedWorld ==
  ASSUME NEW w \in WorldRecord, Indexed(w), DistinctIds(w),
         NEW T \in Seq(TimerRecord), Len(T) = Len(w.timers),
         \A p \in 1 .. Len(w.timers) : Same(T[p], w.timers[p])
  PROVE  LET v == [timers |-> T, lookup |-> w.lookup, pool |-> w.pool]
         IN  v \in WorldRecord /\ Indexed(v) /\ DistinctIds(v)
<1>1. PICK v : v = [timers |-> T, lookup |-> w.lookup, pool |-> w.pool]
  OBVIOUS
<1>2. v.timers = T /\ v.lookup = w.lookup /\ v.pool = w.pool
  BY <1>1
<1>3. v \in WorldRecord
  BY <1>1, WorldFields DEF WorldRecord
<1>4. \A p \in 1 .. Len(w.timers) : T[p].id = w.timers[p].id /\ T[p].handle = w.timers[p].handle
  BY DEF Same
<1>5. Indexed(v)
  BY ZenonT(60), <1>2, <1>4 DEF Indexed
<1>6. DistinctIds(v)
  BY <1>2, <1>4 DEF DistinctIds
<1> QED
  BY <1>1, <1>3, <1>5, <1>6

\* The fields of the world.
LEMMA WorldVars == World.timers = timers /\ World.lookup = lookup /\ World.pool = pool
  BY DEF World

\* SetWorld sets the world.
LEMMA WorldSet ==
  ASSUME NEW w \in WorldRecord, SetWorld(w)
  PROVE  World' = w
  BY DEF SetWorld, World, WorldRecord

\* The types of the array, the table and the pool.
LEMMA WorldTypes ==
  ASSUME Typed
  PROVE  /\ World \in WorldRecord
         /\ timers \in Seq(TimerRecord) /\ lookup \in Seq(1 .. MAX_TIMER_CAPACITY)
         /\ pool \in Seq(1 .. MAX_TIMER_CAPACITY)
         /\ Len(timers) \in Nat /\ Len(lookup) \in Nat /\ Len(pool) \in Nat
         /\ DOMAIN timers = 1 .. Len(timers) /\ DOMAIN given = 1 .. Len(given)
         /\ given \in Seq(HandleRecord) /\ Len(given) \in Nat
         /\ \A p \in 1 .. Len(timers) : timers[p] \in TimerRecord
<1>1. World \in WorldRecord /\ given \in Seq(HandleRecord)
  BY DEF Typed
<1>2. /\ timers \in Seq(TimerRecord) /\ lookup \in Seq(1 .. MAX_TIMER_CAPACITY)
      /\ pool \in Seq(1 .. MAX_TIMER_CAPACITY)
      /\ Len(timers) \in Nat /\ Len(lookup) \in Nat /\ Len(pool) \in Nat
  BY <1>1, WorldFields, WorldVars
<1>3. /\ DOMAIN timers = 1 .. Len(timers) /\ DOMAIN given = 1 .. Len(given) /\ Len(given) \in Nat
  BY <1>1, <1>2, LenProperties
<1>4. \A p \in 1 .. Len(timers) : timers[p] \in TimerRecord
  BY <1>2, ElementOfSeq
<1> QED
  BY <1>1, <1>2, <1>3, <1>4

\* The world is sound.
Sound(w) == w \in WorldRecord /\ Indexed(w) /\ DistinctIds(w)

\* The step keeps every timer in its place.
InPlace == /\ lookup' = lookup /\ pool' = pool /\ Len(timers') = Len(timers)
           /\ \A q \in 1 .. Len(timers) : Same(timers'[q], timers[q])

\* The timer at p becomes u.
LEMMA TouchOne ==
  ASSUME Typed, Sound(World), NEW p \in 1 .. Len(timers), NEW u \in TimerRecord, Same(u, timers[p]),
         timers' = [timers EXCEPT ![p] = u], lookup' = lookup, pool' = pool
  PROVE  /\ Sound(World') /\ InPlace
         /\ timers'[p] = u /\ \A q \in 1 .. Len(timers) : q # p => timers'[q] = timers[q]
<1>1. PICK T : T = [timers EXCEPT ![p] = u]
  OBVIOUS
<1>2. /\ T \in Seq(TimerRecord) /\ Len(T) = Len(timers) /\ T[p] = u
      /\ \A q \in 1 .. Len(timers) : q # p => T[q] = timers[q]
  BY <1>1, WorldTypes, ExceptSeq
<1>3. \A q \in 1 .. Len(timers) : Same(T[q], timers[q])
  <2>1. \A q \in 1 .. Len(timers) : q = p \/ q # p
    OBVIOUS
  <2>2. \A q \in 1 .. Len(timers) : Same(timers[q], timers[q])
    BY DEF Same
  <2> QED
    BY <1>2, <2>1, <2>2
<1>4. World' = [timers |-> T, lookup |-> World.lookup, pool |-> World.pool]
  BY <1>1, WorldVars DEF World
<1>5. Sound(World')
  BY <1>2, <1>3, <1>4, TouchedWorld, WorldVars DEF Sound
<1> QED
  BY <1>1, <1>2, <1>3, <1>5 DEF InPlace

\* A timer is marked as cancelled.
LEMMA CancelledWorld ==
  ASSUME Typed, NEW p \in 1 .. Len(timers),
         NEW u, u = [timers[p] EXCEPT !.alive = FALSE, !.valid = FALSE]
  PROVE  [World EXCEPT !.timers[p].alive = FALSE, !.timers[p].valid = FALSE]
           = [timers |-> [timers EXCEPT ![p] = u], lookup |-> lookup, pool |-> pool]
<1>1. PICK A : A = [timers EXCEPT ![p].alive = FALSE]
  OBVIOUS
<1>2. PICK B : B = [A EXCEPT ![p].valid = FALSE]
  OBVIOUS
<1>3. p \in DOMAIN timers
  BY WorldTypes
<1>4. A[p] = [timers[p] EXCEPT !.alive = FALSE]
  BY <1>1, <1>3
<1>5. B = [A EXCEPT ![p] = [A[p] EXCEPT !.valid = FALSE]]
  BY <1>2
<1>6. [A[p] EXCEPT !.valid = FALSE] = u
  BY <1>4
<1>7. B = [timers EXCEPT ![p] = u]
  <2>1. A = [timers EXCEPT ![p] = A[p]]
    BY <1>1, <1>4
  <2>2. B = [A EXCEPT ![p] = u]
    BY <1>5, <1>6
  <2>3. PICK a : a = A[p]
    OBVIOUS
  <2>4. A = [timers EXCEPT ![p] = a]
    BY <2>1, <2>3
  <2> QED
    BY <2>2, <2>4
<1>8. [World EXCEPT !.timers[p].alive = FALSE, !.timers[p].valid = FALSE]
        = [timers |-> B, lookup |-> lookup, pool |-> pool]
  <2>1. PICK w : w = [World EXCEPT !.timers[p].alive = FALSE]
    OBVIOUS
  <2>2. w = [World EXCEPT !.timers = A]
    BY <1>1, <2>1, WorldVars
  <2>3. w = [timers |-> A, lookup |-> lookup, pool |-> pool]
    BY <2>2 DEF World
  <2>4. PICK v : v = [w EXCEPT !.timers[p].valid = FALSE]
    OBVIOUS
  <2>5. w.timers = A
    BY <2>3
  <2>6. v = [w EXCEPT !.timers = B]
    BY <1>2, <2>4, <2>5
  <2>7. v = [timers |-> B, lookup |-> lookup, pool |-> pool]
    BY <2>3, <2>6
  <2>8. [World EXCEPT !.timers[p].alive = FALSE, !.timers[p].valid = FALSE] = v
    BY <2>1, <2>4
  <2> QED
    BY <2>7, <2>8
<1> QED
  BY <1>7, <1>8

\* What CancelTimer finds is in the array.
LEMMA CancelFinding ==
  ASSUME Typed, NEW x, CancelTimer(x)
  PROVE  /\ lookup[given[x].index] \in 1 .. Len(timers) /\ timers[lookup[given[x].index]].alive
         /\ timers[lookup[given[x].index]].handle = given[x]
<1>1. PICK p : p = lookup[given[x].index]
  OBVIOUS
<1>2. given[x] \in HandleRecord
  BY WorldTypes, ElementOfSeq DEF CancelTimer
<1>3. given[x].index \in 1 .. Len(lookup)
  BY <1>2, WorldTypes, CapacityFacts DEF CancelTimer, CancelFinds, InTable, Capacity, HandleRecord
<1>4. p \in 1 .. MAX_TIMER_CAPACITY
  BY <1>1, <1>3, WorldTypes, ElementOfSeq
<1>5. p <= Len(timers) /\ timers[p].alive /\ timers[p].handle = given[x]
  BY <1>1 DEF CancelTimer, CancelFinds, InTable, At
<1> QED
  BY <1>1, <1>4, <1>5, WorldTypes, CapacityFacts

\* CancelTimer in a callback: the timer is marked.
LEMMA CancelMarks ==
  ASSUME IndInv, NEW x, CancelTimer(x), pc = "callback"
  PROVE  \E p \in 1 .. Len(timers) :
           /\ timers[p].alive /\ Sound(World') /\ InPlace
           /\ timers'[p].alive = FALSE /\ timers'[p].remaining = timers[p].remaining
           /\ \A q \in 1 .. Len(timers) : q # p => timers'[q] = timers[q]
           /\ UNCHANGED <<version, pc, walk, given>>
<1>1. Typed /\ Sound(World)
  BY DEF IndInv, Sound, Typed
<1>2. PICK p : p = lookup[given[x].index]
  OBVIOUS
<1>3. p \in 1 .. Len(timers) /\ timers[p].alive
  BY <1>1, <1>2, CancelFinding
<1>4. PICK u : u = [timers[p] EXCEPT !.alive = FALSE, !.valid = FALSE]
  OBVIOUS
<1>5. u \in TimerRecord /\ Same(u, timers[p]) /\ u.alive = FALSE /\ u.remaining = timers[p].remaining
  BY <1>1, <1>3, <1>4, WorldTypes, Cancelled
<1>6. [World EXCEPT !.timers[p].alive = FALSE, !.timers[p].valid = FALSE]
        = [timers |-> [timers EXCEPT ![p] = u], lookup |-> lookup, pool |-> pool]
  BY <1>1, <1>3, <1>4, CancelledWorld
<1>7. timers' = [timers EXCEPT ![p] = u] /\ lookup' = lookup /\ pool' = pool
  BY ZenonT(60), <1>2, <1>6 DEF CancelTimer, InUpdate, SetWorld
<1>8. UNCHANGED <<version, pc, walk, given>>
  BY DEF CancelTimer, InUpdate
<1> QED
  BY <1>1, <1>3, <1>5, <1>7, <1>8, TouchOne

\* CancelTimer between updates: the timer is freed.
LEMMA CancelFrees ==
  ASSUME IndInv, NEW x, CancelTimer(x), pc = "idle"
  PROVE  \E p \in 1 .. Len(timers) :
           /\ timers[p].alive /\ Sound(World') /\ Len(lookup') = Len(lookup)
           /\ \A t : Has(World', t) <=> Has(World, t) /\ t.id # timers[p].id
           /\ NextVersion /\ UNCHANGED <<pc, walk, given>>
<1>1. Typed /\ Sound(World)
  BY DEF IndInv, Sound, Typed
<1>2. PICK p : p = lookup[given[x].index]
  OBVIOUS
<1>3. p \in 1 .. Len(timers) /\ timers[p].alive
  BY <1>1, <1>2, CancelFinding
<1>4. PICK u : u = [timers[p] EXCEPT !.alive = FALSE, !.valid = FALSE]
  OBVIOUS
<1>5. u \in TimerRecord /\ Same(u, timers[p])
  BY <1>1, <1>3, <1>4, WorldTypes, Cancelled
<1>6. PICK T : T = [timers EXCEPT ![p] = u]
  OBVIOUS
<1>7. /\ T \in Seq(TimerRecord) /\ Len(T) = Len(timers) /\ T[p] = u
      /\ \A q \in 1 .. Len(timers) : q # p => T[q] = timers[q]
  BY <1>1, <1>3, <1>5, <1>6, WorldTypes, ExceptSeq
<1>8. PICK c : c = [timers |-> T, lookup |-> lookup, pool |-> pool]
  OBVIOUS
<1>9. c.timers = T /\ c.lookup = lookup /\ c.pool = pool
  BY <1>8
<1>10. Sound(c)
  <2>1. \A q \in 1 .. Len(timers) : Same(T[q], timers[q])
    <3>1. \A q \in 1 .. Len(timers) : q = p \/ q # p
      OBVIOUS
    <3>2. \A q \in 1 .. Len(timers) : Same(timers[q], timers[q])
      BY DEF Same
    <3> QED
      BY <1>5, <1>7, <3>1, <3>2
  <2> QED
    BY <1>1, <1>7, <1>8, <2>1, TouchedWorld, WorldVars DEF Sound
<1>11. PICK f : f = FreeTimer(c, c.timers[p])
  OBVIOUS
<1>12. f \in WorldRecord /\ Indexed(f) /\ Len(f.lookup) = Len(lookup)
  BY <1>3, <1>7, <1>9, <1>10, <1>11, FreeTimerFacts DEF Sound
<1>13. DistinctIds(f) /\ \A t : Has(f, t) <=> Has(c, t) /\ t.id # c.timers[p].id
  BY <1>3, <1>7, <1>9, <1>10, <1>11, FreedTimers DEF Sound
<1>14. [World EXCEPT !.timers[p].alive = FALSE, !.timers[p].valid = FALSE] = c
  BY ZenonT(60), <1>1, <1>3, <1>4, <1>6, <1>8, CancelledWorld
<1>15. SetWorld(f) /\ NextVersion /\ UNCHANGED <<pc, walk, given>>
  BY <1>2, <1>11, <1>14 DEF CancelTimer, InUpdate
<1>16. World' = f /\ lookup' = f.lookup
  BY <1>12, <1>15, WorldSet DEF SetWorld
<1>17. \A t : Has(c, t) /\ t.id # c.timers[p].id <=> Has(World, t) /\ t.id # timers[p].id
  <2>1. c.timers[p].id = timers[p].id
    BY <1>5, <1>7, <1>9 DEF Same
  <2> QED
    BY <1>7, <1>9, <2>1, WorldVars DEF Has
<1> QED
  BY <1>3, <1>12, <1>13, <1>15, <1>16, <1>17 DEF Sound

\* The world with the timers of an owner marked as dead.
Marked(owner) == [World EXCEPT !.timers = [q \in DOMAIN timers |->
                   [timers[q] EXCEPT !.alive = @ /\ timers[q].owner # owner]]]

\* Marking keeps every timer in its place.
LEMMA KilledWorld ==
  ASSUME Typed, Sound(World), NEW owner, NEW k, k = Marked(owner)
  PROVE  /\ Sound(k) /\ k.lookup = lookup /\ k.pool = pool /\ Len(k.timers) = Len(timers)
         /\ \A q \in 1 .. Len(timers) :
              /\ Same(k.timers[q], timers[q]) /\ k.timers[q].remaining = timers[q].remaining
              /\ k.timers[q].alive = (timers[q].alive /\ timers[q].owner # owner)
              /\ timers[q].owner # owner => k.timers[q] = timers[q]
<1>1. PICK K : K = [q \in DOMAIN timers |-> [timers[q] EXCEPT !.alive = @ /\ timers[q].owner # owner]]
  OBVIOUS
<1>2. k = [timers |-> K, lookup |-> lookup, pool |-> pool]
  BY <1>1 DEF World, Marked
<1>3. k.timers = K /\ k.lookup = lookup /\ k.pool = pool
  BY <1>2
<1>4. ASSUME NEW q \in 1 .. Len(timers)
      PROVE  /\ K[q] \in TimerRecord /\ Same(K[q], timers[q]) /\ K[q].remaining = timers[q].remaining
             /\ K[q].alive = (timers[q].alive /\ timers[q].owner # owner)
             /\ timers[q].owner # owner => K[q] = timers[q]
  <2>1. timers[q] \in TimerRecord /\ q \in DOMAIN timers
    BY WorldTypes
  <2>2. PICK a \in BOOLEAN : a = (timers[q].alive /\ timers[q].owner # owner)
    BY ZenonT(60)
  <2>3. K[q] = [timers[q] EXCEPT !.alive = a]
    BY <1>1, <2>1, <2>2
  <2>4. timers[q].owner # owner => a = timers[q].alive
    BY <2>1, <2>2, TimerFields
  <2> QED
    BY ZenonT(60), <2>1, <2>2, <2>3, <2>4, Deadened
<1>5. K \in Seq(TimerRecord) /\ Len(K) = Len(timers)
  <2>1. PICK n \in Nat : n = Len(timers) /\ DOMAIN timers = 1 .. n
    BY WorldTypes
  <2>2. K \in [1 .. n -> TimerRecord]
    BY <1>1, <1>4, <2>1
  <2> QED
    BY SMTT(60), <2>1, <2>2, FunctionIsSeq
<1>6. Sound(k)
  <2>1. \A q \in 1 .. Len(timers) : Same(K[q], timers[q])
    BY <1>4
  <2> QED
    BY <1>2, <1>5, <2>1, TouchedWorld, WorldVars DEF Sound
<1> QED
  BY <1>3, <1>4, <1>5, <1>6

\* KillTimers in a callback: the timers are marked.
LEMMA KillMarks ==
  ASSUME IndInv, NEW o, KillTimers(o), pc = "callback"
  PROVE  /\ Sound(World') /\ InPlace /\ UNCHANGED <<pc, walk, given>>
         /\ \A q \in 1 .. Len(timers) :
              /\ timers'[q].remaining = timers[q].remaining
              /\ timers'[q].alive = (timers[q].alive /\ timers[q].owner # o)
         /\ \/ NextVersion /\ \E q \in 1 .. Len(timers) : timers[q].alive /\ timers[q].owner = o
            \/ UNCHANGED version
<1>1. Typed /\ Sound(World)
  BY DEF IndInv, Sound, Typed
<1>2. PICK k : k = Marked(o)
  OBVIOUS
<1>3. /\ SetWorld(k) /\ UNCHANGED <<pc, walk, given>>
      /\ IF Killed(o) # {} THEN NextVersion ELSE UNCHANGED version
  BY <1>2 DEF KillTimers, InUpdate, Marked
<1>4. /\ Sound(k) /\ k.lookup = lookup /\ k.pool = pool /\ Len(k.timers) = Len(timers)
      /\ \A q \in 1 .. Len(timers) :
           /\ Same(k.timers[q], timers[q]) /\ k.timers[q].remaining = timers[q].remaining
           /\ k.timers[q].alive = (timers[q].alive /\ timers[q].owner # o)
  BY <1>1, <1>2, KilledWorld
<1>5. World' = k
  BY <1>3, <1>4, WorldSet DEF Sound
<1>6. timers' = k.timers /\ lookup' = k.lookup /\ pool' = k.pool
  BY <1>3 DEF SetWorld
<1>7. Killed(o) # {} => \E q \in 1 .. Len(timers) : timers[q].alive /\ timers[q].owner = o
  BY <1>1, WorldTypes DEF Killed
<1> QED
  BY <1>3, <1>4, <1>5, <1>6, <1>7 DEF InPlace

\* KillTimers between updates: the timers are freed.
LEMMA KillFrees ==
  ASSUME IndInv, NEW o, KillTimers(o), pc = "idle"
  PROVE  /\ Sound(World') /\ Len(lookup') = Len(lookup) /\ UNCHANGED <<pc, walk, given>>
         /\ \A t : Has(World', t) <=> Has(World, t) /\ t.owner # o
         /\ \/ NextVersion /\ \E q \in 1 .. Len(timers) : timers[q].owner = o
            \/ UNCHANGED version /\ World' = World
<1>1. Typed /\ Sound(World) /\ \A q \in 1 .. Len(timers) : timers[q].alive
  BY DEF IndInv, Sound, Typed, TimeInv
<1>2. PICK k : k = Marked(o)
  OBVIOUS
<1>3. /\ Sound(k) /\ k.lookup = lookup /\ k.pool = pool /\ Len(k.timers) = Len(timers)
      /\ \A q \in 1 .. Len(timers) :
           /\ Same(k.timers[q], timers[q])
           /\ timers[q].owner # o => k.timers[q] = timers[q]
  BY <1>1, <1>2, KilledWorld
<1>4. PICK dead : dead = IdsOf({q \in DOMAIN timers : timers[q].owner = o})
  OBVIOUS
<1>5. ASSUME NEW q \in 1 .. Len(timers)
      PROVE  timers[q].id \in dead <=> timers[q].owner = o
  <2>1. \A r \in 1 .. Len(timers) : timers[r].id = timers[q].id => r = q
    BY <1>1, WorldVars DEF Sound, DistinctIds
  <2>2. DOMAIN timers = 1 .. Len(timers)
    BY <1>1, WorldTypes
  <2> QED
    BY <1>4, <2>1, <2>2 DEF IdsOf
<1>6. PICK v : v = Sweep(k, dead)
  OBVIOUS
<1>7. /\ Sound(v) /\ Len(v.lookup) = Len(lookup)
      /\ \A t : Has(v, t) <=> Has(k, t) /\ t.id \notin dead
      /\ (\A q \in 1 .. Len(k.timers) : k.timers[q].id \notin dead) => v = k
  BY <1>3, <1>6, SweepFacts DEF Sound
<1>8. /\ SetWorld(v) /\ UNCHANGED <<pc, walk, given>>
      /\ IF Killed(o) # {} THEN NextVersion ELSE UNCHANGED version
  BY <1>2, <1>4, <1>6 DEF KillTimers, InUpdate, Marked
<1>9. World' = v /\ lookup' = v.lookup
  BY <1>7, <1>8, WorldSet DEF Sound, SetWorld
<1>10. \A t : Has(k, t) /\ t.id \notin dead <=> Has(World, t) /\ t.owner # o
  <2>1. ASSUME NEW t, Has(k, t), t.id \notin dead PROVE Has(World, t) /\ t.owner # o
    <3>1. PICK q \in 1 .. Len(timers) : k.timers[q] = t
      BY <1>3, <2>1 DEF Has
    <3>2. timers[q].id \notin dead
      BY <1>3, <2>1, <3>1 DEF Same
    <3> QED
      BY <1>3, <1>5, <3>1, <3>2, WorldVars DEF Has
  <2>2. ASSUME NEW t, Has(World, t), t.owner # o PROVE Has(k, t) /\ t.id \notin dead
    <3>1. PICK q \in 1 .. Len(timers) : timers[q] = t
      BY <2>2, WorldVars DEF Has
    <3> QED
      BY <1>3, <1>5, <2>2, <3>1 DEF Has
  <2> QED
    BY <2>1, <2>2
<1>11. CASE Killed(o) # {}
  <2>1. \E q \in 1 .. Len(timers) : timers[q].owner = o
    BY <1>1, <1>11, WorldTypes DEF Killed
  <2> QED
    BY <1>7, <1>8, <1>9, <1>10, <1>11, <2>1
<1>12. CASE Killed(o) = {}
  <2>1. \A q \in 1 .. Len(timers) : timers[q].owner # o
    BY <1>1, <1>12, WorldTypes DEF Killed
  <2>2. \A q \in 1 .. Len(timers) : k.timers[q] = timers[q] /\ k.timers[q].id \notin dead
    BY <1>3, <1>5, <2>1
  <2>3. v = k
    BY <1>3, <1>7, <2>2
  <2>4. k.timers = timers
    <3>1. k.timers \in Seq(TimerRecord) /\ timers \in Seq(TimerRecord)
      BY <1>1, <1>3, WorldTypes, WorldFields DEF Sound
    <3> QED
      BY <1>3, <2>2, <3>1, SeqEqual
  <2>5. k = World
    BY <1>3, <2>4 DEF Sound, WorldRecord, World
  <2> QED
    BY <1>7, <1>8, <1>9, <1>10, <1>12, <2>3, <2>5
<1> QED
  BY <1>11, <1>12

\* A round of the sweep: the timer the walk is at is passed, or the last one takes its
\* place.
LEMMA SweepEffect ==
  ASSUME IndInv, SweepTimer
  PROVE  /\ walk.i \in 1 .. Len(timers) /\ UNCHANGED <<version, pc, given>>
         /\ \/ timers[walk.i].alive /\ World' = World /\ walk' = [walk EXCEPT !.i = walk.i + 1]
            \/ /\ ~timers[walk.i].alive /\ walk' = walk /\ Sound(World')
               /\ Len(lookup') = Len(lookup) /\ Len(timers') = Len(timers) - 1
               /\ \A q \in 1 .. Len(timers) - 1 :
                    timers'[q] = IF q = walk.i THEN timers[Len(timers)] ELSE timers[q]
               /\ \A t : Has(World', t) <=> Has(World, t) /\ t.id # timers[walk.i].id
<1>1. Typed /\ Sound(World) /\ walk \in [i : Nat, size : Nat, dt : Nat]
  BY DEF IndInv, Sound, Typed
<1>2. PICK i : i = walk.i
  OBVIOUS
<1>3. i \in 1 .. Len(timers) /\ UNCHANGED <<version, pc, given>>
  <2>1. i \in Nat /\ i >= 1 /\ i <= Len(timers)
    BY <1>1, <1>2 DEF IndInv, WalkInv, SweepTimer
  <2> QED
    BY <1>1, <2>1, WorldTypes DEF SweepTimer
<1>4. timers[i].id \in Dead <=> ~timers[i].alive
  <2>1. \A r \in 1 .. Len(timers) : timers[r].id = timers[i].id => r = i
    BY <1>1, <1>3, WorldVars DEF Sound, DistinctIds
  <2>2. DOMAIN timers = 1 .. Len(timers)
    BY <1>1, WorldTypes
  <2> QED
    BY <1>3, <2>1, <2>2 DEF IdsOf, Dead
<1>5. PICK g : g = SweepRound(World, i, Dead)
  OBVIOUS
<1>6. SetWorld(g.world) /\ walk' = [walk EXCEPT !.i = g.i]
  BY <1>2, <1>5 DEF SweepTimer
<1>7. CASE timers[i].alive
  <2>1. g.world = World /\ g.i = i + 1
    BY <1>4, <1>5, <1>7, WorldVars DEF SweepRound
  <2>2. World' = World
    BY <1>6, <2>1, WorldVars DEF SetWorld, World
  <2> QED
    BY <1>2, <1>3, <1>6, <1>7, <2>1, <2>2
<1>8. CASE ~timers[i].alive
  <2>1. PICK f : f = FreeTimer(World, timers[i])
    OBVIOUS
  <2>2. g.world = f /\ g.i = i
    BY <1>4, <1>5, <1>8, <2>1, WorldVars DEF SweepRound
  <2>3. /\ f \in WorldRecord /\ Indexed(f)
        /\ Len(f.timers) = Len(timers) - 1 /\ Len(f.lookup) = Len(lookup)
        /\ \A q \in 1 .. Len(timers) - 1 :
             f.timers[q] = IF q = i THEN timers[Len(timers)] ELSE timers[q]
    <3>1. PICK w : w = World /\ w.timers = timers /\ w.lookup = lookup
      BY WorldVars
    <3>2. w \in WorldRecord /\ Indexed(w) /\ i \in 1 .. Len(w.timers) /\ f = FreeTimer(w, w.timers[i])
      BY <1>1, <1>3, <2>1, <3>1 DEF Sound
    <3>3. /\ f \in WorldRecord /\ Indexed(f)
          /\ Len(f.timers) = Len(w.timers) - 1 /\ Len(f.lookup) = Len(w.lookup)
          /\ \A q \in 1 .. Len(w.timers) - 1 :
               f.timers[q] = IF q = i THEN w.timers[Len(w.timers)] ELSE w.timers[q]
      BY <3>2, FreeTimerFacts
    <3> QED
      BY <3>1, <3>3
  <2>4. DistinctIds(f) /\ \A t : Has(f, t) <=> Has(World, t) /\ t.id # timers[i].id
    <3>1. PICK w : w = World /\ w.timers = timers
      BY WorldVars
    <3> QED
      BY <1>1, <1>3, <2>1, <3>1, FreedTimers DEF Sound
  <2>5. World' = f /\ timers' = f.timers /\ lookup' = f.lookup
    BY <1>6, <2>2, <2>3, WorldSet DEF SetWorld
  <2>6. walk' = walk
    BY <1>1, <1>2, <1>6, <2>2
  <2> QED
    BY <1>2, <1>3, <1>8, <2>3, <2>4, <2>5, <2>6 DEF Sound
<1> QED
  BY <1>7, <1>8

\* The step adds timer t, with an identity and an index that no other timer has.
Adds(t, o, d, r) ==
  /\ t.id = Len(given) + 1 /\ t.owner = o /\ t.delay = d /\ t.remaining = d
  /\ t.repeat = r /\ t.alive = TRUE /\ t.handle.version = version
  /\ Len(timers') = Len(timers) + 1
  /\ timers'[Len(timers) + 1] = t /\ \A p \in 1 .. Len(timers) : timers'[p] = timers[p]
  /\ Len(given') = Len(given) + 1
  /\ given'[Len(given) + 1] = t.handle /\ \A x \in 1 .. Len(given) : given'[x] = given[x]
  /\ given' \in Seq(HandleRecord) /\ Len(given) + 1 <= MaxTimers
  /\ Sound(World') /\ Len(lookup') >= Len(lookup) /\ t.handle.index <= Len(lookup')
  /\ t.handle.index > Len(lookup) \/ \E l \in 1 .. Len(pool) : pool[l] = t.handle.index
  /\ \A k \in 1 .. Len(pool') :
       pool'[k] > Len(lookup) \/ \E l \in 1 .. Len(pool) : pool[l] = pool'[k]
  /\ \A k \in 1 .. Len(pool') : pool'[k] # t.handle.index
  /\ UNCHANGED <<version, pc, walk>>

\* What AddTimer does.
LEMMA AddEffect ==
  ASSUME IndInv, NEW o \in Owners, NEW d \in Delays, NEW r \in BOOLEAN, AddTimer(o, d, r)
  PROVE  \E t \in TimerRecord : Adds(t, o, d, r)
<1>1. Typed /\ Sound(World) /\ GivenInv /\ version \in 0 .. VersionRange - 1
  BY DEF IndInv, Sound, Typed
<1>2. PICK b : b = [timers |-> timers, lookup |-> LookupBefore, pool |-> PoolBefore]
  OBVIOUS
<1>3. b.timers = timers /\ b.lookup = LookupBefore /\ b.pool = PoolBefore
  BY <1>2
<1>4. /\ b \in WorldRecord /\ Indexed(b) /\ b.pool # <<>> /\ Len(b.lookup) >= Len(lookup)
      /\ \A k \in 1 .. Len(b.pool) :
           b.pool[k] > Len(lookup) \/ \E l \in 1 .. Len(pool) : pool[l] = b.pool[k]
  <2>1. CASE pool = <<>>
    <3>1. PICK to : to = GrownCapacity
      OBVIOUS
    <3>2. PICK w : w = World /\ w.timers = timers /\ w.lookup = lookup /\ w.pool = pool
      BY WorldVars
    <3>3. to = Smaller(Len(w.lookup) + TIMER_CAPACITY_GROWTH, MAX_TIMER_CAPACITY)
      BY <3>1, <3>2 DEF GrownCapacity, Capacity
    <3>4. b = [timers |-> w.timers, lookup |-> w.lookup \o Zeros(to - Len(w.lookup)),
               pool |-> Grown(Len(w.lookup), to)]
      BY <1>2, <2>1, <3>1, <3>2 DEF LookupBefore, PoolBefore, Capacity
    <3>5. w \in WorldRecord /\ Indexed(w) /\ w.pool = <<>> /\ Len(w.timers) # MAX_TIMER_CAPACITY
      BY <1>1, <2>1, <3>2 DEF Sound, AddTimer
    <3>6. /\ b \in WorldRecord /\ Indexed(b) /\ b.pool # <<>>
          /\ \A k \in 1 .. Len(b.pool) : b.pool[k] > Len(w.lookup)
          /\ Len(b.lookup) >= Len(w.lookup)
      BY <3>3, <3>4, <3>5, GrowFacts
    <3> QED
      BY <3>2, <3>6
  <2>2. CASE pool # <<>>
    <3>1. b = World
      BY <1>2, <2>2 DEF World, LookupBefore, PoolBefore
    <3>2. b \in WorldRecord /\ Indexed(b) /\ b.pool = pool /\ b.lookup = lookup
      BY <1>1, <3>1, WorldVars DEF Sound
    <3>3. Len(lookup) \in Nat
      BY <1>1, WorldTypes
    <3> QED
      BY <2>2, <3>2, <3>3
  <2> QED
    BY <2>1, <2>2
<1>5. PICK h : h = [version |-> version, index |-> Head(PoolBefore)]
  OBVIOUS
<1>6. /\ b.pool \in Seq(1 .. MAX_TIMER_CAPACITY) /\ Len(b.pool) \in Nat /\ Len(b.lookup) \in Nat
      /\ 1 \in 1 .. Len(b.pool) /\ h.index = b.pool[1] /\ h.version = version
      /\ h \in HandleRecord
  <2>1. b.pool \in Seq(1 .. MAX_TIMER_CAPACITY) /\ Len(b.pool) \in Nat /\ Len(b.lookup) \in Nat
    BY <1>4, WorldFields
  <2>2. 1 \in 1 .. Len(b.pool)
    BY <1>4, <2>1, EmptySeq
  <2>3. h.index = b.pool[1] /\ h.version = version
    BY <1>3, <1>5
  <2>4. b.pool[1] \in 1 .. MAX_TIMER_CAPACITY
    BY <2>1, <2>2, ElementOfSeq
  <2>5. h \in HandleRecord
    BY <1>1, <1>5, <2>3, <2>4 DEF HandleRecord
  <2> QED
    BY <2>1, <2>2, <2>3, <2>5
<1>7. PICK t : t = [id |-> Len(given) + 1, handle |-> h, owner |-> o, delay |-> d, remaining |-> d,
                    repeat |-> r, alive |-> TRUE, valid |-> TRUE]
  OBVIOUS
<1>8. /\ timers' = Append(timers, t) /\ lookup' = [LookupBefore EXCEPT ![h.index] = Len(timers) + 1]
      /\ given' = Append(given, h) /\ pool' = Tail(PoolBefore) /\ UNCHANGED <<version, pc, walk>>
      /\ Len(given) < MaxTimers
  BY <1>5, <1>7 DEF AddTimer
<1>9. /\ t.id = Len(given) + 1 /\ t.owner = o /\ t.delay = d /\ t.remaining = d
      /\ t.repeat = r /\ t.alive = TRUE /\ t.handle = h
  BY <1>7
<1>10. Len(given) + 1 \in Ids /\ Len(given) \in Nat /\ Len(given) + 1 <= MaxTimers
  <2>1. Len(given) \in Nat
    BY <1>1, WorldTypes
  <2> QED
    BY <1>8, <2>1, TimersAssumption DEF Ids
<1>11. t \in TimerRecord
  <2>1. d \in Int
    BY TimersAssumption
  <2> QED
    BY <1>6, <1>7, <1>10, <2>1 DEF TimerRecord
<1>12. PICK v : v = [timers |-> Append(b.timers, t),
                     lookup |-> [b.lookup EXCEPT ![t.handle.index] = Len(b.timers) + 1],
                     pool |-> Tail(b.pool)]
  OBVIOUS
<1>13. World' = v /\ v.lookup = lookup' /\ v.pool = pool' /\ v.timers = timers'
  BY <1>3, <1>8, <1>9, <1>12 DEF World
<1>14. t.handle.index = Head(b.pool)
  BY <1>3, <1>5, <1>9
<1>15. /\ v \in WorldRecord /\ Indexed(v)
       /\ \A k \in 1 .. Len(v.pool) : \E l \in 1 .. Len(b.pool) : v.pool[k] = b.pool[l] /\ l # 1
  BY ZenonT(60), <1>4, <1>11, <1>12, <1>14, AllocateFacts
<1>16. /\ Len(timers') = Len(timers) + 1 /\ timers'[Len(timers) + 1] = t
       /\ \A p \in 1 .. Len(timers) : timers'[p] = timers[p]
  BY <1>1, <1>8, <1>11, WorldTypes, AppendProperties
<1>17. /\ Len(given') = Len(given) + 1 /\ given'[Len(given) + 1] = h
       /\ \A x \in 1 .. Len(given) : given'[x] = given[x]
       /\ given' \in Seq(HandleRecord)
  BY <1>1, <1>6, <1>8, WorldTypes, AppendProperties
<1>18. DistinctIds(v)
  <2>1. PICK n \in Nat : n = Len(timers)
    BY <1>1, WorldTypes
  <2>2. \A p \in 1 .. n : timers[p].id \in Nat /\ timers[p].id <= Len(given)
    BY <1>1, <2>1, WorldTypes, TimerFields DEF GivenInv
  <2>3. \A p, q \in 1 .. n : timers[p].id = timers[q].id => p = q
    BY <1>1, <2>1, WorldVars DEF Sound, DistinctIds
  <2>4. \A p \in 1 .. n + 1 : p \in 1 .. n \/ p = n + 1
    BY <2>1
  <2>5. Len(given) + 1 \in Nat /\ \A p \in 1 .. n : timers[p].id # Len(given) + 1
    BY <1>10, <2>2
  <2>6. \A p, q \in 1 .. n + 1 : timers'[p].id = timers'[q].id => p = q
    BY <1>9, <1>16, <2>1, <2>3, <2>4, <2>5
  <2> QED
    BY SMTT(60), <1>13, <1>16, <2>1, <2>6 DEF DistinctIds
<1>19. Len(lookup') = Len(b.lookup)
  BY <1>4, <1>6, <1>3, <1>8, WorldFields
<1>20. h.index <= Len(b.lookup)
  BY <1>4, <1>6 DEF Indexed
<1>21. \A k \in 1 .. Len(pool') : pool'[k] # h.index
  BY <1>4, <1>6, <1>13, <1>15 DEF Indexed, NoDup
<1>22. \A k \in 1 .. Len(pool') :
         pool'[k] > Len(lookup) \/ \E l \in 1 .. Len(pool) : pool[l] = pool'[k]
  BY <1>4, <1>13, <1>15
<1>23. h.index > Len(lookup) \/ \E l \in 1 .. Len(pool) : pool[l] = h.index
  BY <1>4, <1>6
<1>24. Sound(World')
  BY <1>13, <1>15, <1>18 DEF Sound
<1>25. Adds(t, o, d, r)
  BY <1>4, <1>6, <1>8, <1>9, <1>10, <1>16, <1>17, <1>19, <1>20, <1>21, <1>22, <1>23, <1>24 DEF Adds
<1> QED
  BY <1>11, <1>25

-----------------------------------------------------------------------------
(* The walk. *)

\* The timer the walk is at.
LEMMA WalkFacts ==
  ASSUME IndInv, Walking \/ pc = "callback"
  PROVE  /\ walk.i \in Nat /\ walk.size \in Nat /\ walk.dt \in Nat
         /\ walk.i \in 1 .. Len(timers) /\ walk.i <= walk.size /\ walk.size <= Len(timers)
         /\ timers[walk.i] \in TimerRecord
<1>1. Typed /\ walk.i \in Nat /\ walk.size \in Nat /\ walk.dt \in Nat
  BY DEF IndInv, Typed
<1>2. walk.i >= 1 /\ walk.i <= walk.size /\ walk.size <= Len(timers)
  BY DEF IndInv, WalkInv, InUpdate, Walking
<1>3. walk.i \in 1 .. Len(timers)
  BY <1>1, <1>2, WorldTypes
<1> QED
  BY <1>1, <1>2, <1>3, WorldTypes

\* PassTimer: the time of a timer passes and is not over.
LEMMA PassEffect ==
  ASSUME IndInv, PassTimer
  PROVE  /\ Sound(World') /\ InPlace /\ UNCHANGED <<version, pc, given>>
         /\ walk' = [walk EXCEPT !.i = walk.i + 1]
         /\ timers'[walk.i].alive = timers[walk.i].alive
         /\ timers[walk.i].alive => /\ timers'[walk.i].remaining = timers[walk.i].remaining - walk.dt
                                    /\ timers[walk.i].remaining - walk.dt > 0
         /\ \A q \in 1 .. Len(timers) : q # walk.i => timers'[q] = timers[q]
<1>1. Typed /\ Sound(World)
  BY DEF IndInv, Sound, Typed
<1>2. PICK p : p = walk.i
  OBVIOUS
<1>3. p \in 1 .. Len(timers) /\ timers[p] \in TimerRecord /\ walk.dt \in Nat
  BY <1>2, WalkFacts DEF PassTimer
<1>4. PICK r : r = IF timers[p].alive THEN timers[p].remaining - walk.dt ELSE timers[p].remaining
  OBVIOUS
<1>5. r \in Int
  BY <1>3, <1>4, TimerFields
<1>6. PICK u : u = [timers[p] EXCEPT !.remaining = r]
  OBVIOUS
<1>7. u \in TimerRecord /\ Same(u, timers[p]) /\ u.alive = timers[p].alive /\ u.remaining = r
  BY <1>3, <1>5, <1>6, Passed
<1>8. timers' = [timers EXCEPT ![p] = u] /\ lookup' = lookup /\ pool' = pool
  BY <1>2, <1>4, <1>6 DEF PassTimer, Left, Here
<1>9. /\ UNCHANGED <<version, pc, given>> /\ walk' = [walk EXCEPT !.i = walk.i + 1]
      /\ timers[p].alive => timers[p].remaining - walk.dt > 0
  BY <1>2 DEF PassTimer, Left, Here
<1>10. /\ Sound(World') /\ InPlace
       /\ timers'[p] = u /\ \A q \in 1 .. Len(timers) : q # p => timers'[q] = timers[q]
  BY <1>1, <1>3, <1>7, <1>8, TouchOne
<1> QED
  BY <1>2, <1>4, <1>7, <1>9, <1>10

\* CallTimer: the time of a timer is up.
LEMMA CallEffect ==
  ASSUME IndInv, CallTimer
  PROVE  /\ Sound(World') /\ InPlace /\ UNCHANGED <<version, walk, given>> /\ pc' = "callback"
         /\ timers[walk.i].alive /\ timers'[walk.i].alive
         /\ timers'[walk.i].remaining <= 0
         /\ \A q \in 1 .. Len(timers) : q # walk.i => timers'[q] = timers[q]
<1>1. Typed /\ Sound(World)
  BY DEF IndInv, Sound, Typed
<1>2. PICK p : p = walk.i
  OBVIOUS
<1>3. p \in 1 .. Len(timers) /\ timers[p] \in TimerRecord /\ walk.dt \in Nat
  BY <1>2, WalkFacts DEF CallTimer
<1>4. PICK r : r = timers[p].remaining - walk.dt
  OBVIOUS
<1>5. r \in Int
  BY <1>3, <1>4, TimerFields
<1>6. PICK u : u = [timers[p] EXCEPT !.remaining = r]
  OBVIOUS
<1>7. u \in TimerRecord /\ Same(u, timers[p]) /\ u.alive = timers[p].alive /\ u.remaining = r
  BY <1>3, <1>5, <1>6, Passed
<1>8. timers' = [timers EXCEPT ![p] = u] /\ lookup' = lookup /\ pool' = pool
  BY <1>2, <1>4, <1>6 DEF CallTimer, Left, Here
<1>9. UNCHANGED <<version, walk, given>> /\ pc' = "callback" /\ timers[p].alive /\ r <= 0
  BY <1>2, <1>4 DEF CallTimer, Left, Here
<1>10. /\ Sound(World') /\ InPlace
       /\ timers'[p] = u /\ \A q \in 1 .. Len(timers) : q # p => timers'[q] = timers[q]
  BY <1>1, <1>3, <1>7, <1>8, TouchOne
<1> QED
  BY <1>2, <1>7, <1>9, <1>10

\* The next call of a repeating timer is in time, however many periods were skipped.
LEMMA WrappedInTime ==
  ASSUME NEW t, t.delay \in Nat, t.remaining \in Int, t.remaining <= 0
  PROVE  /\ Wrapped(t) \in Int
         /\ IF t.delay = 0 THEN Wrapped(t) = 0 ELSE Wrapped(t) \in 1 .. t.delay
<1>1. CASE t.delay = 0
  BY <1>1 DEF Wrapped
<1>2. CASE t.delay # 0
  <2>1. PICK d \in Nat, r \in Int : d = t.delay /\ r = t.remaining /\ d > 0 /\ r <= 0
    BY <1>2
  <2>2. PICK q \in Int : q = (-r) \div d
    BY <2>1
  <2>3. PICK m \in Int : m = q * d
    OBVIOUS
  <2>4. m <= -r /\ -r < m + d
    BY <2>1, <2>2, <2>3
  <2>5. (q + 1) * d = m + d
    BY <2>3
  <2>6. Wrapped(t) = r + (m + d)
    BY <2>1, <2>2, <2>5 DEF Wrapped
  <2>7. r + (m + d) \in 1 .. d
    BY <2>1, <2>3, <2>4
  <2> QED
    BY <1>2, <2>1, <2>6, <2>7
<1> QED
  BY <1>1, <1>2

\* What a callback leaves of its timer.
LEMMA CalledTimer ==
  ASSUME NEW t \in TimerRecord, NEW u, u = Called(t), t.alive => t.remaining <= 0
  PROVE  /\ u \in TimerRecord /\ Same(u, t) /\ u.alive = (t.alive /\ t.repeat)
         /\ u.alive => InTime(u)
<1>1. /\ t.delay \in Nat /\ t.remaining \in Int
      /\ t.repeat \in BOOLEAN /\ t.alive \in BOOLEAN /\ t.valid \in BOOLEAN
  BY TimerFields
<1>2. CASE ~t.alive
  <2>1. PICK a \in BOOLEAN : a = (t.valid /\ t.repeat)
    OBVIOUS
  <2>2. u = [t EXCEPT !.valid = a]
    BY <1>2, <2>1 DEF Called
  <2> QED
    BY <1>1, <1>2, <2>2, Invalidated
<1>3. CASE t.alive /\ t.repeat
  <2>1. u = [t EXCEPT !.remaining = Wrapped(t)]
    BY <1>3 DEF Called
  <2>2. /\ Wrapped(t) \in Int
        /\ IF t.delay = 0 THEN Wrapped(t) = 0 ELSE Wrapped(t) \in 1 .. t.delay
    BY <1>1, <1>3, WrappedInTime
  <2>3. u \in TimerRecord /\ Same(u, t) /\ u.alive = t.alive /\ u.remaining = Wrapped(t)
    BY <2>1, <2>2, Passed
  <2> QED
    BY <1>1, <1>3, <2>2, <2>3 DEF InTime, Same
<1>4. CASE t.alive /\ ~t.repeat
  <2>1. u = [t EXCEPT !.alive = FALSE, !.valid = FALSE]
    BY <1>4 DEF Called
  <2>2. u \in TimerRecord /\ Same(u, t) /\ u.alive = FALSE
    BY <2>1, Cancelled
  <2> QED
    BY <1>4, <2>2
<1> QED
  BY <1>2, <1>3, <1>4

\* CallbackReturns: the timer is in time again, or dead.
LEMMA ReturnEffect ==
  ASSUME IndInv, CallbackReturns
  PROVE  /\ Sound(World') /\ InPlace /\ UNCHANGED <<version, given>> /\ pc' = "walk"
         /\ walk' = [walk EXCEPT !.i = walk.i + 1]
         /\ timers'[walk.i].alive = (timers[walk.i].alive /\ timers[walk.i].repeat)
         /\ timers'[walk.i].alive => InTime(timers'[walk.i])
         /\ \A q \in 1 .. Len(timers) : q # walk.i => timers'[q] = timers[q]
<1>1. Typed /\ Sound(World)
  BY DEF IndInv, Sound, Typed
<1>2. PICK p : p = walk.i
  OBVIOUS
<1>3. p \in 1 .. Len(timers) /\ timers[p] \in TimerRecord
  BY <1>2, WalkFacts DEF CallbackReturns
<1>4. PICK u : u = Called(timers[p])
  OBVIOUS
<1>5. timers[p].alive => timers[p].remaining <= 0
  BY <1>2, <1>3 DEF IndInv, TimeInv, CallbackReturns
<1>6. /\ u \in TimerRecord /\ Same(u, timers[p]) /\ u.alive = (timers[p].alive /\ timers[p].repeat)
      /\ u.alive => InTime(u)
  BY <1>3, <1>4, <1>5, CalledTimer
<1>7. /\ timers' = [timers EXCEPT ![p] = u] /\ lookup' = lookup /\ pool' = pool
      /\ UNCHANGED <<version, given>> /\ pc' = "walk" /\ walk' = [walk EXCEPT !.i = walk.i + 1]
  BY <1>2, <1>4 DEF CallbackReturns
<1>8. /\ Sound(World') /\ InPlace
      /\ timers'[p] = u /\ \A q \in 1 .. Len(timers) : q # p => timers'[q] = timers[q]
  BY <1>1, <1>3, <1>6, <1>7, TouchOne
<1> QED
  BY <1>2, <1>6, <1>7, <1>8

-----------------------------------------------------------------------------
(* Every step preserves the invariant. *)

\* Whatever timers are left keep their handles.
LEMMA GivenKept ==
  ASSUME GivenInv, given' = given,
         \A p \in 1 .. Len(timers') : \E q \in 1 .. Len(timers) : Same(timers'[p], timers[q])
  PROVE  GivenInv'
  BY DEF GivenInv, Same

\* A new version is a version.
LEMMA VersionType ==
  ASSUME Typed, NextVersion \/ UNCHANGED version
  PROVE  version' \in 0 .. VersionRange - 1
<1>1. version \in 0 .. VersionRange - 1 /\ VersionRange \in Nat /\ VersionRange > 0
  BY TimersAssumption DEF Typed
<1>2. (version + 1) % VersionRange \in 0 .. VersionRange - 1
  BY <1>1
<1> QED
  BY <1>1, <1>2 DEF NextVersion

\* Steps that leave every timer in its place keep handles.
LEMMA InPlaceGiven ==
  ASSUME IndInv, InPlace, given' = given
  PROVE  GivenInv'
<1>1. \A p \in 1 .. Len(timers') : p \in 1 .. Len(timers) /\ Same(timers'[p], timers[p])
  BY DEF InPlace
<1> QED
  BY <1>1, GivenKept DEF IndInv

\* Steps that only take timers away keep handles, the timers' state and their time.
LEMMA FewerGiven ==
  ASSUME IndInv, given' = given, \A t : Has(World', t) => Has(World, t)
  PROVE  /\ GivenInv'
         /\ \A p \in 1 .. Len(timers') : \E q \in 1 .. Len(timers) : timers'[p] = timers[q]
<1>1. ASSUME NEW p \in 1 .. Len(timers') PROVE \E q \in 1 .. Len(timers) : timers'[p] = timers[q]
  <2>1. World'.timers = timers'
    BY DEF World
  <2>2. Has(World', timers'[p])
    BY <2>1 DEF Has
  <2>3. Has(World, timers'[p])
    BY <2>2
  <2> QED
    BY <2>3, WorldVars DEF Has
<1>2. \A p \in 1 .. Len(timers') : \E q \in 1 .. Len(timers) : Same(timers'[p], timers[q])
  BY SMTT(60), <1>1 DEF Same
<1> QED
  BY <1>1, <1>2, GivenKept DEF IndInv

\* AddTimer.
LEMMA AddStep ==
  ASSUME IndInv, NEW o \in Owners, NEW d \in Delays, NEW r \in BOOLEAN, AddTimer(o, d, r)
  PROVE  IndInv'
<1>1. Typed /\ GivenInv /\ WalkInv /\ TimeInv
  BY DEF IndInv
<1>2. PICK t \in TimerRecord :
        /\ t.id = Len(given) + 1 /\ t.delay = d /\ t.remaining = d /\ t.alive = TRUE
        /\ Len(timers') = Len(timers) + 1
        /\ timers'[Len(timers) + 1] = t /\ \A p \in 1 .. Len(timers) : timers'[p] = timers[p]
        /\ Len(given') = Len(given) + 1
        /\ given'[Len(given) + 1] = t.handle /\ \A x \in 1 .. Len(given) : given'[x] = given[x]
        /\ given' \in Seq(HandleRecord) /\ Len(given) + 1 <= MaxTimers
        /\ Sound(World')
        /\ UNCHANGED <<version, pc, walk>>
  <2>1. PICK t \in TimerRecord : Adds(t, o, d, r)
    BY SMTT(60), AddEffect
  <2> QED
    BY SMTT(60), <2>1 DEF Adds
<1>3. PICK n \in Nat, m \in Nat : n = Len(timers) /\ m = Len(given)
  BY ZenonT(60), <1>1, WorldTypes
<1>4. \A p \in 1 .. n + 1 : p \in 1 .. n \/ p = n + 1
  OBVIOUS
<1>5. Typed'
  BY <1>1, <1>2 DEF Typed, Sound
<1>6. GivenInv'
  <2>1. \A p \in 1 .. n : timers[p].id \in 1 .. m /\ timers[p].handle = given[timers[p].id]
    BY <1>1, <1>3, WorldTypes, TimerFields DEF GivenInv
  <2>2. ASSUME NEW p \in 1 .. n + 1
        PROVE  timers'[p].id <= m + 1 /\ timers'[p].handle = given'[timers'[p].id]
    <3>1. CASE p \in 1 .. n
      BY <1>2, <1>3, <2>1, <3>1
    <3>2. CASE p = n + 1
      BY <1>2, <1>3, <3>2
    <3> QED
      BY <1>4, <3>1, <3>2
  <2> QED
    BY <1>2, <1>3, <2>2 DEF GivenInv
<1>7. WalkInv'
  <2>1. walk.i \in Nat /\ walk.size \in Nat /\ pc # "sweep" /\ InUpdate' = InUpdate
    BY <1>1, <1>2 DEF Typed, AddTimer, Script, InUpdate
  <2> QED
    BY <1>1, <1>2, <1>3, <2>1 DEF WalkInv
<1>8. TimeInv'
  <2>1. pc # "sweep" /\ pc' = pc /\ walk' = walk /\ (pc = "callback" => walk.i # n + 1)
    BY <1>1, <1>2, <1>3 DEF Typed, WalkInv, InUpdate, AddTimer, Script
  <2>2. InTime(t)
    BY <1>2, TimersAssumption DEF InTime
  <2>3. ASSUME NEW p \in 1 .. n + 1, timers'[p].alive
        PROVE  IF pc = "callback" /\ p = walk.i THEN timers'[p].remaining <= 0 ELSE InTime(timers'[p])
    <3>1. CASE p \in 1 .. n
      BY <1>1, <1>2, <1>3, <2>3, <3>1 DEF TimeInv
    <3>2. CASE p = n + 1
      BY <1>2, <1>3, <2>1, <2>2, <3>2
    <3> QED
      BY <1>4, <3>1, <3>2
  <2>4. pc = "idle" => \A p \in 1 .. n + 1 : timers'[p].alive
    BY <1>1, <1>2, <1>3, <1>4 DEF TimeInv
  <2> QED
    BY <1>2, <1>3, <2>1, <2>3, <2>4 DEF TimeInv
<1> QED
  BY <1>2, <1>5, <1>6, <1>7, <1>8 DEF IndInv, Sound

\* Steps of the script that keep every timer in its place: each timer's time is kept.
LEMMA MarkStep ==
  ASSUME IndInv, pc = "callback", Sound(World'), InPlace, UNCHANGED <<pc, walk, given>>,
         NextVersion \/ UNCHANGED version,
         \A q \in 1 .. Len(timers) :
           timers'[q].alive => timers[q].alive /\ timers'[q].remaining = timers[q].remaining
  PROVE  IndInv'
<1>1. Typed'
  BY VersionType DEF IndInv, Typed, Sound
<1>2. GivenInv'
  BY InPlaceGiven
<1>3. WalkInv'
  BY DEF IndInv, WalkInv, InPlace, InUpdate
<1>4. TimeInv'
  <2>1. ASSUME NEW q \in 1 .. Len(timers), timers'[q].alive
        PROVE  IF q = walk.i THEN timers'[q].remaining <= 0 ELSE InTime(timers'[q])
    BY <2>1 DEF IndInv, TimeInv, InPlace, InTime, Same
  <2> QED
    BY <2>1 DEF TimeInv, InPlace
<1> QED
  BY <1>1, <1>2, <1>3, <1>4 DEF IndInv, Sound

\* Steps of the script that take timers away.
LEMMA FreeStep ==
  ASSUME IndInv, pc = "idle", Sound(World'), UNCHANGED <<pc, walk, given>>,
         NextVersion \/ UNCHANGED version, \A t : Has(World', t) => Has(World, t)
  PROVE  IndInv'
<1>1. Typed'
  BY VersionType DEF IndInv, Typed, Sound
<1>2. GivenInv' /\ \A p \in 1 .. Len(timers') : \E q \in 1 .. Len(timers) : timers'[p] = timers[q]
  BY FewerGiven
<1>3. WalkInv'
  BY DEF IndInv, WalkInv, InUpdate
<1>4. TimeInv'
  BY <1>2 DEF IndInv, TimeInv
<1> QED
  BY <1>1, <1>2, <1>3, <1>4 DEF IndInv, Sound

\* CancelTimer.
LEMMA CancelStep ==
  ASSUME IndInv, NEW x, CancelTimer(x)
  PROVE  IndInv'
<1>1. CASE pc = "callback"
  <2>1. PICK p \in 1 .. Len(timers) :
           /\ timers[p].alive /\ Sound(World') /\ InPlace
           /\ timers'[p].alive = FALSE /\ timers'[p].remaining = timers[p].remaining
           /\ \A q \in 1 .. Len(timers) : q # p => timers'[q] = timers[q]
           /\ UNCHANGED <<version, pc, walk, given>>
    BY <1>1, CancelMarks
  <2>2. \A q \in 1 .. Len(timers) :
           timers'[q].alive => timers[q].alive /\ timers'[q].remaining = timers[q].remaining
    BY <2>1
  <2> QED
    BY <1>1, <2>1, <2>2, MarkStep
<1>2. CASE pc = "idle"
  <2>1. /\ Sound(World') /\ \A t : Has(World', t) => Has(World, t)
        /\ NextVersion /\ UNCHANGED <<pc, walk, given>>
    BY <1>2, CancelFrees
  <2> QED
    BY <1>2, <2>1, FreeStep
<1> QED
  BY <1>1, <1>2 DEF CancelTimer, Script

\* KillTimers.
LEMMA KillStep ==
  ASSUME IndInv, NEW o, KillTimers(o)
  PROVE  IndInv'
<1>1. CASE pc = "callback"
  BY <1>1, KillMarks, MarkStep
<1>2. CASE pc = "idle"
  BY <1>2, KillFrees, FreeStep
<1> QED
  BY <1>1, <1>2 DEF KillTimers, Script

\* The walk moves on, over a timer that is in time or dead.
LEMMA WalkStep ==
  ASSUME IndInv, Walking \/ pc = "callback", Sound(World'), InPlace, UNCHANGED <<version, given>>,
         pc' = "walk", walk' = [walk EXCEPT !.i = walk.i + 1],
         timers'[walk.i].alive => InTime(timers'[walk.i]),
         \A q \in 1 .. Len(timers) : q # walk.i => timers'[q] = timers[q]
  PROVE  IndInv'
<1>1. Typed /\ walk \in [i : Nat, size : Nat, dt : Nat]
  BY DEF IndInv, Typed
<1>2. walk' \in [i : Nat, size : Nat, dt : Nat] /\ walk'.i = walk.i + 1 /\ walk'.size = walk.size
  BY <1>1
<1>3. Typed'
  BY <1>1, <1>2 DEF Typed, Sound
<1>4. GivenInv'
  BY InPlaceGiven
<1>5. WalkInv'
  BY <1>2, WalkFacts DEF WalkInv, InPlace, InUpdate
<1>6. TimeInv'
  <2>1. ASSUME NEW q \in 1 .. Len(timers), timers'[q].alive PROVE InTime(timers'[q])
    BY <2>1 DEF IndInv, TimeInv
  <2> QED
    BY <2>1 DEF TimeInv, InPlace
<1> QED
  BY <1>3, <1>4, <1>5, <1>6 DEF IndInv, Sound

\* PassTimer.
LEMMA PassStep ==
  ASSUME IndInv, PassTimer
  PROVE  IndInv'
<1>1. PICK p : p = walk.i
  OBVIOUS
<1>2. /\ p \in 1 .. Len(timers) /\ timers[p] \in TimerRecord /\ walk.dt \in Nat /\ Walking
  BY <1>1, WalkFacts DEF PassTimer
<1>3. /\ Sound(World') /\ InPlace /\ UNCHANGED <<version, pc, given>>
      /\ walk' = [walk EXCEPT !.i = walk.i + 1]
      /\ timers'[p].alive = timers[p].alive
      /\ timers[p].alive => /\ timers'[p].remaining = timers[p].remaining - walk.dt
                            /\ timers[p].remaining - walk.dt > 0
      /\ \A q \in 1 .. Len(timers) : q # p => timers'[q] = timers[q]
  BY <1>1, PassEffect
<1>4. ASSUME timers'[p].alive PROVE InTime(timers'[p])
  <2>1. InTime(timers[p])
    BY <1>2, <1>3, <1>4 DEF IndInv, TimeInv, Walking
  <2>2. timers'[p].delay = timers[p].delay
    BY <1>2, <1>3 DEF InPlace, Same
  <2>3. timers[p].delay \in Nat /\ timers[p].remaining \in Int
    BY <1>2, TimerFields
  <2>4. PICK r \in Int, e \in Nat, z \in Nat : r = timers[p].remaining /\ e = timers[p].delay /\ z = walk.dt
    BY <1>2, <2>3
  <2>5. r - z > 0 /\ (IF e = 0 THEN r = 0 ELSE r \in 1 .. e)
    BY <1>3, <1>4, <2>1, <2>4 DEF InTime
  <2>6. e # 0 /\ r - z \in 1 .. e
    BY <2>5
  <2> QED
    BY <1>3, <1>4, <2>2, <2>4, <2>6 DEF InTime
<1>5. pc' = "walk"
  BY <1>2, <1>3 DEF Walking
<1> QED
  BY <1>1, <1>2, <1>3, <1>4, <1>5, WalkStep

\* CallTimer.
LEMMA CallStep ==
  ASSUME IndInv, CallTimer
  PROVE  IndInv'
<1>1. Walking /\ pc = "walk"
  BY DEF CallTimer, Walking
<1>2. /\ Sound(World') /\ InPlace /\ UNCHANGED <<version, walk, given>> /\ pc' = "callback"
      /\ timers'[walk.i].remaining <= 0
      /\ \A q \in 1 .. Len(timers) : q # walk.i => timers'[q] = timers[q]
  BY CallEffect
<1>3. Typed'
  BY <1>2 DEF IndInv, Typed, Sound
<1>4. GivenInv'
  BY <1>2, InPlaceGiven
<1>5. WalkInv'
  BY <1>1, <1>2, WalkFacts DEF WalkInv, InPlace, InUpdate
<1>6. TimeInv'
  <2>1. ASSUME NEW q \in 1 .. Len(timers), timers'[q].alive
        PROVE  IF q = walk.i THEN timers'[q].remaining <= 0 ELSE InTime(timers'[q])
    BY <1>1, <1>2, <2>1 DEF IndInv, TimeInv
  <2> QED
    BY <1>2, <2>1 DEF TimeInv, InPlace
<1> QED
  BY <1>2, <1>3, <1>4, <1>5, <1>6 DEF IndInv, Sound

\* CallbackReturns.
LEMMA ReturnStep ==
  ASSUME IndInv, CallbackReturns
  PROVE  IndInv'
<1>1. pc = "callback"
  BY DEF CallbackReturns
<1> QED
  BY <1>1, ReturnEffect, WalkStep

\* Steps that leave the world alone keep what is said of it.
LEMMA SameWorld ==
  ASSUME IndInv, UNCHANGED <<worldVars, given>>
  PROVE  World' = World /\ Sound(World') /\ GivenInv'
  BY DEF IndInv, Typed, Sound, World, worldVars, GivenInv

\* UpdateTimers.
LEMMA UpdateStep ==
  ASSUME IndInv, NEW dt \in Steps, UpdateTimers(dt)
  PROVE  IndInv'
<1>1. /\ pc = "idle" /\ UNCHANGED <<worldVars, version, given>> /\ timers' = timers
      /\ pc' = "walk" /\ walk' = [i |-> 1, size |-> Len(timers), dt |-> dt]
  BY DEF UpdateTimers, worldVars
<1>2. World' = World /\ Sound(World') /\ GivenInv'
  BY <1>1, SameWorld
<1>3. Typed /\ Len(timers) \in Nat /\ dt \in Nat
  BY WorldTypes, TimersAssumption DEF IndInv
<1>4. Typed'
  BY <1>1, <1>2, <1>3 DEF Typed
<1>5. WalkInv'
  BY <1>1, <1>3 DEF WalkInv, InUpdate
<1>6. TimeInv'
  BY <1>1 DEF IndInv, TimeInv
<1> QED
  BY <1>2, <1>4, <1>5, <1>6 DEF IndInv, Sound

\* EndWalk.
LEMMA EndWalkStep ==
  ASSUME IndInv, EndWalk
  PROVE  IndInv'
<1>1. /\ pc = "walk" /\ UNCHANGED <<worldVars, version, given>> /\ timers' = timers
      /\ pc' = "sweep" /\ walk' = [walk EXCEPT !.i = 1, !.size = Len(timers)]
  BY DEF EndWalk, worldVars
<1>2. World' = World /\ Sound(World') /\ GivenInv'
  BY <1>1, SameWorld
<1>3. Typed /\ Len(timers) \in Nat /\ walk \in [i : Nat, size : Nat, dt : Nat]
  BY WorldTypes DEF IndInv, Typed
<1>4. walk' \in [i : Nat, size : Nat, dt : Nat] /\ walk'.i = 1 /\ walk'.size = Len(timers)
  BY <1>1, <1>3
<1>5. Typed'
  BY <1>1, <1>2, <1>3, <1>4 DEF Typed
<1>6. WalkInv'
  BY <1>1, <1>3, <1>4 DEF WalkInv, InUpdate
<1>7. TimeInv'
  <2>1. \A p \in 1 .. Len(timers) : ~(p < 1)
    OBVIOUS
  <2> QED
    BY <1>1, <1>4, <2>1 DEF IndInv, TimeInv
<1> QED
  BY <1>2, <1>5, <1>6, <1>7 DEF IndInv, Sound

\* SweepTimer.
LEMMA SweepStep ==
  ASSUME IndInv, SweepTimer
  PROVE  IndInv'
<1>1. Typed /\ WalkInv /\ TimeInv /\ walk \in [i : Nat, size : Nat, dt : Nat] /\ pc = "sweep"
  BY DEF IndInv, Typed, SweepTimer
<1>2. walk.i \in 1 .. Len(timers) /\ UNCHANGED <<version, pc, given>>
  BY SMTT(60), SweepEffect
<1>3. PICK n \in Nat : n = Len(timers)
  BY <1>1, WorldTypes
<1>4. CASE timers[walk.i].alive /\ World' = World /\ walk' = [walk EXCEPT !.i = walk.i + 1]
  <2>1. UNCHANGED worldVars /\ timers' = timers
    BY <1>4 DEF World, worldVars
  <2>2. Sound(World') /\ GivenInv'
    BY <1>2, <2>1, SameWorld
  <2>3. walk' \in [i : Nat, size : Nat, dt : Nat] /\ walk'.i = walk.i + 1 /\ walk'.size = walk.size
    BY <1>1, <1>4
  <2>4. Typed'
    BY <1>1, <1>2, <2>2, <2>3 DEF Typed, Sound
  <2>5. WalkInv'
    <3>1. walk.i + 1 >= 1 /\ walk.i + 1 <= Len(timers) + 1
      BY <1>1, <1>2, <1>3
    <3> QED
      BY <1>1, <1>2, <2>1, <2>3, <3>1 DEF WalkInv, InUpdate
  <2>6. TimeInv'
    <3>1. \A p \in 1 .. Len(timers) : p < walk.i + 1 => p < walk.i \/ p = walk.i
      BY <1>1
    <3> QED
      BY <1>1, <1>2, <1>4, <2>1, <2>3, <3>1 DEF TimeInv
  <2> QED
    BY <2>2, <2>4, <2>5, <2>6 DEF IndInv, Sound
<1>5. CASE /\ ~timers[walk.i].alive /\ walk' = walk /\ Sound(World')
           /\ Len(lookup') = Len(lookup) /\ Len(timers') = Len(timers) - 1
           /\ \A q \in 1 .. Len(timers) - 1 :
                timers'[q] = IF q = walk.i THEN timers[Len(timers)] ELSE timers[q]
           /\ \A t : Has(World', t) <=> Has(World, t) /\ t.id # timers[walk.i].id
  <2>1. GivenInv'
    BY <1>2, <1>5, FewerGiven
  <2>2. Typed'
    BY <1>1, <1>2, <1>5 DEF Typed, Sound
  <2>3. WalkInv'
    <3>1. walk.i >= 1 /\ walk.i <= (n - 1) + 1 /\ n - 1 <= walk.size
      BY <1>1, <1>2, <1>3 DEF WalkInv
    <3> QED
      BY <1>1, <1>2, <1>3, <1>5, <3>1 DEF WalkInv, InUpdate
  <2>4. TimeInv'
    <3>1. ASSUME NEW q \in 1 .. n - 1
          PROVE  /\ timers'[q].alive => InTime(timers'[q])
                 /\ q < walk.i => timers'[q].alive
      <4>1. q \in 1 .. n /\ n \in 1 .. n /\ timers'[q] = IF q = walk.i THEN timers[n] ELSE timers[q]
        BY <1>3, <1>5
      <4>2. \A p \in 1 .. n : timers[p].alive => InTime(timers[p])
        BY <1>1, <1>3 DEF TimeInv
      <4>3. q < walk.i => timers[q].alive /\ q # walk.i
        BY <1>1, <1>3, <4>1 DEF TimeInv
      <4> QED
        BY <4>1, <4>2, <4>3
    <3> QED
      BY <1>1, <1>2, <1>3, <1>5, <3>1 DEF TimeInv
  <2> QED
    BY <1>5, <2>1, <2>2, <2>3, <2>4 DEF IndInv, Sound
<1> QED
  BY <1>4, <1>5, SweepEffect

\* EndUpdate.
LEMMA EndUpdateStep ==
  ASSUME IndInv, EndUpdate
  PROVE  IndInv'
<1>1. /\ pc = "sweep" /\ UNCHANGED <<worldVars, given>> /\ timers' = timers
      /\ pc' = "idle" /\ walk' = NoWalk /\ walk.i > Len(timers)
      /\ NextVersion \/ UNCHANGED version
  BY DEF EndUpdate, worldVars
<1>2. World' = World /\ Sound(World') /\ GivenInv'
  BY <1>1, SameWorld
<1>3. Typed /\ walk.i \in Nat /\ Len(timers) \in Nat
  BY WorldTypes DEF IndInv, Typed
<1>4. Typed'
  <2>1. walk' \in [i : Nat, size : Nat, dt : Nat]
    BY <1>1 DEF NoWalk
  <2>2. version' \in 0 .. VersionRange - 1
    BY <1>1, <1>3, VersionType
  <2> QED
    BY <1>1, <1>2, <1>3, <2>1, <2>2 DEF Typed
<1>5. WalkInv'
  BY <1>1 DEF WalkInv, InUpdate
<1>6. TimeInv'
  <2>1. \A p \in 1 .. Len(timers) : p < walk.i
    BY <1>1, <1>3
  <2> QED
    BY <1>1, <2>1 DEF IndInv, TimeInv
<1> QED
  BY <1>2, <1>4, <1>5, <1>6 DEF IndInv, Sound

\* NewTimerWorld.
LEMMA InitStep == Init => IndInv
<1> SUFFICES ASSUME Init PROVE IndInv
  OBVIOUS
<1>1. PICK c \in Nat : c = INITIAL_TIMER_CAPACITY /\ c <= MAX_TIMER_CAPACITY /\ c >= 1
  BY TimersAssumption
<1>2. lookup \in [1 .. c -> 1 .. MAX_TIMER_CAPACITY]
  <2>1. 1 \in 1 .. MAX_TIMER_CAPACITY
    BY CapacityFacts
  <2> QED
    BY <1>1, <2>1 DEF Init, Zeros
<1>3. pool = [k \in 1 .. c |-> k]
  <2>1. c - 0 = c /\ \A k \in 1 .. c : 0 + k = k
    OBVIOUS
  <2> QED
    BY <1>1, <2>1 DEF Init, Grown
<1>4. pool \in [1 .. c -> 1 .. MAX_TIMER_CAPACITY]
  <2>1. \A k \in 1 .. c : k \in 1 .. MAX_TIMER_CAPACITY
    BY <1>1, CapacityFacts
  <2> QED
    BY <1>3, <2>1
<1>5. lookup \in Seq(1 .. MAX_TIMER_CAPACITY) /\ Len(lookup) = c
  BY <1>2, FunctionIsSeq
<1>6. pool \in Seq(1 .. MAX_TIMER_CAPACITY) /\ Len(pool) = c
  BY <1>4, FunctionIsSeq
<1>7. timers = <<>> /\ timers \in Seq(TimerRecord) /\ Len(timers) = 0
  BY DEF Init
<1>8. World \in WorldRecord
  BY <1>5, <1>6, <1>7 DEF World, WorldRecord
<1>9. Typed
  <2>1. given \in Seq(HandleRecord) /\ Len(given) = 0
    BY DEF Init
  <2>2. walk \in [i : Nat, size : Nat, dt : Nat]
    BY DEF Init, NoWalk
  <2>3. version \in 0 .. VersionRange - 1 /\ Len(given) <= MaxTimers
    BY <2>1, TimersAssumption DEF Init
  <2> QED
    BY <1>8, <2>1, <2>2, <2>3 DEF Init, Typed
<1>10. 1 .. Len(timers) = {}
  BY <1>7
<1>11. Indexed(World)
  <2>1. \A k \in 1 .. Len(pool) : pool[k] = k /\ pool[k] <= c
    BY <1>1, <1>3, <1>6
  <2>2. NoDup(pool)
    BY <2>1 DEF NoDup
  <2>3. Len(timers) + Len(pool) = Len(lookup)
    BY <1>5, <1>6, <1>7
  <2> QED
    BY <1>1, <1>5, <1>10, <2>1, <2>2, <2>3, WorldVars DEF Indexed
<1>12. DistinctIds(World)
  BY <1>10, WorldVars DEF DistinctIds
<1>13. GivenInv /\ WalkInv /\ TimeInv
  BY <1>10 DEF Init, GivenInv, WalkInv, TimeInv, InUpdate
<1> QED
  BY <1>9, <1>11, <1>12, <1>13 DEF IndInv

\* Each action.
LEMMA NextStep == IndInv /\ [Next]_vars => IndInv'
<1> SUFFICES ASSUME IndInv, [Next]_vars PROVE IndInv'
  OBVIOUS
<1>1. CASE \E o \in Owners, d \in Delays, r \in BOOLEAN : AddTimer(o, d, r)
  BY <1>1, AddStep
<1>2. CASE \E x \in Ids : CancelTimer(x)
  BY <1>2, CancelStep
<1>3. CASE \E o \in Owners : KillTimers(o)
  BY <1>3, KillStep
<1>4. CASE \E dt \in Steps : UpdateTimers(dt)
  BY <1>4, UpdateStep
<1>5. CASE Update
  BY <1>5, PassStep, CallStep, ReturnStep, EndWalkStep, SweepStep, EndUpdateStep DEF Update
<1>6. CASE UNCHANGED vars
  <2>1. UNCHANGED <<timers, lookup, pool, version, pc, walk, given>>
    BY <1>6 DEF vars, worldVars
  <2> QED
    BY <2>1 DEF IndInv, Typed, World, GivenInv, WalkInv, TimeInv, InUpdate
<1> QED
  BY <1>1, <1>2, <1>3, <1>4, <1>5, <1>6 DEF Next

\* The inductive invariant holds of every behaviour.
THEOREM Invariance == Spec => []IndInv
<1>1. Init => IndInv
  BY InitStep
<1>2. IndInv /\ [Next]_vars => IndInv'
  BY NextStep
<1> QED
  BY <1>1, <1>2, PTL DEF Spec

-----------------------------------------------------------------------------
(* The properties. *)

\* A sequence without repetition has as many elements as places.
LEMMA NoDupCardinality ==
  ASSUME NEW S, NEW s \in Seq(S), NoDup(s)
  PROVE  Cardinality({s[k] : k \in DOMAIN s}) = Len(s)
<1>1. PICK n \in Nat : n = Len(s) /\ DOMAIN s = 1 .. n
  BY LenProperties
<1>2. PICK R : R = {s[k] : k \in DOMAIN s}
  OBVIOUS
<1>3. IsFiniteSet(1 .. n) /\ Cardinality(1 .. n) = n
  <2>1. IsFiniteSet(1 .. n) /\ Cardinality(1 .. n) = IF 1 > n THEN 0 ELSE n - 1 + 1
    BY FS_Interval
  <2> QED
    BY <2>1
<1>4. PICK f : f = [k \in 1 .. n |-> s[k]]
  OBVIOUS
<1>5. f \in Bijection(1 .. n, R)
  <2>1. f \in [1 .. n -> R]
    BY <1>1, <1>2, <1>4
  <2>2. \A k, l \in 1 .. n : f[k] = f[l] => k = l
    BY <1>1, <1>4 DEF NoDup
  <2>3. \A r \in R : \E k \in 1 .. n : f[k] = r
    BY <1>1, <1>2, <1>4
  <2> QED
    BY <2>1, <2>2, <2>3, Fun_IsBij
<1>6. ExistsBijection(1 .. n, R)
  BY <1>5 DEF ExistsBijection
<1>7. Cardinality(R) = Cardinality(1 .. n)
  BY <1>3, <1>6, FS_Bijection
<1> QED
  BY <1>1, <1>2, <1>3, <1>7

\* The type invariant.
LEMMA TypeCorrect == IndInv => TypeOK
<1> SUFFICES ASSUME IndInv PROVE TypeOK
  OBVIOUS
<1>1. Typed /\ Indexed(World)
  BY SMTT(60) DEF IndInv
<1>2. PICK n \in Nat, c \in Nat, m \in Nat : n = Len(timers) /\ c = Len(lookup) /\ m = Len(pool)
  BY <1>1, WorldTypes
<1>3. n + m = c /\ c <= MAX_TIMER_CAPACITY
  BY <1>1, <1>2, WorldVars DEF Indexed
<1>4. n <= MAX_TIMER_CAPACITY /\ c <= MAX_TIMER_CAPACITY
  BY <1>3, CapacityFacts
<1>5. ASSUME NEW p \in DOMAIN timers
      PROVE  timers[p] \in [id : Ids, handle : [version : 0 .. VersionRange - 1, index : 1 .. Capacity],
                            owner : Owners, delay : Delays, remaining : Int, repeat : BOOLEAN,
                            alive : BOOLEAN, valid : BOOLEAN]
  <2>1. p \in 1 .. Len(timers) /\ timers[p] \in TimerRecord
    BY <1>1, WorldTypes
  <2>2. timers[p].handle.index <= c
    BY <1>1, <1>2, <2>1, WorldVars DEF Indexed
  <2>3. timers[p].handle.index \in 1 .. MAX_TIMER_CAPACITY
    BY <2>1, TimerFields
  <2>4. timers[p].handle.index \in 1 .. c
    BY <1>4, <2>2, <2>3, CapacityFacts
  <2>5. timers[p].handle \in [version : 0 .. VersionRange - 1, index : 1 .. Capacity]
    BY <1>2, <2>1, <2>4 DEF TimerRecord, HandleRecord, Capacity
  <2> QED
    BY <2>1, <2>5 DEF TimerRecord
<1>6. \A k \in 1 .. Capacity : lookup[k] \in 1 .. MAX_TIMER_CAPACITY
  BY <1>1, WorldTypes, ElementOfSeq DEF Capacity
<1>7. ASSUME NEW k \in DOMAIN pool PROVE pool[k] \in 1 .. Capacity
  <2>1. k \in 1 .. Len(pool)
    BY <1>1, WorldTypes, LenProperties
  <2>2. pool[k] \in 1 .. MAX_TIMER_CAPACITY
    BY <1>1, <2>1, WorldTypes, ElementOfSeq
  <2>3. pool[k] <= c
    BY <1>1, <1>2, <2>1, WorldVars DEF Indexed
  <2>4. pool[k] \in 1 .. c
    BY <1>2, <2>2, <2>3, CapacityFacts
  <2> QED
    BY <1>2, <2>4 DEF Capacity
<1>8. /\ version \in 0 .. VersionRange - 1 /\ pc \in {"idle", "walk", "callback", "sweep"}
      /\ InUpdate => walk.size <= Len(timers)
  BY DEF IndInv, Typed, WalkInv
<1> QED
  BY <1>2, <1>4, <1>5, <1>6, <1>7, <1>8 DEF TypeOK, Capacity

\* The pool and the array's indices partition the table, and the table leads to the
\* timers: also in the middle of the loops that erase timers.
THEOREM IndicesStayConsistent == Spec => []IndicesConsistent
<1>1. IndInv => IndicesConsistent
  <2> SUFFICES ASSUME IndInv PROVE IndicesConsistent
    OBVIOUS
  <2>1. Typed /\ Indexed(World)
    BY DEF IndInv
  <2>2. DOMAIN timers = 1 .. Len(timers) /\ DOMAIN pool = 1 .. Len(pool)
        /\ pool \in Seq(1 .. MAX_TIMER_CAPACITY)
    BY <2>1, WorldTypes, LenProperties
  <2>3. /\ Len(timers) + Len(pool) = Len(lookup) /\ NoDup(pool)
        /\ \A p \in 1 .. Len(timers) : lookup[timers[p].handle.index] = p
        /\ \A p \in 1 .. Len(timers), k \in 1 .. Len(pool) : pool[k] # timers[p].handle.index
    BY <2>1, WorldVars DEF Indexed
  <2>4. {timers[p].handle.index : p \in DOMAIN timers} \cap {pool[k] : k \in DOMAIN pool} = {}
    BY <2>2, <2>3
  <2>5. Cardinality({pool[k] : k \in DOMAIN pool}) = Len(pool)
    BY <2>2, <2>3, NoDupCardinality
  <2> QED
    BY <2>2, <2>3, <2>4, <2>5, TypeCorrect DEF IndicesConsistent, Capacity
<1> QED
  BY <1>1, Invariance, PTL

\* Between updates every timer is alive, and its time neither over nor longer than its
\* delay, whatever the delays and the steps of time.
THEOREM NothingOverdue == Spec => []NeverOverdue
<1>1. IndInv => NeverOverdue
  <2> SUFFICES ASSUME IndInv, pc = "idle", NEW p \in DOMAIN timers
               PROVE  /\ timers[p].alive
                      /\ IF timers[p].delay = 0 THEN timers[p].remaining = 0
                                                ELSE timers[p].remaining \in 1 .. timers[p].delay
    BY DEF NeverOverdue
  <2>1. p \in 1 .. Len(timers)
    BY WorldTypes DEF IndInv
  <2> QED
    BY <2>1 DEF IndInv, TimeInv, InTime
<1> QED
  BY <1>1, Invariance, PTL

-----------------------------------------------------------------------------
(* Handles, as long as versions do not wrap. *)

\* The version has not come to its last value.
VersionsLeft == version < VersionRange - 1

\* The handles that were given out.
LEMMA HandleTypes ==
  ASSUME Typed
  PROVE  /\ version \in Nat
         /\ \A x \in 1 .. Len(given) : /\ given[x] \in HandleRecord
                                       /\ given[x].version \in Nat /\ given[x].index \in Nat
<1>1. version \in Nat
  BY TimersAssumption DEF Typed
<1>2. \A x \in 1 .. Len(given) : given[x] \in HandleRecord
  BY WorldTypes, ElementOfSeq
<1>3. \A h \in HandleRecord : h.version \in Nat /\ h.index \in Nat
  BY TimersAssumption, CapacityFacts DEF HandleRecord
<1> QED
  BY <1>1, <1>2, <1>3

\* A new version leaves every handle behind.
LEMMA HandleBump ==
  ASSUME Typed, HandleInv, VersionsLeft, NextVersion, given' = given, Len(lookup') = Len(lookup)
  PROVE  HandleInv'
<1>1. version' = version + 1
  <2>1. VersionRange \in Nat /\ version \in 0 .. VersionRange - 1
    BY TimersAssumption DEF Typed
  <2>2. (version + 1) % VersionRange = version + 1
    BY <2>1 DEF VersionsLeft
  <2> QED
    BY <2>2 DEF NextVersion
<1>2. ASSUME NEW x \in 1 .. Len(given)
      PROVE  given[x].version < version' /\ given[x].version <= version' /\ given[x].index <= Len(lookup')
  <2>1. given[x].version \in Nat /\ version \in Nat /\ given[x].version <= version
    BY HandleTypes DEF HandleInv
  <2> QED
    BY <1>1, <2>1 DEF HandleInv
<1>3. NoDup(given)
  BY DEF HandleInv
<1> QED
  BY <1>2, <1>3 DEF HandleInv

\* Steps that give no index back keep what is said of handles.
LEMMA HandleQuiet ==
  ASSUME HandleInv, version' = version, given' = given, pool' = pool, Len(lookup') = Len(lookup),
         pc = "sweep" /\ Len(timers) # walk.size => pc' = "sweep" /\ Len(timers') # walk'.size
  PROVE  HandleInv'
<1>1. NoDup(given)
  BY DEF HandleInv
<1>2. ASSUME NEW x \in 1 .. Len(given), NEW k \in 1 .. Len(pool), given[x].index = pool[k]
      PROVE  given[x].version < version \/ (pc' = "sweep" /\ Len(timers') # walk'.size)
  BY <1>2 DEF HandleInv
<1>3. \A x \in 1 .. Len(given) : given[x].version <= version /\ given[x].index <= Len(lookup)
  BY DEF HandleInv
<1> QED
  BY <1>1, <1>2, <1>3 DEF HandleInv

\* AddTimer gives a handle that nobody has.
LEMMA HandleAdd ==
  ASSUME IndInv, HandleInv, NEW o \in Owners, NEW d \in Delays, NEW r \in BOOLEAN, AddTimer(o, d, r)
  PROVE  HandleInv'
<1>1. Typed /\ pc # "sweep"
  BY SMTT(60) DEF IndInv, AddTimer, Script
<1>2. PICK t \in TimerRecord : Adds(t, o, d, r)
  BY SMTT(60), AddEffect
<1>3. PICK m \in Nat, c \in Nat : m = Len(given) /\ c = Len(lookup)
  BY <1>1, WorldTypes
<1>4. PICK h : h = t.handle
  OBVIOUS
<1>5. /\ h.version = version /\ version' = version
      /\ Len(given') = m + 1 /\ given'[m + 1] = h /\ \A x \in 1 .. m : given'[x] = given[x]
      /\ Len(lookup') >= c /\ h.index <= Len(lookup')
      /\ h.index > c \/ \E l \in 1 .. Len(pool) : pool[l] = h.index
      /\ \A k \in 1 .. Len(pool') : pool'[k] > c \/ \E l \in 1 .. Len(pool) : pool[l] = pool'[k]
      /\ \A k \in 1 .. Len(pool') : pool'[k] # h.index
  BY <1>2, <1>3, <1>4 DEF Adds
<1>6. Len(lookup') \in Nat
  <2>1. World' \in WorldRecord /\ World'.lookup = lookup'
    BY <1>2 DEF Adds, Sound, World
  <2> QED
    BY <2>1, WorldFields
<1>7. ASSUME NEW x \in 1 .. m
      PROVE  /\ given[x].version \in Nat /\ given[x].index \in Nat /\ version \in Nat
             /\ given[x].version <= version /\ given[x].index <= c
             /\ \A l \in 1 .. Len(pool) : given[x].index = pool[l] => given[x].version < version
  BY <1>1, <1>3, HandleTypes DEF HandleInv
<1>8. \A x \in 1 .. m + 1 : x \in 1 .. m \/ x = m + 1
  OBVIOUS
<1>9. ASSUME NEW x \in 1 .. m PROVE given[x] # h
  <2> SUFFICES ASSUME given[x] = h PROVE FALSE
    OBVIOUS
  <2>1. given[x].index = h.index /\ given[x].version = version
    BY <1>5
  <2>2. ~(given[x].version < version) /\ ~(given[x].index > c)
    BY <1>7, <2>1
  <2> QED
    BY <1>5, <1>7, <2>1, <2>2
<1>10. NoDup(given')
  <2>1. \A x, y \in 1 .. m : given[x] = given[y] => x = y
    BY <1>3 DEF HandleInv, NoDup
  <2>2. ASSUME NEW x \in 1 .. m + 1, NEW y \in 1 .. m + 1, given'[x] = given'[y] PROVE x = y
    BY <1>5, <1>8, <1>9, <2>1, <2>2
  <2> QED
    BY <1>5, <2>2 DEF NoDup
<1>11. ASSUME NEW x \in 1 .. m + 1 PROVE given'[x].version <= version /\ given'[x].index <= Len(lookup')
  <2>1. CASE x \in 1 .. m
    BY <1>3, <1>5, <1>6, <1>7, <2>1
  <2>2. CASE x = m + 1
    <3>1. version \in Nat
      BY <1>1, HandleTypes
    <3> QED
      BY <1>5, <2>2, <3>1
  <2> QED
    BY <1>8, <2>1, <2>2
<1>12. ASSUME NEW x \in 1 .. m + 1, NEW k \in 1 .. Len(pool'), given'[x].index = pool'[k]
       PROVE  given'[x].version < version
  <2>1. x \in 1 .. m /\ given'[x] = given[x]
    BY <1>5, <1>8, <1>12
  <2>2. ~(given[x].index > c)
    BY <1>7, <2>1
  <2> QED
    BY <1>5, <1>7, <1>12, <2>1, <2>2
<1> QED
  BY SMTT(60), <1>5, <1>10, <1>11, <1>12 DEF HandleInv

\* Every step preserves it.
LEMMA HandleStep == IndInv /\ HandleInv /\ VersionsLeft /\ [Next]_vars => HandleInv'
<1> SUFFICES ASSUME IndInv, HandleInv, VersionsLeft, [Next]_vars PROVE HandleInv'
  OBVIOUS
<1>0. Typed
  BY DEF IndInv
<1>1. CASE \E o \in Owners, d \in Delays, r \in BOOLEAN : AddTimer(o, d, r)
  BY <1>1, HandleAdd
<1>2. ASSUME NEW x \in Ids, CancelTimer(x) PROVE HandleInv'
  <2>1. CASE pc = "callback"
    <3>1. InPlace /\ UNCHANGED <<version, pc, walk, given>>
      BY <1>2, <2>1, CancelMarks
    <3> QED
      BY <2>1, <3>1, HandleQuiet DEF InPlace
  <2>2. CASE pc = "idle"
    <3>1. Len(lookup') = Len(lookup) /\ NextVersion /\ UNCHANGED <<pc, walk, given>>
      BY <1>2, <2>2, CancelFrees
    <3> QED
      BY <1>0, <3>1, HandleBump
  <2> QED
    BY <1>2, <2>1, <2>2 DEF CancelTimer, Script
<1>3. ASSUME NEW o \in Owners, KillTimers(o) PROVE HandleInv'
  <2>1. CASE pc = "callback"
    <3>1. InPlace /\ UNCHANGED <<pc, walk, given>> /\ (NextVersion \/ UNCHANGED version)
      BY <1>3, <2>1, KillMarks
    <3>2. CASE NextVersion
      BY <1>0, <3>1, <3>2, HandleBump DEF InPlace
    <3>3. CASE UNCHANGED version
      BY <2>1, <3>1, <3>3, HandleQuiet DEF InPlace
    <3> QED
      BY <3>1, <3>2, <3>3
  <2>2. CASE pc = "idle"
    <3>1. /\ Len(lookup') = Len(lookup) /\ UNCHANGED <<pc, walk, given>>
          /\ NextVersion \/ (UNCHANGED version /\ World' = World)
      BY <1>3, <2>2, KillFrees
    <3>2. CASE NextVersion
      BY <1>0, <3>1, <3>2, HandleBump
    <3>3. CASE UNCHANGED version /\ World' = World
      <4>1. pool' = pool
        BY <3>3 DEF World
      <4> QED
        BY <2>2, <3>1, <3>3, <4>1, HandleQuiet
    <3> QED
      BY <3>1, <3>2, <3>3
  <2> QED
    BY <1>3, <2>1, <2>2 DEF KillTimers, Script
<1>4. CASE (\E dt \in Steps : UpdateTimers(dt)) \/ EndWalk \/ UNCHANGED vars
  <2>1. /\ UNCHANGED <<timers, lookup, pool, version, given>>
        /\ pc = "sweep" => pc' = pc /\ walk' = walk
    BY <1>4 DEF UpdateTimers, EndWalk, vars, worldVars
  <2> QED
    BY <2>1, HandleQuiet
<1>5. CASE PassTimer
  <2>1. InPlace /\ UNCHANGED <<version, pc, given>> /\ pc # "sweep"
    BY <1>5, PassEffect DEF PassTimer, Walking
  <2> QED
    BY <2>1, HandleQuiet DEF InPlace
<1>6. CASE CallTimer
  <2>1. InPlace /\ UNCHANGED <<version, given>> /\ pc # "sweep"
    BY <1>6, CallEffect DEF CallTimer, Walking
  <2> QED
    BY <2>1, HandleQuiet DEF InPlace
<1>7. CASE CallbackReturns
  <2>1. InPlace /\ UNCHANGED <<version, given>> /\ pc # "sweep"
    BY <1>7, ReturnEffect DEF CallbackReturns
  <2> QED
    BY <2>1, HandleQuiet DEF InPlace
<1>8. CASE SweepTimer
  <2>1. UNCHANGED <<version, pc, given>> /\ pc = "sweep"
    BY <1>8, SweepEffect DEF SweepTimer
  <2>2. CASE World' = World /\ walk' = [walk EXCEPT !.i = walk.i + 1]
    <3>1. UNCHANGED <<timers, lookup, pool>>
      BY <2>2 DEF World
    <3>2. walk'.size = walk.size
      BY <2>2 DEF IndInv, Typed
    <3> QED
      BY <2>1, <3>1, <3>2, HandleQuiet
  <2>3. CASE walk' = walk /\ Len(lookup') = Len(lookup) /\ Len(timers') = Len(timers) - 1
    <3>1. Len(timers) \in Nat /\ walk.size \in Nat /\ Len(timers) <= walk.size
      BY <1>0, <2>1, WorldTypes DEF IndInv, WalkInv, Typed
    <3>2. Len(timers') # walk'.size
      BY <2>3, <3>1
    <3>3. NoDup(given)
      BY DEF HandleInv
    <3>4. \A x \in 1 .. Len(given) : given[x].version <= version /\ given[x].index <= Len(lookup)
      BY DEF HandleInv
    <3> QED
      BY <2>1, <2>3, <3>2, <3>3, <3>4 DEF HandleInv
  <2> QED
    BY <1>8, <2>2, <2>3, SweepEffect
<1>9. CASE EndUpdate
  <2>1. UNCHANGED <<timers, lookup, pool, given>>
    BY <1>9 DEF EndUpdate, worldVars
  <2>2. CASE Len(timers) # walk.size
    BY <1>0, <1>9, <2>1, <2>2, HandleBump DEF EndUpdate
  <2>3. CASE Len(timers) = walk.size
    <3>1. UNCHANGED version
      BY <1>9, <2>3 DEF EndUpdate
    <3> QED
      BY <2>1, <2>3, <3>1, HandleQuiet
  <2> QED
    BY <2>2, <2>3
<1> QED
  BY <1>1, <1>2, <1>3, <1>4, <1>5, <1>6, <1>7, <1>8, <1>9 DEF Next, Update

\* Handles lead to their own timers.
LEMMA HandlesFind == IndInv /\ HandleInv => HandleFindsItsTimer
<1> SUFFICES ASSUME IndInv, HandleInv, NEW x \in DOMAIN given
             PROVE  /\ CancelFinds(given[x]) <=> \E p \in Alive : timers[p].id = x
                    /\ CancelFinds(given[x]) => At(given[x]).id = x
  BY DEF HandleFindsItsTimer
<1>1. Typed /\ Indexed(World) /\ GivenInv /\ NoDup(given)
  BY DEF IndInv, HandleInv
<1>2. x \in 1 .. Len(given) /\ DOMAIN timers = 1 .. Len(timers)
  BY <1>1, WorldTypes
<1>3. ASSUME NEW p \in Alive, timers[p].id = x PROVE CancelFinds(given[x])
  <2>1. p \in 1 .. Len(timers) /\ timers[p].alive
    BY <1>2 DEF Alive
  <2>2. timers[p].handle = given[x]
    BY <1>1, <1>3, <2>1 DEF GivenInv
  <2>3. given[x].index <= Len(lookup) /\ lookup[given[x].index] = p
    BY <1>1, <2>1, <2>2, WorldVars DEF Indexed
  <2>4. p <= Len(timers)
    BY <1>1, <2>1, WorldTypes
  <2> QED
    BY <2>1, <2>2, <2>3, <2>4 DEF CancelFinds, InTable, At, Capacity
<1>4. ASSUME CancelFinds(given[x])
      PROVE  At(given[x]).id = x /\ \E p \in Alive : timers[p].id = x
  <2>1. PICK p : p = lookup[given[x].index]
    OBVIOUS
  <2>2. given[x] \in HandleRecord
    BY <1>1, <1>2, HandleTypes
  <2>3. given[x].index \in 1 .. Len(lookup)
    BY <1>1, <1>4, <2>2, WorldTypes, CapacityFacts DEF CancelFinds, InTable, Capacity, HandleRecord
  <2>4. p \in 1 .. MAX_TIMER_CAPACITY
    BY <1>1, <2>1, <2>3, WorldTypes, ElementOfSeq
  <2>5. p <= Len(timers) /\ timers[p].alive /\ timers[p].handle = given[x]
    BY <1>4, <2>1 DEF CancelFinds, InTable, At
  <2>6. p \in 1 .. Len(timers)
    BY <1>1, <2>4, <2>5, WorldTypes, CapacityFacts
  <2>7. timers[p].id \in 1 .. Len(given) /\ given[timers[p].id] = given[x]
    BY <1>1, <2>5, <2>6, WorldTypes, TimerFields DEF GivenInv
  <2>8. timers[p].id = x
    BY <1>1, <1>2, <2>7 DEF NoDup
  <2> QED
    BY <1>2, <2>1, <2>5, <2>6, <2>8 DEF At, Alive
<1> QED
  BY <1>3, <1>4

\* As long as the version has not come to its last value, every handle ever given leads
\* CancelTimer to its own timer while that is alive, and to none afterwards.
THEOREM HandlesStayOwn == Spec /\ []VersionsLeft => []HandleFindsItsTimer
<1>1. Init => HandleInv
  <2> SUFFICES ASSUME Init PROVE HandleInv
    OBVIOUS
  <2>1. 1 .. Len(given) = {}
    BY DEF Init
  <2> QED
    BY <2>1 DEF HandleInv, NoDup
<1>2. IndInv /\ HandleInv /\ VersionsLeft /\ [Next]_vars => HandleInv'
  BY HandleStep
<1>3. IndInv /\ HandleInv => HandleFindsItsTimer
  BY HandlesFind
<1> QED
  BY <1>1, <1>2, <1>3, Invariance, PTL DEF Spec

-----------------------------------------------------------------------------
(* How many versions there are. *)

\* The identities are finitely many numbers.
LEMMA IdsFinite == IsFiniteSet(Ids)
  BY FS_Interval, TimersAssumption DEF Ids

\* The sets of timers are finite.
LEMMA PresentFacts ==
  ASSUME Typed
  PROVE  /\ IsFiniteSet(Present) /\ IsFiniteSet(Living) /\ Living \subseteq Present
         /\ Cardinality(Present) \in Nat /\ Cardinality(Living) \in Nat
         /\ version \in Nat /\ HasFreed \in 0 .. 1 /\ Len(given) \in Nat
<1>1. Present \subseteq Ids /\ Living \subseteq Present
  BY WorldTypes, TimerFields DEF Present, Living
<1>2. IsFiniteSet(Present) /\ IsFiniteSet(Living)
  BY <1>1, IdsFinite, FS_Subset
<1>3. Cardinality(Present) \in Nat /\ Cardinality(Living) \in Nat
  BY <1>2, FS_CardinalityType
<1> QED
  BY <1>1, <1>2, <1>3, HandleTypes, WorldTypes DEF HasFreed

\* A smaller set has fewer elements.
LEMMA FewerElements ==
  ASSUME NEW S, IsFiniteSet(S), NEW T \in SUBSET S
  PROVE  /\ Cardinality(T) \in Nat /\ Cardinality(S) \in Nat /\ Cardinality(T) <= Cardinality(S)
         /\ T # S => Cardinality(T) + 1 <= Cardinality(S)
<1>1. /\ IsFiniteSet(T) /\ Cardinality(T) <= Cardinality(S)
      /\ Cardinality(S) = Cardinality(T) => S = T
  BY FS_Subset
<1>2. Cardinality(T) \in Nat /\ Cardinality(S) \in Nat
  BY <1>1, FS_CardinalityType
<1> QED
  BY <1>1, <1>2

\* A step that adds no timer changes the version at most as often as it pays for.
LEMMA BudgetPaid ==
  ASSUME Typed, BudgetInv, Typed', given' = given,
         Present' \subseteq Present, Living' \subseteq Living,
         NEW e \in 0 .. 1, e = 1 => Present' # Present \/ Living' # Living,
         version' + HasFreed' <= version + HasFreed + e
  PROVE  BudgetInv'
<1>1. PICK P, L, Q, M : P = Present /\ L = Living /\ Q = Present' /\ M = Living'
  OBVIOUS
<1>2. PICK v \in Nat, h \in Nat, g \in Nat : v = version /\ h = HasFreed /\ g = Len(given)
  BY PresentFacts
<1>3. PICK u \in Nat, k \in Nat : u = version' /\ k = HasFreed'
  <2>1. version' \in Nat /\ HasFreed' \in 0 .. 1
    BY TimersAssumption DEF Typed, HasFreed
  <2> QED
    BY <2>1
<1>4. IsFiniteSet(P) /\ IsFiniteSet(L)
  BY <1>1, PresentFacts
<1>5. /\ Cardinality(Q) \in Nat /\ Cardinality(P) \in Nat /\ Cardinality(Q) <= Cardinality(P)
      /\ Q # P => Cardinality(Q) + 1 <= Cardinality(P)
  BY <1>1, <1>4, FewerElements
<1>6. /\ Cardinality(M) \in Nat /\ Cardinality(L) \in Nat /\ Cardinality(M) <= Cardinality(L)
      /\ M # L => Cardinality(M) + 1 <= Cardinality(L)
  BY <1>1, <1>4, FewerElements
<1>7. PICK a \in Nat, b \in Nat, c \in Nat, d \in Nat :
        a = Cardinality(P) /\ b = Cardinality(L) /\ c = Cardinality(Q) /\ d = Cardinality(M)
  BY <1>5, <1>6
<1>8. c + d + e <= a + b
  <2>1. CASE e = 0
    BY <1>5, <1>6, <1>7, <2>1
  <2>2. CASE e = 1
    <3>1. Q # P \/ M # L
      BY <1>1, <2>2
    <3> QED
      BY <1>5, <1>6, <1>7, <2>2, <3>1
  <2> QED
    BY <2>1, <2>2
<1>9. v + a + b + h <= 2 * g /\ u + k <= v + h + e
  BY <1>1, <1>2, <1>3, <1>7 DEF BudgetInv
<1>10. u + c + d + k <= 2 * g
  BY <1>8, <1>9
<1> QED
  BY <1>1, <1>2, <1>3, <1>7, <1>10 DEF BudgetInv

\* Timers that stay in place.
LEMMA InPlaceSets ==
  ASSUME InPlace, \A q \in 1 .. Len(timers) : timers'[q].alive => timers[q].alive
  PROVE  Present' = Present /\ Living' \subseteq Living
  BY DEF InPlace, Same, Present, Living

\* Timers that are taken away.
LEMMA FewerSets ==
  ASSUME IndInv, given' = given, \A t : Has(World', t) => Has(World, t)
  PROVE  Present' \subseteq Present /\ Living' \subseteq Living
  BY FewerGiven DEF Present, Living

\* The version grows by one at most.
LEMMA VersionGrows ==
  ASSUME Typed, NextVersion
  PROVE  version' \in Nat /\ version' <= version + 1
<1>1. version \in 0 .. VersionRange - 1 /\ VersionRange \in Nat /\ VersionRange > 0
  BY TimersAssumption DEF Typed
<1>2. (version + 1) % VersionRange \in Nat /\ (version + 1) % VersionRange <= version + 1
  <2>1. CASE version + 1 < VersionRange
    BY <1>1, <2>1
  <2>2. CASE version + 1 = VersionRange
    <3>1. (version + 1) % VersionRange \in 0 .. VersionRange - 1
      BY <1>1
    <3> QED
      BY <1>1, <2>2, <3>1
  <2> QED
    BY <1>1, <2>1, <2>2
<1> QED
  BY <1>2 DEF NextVersion

\* Every step keeps to the budget.
LEMMA BudgetStep == IndInv /\ IndInv' /\ BudgetInv /\ [Next]_vars => BudgetInv'
<1> SUFFICES ASSUME IndInv, IndInv', BudgetInv, [Next]_vars PROVE BudgetInv'
  OBVIOUS
<1>0. /\ Typed /\ Typed' /\ version \in Nat /\ HasFreed \in 0 .. 1
      /\ pc # "sweep" => HasFreed = 0
      /\ pc' # "sweep" => HasFreed' = 0
  BY PresentFacts DEF IndInv, HasFreed
<1>1. ASSUME NEW o \in Owners, NEW d \in Delays, NEW r \in BOOLEAN, AddTimer(o, d, r) PROVE BudgetInv'
  <2>1. PICK t \in TimerRecord : Adds(t, o, d, r)
    BY SMTT(60), <1>1, AddEffect
  <2>2. /\ t.id = Len(given) + 1 /\ t.alive = TRUE /\ Len(timers') = Len(timers) + 1
        /\ timers'[Len(timers) + 1] = t /\ \A p \in 1 .. Len(timers) : timers'[p] = timers[p]
        /\ Len(given') = Len(given) + 1 /\ UNCHANGED <<version, pc, walk>> /\ pc # "sweep"
    BY SMTT(60), <1>1, <2>1 DEF Adds, AddTimer, Script
  <2>3. PICK n \in Nat, m \in Nat : n = Len(timers) /\ m = Len(given)
    BY ZenonT(60), <1>0, WorldTypes
  <2>4. \A p \in 1 .. n + 1 : p \in 1 .. n \/ p = n + 1
    OBVIOUS
  <2>5. 1 .. n \subseteq 1 .. n + 1 /\ n + 1 \in 1 .. n + 1
    OBVIOUS
  <2>6. PICK P, L : P = Present /\ L = Living
    OBVIOUS
  <2>7. Present' = P \cup {m + 1}
    BY <2>2, <2>3, <2>4, <2>5, <2>6 DEF Present
  <2>8. Living' = L \cup {m + 1}
    BY <2>2, <2>3, <2>4, <2>5, <2>6 DEF Living
  <2>9. PICK a \in Nat, b \in Nat, v \in Nat : a = Cardinality(P) /\ b = Cardinality(L) /\ v = version
    BY <1>0, <2>6, PresentFacts
  <2>10. Cardinality(P \cup {m + 1}) \in {a, a + 1} /\ Cardinality(L \cup {m + 1}) \in {b, b + 1}
    BY <1>0, <2>6, <2>9, PresentFacts, FS_AddElement
  <2>11. v + a + b <= 2 * m
    BY SMTT(60), <1>0, <2>2, <2>3, <2>6, <2>9 DEF BudgetInv
  <2>12. PICK c \in Nat, e \in Nat : /\ c = Cardinality(P \cup {m + 1}) /\ c <= a + 1
                                    /\ e = Cardinality(L \cup {m + 1}) /\ e <= b + 1
    BY <2>10
  <2>13. v + c + e + 0 <= 2 * (m + 1)
    BY <2>11, <2>12
  <2>14. HasFreed' = 0 /\ version' = v /\ Len(given') = m + 1
    BY <1>0, <2>2, <2>3, <2>9
  <2> QED
    BY <2>7, <2>8, <2>12, <2>13, <2>14 DEF BudgetInv
<1>2. ASSUME NEW x \in Ids, CancelTimer(x) PROVE BudgetInv'
  <2>1. CASE pc = "callback"
    <3>1. PICK p \in 1 .. Len(timers) :
           /\ timers[p].alive /\ Sound(World') /\ InPlace
           /\ timers'[p].alive = FALSE /\ timers'[p].remaining = timers[p].remaining
           /\ \A q \in 1 .. Len(timers) : q # p => timers'[q] = timers[q]
           /\ UNCHANGED <<version, pc, walk, given>>
      BY <1>2, <2>1, CancelMarks
    <3>2. Present' = Present /\ Living' \subseteq Living
      BY <3>1, InPlaceSets
    <3>3. version' + HasFreed' <= version + HasFreed + 0
      BY <1>0, <2>1, <3>1
    <3> QED
      BY <1>0, <3>1, <3>2, <3>3, BudgetPaid
  <2>2. CASE pc = "idle"
    <3>1. PICK p \in 1 .. Len(timers) :
           /\ timers[p].alive /\ Sound(World') /\ Len(lookup') = Len(lookup)
           /\ \A t : Has(World', t) <=> Has(World, t) /\ t.id # timers[p].id
           /\ NextVersion /\ UNCHANGED <<pc, walk, given>>
      BY <1>2, <2>2, CancelFrees
    <3>2. Present' \subseteq Present /\ Living' \subseteq Living
      BY <3>1, FewerSets
    <3>3. Present' # Present
      <4>1. timers[p].id \in Present
        BY DEF Present
      <4>2. World'.timers = timers'
        BY DEF World
      <4>3. \A q \in 1 .. Len(timers') : Has(World', timers'[q])
        BY <4>2 DEF Has
      <4>4. timers[p].id \notin Present'
        BY <3>1, <4>3 DEF Present
      <4> QED
        BY <4>1, <4>4
    <3>4. version' + HasFreed' <= version + HasFreed + 1
      BY <1>0, <2>2, <3>1, VersionGrows
    <3> QED
      BY <1>0, <3>1, <3>2, <3>3, <3>4, BudgetPaid
  <2> QED
    BY <1>2, <2>1, <2>2 DEF CancelTimer, Script
<1>3. ASSUME NEW o \in Owners, KillTimers(o) PROVE BudgetInv'
  <2>1. CASE pc = "callback"
    <3>1. /\ Sound(World') /\ InPlace /\ UNCHANGED <<pc, walk, given>>
          /\ \A q \in 1 .. Len(timers) : timers'[q].alive = (timers[q].alive /\ timers[q].owner # o)
          /\ \/ NextVersion /\ \E q \in 1 .. Len(timers) : timers[q].alive /\ timers[q].owner = o
             \/ UNCHANGED version
      BY <1>3, <2>1, KillMarks
    <3>2. Present' = Present /\ Living' \subseteq Living
      BY <3>1, InPlaceSets
    <3>3. CASE UNCHANGED version
      <4>1. version' + HasFreed' <= version + HasFreed + 0
        BY <1>0, <2>1, <3>1, <3>3
      <4> QED
        BY <1>0, <3>1, <3>2, <4>1, BudgetPaid
    <3>4. CASE NextVersion /\ \E q \in 1 .. Len(timers) : timers[q].alive /\ timers[q].owner = o
      <4>1. PICK q \in 1 .. Len(timers) : timers[q].alive /\ timers[q].owner = o
        BY <3>4
      <4>2. timers[q].id \in Living
        BY <4>1 DEF Living
      <4>3. \A p \in 1 .. Len(timers) : timers'[p].alive => timers'[p].id # timers[q].id
        <5>1. \A p \in 1 .. Len(timers) : timers[p].id = timers[q].id => p = q
          BY WorldVars DEF IndInv, DistinctIds
        <5> QED
          BY <3>1, <4>1, <5>1 DEF InPlace, Same
      <4>4. timers[q].id \notin Living'
        BY <3>1, <4>3 DEF Living, InPlace
      <4>5. version' + HasFreed' <= version + HasFreed + 1
        BY <1>0, <2>1, <3>1, <3>4, VersionGrows
      <4>6. Living' # Living
        BY <4>2, <4>4
      <4> QED
        BY <1>0, <3>1, <3>2, <4>5, <4>6, BudgetPaid
    <3> QED
      BY <3>1, <3>3, <3>4
  <2>2. CASE pc = "idle"
    <3>1. /\ Sound(World') /\ Len(lookup') = Len(lookup) /\ UNCHANGED <<pc, walk, given>>
          /\ \A t : Has(World', t) <=> Has(World, t) /\ t.owner # o
          /\ \/ NextVersion /\ \E q \in 1 .. Len(timers) : timers[q].owner = o
             \/ UNCHANGED version /\ World' = World
      BY <1>3, <2>2, KillFrees
    <3>2. Present' \subseteq Present /\ Living' \subseteq Living
      BY <3>1, FewerSets
    <3>3. CASE UNCHANGED version
      <4>1. version' + HasFreed' <= version + HasFreed + 0
        BY <1>0, <2>2, <3>1, <3>3
      <4> QED
        BY <1>0, <3>1, <3>2, <4>1, BudgetPaid
    <3>4. CASE NextVersion /\ \E q \in 1 .. Len(timers) : timers[q].owner = o
      <4>1. PICK q \in 1 .. Len(timers) : timers[q].owner = o
        BY <3>4
      <4>2. timers[q].id \in Present
        BY DEF Present
      <4>3. timers[q].id \notin Present'
        <5>1. \A p \in 1 .. Len(timers) : timers[p].id = timers[q].id => p = q
          BY WorldVars DEF IndInv, DistinctIds
        <5>2. World'.timers = timers'
          BY DEF World
        <5>3. \A p \in 1 .. Len(timers') : Has(World', timers'[p])
          BY <5>2 DEF Has
        <5>4. \A p \in 1 .. Len(timers') : timers'[p].owner # o /\ \E z \in 1 .. Len(timers) : timers[z] = timers'[p]
          BY <3>1, <5>3, WorldVars DEF Has
        <5> QED
          BY <4>1, <5>1, <5>4 DEF Present
      <4>4. version' + HasFreed' <= version + HasFreed + 1
        BY <1>0, <2>2, <3>1, <3>4, VersionGrows
      <4>5. Present' # Present
        BY <4>2, <4>3
      <4> QED
        BY <1>0, <3>1, <3>2, <4>4, <4>5, BudgetPaid
    <3> QED
      BY <3>1, <3>3, <3>4
  <2> QED
    BY <1>3, <2>1, <2>2 DEF KillTimers, Script
<1>4. CASE (\E dt \in Steps : UpdateTimers(dt)) \/ EndWalk \/ UNCHANGED vars
  <2>1. UNCHANGED <<timers, lookup, pool, version, given>>
    BY <1>4 DEF UpdateTimers, EndWalk, vars, worldVars
  <2>2. Present' = Present /\ Living' = Living
    BY <2>1 DEF Present, Living
  <2>3. HasFreed' = HasFreed
    <3>1. CASE \E dt \in Steps : UpdateTimers(dt)
      BY <1>0, <3>1 DEF UpdateTimers
    <3>2. CASE EndWalk
      <4>1. walk'.size = Len(timers) /\ pc # "sweep"
        BY <3>2 DEF EndWalk, IndInv, Typed
      <4> QED
        BY <1>0, <2>1, <4>1 DEF HasFreed
    <3>3. CASE UNCHANGED vars
      BY <3>3 DEF vars, worldVars, HasFreed
    <3> QED
      BY <1>4, <3>1, <3>2, <3>3
  <2>4. version' + HasFreed' <= version + HasFreed + 0
    BY <1>0, <2>1, <2>3
  <2> QED
    BY <1>0, <2>1, <2>2, <2>4, BudgetPaid
<1>5. CASE PassTimer \/ CallTimer \/ CallbackReturns
  <2>1. /\ InPlace /\ UNCHANGED <<version, given>> /\ pc # "sweep" /\ pc' # "sweep"
        /\ timers'[walk.i].alive => timers[walk.i].alive
        /\ \A q \in 1 .. Len(timers) : q # walk.i => timers'[q] = timers[q]
    <3>1. CASE PassTimer
      BY <3>1, PassEffect DEF PassTimer, Walking
    <3>2. CASE CallTimer
      BY <3>2, CallEffect DEF CallTimer, Walking
    <3>3. CASE CallbackReturns
      BY <3>3, ReturnEffect DEF CallbackReturns
    <3> QED
      BY <1>5, <3>1, <3>2, <3>3
  <2>2. Present' = Present /\ Living' \subseteq Living
    BY <2>1, InPlaceSets
  <2>3. version' + HasFreed' <= version + HasFreed + 0
    BY <1>0, <2>1
  <2> QED
    BY <1>0, <2>1, <2>2, <2>3, BudgetPaid
<1>6. CASE SweepTimer
  <2>1. UNCHANGED <<version, pc, given>> /\ pc = "sweep" /\ walk.i \in 1 .. Len(timers)
    BY <1>6, SweepEffect DEF SweepTimer
  <2>2. CASE World' = World /\ walk' = [walk EXCEPT !.i = walk.i + 1]
    <3>1. UNCHANGED <<timers, lookup, pool>> /\ walk'.size = walk.size
      BY <2>2 DEF World, IndInv, Typed
    <3>2. Present' = Present /\ Living' = Living /\ HasFreed' = HasFreed
      BY <2>1, <3>1 DEF Present, Living, HasFreed
    <3>3. version' + HasFreed' <= version + HasFreed + 0
      BY <1>0, <2>1, <3>2
    <3> QED
      BY <1>0, <2>1, <3>2, <3>3, BudgetPaid
  <2>3. CASE /\ walk' = walk
             /\ \A t : Has(World', t) <=> Has(World, t) /\ t.id # timers[walk.i].id
    <3>1. Present' \subseteq Present /\ Living' \subseteq Living
      BY <2>1, <2>3, FewerSets
    <3>2. Present' # Present
      <4>1. timers[walk.i].id \in Present
        BY <2>1 DEF Present
      <4>2. World'.timers = timers'
        BY DEF World
      <4>3. \A q \in 1 .. Len(timers') : Has(World', timers'[q])
        BY <4>2 DEF Has
      <4>4. timers[walk.i].id \notin Present'
        BY <2>3, <4>3 DEF Present
      <4> QED
        BY <4>1, <4>4
    <3>3. HasFreed' \in 0 .. 1
      BY DEF HasFreed
    <3>4. version' + HasFreed' <= version + HasFreed + 1
      <4>1. PICK v \in Nat, h \in 0 .. 1, k \in 0 .. 1 : v = version /\ h = HasFreed /\ k = HasFreed'
        BY <1>0, <3>3
      <4>2. v + k <= v + h + 1
        OBVIOUS
      <4> QED
        BY <2>1, <4>1, <4>2
    <3> QED
      BY <1>0, <2>1, <3>1, <3>2, <3>4, BudgetPaid
  <2> QED
    BY <1>6, <2>2, <2>3, SweepEffect
<1>7. CASE EndUpdate
  <2>1. UNCHANGED <<timers, lookup, pool, given>> /\ pc = "sweep" /\ pc' = "idle"
    BY <1>7 DEF EndUpdate, worldVars
  <2>2. Present' = Present /\ Living' = Living
    BY <2>1 DEF Present, Living
  <2>3. version' + HasFreed' <= version + HasFreed + 0
    <3>1. CASE Len(timers) # walk.size
      <4>1. HasFreed = 1 /\ NextVersion
        BY <1>7, <2>1, <3>1 DEF HasFreed, EndUpdate
      <4> QED
        BY <1>0, <2>1, <4>1, VersionGrows
    <3>2. CASE Len(timers) = walk.size
      <4>1. HasFreed = 0 /\ version' = version
        BY <1>7, <3>2 DEF HasFreed, EndUpdate
      <4> QED
        BY <1>0, <2>1, <4>1
    <3> QED
      BY <3>1, <3>2
  <2> QED
    BY <1>0, <2>1, <2>2, <2>3, BudgetPaid
<1> QED
  BY <1>1, <1>2, <1>3, <1>4, <1>5, <1>6, <1>7 DEF Next, Update

\* A world in which fewer timers are ever added than half the versions never gives a handle
\* that is mistaken for another: CancelTimer finds the timer of a handle while it is alive,
\* and none afterwards.  No step uses up more than two versions for one timer.
THEOREM HandlesOfFewTimers ==
  ASSUME 2 * MaxTimers < VersionRange - 1
  PROVE  Spec => []HandleFindsItsTimer
<1>1. Init => BudgetInv
  <2> SUFFICES ASSUME Init PROVE BudgetInv
    OBVIOUS
  <2>1. Len(timers) = 0 /\ 1 .. Len(timers) = {} /\ Len(given) = 0 /\ version = 0 /\ HasFreed = 0
    BY DEF Init, HasFreed
  <2>2. Present = {} /\ Living = {}
    BY <2>1 DEF Present, Living
  <2>3. Cardinality({}) = 0
    BY FS_EmptySet
  <2> QED
    BY <2>1, <2>2, <2>3 DEF BudgetInv
<1>2. IndInv /\ IndInv' /\ BudgetInv /\ [Next]_vars => BudgetInv'
  BY BudgetStep
<1>3. IndInv /\ BudgetInv => VersionsLeft
  <2> SUFFICES ASSUME IndInv, BudgetInv PROVE VersionsLeft
    OBVIOUS
  <2>1. Typed /\ Len(given) <= MaxTimers /\ MaxTimers \in Nat /\ VersionRange \in Nat
    BY TimersAssumption DEF IndInv, Typed
  <2>2. PICK v \in Nat, a \in Nat, b \in Nat, h \in Nat, g \in Nat :
          /\ v = version /\ a = Cardinality(Present) /\ b = Cardinality(Living)
          /\ h = HasFreed /\ g = Len(given)
    BY <2>1, PresentFacts
  <2>3. v + a + b + h <= 2 * g
    BY <2>2 DEF BudgetInv
  <2>4. v <= 2 * g /\ 2 * g <= 2 * MaxTimers
    BY SMTT(60), <2>1, <2>2, <2>3
  <2> QED
    BY <2>1, <2>2, <2>4 DEF VersionsLeft
<1> QED
  BY <1>1, <1>2, <1>3, Invariance, HandlesStayOwn, PTL DEF Spec

-----------------------------------------------------------------------------
(* The abstract state. *)

\* A timer as the promise sees it.
Seen(t) == [id |-> t.id, owner |-> t.owner, repeat |-> t.repeat]

\* The fields of a timer as the promise sees it.
LEMMA SeenFields ==
  ASSUME NEW t
  PROVE  Seen(t).id = t.id /\ Seen(t).owner = t.owner /\ Seen(t).repeat = t.repeat
  BY DEF Seen

\* Records of one timer look the same.
LEMMA SeenSame ==
  ASSUME NEW t, NEW u, Same(t, u)
  PROVE  Seen(t) = Seen(u)
  BY DEF Seen, Same

\* The active timers are those of the array that are alive.
LEMMA ActiveMembers ==
  ASSUME Typed
  PROVE  \A x : x \in Active <=> \E p \in 1 .. Len(timers) : timers[p].alive /\ x = Seen(timers[p])
  BY WorldTypes DEF Active, Alive, Seen

\* Likewise after a step.
LEMMA ActiveMembersNext ==
  ASSUME Typed'
  PROVE  \A x : x \in Active' <=> \E p \in 1 .. Len(timers') : timers'[p].alive /\ x = Seen(timers'[p])
<1>1. DOMAIN timers' = 1 .. Len(timers')
  <2>1. World'.timers = timers' /\ World' \in WorldRecord
    BY DEF World, Typed
  <2>2. timers' \in Seq(TimerRecord)
    BY <2>1, WorldFields
  <2> QED
    BY <2>2, LenProperties
<1> QED
  BY <1>1 DEF Active, Alive, Seen

\* The timers that are due are alive and ahead of the walk.
LEMMA DueMembers ==
  ASSUME Typed
  PROVE  \A i : i \in Due <=> \E p \in 1 .. Len(timers) : /\ timers[p].alive /\ p \in ToCome
                                                         /\ i = timers[p].id
  BY WorldTypes DEF Due, Alive

\* Likewise after a step.
LEMMA DueMembersNext ==
  ASSUME Typed'
  PROVE  \A i : i \in Due' <=> \E p \in 1 .. Len(timers') : /\ timers'[p].alive /\ p \in ToCome'
                                                           /\ i = timers'[p].id
<1>1. DOMAIN timers' = 1 .. Len(timers')
  <2>1. World'.timers = timers' /\ World' \in WorldRecord
    BY DEF World, Typed
  <2>2. timers' \in Seq(TimerRecord)
    BY <2>1, WorldFields
  <2> QED
    BY <2>2, LenProperties
<1> QED
  BY <1>1 DEF Due, Alive

\* What is outside of a walk is not due.
LEMMA NoneDue ==
  ASSUME pc \in {"idle", "sweep"}
  PROVE  Due = {} /\ Calling = 0
  BY DEF Due, ToCome, Calling

\* Likewise after a step.
LEMMA NoneDueNext ==
  ASSUME pc' \in {"idle", "sweep"}
  PROVE  Due' = {} /\ Calling' = 0
  BY DEF Due, ToCome, Calling

\* A timer has one record.
LEMMA OneOfEach ==
  ASSUME IndInv
  PROVE  \A p, q \in 1 .. Len(timers) : timers[p].id = timers[q].id => p = q
  BY WorldVars DEF IndInv, DistinctIds

-----------------------------------------------------------------------------
(* Each step. *)

\* AddTimer adds.
LEMMA AddRefines ==
  ASSUME IndInv, IndInv', NEW o \in Owners, NEW d \in Delays, NEW r \in BOOLEAN, AddTimer(o, d, r)
  PROVE  Promise!Next
<1>1. Typed /\ Typed' /\ GivenInv /\ pc \in {"idle", "callback"}
  BY DEF IndInv, AddTimer, Script
<1>2. PICK t \in TimerRecord : Adds(t, o, d, r)
  BY SMTT(60), AddEffect
<1>3. PICK n \in Nat, m \in Nat : n = Len(timers) /\ m = Len(given)
  BY ZenonT(60), <1>1, WorldTypes
<1>4. /\ t.id = m + 1 /\ t.owner = o /\ t.repeat = r /\ t.alive = TRUE /\ Len(timers') = n + 1
      /\ timers'[n + 1] = t /\ \A p \in 1 .. n : timers'[p] = timers[p]
      /\ pc' = pc /\ walk' = walk
  BY <1>2, <1>3 DEF Adds
<1>5. \A p \in 1 .. n + 1 : p \in 1 .. n \/ p = n + 1
  OBVIOUS
<1>6. 1 .. n \subseteq 1 .. n + 1 /\ n + 1 \in 1 .. n + 1
  OBVIOUS
<1>7. PICK s : s = Seen(t)
  OBVIOUS
<1>8. s \in Promise!Timer /\ s.id = m + 1
  BY <1>4, <1>7, TimerFields DEF Seen, Promise!Timer
<1>9. Promise!Named(s.id) = {}
  <2> SUFFICES ASSUME NEW x \in Active, x.id = m + 1 PROVE FALSE
    BY <1>8 DEF Promise!Named
  <2>1. PICK p \in 1 .. n : x = Seen(timers[p])
    BY <1>1, <1>3, ActiveMembers
  <2>2. timers[p].id = m + 1 /\ timers[p].id <= m
    BY <1>1, <1>3, <2>1, SeenFields DEF GivenInv
  <2> QED
    BY <2>2
<1>10. Active' = Active \cup {s}
  <2>1. ASSUME NEW x \in Active' PROVE x \in Active \cup {s}
    BY <1>1, <1>3, <1>4, <1>5, <1>7, <2>1, ActiveMembers, ActiveMembersNext
  <2>2. ASSUME NEW x \in Active PROVE x \in Active'
    BY <1>1, <1>3, <1>4, <1>6, <2>2, ActiveMembers, ActiveMembersNext
  <2>3. s \in Active'
    BY <1>1, <1>4, <1>6, <1>7, ActiveMembersNext
  <2> QED
    BY <2>1, <2>2, <2>3
<1>11. n + 1 \notin ToCome /\ ToCome' = ToCome
  <2>1. ToCome' = ToCome
    BY <1>4 DEF ToCome
  <2>2. pc = "callback" => walk.i \in Nat /\ walk.size \in Nat /\ walk.size <= n
    BY <1>3, WalkFacts
  <2>3. n + 1 \notin ToCome
    BY <1>1, <2>2 DEF ToCome
  <2> QED
    BY <2>1, <2>3
<1>12. Due' = Due
  <2>1. ASSUME NEW i \in Due' PROVE i \in Due
    BY <1>1, <1>3, <1>4, <1>5, <1>11, <2>1, DueMembers, DueMembersNext
  <2>2. ASSUME NEW i \in Due PROVE i \in Due'
    BY <1>1, <1>3, <1>4, <1>6, <1>11, <2>2, DueMembers, DueMembersNext
  <2> QED
    BY <2>1, <2>2
<1>13. Calling' = Calling
  <2>1. pc = "callback" => walk.i \in 1 .. n
    BY <1>3, WalkFacts
  <2> QED
    BY <1>4, <2>1 DEF Calling, Here
<1>14. Promise!Add(s)
  BY <1>9, <1>10, <1>12, <1>13 DEF Promise!Add
<1> QED
  BY <1>8, <1>14 DEF Promise!Next

\* CancelTimer cancels one timer.
LEMMA CancelRefines ==
  ASSUME IndInv, IndInv', NEW x, CancelTimer(x)
  PROVE  Promise!Next
<1>1. Typed /\ Typed'
  BY DEF IndInv
<1>2. CASE pc = "callback"
  <2>1. PICK p \in 1 .. Len(timers) :
           /\ timers[p].alive /\ Sound(World') /\ InPlace
           /\ timers'[p].alive = FALSE /\ timers'[p].remaining = timers[p].remaining
           /\ \A q \in 1 .. Len(timers) : q # p => timers'[q] = timers[q]
           /\ UNCHANGED <<version, pc, walk, given>>
    BY <1>2, CancelMarks
  <2>2. PICK i \in Ids : i = timers[p].id
    BY <1>1, WorldTypes, TimerFields
  <2>3. /\ Len(timers') = Len(timers) /\ ToCome' = ToCome
        /\ \A q \in 1 .. Len(timers) : /\ timers'[q].id = timers[q].id
                                       /\ timers'[q].alive <=> timers[q].alive /\ timers[q].id # i
                                       /\ Seen(timers'[q]) = Seen(timers[q])
    <3>1. \A q \in 1 .. Len(timers) : timers[q].id = i <=> q = p
      BY <2>2, OneOfEach
    <3> QED
      BY <2>1, <3>1, SeenSame DEF InPlace, Same, ToCome
  <2>4. Active' = Active \ Promise!Named(i)
    <3>1. \A y : y \in Active' <=> y \in Active /\ y.id # i
      BY <1>1, <2>3, ActiveMembers, ActiveMembersNext, SeenFields
    <3> QED
      BY <3>1 DEF Promise!Named
  <2>5. Due' = Due \ {i}
    <3>1. \A y : y \in Due' <=> y \in Due /\ y # i
      BY <1>1, <2>3, DueMembers, DueMembersNext
    <3> QED
      BY <3>1
  <2>6. Calling' = Calling
    <3>1. walk.i \in 1 .. Len(timers)
      BY <1>2, WalkFacts
    <3> QED
      BY <2>1, <2>3, <3>1 DEF Calling, Here
  <2>7. Promise!Cancel(i)
    BY <2>4, <2>5, <2>6 DEF Promise!Cancel
  <2> QED
    BY <2>7 DEF Promise!Next
<1>3. CASE pc = "idle"
  <2>1. PICK p \in 1 .. Len(timers) :
           /\ timers[p].alive /\ Sound(World') /\ Len(lookup') = Len(lookup)
           /\ \A t : Has(World', t) <=> Has(World, t) /\ t.id # timers[p].id
           /\ NextVersion /\ UNCHANGED <<pc, walk, given>>
    BY <1>3, CancelFrees
  <2>2. PICK i \in Ids : i = timers[p].id
    BY <1>1, WorldTypes, TimerFields
  <2>3. World.timers = timers /\ World'.timers = timers'
    BY DEF World
  <2>4. \A y : y \in Active' <=> y \in Active /\ y.id # i
    <3>1. \A y : y \in Active <=> \E t : Has(World, t) /\ t.alive /\ y = Seen(t)
      BY <1>1, <2>3, ActiveMembers DEF Has
    <3>2. \A y : y \in Active' <=> \E t : Has(World', t) /\ t.alive /\ y = Seen(t)
      BY <1>1, <2>3, ActiveMembersNext DEF Has
    <3> QED
      BY <2>1, <2>2, <3>1, <3>2, SeenFields
  <2>5. Active' = Active \ Promise!Named(i)
    BY <2>4 DEF Promise!Named
  <2>6. Due = {} /\ Due' = {} /\ Calling = 0 /\ Calling' = 0
    BY <1>3, <2>1, NoneDue, NoneDueNext
  <2>7. Promise!Cancel(i)
    BY <2>5, <2>6 DEF Promise!Cancel
  <2> QED
    BY <2>7 DEF Promise!Next
<1> QED
  BY <1>2, <1>3 DEF CancelTimer, Script

\* KillTimers kills the timers of one owner.
LEMMA KillRefines ==
  ASSUME IndInv, IndInv', NEW o \in Owners, KillTimers(o)
  PROVE  Promise!Next
<1>1. Typed /\ Typed'
  BY DEF IndInv
<1>2. CASE pc = "callback"
  <2>1. /\ Sound(World') /\ InPlace /\ UNCHANGED <<pc, walk, given>>
        /\ \A q \in 1 .. Len(timers) : timers'[q].alive = (timers[q].alive /\ timers[q].owner # o)
    BY <1>2, KillMarks
  <2>2. /\ Len(timers') = Len(timers) /\ ToCome' = ToCome
        /\ \A q \in 1 .. Len(timers) : /\ timers'[q].id = timers[q].id
                                       /\ timers'[q].alive <=> timers[q].alive /\ timers[q].owner # o
                                       /\ Seen(timers'[q]) = Seen(timers[q])
    BY <2>1, SeenSame DEF InPlace, Same, ToCome
  <2>3. Active' = {t \in Active : t.owner # o}
    <3>1. \A y : y \in Active' <=> y \in Active /\ y.owner # o
      BY <1>1, <2>2, ActiveMembers, ActiveMembersNext, SeenFields
    <3> QED
      BY <3>1
  <2>4. ASSUME NEW q \in 1 .. Len(timers), timers[q].alive
        PROVE  timers[q].owner # o <=> \A t \in Promise!Named(timers[q].id) : t.owner # o
    <3>1. Seen(timers[q]) \in Promise!Named(timers[q].id)
      BY <1>1, <2>4, ActiveMembers, SeenFields DEF Promise!Named
    <3>2. ASSUME NEW t \in Promise!Named(timers[q].id) PROVE t.owner = timers[q].owner
      <4>1. t \in Active /\ t.id = timers[q].id
        BY DEF Promise!Named
      <4>2. PICK p \in 1 .. Len(timers) : t = Seen(timers[p])
        BY <1>1, <4>1, ActiveMembers
      <4>3. p = q
        BY <4>1, <4>2, OneOfEach, SeenFields
      <4> QED
        BY <4>2, <4>3, SeenFields
    <3> QED
      BY <3>1, <3>2, SeenFields
  <2>5. Due' = {i \in Due : \A t \in Promise!Named(i) : t.owner # o}
    <3>1. \A y : y \in Due' <=> y \in Due /\ \A t \in Promise!Named(y) : t.owner # o
      <4>1. ASSUME NEW y \in Due' PROVE y \in Due /\ \A t \in Promise!Named(y) : t.owner # o
        <5>1. PICK q \in 1 .. Len(timers) : timers'[q].alive /\ q \in ToCome' /\ y = timers'[q].id
          BY <1>1, <2>2, <4>1, DueMembersNext
        <5>2. timers[q].alive /\ timers[q].owner # o /\ q \in ToCome /\ y = timers[q].id
          BY <2>2, <5>1
        <5> QED
          BY <1>1, <2>4, <5>2, DueMembers
      <4>2. ASSUME NEW y \in Due, \A t \in Promise!Named(y) : t.owner # o PROVE y \in Due'
        <5>1. PICK q \in 1 .. Len(timers) : timers[q].alive /\ q \in ToCome /\ y = timers[q].id
          BY <1>1, <4>2, DueMembers
        <5>2. timers[q].owner # o
          BY <2>4, <4>2, <5>1
        <5> QED
          BY <1>1, <2>2, <5>1, <5>2, DueMembersNext
      <4> QED
        BY <4>1, <4>2
    <3> QED
      BY <3>1
  <2>6. Calling' = Calling
    <3>1. walk.i \in 1 .. Len(timers)
      BY <1>2, WalkFacts
    <3> QED
      BY <2>1, <2>2, <3>1 DEF Calling, Here
  <2>7. Promise!Kill(o)
    BY <2>3, <2>5, <2>6 DEF Promise!Kill
  <2> QED
    BY <2>7 DEF Promise!Next
<1>3. CASE pc = "idle"
  <2>1. /\ UNCHANGED <<pc, walk, given>>
        /\ \A t : Has(World', t) <=> Has(World, t) /\ t.owner # o
    BY <1>3, KillFrees
  <2>2. World.timers = timers /\ World'.timers = timers'
    BY DEF World
  <2>3. \A y : y \in Active' <=> y \in Active /\ y.owner # o
    <3>1. \A y : y \in Active <=> \E t : Has(World, t) /\ t.alive /\ y = Seen(t)
      BY <1>1, <2>2, ActiveMembers DEF Has
    <3>2. \A y : y \in Active' <=> \E t : Has(World', t) /\ t.alive /\ y = Seen(t)
      BY <1>1, <2>2, ActiveMembersNext DEF Has
    <3> QED
      BY <2>1, <3>1, <3>2, SeenFields
  <2>4. Active' = {t \in Active : t.owner # o}
    BY <2>3
  <2>5. Due = {} /\ Due' = {} /\ Calling = 0 /\ Calling' = 0
    BY <1>3, <2>1, NoneDue, NoneDueNext
  <2>6. Promise!Kill(o)
    BY <2>4, <2>5 DEF Promise!Kill
  <2> QED
    BY <2>6 DEF Promise!Next
<1> QED
  BY <1>2, <1>3 DEF KillTimers, Script

\* UpdateTimers begins an update.
LEMMA UpdateRefines ==
  ASSUME IndInv, IndInv', NEW dt \in Steps, UpdateTimers(dt)
  PROVE  Promise!Next
<1>1. Typed /\ Typed'
  BY DEF IndInv
<1>2. /\ pc = "idle" /\ pc' = "walk" /\ timers' = timers
      /\ walk' = [i |-> 1, size |-> Len(timers), dt |-> dt]
  BY DEF UpdateTimers, worldVars
<1>3. Due = {} /\ Calling = 0
  BY <1>2, NoneDue
<1>4. Active' = Active /\ Calling' = Calling
  BY <1>2, <1>3 DEF Active, Alive, Calling
<1>5. ToCome' = 1 .. Len(timers)
  BY <1>2 DEF ToCome
<1>6. Due' = {t.id : t \in Active}
  <2>1. \A i : i \in Due' <=> \E t \in Active : i = t.id
    BY <1>1, <1>2, <1>5, ActiveMembers, DueMembersNext, SeenFields
  <2> QED
    BY <2>1
<1>7. Promise!Begin
  BY <1>3, <1>4, <1>6 DEF Promise!Begin, Promise!None
<1> QED
  BY <1>7 DEF Promise!Next

\* The walk goes on by one timer.
LEMMA ToComeFacts ==
  ASSUME IndInv, Walking, NEW j, j = walk.i
  PROVE  /\ ToCome = j .. walk.size /\ j \in ToCome /\ j \in 1 .. Len(timers)
         /\ \A q \in 1 .. Len(timers) : q \in j + 1 .. walk.size <=> q \in ToCome /\ q # j
<1>1. j \in Nat /\ walk.size \in Nat /\ j <= walk.size /\ j \in 1 .. Len(timers) /\ walk.size <= Len(timers)
  BY WalkFacts
<1>2. ToCome = j .. walk.size
  BY DEF ToCome, Walking
<1>3. \A q \in Nat : q \in j + 1 .. walk.size <=> q \in j .. walk.size /\ q # j
  BY <1>1
<1>4. \A q \in 1 .. Len(timers) : q \in Nat
  OBVIOUS
<1> QED
  BY <1>1, <1>2, <1>3, <1>4

\* PassTimer passes over a timer, or is not seen if the timer is dead.
LEMMA PassRefines ==
  ASSUME IndInv, IndInv', PassTimer
  PROVE  Promise!Next \/ UNCHANGED <<Active, Due, Calling>>
<1>1. Typed /\ Typed' /\ Walking /\ pc = "walk"
  BY DEF IndInv, PassTimer, Walking
<1>2. PICK j : j = walk.i
  OBVIOUS
<1>3. /\ InPlace /\ pc' = pc /\ walk' = [walk EXCEPT !.i = j + 1]
      /\ timers'[j].alive = timers[j].alive
      /\ \A q \in 1 .. Len(timers) : q # j => timers'[q] = timers[q]
  BY <1>2, PassEffect
<1>4. /\ j \in ToCome /\ j \in 1 .. Len(timers)
      /\ \A q \in 1 .. Len(timers) : q \in j + 1 .. walk.size <=> q \in ToCome /\ q # j
  BY <1>1, <1>2, ToComeFacts
<1>5. ToCome' = j + 1 .. walk.size
  <2>1. walk'.i = j + 1 /\ walk'.size = walk.size
    BY <1>1, <1>3 DEF Typed
  <2> QED
    BY <1>1, <1>3, <2>1 DEF ToCome
<1>6. /\ Len(timers') = Len(timers)
      /\ \A q \in 1 .. Len(timers) : /\ timers'[q].id = timers[q].id
                                     /\ timers'[q].alive = timers[q].alive
                                     /\ Seen(timers'[q]) = Seen(timers[q])
  BY <1>3, <1>4, SeenSame DEF InPlace, Same
<1>7. Active' = Active
  <2>1. \A y : y \in Active' <=> y \in Active
    BY <1>1, <1>6, ActiveMembers, ActiveMembersNext
  <2> QED
    BY <2>1
<1>8. Calling = 0 /\ Calling' = 0
  BY <1>1, <1>3 DEF Calling
<1>9. PICK i \in Ids : i = timers[j].id
  BY <1>1, <1>4, WorldTypes, TimerFields
<1>10. \A q \in 1 .. Len(timers) : timers[q].id = i <=> q = j
  BY <1>4, <1>9, OneOfEach
<1>11. \A y : y \in Due' <=> y \in Due /\ y # i
  BY SMTT(60), <1>1, <1>4, <1>5, <1>6, <1>10, DueMembers, DueMembersNext
<1>12. CASE timers[j].alive
  <2>1. i \in Due
    BY <1>1, <1>4, <1>9, <1>12, DueMembers
  <2>2. Promise!PassOver(i)
    BY <1>7, <1>8, <1>11, <2>1 DEF Promise!PassOver, Promise!None
  <2> QED
    BY <2>2 DEF Promise!Next
<1>13. CASE ~timers[j].alive
  <2>1. i \notin Due
    BY <1>1, <1>10, <1>13, DueMembers
  <2>2. Due' = Due
    BY <1>11, <2>1
  <2> QED
    BY <1>7, <1>8, <2>2
<1> QED
  BY <1>12, <1>13

\* CallTimer calls a timer that is due.
LEMMA CallRefines ==
  ASSUME IndInv, IndInv', CallTimer
  PROVE  Promise!Next
<1>1. Typed /\ Typed' /\ Walking /\ pc = "walk"
  BY DEF IndInv, CallTimer, Walking
<1>2. PICK j : j = walk.i
  OBVIOUS
<1>3. /\ InPlace /\ pc' = "callback" /\ walk' = walk
      /\ timers[j].alive /\ timers'[j].alive
      /\ \A q \in 1 .. Len(timers) : q # j => timers'[q] = timers[q]
  BY <1>2, CallEffect
<1>4. /\ j \in ToCome /\ j \in 1 .. Len(timers)
      /\ \A q \in 1 .. Len(timers) : q \in j + 1 .. walk.size <=> q \in ToCome /\ q # j
  BY <1>1, <1>2, ToComeFacts
<1>5. ToCome' = j + 1 .. walk.size
  BY <1>2, <1>3 DEF ToCome
<1>6. /\ Len(timers') = Len(timers)
      /\ \A q \in 1 .. Len(timers) : /\ timers'[q].id = timers[q].id
                                     /\ timers'[q].alive <=> timers[q].alive
                                     /\ Seen(timers'[q]) = Seen(timers[q])
  BY <1>3, <1>4, SeenSame DEF InPlace, Same
<1>7. Active' = Active
  <2>1. \A y : y \in Active' <=> y \in Active
    BY <1>1, <1>6, ActiveMembers, ActiveMembersNext
  <2> QED
    BY <2>1
<1>8. PICK i \in Ids : i = timers[j].id
  BY <1>1, <1>4, WorldTypes, TimerFields
<1>9. Calling = 0 /\ Calling' = i
  BY <1>1, <1>2, <1>3, <1>4, <1>6, <1>8 DEF Calling, Here
<1>10. \A q \in 1 .. Len(timers) : timers[q].id = i <=> q = j
  BY <1>4, <1>8, OneOfEach
<1>11. \A y : y \in Due' <=> y \in Due /\ y # i
  BY <1>1, <1>4, <1>5, <1>6, <1>10, DueMembers, DueMembersNext
<1>12. i \in Due
  BY <1>1, <1>3, <1>4, <1>8, DueMembers
<1>13. Promise!Named(i) # {}
  <2>1. Seen(timers[j]) \in Active /\ Seen(timers[j]).id = i
    BY <1>1, <1>3, <1>4, <1>8, ActiveMembers, SeenFields
  <2> QED
    BY <2>1 DEF Promise!Named
<1>14. Promise!Call(i)
  BY <1>7, <1>9, <1>11, <1>12, <1>13 DEF Promise!Call, Promise!None
<1> QED
  BY <1>14 DEF Promise!Next

\* CallbackReturns: a timer that does not repeat is over.
LEMMA ReturnRefines ==
  ASSUME IndInv, IndInv', CallbackReturns
  PROVE  Promise!Next
<1>1. Typed /\ Typed' /\ pc = "callback"
  BY DEF IndInv, CallbackReturns
<1>2. PICK j \in 1 .. Len(timers) : j = walk.i
  BY <1>1, WalkFacts
<1>3. /\ InPlace /\ pc' = "walk" /\ walk' = [walk EXCEPT !.i = j + 1]
      /\ timers'[j].alive = (timers[j].alive /\ timers[j].repeat)
      /\ \A q \in 1 .. Len(timers) : q # j => timers'[q] = timers[q]
  BY <1>2, ReturnEffect
<1>4. ToCome' = ToCome /\ j \notin ToCome
  <2>1. walk'.i = j + 1 /\ walk'.size = walk.size /\ j \in Nat /\ walk.size \in Nat
    BY <1>1, <1>2, <1>3 DEF Typed
  <2>2. j \notin j + 1 .. walk.size
    BY <2>1
  <2>3. ToCome = j + 1 .. walk.size
    BY <1>1, <1>2 DEF ToCome
  <2>4. ToCome' = j + 1 .. walk.size
    BY <1>3, <2>1 DEF ToCome
  <2> QED
    BY <2>2, <2>3, <2>4
<1>5. PICK i \in Ids : i = timers[j].id /\ i # 0
  BY <1>1, WorldTypes, TimerFields
<1>6. Calling = i /\ Calling' = 0
  BY <1>1, <1>2, <1>3, <1>5 DEF Calling, Here
<1>7. \A q \in 1 .. Len(timers) : timers[q].id = i <=> q = j
  BY <1>5, OneOfEach
<1>8. /\ Len(timers') = Len(timers)
      /\ \A q \in 1 .. Len(timers) :
           /\ timers'[q].id = timers[q].id
           /\ timers'[q].alive <=> timers[q].alive /\ (timers[q].id = i => timers[q].repeat)
           /\ Seen(timers'[q]) = Seen(timers[q])
  BY <1>3, <1>7, SeenSame DEF InPlace, Same
<1>9. Active' = {t \in Active : t.id = i => t.repeat}
  <2>1. \A y : y \in Active' <=> y \in Active /\ (y.id = i => y.repeat)
    BY <1>1, <1>8, ActiveMembers, ActiveMembersNext, SeenFields
  <2> QED
    BY <2>1
<1>10. Due' = Due
  <2>1. \A q \in 1 .. Len(timers) : q \in ToCome => timers'[q] = timers[q]
    BY <1>3, <1>4
  <2>2. \A y : y \in Due' <=> y \in Due
    BY <1>1, <1>4, <1>8, <2>1, DueMembers, DueMembersNext
  <2> QED
    BY <2>2
<1>11. Promise!Return
  BY <1>5, <1>6, <1>9, <1>10 DEF Promise!Return, Promise!None
<1> QED
  BY <1>11 DEF Promise!Next

\* The rest of an update is not seen.
LEMMA EndRefines ==
  ASSUME IndInv, IndInv', EndWalk \/ SweepTimer \/ EndUpdate \/ UNCHANGED vars
  PROVE  UNCHANGED <<Active, Due, Calling>>
<1>1. Typed /\ Typed'
  BY DEF IndInv
<1>2. CASE EndWalk
  <2>1. pc = "walk" /\ walk.i > walk.size /\ pc' = "sweep" /\ timers' = timers
    BY <1>2 DEF EndWalk, worldVars
  <2>2. ToCome = {}
    <3>1. walk.i \in Nat /\ walk.size \in Nat
      BY <1>1 DEF Typed
    <3> QED
      BY <2>1, <3>1 DEF ToCome
  <2>3. Due = {} /\ Calling = 0
    BY <2>1, <2>2 DEF Due, Calling
  <2>4. Due' = {} /\ Calling' = 0
    BY <2>1, NoneDueNext
  <2>5. Active' = Active
    BY <2>1 DEF Active, Alive
  <2> QED
    BY <2>3, <2>4, <2>5
<1>3. CASE SweepTimer
  <2>1. pc = "sweep" /\ pc' = "sweep" /\ walk.i \in 1 .. Len(timers)
    BY <1>3, SweepEffect DEF SweepTimer
  <2>2. Due = {} /\ Calling = 0 /\ Due' = {} /\ Calling' = 0
    BY <2>1, NoneDue, NoneDueNext
  <2>3. CASE World' = World
    <3>1. timers' = timers
      BY <2>3 DEF World
    <3> QED
      BY <2>2, <3>1 DEF Active, Alive
  <2>4. CASE /\ ~timers[walk.i].alive
             /\ \A t : Has(World', t) <=> Has(World, t) /\ t.id # timers[walk.i].id
    <3>1. World.timers = timers /\ World'.timers = timers'
      BY DEF World
    <3>2. \A y : y \in Active <=> \E t : Has(World, t) /\ t.alive /\ y = Seen(t)
      BY <1>1, <3>1, ActiveMembers DEF Has
    <3>3. \A y : y \in Active' <=> \E t : Has(World', t) /\ t.alive /\ y = Seen(t)
      BY <1>1, <3>1, ActiveMembersNext DEF Has
    <3>4. \A t : Has(World, t) /\ t.alive => t.id # timers[walk.i].id
      BY <2>1, <2>4, <3>1, OneOfEach DEF Has
    <3>5. \A y : y \in Active' <=> y \in Active
      BY <2>4, <3>2, <3>3, <3>4
    <3> QED
      BY <2>2, <3>5
  <2> QED
    BY <1>3, <2>3, <2>4, SweepEffect
<1>4. CASE EndUpdate
  <2>1. pc = "sweep" /\ pc' = "idle" /\ timers' = timers
    BY <1>4 DEF EndUpdate, worldVars
  <2>2. Due = {} /\ Calling = 0 /\ Due' = {} /\ Calling' = 0
    BY <2>1, NoneDue, NoneDueNext
  <2> QED
    BY <2>1, <2>2 DEF Active, Alive
<1>5. CASE UNCHANGED vars
  BY <1>5 DEF vars, worldVars, Active, Due, Calling, Alive, ToCome, Here
<1> QED
  BY <1>2, <1>3, <1>4, <1>5

-----------------------------------------------------------------------------
(* The theorem. *)

\* A new world has no timers.
LEMMA RefinementInit == Init => Promise!Init
<1> SUFFICES ASSUME Init PROVE Promise!Init
  OBVIOUS
<1>1. DOMAIN timers = {}
  BY DEF Init
<1>2. Active = {} /\ Due = {} /\ Calling = 0
  BY <1>1 DEF Active, Due, Calling, Alive, Init
<1> QED
  BY <1>2 DEF Promise!Init, Promise!None

\* Every step is a step of the promise, or is not seen.
LEMMA RefinementStep ==
  IndInv /\ IndInv' /\ [Next]_vars => [Promise!Next]_<<Active, Due, Calling>>
<1> SUFFICES ASSUME IndInv, IndInv', [Next]_vars PROVE Promise!Next \/ UNCHANGED <<Active, Due, Calling>>
  OBVIOUS
<1>1. CASE \E o \in Owners, d \in Delays, r \in BOOLEAN : AddTimer(o, d, r)
  BY <1>1, AddRefines
<1>2. CASE \E x \in Ids : CancelTimer(x)
  BY <1>2, CancelRefines
<1>3. CASE \E o \in Owners : KillTimers(o)
  BY <1>3, KillRefines
<1>4. CASE \E dt \in Steps : UpdateTimers(dt)
  BY <1>4, UpdateRefines
<1>5. CASE PassTimer
  BY <1>5, PassRefines
<1>6. CASE CallTimer
  BY <1>6, CallRefines
<1>7. CASE CallbackReturns
  BY <1>7, ReturnRefines
<1>8. CASE EndWalk \/ SweepTimer \/ EndUpdate \/ UNCHANGED vars
  BY <1>8, EndRefines
<1> QED
  BY <1>1, <1>2, <1>3, <1>4, <1>5, <1>6, <1>7, <1>8 DEF Next, Update

\* An update calls each timer that was there when it began and is still active at most once
\* and none that a callback added, cancelled or killed; a timer that does not repeat is
\* called once: for every capacity, growth, delay and step of time, and whether or not
\* versions wrap.
THEOREM TimersKeepTheirPromise == Spec => RefinesPromise
<1>1. Init => Promise!Init
  BY RefinementInit
<1>2. IndInv /\ IndInv' /\ [Next]_vars => [Promise!Next]_<<Active, Due, Calling>>
  BY RefinementStep
<1> QED
  BY <1>1, <1>2, Invariance, PTL DEF Spec, RefinesPromise, Promise!Spec

=============================================================================
