-------------------------- MODULE LoadQueueProofs --------------------------
(***************************************************************************)
(* Proofs about LoadQueue, for every size of the ring, every range of the  *)
(* counters that is a multiple of it, and every set of resources; and that *)
(* the ring implements the ordered queue of LoadQueueSpec, with read       *)
(* errors or without.                                                      *)
(***************************************************************************)
EXTENDS LoadQueue, NaturalsInduction, WellFoundedInduction, SequenceTheorems, TLAPS

-----------------------------------------------------------------------------
(* Arithmetic of the counters and of the ring. *)

\* Quotient and remainder by the ring size.
LEMMA RingDivision ==
  ASSUME NEW a \in Int
  PROVE  /\ a = QUEUE_SLOTS * (a \div QUEUE_SLOTS) + (a % QUEUE_SLOTS)
         /\ a \div QUEUE_SLOTS \in Int
         /\ a % QUEUE_SLOTS \in Slots
  BY RingAssumption DEF Slots

\* A remainder is determined by the number it is congruent to.
LEMMA RingRemainder ==
  ASSUME NEW q \in Int, NEW r \in Slots
  PROVE  (QUEUE_SLOTS * q + r) % QUEUE_SLOTS = r
  BY RingAssumption DEF Slots

\* Adding full turns of the ring does not change the slot.
LEMMA RingTurns ==
  ASSUME NEW a \in Int, NEW q \in Int
  PROVE  (a + QUEUE_SLOTS * q) % QUEUE_SLOTS = a % QUEUE_SLOTS
<1>1. /\ a = QUEUE_SLOTS * (a \div QUEUE_SLOTS) + (a % QUEUE_SLOTS)
      /\ a \div QUEUE_SLOTS \in Int
      /\ a % QUEUE_SLOTS \in Slots
  BY RingDivision
<1>2. a + QUEUE_SLOTS * q = QUEUE_SLOTS * ((a \div QUEUE_SLOTS) + q) + (a % QUEUE_SLOTS)
  BY <1>1, RingAssumption
<1>3. (a \div QUEUE_SLOTS) + q \in Int
  BY <1>1
<1> QED
  BY <1>1, <1>2, <1>3, RingRemainder

\* Numbers less than one turn apart that share a slot are equal.
LEMMA RingInjective ==
  ASSUME NEW a \in Int, NEW b \in Int, a % QUEUE_SLOTS = b % QUEUE_SLOTS,
         a - b < QUEUE_SLOTS, b - a < QUEUE_SLOTS
  PROVE  a = b
<1> DEFINE q == (a \div QUEUE_SLOTS) - (b \div QUEUE_SLOTS)
<1>1. /\ a = QUEUE_SLOTS * (a \div QUEUE_SLOTS) + (a % QUEUE_SLOTS)
      /\ b = QUEUE_SLOTS * (b \div QUEUE_SLOTS) + (b % QUEUE_SLOTS)
      /\ a \div QUEUE_SLOTS \in Int /\ b \div QUEUE_SLOTS \in Int
      /\ a % QUEUE_SLOTS \in Int
  BY RingDivision DEF Slots
<1>2. a - b = QUEUE_SLOTS * q /\ q \in Int
  BY <1>1, RingAssumption
<1> HIDE DEF q
<1>3. q = 0
  <2>1. QUEUE_SLOTS * q < QUEUE_SLOTS /\ QUEUE_SLOTS * (-q) < QUEUE_SLOTS
    BY <1>2, RingAssumption
  <2>2. ~(q >= 1)
    BY <2>1, <1>2, RingAssumption
  <2>3. ~(q <= -1)
    BY <2>1, <1>2, RingAssumption
  <2> QED BY <2>2, <2>3, <1>2
<1> QED
  BY <1>2, <1>3, RingAssumption

\* Wrapping a number to the range of the counters keeps its slot.
LEMMA WrapKeepsSlot ==
  ASSUME NEW a \in Int
  PROVE  (a % COUNTER_RANGE) % QUEUE_SLOTS = a % QUEUE_SLOTS
<1> DEFINE q == (COUNTER_RANGE \div QUEUE_SLOTS) * (a \div COUNTER_RANGE)
<1>1. /\ a = COUNTER_RANGE * (a \div COUNTER_RANGE) + (a % COUNTER_RANGE)
      /\ a \div COUNTER_RANGE \in Int
      /\ a % COUNTER_RANGE \in Int
  BY RingAssumption
<1>2. /\ COUNTER_RANGE = QUEUE_SLOTS * (COUNTER_RANGE \div QUEUE_SLOTS)
      /\ COUNTER_RANGE \div QUEUE_SLOTS \in Int
  BY RingAssumption, RingDivision
<1>3. COUNTER_RANGE * (a \div COUNTER_RANGE) = QUEUE_SLOTS * q
  BY <1>1, <1>2, RingAssumption
<1>4. q \in Int
  BY <1>1, <1>2
<1> HIDE DEF q
<1>5. a = (a % COUNTER_RANGE) + QUEUE_SLOTS * q
  BY <1>1, <1>3, <1>4, RingAssumption
<1> QED
  BY <1>1, <1>4, <1>5, RingTurns

\* Subtraction of counters without the remainder.
LEMMA MinusValue ==
  ASSUME NEW a \in Counters, NEW b \in Counters
  PROVE  /\ Minus(a, b) = IF a >= b THEN a - b ELSE a - b + COUNTER_RANGE
         /\ Minus(a, b) \in Counters
  BY RingAssumption DEF Minus, Counters

\* Addition to a counter without the remainder.
LEMMA PlusValue ==
  ASSUME NEW a \in Counters, NEW k \in Counters
  PROVE  /\ Plus(a, k) = IF a + k < COUNTER_RANGE THEN a + k ELSE a + k - COUNTER_RANGE
         /\ Plus(a, k) \in Counters
  BY RingAssumption DEF Plus, Counters

\* Advancing the front of a distance lengthens it by one.
LEMMA MinusFront ==
  ASSUME NEW a \in Counters, NEW b \in Counters, Minus(a, b) < COUNTER_RANGE - 1
  PROVE  Minus(Plus(a, 1), b) = Minus(a, b) + 1
<1>1. 1 \in Counters
  BY RingAssumption DEF Counters
<1>2. /\ Plus(a, 1) = IF a + 1 < COUNTER_RANGE THEN a + 1 ELSE a + 1 - COUNTER_RANGE
      /\ Plus(a, 1) \in Counters
  BY <1>1, PlusValue
<1>3. Minus(a, b) = IF a >= b THEN a - b ELSE a - b + COUNTER_RANGE
  BY MinusValue
<1>4. Minus(Plus(a, 1), b) =
        IF Plus(a, 1) >= b THEN Plus(a, 1) - b ELSE Plus(a, 1) - b + COUNTER_RANGE
  BY <1>2, MinusValue
<1> QED
  BY <1>2, <1>3, <1>4, RingAssumption DEF Counters

\* Advancing the back of a distance shortens it.
LEMMA MinusBack ==
  ASSUME NEW a \in Counters, NEW b \in Counters, NEW k \in 0 .. Minus(a, b)
  PROVE  Minus(a, Plus(b, k)) = Minus(a, b) - k
<1>1. /\ Minus(a, b) = IF a >= b THEN a - b ELSE a - b + COUNTER_RANGE
      /\ Minus(a, b) \in Counters
  BY MinusValue
<1>2. k \in Counters
  BY <1>1, RingAssumption DEF Counters
<1>3. /\ Plus(b, k) = IF b + k < COUNTER_RANGE THEN b + k ELSE b + k - COUNTER_RANGE
      /\ Plus(b, k) \in Counters
  BY <1>2, PlusValue
<1>4. Minus(a, Plus(b, k)) =
        IF a >= Plus(b, k) THEN a - Plus(b, k) ELSE a - Plus(b, k) + COUNTER_RANGE
  BY <1>3, MinusValue
<1> QED
  BY <1>1, <1>2, <1>3, <1>4, RingAssumption DEF Counters

\* Counters at the same distance are equal.
LEMMA MinusInjective ==
  ASSUME NEW a \in Counters, NEW b \in Counters, NEW c \in Counters,
         Minus(a, c) = Minus(b, c)
  PROVE  a = b
<1>1. Minus(a, c) = IF a >= c THEN a - c ELSE a - c + COUNTER_RANGE
  BY MinusValue
<1>2. Minus(b, c) = IF b >= c THEN b - c ELSE b - c + COUNTER_RANGE
  BY MinusValue
<1>3. (IF a >= c THEN a - c ELSE a - c + COUNTER_RANGE)
        = (IF b >= c THEN b - c ELSE b - c + COUNTER_RANGE)
  BY <1>1, <1>2
<1> QED
  BY <1>3, RingAssumption DEF Counters

\* Distances from one counter, without the counter.
LEMMA MinusSelf ==
  ASSUME NEW a \in Counters
  PROVE  Minus(a, a) = 0
  BY MinusValue, RingAssumption DEF Counters

-----------------------------------------------------------------------------
(* Positions of slots in the ring. *)

\* A position is an offset in the ring.
LEMMA PositionRange ==
  ASSUME NEW i \in Slots, m_Back \in Counters
  PROVE  Position(i) \in Slots
<1>1. i - m_Back \in Int
  BY RingAssumption DEF Slots, Counters
<1> QED
  BY <1>1, RingDivision DEF Position

\* Different slots have different positions.
LEMMA PositionInjective ==
  ASSUME NEW i \in Slots, NEW j \in Slots, m_Back \in Counters,
         Position(i) = Position(j)
  PROVE  i = j
<1>1. i - m_Back \in Int /\ j - m_Back \in Int
  BY RingAssumption DEF Slots, Counters
<1>2. (i - m_Back) - (j - m_Back) < QUEUE_SLOTS /\ (j - m_Back) - (i - m_Back) < QUEUE_SLOTS
  BY RingAssumption DEF Slots, Counters
<1>3. i - m_Back = j - m_Back
  BY <1>1, <1>2, RingInjective DEF Position
<1> QED
  BY <1>3 DEF Slots, Counters

\* The slot of a counter less than one turn ahead of m_Back comes as many
\* positions behind m_Back as the counter is ahead of it.
LEMMA PositionOfCounter ==
  ASSUME m_Back \in Counters, NEW c \in Counters, Minus(c, m_Back) < QUEUE_SLOTS
  PROVE  SlotOf(c) \in Slots /\ Position(SlotOf(c)) = Minus(c, m_Back)
<1> DEFINE d == Minus(c, m_Back)
           t == c \div QUEUE_SLOTS
<1>1. c \in Int /\ m_Back \in Int
  BY RingAssumption DEF Counters
<1>2. c = QUEUE_SLOTS * t + SlotOf(c) /\ t \in Int /\ SlotOf(c) \in Slots
  BY <1>1, RingDivision DEF SlotOf
<1> HIDE DEF t
<1>3. -t \in Int /\ c - m_Back \in Int
  BY <1>1, <1>2
<1>4. SlotOf(c) - m_Back = (c - m_Back) + QUEUE_SLOTS * (-t)
  BY <1>1, <1>2, RingAssumption DEF Slots
<1>5. Position(SlotOf(c)) = (c - m_Back) % QUEUE_SLOTS
  BY <1>3, <1>4, RingTurns DEF Position
<1>6. d % QUEUE_SLOTS = (c - m_Back) % QUEUE_SLOTS
  BY <1>3, WrapKeepsSlot DEF Minus
<1>7. d \in Slots
  BY MinusValue, RingAssumption DEF Slots, Counters
<1>8. d % QUEUE_SLOTS = d
  BY <1>7, RingAssumption DEF Slots
<1> QED
  BY <1>2, <1>5, <1>6, <1>8

\* Advancing m_Back by k moves every slot k positions closer, and those it
\* passes to the end of the ring.
LEMMA PositionAdvance ==
  ASSUME NEW i \in Slots, m_Back \in Counters, NEW k \in 0 .. QUEUE_SLOTS,
         m_Back' = Plus(m_Back, k)
  PROVE  Position(i)' = IF Position(i) >= k THEN Position(i) - k
                        ELSE Position(i) - k + QUEUE_SLOTS
<1> DEFINE p == Position(i)
           q == (i - m_Back) \div QUEUE_SLOTS
           w == (m_Back + k) \div COUNTER_RANGE
           z == (COUNTER_RANGE \div QUEUE_SLOTS) * w
<1>1. i \in Int /\ m_Back \in Int /\ k \in Int /\ i - m_Back \in Int /\ m_Back + k \in Int
  BY RingAssumption DEF Slots, Counters
<1>2. i - m_Back = QUEUE_SLOTS * q + p /\ q \in Int /\ p \in Slots
  BY <1>1, RingDivision DEF Position
<1>3. m_Back + k = COUNTER_RANGE * w + m_Back' /\ w \in Int /\ m_Back' \in Int
  BY <1>1, RingAssumption DEF Plus
<1>4. /\ COUNTER_RANGE = QUEUE_SLOTS * (COUNTER_RANGE \div QUEUE_SLOTS)
      /\ COUNTER_RANGE \div QUEUE_SLOTS \in Int
  BY RingAssumption, RingDivision
<1>5. COUNTER_RANGE * w = QUEUE_SLOTS * z /\ z \in Int
  BY SMTT(60), <1>3, <1>4, RingAssumption
<1> HIDE DEF p, q, w, z
<1>6. i - m_Back' = (p - k) + QUEUE_SLOTS * (q + z) /\ q + z \in Int /\ p - k \in Int
  <2> DEFINE A == QUEUE_SLOTS * q
             B == QUEUE_SLOTS * z
  <2>1. A \in Int /\ B \in Int /\ p \in Int
    BY <1>2, <1>5, RingAssumption DEF Slots
  <2>2. QUEUE_SLOTS * (q + z) = A + B
    BY <1>2, <1>5, RingAssumption
  <2>3. i - m_Back = A + p /\ m_Back + k = B + m_Back'
    BY <1>2, <1>3, <1>5
  <2> HIDE DEF A, B
  <2>4. i - m_Back' = (p - k) + (A + B)
    BY <1>1, <1>3, <2>1, <2>3
  <2> QED
    BY <1>1, <1>2, <1>5, <2>1, <2>2, <2>4
<1>7. Position(i)' = (p - k) % QUEUE_SLOTS
  BY <1>6, RingTurns DEF Position
<1>8. (p - k) % QUEUE_SLOTS = IF p >= k THEN p - k ELSE p - k + QUEUE_SLOTS
  <2>1. CASE p >= k
    BY <2>1, <1>2, RingAssumption DEF Slots
  <2>2. CASE p < k
    <3>1. p - k + QUEUE_SLOTS \in Slots
      BY <2>2, <1>2, RingAssumption DEF Slots
    <3>2. p - k = QUEUE_SLOTS * (-1) + (p - k + QUEUE_SLOTS)
      BY <1>2, RingAssumption DEF Slots
    <3> QED BY <3>1, <3>2, <2>2, <1>2, RingRemainder DEF Slots
  <2> QED BY <2>1, <2>2, <1>2 DEF Slots
<1> QED
  BY <1>7, <1>8 DEF p

-----------------------------------------------------------------------------
(* Type correctness. *)

\* Every outcome of DoLoadResource leaves a buffer of a possible capacity.
LEMMA OutcomeType ==
  ASSUME NEW o \in LoadOutcomes
  PROVE  /\ o.res \in Results \ {PENDING}
         /\ o.size \in Nat
         /\ o.capacity \in Nat
         /\ \E s \in Sizes \cup {0} : o.capacity = Grown(s)
<1>1. \A s \in Sizes : s \in Nat
  BY BufferAssumption
<1>2. CASE o = [res |-> NOT_FOUND, size |-> 0, capacity |-> DEFAULT_CAPACITY]
  <2>1. o.capacity = Grown(0)
    BY <1>2, BufferAssumption DEF Grown
  <2> QED
    BY <1>2, <2>1, BufferAssumption DEF Results, NOT_FOUND, PENDING
<1>3. CASE \E s \in Sizes : o = [res |-> OK, size |-> s, capacity |-> Grown(s)]
  BY <1>1, <1>3, BufferAssumption DEF Results, OK, PENDING, Grown
<1>4. CASE \E s \in Sizes : o = [res |-> IO_ERROR, size |-> 0, capacity |-> Grown(s)]
  BY <1>1, <1>4, BufferAssumption DEF Results, IO_ERROR, PENDING, Grown
<1> QED
  BY <1>2, <1>3, <1>4 DEF LoadOutcomes

\* The slot of a counter is a slot, and counters are closed under increment.
LEMMA CounterType ==
  ASSUME NEW c \in Counters
  PROVE  SlotOf(c) \in Slots /\ Plus(c, 1) \in Counters
<1>1. 1 \in Counters
  BY RingAssumption DEF Counters
<1> QED
  BY <1>1, PlusValue, RingDivision DEF SlotOf, Counters

\* The fields of a slot after each operation on it.
LEMMA SlotFields ==
  ASSUME NEW r \in Request, result \in Results
  PROVE  /\ \A n \in Names : /\ Begun(r, n) \in Request
                             /\ Begun(r, n).m_Name = n
                             /\ Begun(r, n).m_LoadResult = PENDING
                             /\ Begun(r, n).size = r.size
         /\ /\ Freed(r) \in Request
            /\ Freed(r).m_Name = NoName
            /\ Freed(r).size = 0
            /\ Freed(r).m_LoadResult = r.m_LoadResult
            /\ Freed(r).data = r.data
         /\ /\ Published(r) \in Request
            /\ Published(r).m_Name = r.m_Name
            /\ Published(r).size = r.size
            /\ Published(r).m_LoadResult = result
            /\ Published(r).data = r.data
            /\ Published(r).capacity = r.capacity
  BY DEF Request, Results, Begun, Freed, Published

\* The fields of the slot that a load has filled.
LEMMA FilledFields ==
  ASSUME NEW r \in Request, NEW o \in LoadOutcomes
  PROVE  /\ Filled(r, o) \in Request
         /\ Filled(r, o).m_Name = r.m_Name
         /\ Filled(r, o).m_LoadResult = r.m_LoadResult
         /\ Filled(r, o).size = o.size
         /\ Filled(r, o).capacity = o.capacity
         /\ o.res = OK => Filled(r, o).data = r.m_Name
<1>1. o.size \in Nat /\ o.capacity \in Nat
  BY OutcomeType
<1> QED
  BY <1>1 DEF Request, Filled

\* Trimming keeps the type of the ring and changes capacities only.
LEMMA TrimFields ==
  ASSUME NEW r \in [Slots -> Request]
  PROVE  /\ Trim(r) \in [Slots -> Request]
         /\ \A i \in Slots :
              /\ Trim(r)[i].m_Name = r[i].m_Name
              /\ Trim(r)[i].m_LoadResult = r[i].m_LoadResult
              /\ Trim(r)[i].size = r[i].size
              /\ Trim(r)[i].data = r[i].data
              /\ r[i].size > 0 => Trim(r)[i].capacity = r[i].capacity
<1> DEFINE t(x) == [x EXCEPT !.capacity = IF x.size = 0 /\ @ > DEFAULT_CAPACITY
                                          THEN 0 ELSE @]
<1>1. ASSUME NEW x \in Request
      PROVE  /\ t(x) \in Request
             /\ t(x).m_Name = x.m_Name
             /\ t(x).m_LoadResult = x.m_LoadResult
             /\ t(x).size = x.size
             /\ t(x).data = x.data
             /\ x.size > 0 => t(x).capacity = x.capacity
  BY DEF Request
<1>2. Trim(r) = [i \in Slots |-> t(r[i])]
  BY DEF Trim
<1> HIDE DEF t
<1> QED
  BY <1>1, <1>2

\* One step of the worker or of the client keeps every variable in its type.
LEMMA TypeStep == TypeOK /\ [Next]_vars => TypeOK'
<1> SUFFICES ASSUME TypeOK, [Next]_vars PROVE TypeOK'
  OBVIOUS
<1>1. CASE WorkerPoll
  <2>1. SlotOf(m_Loaded) \in Slots
    BY CounterType DEF TypeOK
  <2> QED
    BY <1>1, <2>1, TrimFields DEF WorkerPoll, NextOrWait, TypeOK
<1>2. CASE WorkerPublish
  <2> DEFINE r == [m_Request EXCEPT ![current] = Published(@)]
  <2>1. r \in [Slots -> Request]
    BY SlotFields DEF TypeOK
  <2>2. m_Loaded' \in Counters /\ SlotOf(m_Loaded') \in Slots
    BY <1>2, CounterType DEF WorkerPublish, TypeOK
  <2>3. m_BytesWaiting' \in Int
    BY <1>2 DEF WorkerPublish, BytesOf, TypeOK, Request
  <2>4. m_Request' \in [Slots -> Request] /\ pc' \in {"load", "wait", "exited"}
        /\ current' \in Slots /\ signalled' \in BOOLEAN
    BY ZenonT(60), <1>2, <2>1, <2>2, TrimFields DEF WorkerPublish, NextOrWait, TypeOK
  <2> QED
    BY <1>2, <2>2, <2>3, <2>4 DEF WorkerPublish, TypeOK
<1>3. CASE WakeUp
  BY <1>3, CounterType DEF WakeUp, queueVars, TypeOK
<1>4. CASE WorkerLoad
  <2>1. PICK o \in LoadOutcomes :
          /\ m_Request' = [m_Request EXCEPT ![current] = Filled(@, o)]
          /\ result' = o.res
    BY <1>4 DEF WorkerLoad
  <2>2. m_Request' \in [Slots -> Request] /\ result' \in Results
    BY <2>1, OutcomeType, FilledFields DEF TypeOK
  <2> QED
    BY <1>4, <2>2 DEF WorkerLoad, TypeOK
<1>5. ASSUME NEW n \in Names, BeginLoad(n)
      PROVE  TypeOK'
  <2>1. m_Front' \in Counters /\ SlotOf(m_Front) \in Slots
    BY <1>5, CounterType DEF BeginLoad, TypeOK
  <2>2. m_Request' \in [Slots -> Request]
    BY <1>5, <2>1, SlotFields DEF BeginLoad, TypeOK
  <2> QED
    BY <1>5, <2>1, <2>2 DEF BeginLoad, Signal, workerVars, TypeOK
<1>6. ASSUME NEW i \in Slots, EndLoad(i)
      PROVE  TypeOK'
  BY <1>6 DEF EndLoad, queueVars, workerVars, TypeOK
<1>7. ASSUME NEW i \in Slots, FreeLoad(i)
      PROVE  TypeOK'
  <2>1. m_Request' \in [Slots -> Request] /\ m_BytesWaiting' \in Int
    <3>1. m_Request[i].capacity \in Nat
      BY DEF TypeOK, Request
    <3> QED
      BY <1>7, <3>1, SlotFields DEF FreeLoad, TypeOK
  <2>2. PICK k \in 0 .. Done : m_Back' = Plus(m_Back, k)
    BY <1>7 DEF FreeLoad
  <2>3. Done \in Counters
    BY MinusValue DEF Done, TypeOK
  <2>4. k \in Counters
    BY <2>2, <2>3, RingAssumption DEF Counters
  <2>5. m_Back' \in Counters
    BY <2>2, <2>4, PlusValue DEF TypeOK
  <2> QED
    BY <1>7, <2>1, <2>5 DEF FreeLoad, Signal, workerVars, TypeOK
<1>8. CASE DeleteQueue
  BY <1>8 DEF DeleteQueue, Shutdown, Signal, workerVars, TypeOK
<1>9. CASE Join
  BY <1>9 DEF Join, queueVars, workerVars, TypeOK
<1>10. CASE UNCHANGED vars
  BY <1>10 DEF vars, TypeOK
<1> QED
  BY <1>1, <1>2, <1>3, <1>4, <1>5, <1>6, <1>7, <1>8, <1>9, <1>10
  DEF Next, WorkerWake, SpuriousWake, Deleted

\* CreateQueue establishes the types.
LEMMA TypeInit == Init => TypeOK
<1> SUFFICES ASSUME Init PROVE TypeOK
  OBVIOUS
<1>1. 0 \in Slots /\ 0 \in Counters
  BY RingAssumption DEF Slots, Counters
<1>2. m_Request \in [Slots -> Request]
  <2>1. [m_Name |-> NoName, data |-> NoName, size |-> 0, capacity |-> 0,
         m_LoadResult |-> OK] \in Request
    BY DEF Request, Results
  <2> QED
    BY <2>1 DEF Init
<1>3. handle \in [Slots -> {"free", "begun", "ended"}]
  BY DEF Init
<1>4. PENDING \in Results
  BY DEF Results
<1>5. m_Front \in Counters /\ m_Back \in Counters /\ m_Loaded \in Counters
      /\ m_BytesWaiting \in Int /\ current \in Slots /\ result \in Results
  BY <1>1, <1>4 DEF Init
<1>6. m_Shutdown \in BOOLEAN /\ signalled \in BOOLEAN
  BY Zenon DEF Init
<1>7. pc \in {"lock", "load", "loaded", "wait", "exited"}
      /\ client \in {"open", "joining", "deleted"}
  BY DEF Init
<1> QED
  BY <1>2, <1>3, <1>5, <1>6, <1>7 DEF TypeOK

\* Every reachable state of the queue, its worker and its client is well typed:
\* the counters stay in their 32 bits and the worker's slot inside the ring.
THEOREM TypeCorrect == Spec => []TypeOK
  BY TypeInit, TypeStep, PTL DEF Spec

-----------------------------------------------------------------------------
(***************************************************************************)
(* The inductive invariant.  RingPartition and NoLostWakeup are inductive  *)
(* together with the types; what the worker and the client rely on about   *)
(* buffers is not, so the invariant says what every buffer holds: it is    *)
(* empty unless it carries an answer, and an answer carries its own data.  *)
(***************************************************************************)
WorkerSlot ==
  pc \in {"load", "loaded"} => m_Loaded # m_Front /\ current = SlotOf(m_Loaded)

EmptyBuffers ==
  \A i \in Slots :
    /\ m_Request[i].m_Name = NoName => m_Request[i].size = 0
    /\ m_Request[i].m_LoadResult = PENDING /\ ~(pc = "loaded" /\ i = current) =>
         m_Request[i].size = 0

OwnData ==
  /\ \A i \in Slots :
       m_Request[i].m_Name # NoName /\ m_Request[i].m_LoadResult = OK =>
         m_Request[i].data = m_Request[i].m_Name
  /\ pc = "loaded" =>
       /\ result # PENDING
       /\ result = OK => m_Request[current].data = m_Request[current].m_Name
       /\ \E s \in Sizes \cup {0} : m_Request[current].capacity = Grown(s)

IndInv ==
  /\ TypeOK
  /\ RingPartition
  /\ WorkerSlot
  /\ EmptyBuffers
  /\ OwnData
  /\ NoLostWakeup
  /\ ThrottleBound

\* The distances of the ring are counters, and a worker that has a slot has a
\* pending one at position Done.
LEMMA RingFacts ==
  ASSUME TypeOK
  PROVE  /\ Done \in Counters /\ Used \in Counters
         /\ Done \in Int /\ Used \in Int
         /\ m_Loaded = m_Front <=> Done = Used
<1>1. Done \in Counters /\ Used \in Counters
  BY MinusValue DEF Done, Used, TypeOK
<1>2. Done \in Int /\ Used \in Int
  BY <1>1 DEF Counters
<1>3. Done = Used => m_Loaded = m_Front
  BY MinusInjective DEF Done, Used, TypeOK
<1> QED
  BY <1>1, <1>2, <1>3 DEF Done, Used

\* The slot the worker loads is in use and pending.
LEMMA WorkerFacts ==
  ASSUME TypeOK, RingPartition, WorkerSlot, pc \in {"load", "loaded"}
  PROVE  /\ Done < Used
         /\ Position(current) = Done
         /\ m_Request[current].m_LoadResult = PENDING
         /\ m_Request[current].m_Name \in Names
         /\ handle[current] = "begun"
<1>1. Done # Used /\ Done <= Used /\ Used <= QUEUE_SLOTS
  BY RingFacts DEF WorkerSlot, RingPartition
<1>2. Done < Used /\ Done < QUEUE_SLOTS
  BY <1>1, RingFacts, RingAssumption
<1>3. Position(current) = Done
  BY <1>2, PositionOfCounter DEF WorkerSlot, Done, TypeOK
<1> QED
  BY <1>2, <1>3, RingFacts DEF RingPartition, TypeOK

-----------------------------------------------------------------------------
(* How each kind of step changes the ring. *)

\* A step that leaves the counters alone leaves positions alone.
LEMMA SameRing ==
  ASSUME UNCHANGED <<m_Front, m_Back, m_Loaded>>
  PROVE  Done' = Done /\ Used' = Used /\ \A i \in Slots : Position(i)' = Position(i)
  BY DEF Done, Used, Position, Minus

\* The outcomes of the worker's critical section: it exits, takes the slot of
\* the oldest request, or trims and sleeps with nothing to do.
LEMMA NextOrWaitFacts ==
  ASSUME NEW r \in [Slots -> Request], NEW l \in Counters, NEW b \in Int,
         NextOrWait(r, l, b)
  PROVE  /\ m_Request' \in [Slots -> Request]
         /\ \A i \in Slots :
              /\ m_Request'[i].m_Name = r[i].m_Name
              /\ m_Request'[i].m_LoadResult = r[i].m_LoadResult
              /\ m_Request'[i].size = r[i].size
              /\ m_Request'[i].data = r[i].data
              /\ r[i].size > 0 => m_Request'[i].capacity = r[i].capacity
         /\ pc' \in {"exited", "load", "wait"}
         /\ pc' = "load" => /\ HasNextRequest(b, l, m_Front)
                            /\ current' = SlotOf(l)
         /\ pc' = "wait" => ~m_Shutdown /\ ~HasNextRequest(b, l, m_Front)
  BY TrimFields DEF NextOrWait

\* Publishing a load moves one slot from the pending to the loaded part.
LEMMA RingPublish ==
  ASSUME IndInv, WorkerPublish
  PROVE  RingPartition'
<1> DEFINE r == [m_Request EXCEPT ![current] = Published(@)]
<1> USE DEF IndInv
<1>1. pc = "loaded" /\ UNCHANGED <<m_Front, m_Back, handle>> /\ m_Loaded' = Plus(m_Loaded, 1)
  BY DEF WorkerPublish
<1>2. /\ Done < Used /\ Position(current) = Done
      /\ m_Request[current].m_Name \in Names /\ handle[current] = "begun"
  BY <1>1, WorkerFacts
<1>3. Used <= QUEUE_SLOTS /\ Done \in Int /\ Used \in Int
  BY RingFacts DEF RingPartition
<1>4. Done' = Done + 1 /\ Used' = Used /\ \A i \in Slots : Position(i)' = Position(i)
  <2>1. Done < COUNTER_RANGE - 1
    BY <1>2, <1>3, RingAssumption
  <2> QED
    BY <1>1, <2>1, MinusFront DEF Done, Used, Position, TypeOK
<1>5. r \in [Slots -> Request] /\ m_Loaded' \in Counters /\ m_BytesWaiting' \in Int
  <2>1. m_Request[current].capacity \in Int
    BY DEF TypeOK, Request
  <2> QED
    BY <2>1, SlotFields, CounterType DEF WorkerPublish, BytesOf, TypeOK
<1>6. \A i \in Slots : /\ m_Request'[i].m_Name = r[i].m_Name
                       /\ m_Request'[i].m_LoadResult = r[i].m_LoadResult
  BY <1>5, NextOrWaitFacts DEF WorkerPublish
<1>7. /\ r[current].m_Name \in Names /\ r[current].m_LoadResult # PENDING
      /\ \A i \in Slots : i # current => r[i] = m_Request[i]
  BY <1>1, <1>2, SlotFields DEF TypeOK, OwnData
<1>8. \A i \in Slots : Position(i) \in Int /\ (Position(i) = Done => i = current)
  BY <1>2, PositionRange, PositionInjective DEF TypeOK, Slots
<1>9. ASSUME NEW i \in Slots
      PROVE  /\ Position(i) < Done + 1 =>
                  /\ m_Request'[i].m_LoadResult # PENDING
                  /\ handle[i] = "free" <=> m_Request'[i].m_Name = NoName
             /\ Position(i) >= Done + 1 /\ Position(i) < Used =>
                  /\ m_Request'[i].m_LoadResult = PENDING
                  /\ m_Request'[i].m_Name \in Names
                  /\ handle[i] = "begun"
             /\ Position(i) >= Used =>
                  /\ m_Request'[i].m_Name = NoName
                  /\ handle[i] = "free"
  <2>1. CASE i = current
    BY <2>1, <1>2, <1>3, <1>6, <1>7, NameAssumption
  <2>2. CASE i # current
    BY <2>2, <1>3, <1>6, <1>7, <1>8 DEF RingPartition
  <2> QED BY <2>1, <2>2
<1> QED
  BY <1>1, <1>2, <1>3, <1>4, <1>9 DEF RingPartition

\* BeginLoad takes the slot at the end of the used part.
LEMMA RingBegin ==
  ASSUME IndInv, NEW n \in Names, BeginLoad(n)
  PROVE  RingPartition'
<1> DEFINE f == SlotOf(m_Front)
<1> USE DEF IndInv
<1>1. /\ Used # QUEUE_SLOTS /\ m_Front' = Plus(m_Front, 1)
      /\ UNCHANGED <<m_Back, m_Loaded>>
      /\ m_Request' = [m_Request EXCEPT ![f] = Begun(@, n)]
      /\ handle' = [handle EXCEPT ![f] = "begun"]
  BY DEF BeginLoad
<1>2. /\ Used < QUEUE_SLOTS /\ Done <= Used /\ Done \in Int /\ Used \in Int
  BY <1>1, RingFacts, RingAssumption DEF RingPartition
<1>3. f \in Slots /\ Position(f) = Used
  BY <1>2, PositionOfCounter DEF Used, TypeOK
<1> HIDE DEF f
<1>4. Done' = Done /\ Used' = Used + 1 /\ \A i \in Slots : Position(i)' = Position(i)
  <2>1. Used < COUNTER_RANGE - 1
    BY <1>2, RingAssumption
  <2> QED
    BY <1>1, <2>1, MinusFront DEF Done, Used, Position, TypeOK
<1>5. /\ m_Request'[f].m_LoadResult = PENDING /\ m_Request'[f].m_Name \in Names
      /\ handle'[f] = "begun"
      /\ \A i \in Slots : i # f => m_Request'[i] = m_Request[i] /\ handle'[i] = handle[i]
  BY <1>1, <1>3, SlotFields DEF TypeOK
<1>6. \A i \in Slots : Position(i) \in Int /\ (Position(i) = Used => i = f)
  BY <1>3, PositionRange, PositionInjective DEF TypeOK, Slots
<1>7. ASSUME NEW i \in Slots
      PROVE  /\ Position(i) < Done =>
                  /\ m_Request'[i].m_LoadResult # PENDING
                  /\ handle'[i] = "free" <=> m_Request'[i].m_Name = NoName
             /\ Position(i) >= Done /\ Position(i) < Used + 1 =>
                  /\ m_Request'[i].m_LoadResult = PENDING
                  /\ m_Request'[i].m_Name \in Names
                  /\ handle'[i] = "begun"
             /\ Position(i) >= Used + 1 =>
                  /\ m_Request'[i].m_Name = NoName
                  /\ handle'[i] = "free"
  <2>1. CASE i = f
    BY <2>1, <1>2, <1>3, <1>5
  <2>2. CASE i # f
    BY <2>2, <1>2, <1>5, <1>6 DEF RingPartition
  <2> QED BY <2>1, <2>2
<1>8. Done' <= Used' /\ Used' <= QUEUE_SLOTS
  BY <1>2, <1>4, RingAssumption
<1> QED
  BY <1>4, <1>7, <1>8 DEF RingPartition

\* FreeLoad of a loaded slot drops exactly the freed slots at the back.
LEMMA RingFree ==
  ASSUME IndInv, NEW f \in Slots, FreeLoad(f)
  PROVE  RingPartition'
<1> USE DEF IndInv
<1>1. /\ handle[f] = "ended" /\ UNCHANGED <<m_Front, m_Loaded>>
      /\ m_Request' = [m_Request EXCEPT ![f] = Freed(@)]
      /\ handle' = [handle EXCEPT ![f] = "free"]
  BY DEF FreeLoad
<1>2. PICK k \in 0 .. Done : Reclaims(m_Request', k) /\ m_Back' = Plus(m_Back, k)
  BY DEF FreeLoad
<1>3. Done <= Used /\ Used <= QUEUE_SLOTS /\ Done \in Int /\ Used \in Int /\ k \in Int
  BY RingFacts DEF RingPartition
<1>4. Done' = Done - k /\ Used' = Used - k
  <2>1. k \in 0 .. Minus(m_Loaded, m_Back) /\ k \in 0 .. Minus(m_Front, m_Back)
    BY <1>3 DEF Done, Used
  <2> QED
    BY <1>1, <1>2, <2>1, MinusBack DEF Done, Used, TypeOK
<1>5. k \in 0 .. QUEUE_SLOTS
  BY <1>3, RingAssumption
<1>6. ASSUME NEW i \in Slots
      PROVE  /\ Position(i) \in 0 .. (QUEUE_SLOTS - 1)
             /\ Position(i)' = IF Position(i) >= k THEN Position(i) - k
                               ELSE Position(i) - k + QUEUE_SLOTS
  BY <1>2, <1>5, PositionRange, PositionAdvance DEF TypeOK, Slots
<1>7. Position(f) < Done
  BY <1>1, <1>3, <1>6 DEF RingPartition
<1>8. /\ m_Request'[f].m_Name = NoName /\ handle'[f] = "free"
      /\ m_Request'[f].m_LoadResult = m_Request[f].m_LoadResult
      /\ \A i \in Slots : i # f => m_Request'[i] = m_Request[i] /\ handle'[i] = handle[i]
  BY <1>1, SlotFields DEF TypeOK
<1>9. ASSUME NEW i \in Slots
      PROVE  /\ Position(i) < Done =>
                  /\ m_Request'[i].m_LoadResult # PENDING
                  /\ handle'[i] = "free" <=> m_Request'[i].m_Name = NoName
             /\ Position(i) >= Done /\ Position(i) < Used =>
                  /\ m_Request'[i].m_LoadResult = PENDING
                  /\ m_Request'[i].m_Name \in Names
                  /\ handle'[i] = "begun"
             /\ Position(i) >= Used =>
                  /\ m_Request'[i].m_Name = NoName
                  /\ handle'[i] = "free"
  <2>1. CASE i = f
    BY <2>1, <1>3, <1>6, <1>7, <1>8 DEF RingPartition
  <2>2. CASE i # f
    BY <2>2, <1>8 DEF RingPartition
  <2> QED BY <2>1, <2>2
<1>10. ASSUME NEW i \in Slots, Position(i) < k
       PROVE  m_Request'[i].m_Name = NoName /\ handle'[i] = "free"
  <2>1. m_Request'[i].m_Name = NoName
    BY <1>2, <1>10 DEF Reclaims
  <2> QED
    BY <2>1, <1>3, <1>6, <1>9, <1>10
<1>11. ASSUME NEW i \in Slots
       PROVE  /\ Position(i)' < Done' =>
                   /\ m_Request'[i].m_LoadResult # PENDING
                   /\ handle'[i] = "free" <=> m_Request'[i].m_Name = NoName
              /\ Position(i)' >= Done' /\ Position(i)' < Used' =>
                   /\ m_Request'[i].m_LoadResult = PENDING
                   /\ m_Request'[i].m_Name \in Names
                   /\ handle'[i] = "begun"
              /\ Position(i)' >= Used' =>
                   /\ m_Request'[i].m_Name = NoName
                   /\ handle'[i] = "free"
  <2>1. CASE Position(i) >= k
    <3>1. Position(i)' = Position(i) - k /\ Position(i) \in Int
      BY <2>1, <1>6
    <3> QED
      BY <3>1, <1>3, <1>4, <1>9
  <2>2. CASE Position(i) < k
    <3>1. Position(i)' = Position(i) - k + QUEUE_SLOTS /\ Position(i) \in Nat
      BY <2>2, <1>3, <1>6, RingAssumption
    <3>2. Position(i)' >= Used' /\ Position(i)' >= Done'
      BY <3>1, <1>3, <1>4, RingAssumption
    <3>3. ~(Position(i)' < Done') /\ ~(Position(i)' < Used')
      BY <3>1, <3>2, <1>3, <1>4, RingAssumption
    <3> QED
      BY <3>3, <1>10, <2>2
  <2> QED
    BY <2>1, <2>2, <1>3, <1>6
<1>12. Done' <= Used' /\ Used' <= QUEUE_SLOTS
  BY <1>3, <1>4, RingAssumption
<1> QED
  BY <1>11, <1>12 DEF RingPartition

\* No step of the worker or of the client breaks the partition of the ring.
LEMMA RingStep == IndInv /\ [Next]_vars => RingPartition'
<1> SUFFICES ASSUME IndInv, [Next]_vars PROVE RingPartition'
  OBVIOUS
<1> USE DEF IndInv
<1>1. ASSUME UNCHANGED <<m_Front, m_Back, m_Loaded, handle>>,
             \A i \in Slots : /\ m_Request'[i].m_Name = m_Request[i].m_Name
                              /\ m_Request'[i].m_LoadResult = m_Request[i].m_LoadResult
      PROVE  RingPartition'
  <2>1. Done' = Done /\ Used' = Used /\ \A i \in Slots : Position(i)' = Position(i)
    BY <1>1, SameRing
  <2> QED
    BY <1>1, <2>1 DEF RingPartition
<1>2. CASE WorkerPoll
  BY <1>1, <1>2, NextOrWaitFacts DEF WorkerPoll, TypeOK
<1>3. CASE WorkerPublish
  BY <1>3, RingPublish
<1>4. CASE WakeUp
  BY <1>1, <1>4 DEF WakeUp, queueVars
<1>5. CASE WorkerLoad
  <2>1. \A i \in Slots : /\ m_Request'[i].m_Name = m_Request[i].m_Name
                         /\ m_Request'[i].m_LoadResult = m_Request[i].m_LoadResult
    BY <1>5, FilledFields DEF WorkerLoad, TypeOK
  <2> QED
    BY <1>1, <1>5, <2>1 DEF WorkerLoad
<1>6. ASSUME NEW n \in Names, BeginLoad(n)
      PROVE  RingPartition'
  BY <1>6, RingBegin
<1>7. ASSUME NEW f \in Slots, EndLoad(f)
      PROVE  RingPartition'
  <2>1. /\ UNCHANGED <<m_Front, m_Back, m_Loaded, m_Request>>
        /\ handle[f] = "begun" /\ m_Request[f].m_LoadResult # PENDING
        /\ handle' = [handle EXCEPT ![f] = "ended"]
    BY <1>7 DEF EndLoad, queueVars
  <2>2. Done' = Done /\ Used' = Used /\ \A i \in Slots : Position(i)' = Position(i)
    BY <2>1, SameRing
  <2>3. Position(f) < Done
    <3>1. Position(f) \in Int /\ Done \in Int /\ Used \in Int
      BY PositionRange, RingFacts DEF TypeOK, Slots
    <3> QED
      BY <2>1, <3>1 DEF RingPartition
  <2>4. /\ handle'[f] = "ended" /\ m_Request[f].m_Name # NoName
        /\ \A i \in Slots : i # f => handle'[i] = handle[i]
    BY <2>1, <2>3 DEF RingPartition, TypeOK
  <2>5. ASSUME NEW i \in Slots
        PROVE  /\ Position(i) < Done =>
                    /\ m_Request[i].m_LoadResult # PENDING
                    /\ handle'[i] = "free" <=> m_Request[i].m_Name = NoName
               /\ Position(i) >= Done /\ Position(i) < Used =>
                    /\ m_Request[i].m_LoadResult = PENDING
                    /\ m_Request[i].m_Name \in Names
                    /\ handle'[i] = "begun"
               /\ Position(i) >= Used =>
                    /\ m_Request[i].m_Name = NoName
                    /\ handle'[i] = "free"
    <3>1. Position(f) \in Int /\ Done \in Int /\ Used \in Int /\ Done <= Used
      BY PositionRange, RingFacts DEF TypeOK, Slots, RingPartition
    <3>2. CASE i = f
      BY <3>1, <3>2, <2>1, <2>3, <2>4
    <3>3. CASE i # f
      BY <3>3, <2>4 DEF RingPartition
    <3> QED BY <3>2, <3>3
  <2> QED
    BY <2>1, <2>2, <2>5 DEF RingPartition
<1>8. ASSUME NEW f \in Slots, FreeLoad(f)
      PROVE  RingPartition'
  BY <1>8, RingFree
<1>9. CASE DeleteQueue
  BY <1>1, <1>9 DEF DeleteQueue
<1>10. CASE Join
  BY <1>1, <1>10 DEF Join, queueVars
<1>11. CASE UNCHANGED vars
  BY <1>1, <1>11 DEF vars
<1> QED
  BY <1>2, <1>3, <1>4, <1>5, <1>6, <1>7, <1>8, <1>9, <1>10, <1>11
  DEF Next, WorkerWake, SpuriousWake, Deleted

-----------------------------------------------------------------------------
(* The other parts of the inductive invariant. *)

\* The worker keeps working on the oldest request that is not loaded.
LEMMA WorkerStep == IndInv /\ [Next]_vars => WorkerSlot'
<1> SUFFICES ASSUME IndInv, [Next]_vars PROVE WorkerSlot'
  OBVIOUS
<1> USE DEF IndInv
<1>1. CASE WorkerPoll
  BY <1>1, NextOrWaitFacts DEF WorkerPoll, TypeOK, WorkerSlot, HasNextRequest
<1>2. CASE WorkerPublish
  <2>1. /\ [m_Request EXCEPT ![current] = Published(@)] \in [Slots -> Request]
        /\ m_Loaded' \in Counters /\ m_BytesWaiting' \in Int
    <3>1. m_Request[current].capacity \in Int
      BY DEF TypeOK, Request
    <3> QED
      BY <1>2, <3>1, SlotFields, CounterType DEF WorkerPublish, BytesOf, TypeOK
  <2> QED
    BY <1>2, <2>1, NextOrWaitFacts DEF WorkerPublish, WorkerSlot, HasNextRequest
<1>3. CASE WakeUp
  BY <1>3 DEF WakeUp, queueVars, WorkerSlot, HasNextRequest
<1>4. CASE WorkerLoad
  BY <1>4 DEF WorkerLoad, WorkerSlot
<1>5. ASSUME NEW n \in Names, BeginLoad(n)
      PROVE  WorkerSlot'
  <2>1. UNCHANGED <<m_Loaded, pc, current, m_Back>> /\ m_Front' = Plus(m_Front, 1)
    BY <1>5 DEF BeginLoad, workerVars
  <2>2. ASSUME pc \in {"load", "loaded"}
        PROVE  m_Loaded # m_Front'
    <3>1. Done < Used /\ Done \in Int /\ Used \in Int /\ Used <= QUEUE_SLOTS
      BY <2>2, WorkerFacts, RingFacts DEF RingPartition
    <3>2. Minus(m_Front', m_Back) = Used + 1
      <4>1. Used < COUNTER_RANGE - 1
        BY <1>5, <3>1, RingAssumption DEF BeginLoad
      <4> QED
        BY <2>1, <4>1, MinusFront DEF Used, TypeOK
    <3> QED
      BY <3>1, <3>2 DEF Done
  <2> QED
    BY <2>1, <2>2 DEF WorkerSlot
<1>6. ASSUME NEW i \in Slots, EndLoad(i) \/ FreeLoad(i)
      PROVE  WorkerSlot'
  BY <1>6 DEF EndLoad, FreeLoad, queueVars, workerVars, WorkerSlot
<1>7. CASE DeleteQueue \/ Join
  BY <1>7 DEF DeleteQueue, Join, queueVars, workerVars, WorkerSlot
<1>8. CASE UNCHANGED vars
  BY <1>8 DEF vars, WorkerSlot
<1> QED
  BY <1>1, <1>2, <1>3, <1>4, <1>5, <1>6, <1>7, <1>8
  DEF Next, WorkerWake, SpuriousWake, Deleted

\* Buffers without an answer stay empty, and answers keep their own data.
LEMMA BufferStep == IndInv /\ [Next]_vars => EmptyBuffers' /\ OwnData'
<1> SUFFICES ASSUME IndInv, [Next]_vars PROVE EmptyBuffers' /\ OwnData'
  OBVIOUS
<1> USE DEF IndInv
<1>1. CASE WorkerPoll
  <2>1. \A i \in Slots : /\ m_Request'[i].m_Name = m_Request[i].m_Name
                         /\ m_Request'[i].m_LoadResult = m_Request[i].m_LoadResult
                         /\ m_Request'[i].size = m_Request[i].size
                         /\ m_Request'[i].data = m_Request[i].data
    BY <1>1, NextOrWaitFacts DEF WorkerPoll, TypeOK
  <2>2. pc = "lock" /\ pc' # "loaded"
    BY <1>1, NextOrWaitFacts DEF WorkerPoll, TypeOK
  <2> QED
    BY <2>1, <2>2 DEF EmptyBuffers, OwnData
<1>2. CASE WorkerPublish
  <2> DEFINE r == [m_Request EXCEPT ![current] = Published(@)]
  <2>1. r \in [Slots -> Request] /\ m_Loaded' \in Counters /\ m_BytesWaiting' \in Int
    <3>1. m_Request[current].capacity \in Int
      BY DEF TypeOK, Request
    <3> QED
      BY <1>2, <3>1, SlotFields, CounterType DEF WorkerPublish, BytesOf, TypeOK
  <2>2. /\ \A i \in Slots : /\ m_Request'[i].m_Name = r[i].m_Name
                            /\ m_Request'[i].m_LoadResult = r[i].m_LoadResult
                            /\ m_Request'[i].size = r[i].size
                            /\ m_Request'[i].data = r[i].data
        /\ pc' # "loaded" /\ pc = "loaded"
    BY <1>2, <2>1, NextOrWaitFacts DEF WorkerPublish
  <2>3. /\ r[current].m_Name = m_Request[current].m_Name
        /\ r[current].m_LoadResult = result /\ result # PENDING
        /\ r[current].data = m_Request[current].data
        /\ r[current].m_Name \in Names
        /\ \A i \in Slots : i # current => r[i] = m_Request[i]
    BY <2>2, SlotFields, WorkerFacts DEF TypeOK, OwnData
  <2> HIDE DEF r
  <2>4. EmptyBuffers'
    BY <2>2, <2>3, NameAssumption DEF EmptyBuffers
  <2>5. OwnData'
    BY <2>2, <2>3 DEF OwnData
  <2> QED BY <2>4, <2>5
<1>3. CASE WakeUp
  BY <1>3 DEF WakeUp, queueVars, EmptyBuffers, OwnData
<1>4. CASE WorkerLoad
  <2>1. PICK o \in LoadOutcomes :
          /\ m_Request' = [m_Request EXCEPT ![current] = Filled(@, o)]
          /\ result' = o.res
    BY <1>4 DEF WorkerLoad
  <2>2. pc = "load" /\ pc' = "loaded" /\ current' = current /\ current \in Slots
    BY <1>4 DEF WorkerLoad, TypeOK
  <2>3. /\ m_Request'[current].m_Name = m_Request[current].m_Name
        /\ m_Request'[current].m_LoadResult = PENDING
        /\ m_Request'[current].capacity = o.capacity
        /\ o.res = OK => m_Request'[current].data = m_Request[current].m_Name
        /\ m_Request[current].m_Name \in Names
        /\ \A i \in Slots : i # current => m_Request'[i] = m_Request[i]
    BY <2>1, <2>2, FilledFields, WorkerFacts DEF TypeOK
  <2>4. EmptyBuffers'
    BY <2>2, <2>3, NameAssumption DEF EmptyBuffers
  <2>5. OwnData'
    BY <2>1, <2>2, <2>3, OutcomeType DEF OwnData, PENDING, OK
  <2> QED BY <2>4, <2>5
<1>5. ASSUME NEW n \in Names, BeginLoad(n)
      PROVE  EmptyBuffers' /\ OwnData'
  <2> DEFINE f == SlotOf(m_Front)
  <2>1. /\ Used # QUEUE_SLOTS
        /\ m_Request' = [m_Request EXCEPT ![f] = Begun(@, n)]
        /\ UNCHANGED <<pc, current, result>>
    BY <1>5 DEF BeginLoad, workerVars
  <2>2. Used < QUEUE_SLOTS /\ Used \in Int /\ Done \in Int
    BY <2>1, RingFacts, RingAssumption DEF RingPartition
  <2>3. f \in Slots /\ Position(f) = Used
    BY <2>2, PositionOfCounter DEF Used, TypeOK
  <2> HIDE DEF f
  <2>4. m_Request[f].m_Name = NoName
    BY <2>2, <2>3 DEF RingPartition
  <2>5. /\ m_Request'[f].m_Name = n /\ m_Request'[f].m_LoadResult = PENDING
        /\ m_Request'[f].size = m_Request[f].size
        /\ \A i \in Slots : i # f => m_Request'[i] = m_Request[i]
    <3>1. /\ m_Request[f] \in Request /\ m_Request'[f] = Begun(m_Request[f], n)
          /\ \A i \in Slots : i # f => m_Request'[i] = m_Request[i]
      BY <2>1, <2>3 DEF TypeOK
    <3>2. result \in Results
      BY DEF TypeOK
    <3> QED
      BY <3>1, <3>2, SlotFields
  <2>6. EmptyBuffers'
    BY <2>1, <2>3, <2>4, <2>5, NameAssumption DEF EmptyBuffers
  <2>7. pc = "loaded" => current # f
    <3>1. pc = "loaded" => m_Request[current].m_Name # NoName
      BY WorkerFacts, NameAssumption
    <3> QED BY <3>1, <2>4
  <2>8. OwnData'
    BY <2>1, <2>3, <2>5, <2>7 DEF OwnData, PENDING, OK, TypeOK
  <2> QED BY <2>6, <2>8
<1>6. ASSUME NEW i \in Slots, EndLoad(i)
      PROVE  EmptyBuffers' /\ OwnData'
  BY <1>6 DEF EndLoad, queueVars, workerVars, EmptyBuffers, OwnData
<1>7. ASSUME NEW f \in Slots, FreeLoad(f)
      PROVE  EmptyBuffers' /\ OwnData'
  <2>1. /\ handle[f] = "ended"
        /\ m_Request' = [m_Request EXCEPT ![f] = Freed(@)]
        /\ UNCHANGED <<pc, current, result>>
    BY <1>7 DEF FreeLoad, workerVars
  <2>2. /\ m_Request'[f].m_Name = NoName /\ m_Request'[f].size = 0
        /\ \A i \in Slots : i # f => m_Request'[i] = m_Request[i]
    BY <2>1, SlotFields DEF TypeOK
  <2>3. pc = "loaded" => current # f
    BY <2>1, WorkerFacts
  <2>4. EmptyBuffers'
    BY <2>1, <2>2 DEF EmptyBuffers
  <2>5. OwnData'
    BY <2>1, <2>2, <2>3 DEF OwnData, TypeOK
  <2> QED BY <2>4, <2>5
<1>8. CASE DeleteQueue \/ Join
  BY <1>8 DEF DeleteQueue, Join, queueVars, workerVars, EmptyBuffers, OwnData
<1>9. CASE UNCHANGED vars
  BY <1>9 DEF vars, EmptyBuffers, OwnData
<1> QED
  BY <1>1, <1>2, <1>3, <1>4, <1>5, <1>6, <1>7, <1>8, <1>9
  DEF Next, WorkerWake, SpuriousWake, Deleted

\* No step leaves the worker asleep with something to do and no signal.
LEMMA WakeupStep == IndInv /\ [Next]_vars => NoLostWakeup'
<1> SUFFICES ASSUME IndInv, [Next]_vars, pc' = "wait", ~signalled'
             PROVE  ~HasNextRequest(m_BytesWaiting, m_Loaded, m_Front)' /\ ~m_Shutdown'
  BY DEF NoLostWakeup
<1> USE DEF IndInv
<1>1. CASE WorkerPoll
  BY <1>1, NextOrWaitFacts DEF WorkerPoll, TypeOK, HasNextRequest
<1>2. CASE WorkerPublish
  <2>1. /\ [m_Request EXCEPT ![current] = Published(@)] \in [Slots -> Request]
        /\ m_Loaded' \in Counters /\ m_BytesWaiting' \in Int
    <3>1. m_Request[current].capacity \in Int
      BY DEF TypeOK, Request
    <3> QED
      BY <1>2, <3>1, SlotFields, CounterType DEF WorkerPublish, BytesOf, TypeOK
  <2> QED
    BY <1>2, <2>1, NextOrWaitFacts DEF WorkerPublish, HasNextRequest
<1>3. CASE WakeUp \/ WorkerLoad
  BY <1>3 DEF WakeUp, WorkerLoad
<1>4. ASSUME NEW n \in Names, BeginLoad(n)
      PROVE  ~HasNextRequest(m_BytesWaiting, m_Loaded, m_Front)' /\ ~m_Shutdown'
  <2>1. pc = "wait" /\ UNCHANGED <<m_BytesWaiting, m_Loaded, m_Shutdown>>
    BY <1>4 DEF BeginLoad, workerVars
  <2>2. m_Loaded # m_Front /\ ~signalled
    BY <1>4, <2>1 DEF BeginLoad, NothingToLoad, Signal
  <2> QED
    BY <2>1, <2>2 DEF NoLostWakeup, HasNextRequest
<1>5. ASSUME NEW i \in Slots, EndLoad(i)
      PROVE  ~HasNextRequest(m_BytesWaiting, m_Loaded, m_Front)' /\ ~m_Shutdown'
  BY <1>5 DEF EndLoad, queueVars, workerVars, NoLostWakeup, HasNextRequest
<1>6. ASSUME NEW i \in Slots, FreeLoad(i)
      PROVE  ~HasNextRequest(m_BytesWaiting, m_Loaded, m_Front)' /\ ~m_Shutdown'
  <2>1. pc = "wait" /\ UNCHANGED <<m_Front, m_Loaded, m_Shutdown>>
    BY <1>6 DEF FreeLoad, workerVars
  <2>2. ~signalled /\ ~(m_BytesWaiting >= MAX_PENDING_DATA /\ m_BytesWaiting' < MAX_PENDING_DATA)
    BY <1>6, <2>1 DEF FreeLoad, FreeSignals, Signal
  <2>3. m_BytesWaiting \in Int /\ MAX_PENDING_DATA \in Int
    BY BufferAssumption DEF TypeOK
  <2> QED
    BY <2>1, <2>2, <2>3 DEF NoLostWakeup, HasNextRequest
<1>7. CASE DeleteQueue
  BY <1>7 DEF DeleteQueue, Shutdown, Signal, workerVars
<1>8. CASE Join
  BY <1>8 DEF Join, queueVars, workerVars, NoLostWakeup, HasNextRequest
<1>9. CASE UNCHANGED vars
  BY <1>9 DEF vars, NoLostWakeup, HasNextRequest
<1> QED
  BY <1>1, <1>2, <1>3, <1>4, <1>5, <1>6, <1>7, <1>8, <1>9
  DEF Next, WorkerWake, SpuriousWake, Deleted

\* The throttle holds: a load starts below the limit and adds one buffer.
LEMMA ThrottleStep == IndInv /\ [Next]_vars => ThrottleBound'
<1> SUFFICES ASSUME IndInv, [Next]_vars PROVE ThrottleBound'
  OBVIOUS
<1> USE DEF IndInv
<1>0. /\ m_BytesWaiting \in Int /\ MAX_PENDING_DATA \in Int
      /\ \A s \in Sizes \cup {0} : Grown(s) \in Nat
      /\ \A i \in Slots : m_Request[i].capacity \in Nat
  BY BufferAssumption DEF TypeOK, Request, Grown
<1>1. CASE WorkerPoll
  BY <1>1, NextOrWaitFacts DEF WorkerPoll, TypeOK, ThrottleBound, HasNextRequest
<1>2. CASE WorkerPublish
  <2>1. /\ [m_Request EXCEPT ![current] = Published(@)] \in [Slots -> Request]
        /\ m_Loaded' \in Counters /\ m_BytesWaiting' \in Int
    BY <1>2, <1>0, SlotFields, CounterType DEF WorkerPublish, BytesOf, TypeOK
  <2>2. /\ pc' \in {"exited", "load", "wait"}
        /\ pc' = "load" => m_BytesWaiting' < MAX_PENDING_DATA
    BY <1>2, <2>1, NextOrWaitFacts DEF WorkerPublish, HasNextRequest
  <2>3. PICK s \in Sizes \cup {0} : m_Request[current].capacity = Grown(s)
    BY <1>2 DEF WorkerPublish, OwnData
  <2>4. m_BytesWaiting < MAX_PENDING_DATA /\ m_BytesWaiting' = m_BytesWaiting + Grown(s)
    BY <1>2, <2>3 DEF WorkerPublish, BytesOf, ThrottleBound
  <2>5. m_BytesWaiting' < MAX_PENDING_DATA + Grown(s)
    BY <1>0, <2>4
  <2> QED
    BY <2>2, <2>5 DEF ThrottleBound
<1>3. CASE WakeUp
  BY <1>3 DEF WakeUp, queueVars, ThrottleBound, HasNextRequest
<1>4. CASE WorkerLoad
  BY <1>4 DEF WorkerLoad, ThrottleBound
<1>5. ASSUME NEW n \in Names, BeginLoad(n)
      PROVE  ThrottleBound'
  BY <1>5 DEF BeginLoad, workerVars, ThrottleBound
<1>6. ASSUME NEW i \in Slots, EndLoad(i)
      PROVE  ThrottleBound'
  BY <1>6 DEF EndLoad, queueVars, workerVars, ThrottleBound
<1>7. ASSUME NEW i \in Slots, FreeLoad(i)
      PROVE  ThrottleBound'
  <2>1. UNCHANGED pc /\ m_BytesWaiting' <= m_BytesWaiting /\ m_BytesWaiting' \in Int
    BY <1>0, <1>7 DEF FreeLoad, workerVars
  <2>2. PICK s \in Sizes \cup {0} : m_BytesWaiting < MAX_PENDING_DATA + Grown(s)
    BY DEF ThrottleBound
  <2>3. m_BytesWaiting' < MAX_PENDING_DATA + Grown(s)
    BY <1>0, <2>1, <2>2
  <2>4. m_BytesWaiting < MAX_PENDING_DATA => m_BytesWaiting' < MAX_PENDING_DATA
    BY <1>0, <2>1
  <2> QED
    BY <2>1, <2>3, <2>4 DEF ThrottleBound
<1>8. CASE DeleteQueue \/ Join
  BY <1>8 DEF DeleteQueue, Join, queueVars, workerVars, ThrottleBound
<1>9. CASE UNCHANGED vars
  BY <1>9 DEF vars, ThrottleBound
<1> QED
  BY <1>1, <1>2, <1>3, <1>4, <1>5, <1>6, <1>7, <1>8, <1>9
  DEF Next, WorkerWake, SpuriousWake, Deleted

-----------------------------------------------------------------------------
(* The theorems. *)

\* CreateQueue establishes the inductive invariant.
LEMMA IndInit == Init => IndInv
<1> SUFFICES ASSUME Init PROVE IndInv
  OBVIOUS
<1>1. TypeOK
  BY TypeInit
<1>2. Done = 0 /\ Used = 0
  BY <1>1, MinusSelf DEF Init, Done, Used, TypeOK
<1>3. \A i \in Slots : /\ Position(i) \in Nat
                       /\ m_Request[i].m_Name = NoName /\ m_Request[i].size = 0
                       /\ handle[i] = "free"
  BY <1>1, PositionRange DEF Init, TypeOK, Slots
<1>4. RingPartition
  BY <1>2, <1>3, RingAssumption DEF RingPartition
<1>5. WorkerSlot /\ NoLostWakeup
  BY DEF Init, WorkerSlot, NoLostWakeup
<1>6. EmptyBuffers /\ OwnData
  BY <1>3 DEF Init, EmptyBuffers, OwnData
<1>7. ThrottleBound
  <2>1. m_BytesWaiting = 0 /\ pc = "lock"
    BY DEF Init
  <2>2. Grown(0) \in Nat
    BY BufferAssumption DEF Grown
  <2>3. m_BytesWaiting < MAX_PENDING_DATA + Grown(0)
    BY <2>1, <2>2, BufferAssumption
  <2> QED
    BY <2>1, <2>3 DEF ThrottleBound
<1> QED
  BY <1>1, <1>4, <1>5, <1>6, <1>7 DEF IndInv

\* The inductive invariant holds in every reachable state.
THEOREM Invariance == Spec => []IndInv
<1>1. IndInv /\ [Next]_vars => IndInv'
  BY TypeStep, RingStep, WorkerStep, BufferStep, WakeupStep, ThrottleStep DEF IndInv
<1> QED
  BY <1>1, IndInit, PTL DEF Spec

\* For every ring size, client and load outcome, the counters partition the
\* ring and agree with what the client holds, across the wrap of the counters.
THEOREM RingIsPartitioned == Spec => []RingPartition
<1>1. IndInv => RingPartition
  BY DEF IndInv
<1> QED
  BY <1>1, Invariance, PTL

\* The worker never sleeps through a request it may load or a shutdown.
THEOREM NoWakeupIsLost == Spec => []NoLostWakeup
<1>1. IndInv => NoLostWakeup
  BY DEF IndInv
<1> QED
  BY <1>1, Invariance, PTL

\* The bytes waiting to be picked up never exceed the throttle's limit by more
\* than one buffer.
THEOREM ThrottleWorks == Spec => []ThrottleBound
<1>1. IndInv => ThrottleBound
  BY DEF IndInv
<1> QED
  BY <1>1, Invariance, PTL

\* The slot the worker writes without the mutex is its own, and its buffer is
\* empty when the load starts: the assertion in LoadThread never fires.
THEOREM WorkerSlotIsExclusive == Spec => []WorkerOwnsSlot
<1>1. IndInv => WorkerOwnsSlot
  <2> SUFFICES ASSUME IndInv, pc \in {"load", "loaded"}
               PROVE  /\ m_Loaded # m_Front
                      /\ current = SlotOf(m_Loaded)
                      /\ m_Request[current].m_LoadResult = PENDING
                      /\ pc = "load" => m_Request[current].size = 0
    BY DEF WorkerOwnsSlot
  <2>1. m_Request[current].m_LoadResult = PENDING /\ current \in Slots
    BY WorkerFacts DEF IndInv, TypeOK
  <2> QED
    BY <2>1 DEF IndInv, WorkerSlot, EmptyBuffers
<1> QED
  BY <1>1, Invariance, PTL

\* A client that has an answer has the answer to its own request.
THEOREM AnswersAreOwn == Spec => []DeliversRequested
<1>1. IndInv => DeliversRequested
  <2> SUFFICES ASSUME IndInv, NEW i \in Slots, handle[i] = "ended"
               PROVE  /\ m_Request[i].m_LoadResult # PENDING
                      /\ m_Request[i].m_LoadResult = OK =>
                           m_Request[i].data = m_Request[i].m_Name
    BY DEF DeliversRequested
  <2>1. Position(i) \in Int /\ Done \in Int /\ Used \in Int
    BY PositionRange, RingFacts DEF IndInv, TypeOK, Slots
  <2>2. Position(i) < Done
    BY <2>1 DEF IndInv, RingPartition
  <2>3. m_Request[i].m_LoadResult # PENDING /\ m_Request[i].m_Name # NoName
    BY <2>2 DEF IndInv, RingPartition
  <2> QED
    BY <2>3 DEF IndInv, OwnData
<1> QED
  BY <1>1, Invariance, PTL

\* The buffer a client reads without the mutex between EndLoad and FreeLoad is
\* not touched, by the worker's loads, its idle trim or other requests.
THEOREM BuffersAreStable == Spec => BufferStable
<1>1. IndInv /\ [Next]_vars =>
        [\A i \in Slots : handle[i] = "ended" /\ handle'[i] = "ended" => KeepsBuffer(i)]_vars
  <2> SUFFICES ASSUME IndInv, Next, NEW i \in Slots,
                      handle[i] = "ended", handle'[i] = "ended"
               PROVE  KeepsBuffer(i)
    OBVIOUS
  <2> USE DEF IndInv
  <2>0. ASSUME m_Request'[i] = m_Request[i] PROVE KeepsBuffer(i)
    BY <2>0 DEF KeepsBuffer
  <2>1. CASE WorkerPoll
    BY <2>1, NextOrWaitFacts DEF WorkerPoll, TypeOK, KeepsBuffer
  <2>2. CASE WorkerPublish
    <3> DEFINE r == [m_Request EXCEPT ![current] = Published(@)]
    <3>1. r \in [Slots -> Request] /\ m_Loaded' \in Counters /\ m_BytesWaiting' \in Int
      <4>1. m_Request[current].capacity \in Int
        BY DEF TypeOK, Request
      <4> QED
        BY <2>2, <4>1, SlotFields, CounterType DEF WorkerPublish, BytesOf, TypeOK
    <3>2. i # current
      BY <2>2, WorkerFacts DEF WorkerPublish
    <3>3. r[i] = m_Request[i]
      BY <3>2 DEF TypeOK
    <3> HIDE DEF r
    <3>4. /\ m_Request'[i].m_LoadResult = r[i].m_LoadResult
          /\ m_Request'[i].size = r[i].size
          /\ m_Request'[i].data = r[i].data
          /\ r[i].size > 0 => m_Request'[i].capacity = r[i].capacity
      BY <2>2, <3>1, NextOrWaitFacts DEF WorkerPublish, r
    <3> QED
      BY <3>3, <3>4 DEF KeepsBuffer
  <2>3. CASE WakeUp
    BY <2>0, <2>3 DEF WakeUp, queueVars
  <2>4. CASE WorkerLoad
    <3>1. i # current
      BY <2>4, WorkerFacts DEF WorkerLoad
    <3> QED
      BY <2>0, <2>4, <3>1 DEF WorkerLoad, TypeOK
  <2>5. ASSUME NEW n \in Names, BeginLoad(n)
        PROVE  KeepsBuffer(i)
    <3>1. /\ Used # QUEUE_SLOTS
          /\ m_Request' = [m_Request EXCEPT ![SlotOf(m_Front)] = Begun(@, n)]
      BY <2>5 DEF BeginLoad
    <3>2. Used < QUEUE_SLOTS /\ Used \in Int
      BY <3>1, RingFacts, RingAssumption DEF RingPartition
    <3>3. SlotOf(m_Front) \in Slots /\ Position(SlotOf(m_Front)) = Used
      BY <3>2, PositionOfCounter DEF Used, TypeOK
    <3>4. i # SlotOf(m_Front)
      BY <3>2, <3>3 DEF RingPartition
    <3> QED
      BY <2>0, <3>1, <3>4 DEF TypeOK
  <2>6. ASSUME NEW f \in Slots, EndLoad(f)
        PROVE  KeepsBuffer(i)
    BY <2>0, <2>6 DEF EndLoad, queueVars
  <2>7. ASSUME NEW f \in Slots, FreeLoad(f)
        PROVE  KeepsBuffer(i)
    <3>1. i # f
      BY <2>7 DEF FreeLoad, TypeOK
    <3> QED
      BY <2>0, <2>7, <3>1 DEF FreeLoad, TypeOK
  <2>8. CASE DeleteQueue \/ Join \/ Deleted
    BY <2>0, <2>8 DEF DeleteQueue, Join, Deleted, queueVars, vars
  <2> QED
    BY <2>1, <2>2, <2>3, <2>4, <2>5, <2>6, <2>7, <2>8
    DEF Next, WorkerWake, SpuriousWake
<1> QED
  BY <1>1, Invariance, PTL DEF Spec, BufferStable

-----------------------------------------------------------------------------
(***************************************************************************)
(* The bytes that wait.  The sum over the ring is a recursive function; an *)
(* induction over the slots looks at the least number for which it fails.  *)
(***************************************************************************)

\* A set of numbers that is not empty has a least element.
LEMMA LeastNumber ==
  ASSUME NEW T, T \subseteq Nat, T # {}
  PROVE  \E x \in T : \A y \in T : x <= y
<1> DEFINE R == OpToRel(<, Nat)
<1>1. IsWellFoundedOn(R, Nat)
  BY NatLessThanWellFounded
<1>2. \A x, y \in Nat : ~(<<y, x>> \in R) => x <= y
  BY DEF OpToRel
<1> HIDE DEF R
<1>3. PICK x \in T : \A y \in T : ~ (<<y, x>> \in R)
  BY <1>1, WFMin
<1>4. x \in Nat /\ \A y \in T : y \in Nat
  OBVIOUS
<1> QED
  BY <1>2, <1>3, <1>4

\* Induction over the first numbers.
LEMMA AllUpTo ==
  ASSUME NEW L \in Nat, NEW S, 0 \in S,
         \A n \in 0 .. L : n \in S /\ n < L => n + 1 \in S
  PROVE  0 .. L \subseteq S
<1> SUFFICES ASSUME ~(0 .. L \subseteq S) PROVE FALSE
  OBVIOUS
<1> DEFINE T == {n \in 0 .. L : n \notin S}
<1>1. T \subseteq Nat /\ T # {}
  OBVIOUS
<1>2. PICK x \in T : \A y \in T : x <= y
  BY <1>1, LeastNumber
<1>3. x # 0 /\ x \in 1 .. L
  BY <1>2
<1>4. x - 1 \in 0 .. L /\ x - 1 < L /\ (x - 1) + 1 = x
  BY <1>3
<1>5. x - 1 \notin T
  BY <1>2, <1>3
<1> QED
  BY <1>2, <1>4, <1>5

\* The partial sums: the definition by recursion has a solution.
LEMMA PartialSums ==
  ASSUME NEW f \in [Slots -> Nat]
  PROVE  \E g \in [0 .. QUEUE_SLOTS -> Nat] :
           /\ g[0] = 0
           /\ \A k \in 1 .. QUEUE_SLOTS : g[k] = g[k - 1] + f[k - 1]
           /\ Total(f) = g[QUEUE_SLOTS]
<1> DEFINE L == QUEUE_SLOTS
           sum[k \in 0 .. QUEUE_SLOTS] == IF k = 0 THEN 0 ELSE sum[k - 1] + f[k - 1]
           Body(g, m) == [k \in 0 .. m |-> IF k = 0 THEN 0 ELSE g[k - 1] + f[k - 1]]
           S == {m \in 0 .. L : \E g : g = Body(g, m)}
<1>0. L \in Nat
  BY RingAssumption
<1>1. 0 \in S
  <2>1. [k \in 0 .. 0 |-> 0] = Body([k \in 0 .. 0 |-> 0], 0)
    OBVIOUS
  <2> HIDE DEF Body
  <2> QED
    BY <2>1, <1>0
<1>2. ASSUME NEW m \in 0 .. L, m \in S, m < L PROVE m + 1 \in S
  <2>1. PICK g : g = Body(g, m)
    BY <1>2
  <2> DEFINE h == [k \in 0 .. m + 1 |-> IF k <= m THEN g[k] ELSE g[m] + f[m]]
  <2>2. h = Body(h, m + 1)
    <3>1. ASSUME NEW k \in 0 .. m + 1 PROVE h[k] = Body(h, m + 1)[k]
      <4>1. CASE k = 0
        BY <2>1, <4>1
      <4>2. CASE k \in 1 .. m
        <5>1. k - 1 \in 0 .. m /\ h[k - 1] = g[k - 1] /\ h[k] = g[k]
          BY <4>2
        <5> QED
          BY <2>1, <4>2, <5>1
      <4>3. CASE k = m + 1
        <5>1. h[k - 1] = g[m] /\ k - 1 = m
          BY <4>3
        <5> QED
          BY <4>3, <5>1
      <4> QED
        BY <4>1, <4>2, <4>3
    <3> QED
      BY <3>1
  <2> HIDE DEF Body, h
  <2>3. m + 1 \in 0 .. L /\ \E x : x = Body(x, m + 1)
    BY <1>0, <1>2, <2>2
  <2> QED
    BY <2>3
<1>3. 0 .. L \subseteq S
  <2> HIDE DEF S
  <2> QED
    BY <1>0, <1>1, <1>2, AllUpTo
<1>4. \E g : g = Body(g, L)
  BY <1>0, <1>3
<1>5. sum = Body(sum, L)
  BY <1>4
<1>6. Total(f) = sum[L]
  BY DEF Total
<1> HIDE DEF sum
<1>7. sum[0] = 0
  BY <1>0, <1>5
<1>8. ASSUME NEW k \in 1 .. L PROVE sum[k] = sum[k - 1] + f[k - 1]
  BY <1>0, <1>5
<1>9. sum \in [0 .. L -> Nat]
  <2> DEFINE P == {k \in 0 .. L : sum[k] \in Nat}
  <2>1. 0 \in P
    BY <1>0, <1>7
  <2>2. ASSUME NEW k \in 0 .. L, k \in P, k < L PROVE k + 1 \in P
    <3>1. k + 1 \in 1 .. L /\ (k + 1) - 1 = k /\ k \in Slots
      BY <1>0, <2>2 DEF Slots
    <3>2. sum[k + 1] = sum[k] + f[k] /\ f[k] \in Nat
      BY <1>8, <3>1
    <3> QED
      BY <2>2, <3>1, <3>2
  <2> HIDE DEF P
  <2>3. 0 .. L \subseteq P
    BY <1>0, <2>1, <2>2, AllUpTo
  <2>4. \A k \in 0 .. L : sum[k] \in Nat
    BY <2>3 DEF P
  <2> QED
    BY <1>5, <2>4
<1> QED
  BY <1>6, <1>7, <1>8, <1>9

\* If no number but the one of slot i has grown, the sum has grown by no more than that
\* one.
LEMMA TotalStep ==
  ASSUME NEW f \in [Slots -> Nat], NEW h \in [Slots -> Nat], NEW i \in Slots,
         \A j \in Slots : j # i => h[j] <= f[j]
  PROVE  /\ Total(f) \in Nat /\ Total(h) \in Nat
         /\ Total(h) + f[i] <= Total(f) + h[i]
<1>0. QUEUE_SLOTS \in Nat /\ i \in Nat /\ i < QUEUE_SLOTS
  BY RingAssumption DEF Slots
<1>1. PICK a \in [0 .. QUEUE_SLOTS -> Nat] :
        /\ a[0] = 0
        /\ \A k \in 1 .. QUEUE_SLOTS : a[k] = a[k - 1] + f[k - 1]
        /\ Total(f) = a[QUEUE_SLOTS]
  BY PartialSums
<1>2. PICK b \in [0 .. QUEUE_SLOTS -> Nat] :
        /\ b[0] = 0
        /\ \A k \in 1 .. QUEUE_SLOTS : b[k] = b[k - 1] + h[k - 1]
        /\ Total(h) = b[QUEUE_SLOTS]
  BY PartialSums
<1> DEFINE S == {k \in 0 .. QUEUE_SLOTS : /\ k <= i => b[k] <= a[k]
                                          /\ k > i => b[k] + f[i] <= a[k] + h[i]}
<1>3. 0 \in S
  BY <1>0, <1>1, <1>2
<1>4. ASSUME NEW k \in 0 .. QUEUE_SLOTS, k \in S, k < QUEUE_SLOTS PROVE k + 1 \in S
  <2>1. k + 1 \in 1 .. QUEUE_SLOTS /\ (k + 1) - 1 = k /\ k \in Slots
    BY <1>0, <1>4 DEF Slots
  <2>2. a[k + 1] = a[k] + f[k] /\ b[k + 1] = b[k] + h[k]
    BY <1>1, <1>2, <2>1
  <2>3. PICK ak \in Nat, bk \in Nat, fk \in Nat, hk \in Nat, fi \in Nat, hi \in Nat :
          /\ ak = a[k] /\ bk = b[k] /\ fk = f[k] /\ hk = h[k] /\ fi = f[i] /\ hi = h[i]
    BY <2>1
  <2>4. /\ k <= i => bk <= ak
        /\ k > i => bk + fi <= ak + hi
    BY <1>4, <2>3
  <2>5. /\ k # i => hk <= fk
        /\ k = i => hk = hi /\ fk = fi
    BY <2>1, <2>3
  <2>6. k + 1 <= i => bk + hk <= ak + fk
    <3>1. k + 1 <= i => k <= i /\ k # i
      BY <1>0, <2>1
    <3> HIDE DEF S
    <3> QED
      BY <2>4, <2>5, <3>1
  <2>7. k + 1 > i => bk + hk + fi <= ak + fk + hi
    <3>1. k + 1 > i => k = i \/ (k > i /\ k # i)
      BY <1>0, <2>1
    <3>2. CASE k = i
      <4>1. bk <= ak /\ hk = hi /\ fk = fi
        BY <1>0, <2>4, <2>5, <3>2
      <4> QED
        BY <4>1
    <3>3. CASE k > i /\ k # i
      <4>1. bk + fi <= ak + hi /\ hk <= fk
        BY <2>4, <2>5, <3>3
      <4> QED
        BY <4>1
    <3> QED
      BY <3>1, <3>2, <3>3
  <2>8. /\ k + 1 <= i => b[k + 1] <= a[k + 1]
        /\ k + 1 > i => b[k + 1] + f[i] <= a[k + 1] + h[i]
    <3>1. b[k + 1] = bk + hk /\ a[k + 1] = ak + fk /\ f[i] = fi /\ h[i] = hi
      BY <2>2, <2>3
    <3> QED
      BY <2>6, <2>7, <3>1
  <2>9. k + 1 \in 0 .. QUEUE_SLOTS
    BY <1>0, <2>1
  <2> QED
    BY <2>8, <2>9
<1>5. 0 .. QUEUE_SLOTS \subseteq S
  <2> HIDE DEF S
  <2> QED
    BY <1>0, <1>3, <1>4, AllUpTo
<1>6. QUEUE_SLOTS \in S
  BY <1>0, <1>5
<1> QED
  BY <1>0, <1>1, <1>2, <1>6

\* A slot waits for its client when its answer is published and it is not freed.
Waits(i) == handle[i] # "free" /\ m_Request[i].m_LoadResult # PENDING
Held(i) == IF Waits(i) THEN m_Request[i].capacity ELSE 0
Bytes == [i \in Slots |-> BytesIn(i)]

\* The slots that wait are those in the loaded part that are not freed.
LEMMA BytesHeld ==
  ASSUME IndInv
  PROVE  /\ Bytes \in [Slots -> Nat]
         /\ \A i \in Slots : Bytes[i] = Held(i)
<1>1. ASSUME NEW i \in Slots PROVE m_Request[i].capacity \in Nat
  BY DEF IndInv, TypeOK, Request
<1>2. ASSUME NEW i \in Slots PROVE Position(i) \in Int /\ Done \in Int /\ Used \in Int
  BY PositionRange, RingFacts DEF IndInv, TypeOK, Slots
<1>3. ASSUME NEW i \in Slots PROVE Waits(i) <=> Position(i) < Done /\ handle[i] # "free"
  BY <1>2 DEF Waits, IndInv, RingPartition
<1>4. ASSUME NEW i \in Slots PROVE BytesIn(i) = Held(i) /\ BytesIn(i) \in Nat
  BY <1>1, <1>3 DEF BytesIn, Held
<1> QED
  BY <1>4 DEF Bytes

\* The same of the next state.
LEMMA BytesHeldNext ==
  ASSUME IndInv'
  PROVE  /\ Bytes' \in [Slots -> Nat]
         /\ \A i \in Slots : Bytes'[i] = Held(i)'
<1>1. (IndInv => Bytes \in [Slots -> Nat] /\ \A i \in Slots : Bytes[i] = Held(i))'
  BY BytesHeld, PTL
<1> QED
  BY <1>1

\* A step that lets no slot but i hold more, and counts at least what i holds more.
LEMMA BytesCount ==
  ASSUME IndInv, IndInv', BytesCovered, NEW i \in Slots,
         \A j \in Slots : j # i => Held(j)' <= Held(j),
         m_BytesWaiting' + Held(i) >= m_BytesWaiting + Held(i)'
  PROVE  BytesCovered'
<1>1. PICK f \in [Slots -> Nat] : f = Bytes
  BY BytesHeld
<1>2. PICK h \in [Slots -> Nat] : h = Bytes'
  BY BytesHeldNext
<1>3. \A j \in Slots : f[j] = Held(j) /\ h[j] = Held(j)'
  BY <1>1, <1>2, BytesHeld, BytesHeldNext
<1>4. \A j \in Slots : j # i => h[j] <= f[j]
  BY <1>3
<1>5. /\ Total(f) \in Nat /\ Total(h) \in Nat
      /\ Total(h) + f[i] <= Total(f) + h[i]
  BY <1>4, TotalStep
<1>6. m_BytesWaiting >= Total(f) /\ m_BytesWaiting \in Int /\ m_BytesWaiting' \in Int
  BY <1>1 DEF BytesCovered, Bytes, IndInv, TypeOK
<1>7. m_BytesWaiting' + f[i] >= m_BytesWaiting + h[i] /\ f[i] \in Nat /\ h[i] \in Nat
  BY <1>3
<1>8. m_BytesWaiting' >= Total(h)
  <2>1. PICK m \in Int, n \in Int, t \in Nat, u \in Nat, x \in Nat, y \in Nat :
          m = m_BytesWaiting /\ n = m_BytesWaiting' /\ t = Total(f) /\ u = Total(h)
            /\ x = f[i] /\ y = h[i]
    BY <1>5, <1>6, <1>7
  <2>2. u + x <= t + y /\ m >= t /\ n + x >= m + y
    BY <1>5, <1>6, <1>7, <2>1
  <2>3. n >= u
    BY <2>2
  <2> QED
    BY <2>1, <2>3
<1> QED
  BY <1>2, <1>8 DEF BytesCovered, Bytes

\* A slot that waits after a step waited before it, with no less capacity.
Kept(j) == Waits(j)' => Waits(j) /\ m_Request'[j].capacity <= m_Request[j].capacity

\* Such a slot holds no more than before.
LEMMA KeptHolds ==
  ASSUME IndInv, IndInv', NEW j \in Slots, Kept(j)
  PROVE  Held(j)' <= Held(j)
<1>1. m_Request[j].capacity \in Nat /\ m_Request'[j].capacity \in Nat
  BY DEF IndInv, TypeOK, Request
<1> QED
  BY <1>1 DEF Held, Kept

\* A step after which every slot holds no more, and that counts the same.
LEMMA BytesKept ==
  ASSUME IndInv, IndInv', BytesCovered, \A j \in Slots : Kept(j), UNCHANGED m_BytesWaiting
  PROVE  BytesCovered'
<1>1. 0 \in Slots
  BY RingAssumption DEF Slots
<1>2. \A j \in Slots : Held(j)' <= Held(j)
  BY KeptHolds
<1>3. /\ Bytes[0] \in Nat /\ Bytes'[0] \in Nat
      /\ Held(0) = Bytes[0] /\ Held(0)' = Bytes'[0]
  BY <1>1, BytesHeld, BytesHeldNext
<1>4. m_BytesWaiting' + Held(0) >= m_BytesWaiting + Held(0)'
  BY <1>1, <1>2, <1>3 DEF IndInv, TypeOK
<1> QED
  BY <1>1, <1>2, <1>4, BytesCount

\* The worker's critical section only takes capacity from slots.
LEMMA NextOrWaitTrims ==
  ASSUME NEW r \in [Slots -> Request], NEW l, NEW b, NextOrWait(r, l, b)
  PROVE  \A i \in Slots : m_Request'[i].capacity <= r[i].capacity
<1>1. ASSUME NEW x \in Request
      PROVE  [x EXCEPT !.capacity = IF x.size = 0 /\ @ > DEFAULT_CAPACITY THEN 0 ELSE @].capacity
               <= x.capacity
  BY DEF Request
<1>2. \A i \in Slots : Trim(r)[i].capacity <= r[i].capacity
  BY <1>1 DEF Trim
<1>3. \A i \in Slots : r[i].capacity <= r[i].capacity
  BY DEF Request
<1> QED
  BY <1>2, <1>3 DEF NextOrWait

\* One step of the worker or of the client keeps the count above what waits.
LEMMA BytesStep == IndInv /\ IndInv' /\ BytesCovered /\ [Next]_vars => BytesCovered'
<1> SUFFICES ASSUME IndInv, IndInv', BytesCovered, [Next]_vars
             PROVE  BytesCovered'
  OBVIOUS
<1>0. /\ TypeOK /\ RingPartition /\ WorkerSlot
      /\ m_Request \in [Slots -> Request] /\ m_Request' \in [Slots -> Request]
      /\ \A j \in Slots : m_Request[j].capacity \in Nat /\ m_Request'[j].capacity \in Nat
  BY DEF IndInv, TypeOK, Request
<1>a. ASSUME NEW j \in Slots, m_Request'[j] = m_Request[j], handle'[j] = handle[j]
      PROVE  Kept(j)
  BY <1>0, <1>a DEF Kept, Waits
<1>1. CASE WorkerPoll
  <2>1. NextOrWait(m_Request, m_Loaded, m_BytesWaiting) /\ UNCHANGED <<m_BytesWaiting, handle>>
    BY <1>1 DEF WorkerPoll
  <2>2. m_Loaded \in Counters /\ m_BytesWaiting \in Int
    BY <1>0 DEF TypeOK
  <2>3. \A j \in Slots : /\ m_Request'[j].m_LoadResult = m_Request[j].m_LoadResult
                         /\ m_Request'[j].capacity <= m_Request[j].capacity
    BY <1>0, <2>1, <2>2, NextOrWaitFacts, NextOrWaitTrims
  <2>4. \A j \in Slots : Kept(j)
    BY <2>1, <2>3 DEF Kept, Waits
  <2> QED
    BY <2>1, <2>4, BytesKept
<1>2. CASE WorkerPublish
  <2> DEFINE r == [m_Request EXCEPT ![current] = Published(@)]
  <2>1. /\ pc = "loaded" /\ UNCHANGED handle
        /\ m_BytesWaiting' = m_BytesWaiting + m_Request[current].capacity
        /\ NextOrWait(r, m_Loaded', m_BytesWaiting')
    BY <1>2 DEF WorkerPublish, BytesOf
  <2>2. r \in [Slots -> Request] /\ m_Loaded' \in Counters /\ m_BytesWaiting' \in Int
    BY <1>0, SlotFields DEF IndInv, TypeOK
  <2>3. current \in Slots /\ r[current].capacity = m_Request[current].capacity
    BY <1>0, SlotFields DEF TypeOK
  <2>4. \A j \in Slots : j # current => r[j] = m_Request[j]
    BY <1>0
  <2> HIDE DEF r
  <2>5. \A j \in Slots : /\ m_Request'[j].m_LoadResult = r[j].m_LoadResult
                         /\ m_Request'[j].capacity <= r[j].capacity
    BY <2>1, <2>2, NextOrWaitFacts, NextOrWaitTrims
  <2>6. \A j \in Slots : j # current => Held(j)' <= Held(j)
    <3>1. \A j \in Slots : j # current => Kept(j)
      BY <2>1, <2>4, <2>5 DEF Kept, Waits
    <3> QED
      BY <3>1, KeptHolds
  <2>7. Held(current) = 0
    BY <1>0, <2>1, WorkerFacts DEF Held, Waits
  <2>8. ASSUME NEW j \in Slots, j = current
        PROVE  m_BytesWaiting' + Held(j) >= m_BytesWaiting + Held(j)'
    <3>1. m_Request'[j].capacity <= m_Request[j].capacity
      BY <2>3, <2>5, <2>8
    <3>2. Held(j)' = 0 \/ Held(j)' = m_Request'[j].capacity
      BY DEF Held
    <3>3. Held(j) = 0 /\ m_BytesWaiting' = m_BytesWaiting + m_Request[j].capacity
      BY <2>1, <2>7, <2>8
    <3>4. m_BytesWaiting \in Int /\ m_Request[j].capacity \in Nat /\ m_Request'[j].capacity \in Nat
      BY <1>0 DEF TypeOK
    <3>5. CASE Held(j)' = 0
      BY <3>3, <3>4, <3>5
    <3>6. CASE Held(j)' = m_Request'[j].capacity
      BY <3>1, <3>3, <3>4, <3>6
    <3> QED
      BY <3>2, <3>5, <3>6
  <2>9. PICK i \in Slots : i = current
    BY <2>3
  <2> QED
    BY <2>6, <2>8, <2>9, BytesCount
<1>3. CASE WakeUp
  BY <1>3, <1>a, BytesKept DEF WakeUp, queueVars
<1>4. CASE WorkerLoad
  <2>1. PICK o \in LoadOutcomes : m_Request' = [m_Request EXCEPT ![current] = Filled(@, o)]
    BY <1>4 DEF WorkerLoad
  <2>2. m_Request[current].m_LoadResult = PENDING /\ current \in Slots
    BY <1>0, <1>4, WorkerFacts DEF WorkerLoad, TypeOK
  <2>3. m_Request'[current].m_LoadResult = PENDING
    BY <1>0, <2>1, <2>2, FilledFields
  <2>4. \A j \in Slots : j # current => m_Request'[j] = m_Request[j]
    BY <1>0, <2>1
  <2>5. UNCHANGED <<handle, m_BytesWaiting>>
    BY <1>4 DEF WorkerLoad
  <2>6. ASSUME NEW j \in Slots PROVE Kept(j)
    BY <1>a, <2>3, <2>4, <2>5 DEF Kept, Waits
  <2> QED
    BY <2>5, <2>6, BytesKept
<1>5. ASSUME NEW n \in Names, BeginLoad(n)
      PROVE  BytesCovered'
  <2>1. PICK s \in Slots : s = SlotOf(m_Front)
    BY <1>0, CounterType DEF TypeOK
  <2>2. /\ m_Request' = [m_Request EXCEPT ![s] = Begun(@, n)]
        /\ handle' = [handle EXCEPT ![s] = "begun"] /\ UNCHANGED m_BytesWaiting
    BY <1>5, <2>1 DEF BeginLoad
  <2>3. m_Request'[s].m_LoadResult = PENDING
    <3>1. m_Request[s] \in Request /\ result \in Results
      BY <1>0 DEF TypeOK
    <3>2. Begun(m_Request[s], n).m_LoadResult = PENDING
      BY <3>1, SlotFields
    <3> QED
      BY <1>0, <2>2, <3>2
  <2>4. \A j \in Slots : j # s => m_Request'[j] = m_Request[j] /\ handle'[j] = handle[j]
    BY <1>0, <2>2 DEF TypeOK
  <2>5. ASSUME NEW j \in Slots PROVE Kept(j)
    BY <1>a, <2>3, <2>4 DEF Kept, Waits
  <2> QED
    BY <2>2, <2>5, BytesKept
<1>6. ASSUME NEW i \in Slots, EndLoad(i)
      PROVE  BytesCovered'
  <2>1. /\ UNCHANGED <<m_Request, m_BytesWaiting>> /\ handle' = [handle EXCEPT ![i] = "ended"]
        /\ handle[i] = "begun"
    BY <1>6 DEF EndLoad, queueVars
  <2>2. ASSUME NEW j \in Slots PROVE Kept(j)
    BY <1>0, <2>1 DEF Kept, Waits, TypeOK
  <2> QED
    BY <2>1, <2>2, BytesKept
<1>7. ASSUME NEW i \in Slots, FreeLoad(i)
      PROVE  BytesCovered'
  <2>1. /\ m_Request' = [m_Request EXCEPT ![i] = Freed(@)]
        /\ handle[i] = "ended" /\ handle' = [handle EXCEPT ![i] = "free"]
        /\ m_BytesWaiting' = m_BytesWaiting - m_Request[i].capacity
    BY <1>7 DEF FreeLoad
  <2>2. \A j \in Slots : j # i => m_Request'[j] = m_Request[j] /\ handle'[j] = handle[j]
    BY <1>0, <2>1 DEF TypeOK
  <2>3. \A j \in Slots : j # i => Held(j)' <= Held(j)
    BY <1>a, <2>2, KeptHolds
  <2>4. Held(i) = m_Request[i].capacity
    <3>1. Position(i) \in Int /\ Done \in Int /\ Used \in Int
      BY <1>0, PositionRange, RingFacts DEF TypeOK, Slots
    <3>2. m_Request[i].m_LoadResult # PENDING
      BY <1>0, <2>1, <3>1 DEF RingPartition
    <3> QED
      BY <2>1, <3>2 DEF Held, Waits
  <2>5. Held(i)' = 0
    BY <1>0, <2>1 DEF Held, Waits, TypeOK
  <2>6. m_BytesWaiting' + Held(i) >= m_BytesWaiting + Held(i)'
    BY <1>0, <2>1, <2>4, <2>5 DEF TypeOK
  <2> QED
    BY <2>3, <2>6, BytesCount
<1>8. CASE DeleteQueue \/ Join \/ Deleted \/ UNCHANGED vars
  <2>1. UNCHANGED <<m_Request, handle, m_BytesWaiting>>
    BY <1>8 DEF DeleteQueue, Join, Deleted, queueVars, vars
  <2> QED
    BY <1>a, <2>1, BytesKept
<1> QED
  BY <1>1, <1>2, <1>3, <1>4, <1>5, <1>6, <1>7, <1>8 DEF Next, WorkerWake, SpuriousWake

\* At the start nothing waits.
LEMMA BytesInit == Init => BytesCovered
<1> SUFFICES ASSUME Init PROVE BytesCovered
  OBVIOUS
<1> DEFINE f == [i \in Slots |-> 0]
<1>1. [i \in Slots |-> BytesIn(i)] = f /\ f \in [Slots -> Nat]
  BY DEF Init, BytesIn
<1> HIDE DEF f
<1>2. PICK g \in [0 .. QUEUE_SLOTS -> Nat] :
        /\ g[0] = 0
        /\ \A k \in 1 .. QUEUE_SLOTS : g[k] = g[k - 1] + f[k - 1]
        /\ Total(f) = g[QUEUE_SLOTS]
  BY <1>1, PartialSums
<1> DEFINE S == {k \in 0 .. QUEUE_SLOTS : g[k] = 0}
<1>3. QUEUE_SLOTS \in Nat
  BY RingAssumption
<1>4. 0 \in S
  BY <1>2, <1>3
<1>5. ASSUME NEW k \in 0 .. QUEUE_SLOTS, k \in S, k < QUEUE_SLOTS PROVE k + 1 \in S
  <2>1. k + 1 \in 1 .. QUEUE_SLOTS /\ (k + 1) - 1 = k /\ k \in Slots
    BY <1>3, <1>5 DEF Slots
  <2>2. g[k + 1] = g[k] + f[k] /\ f[k] = 0
    BY <1>2, <2>1 DEF f
  <2> QED
    BY <1>5, <2>1, <2>2
<1>6. 0 .. QUEUE_SLOTS \subseteq S
  <2> HIDE DEF S
  <2> QED
    BY <1>3, <1>4, <1>5, AllUpTo
<1>7. Total(f) = 0
  BY <1>2, <1>3, <1>6
<1> QED
  BY <1>1, <1>7 DEF Init, BytesCovered

\* m_BytesWaiting is never less than the capacity of the buffers that are published and
\* not yet freed, so the subtraction in FreeLoad never wraps.
THEOREM BytesAreCovered == Spec => []BytesCovered
  BY Invariance, BytesInit, BytesStep, PTL DEF Spec

-----------------------------------------------------------------------------
(* The ring as a sequence. *)

\* The wrap of a counter does not change the slot k requests later.
LEMMA WrapKeepsLaterSlot ==
  ASSUME NEW a \in Int, NEW k \in Int
  PROVE  ((a % COUNTER_RANGE) + k) % QUEUE_SLOTS = (a + k) % QUEUE_SLOTS
<1> DEFINE m == COUNTER_RANGE \div QUEUE_SLOTS
           d == a \div COUNTER_RANGE
           q == -(m * d)
<1>1. COUNTER_RANGE = QUEUE_SLOTS * m /\ m \in Int
  BY RingAssumption
<1>2. a % COUNTER_RANGE = a - COUNTER_RANGE * d /\ d \in Int
  BY RingAssumption
<1>3. q \in Int
  BY <1>1, <1>2
<1>4. COUNTER_RANGE * d = QUEUE_SLOTS * (m * d)
  <2> HIDE DEF m, d
  <2> QED
    BY <1>1, <1>2, RingAssumption
<1>5. QUEUE_SLOTS * (m * d) = -(QUEUE_SLOTS * q)
  <2>1. m * d \in Int
    BY <1>1, <1>2
  <2> HIDE DEF m, d
  <2> QED
    BY <2>1, RingAssumption
<1>6. (a % COUNTER_RANGE) + k = (a + k) + QUEUE_SLOTS * q
  <2>1. QUEUE_SLOTS * q \in Int /\ a % COUNTER_RANGE \in Int
    BY <1>3, RingAssumption
  <2> HIDE DEF q, m, d
  <2> QED
    BY <1>2, <1>4, <1>5, <2>1
<1> HIDE DEF q
<1> QED
  BY <1>3, <1>6, RingTurns

\* The k-th slot is at position k.
LEMMA SlotAtPosition ==
  ASSUME m_Back \in Counters, NEW k \in Slots
  PROVE  SlotAt(k) \in Slots /\ Position(SlotAt(k)) = k
<1> DEFINE a == m_Back + k
           q == a \div QUEUE_SLOTS
<1>1. a \in Int /\ k \in Int /\ m_Back \in Int
  BY RingAssumption DEF Slots, Counters
<1>2. a = QUEUE_SLOTS * q + (a % QUEUE_SLOTS) /\ q \in Int /\ a % QUEUE_SLOTS \in Slots
  BY <1>1, RingDivision
<1>3. (a % QUEUE_SLOTS) - m_Back = k + QUEUE_SLOTS * (-q)
  <2>1. QUEUE_SLOTS * (-q) = -(QUEUE_SLOTS * q) /\ QUEUE_SLOTS * q \in Int
    BY <1>2, RingAssumption
  <2>2. a % QUEUE_SLOTS \in Int /\ a = m_Back + k
    BY <1>2 DEF Slots
  <2> HIDE DEF q, a
  <2> QED
    BY <2>1, <2>2, <1>1, <1>2
<1>4. k % QUEUE_SLOTS = k
  BY RingAssumption DEF Slots
<1>5. (k + QUEUE_SLOTS * (-q)) % QUEUE_SLOTS = k % QUEUE_SLOTS
  <2>1. -q \in Int
    BY <1>2
  <2> HIDE DEF q
  <2> QED
    BY <2>1, <1>1, RingTurns
<1> QED
  BY <1>2, <1>3, <1>4, <1>5 DEF SlotAt, SlotOf, Position

\* Every slot is the one at its position.
LEMMA PositionSlotAt ==
  ASSUME m_Back \in Counters, NEW i \in Slots
  PROVE  Position(i) \in Slots /\ SlotAt(Position(i)) = i
  BY PositionRange, SlotAtPosition, PositionInjective

\* The sequence, element by element.
LEMMA SequenceFacts ==
  ASSUME IndInv
  PROVE  /\ Used \in Nat /\ Used <= QUEUE_SLOTS /\ Done \in Nat /\ Done <= Used
         /\ Len(RingSequence) = Used /\ DOMAIN RingSequence = 1 .. Used
         /\ \A k \in 1 .. Used : /\ k - 1 \in Slots
                                 /\ SlotAt(k - 1) \in Slots /\ Position(SlotAt(k - 1)) = k - 1
                                 /\ RingSequence[k] = RequestIn(SlotAt(k - 1))
         /\ \A i \in Slots : Position(i) < Used =>
              Position(i) + 1 \in 1 .. Used /\ RingSequence[Position(i) + 1] = RequestIn(i)
<1>1. Used \in Nat /\ Used <= QUEUE_SLOTS /\ Done \in Nat /\ Done <= Used
  BY RingFacts, RingAssumption DEF IndInv, RingPartition, Counters
<1>2. Len(RingSequence) = Used /\ DOMAIN RingSequence = 1 .. Used
  BY <1>1 DEF RingSequence
<1>3. m_Back \in Counters
  BY DEF IndInv, TypeOK
<1>4. ASSUME NEW k \in 1 .. Used
      PROVE  /\ k - 1 \in Slots
             /\ SlotAt(k - 1) \in Slots /\ Position(SlotAt(k - 1)) = k - 1
             /\ RingSequence[k] = RequestIn(SlotAt(k - 1))
  <2>1. k - 1 \in Slots
    BY <1>1, RingAssumption DEF Slots
  <2> QED
    BY <2>1, <1>3, SlotAtPosition DEF RingSequence
<1>5. ASSUME NEW i \in Slots, Position(i) < Used
      PROVE  Position(i) + 1 \in 1 .. Used /\ RingSequence[Position(i) + 1] = RequestIn(i)
  <2>1. Position(i) \in Nat /\ SlotAt(Position(i)) = i
    BY <1>3, PositionSlotAt, RingAssumption DEF Slots
  <2>2. Position(i) + 1 \in 1 .. Used /\ (Position(i) + 1) - 1 = Position(i)
    BY <1>1, <1>5, <2>1
  <2> QED
    BY <2>1, <2>2 DEF RingSequence
<1> QED
  BY <1>1, <1>2, <1>4, <1>5

-----------------------------------------------------------------------------
(* The invariant of the refinement. *)

\* A load that failed leaves no resource's bytes: WorkerLoad names no data.
ErrorData == pc = "loaded" /\ result # OK => m_Request[current].data = NoName

\* The inductive invariant of the proofs, and ErrorData.
RefInv == IndInv /\ ErrorData

\* No step but the load itself changes what a slot's bytes are.
LEMMA DataKept ==
  ASSUME IndInv, [Next]_vars, ~WorkerLoad
  PROVE  \A i \in Slots : m_Request'[i].data = m_Request[i].data
<1> USE DEF IndInv
<1>0. m_Request \in [Slots -> Request] /\ m_Front \in Counters /\ m_Loaded \in Counters
      /\ m_BytesWaiting \in Int /\ current \in Slots /\ result \in Results
  BY DEF TypeOK
<1>1. CASE WorkerPoll
  BY <1>0, <1>1, NextOrWaitFacts DEF WorkerPoll
<1>2. CASE WorkerPublish
  <2> DEFINE r == [m_Request EXCEPT ![current] = Published(@)]
  <2>1. m_Request[current].capacity \in Int /\ m_Request[current] \in Request
    BY <1>0 DEF Request
  <2>2. r \in [Slots -> Request] /\ m_Loaded' \in Counters /\ m_BytesWaiting' \in Int
    BY <1>0, <1>2, <2>1, SlotFields, CounterType DEF WorkerPublish, BytesOf
  <2>3. Published(m_Request[current]).data = m_Request[current].data
    BY <2>1 DEF Published, Request
  <2>4. \A i \in Slots : r[i].data = m_Request[i].data
    BY <1>0, <2>3
  <2>5. NextOrWait(r, m_Loaded', m_BytesWaiting')
    BY <1>2 DEF WorkerPublish
  <2> HIDE DEF r
  <2> QED
    BY <2>2, <2>4, <2>5, NextOrWaitFacts
<1>3. ASSUME NEW n \in Names, BeginLoad(n)
      PROVE  \A i \in Slots : m_Request'[i].data = m_Request[i].data
  <2>1. SlotOf(m_Front) \in Slots /\ m_Request[SlotOf(m_Front)] \in Request
    BY <1>0, CounterType
  <2>2. Begun(m_Request[SlotOf(m_Front)], n).data = m_Request[SlotOf(m_Front)].data
    BY <2>1 DEF Begun, Request
  <2>3. m_Request' = [m_Request EXCEPT ![SlotOf(m_Front)] = Begun(@, n)]
    BY <1>3 DEF BeginLoad
  <2> QED
    BY <1>0, <2>1, <2>2, <2>3
<1>4. ASSUME NEW f \in Slots, FreeLoad(f)
      PROVE  \A i \in Slots : m_Request'[i].data = m_Request[i].data
  <2>1. Freed(m_Request[f]).data = m_Request[f].data
    BY <1>0 DEF Freed, Request
  <2>2. m_Request' = [m_Request EXCEPT ![f] = Freed(@)]
    BY <1>4 DEF FreeLoad
  <2> QED
    BY <1>0, <2>1, <2>2
<1>5. CASE UNCHANGED m_Request
  BY <1>5
<1> QED
  BY <1>1, <1>2, <1>3, <1>4, <1>5
  DEF Next, WorkerWake, SpuriousWake, WakeUp, EndLoad, DeleteQueue, Join, Deleted, vars, queueVars

\* ErrorData is kept by every step.
LEMMA ErrorDataStep == IndInv /\ ErrorData /\ [Next]_vars => ErrorData'
<1> SUFFICES ASSUME IndInv, ErrorData, [Next]_vars, pc' = "loaded", result' # OK
             PROVE  m_Request'[current'].data = NoName
  BY DEF ErrorData
<1>0. current \in Slots /\ m_Request \in [Slots -> Request]
  BY DEF IndInv, TypeOK
<1>1. CASE WorkerLoad
  <2>1. PICK o \in LoadOutcomes : /\ m_Request' = [m_Request EXCEPT ![current] = Filled(@, o)]
                                  /\ result' = o.res
    BY <1>1 DEF WorkerLoad
  <2>2. current' = current
    BY <1>1 DEF WorkerLoad
  <2>3. Filled(m_Request[current], o).data = NoName
    BY <1>0, <2>1 DEF Filled, Request
  <2> QED
    BY <1>0, <2>1, <2>2, <2>3
<1>2. CASE ~WorkerLoad
  <2>1. pc = "loaded" /\ result' = result /\ current' = current
    BY <1>2 DEF Next, WorkerPoll, WorkerPublish, NextOrWait, WorkerWake, SpuriousWake, WakeUp,
                BeginLoad, EndLoad, FreeLoad, DeleteQueue, Join, Deleted, vars, workerVars
  <2> QED
    BY <1>0, <1>2, <2>1, DataKept DEF ErrorData
<1> QED
  BY <1>1, <1>2

-----------------------------------------------------------------------------
(* The steps. *)

\* A step that leaves the counters and what the client knows of each slot is a stutter.
LEMMA SameSequence ==
  ASSUME IndInv, UNCHANGED <<m_Front, m_Back>>, \A i \in Slots : RequestIn(i)' = RequestIn(i)
  PROVE  RingSequence' = RingSequence
<1>1. Used' = Used
  BY DEF Used, Minus
<1>2. ASSUME NEW k \in 1 .. Used
      PROVE  RequestIn(SlotAt(k - 1))' = RequestIn(SlotAt(k - 1))
  <2>1. SlotAt(k - 1)' = SlotAt(k - 1) /\ SlotAt(k - 1) \in Slots
    BY SequenceFacts DEF SlotAt, SlotOf
  <2> QED
    BY <2>1 DEF RequestIn
<1> QED
  BY <1>1, <1>2 DEF RingSequence

\* What the client knows of a slot, by the part of the ring it is in.
LEMMA RequestInPart ==
  ASSUME IndInv, NEW i \in Slots
  PROVE  /\ handle[i] = "free" => RequestIn(i) = Promise!Tombstone
         /\ Position(i) >= Done /\ Position(i) < Used => RequestIn(i) = Promise!Begun(m_Request[i].m_Name)
         /\ Position(i) < Done /\ handle[i] # "free" =>
              RequestIn(i) = [name |-> m_Request[i].m_Name, status |-> "answered",
                              answer |-> m_Request[i].m_LoadResult, data |-> m_Request[i].data]
  BY DEF IndInv, RingPartition, RequestIn, Promise!Tombstone, Promise!Begun

\* Its status only.
LEMMA StatusInPart ==
  ASSUME IndInv, NEW i \in Slots, Position(i) < Used
  PROVE  /\ RequestIn(i).status = "freed" <=> handle[i] = "free"
         /\ RequestIn(i).status = "begun" <=> Position(i) >= Done
         /\ RequestIn(i).status = "answered" <=> Position(i) < Done /\ handle[i] # "free"
<1>1. Position(i) \in Int /\ Done \in Int
  BY RingFacts, PositionRange, RingAssumption DEF IndInv, TypeOK, Slots
<1>2. Position(i) >= Done => handle[i] = "begun" /\ RequestIn(i).status = "begun"
  BY RequestInPart DEF IndInv, RingPartition, Promise!Begun
<1>3. handle[i] = "free" => RequestIn(i).status = "freed"
  BY RequestInPart DEF Promise!Tombstone
<1>4. Position(i) < Done /\ handle[i] # "free" => RequestIn(i).status = "answered"
  BY RequestInPart
<1> QED
  BY <1>1, <1>2, <1>3, <1>4

\* The worker's steps but the publication, the client's poll and the join change
\* nothing a client can know.
LEMMA QuietStep ==
  ASSUME IndInv,
         \/ WorkerPoll \/ WorkerWake \/ SpuriousWake \/ WorkerLoad \/ Join \/ UNCHANGED vars
         \/ \E i \in Slots : EndLoad(i)
  PROVE  RingSequence' = RingSequence /\ (client = "open")' = (client = "open")
<1> USE DEF IndInv
<1>0. /\ m_Request \in [Slots -> Request] /\ m_Loaded \in Counters /\ m_BytesWaiting \in Int
      /\ current \in Slots /\ handle \in [Slots -> {"free", "begun", "ended"}]
  BY DEF TypeOK
<1>1. CASE WorkerPoll
  <2>1. \A i \in Slots : /\ m_Request'[i].m_Name = m_Request[i].m_Name
                         /\ m_Request'[i].m_LoadResult = m_Request[i].m_LoadResult
                         /\ m_Request'[i].data = m_Request[i].data
    BY <1>0, <1>1, NextOrWaitFacts DEF WorkerPoll
  <2>2. UNCHANGED <<m_Front, m_Back, handle, client>>
    BY <1>1 DEF WorkerPoll
  <2>3. \A i \in Slots : RequestIn(i)' = RequestIn(i)
    BY <2>1, <2>2 DEF RequestIn
  <2> QED
    BY <2>2, <2>3, SameSequence
<1>2. CASE WorkerLoad
  <2>1. PICK o \in LoadOutcomes : m_Request' = [m_Request EXCEPT ![current] = Filled(@, o)]
    BY <1>2 DEF WorkerLoad
  <2>2. UNCHANGED <<m_Front, m_Back, handle, client>>
    BY <1>2 DEF WorkerLoad
  <2>3. m_Request[current].m_LoadResult = PENDING
    BY <1>2, WorkerFacts DEF WorkerLoad
  <2>4. /\ m_Request'[current].m_Name = m_Request[current].m_Name
        /\ m_Request'[current].m_LoadResult = m_Request[current].m_LoadResult
    BY <1>0, <2>1, FilledFields
  <2>5. \A i \in Slots : i = current => RequestIn(i)' = RequestIn(i)
    BY <2>2, <2>3, <2>4 DEF RequestIn
  <2>6. \A i \in Slots : i # current => RequestIn(i)' = RequestIn(i)
    BY <1>0, <2>1, <2>2 DEF RequestIn
  <2> QED
    BY <2>2, <2>5, <2>6, SameSequence
<1>3. ASSUME NEW j \in Slots, EndLoad(j)
      PROVE  RingSequence' = RingSequence /\ (client = "open")' = (client = "open")
  <2>1. /\ handle[j] = "begun" /\ handle' = [handle EXCEPT ![j] = "ended"]
        /\ UNCHANGED <<m_Request, m_Front, m_Back, client>>
    BY <1>3 DEF EndLoad, queueVars
  <2>2. \A i \in Slots : handle'[i] = "free" <=> handle[i] = "free"
    BY <1>0, <2>1
  <2>3. \A i \in Slots : RequestIn(i)' = RequestIn(i)
    BY <2>1, <2>2 DEF RequestIn
  <2> QED
    BY <2>1, <2>3, SameSequence
<1>4. ASSUME UNCHANGED <<m_Request, m_Front, m_Back, handle>>, (client = "open")' = (client = "open")
      PROVE  RingSequence' = RingSequence /\ (client = "open")' = (client = "open")
  <2>1. \A i \in Slots : RequestIn(i)' = RequestIn(i)
    BY <1>4 DEF RequestIn
  <2> QED
    BY <1>4, <2>1, SameSequence
<1>5. CASE WorkerWake \/ SpuriousWake \/ Join \/ UNCHANGED vars
  <2>1. UNCHANGED <<m_Request, m_Front, m_Back, handle>>
    BY <1>5 DEF WorkerWake, SpuriousWake, WakeUp, Join, queueVars, vars
  <2>2. (client = "open")' = (client = "open")
    BY <1>5 DEF WorkerWake, SpuriousWake, WakeUp, Join, vars
  <2> QED
    BY <1>4, <2>1, <2>2
<1> QED
  BY <1>1, <1>2, <1>3, <1>5

\* DeleteQueue closes the queue.
LEMMA CloseStep ==
  ASSUME IndInv, DeleteQueue
  PROVE  Promise!Close
<1>1. UNCHANGED <<m_Request, m_Front, m_Back, handle>> /\ client = "open" /\ client' = "joining"
  BY DEF DeleteQueue
<1>2. \A i \in Slots : RequestIn(i)' = RequestIn(i)
  BY <1>1 DEF RequestIn
<1>3. RingSequence' = RingSequence
  BY <1>1, <1>2, SameSequence
<1> QED
  BY <1>1, <1>3 DEF Promise!Close

\* The sequence is one of requests.
LEMMA RingSequenceType ==
  ASSUME IndInv
  PROVE  RingSequence \in Seq({RequestIn(i) : i \in Slots})
<1>1. \A k \in 1 .. Used : RequestIn(SlotAt(k - 1)) \in {RequestIn(i) : i \in Slots}
  BY SequenceFacts
<1> QED
  BY <1>1, SequenceFacts, IsASeq DEF RingSequence

\* The fields of a request that is answered.
LEMMA AnsweredRecord ==
  ASSUME NEW n, NEW a, NEW d
  PROVE  [Promise!Begun(n) EXCEPT !.status = "answered", !.answer = a, !.data = d]
           = [name |-> n, status |-> "answered", answer |-> a, data |-> d]
<1> DEFINE b == Promise!Begun(n)
           c == [b EXCEPT !.status = "answered", !.answer = a, !.data = d]
<1>1. DOMAIN c = {"name", "status", "answer", "data"}
  BY DEF Promise!Begun
<1>2. c.name = n /\ c.status = "answered" /\ c.answer = a /\ c.data = d
  BY DEF Promise!Begun
<1>3. c = [x \in {"name", "status", "answer", "data"} |-> c[x]]
  BY <1>1
<1> HIDE DEF c
<1>4. c = [name |-> n, status |-> "answered", answer |-> a, data |-> d]
  BY <1>1, <1>2, <1>3
<1> QED
  BY <1>4 DEF c

\* Publishing a load answers the oldest request that has no answer.
LEMMA AnswerStep ==
  ASSUME RefInv, WorkerPublish
  PROVE  \E k \in 1 .. Len(RingSequence), a \in Results \ {PENDING} : Promise!Answer(k, a)
<1> USE DEF RefInv, IndInv
<1> DEFINE r == [m_Request EXCEPT ![current] = Published(@)]
           k == Done + 1
           R == RingSequence
           d == IF result = OK THEN R[k].name ELSE NoName
<1>1. /\ pc = "loaded" /\ UNCHANGED <<m_Front, m_Back, handle, client>>
      /\ current \in Slots /\ result \in Results /\ result # PENDING
      /\ m_Request \in [Slots -> Request]
  BY DEF WorkerPublish, TypeOK, OwnData
<1>2. /\ Done < Used /\ Position(current) = Done
      /\ m_Request[current].m_Name \in Names /\ handle[current] = "begun"
  BY <1>1, WorkerFacts
<1>3. r \in [Slots -> Request] /\ m_Loaded' \in Counters /\ m_BytesWaiting' \in Int
  <2>1. m_Request[current].capacity \in Int
    BY DEF TypeOK, Request
  <2> QED
    BY <2>1, SlotFields, CounterType DEF WorkerPublish, BytesOf, TypeOK
<1>4. \A i \in Slots : /\ m_Request'[i].m_Name = r[i].m_Name
                       /\ m_Request'[i].m_LoadResult = r[i].m_LoadResult
                       /\ m_Request'[i].data = r[i].data
  BY <1>3, NextOrWaitFacts DEF WorkerPublish
<1>5. /\ r[current].m_Name = m_Request[current].m_Name /\ r[current].m_LoadResult = result
      /\ r[current].data = m_Request[current].data
      /\ \A i \in Slots : i # current => r[i] = m_Request[i]
  BY <1>1 DEF Published, Request
<1> HIDE DEF r
<1>6. /\ k \in 1 .. Used /\ Len(R) = Used /\ DOMAIN R = 1 .. Used /\ Used \in Nat /\ Done \in Nat
      /\ R[k] = Promise!Begun(m_Request[current].m_Name)
      /\ R[k] = RequestIn(current)
  BY <1>1, <1>2, SequenceFacts, RequestInPart
<1>7. R[k].status = "begun" /\ R[k].name = m_Request[current].m_Name
  BY <1>6 DEF Promise!Begun
<1>8. \A j \in 1 .. (k - 1) : R[j].status # "begun"
  <2> SUFFICES ASSUME NEW j \in 1 .. (k - 1) PROVE R[j].status # "begun"
    OBVIOUS
  <2>1. j \in 1 .. Used /\ j - 1 < Done /\ j - 1 < Used
    BY <1>2, <1>6
  <2>2. SlotAt(j - 1) \in Slots /\ Position(SlotAt(j - 1)) = j - 1 /\ R[j] = RequestIn(SlotAt(j - 1))
    BY <2>1, SequenceFacts
  <2> QED
    BY <2>1, <2>2, <1>6, StatusInPart
<1>9. m_Request[current].data = d
  BY <1>1, <1>7 DEF OwnData, ErrorData
<1>10. \A i \in Slots : i # current => RequestIn(i)' = RequestIn(i)
  BY <1>1, <1>4, <1>5 DEF RequestIn
<1>11. \A i \in Slots : i = current => RequestIn(i)' =
         [name |-> m_Request[current].m_Name, status |-> "answered", answer |-> result, data |-> d]
  BY <1>1, <1>2, <1>4, <1>5, <1>9 DEF RequestIn
<1>12. ASSUME NEW j \in 1 .. Used
       PROVE  R'[j] = [R EXCEPT ![k].status = "answered", ![k].answer = result, ![k].data = d][j]
  <2>1. R'[j] = RequestIn(SlotAt(j - 1))' /\ SlotAt(j - 1)' = SlotAt(j - 1)
    BY <1>1 DEF RingSequence, Used, Minus, SlotAt, SlotOf
  <2>2. SlotAt(j - 1) \in Slots /\ Position(SlotAt(j - 1)) = j - 1 /\ R[j] = RequestIn(SlotAt(j - 1))
    BY SequenceFacts
  <2>3. CASE j = k
    <3>1. SlotAt(j - 1) = current
      BY <1>1, <1>2, <1>6, <2>2, <2>3, PositionInjective DEF TypeOK
    <3>2. R'[j] = [name |-> m_Request[current].m_Name, status |-> "answered", answer |-> result, data |-> d]
      BY <2>1, <3>1, <1>11, <1>1
    <3>3. [R EXCEPT ![k].status = "answered", ![k].answer = result, ![k].data = d][k]
            = [R[k] EXCEPT !.status = "answered", !.answer = result, !.data = d]
      BY <1>6
    <3>4. [R[k] EXCEPT !.status = "answered", !.answer = result, !.data = d]
            = [name |-> m_Request[current].m_Name, status |-> "answered", answer |-> result, data |-> d]
      <4> HIDE DEF d
      <4> QED
        BY <1>6, AnsweredRecord
    <3> QED
      BY <2>3, <3>2, <3>3, <3>4
  <2>4. CASE j # k
    <3>1. SlotAt(j - 1) # current
      BY <1>2, <1>6, <2>2, <2>4
    <3>2. R'[j] = R[j]
      BY <2>1, <2>2, <3>1, <1>10
    <3>3. [R EXCEPT ![k].status = "answered", ![k].answer = result, ![k].data = d][j] = R[j]
      BY <1>6, <2>4
    <3> QED
      BY <3>2, <3>3
  <2> QED
    BY <2>3, <2>4
<1>13. R' = [R EXCEPT ![k].status = "answered", ![k].answer = result, ![k].data = d]
  <2>1. R' = [j \in 1 .. Used |-> R'[j]]
    BY <1>1 DEF RingSequence, Used, Minus
  <2>2. [R EXCEPT ![k].status = "answered", ![k].answer = result, ![k].data = d]
          = [j \in 1 .. Used |-> [R EXCEPT ![k].status = "answered", ![k].answer = result, ![k].data = d][j]]
    BY <1>6 DEF RingSequence
  <2> QED
    BY <1>12, <2>1, <2>2
<1>14. Promise!Answer(k, result)
  BY <1>1, <1>7, <1>8, <1>13 DEF Promise!Answer, OK
<1> QED
  BY <1>1, <1>6, <1>14

\* BeginLoad appends a request.
LEMMA BeginStep ==
  ASSUME IndInv, NEW n \in Names, BeginLoad(n)
  PROVE  Promise!Begin(n)
<1> USE DEF IndInv
<1> DEFINE f == SlotOf(m_Front)
           R == RingSequence
           S == {RequestIn(i) : i \in Slots} \cup {Promise!Begun(n)}
<1>1. /\ client = "open" /\ Used # QUEUE_SLOTS /\ UNCHANGED <<m_Back, client>>
      /\ m_Front' = Plus(m_Front, 1)
      /\ m_Request' = [m_Request EXCEPT ![f] = Begun(@, n)]
      /\ handle' = [handle EXCEPT ![f] = "begun"]
  BY DEF BeginLoad
<1>2. /\ m_Request \in [Slots -> Request] /\ m_Front \in Counters /\ m_Back \in Counters
      /\ handle \in [Slots -> {"free", "begun", "ended"}] /\ result \in Results
  BY DEF TypeOK
<1>3. /\ Used \in Nat /\ Used < QUEUE_SLOTS /\ Len(R) = Used /\ DOMAIN R = 1 .. Used
      /\ QUEUE_SLOTS \in Nat
  BY <1>1, SequenceFacts, RingAssumption
<1>4. f \in Slots /\ Position(f) = Used
  BY <1>2, <1>3, PositionOfCounter DEF Used
<1>5. Used' = Used + 1
  <2>1. Used < COUNTER_RANGE - 1
    BY <1>3, RingAssumption
  <2> QED
    BY <1>1, <1>2, <2>1, MinusFront DEF Used
<1>6. \A i \in Slots : i = f => RequestIn(i)' = Promise!Begun(n)
  BY <1>1, <1>2, <1>4, SlotFields DEF RequestIn, Promise!Begun
<1>7. \A i \in Slots : i # f => RequestIn(i)' = RequestIn(i)
  BY <1>1, <1>2 DEF RequestIn
<1>8. \A k \in 0 .. Used : SlotAt(k)' = SlotAt(k)
  BY <1>1 DEF SlotAt, SlotOf
<1> HIDE DEF f
<1>9. ASSUME NEW k \in 1 .. Used
      PROVE  R'[k] = R[k]
  <2>1. SlotAt(k - 1) \in Slots /\ Position(SlotAt(k - 1)) = k - 1 /\ R[k] = RequestIn(SlotAt(k - 1))
    BY SequenceFacts
  <2>2. SlotAt(k - 1) # f
    BY <1>3, <1>4, <2>1
  <2>3. SlotAt(k - 1)' = SlotAt(k - 1) /\ R'[k] = RequestIn(SlotAt(k - 1))'
    BY <1>3, <1>5, <1>8 DEF RingSequence
  <2> QED
    BY <2>1, <2>2, <2>3, <1>7
<1>10. R'[Used + 1] = Promise!Begun(n)
  <2>1. PICK u \in Slots : u = Used /\ u + 1 \in 1 .. Used + 1 /\ (u + 1) - 1 = u
    BY <1>3 DEF Slots
  <2>2. SlotAt(u) = f
    BY <1>2, <1>4, <2>1, PositionSlotAt
  <2>3. SlotAt(u)' = SlotAt(u)
    BY <1>3, <1>8, <2>1
  <2>4. R'[u + 1] = RequestIn(SlotAt(u))'
    BY <1>5, <2>1 DEF RingSequence
  <2>5. R'[u + 1] = Promise!Begun(n)
    BY <1>4, <1>6, <2>2, <2>3, <2>4
  <2> QED
    BY <2>1, <2>5
<1>11. R \in Seq(S)
  <2>1. R \in Seq({RequestIn(i) : i \in Slots})
    BY RingSequenceType
  <2> QED
    BY <2>1, <1>3
<1>12. R' = Append(R, Promise!Begun(n))
  <2> DEFINE A == Append(R, Promise!Begun(n))
  <2>1. /\ A \in Seq(S) /\ Len(A) = Used + 1
        /\ \A k \in 1 .. Used : A[k] = R[k]
        /\ A[Used + 1] = Promise!Begun(n)
    BY <1>3, <1>11, AppendProperties
  <2>2. A = [k \in 1 .. Used + 1 |-> A[k]]
    <3>1. A \in [1 .. Used + 1 -> S]
      BY <2>1, LenProperties
    <3> QED
      BY <3>1
  <2>3. R' = [k \in 1 .. Used + 1 |-> R'[k]]
    BY <1>5 DEF RingSequence
  <2>4. \A k \in 1 .. Used + 1 : R'[k] = A[k]
    BY <1>3, <1>9, <1>10, <2>1
  <2> HIDE DEF A, R
  <2> QED
    BY <2>2, <2>3, <2>4 DEF A, R
<1> QED
  BY <1>1, <1>3, <1>12 DEF Promise!Begin

\* FreeLoad leaves a tombstone and drops those at the head.
LEMMA FreeStep ==
  ASSUME IndInv, NEW f \in Slots, FreeLoad(f)
  PROVE  \E p \in 1 .. Len(RingSequence) : Promise!Free(p)
<1> USE DEF IndInv
<1>1. /\ client = "open" /\ handle[f] = "ended" /\ UNCHANGED <<m_Front, client>>
      /\ m_Request' = [m_Request EXCEPT ![f] = Freed(@)]
      /\ handle' = [handle EXCEPT ![f] = "free"]
  BY DEF FreeLoad
<1>2. PICK k \in 0 .. Done : Reclaims(m_Request', k) /\ m_Back' = Plus(m_Back, k)
  BY DEF FreeLoad
<1>3. PICK R : R = RingSequence
  OBVIOUS
<1>4. PICK u \in Nat : u = Used
  BY SequenceFacts
<1>5. /\ Done \in Nat /\ Done <= u /\ u <= QUEUE_SLOTS /\ QUEUE_SLOTS \in Nat /\ k \in Nat /\ k <= Done
      /\ Len(R) = u /\ DOMAIN R = 1 .. u
      /\ m_Back \in Counters /\ m_Front \in Counters /\ result \in Results
      /\ m_Request \in [Slots -> Request] /\ handle \in [Slots -> {"free", "begun", "ended"}]
  BY <1>3, <1>4, SequenceFacts, RingAssumption DEF TypeOK
<1>6. Used' = u - k
  <2>1. k \in 0 .. Minus(m_Front, m_Back)
    BY <1>4, <1>5 DEF Used
  <2> QED
    BY <1>1, <1>2, <1>4, <1>5, <2>1, MinusBack DEF Used
<1>7. ASSUME NEW j \in Int PROVE SlotAt(j)' = SlotAt(j + k)
  <2>1. m_Back + k \in Int /\ (m_Back + k) + j = m_Back + (j + k)
    BY <1>5 DEF Counters
  <2> QED
    BY <1>2, <2>1, WrapKeepsLaterSlot DEF SlotAt, SlotOf, Plus
<1>8. /\ \A i \in Slots : i = f => RequestIn(i)' = Promise!Tombstone
      /\ \A i \in Slots : i # f => RequestIn(i)' = RequestIn(i)
  <2>1. handle'[f] = "free" /\ \A i \in Slots : i # f => handle'[i] = handle[i] /\ m_Request'[i] = m_Request[i]
    BY <1>1, <1>5
  <2> QED
    BY <2>1 DEF RequestIn, Promise!Tombstone
<1>9. /\ m_Request'[f].m_Name = NoName
      /\ \A i \in Slots : i # f => m_Request'[i] = m_Request[i]
  BY <1>1, <1>5, SlotFields
<1>10. PICK p \in 1 .. u : p = Position(f) + 1 /\ p - 1 < Done /\ R[p] = RequestIn(f)
  <2>1. Position(f) \in Int
    BY <1>5, PositionRange DEF Slots
  <2>2. Position(f) < Done
    BY <1>1, <1>4, <1>5, <2>1 DEF RingPartition
  <2>3. Position(f) < Used
    BY <1>4, <1>5, <2>1, <2>2
  <2>4. Position(f) + 1 \in 1 .. u /\ R[Position(f) + 1] = RequestIn(f)
    BY <1>3, <1>4, <2>3, SequenceFacts
  <2> QED
    BY <2>1, <2>2, <2>4
<1>11. R[p].status = "answered"
  <2>1. Position(f) < Used /\ Position(f) < Done
    BY <1>4, <1>5, <1>10, PositionRange DEF Slots
  <2> QED
    BY <1>1, <1>10, <2>1, StatusInPart
<1>12. PICK F : F = [R EXCEPT ![p] = Promise!Tombstone]
  OBVIOUS
<1>13. /\ DOMAIN F = 1 .. u /\ F \in [1 .. u -> {F[j] : j \in 1 .. u}]
       /\ F[p] = Promise!Tombstone /\ \A j \in 1 .. u : j # p => F[j] = R[j]
  <2>1. R = [j \in 1 .. u |-> RequestIn(SlotAt(j - 1))]
    BY <1>3, <1>4 DEF RingSequence
  <2> QED
    BY <1>12, <2>1
<1>14. Len(F) = u
  BY <1>13
<1>15. ASSUME NEW j \in 1 .. u
       PROVE  /\ SlotAt(j - 1) \in Slots /\ Position(SlotAt(j - 1)) = j - 1
              /\ SlotAt(j - 1) = f <=> j = p
              /\ R[j] = RequestIn(SlotAt(j - 1))
              /\ \A i \in Slots : i = SlotAt(j - 1) => F[j] = RequestIn(i)'
  <2>1. SlotAt(j - 1) \in Slots /\ Position(SlotAt(j - 1)) = j - 1 /\ R[j] = RequestIn(SlotAt(j - 1))
    BY <1>3, <1>4, SequenceFacts
  <2>2. SlotAt(j - 1) = f <=> j = p
    <3>1. Position(f) = p - 1
      BY <1>5, <1>10, PositionRange DEF Slots
    <3>2. j - 1 = p - 1 => j = p
      OBVIOUS
    <3> QED
      BY <1>5, <2>1, <3>1, <3>2, PositionInjective
  <2> QED
    BY <2>1, <2>2, <1>8, <1>13
<1>16. \A j \in 1 .. k : F[j].status = "freed"
  <2> SUFFICES ASSUME NEW j \in 1 .. k PROVE F[j].status = "freed"
    OBVIOUS
  <2>1. j \in 1 .. u /\ j - 1 < k /\ j - 1 < Done /\ j - 1 < Used
    BY <1>4, <1>5
  <2>2. PICK i \in Slots : i = SlotAt(j - 1) /\ Position(i) = j - 1 /\ R[j] = RequestIn(i)
    BY <1>15, <2>1
  <2>3. CASE j = p
    BY <1>13, <2>3 DEF Promise!Tombstone
  <2>4. CASE j # p
    <3>1. i # f /\ F[j] = R[j]
      BY <1>13, <1>15, <2>1, <2>2, <2>4
    <3>2. m_Request[i].m_Name = NoName
      BY <1>2, <1>9, <2>1, <2>2, <3>1 DEF Reclaims
    <3>3. handle[i] = "free"
      BY <2>1, <2>2, <3>2 DEF RingPartition
    <3> QED
      BY <2>1, <2>2, <3>1, <3>3, StatusInPart
  <2> QED
    BY <2>3, <2>4
<1>17. k < u => F[k + 1].status # "freed"
  <2> SUFFICES ASSUME k < u PROVE F[k + 1].status # "freed"
    OBVIOUS
  <2>1. k + 1 \in 1 .. u /\ (k + 1) - 1 = k /\ k < Used
    BY <1>4, <1>5
  <2>2. PICK i \in Slots : i = SlotAt(k) /\ Position(i) = k /\ R[k + 1] = RequestIn(i)
    BY <1>15, <2>1
  <2>3. CASE k = Done
    <3>1. k + 1 # p
      BY <1>5, <1>10, <2>3
    <3>2. F[k + 1] = RequestIn(i)
      BY <1>13, <2>1, <2>2, <3>1
    <3>3. handle[i] = "begun"
      BY <1>5, <2>1, <2>2, <2>3 DEF RingPartition
    <3> QED
      BY <2>1, <2>2, <3>2, <3>3, StatusInPart
  <2>4. CASE k # Done
    <3>1. PICK j \in Slots : Position(j) = k /\ m_Request'[j].m_Name # NoName
      BY <1>2, <2>4 DEF Reclaims
    <3>2. j = i /\ j # f
      BY <1>5, <1>9, <2>2, <3>1, PositionInjective
    <3>3. k + 1 # p
      BY <1>15, <2>1, <2>2, <3>2
    <3>4. F[k + 1] = RequestIn(i)
      BY <1>13, <2>1, <2>2, <3>3
    <3>5. m_Request[i].m_Name # NoName /\ Position(i) < Done
      BY <1>5, <1>9, <2>2, <2>4, <3>1, <3>2
    <3>6. handle[i] # "free"
      BY <3>5 DEF RingPartition
    <3> QED
      BY <2>1, <2>2, <3>4, <3>6, StatusInPart
  <2> QED
    BY <2>3, <2>4
<1>18. RingSequence' = SubSeq(F, k + 1, u)
  <2> DEFINE T == SubSeq(F, k + 1, u)
             S == {F[j] : j \in 1 .. u}
  <2>1. \A j \in (k + 1) .. u : F[j] \in S
    BY <1>5
  <2>2. k + 1 \in Int /\ u \in Int /\ u - (k + 1) + 1 = u - k /\ u - k \in Nat
    BY <1>5
  <2>3. /\ T \in Seq(S) /\ Len(T) = u - k
        /\ \A j \in 1 .. (u - k) : T[j] = F[(k + 1) + j - 1]
    <3>1. /\ T \in Seq(S) /\ Len(T) = IF k + 1 <= u THEN u - (k + 1) + 1 ELSE 0
          /\ \A j \in 1 .. u - (k + 1) + 1 : T[j] = F[(k + 1) + j - 1]
      <4> HIDE DEF S
      <4> QED
        BY <2>1, <2>2, SubSeqProperties
    <3>2. (IF k + 1 <= u THEN u - (k + 1) + 1 ELSE 0) = u - k
      BY <1>5
    <3> QED
      BY <2>2, <3>1, <3>2
  <2>4. T = [j \in 1 .. (u - k) |-> T[j]]
    <3>1. T \in [1 .. (u - k) -> S]
      <4> HIDE DEF S, T
      <4> QED
        BY <2>3, LenProperties
    <3> QED
      BY <3>1
  <2>5. RingSequence' = [j \in 1 .. (u - k) |-> RingSequence'[j]]
    BY <1>6 DEF RingSequence
  <2>6. ASSUME NEW j \in 1 .. (u - k) PROVE RingSequence'[j] = T[j]
    <3>1. PICK q \in 1 .. u : q = j + k /\ q - 1 = (j - 1) + k /\ q = (k + 1) + j - 1 /\ j - 1 \in Int
      BY <1>5
    <3>2. SlotAt(j - 1)' = SlotAt(q - 1)
      BY <1>7, <3>1
    <3>3. RingSequence'[j] = RequestIn(SlotAt(j - 1))'
      BY <1>6 DEF RingSequence
    <3>4. PICK i \in Slots : i = SlotAt(q - 1) /\ F[q] = RequestIn(i)'
      BY <1>15
    <3>5. RingSequence'[j] = F[q]
      BY <3>2, <3>3, <3>4
    <3> QED
      BY <2>3, <3>1, <3>5
  <2> HIDE DEF T
  <2>7. [j \in 1 .. (u - k) |-> RingSequence'[j]] = [j \in 1 .. (u - k) |-> T[j]]
    BY <2>6
  <2> QED
    BY <2>4, <2>5, <2>7 DEF T
<1>19. k \in 0 .. Len(R)
  BY <1>5
<1>20. Promise!Free(p)
  BY <1>1, <1>3, <1>5, <1>11, <1>12, <1>14, <1>16, <1>17, <1>18, <1>19 DEF Promise!Free
<1> QED
  BY <1>3, <1>5, <1>20

-----------------------------------------------------------------------------
(* The refinement. *)

\* The empty ring is the empty queue.
LEMMA RefinementInit == Init => Promise!AbsInit
<1> SUFFICES ASSUME Init PROVE Promise!AbsInit
  OBVIOUS
<1>1. Used = 0
  BY RingAssumption DEF Init, Used, Minus
<1>2. RingSequence = <<>>
  BY <1>1 DEF RingSequence
<1> QED
  BY <1>2 DEF Init, Promise!AbsInit

\* Every step of the ring is a step of the queue, or none.
LEMMA RefinementStep == RefInv /\ [Next]_vars => [Promise!AbsNext]_(Promise!absVars)
<1> SUFFICES ASSUME RefInv, [Next]_vars PROVE [Promise!AbsNext]_(Promise!absVars)
  OBVIOUS
<1>0. IndInv
  BY DEF RefInv
<1>1. CASE \/ WorkerPoll \/ WorkerWake \/ SpuriousWake \/ WorkerLoad \/ Join \/ UNCHANGED vars
           \/ \E i \in Slots : EndLoad(i)
  BY <1>0, <1>1, QuietStep DEF Promise!absVars
<1>2. CASE WorkerPublish
  BY <1>2, AnswerStep DEF Promise!AbsNext
<1>3. CASE \E n \in Names : BeginLoad(n)
  BY <1>0, <1>3, BeginStep DEF Promise!AbsNext
<1>4. CASE \E i \in Slots : FreeLoad(i)
  BY <1>0, <1>4, FreeStep DEF Promise!AbsNext
<1>5. CASE DeleteQueue
  BY <1>0, <1>5, CloseStep DEF Promise!AbsNext
<1> QED
  BY <1>1, <1>2, <1>3, <1>4, <1>5 DEF Next, Deleted

\* ErrorData holds of every behaviour.
LEMMA RefInvariance == Spec => []RefInv
<1>1. Init => ErrorData
  BY DEF Init, ErrorData
<1>2. Spec => []IndInv
  BY Invariance
<1>3. IndInv /\ ErrorData /\ [Next]_vars => ErrorData'
  BY ErrorDataStep
<1> QED
  BY <1>1, <1>2, <1>3, PTL DEF Spec, RefInv

\* The ring, its wrapping counters, its worker and its throttle implement the ordered
\* queue that load_queue.h promises: requests are answered in the order they were begun,
\* each with its own resource, and may be freed in any order.
THEOREM QueueKeepsItsPromise == Spec => RefinesPromise
<1>1. Init => Promise!AbsInit
  BY RefinementInit
<1>2. RefInv /\ [Next]_vars => [Promise!AbsNext]_(Promise!absVars)
  BY RefinementStep
<1> QED
  BY <1>1, <1>2, RefInvariance, PTL DEF Spec, RefinesPromise, Promise!AbsSpec

=============================================================================
