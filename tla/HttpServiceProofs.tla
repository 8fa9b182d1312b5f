-------------------------- MODULE HttpServiceProofs --------------------------
(*****************************************************************************)
(* Proofs about HttpService, for every number of workers and requests: a     *)
(* request that was posted before Delete is answered once, by one worker,    *)
(* and nothing runs after Delete is over.                                    *)
(*****************************************************************************)
EXTENDS HttpService, SequenceTheorems, TLAPS

\* x is an element of the sequence.
In(s, x) == \E i \in 1 .. Len(s) : s[i] = x

\* Requests are in the order in which they were posted.
Sorted(s) == \A i, j \in 1 .. Len(s) : i < j /\ s[i] # StopHttp /\ s[j] # StopHttp => s[i] < s[j]

\* No request twice.
NoDup(s) == \A i, j \in 1 .. Len(s) : s[i] = s[j] /\ s[i] # StopHttp => i = j

\* Nothing behind a message to stop.
StopLast(s) == \A i \in 1 .. Len(s) : s[i] = StopHttp => i = Len(s)

\* What the variables hold: the balancer, a worker, Delete.
BalancerRecord == [pc : {"loop", "dispatch", "done"}, run : BOOLEAN, batch : Seq(Messages),
                   count : 0 .. MaxRequests]
\* A worker thread with its socket.
WorkerRecord == [pc : {"loop", "dispatch", "request", "done", "deleted"},
                              run : BOOLEAN, queue : Seq(Messages), batch : Seq(Messages),
                              request : 0 .. MaxRequests, client : Hosts \cup {NoClient},
                              status : 0 .. MaxRequests, canceled : BOOLEAN]
\* Where Delete is.
DeletingRecord == [pc : {"no", "balancer", "stop", "join", "done"},
                   index : 0 .. ThreadCount, before : 0 .. MaxRequests]

\* Delete has told worker w to stop.
Told(w) == \/ deleting.pc = "stop" /\ w < deleting.index
           \/ deleting.pc \in {"join", "done"}

\* Delete tells and joins the balancer before the workers, and frees them one by one.
DeleteInv ==
  /\ deleting.pc \in {"stop", "join"} => deleting.index \in Workers
  /\ deleting.pc \in {"stop", "join", "done"} => balancer.pc = "done"
  /\ deleting.pc = "join" => \A w \in Workers : w < deleting.index => workers[w].pc = "deleted"
  /\ deleting.pc = "done" => \A w \in Workers : workers[w].pc = "deleted"
  /\ deleting.before <= Len(urls)

\* The balancer runs until the message to stop; whatever is behind that message was
\* posted after Delete began.
BalancerInv ==
  /\ balancer.pc = "loop" => balancer.batch = <<>> /\ balancer.run
  /\ balancer.pc = "done" => balancer.batch = <<>> /\ ~balancer.run
  /\ deleting.pc = "no" => /\ balancer.run
                           /\ ~In(balancer.batch, StopHttp) /\ ~In(socket, StopHttp)
  /\ ~balancer.run \/ In(balancer.batch, StopHttp) =>
       \A i \in 1 .. Len(socket) : socket[i] > deleting.before
  /\ \A i, j \in 1 .. Len(socket) : i < j /\ socket[i] = StopHttp => socket[j] > deleting.before

\* Requests reach the balancer in the order of their numbers, none twice.
LineInv ==
  /\ Sorted(balancer.batch) /\ Sorted(socket)
  /\ \A i \in 1 .. Len(balancer.batch), j \in 1 .. Len(socket) :
       balancer.batch[i] # StopHttp /\ socket[j] # StopHttp => balancer.batch[i] < socket[j]
  /\ \A i \in 1 .. Len(balancer.batch) : balancer.batch[i] # StopHttp =>
       balancer.count < balancer.batch[i] /\ balancer.batch[i] <= Len(urls)
  /\ \A i \in 1 .. Len(socket) : socket[i] # StopHttp =>
       balancer.count < socket[i] /\ socket[i] <= Len(urls)
  /\ balancer.count <= Len(urls)

\* A worker is told to stop once, as the last thing in its line.
WorkerInv(w) ==
    /\ NoDup(workers[w].batch) /\ NoDup(workers[w].queue)
    /\ StopLast(workers[w].batch) /\ StopLast(workers[w].queue)
    /\ In(workers[w].batch, StopHttp) => workers[w].queue = <<>>
    /\ ~workers[w].run => workers[w].batch = <<>> /\ workers[w].queue = <<>>
    /\ ~Told(w) => /\ workers[w].run
                   /\ ~In(workers[w].batch, StopHttp) /\ ~In(workers[w].queue, StopHttp)
    /\ workers[w].pc = "loop" => workers[w].batch = <<>>
    /\ workers[w].pc \in {"done", "deleted"} => ~workers[w].run
    /\ workers[w].pc = "deleted" => deleting.pc \in {"join", "done"}

\* WorkerInv, for all workers.
WorkersInv == \A w \in Workers : WorkerInv(w)

\* Where a request can be.
Places == {"socket", "balancer", "queue", "batch", "request", "answered", "lost"}

\* Request r is at place p, with worker v, and nowhere else; it is answered exactly
\* when that is its place.
LocatedAt(r, p, v) ==
  /\ In(socket, r) <=> p = "socket"
  /\ In(balancer.batch, r) <=> p = "balancer"
  /\ \A w \in Workers : /\ In(workers[w].queue, r) <=> p = "queue" /\ v = w
                        /\ In(workers[w].batch, r) <=> p = "batch" /\ v = w
                        /\ workers[w].request = r <=> p = "request" /\ v = w
  /\ p = "answered" => Len(answers[r]) = 1
  /\ p # "answered" => answers[r] = <<>>
  /\ p = "lost" => deleting.pc = "done" /\ r > deleting.before

\* Every request that was posted has one place, and the others none.
PlaceInv ==
  /\ \A r \in 1 .. Len(urls) : \E p \in Places, v \in Workers : LocatedAt(r, p, v)
  /\ \A r \in Requests : r > Len(urls) =>
       /\ answers[r] = <<>>
       /\ \A w \in Workers : /\ ~In(workers[w].queue, r) /\ ~In(workers[w].batch, r)
                             /\ workers[w].request # r

\* The type of every variable.
Typed ==
  /\ urls \in Seq(Hosts \cup {Malformed}) /\ Len(urls) <= MaxRequests
  /\ socket \in Seq(Messages)
  /\ balancer \in BalancerRecord
  /\ workers \in [Workers -> WorkerRecord]
  /\ \A w \in Workers : workers[w].request # 0 <=> workers[w].pc = "request"
  /\ deleting \in DeletingRecord
  /\ answers \in [Requests -> Seq(0 .. MaxRequests)]

\* The inductive invariant.
IndInv == Typed /\ DeleteInv /\ BalancerInv /\ LineInv /\ WorkersInv /\ PlaceInv

-----------------------------------------------------------------------------
\* Append, element by element.
LEMMA AppendFacts ==
  ASSUME NEW S, NEW s \in Seq(S), NEW x \in S
  PROVE  /\ Append(s, x) \in Seq(S)
         /\ Len(Append(s, x)) = Len(s) + 1 /\ Len(s) \in Nat
         /\ \A i \in 1 .. Len(s) : Append(s, x)[i] = s[i]
         /\ Append(s, x)[Len(s) + 1] = x
  OBVIOUS

\* Tail, element by element.
LEMMA TailFacts ==
  ASSUME NEW S, NEW s \in Seq(S), s # <<>>
  PROVE  /\ Tail(s) \in Seq(S) /\ Head(s) \in S /\ Head(s) = s[1]
         /\ Len(s) \in Nat /\ Len(s) > 0 /\ Len(Tail(s)) = Len(s) - 1
         /\ \A i \in 1 .. Len(s) - 1 : Tail(s)[i] = s[i + 1]
  OBVIOUS

\* Nothing is in the empty sequence.
LEMMA InEmpty == \A x : ~In(<<>>, x)
  BY DEF In

\* The elements of a sequence with one more.
LEMMA InAppend ==
  ASSUME NEW S, NEW s \in Seq(S), NEW x \in S
  PROVE  \A y : In(Append(s, x), y) <=> In(s, y) \/ y = x
<1>1. /\ Len(Append(s, x)) = Len(s) + 1 /\ Len(s) \in Nat
      /\ \A i \in 1 .. Len(s) : Append(s, x)[i] = s[i]
      /\ Append(s, x)[Len(s) + 1] = x
  BY AppendFacts
<1> HIDE DEF In
<1>2. ASSUME NEW y, In(Append(s, x), y) PROVE In(s, y) \/ y = x
  <2>1. PICK i \in 1 .. Len(s) + 1 : Append(s, x)[i] = y
    BY <1>1, <1>2 DEF In
  <2>2. CASE i = Len(s) + 1
    BY <1>1, <2>1, <2>2
  <2>3. CASE i \in 1 .. Len(s)
    BY <1>1, <2>1, <2>3 DEF In
  <2> QED
    BY <1>1, <2>1, <2>2, <2>3
<1>3. ASSUME NEW y, In(s, y) PROVE In(Append(s, x), y)
  <2>1. PICK i \in 1 .. Len(s) : s[i] = y
    BY <1>3 DEF In
  <2> QED
    BY <1>1, <2>1 DEF In
<1>4. In(Append(s, x), x)
  <2>1. Len(s) + 1 \in 1 .. Len(Append(s, x))
    BY <1>1
  <2> QED
    BY <1>1, <2>1 DEF In
<1> QED
  BY <1>2, <1>3, <1>4

\* What a line keeps without its first message.
LEMMA InTail ==
  ASSUME NEW S, NEW s \in Seq(S), s # <<>>
  PROVE  /\ In(s, Head(s))
         /\ \A y : In(Tail(s), y) => In(s, y)
         /\ \A y : In(s, y) /\ y # Head(s) => In(Tail(s), y)
         /\ Sorted(s) => Sorted(Tail(s))
         /\ NoDup(s) => NoDup(Tail(s))
         /\ NoDup(s) /\ Head(s) # StopHttp => ~In(Tail(s), Head(s))
         /\ StopLast(s) => StopLast(Tail(s))
         /\ StopLast(s) /\ Head(s) = StopHttp => Tail(s) = <<>>
<1>1. /\ Tail(s) \in Seq(S) /\ Head(s) = s[1]
      /\ Len(s) \in Nat /\ Len(s) > 0 /\ Len(Tail(s)) = Len(s) - 1
      /\ \A i \in 1 .. Len(s) - 1 : Tail(s)[i] = s[i + 1]
  BY TailFacts
<1>2. In(s, Head(s))
  BY <1>1 DEF In
<1>3. \A y : In(Tail(s), y) => In(s, y)
  <2>1. \A i \in 1 .. Len(s) - 1 : i + 1 \in 1 .. Len(s)
    BY <1>1
  <2> QED
    BY <1>1, <2>1 DEF In
<1>4. \A y : In(s, y) /\ y # Head(s) => In(Tail(s), y)
  <2> SUFFICES ASSUME NEW y, In(s, y), y # Head(s) PROVE In(Tail(s), y)
    OBVIOUS
  <2>1. PICK i \in 1 .. Len(s) : s[i] = y
    BY DEF In
  <2>2. i # 1
    BY <1>1, <2>1
  <2>3. i - 1 \in 1 .. Len(Tail(s)) /\ Tail(s)[i - 1] = s[(i - 1) + 1] /\ (i - 1) + 1 = i
    BY <1>1, <2>2
  <2> QED
    BY <2>1, <2>3 DEF In
<1>5. Sorted(s) => Sorted(Tail(s))
  BY <1>1 DEF Sorted
<1>6. NoDup(s) => NoDup(Tail(s))
  <2> SUFFICES ASSUME NoDup(s), NEW i \in 1 .. Len(s) - 1, NEW j \in 1 .. Len(s) - 1,
                      Tail(s)[i] = Tail(s)[j], Tail(s)[i] # StopHttp
               PROVE  i = j
    BY <1>1 DEF NoDup
  <2>1. s[i + 1] = s[j + 1] /\ s[i + 1] # StopHttp /\ i + 1 \in 1 .. Len(s) /\ j + 1 \in 1 .. Len(s)
    BY <1>1
  <2>2. i + 1 = j + 1
    BY <2>1 DEF NoDup
  <2> QED
    BY <2>2
<1>7. NoDup(s) /\ Head(s) # StopHttp => ~In(Tail(s), Head(s))
  <2> SUFFICES ASSUME NoDup(s), Head(s) # StopHttp, NEW i \in 1 .. Len(s) - 1, Tail(s)[i] = Head(s)
               PROVE  FALSE
    BY <1>1 DEF In
  <2>1. s[i + 1] = s[1] /\ s[1] # StopHttp /\ i + 1 \in 1 .. Len(s) /\ 1 \in 1 .. Len(s)
    BY <1>1
  <2>2. i + 1 = 1
    BY <2>1 DEF NoDup
  <2> QED
    BY <2>2
<1>8. StopLast(s) => StopLast(Tail(s))
  <2> SUFFICES ASSUME StopLast(s), NEW i \in 1 .. Len(s) - 1, Tail(s)[i] = StopHttp
               PROVE  i = Len(s) - 1
    BY <1>1 DEF StopLast
  <2>1. i + 1 \in 1 .. Len(s) /\ s[i + 1] = StopHttp
    BY <1>1
  <2>2. i + 1 = Len(s)
    BY <2>1 DEF StopLast
  <2>3. i \in Nat /\ Len(s) \in Nat
    BY <1>1
  <2> QED
    BY SMTT(60), <2>2, <2>3
<1>9. StopLast(s) /\ Head(s) = StopHttp => Tail(s) = <<>>
  <2> SUFFICES ASSUME StopLast(s), Head(s) = StopHttp PROVE Tail(s) = <<>>
    OBVIOUS
  <2>1. 1 \in 1 .. Len(s) /\ s[1] = StopHttp
    BY <1>1
  <2>2. Len(s) = 1
    BY <2>1 DEF StopLast
  <2>3. Len(Tail(s)) = 0
    BY <1>1, <2>2
  <2> QED
    BY <1>1, <2>3, EmptySeq
<1> QED
  BY <1>2, <1>3, <1>4, <1>5, <1>6, <1>7, <1>8, <1>9

\* What a line keeps with one more message at its end.
LEMMA KeptByAppend ==
  ASSUME NEW s \in Seq(Messages), NEW x \in Messages
  PROVE  /\ Sorted(s) /\ (x # StopHttp => \A i \in 1 .. Len(s) : s[i] # StopHttp => s[i] < x)
            => Sorted(Append(s, x))
         /\ NoDup(s) /\ (x # StopHttp => ~In(s, x)) => NoDup(Append(s, x))
         /\ ~In(s, StopHttp) => StopLast(Append(s, x))
<1>1. /\ Len(Append(s, x)) = Len(s) + 1 /\ Len(s) \in Nat
      /\ \A i \in 1 .. Len(s) : Append(s, x)[i] = s[i]
      /\ Append(s, x)[Len(s) + 1] = x
  BY AppendFacts
<1>2. ASSUME Sorted(s), x # StopHttp => \A i \in 1 .. Len(s) : s[i] # StopHttp => s[i] < x
      PROVE  Sorted(Append(s, x))
  <2> SUFFICES ASSUME NEW i \in 1 .. Len(s) + 1, NEW j \in 1 .. Len(s) + 1, i < j,
                      Append(s, x)[i] # StopHttp, Append(s, x)[j] # StopHttp
               PROVE  Append(s, x)[i] < Append(s, x)[j]
    BY <1>1 DEF Sorted
  <2>1. i \in 1 .. Len(s)
    BY <1>1
  <2>2. CASE j = Len(s) + 1
    BY <1>1, <1>2, <2>1, <2>2
  <2>3. CASE j \in 1 .. Len(s)
    BY <1>1, <1>2, <2>1, <2>3 DEF Sorted
  <2> QED
    BY <1>1, <2>2, <2>3
<1>3. ASSUME NoDup(s), x # StopHttp => ~In(s, x) PROVE NoDup(Append(s, x))
  <2> SUFFICES ASSUME NEW i \in 1 .. Len(s) + 1, NEW j \in 1 .. Len(s) + 1,
                      Append(s, x)[i] = Append(s, x)[j], Append(s, x)[i] # StopHttp
               PROVE  i = j
    BY <1>1 DEF NoDup
  <2>1. i \in 1 .. Len(s) /\ j \in 1 .. Len(s) => i = j
    BY <1>1, <1>3 DEF NoDup
  <2>2. i \in 1 .. Len(s) => j # Len(s) + 1
    BY <1>1, <1>3 DEF In
  <2>3. j \in 1 .. Len(s) => i # Len(s) + 1
    BY <1>1, <1>3 DEF In
  <2> QED
    BY <1>1, <2>1, <2>2, <2>3
<1>4. ASSUME ~In(s, StopHttp) PROVE StopLast(Append(s, x))
  BY <1>1, <1>4 DEF In, StopLast
<1> QED
  BY <1>2, <1>3, <1>4

-----------------------------------------------------------------------------
(* The steps by what they do, field by field.                              *)

\* No worker but w changes.
SameWorkersBut(w) == \A v \in Workers \ {w} : workers'[v] = workers[v]

\* A worker takes the messages of its socket.
Taken(w) ==
  /\ workers[w].pc = "loop" /\ workers'[w].pc = "dispatch"
  /\ workers'[w].batch = workers[w].queue /\ workers'[w].queue = <<>>
  /\ workers'[w].run = workers[w].run /\ workers'[w].request = workers[w].request
  /\ answers' = answers

\* A worker's batch is done: it goes on, or ends.
Round(w) ==
  /\ workers[w].pc = "dispatch" /\ workers[w].batch = <<>>
  /\ workers'[w].pc = IF workers[w].run THEN "loop" ELSE "done"
  /\ workers'[w].batch = workers[w].batch /\ workers'[w].queue = workers[w].queue
  /\ workers'[w].run = workers[w].run /\ workers'[w].request = workers[w].request
  /\ answers' = answers

\* A worker meets the message to stop.
Stopped(w) ==
  /\ workers[w].pc = "dispatch" /\ workers'[w].pc = "dispatch"
  /\ workers[w].batch # <<>> /\ Head(workers[w].batch) = StopHttp
  /\ workers'[w].batch = Tail(workers[w].batch) /\ workers'[w].queue = workers[w].queue
  /\ workers'[w].run = FALSE /\ workers'[w].request = workers[w].request
  /\ answers' = answers

\* Request r is answered.
Answers(r) == \E x \in 0 .. MaxRequests : answers' = [answers EXCEPT ![r] = Append(@, x)]

\* A worker answers a request it cannot make at once.
Refused(w) ==
  /\ workers[w].pc = "dispatch" /\ workers'[w].pc = "dispatch"
  /\ workers[w].batch # <<>> /\ Head(workers[w].batch) # StopHttp
  /\ workers'[w].batch = Tail(workers[w].batch) /\ workers'[w].queue = workers[w].queue
  /\ workers'[w].run = workers[w].run /\ workers'[w].request = workers[w].request
  /\ Answers(Head(workers[w].batch))

\* A worker begins a request.
Begun(w) ==
  /\ workers[w].pc = "dispatch" /\ workers'[w].pc = "request"
  /\ workers[w].batch # <<>> /\ Head(workers[w].batch) # StopHttp
  /\ workers'[w].batch = Tail(workers[w].batch) /\ workers'[w].queue = workers[w].queue
  /\ workers'[w].run = workers[w].run /\ workers'[w].request = Head(workers[w].batch)
  /\ answers' = answers

\* A request of a worker comes back, and is answered.
Returned(w) ==
  /\ workers[w].pc = "request" /\ workers'[w].pc = "dispatch"
  /\ workers'[w].batch = workers[w].batch /\ workers'[w].queue = workers[w].queue
  /\ workers'[w].run = workers[w].run /\ workers'[w].request = 0
  /\ Answers(workers[w].request)

\* A worker's step.
WorkerKind(w) == Taken(w) \/ Round(w) \/ Stopped(w) \/ Refused(w) \/ Begun(w) \/ Returned(w)

\* Every step of a worker is one of these.
LEMMA WorkerShape ==
  ASSUME Typed, WorkersInv, NEW w \in Workers, Loop(w) \/ Dispatch(w) \/ RequestReturns(w)
  PROVE  /\ UNCHANGED <<urls, socket, balancer, deleting>>
         /\ workers' \in [Workers -> WorkerRecord] /\ SameWorkersBut(w)
         /\ WorkerKind(w)
<1>0. /\ workers \in [Workers -> WorkerRecord] /\ workers[w] \in WorkerRecord
      /\ workers[w].batch \in Seq(Messages) /\ workers[w].queue \in Seq(Messages)
  <2>1. workers \in [Workers -> WorkerRecord] /\ workers[w] \in WorkerRecord
    BY DEF Typed
  <2> QED
    BY <2>1 DEF WorkerRecord
<1>s. ASSUME NEW rec \in WorkerRecord, SetWorker(w, rec)
      PROVE  workers' \in [Workers -> WorkerRecord] /\ SameWorkersBut(w) /\ workers'[w] = rec
  BY <1>0, <1>s DEF SetWorker, SameWorkersBut
<1>1. CASE Loop(w)
  <2>1. UNCHANGED <<urls, socket, balancer, deleting, answers>>
    BY <1>1 DEF Loop
  <2>2. ASSUME workers[w].pc = "loop",
               SetWorker(w, [workers[w] EXCEPT !.pc = "dispatch", !.batch = workers[w].queue,
                                               !.queue = <<>>])
        PROVE  workers' \in [Workers -> WorkerRecord] /\ SameWorkersBut(w) /\ Taken(w)
    <3> DEFINE rec == [workers[w] EXCEPT !.pc = "dispatch", !.batch = workers[w].queue, !.queue = <<>>]
    <3>1. <<>> \in Seq(Messages)
      OBVIOUS
    <3>2. rec \in WorkerRecord
      BY <1>0, <3>1 DEF WorkerRecord
    <3>3. /\ rec.pc = "dispatch" /\ rec.batch = workers[w].queue
          /\ rec.queue = <<>> /\ rec.run = workers[w].run /\ rec.request = workers[w].request
      BY <1>0 DEF WorkerRecord
    <3> HIDE DEF rec
    <3> QED
      BY <1>s, <2>1, <2>2, <3>2, <3>3 DEF Taken, rec
  <2>3. ASSUME workers[w].pc = "dispatch", workers[w].batch = <<>>,
               SetWorker(w, [workers[w] EXCEPT !.pc = IF workers[w].run THEN "loop" ELSE "done"])
        PROVE  workers' \in [Workers -> WorkerRecord] /\ SameWorkersBut(w) /\ Round(w)
    <3> DEFINE pc == IF workers[w].run THEN "loop" ELSE "done"
               rec == [workers[w] EXCEPT !.pc = pc]
    <3>0. pc \in {"loop", "dispatch", "request", "done", "deleted"}
      OBVIOUS
    <3> HIDE DEF pc
    <3>1. /\ rec \in WorkerRecord /\ rec.pc = pc
          /\ rec.batch = workers[w].batch
          /\ rec.queue = workers[w].queue /\ rec.run = workers[w].run /\ rec.request = workers[w].request
      BY <1>0, <3>0 DEF WorkerRecord
    <3> HIDE DEF rec
    <3> QED
      BY <1>s, <2>1, <2>3, <3>1 DEF Round, rec, pc
  <2> QED
    BY <1>1, <2>1, <2>2, <2>3 DEF Loop, WorkerKind
<1>d. ASSUME Dispatching(w)
      PROVE  /\ workers[w].batch # <<>> /\ Tail(workers[w].batch) \in Seq(Messages) /\ workers[w].run
             /\ Message(w) \in Messages
  BY <1>0, <1>d, TailFacts DEF Dispatching, WorkersInv, WorkerInv, Message
<1>2. CASE DispatchStop(w)
  <2> DEFINE rec == [Dispatched(w) EXCEPT !.run = FALSE]
  <2>1. /\ UNCHANGED <<urls, socket, balancer, deleting, answers>>
        /\ SetWorker(w, rec) /\ Dispatching(w) /\ Message(w) = StopHttp
    BY <1>2, <1>d DEF DispatchStop
  <2>2. /\ rec \in WorkerRecord /\ rec.pc = workers[w].pc /\ rec.batch = Tail(workers[w].batch)
        /\ rec.queue = workers[w].queue /\ rec.run = FALSE /\ rec.request = workers[w].request
    BY <1>0, <1>d, <2>1 DEF WorkerRecord, Dispatched
  <2> HIDE DEF rec
  <2> QED
    BY <1>s, <2>1, <2>2 DEF WorkerKind, Stopped, Dispatching, Message
<1>3. CASE HandleRequest(w)
  <2>1. /\ UNCHANGED <<urls, socket, balancer, deleting>>
        /\ Dispatching(w) /\ Message(w) # StopHttp
    BY <1>3 DEF HandleRequest
  <2>2. /\ Dispatched(w) \in WorkerRecord /\ Dispatched(w).pc = workers[w].pc
        /\ Dispatched(w).batch = Tail(workers[w].batch)
        /\ Dispatched(w).queue = workers[w].queue /\ Dispatched(w).run = workers[w].run
        /\ Dispatched(w).request = workers[w].request
    BY <1>0, <1>d, <2>1 DEF WorkerRecord, Dispatched
  <2>3. Message(w) \in 0 .. MaxRequests /\ 0 \in 0 .. MaxRequests
    BY <1>d, <2>1, HttpServiceAssumption DEF Messages, Requests, StopHttp
  <2>4. ASSUME SendResponse(Message(w), NoStatus) PROVE Answers(Message(w))
    BY <2>3, <2>4 DEF SendResponse, Answers, NoStatus
  <2>5. ASSUME SetWorker(w, Dispatched(w)), SendResponse(Message(w), NoStatus)
        PROVE  workers' \in [Workers -> WorkerRecord] /\ SameWorkersBut(w) /\ Refused(w)
    BY <1>s, <2>1, <2>2, <2>4, <2>5 DEF Refused, Dispatching, Message
  <2>6. ASSUME SetWorker(w, [Dispatched(w) EXCEPT !.client = NoClient]), SendResponse(Message(w), NoStatus)
        PROVE  workers' \in [Workers -> WorkerRecord] /\ SameWorkersBut(w) /\ Refused(w)
    <3> DEFINE rec == [Dispatched(w) EXCEPT !.client = NoClient]
    <3>1. /\ rec \in WorkerRecord /\ rec.pc = workers[w].pc /\ rec.batch = Tail(workers[w].batch)
          /\ rec.queue = workers[w].queue /\ rec.run = workers[w].run /\ rec.request = workers[w].request
      BY <2>2 DEF WorkerRecord
    <3> HIDE DEF rec
    <3> QED
      BY <1>s, <2>1, <2>4, <2>6, <3>1 DEF Refused, Dispatching, Message, rec
  <2>7. ASSUME urls[Message(w)] \in Hosts, answers' = answers,
               SetWorker(w, [Dispatched(w) EXCEPT !.pc = "request", !.request = Message(w),
                                                  !.client = urls[Message(w)]])
        PROVE  workers' \in [Workers -> WorkerRecord] /\ SameWorkersBut(w) /\ Begun(w)
    <3> DEFINE rec == [Dispatched(w) EXCEPT !.pc = "request", !.request = Message(w),
                                                  !.client = urls[Message(w)]]
    <3>1. /\ rec \in WorkerRecord /\ rec.pc = "request" /\ rec.batch = Tail(workers[w].batch)
          /\ rec.queue = workers[w].queue /\ rec.run = workers[w].run /\ rec.request = Message(w)
      BY <2>2, <2>3, <2>7 DEF WorkerRecord
    <3> HIDE DEF rec
    <3> QED
      BY <1>s, <2>1, <2>7, <3>1 DEF Begun, Dispatching, Message, rec
  <2> QED
    BY <1>3, <2>1, <2>5, <2>6, <2>7 DEF HandleRequest, WorkerKind
<1>4. CASE RequestReturns(w)
  <2>1. UNCHANGED <<urls, socket, balancer, deleting>> /\ workers[w].pc = "request"
    BY <1>4 DEF RequestReturns
  <2>2. PICK result \in Results(w) :
           /\ SetWorker(w, [workers[w] EXCEPT !.pc = "dispatch", !.request = 0,
                                              !.status = result.status])
           /\ SendResponse(workers[w].request, IF result.ok THEN result.status ELSE NoStatus)
    BY <1>4 DEF RequestReturns
  <2>3. result.status \in 0 .. MaxRequests /\ NoStatus \in 0 .. MaxRequests /\ 0 \in 0 .. MaxRequests
    <3>1. workers[w].request \in 0 .. MaxRequests /\ workers[w].status \in 0 .. MaxRequests
      BY <1>0 DEF WorkerRecord
    <3>2. result.status = workers[w].request \/ result.status = workers[w].status
      BY DEF Results
    <3> QED
      BY <3>1, <3>2, HttpServiceAssumption DEF NoStatus
  <2> DEFINE rec == [workers[w] EXCEPT !.pc = "dispatch", !.request = 0, !.status = result.status]
  <2>4. /\ rec \in WorkerRecord /\ rec.pc = "dispatch" /\ rec.batch = workers[w].batch
        /\ rec.queue = workers[w].queue /\ rec.run = workers[w].run /\ rec.request = 0
    BY <1>0, <2>3 DEF WorkerRecord
  <2>5. SetWorker(w, rec)
    BY <2>2
  <2>6. Answers(workers[w].request)
    BY <2>2, <2>3 DEF Answers, SendResponse
  <2> HIDE DEF rec
  <2> QED
    BY <1>s, <2>1, <2>4, <2>5, <2>6 DEF Returned, WorkerKind
<1> QED
  BY <1>1, <1>2, <1>3, <1>4 DEF Dispatch

\* The balancer takes the messages of the service's socket.
BalancerTakes ==
  /\ balancer.pc = "loop" /\ balancer'.pc = "dispatch"
  /\ balancer'.batch = socket /\ socket' = <<>>
  /\ balancer'.run = balancer.run /\ balancer'.count = balancer.count
  /\ workers' = workers

\* The balancer's batch is done: it goes on, or ends.
BalancerRound ==
  /\ balancer.pc = "dispatch" /\ balancer.batch = <<>>
  /\ balancer'.pc = IF balancer.run THEN "loop" ELSE "done"
  /\ balancer'.batch = balancer.batch /\ socket' = socket
  /\ balancer'.run = balancer.run /\ balancer'.count = balancer.count
  /\ workers' = workers

\* The balancer meets the message to stop.
BalancerStops ==
  /\ balancer.pc = "dispatch" /\ balancer'.pc = "dispatch"
  /\ balancer.batch # <<>> /\ Head(balancer.batch) = StopHttp
  /\ balancer'.batch = Tail(balancer.batch) /\ socket' = socket
  /\ balancer'.run = FALSE /\ balancer'.count = balancer.count
  /\ workers' = workers

\* Message m is put at the end of worker w's line.
Queued(w, m) ==
  /\ SameWorkersBut(w)
  /\ workers'[w].queue = Append(workers[w].queue, m)
  /\ workers'[w].batch = workers[w].batch /\ workers'[w].pc = workers[w].pc
  /\ workers'[w].run = workers[w].run /\ workers'[w].request = workers[w].request

\* The balancer hands a request to a worker.
BalancerPosts ==
  /\ balancer.pc = "dispatch" /\ balancer'.pc = "dispatch"
  /\ balancer.batch # <<>> /\ Head(balancer.batch) # StopHttp
  /\ balancer'.batch = Tail(balancer.batch) /\ socket' = socket
  /\ balancer'.run = balancer.run /\ balancer'.count = balancer.count + 1
  /\ \E w \in Workers : Queued(w, Head(balancer.batch))

\* What a post to a worker changes.
LEMMA PostShape ==
  ASSUME Typed, NEW w \in Workers, NEW m \in Messages, workers[w].pc # "deleted"
  PROVE  /\ PostTo(workers, w, m) \in [Workers -> WorkerRecord]
         /\ \A v \in Workers \ {w} : PostTo(workers, w, m)[v] = workers[v]
         /\ PostTo(workers, w, m)[w] = [workers[w] EXCEPT !.queue = Append(@, m)]
<1>1. workers \in [Workers -> WorkerRecord] /\ workers[w] \in WorkerRecord
  BY DEF Typed
<1>2. workers[w].queue \in Seq(Messages)
  BY <1>1 DEF WorkerRecord
<1>3. Append(workers[w].queue, m) \in Seq(Messages)
  BY <1>2, AppendFacts
<1>4. [workers[w] EXCEPT !.queue = Append(@, m)] \in WorkerRecord
  BY <1>1, <1>3 DEF WorkerRecord
<1>5. PostTo(workers, w, m) = [workers EXCEPT ![w] = [workers[w] EXCEPT !.queue = Append(@, m)]]
  BY <1>1 DEF PostTo, WorkerRecord
<1> QED
  BY <1>1, <1>4, <1>5

\* Every step of the balancer is one of these.
LEMMA BalancerShape ==
  ASSUME Typed, DeleteInv, LineInv, WorkersInv, Balancer
  PROVE  /\ UNCHANGED <<urls, deleting, answers>>
         /\ balancer' \in BalancerRecord /\ socket' \in Seq(Messages)
         /\ workers' \in [Workers -> WorkerRecord]
         /\ BalancerTakes \/ BalancerRound \/ BalancerStops \/ BalancerPosts
<1>0. /\ balancer \in BalancerRecord /\ socket \in Seq(Messages) /\ <<>> \in Seq(Messages)
      /\ workers \in [Workers -> WorkerRecord]
      /\ balancer.batch \in Seq(Messages) /\ balancer.count \in 0 .. MaxRequests
  <2>1. /\ balancer \in BalancerRecord /\ socket \in Seq(Messages)
        /\ workers \in [Workers -> WorkerRecord]
    BY DEF Typed
  <2> QED
    BY <2>1 DEF BalancerRecord
<1>1. ASSUME balancer.pc = "loop",
             balancer' = [balancer EXCEPT !.pc = "dispatch", !.batch = socket],
             socket' = <<>>, UNCHANGED <<urls, workers, deleting, answers>>
      PROVE  balancer' \in BalancerRecord /\ BalancerTakes
  BY <1>0, <1>1 DEF BalancerRecord, BalancerTakes
<1>2. ASSUME balancer.pc = "dispatch", balancer.batch = <<>>,
             balancer' = [balancer EXCEPT !.pc = IF balancer.run THEN "loop" ELSE "done"],
             UNCHANGED <<urls, socket, workers, deleting, answers>>
      PROVE  balancer' \in BalancerRecord /\ BalancerRound
  <2> DEFINE pc == IF balancer.run THEN "loop" ELSE "done"
  <2>1. pc \in {"loop", "dispatch", "done"} /\ balancer' = [balancer EXCEPT !.pc = pc]
    BY <1>2
  <2> HIDE DEF pc
  <2>2. /\ balancer' \in BalancerRecord /\ balancer'.pc = pc
        /\ balancer'.batch = balancer.batch /\ balancer'.run = balancer.run
        /\ balancer'.count = balancer.count
    BY <1>0, <2>1 DEF BalancerRecord
  <2> QED
    BY <1>2, <2>2 DEF BalancerRound, pc
<1>3. CASE LoadBalancer
  BY <1>0, <1>1, <1>2, <1>3 DEF LoadBalancer
<1>4. CASE LoadBalance
  <2>1. /\ balancer.pc = "dispatch" /\ balancer.batch # <<>> /\ Tail(balancer.batch) \in Seq(Messages)
        /\ Head(balancer.batch) = balancer.batch[1] /\ 1 \in 1 .. Len(balancer.batch)
        /\ Head(balancer.batch) \in Messages
        /\ UNCHANGED <<urls, socket, deleting, answers>>
    BY <1>0, <1>4, TailFacts DEF LoadBalance
  <2>2. CASE Head(balancer.batch) = StopHttp
    <3>1. balancer' = [balancer EXCEPT !.batch = Tail(balancer.batch), !.run = FALSE] /\ workers' = workers
      BY <1>0, <1>4, <2>2 DEF LoadBalance, BalancerRecord
    <3>2. balancer' \in BalancerRecord
      BY <1>0, <2>1, <3>1 DEF BalancerRecord
    <3>3. /\ balancer'.pc = balancer.pc /\ balancer'.run = FALSE /\ balancer'.count = balancer.count
          /\ balancer'.batch = Tail(balancer.batch)
      BY <1>0, <3>1 DEF BalancerRecord
    <3> QED
      BY <1>0, <2>1, <2>2, <3>1, <3>2, <3>3 DEF BalancerStops
  <2>3. CASE Head(balancer.batch) # StopHttp
    <3>1. /\ balancer' = [balancer EXCEPT !.batch = Tail(balancer.batch), !.count = balancer.count + 1]
          /\ workers' = PostTo(workers, Turn, Head(balancer.batch))
      BY <1>0, <1>4, <2>3 DEF LoadBalance, BalancerRecord
    <3>2. balancer.count + 1 \in 0 .. MaxRequests
      <4>1. balancer.count < balancer.batch[1] /\ balancer.batch[1] <= Len(urls)
        BY <2>1, <2>3 DEF LineInv
      <4>2. Len(urls) <= MaxRequests /\ Len(urls) \in Nat
        BY DEF Typed
      <4>3. balancer.batch[1] \in Nat
        BY <2>1, HttpServiceAssumption DEF Messages, Requests, StopHttp
      <4> QED
        BY SMTT(60), <1>0, <4>1, <4>2, <4>3, HttpServiceAssumption
    <3>3. balancer' \in BalancerRecord
      BY <1>0, <2>1, <3>1, <3>2 DEF BalancerRecord
    <3>4. /\ balancer'.pc = balancer.pc /\ balancer'.run = balancer.run
          /\ balancer'.count = balancer.count + 1 /\ balancer'.batch = Tail(balancer.batch)
      BY <1>0, <3>1 DEF BalancerRecord
    <3>5. Turn \in Workers
      BY <1>0, HttpServiceAssumption DEF Turn, Workers
    <3>6. workers[Turn].pc # "deleted"
      BY <2>1, <3>5 DEF WorkersInv, WorkerInv, DeleteInv
    <3>7. /\ workers' \in [Workers -> WorkerRecord] /\ SameWorkersBut(Turn)
          /\ workers'[Turn] = [workers[Turn] EXCEPT !.queue = Append(@, Head(balancer.batch))]
      BY <2>1, <3>1, <3>5, <3>6, PostShape DEF SameWorkersBut
    <3>8. workers[Turn] \in WorkerRecord
      BY <1>0, <3>5
    <3>9. Queued(Turn, Head(balancer.batch))
      BY <3>7, <3>8 DEF Queued, WorkerRecord
    <3> QED
      BY <1>0, <2>1, <2>3, <3>3, <3>4, <3>5, <3>7, <3>9 DEF BalancerPosts
  <2> QED
    BY <2>2, <2>3
<1> QED
  BY <1>3, <1>4 DEF Balancer

\* The steps of Delete.
DeletesBegin ==
  /\ deleting.pc = "no" /\ deleting'.pc = "balancer" /\ deleting'.index = 0
  /\ deleting'.before = Len(urls)
  /\ socket' = Append(socket, StopHttp) /\ workers' = workers

\* Delete has joined the balancer.
DeleteJoins ==
  /\ deleting.pc = "balancer" /\ balancer.pc = "done" /\ deleting'.pc = "stop" /\ deleting'.index = 1
  /\ deleting'.before = deleting.before
  /\ socket' = socket /\ workers' = workers

\* Delete goes on to the next worker, or to its next stage.
Follows(next) ==
  /\ deleting'.before = deleting.before
  /\ \/ /\ deleting.index < ThreadCount
        /\ deleting'.pc = deleting.pc /\ deleting'.index = deleting.index + 1
     \/ /\ deleting.index = ThreadCount
        /\ deleting'.pc = next /\ deleting'.index = 1

\* Delete tells a worker to stop.
DeleteStops ==
  /\ deleting.pc = "stop" /\ Follows("join")
  /\ Queued(deleting.index, StopHttp)
  /\ socket' = socket

\* Delete joins a worker and frees it; after the last one the socket goes too.
DeleteFrees ==
  /\ deleting.pc = "join" /\ Follows("done")
  /\ workers[deleting.index].pc = "done" /\ workers'[deleting.index].pc = "deleted"
  /\ SameWorkersBut(deleting.index)
  /\ workers'[deleting.index].queue = workers[deleting.index].queue
  /\ workers'[deleting.index].batch = workers[deleting.index].batch
  /\ workers'[deleting.index].run = workers[deleting.index].run
  /\ workers'[deleting.index].request = workers[deleting.index].request
  /\ socket' = IF deleting'.pc = "done" THEN <<>> ELSE socket

\* What Following computes.
LEMMA FollowingShape ==
  ASSUME Typed, NEW next \in {"join", "done"}, deleting.index \in Workers,
         deleting' = Following(next)
  PROVE  deleting' \in DeletingRecord /\ Follows(next)
<1>1. deleting \in DeletingRecord
  BY DEF Typed
<1>2. deleting.index \in 1 .. ThreadCount /\ ThreadCount \in Nat /\ ThreadCount > 0
  BY HttpServiceAssumption DEF Workers
<1>3. CASE deleting.index < ThreadCount
  <2>1. deleting' = [deleting EXCEPT !.index = deleting.index + 1]
    BY <1>1, <1>3 DEF Following, DeletingRecord
  <2>2. deleting.index + 1 \in 0 .. ThreadCount
    BY <1>2, <1>3
  <2> QED
    BY <1>1, <1>3, <2>1, <2>2 DEF DeletingRecord, Follows
<1>4. CASE ~(deleting.index < ThreadCount)
  <2>1. deleting' = [deleting EXCEPT !.pc = next, !.index = 1]
    BY <1>1, <1>4 DEF Following, DeletingRecord
  <2>2. 1 \in 0 .. ThreadCount /\ deleting.index = ThreadCount
    BY <1>2, <1>4
  <2> QED
    BY <1>1, <2>1, <2>2 DEF DeletingRecord, Follows
<1> QED
  BY <1>3, <1>4

\* Every step of Delete is one of these.
LEMMA DeleteShape ==
  ASSUME Typed, DeleteInv, WorkersInv, Delete \/ Deleter
  PROVE  /\ UNCHANGED <<urls, balancer, answers>>
         /\ deleting' \in DeletingRecord /\ socket' \in Seq(Messages)
         /\ workers' \in [Workers -> WorkerRecord]
         /\ DeletesBegin \/ DeleteJoins \/ DeleteStops \/ DeleteFrees
<1>0. /\ deleting \in DeletingRecord /\ socket \in Seq(Messages) /\ <<>> \in Seq(Messages)
      /\ workers \in [Workers -> WorkerRecord] /\ StopHttp \in Messages
      /\ Len(urls) \in 0 .. MaxRequests
  BY HttpServiceAssumption DEF Typed, Messages
<1>1. CASE Delete
  <2>1. deleting' = [pc |-> "balancer", index |-> 0, before |-> Len(urls)]
    BY <1>1 DEF Delete
  <2>2. deleting' \in DeletingRecord
    BY <1>0, <2>1, HttpServiceAssumption DEF DeletingRecord
  <2>3. socket' = Append(socket, StopHttp) /\ socket' \in Seq(Messages)
    BY <1>0, <1>1, AppendFacts DEF Delete
  <2> QED
    BY <1>0, <1>1, <2>1, <2>2, <2>3 DEF Delete, DeletesBegin
<1>2. CASE DeleteJoinBalancer
  <2>1. deleting' = [deleting EXCEPT !.pc = "stop", !.index = 1]
    BY <1>2 DEF DeleteJoinBalancer
  <2>2. 1 \in 0 .. ThreadCount
    BY HttpServiceAssumption
  <2>3. /\ deleting' \in DeletingRecord /\ deleting'.pc = "stop" /\ deleting'.index = 1
        /\ deleting'.before = deleting.before
    BY <1>0, <2>1, <2>2 DEF DeletingRecord
  <2> QED
    BY <1>0, <1>2, <2>3 DEF DeleteJoinBalancer, DeleteJoins
<1>3. CASE DeleteStopWorker
  <2> DEFINE w == deleting.index
  <2>1. /\ deleting.pc = "stop" /\ w \in Workers /\ socket' = socket
        /\ UNCHANGED <<urls, balancer, answers>>
    BY <1>3 DEF DeleteStopWorker, DeleteInv
  <2>2. deleting' \in DeletingRecord /\ Follows("join")
    BY <1>3, <2>1, FollowingShape DEF DeleteStopWorker
  <2>3. workers[w].pc # "deleted"
    BY <2>1 DEF WorkersInv, WorkerInv
  <2>4. /\ PostTo(workers, w, StopHttp) \in [Workers -> WorkerRecord]
        /\ \A v \in Workers \ {w} : PostTo(workers, w, StopHttp)[v] = workers[v]
        /\ PostTo(workers, w, StopHttp)[w] = [workers[w] EXCEPT !.queue = Append(@, StopHttp)]
    BY <1>0, <2>1, <2>3, PostShape
  <2>5. workers' = [PostTo(workers, w, StopHttp) EXCEPT
                     ![w] = [PostTo(workers, w, StopHttp)[w] EXCEPT !.canceled = TRUE]]
    BY <1>3, <2>1, <2>4 DEF DeleteStopWorker
  <2>6. PostTo(workers, w, StopHttp)[w] \in WorkerRecord /\ workers[w] \in WorkerRecord
    BY <1>0, <2>1, <2>4
  <2>7. [PostTo(workers, w, StopHttp)[w] EXCEPT !.canceled = TRUE] \in WorkerRecord
    BY <2>6 DEF WorkerRecord
  <2>8. /\ workers' \in [Workers -> WorkerRecord]
        /\ \A v \in Workers \ {w} : workers'[v] = workers[v]
        /\ workers'[w] = [PostTo(workers, w, StopHttp)[w] EXCEPT !.canceled = TRUE]
    BY <2>1, <2>4, <2>5, <2>7
  <2>9. /\ PostTo(workers, w, StopHttp)[w].queue = Append(workers[w].queue, StopHttp)
        /\ PostTo(workers, w, StopHttp)[w].batch = workers[w].batch
        /\ PostTo(workers, w, StopHttp)[w].pc = workers[w].pc
        /\ PostTo(workers, w, StopHttp)[w].run = workers[w].run
        /\ PostTo(workers, w, StopHttp)[w].request = workers[w].request
    BY <2>4, <2>6 DEF WorkerRecord
  <2>10. Queued(w, StopHttp)
    BY <2>6, <2>8, <2>9 DEF Queued, SameWorkersBut, WorkerRecord
  <2> QED
    BY <1>0, <2>1, <2>2, <2>8, <2>10 DEF DeleteStops
<1>4. CASE DeleteJoinWorker
  <2> DEFINE w == deleting.index
  <2>1. /\ deleting.pc = "join" /\ w \in Workers /\ workers[w].pc = "done"
        /\ UNCHANGED <<urls, balancer, answers>>
        /\ socket' = IF deleting'.pc = "done" THEN <<>> ELSE socket
    BY <1>4 DEF DeleteJoinWorker, DeleteInv
  <2>2. deleting' \in DeletingRecord /\ Follows("done")
    BY <1>4, <2>1, FollowingShape DEF DeleteJoinWorker
  <2>3. workers' = [workers EXCEPT ![w] = [workers[w] EXCEPT !.pc = "deleted"]]
    BY <1>0, <1>4, <2>1 DEF DeleteJoinWorker
  <2>4. workers[w] \in WorkerRecord
    BY <1>0, <2>1
  <2>5. [workers[w] EXCEPT !.pc = "deleted"] \in WorkerRecord
    BY <2>4 DEF WorkerRecord
  <2>6. /\ workers' \in [Workers -> WorkerRecord] /\ SameWorkersBut(w)
        /\ workers'[w] = [workers[w] EXCEPT !.pc = "deleted"]
    BY <1>0, <2>1, <2>3, <2>5 DEF SameWorkersBut
  <2>7. /\ workers'[w].pc = "deleted" /\ workers'[w].queue = workers[w].queue
        /\ workers'[w].batch = workers[w].batch /\ workers'[w].run = workers[w].run
        /\ workers'[w].request = workers[w].request
    BY <2>4, <2>6 DEF WorkerRecord
  <2> QED
    BY <1>0, <2>1, <2>2, <2>6, <2>7 DEF DeleteFrees
<1> QED
  BY <1>1, <1>2, <1>3, <1>4 DEF Deleter

-----------------------------------------------------------------------------
(* Each part of the invariant is kept.                                     *)

\* The fields of a typed state.
LEMMA Elements ==
  ASSUME Typed
  PROVE  /\ urls \in Seq(Hosts \cup {Malformed}) /\ Len(urls) \in Nat
         /\ socket \in Seq(Messages) /\ balancer.batch \in Seq(Messages)
         /\ balancer.count \in Nat /\ balancer.run \in BOOLEAN
         /\ \A w \in Workers : /\ workers[w].batch \in Seq(Messages) /\ workers[w].queue \in Seq(Messages)
                               /\ workers[w].request \in Nat /\ workers[w].run \in BOOLEAN
         /\ deleting.before \in Nat /\ deleting.index \in Nat
         /\ deleting.pc \in {"no", "balancer", "stop", "join", "done"}
         /\ \A x \in Messages : x \in Nat
<1>1. balancer \in BalancerRecord /\ deleting \in DeletingRecord
  BY DEF Typed
<1>2. \A w \in Workers : workers[w] \in WorkerRecord
  BY DEF Typed
<1>3. balancer.batch \in Seq(Messages) /\ balancer.count \in Nat /\ balancer.run \in BOOLEAN
  BY <1>1 DEF BalancerRecord
<1>4. /\ deleting.before \in Nat /\ deleting.index \in Nat
      /\ deleting.pc \in {"no", "balancer", "stop", "join", "done"}
  BY <1>1 DEF DeletingRecord
<1>5. \A w \in Workers : /\ workers[w].batch \in Seq(Messages) /\ workers[w].queue \in Seq(Messages)
                         /\ workers[w].request \in Nat /\ workers[w].run \in BOOLEAN
  BY <1>2 DEF WorkerRecord
<1>6. \A x \in Messages : x \in Nat
  BY HttpServiceAssumption DEF Messages, Requests, StopHttp
<1> QED
  BY <1>3, <1>4, <1>5, <1>6 DEF Typed

\* An answer to one request changes nothing of the others.
LEMMA AnswersType ==
  ASSUME Typed, NEW r \in Requests, Answers(r)
  PROVE  /\ answers' \in [Requests -> Seq(0 .. MaxRequests)]
         /\ \A q \in Requests \ {r} : answers'[q] = answers[q]
         /\ answers[r] = <<>> => Len(answers'[r]) = 1
<1>1. PICK x \in 0 .. MaxRequests : answers' = [answers EXCEPT ![r] = Append(answers[r], x)]
  BY DEF Answers, Typed
<1>2. answers \in [Requests -> Seq(0 .. MaxRequests)] /\ answers[r] \in Seq(0 .. MaxRequests)
  BY DEF Typed
<1>3. Append(answers[r], x) \in Seq(0 .. MaxRequests) /\ Len(Append(answers[r], x)) = Len(answers[r]) + 1
  BY <1>2, AppendFacts
<1> QED
  BY <1>1, <1>2, <1>3

\* The request that a worker has at hand.
LEMMA AtHand ==
  ASSUME Typed, NEW w \in Workers
  PROVE  /\ workers[w].batch # <<>> /\ Head(workers[w].batch) # StopHttp
            => Head(workers[w].batch) \in Requests
         /\ workers[w].pc = "request" => workers[w].request \in Requests
<1>1. workers[w] \in WorkerRecord /\ (workers[w].request # 0 <=> workers[w].pc = "request")
  BY DEF Typed
<1>2. workers[w].batch \in Seq(Messages) /\ workers[w].request \in 0 .. MaxRequests
  BY <1>1 DEF WorkerRecord
<1>3. workers[w].batch # <<>> => Head(workers[w].batch) \in Messages
  BY <1>2, TailFacts
<1> QED
  BY <1>1, <1>2, <1>3, HttpServiceAssumption DEF Messages, Requests, StopHttp

\* Every step keeps the types.
LEMMA TypedStep ==
  ASSUME IndInv, [Next]_vars
  PROVE  Typed'
<1>0. Typed /\ DeleteInv /\ LineInv /\ WorkersInv
  BY DEF IndInv
<1>1. CASE UNCHANGED vars
  BY <1>0, <1>1 DEF Typed, vars
<1>2. ASSUME NEW url \in Hosts \cup {Malformed}, Http_Request(url) PROVE Typed'
  <2>1. /\ urls' = Append(urls, url) /\ socket' = Append(socket, Len(urls) + 1) /\ Len(urls) < MaxRequests
        /\ UNCHANGED <<balancer, workers, deleting, answers>>
    BY <1>2 DEF Http_Request
  <2>2. urls' \in Seq(Hosts \cup {Malformed}) /\ Len(urls') = Len(urls) + 1 /\ Len(urls) \in Nat
    BY <1>0, <2>1, AppendFacts DEF Typed
  <2>3. Len(urls) + 1 \in Messages /\ Len(urls') <= MaxRequests
    BY <2>1, <2>2, HttpServiceAssumption DEF Messages, Requests
  <2>4. socket' \in Seq(Messages)
    BY <1>0, <2>1, <2>3, AppendFacts DEF Typed
  <2> QED
    BY <1>0, <2>1, <2>2, <2>3, <2>4 DEF Typed
<1>3. CASE Balancer
  <2>1. /\ UNCHANGED <<urls, deleting, answers>>
        /\ balancer' \in BalancerRecord /\ socket' \in Seq(Messages)
        /\ workers' \in [Workers -> WorkerRecord]
        /\ BalancerTakes \/ BalancerRound \/ BalancerStops \/ BalancerPosts
    BY <1>0, <1>3, BalancerShape
  <2>2. \A w \in Workers : workers'[w].request = workers[w].request /\ workers'[w].pc = workers[w].pc
    BY <2>1 DEF BalancerTakes, BalancerRound, BalancerStops, BalancerPosts, Queued, SameWorkersBut
  <2> QED
    BY <1>0, <2>1, <2>2 DEF Typed
<1>4. ASSUME NEW w \in Workers, Loop(w) \/ Dispatch(w) \/ RequestReturns(w) PROVE Typed'
  <2>1. /\ UNCHANGED <<urls, socket, balancer, deleting>>
        /\ workers' \in [Workers -> WorkerRecord] /\ SameWorkersBut(w)
        /\ WorkerKind(w)
    BY <1>0, <1>4, WorkerShape
  <2>2. /\ workers[w].batch # <<>> /\ Head(workers[w].batch) # StopHttp
            => Head(workers[w].batch) \in Requests
        /\ workers[w].pc = "request" => workers[w].request \in Requests
    BY <1>0, AtHand
  <2>3. answers' \in [Requests -> Seq(0 .. MaxRequests)]
    BY <1>0, <2>1, <2>2, AnswersType
    DEF Typed, WorkerKind, Taken, Round, Stopped, Refused, Begun, Returned
  <2>4. 0 \notin Requests
    BY HttpServiceAssumption DEF Requests
  <2>5. workers'[w].request # 0 <=> workers'[w].pc = "request"
    <3>1. workers[w].request # 0 <=> workers[w].pc = "request"
      BY <1>0 DEF Typed
    <3> QED
      BY <2>1, <2>2, <2>4, <3>1 DEF WorkerKind, Taken, Round, Stopped, Refused, Begun, Returned
  <2>6. \A v \in Workers : workers'[v].request # 0 <=> workers'[v].pc = "request"
    BY <1>0, <2>1, <2>5 DEF Typed, SameWorkersBut
  <2> QED
    BY <1>0, <2>1, <2>3, <2>6 DEF Typed
<1>5. CASE Delete \/ Deleter
  <2>1. /\ UNCHANGED <<urls, balancer, answers>>
        /\ deleting' \in DeletingRecord /\ socket' \in Seq(Messages)
        /\ workers' \in [Workers -> WorkerRecord]
        /\ DeletesBegin \/ DeleteJoins \/ DeleteStops \/ DeleteFrees
    BY <1>0, <1>5, DeleteShape
  <2>2. \A w \in Workers : workers'[w].request # 0 <=> workers'[w].pc = "request"
    BY <1>0, <2>1 DEF Typed, DeletesBegin, DeleteJoins, DeleteStops, DeleteFrees, Queued, SameWorkersBut
  <2> QED
    BY <1>0, <2>1, <2>2 DEF Typed
<1> QED
  BY <1>1, <1>2, <1>3, <1>4, <1>5 DEF Next

\* Every step keeps DeleteInv.
LEMMA DeleteStep ==
  ASSUME IndInv, [Next]_vars
  PROVE  DeleteInv'
<1>0. Typed /\ DeleteInv /\ LineInv /\ WorkersInv
  BY DEF IndInv
<1>e. Len(urls) \in Nat /\ deleting.before \in Nat /\ deleting.index \in Nat
  BY <1>0, Elements
<1>t. ThreadCount \in Nat /\ ThreadCount > 0 /\ Workers = 1 .. ThreadCount
  BY HttpServiceAssumption DEF Workers
<1>1. CASE UNCHANGED vars
  BY <1>0, <1>1 DEF DeleteInv, vars
<1>2. ASSUME NEW url \in Hosts \cup {Malformed}, Http_Request(url) PROVE DeleteInv'
  <2>1. /\ urls' = Append(urls, url) /\ UNCHANGED <<balancer, workers, deleting, answers>>
    BY <1>2 DEF Http_Request
  <2>2. Len(urls') = Len(urls) + 1
    BY <1>0, <2>1, AppendFacts DEF Typed
  <2>3. deleting.before <= Len(urls')
    BY <1>0, <1>e, <2>2 DEF DeleteInv
  <2> QED
    BY <1>0, <2>1, <2>3 DEF DeleteInv
<1>3. CASE Balancer
  <2>1. /\ UNCHANGED <<urls, deleting, answers>>
        /\ BalancerTakes \/ BalancerRound \/ BalancerStops \/ BalancerPosts
    BY <1>0, <1>3, BalancerShape
  <2>2. balancer.pc # "done"
    BY <2>1 DEF BalancerTakes, BalancerRound, BalancerStops, BalancerPosts
  <2> QED
    BY <1>0, <2>1, <2>2 DEF DeleteInv
<1>4. ASSUME NEW w \in Workers, Loop(w) \/ Dispatch(w) \/ RequestReturns(w) PROVE DeleteInv'
  <2>1. /\ UNCHANGED <<urls, socket, balancer, deleting>>
        /\ SameWorkersBut(w) /\ WorkerKind(w)
    BY <1>0, <1>4, WorkerShape
  <2>2. workers[w].pc # "deleted"
    BY <2>1 DEF WorkerKind, Taken, Round, Stopped, Refused, Begun, Returned
  <2>3. \A v \in Workers : workers[v].pc = "deleted" => workers'[v].pc = "deleted"
    BY <2>1, <2>2 DEF SameWorkersBut
  <2> QED
    BY <1>0, <2>1, <2>3 DEF DeleteInv
<1>5. CASE Delete \/ Deleter
  <2>1. /\ UNCHANGED <<urls, balancer, answers>>
        /\ DeletesBegin \/ DeleteJoins \/ DeleteStops \/ DeleteFrees
    BY <1>0, <1>5, DeleteShape
  <2>2. CASE DeletesBegin
    BY <1>0, <1>e, <2>1, <2>2 DEF DeleteInv, DeletesBegin
  <2>3. CASE DeleteJoins
    BY <1>0, <1>e, <1>t, <2>1, <2>3 DEF DeleteInv, DeleteJoins
  <2>4. CASE DeleteStops
    BY <1>0, <1>e, <1>t, <2>1, <2>4 DEF DeleteInv, DeleteStops, Follows
  <2>5. CASE DeleteFrees
    <3>1. \A v \in Workers : workers[v].pc = "deleted" => workers'[v].pc = "deleted"
      BY <2>5 DEF DeleteFrees, SameWorkersBut
    <3>2. \A v \in Workers : v <= deleting.index => workers'[v].pc = "deleted"
      BY <1>0, <1>e, <1>t, <2>5, <3>1 DEF DeleteInv, DeleteFrees
    <3> QED
      BY <1>0, <1>e, <1>t, <2>1, <2>5, <3>2 DEF DeleteInv, DeleteFrees, Follows
  <2> QED
    BY <2>1, <2>2, <2>3, <2>4, <2>5
<1> QED
  BY <1>1, <1>2, <1>3, <1>4, <1>5 DEF Next

\* Every step keeps BalancerInv.
LEMMA BalancerStep ==
  ASSUME IndInv, [Next]_vars
  PROVE  BalancerInv'
<1>0. Typed /\ DeleteInv /\ BalancerInv /\ LineInv /\ WorkersInv
  BY DEF IndInv
<1>e. /\ Len(urls) \in Nat /\ deleting.before \in Nat /\ deleting.before <= Len(urls)
      /\ socket \in Seq(Messages) /\ balancer.batch \in Seq(Messages) /\ Len(socket) \in Nat
      /\ balancer.run \in BOOLEAN /\ StopHttp = 0
      /\ \A x : ~In(<<>>, x)
  BY <1>0, Elements, InEmpty DEF DeleteInv, StopHttp
<1>1. CASE UNCHANGED vars
  BY <1>0, <1>1 DEF BalancerInv, vars
<1>2. ASSUME NEW url \in Hosts \cup {Malformed}, Http_Request(url) PROVE BalancerInv'
  <2>1. /\ socket' = Append(socket, Len(urls) + 1) /\ Len(urls) < MaxRequests
        /\ UNCHANGED <<balancer, workers, deleting, answers>>
    BY <1>2 DEF Http_Request
  <2>2. Len(urls) + 1 \in Messages /\ Len(urls) + 1 # StopHttp /\ Len(urls) + 1 > deleting.before
    BY <1>e, <2>1, HttpServiceAssumption DEF Messages, Requests, StopHttp
  <2>3. /\ Len(socket') = Len(socket) + 1
        /\ \A i \in 1 .. Len(socket) : socket'[i] = socket[i]
        /\ socket'[Len(socket) + 1] = Len(urls) + 1
    BY <1>e, <2>1, <2>2, AppendFacts
  <2>4. In(socket', StopHttp) <=> In(socket, StopHttp)
    BY <1>e, <2>1, <2>2, InAppend
  <2>5. ~balancer.run \/ In(balancer.batch, StopHttp) =>
          \A i \in 1 .. Len(socket') : socket'[i] > deleting.before
    BY SMTT(60), <1>0, <1>e, <2>2, <2>3 DEF BalancerInv
  <2>6. \A i, j \in 1 .. Len(socket') : i < j /\ socket'[i] = StopHttp => socket'[j] > deleting.before
    BY <1>0, <1>e, <2>2, <2>3 DEF BalancerInv
  <2> QED
    BY <1>0, <2>1, <2>4, <2>5, <2>6 DEF BalancerInv
<1>3. CASE Balancer
  <2>1. /\ UNCHANGED <<urls, deleting, answers>>
        /\ BalancerTakes \/ BalancerRound \/ BalancerStops \/ BalancerPosts
    BY <1>0, <1>3, BalancerShape
  <2>2. CASE BalancerTakes
    BY <1>0, <1>e, <2>1, <2>2 DEF BalancerInv, BalancerTakes
  <2>3. CASE BalancerRound
    BY <1>0, <1>e, <2>1, <2>3 DEF BalancerInv, BalancerRound
  <2>4. CASE BalancerStops
    <3>1. In(balancer.batch, StopHttp)
      BY <1>e, <2>4, InTail DEF BalancerStops
    <3> QED
      BY <1>0, <2>1, <2>4, <3>1 DEF BalancerInv, BalancerStops
  <2>5. CASE BalancerPosts
    <3>1. In(balancer'.batch, StopHttp) => In(balancer.batch, StopHttp)
      BY <1>e, <2>5, InTail DEF BalancerPosts
    <3> QED
      BY <1>0, <2>1, <2>5, <3>1 DEF BalancerInv, BalancerPosts
  <2> QED
    BY <2>1, <2>2, <2>3, <2>4, <2>5
<1>4. ASSUME NEW w \in Workers, Loop(w) \/ Dispatch(w) \/ RequestReturns(w) PROVE BalancerInv'
  <2>1. UNCHANGED <<urls, socket, balancer, deleting>>
    BY <1>0, <1>4, WorkerShape
  <2> QED
    BY <1>0, <2>1 DEF BalancerInv
<1>5. CASE Delete \/ Deleter
  <2>1. /\ UNCHANGED <<urls, balancer, answers>>
        /\ DeletesBegin \/ DeleteJoins \/ DeleteStops \/ DeleteFrees
    BY <1>0, <1>5, DeleteShape
  <2>2. CASE DeletesBegin
    <3>1. StopHttp \in Messages
      BY DEF Messages
    <3>2. /\ Len(socket') = Len(socket) + 1
          /\ \A i \in 1 .. Len(socket) : socket'[i] = socket[i]
      BY <1>e, <2>2, <3>1, AppendFacts DEF DeletesBegin
    <3>3. \A i \in 1 .. Len(socket) : socket[i] # StopHttp
      BY <1>0, <2>2 DEF BalancerInv, In, DeletesBegin
    <3>4. \A i, j \in 1 .. Len(socket') : i < j => socket'[i] # StopHttp
      BY SMTT(60), <1>e, <3>2, <3>3
    <3> QED
      BY <1>0, <2>1, <2>2, <3>4 DEF BalancerInv, DeletesBegin
  <2>3. CASE DeleteJoins \/ DeleteStops
    BY <1>0, <1>e, <2>1, <2>3 DEF BalancerInv, DeleteJoins, DeleteStops, Follows
  <2>4. CASE DeleteFrees
    BY <1>0, <1>e, <2>1, <2>4 DEF BalancerInv, DeleteFrees, Follows
  <2> QED
    BY <2>1, <2>2, <2>3, <2>4
<1> QED
  BY <1>1, <1>2, <1>3, <1>4, <1>5 DEF Next

\* Every step keeps LineInv.
LEMMA LineStep ==
  ASSUME IndInv, [Next]_vars
  PROVE  LineInv'
<1>0. Typed /\ DeleteInv /\ BalancerInv /\ LineInv /\ WorkersInv
  BY DEF IndInv
<1>e. /\ Len(urls) \in Nat /\ balancer.count \in Nat /\ urls \in Seq(Hosts \cup {Malformed})
      /\ socket \in Seq(Messages) /\ balancer.batch \in Seq(Messages) /\ Len(socket) \in Nat
      /\ Len(balancer.batch) \in Nat
      /\ \A x \in Messages : x \in Nat
      /\ StopHttp = 0
  BY <1>0, Elements DEF StopHttp
<1>n. /\ \A i \in 1 .. Len(socket) : socket[i] \in Nat
      /\ \A i \in 1 .. Len(balancer.batch) : balancer.batch[i] \in Nat
  BY <1>e
<1>s. Sorted(<<>>)
  BY DEF Sorted
<1>1. CASE UNCHANGED vars
  BY <1>0, <1>1 DEF LineInv, vars
<1>2. ASSUME NEW url \in Hosts \cup {Malformed}, Http_Request(url) PROVE LineInv'
  <2>1. /\ socket' = Append(socket, Len(urls) + 1) /\ Len(urls) < MaxRequests
        /\ urls' = Append(urls, url)
        /\ UNCHANGED <<balancer, workers, deleting, answers>>
    BY <1>2 DEF Http_Request
  <2>2. Len(urls) + 1 \in Messages /\ Len(urls') = Len(urls) + 1
    BY <1>e, <2>1, AppendFacts, HttpServiceAssumption DEF Messages, Requests
  <2>3. /\ Len(socket') = Len(socket) + 1
        /\ \A i \in 1 .. Len(socket) : socket'[i] = socket[i]
        /\ socket'[Len(socket) + 1] = Len(urls) + 1
    BY <1>e, <2>1, <2>2, AppendFacts
  <2>4. \A i \in 1 .. Len(socket) : socket[i] # StopHttp => socket[i] < Len(urls) + 1
    BY <1>0, <1>e, <1>n DEF LineInv
  <2>5. Sorted(socket')
    BY <1>0, <1>e, <2>1, <2>2, <2>4, KeptByAppend DEF LineInv
  <2>6. \A i \in 1 .. Len(balancer.batch), j \in 1 .. Len(socket') :
          balancer.batch[i] # StopHttp /\ socket'[j] # StopHttp => balancer.batch[i] < socket'[j]
    <3> SUFFICES ASSUME NEW i \in 1 .. Len(balancer.batch), NEW j \in 1 .. Len(socket'),
                        balancer.batch[i] # StopHttp, socket'[j] # StopHttp
                 PROVE  balancer.batch[i] < socket'[j]
      OBVIOUS
    <3>1. CASE j \in 1 .. Len(socket)
      BY <1>0, <2>3, <3>1 DEF LineInv
    <3>2. CASE j = Len(socket) + 1
      <4>1. balancer.batch[i] <= Len(urls) /\ balancer.batch[i] \in Nat
        BY <1>0, <1>n DEF LineInv
      <4> QED
        BY SMTT(60), <1>e, <2>3, <3>2, <4>1
    <3> QED
      BY SMTT(60), <1>e, <2>3, <3>1, <3>2
  <2>7. \A i \in 1 .. Len(balancer.batch) : balancer.batch[i] # StopHttp =>
          balancer.count < balancer.batch[i] /\ balancer.batch[i] <= Len(urls')
    BY SMTT(60), <1>0, <1>e, <1>n, <2>2 DEF LineInv
  <2>8. \A i \in 1 .. Len(socket') : socket'[i] # StopHttp =>
          balancer.count < socket'[i] /\ socket'[i] <= Len(urls')
    <3> SUFFICES ASSUME NEW i \in 1 .. Len(socket'), socket'[i] # StopHttp
                 PROVE  balancer.count < socket'[i] /\ socket'[i] <= Len(urls')
      OBVIOUS
    <3>1. CASE i \in 1 .. Len(socket)
      BY SMTT(60), <1>0, <1>e, <1>n, <2>2, <2>3, <3>1 DEF LineInv
    <3>2. CASE i = Len(socket) + 1
      BY <1>0, <1>e, <2>2, <2>3, <3>2 DEF LineInv
    <3> QED
      BY <1>e, <2>3, <3>1, <3>2
  <2>9. balancer.count <= Len(urls')
    BY <1>0, <1>e, <2>2 DEF LineInv
  <2> QED
    BY <1>0, <2>1, <2>5, <2>6, <2>7, <2>8, <2>9 DEF LineInv
<1>3. CASE Balancer
  <2>1. /\ UNCHANGED <<urls, deleting, answers>>
        /\ BalancerTakes \/ BalancerRound \/ BalancerStops \/ BalancerPosts
    BY <1>0, <1>3, BalancerShape
  <2>2. CASE BalancerTakes
    BY <1>0, <1>s, <2>1, <2>2 DEF LineInv, BalancerTakes
  <2>3. CASE BalancerRound
    BY <1>0, <2>1, <2>3 DEF LineInv, BalancerRound
  <2>4. ASSUME balancer.batch # <<>>, balancer'.batch = Tail(balancer.batch), socket' = socket,
               \/ Head(balancer.batch) = StopHttp /\ balancer'.count = balancer.count
               \/ Head(balancer.batch) # StopHttp /\ balancer'.count = balancer.count + 1
        PROVE  LineInv'
    <3> DEFINE b == balancer.batch
    <3>1. /\ Head(b) = b[1] /\ 1 \in 1 .. Len(b)
          /\ Len(Tail(b)) = Len(b) - 1 /\ \A i \in 1 .. Len(b) - 1 : Tail(b)[i] = b[i + 1]
      BY <1>e, <2>4, TailFacts
    <3>2. Sorted(Tail(b))
      BY <1>0, <1>e, <2>4, InTail DEF LineInv
    <3>3. \A i \in 1 .. Len(Tail(b)) : i + 1 \in 1 .. Len(b) /\ Tail(b)[i] = b[i + 1] /\ 1 < i + 1
      BY <1>e, <3>1
    <3>4. \A i \in 1 .. Len(Tail(b)), j \in 1 .. Len(socket) :
            Tail(b)[i] # StopHttp /\ socket[j] # StopHttp => Tail(b)[i] < socket[j]
      BY <1>0, <3>3 DEF LineInv
    <3>5. Head(b) = StopHttp \/ balancer.count + 1 <= b[1]
      BY <1>0, <1>e, <1>n, <3>1 DEF LineInv
    <3>6. ASSUME NEW i \in 1 .. Len(Tail(b)), Tail(b)[i] # StopHttp
          PROVE  balancer'.count < Tail(b)[i] /\ Tail(b)[i] <= Len(urls)
      <4>1. b[i + 1] \in Nat /\ balancer.count < b[i + 1] /\ b[i + 1] <= Len(urls) /\ b[1] \in Nat
        BY <1>0, <1>n, <3>1, <3>3, <3>6 DEF LineInv
      <4>2. b[1] # StopHttp => b[1] < b[i + 1]
        BY <1>0, <3>1, <3>3, <3>6 DEF LineInv, Sorted
      <4> QED
        BY <1>e, <2>4, <3>1, <3>3, <3>5, <4>1, <4>2
    <3>7. ASSUME NEW j \in 1 .. Len(socket), socket[j] # StopHttp
          PROVE  balancer'.count < socket[j] /\ socket[j] <= Len(urls)
      <4>1. socket[j] \in Nat /\ balancer.count < socket[j] /\ socket[j] <= Len(urls) /\ b[1] \in Nat
        BY <1>0, <1>n, <3>1, <3>7 DEF LineInv
      <4>2. b[1] # StopHttp => b[1] < socket[j]
        BY <1>0, <3>1, <3>7 DEF LineInv
      <4> QED
        BY SMTT(60), <1>e, <2>4, <3>1, <3>5, <4>1, <4>2
    <3>8. balancer'.count <= Len(urls)
      <4>1. b[1] # StopHttp => b[1] <= Len(urls) /\ b[1] \in Nat
        BY <1>0, <1>n, <3>1 DEF LineInv
      <4>2. balancer.count <= Len(urls)
        BY <1>0 DEF LineInv
      <4> QED
        BY <1>e, <2>4, <3>1, <3>5, <4>1, <4>2
    <3> QED
      BY <1>0, <2>1, <2>4, <3>2, <3>4, <3>6, <3>7, <3>8 DEF LineInv
  <2> QED
    BY <2>1, <2>2, <2>3, <2>4 DEF BalancerStops, BalancerPosts
<1>4. ASSUME NEW w \in Workers, Loop(w) \/ Dispatch(w) \/ RequestReturns(w) PROVE LineInv'
  <2>1. UNCHANGED <<urls, socket, balancer, deleting>>
    BY <1>0, <1>4, WorkerShape
  <2> QED
    BY <1>0, <2>1 DEF LineInv
<1>5. CASE Delete \/ Deleter
  <2>1. /\ UNCHANGED <<urls, balancer, answers>>
        /\ DeletesBegin \/ DeleteJoins \/ DeleteStops \/ DeleteFrees
    BY <1>0, <1>5, DeleteShape
  <2>2. CASE DeletesBegin
    <3>1. StopHttp \in Messages
      BY DEF Messages
    <3>2. /\ Len(socket') = Len(socket) + 1
          /\ \A i \in 1 .. Len(socket) : socket'[i] = socket[i]
          /\ socket'[Len(socket) + 1] = StopHttp
      BY <1>e, <2>2, <3>1, AppendFacts DEF DeletesBegin
    <3>3. Sorted(socket')
      BY <1>0, <1>e, <2>2, <3>1, KeptByAppend DEF LineInv, DeletesBegin
    <3>4. \A i \in 1 .. Len(socket') : socket'[i] # StopHttp => i \in 1 .. Len(socket) /\ socket'[i] = socket[i]
      BY <1>e, <3>2
    <3> QED
      BY <1>0, <2>1, <2>2, <3>3, <3>4 DEF LineInv
  <2>3. CASE socket' = socket
    BY <1>0, <2>1, <2>3 DEF LineInv
  <2>4. CASE socket' = <<>>
    BY <1>0, <1>s, <2>1, <2>4 DEF LineInv
  <2> QED
    BY <2>1, <2>2, <2>3, <2>4 DEF DeleteJoins, DeleteStops, DeleteFrees
<1> QED
  BY <1>1, <1>2, <1>3, <1>4, <1>5 DEF Next

\* What is sorted holds nothing twice.
LEMMA SortedNoDup ==
  ASSUME NEW s \in Seq(Messages), Sorted(s)
  PROVE  NoDup(s)
<1> SUFFICES ASSUME NEW i \in 1 .. Len(s), NEW j \in 1 .. Len(s), s[i] = s[j], s[i] # StopHttp
             PROVE  i = j
  BY DEF NoDup
<1>1. s[i] \in Nat /\ s[j] \in Nat
  BY HttpServiceAssumption DEF Messages, Requests, StopHttp
<1>2. ~(s[i] < s[j]) /\ ~(s[j] < s[i])
  BY <1>1
<1>3. ~(i < j) /\ ~(j < i)
  BY <1>2 DEF Sorted
<1> QED
  BY <1>3

\* A request in the balancer's batch is in no worker's line.
LEMMA BalancedElsewhere ==
  ASSUME IndInv, balancer.batch # <<>>, Head(balancer.batch) # StopHttp
  PROVE  /\ Head(balancer.batch) \in 1 .. Len(urls) /\ Head(balancer.batch) \in Messages
         /\ \A w \in Workers : ~In(workers[w].queue, Head(balancer.batch))
<1>0. Typed /\ LineInv /\ PlaceInv
  BY DEF IndInv
<1>1. balancer.batch \in Seq(Messages) /\ \A x \in Messages : x \in Nat
  BY <1>0, Elements
<1>2. /\ Head(balancer.batch) = balancer.batch[1] /\ 1 \in 1 .. Len(balancer.batch)
      /\ Head(balancer.batch) \in Messages /\ In(balancer.batch, Head(balancer.batch))
  BY <1>1, TailFacts, InTail
<1>3. Head(balancer.batch) <= Len(urls)
  BY <1>0, <1>2 DEF LineInv
<1>4. Len(urls) \in Nat
  BY <1>0, Elements
<1>5. Head(balancer.batch) \in 1 .. Len(urls)
  BY <1>1, <1>2, <1>3, <1>4 DEF StopHttp
<1>6. PICK p \in Places, v \in Workers : LocatedAt(Head(balancer.batch), p, v)
  BY <1>0, <1>5 DEF PlaceInv
<1>7. p = "balancer"
  BY <1>2, <1>6 DEF LocatedAt
<1> QED
  BY <1>2, <1>5, <1>6, <1>7 DEF LocatedAt

\* Every step keeps WorkersInv.
LEMMA WorkersStep ==
  ASSUME IndInv, [Next]_vars
  PROVE  WorkersInv'
<1>0. Typed /\ DeleteInv /\ BalancerInv /\ LineInv /\ WorkersInv
  BY DEF IndInv
<1>e. /\ \A w \in Workers : /\ workers[w].batch \in Seq(Messages) /\ workers[w].queue \in Seq(Messages)
                            /\ workers[w].run \in BOOLEAN
      /\ deleting.index \in Nat /\ deleting.pc \in {"no", "balancer", "stop", "join", "done"}
      /\ \A x : ~In(<<>>, x)
      /\ StopHttp \in Messages
  BY <1>0, Elements, InEmpty DEF Messages
<1>n. NoDup(<<>>) /\ StopLast(<<>>)
  BY DEF NoDup, StopLast
<1>k. ASSUME NEW v \in Workers, workers'[v] = workers[v], deleting' = deleting PROVE WorkerInv(v)'
  BY <1>0, <1>k DEF WorkersInv, WorkerInv, Told
<1>t. ThreadCount \in Nat /\ ThreadCount > 0 /\ Workers = 1 .. ThreadCount
  BY HttpServiceAssumption DEF Workers
<1>1. CASE UNCHANGED <<workers, deleting>>
  BY <1>1, <1>k DEF WorkersInv
<1>2. CASE Balancer
  <2>1. /\ deleting' = deleting
        /\ BalancerTakes \/ BalancerRound \/ BalancerStops \/ BalancerPosts
    BY <1>0, <1>2, BalancerShape
  <2>2. CASE BalancerPosts
    <3> DEFINE r == Head(balancer.batch)
    <3>1. PICK w \in Workers : Queued(w, r)
      BY <2>2 DEF BalancerPosts
    <3>2. r \in Messages /\ r # StopHttp /\ ~In(workers[w].queue, r)
      BY <2>2, BalancedElsewhere DEF BalancerPosts
    <3>3. ~Told(w) /\ balancer.pc = "dispatch"
      BY <1>0, <2>2 DEF BalancerPosts, Told, DeleteInv
    <3>4. WorkerInv(w) /\ workers[w].queue \in Seq(Messages)
      BY <1>0, <1>e DEF WorkersInv
    <3>5. NoDup(Append(workers[w].queue, r)) /\ StopLast(Append(workers[w].queue, r))
      BY <3>2, <3>3, <3>4, KeptByAppend DEF WorkerInv
    <3>6. ~In(Append(workers[w].queue, r), StopHttp)
      BY <3>2, <3>3, <3>4, InAppend DEF WorkerInv
    <3> HIDE DEF r
    <3>7. WorkerInv(w)'
      BY <2>1, <3>1, <3>3, <3>4, <3>5, <3>6 DEF WorkerInv, Queued, Told
    <3> QED
      BY <1>k, <2>1, <3>1, <3>7 DEF WorkersInv, Queued, SameWorkersBut
  <2> QED
    BY <1>k, <2>1, <2>2 DEF WorkersInv, BalancerTakes, BalancerRound, BalancerStops
<1>3. ASSUME NEW w \in Workers, Loop(w) \/ Dispatch(w) \/ RequestReturns(w) PROVE WorkersInv'
  <2>1. /\ deleting' = deleting /\ SameWorkersBut(w) /\ WorkerKind(w)
    BY <1>0, <1>3, WorkerShape
  <2>2. WorkerInv(w) /\ workers[w].batch \in Seq(Messages) /\ workers[w].queue \in Seq(Messages)
    BY <1>0, <1>e DEF WorkersInv
  <2>3. Told(w)' <=> Told(w)
    BY <2>1 DEF Told
  <2>4. workers[w].batch # <<>> =>
         /\ In(workers[w].batch, Head(workers[w].batch))
         /\ In(Tail(workers[w].batch), StopHttp) => In(workers[w].batch, StopHttp)
         /\ NoDup(Tail(workers[w].batch)) /\ StopLast(Tail(workers[w].batch))
         /\ Head(workers[w].batch) = StopHttp => Tail(workers[w].batch) = <<>>
    BY <2>2, InTail DEF WorkerInv
  <2>10. WorkerInv(w)'
    <3>5. CASE Taken(w)
      BY <1>e, <1>n, <2>1, <2>2, <2>3, <3>5 DEF WorkerInv, Taken
    <3>6. CASE Round(w)
      BY <1>e, <2>1, <2>2, <2>3, <3>6 DEF WorkerInv, Round
    <3>7. CASE Stopped(w)
      BY <1>e, <1>n, <2>1, <2>2, <2>3, <2>4, <3>7 DEF WorkerInv, Stopped
    <3>8. CASE Refused(w) \/ Begun(w)
      BY <1>e, <2>1, <2>2, <2>3, <2>4, <3>8 DEF WorkerInv, Refused, Begun
    <3>9. CASE Returned(w)
      BY <1>e, <2>1, <2>2, <2>3, <3>9 DEF WorkerInv, Returned
    <3> QED
      BY <2>1, <3>5, <3>6, <3>7, <3>8, <3>9 DEF WorkerKind
  <2> QED
    BY <1>k, <2>1, <2>10 DEF WorkersInv, SameWorkersBut
<1>4. CASE Delete \/ Deleter
  <2>1. DeletesBegin \/ DeleteJoins \/ DeleteStops \/ DeleteFrees
    BY <1>0, <1>4, DeleteShape
  <2>2. CASE DeletesBegin \/ DeleteJoins
    <3>1. \A w \in Workers : ~Told(w)
      BY <2>2 DEF Told, DeletesBegin, DeleteJoins
    <3>2. workers' = workers /\ deleting.pc \notin {"join", "done"}
      BY <2>2 DEF DeletesBegin, DeleteJoins
    <3> QED
      BY <1>0, <3>1, <3>2 DEF WorkersInv, WorkerInv
  <2>3. CASE DeleteStops
    <3>0. PICK w \in Workers : w = deleting.index
      BY <1>0, <2>3 DEF DeleteStops, DeleteInv
    <3>1. w \in Workers /\ ~Told(w) /\ Queued(w, StopHttp) /\ deleting.pc = "stop"
      BY <1>e, <2>3, <3>0 DEF DeleteStops, Told
    <3>2. Told(w)' /\ \A v \in Workers : Told(v) => Told(v)'
      BY <1>e, <1>t, <2>3, <3>0, <3>1 DEF DeleteStops, Follows, Told
    <3>3. WorkerInv(w) /\ workers[w].queue \in Seq(Messages)
      BY <1>0, <1>e, <3>1 DEF WorkersInv
    <3>4. NoDup(Append(workers[w].queue, StopHttp)) /\ StopLast(Append(workers[w].queue, StopHttp))
      BY <1>e, <3>1, <3>3, KeptByAppend DEF WorkerInv
    <3>5. WorkerInv(w)'
      BY <3>1, <3>2, <3>3, <3>4 DEF WorkerInv, Queued
    <3>6. ASSUME NEW v \in Workers \ {w} PROVE WorkerInv(v)'
      <4>1. workers'[v] = workers[v] /\ WorkerInv(v) /\ workers[v].pc # "deleted"
        BY <1>0, <3>1 DEF WorkersInv, WorkerInv, Queued, SameWorkersBut
      <4> QED
        BY <3>2, <4>1 DEF WorkerInv
    <3> QED
      BY <3>5, <3>6 DEF WorkersInv
  <2>4. CASE DeleteFrees
    <3>0. PICK w \in Workers : w = deleting.index
      BY <1>0, <2>4 DEF DeleteFrees, DeleteInv
    <3>1. w \in Workers /\ deleting.pc = "join" /\ deleting'.pc \in {"join", "done"}
      BY <2>4, <3>0 DEF DeleteFrees, Follows
    <3>2. \A v \in Workers : Told(v) /\ Told(v)'
      BY <3>1 DEF Told
    <3>3. WorkerInv(w)'
      BY <1>0, <2>4, <3>0, <3>1, <3>2 DEF WorkersInv, WorkerInv, DeleteFrees
    <3>4. ASSUME NEW v \in Workers \ {w} PROVE WorkerInv(v)'
      <4>1. workers'[v] = workers[v] /\ WorkerInv(v)
        BY <1>0, <2>4, <3>0 DEF WorkersInv, DeleteFrees, SameWorkersBut
      <4> QED
        BY <3>1, <3>2, <4>1 DEF WorkerInv
    <3> QED
      BY <3>3, <3>4 DEF WorkersInv
  <2> QED
    BY <2>1, <2>2, <2>3, <2>4
<1> QED
  BY <1>1, <1>2, <1>3, <1>4 DEF Next, Http_Request, vars

\* Every step keeps PlaceInv: a request moves from one place to the next.
LEMMA PlaceStep ==
  ASSUME IndInv, [Next]_vars
  PROVE  PlaceInv'
<1>0. Typed /\ DeleteInv /\ BalancerInv /\ LineInv /\ WorkersInv /\ PlaceInv
  BY DEF IndInv
<1>e. /\ \A w \in Workers : /\ workers[w].batch \in Seq(Messages) /\ workers[w].queue \in Seq(Messages)
                            /\ workers[w].request \in Nat
      /\ Len(urls) \in Nat /\ urls \in Seq(Hosts \cup {Malformed}) /\ Len(urls) <= MaxRequests
      /\ socket \in Seq(Messages) /\ balancer.batch \in Seq(Messages)
      /\ \A x : ~In(<<>>, x)
      /\ StopHttp \in Messages
  BY <1>0, Elements, InEmpty DEF Messages, Typed
<1>r. 1 .. Len(urls) \subseteq Requests /\ \A r \in Requests : r \in Nat /\ r # StopHttp /\ r \in Messages
  BY <1>e, HttpServiceAssumption DEF Requests, StopHttp, Messages
<1>d. deleting.pc = "done" => balancer.pc = "done" /\ \A w \in Workers : workers[w].pc = "deleted"
  BY <1>0 DEF DeleteInv
<1>h. \A s \in Seq(Messages) : s # <<>> =>
        /\ In(s, Head(s))
        /\ \A y : y # Head(s) => (In(Tail(s), y) <=> In(s, y))
        /\ NoDup(s) /\ Head(s) # StopHttp => ~In(Tail(s), Head(s))
  BY InTail
<1>1. CASE UNCHANGED vars
  BY <1>0, <1>1 DEF PlaceInv, LocatedAt, vars
<1>2. ASSUME NEW url \in Hosts \cup {Malformed}, Http_Request(url) PROVE PlaceInv'
  <2>1. /\ socket' = Append(socket, Len(urls) + 1) /\ Len(urls) < MaxRequests
        /\ urls' = Append(urls, url) /\ deleting.pc # "done"
        /\ UNCHANGED <<balancer, workers, deleting, answers>>
    BY <1>2 DEF Http_Request
  <2>2. Len(urls) + 1 \in Requests /\ Len(urls) + 1 \in Messages /\ Len(urls') = Len(urls) + 1
    BY <1>e, <2>1, AppendFacts, HttpServiceAssumption DEF Messages, Requests
  <2>3. \A y : In(socket', y) <=> In(socket, y) \/ y = Len(urls) + 1
    BY <1>e, <2>1, <2>2, InAppend
  <2>4. ASSUME NEW r \in 1 .. Len(urls)
        PROVE  \E p \in Places, v \in Workers : LocatedAt(r, p, v)'
    <3>1. PICK p \in Places, v \in Workers : LocatedAt(r, p, v)
      BY <1>0 DEF PlaceInv
    <3>2. r # Len(urls) + 1
      BY <1>e
    <3>3. LocatedAt(r, p, v)'
      BY <2>1, <2>3, <3>1, <3>2 DEF LocatedAt
    <3> QED
      BY <3>3
  <2>5. PICK q \in Requests : q = Len(urls) + 1
    BY <2>2
  <2>6. /\ answers[q] = <<>>
        /\ \A w \in Workers : /\ ~In(workers[w].queue, q) /\ ~In(workers[w].batch, q)
                              /\ workers[w].request # q
    BY <1>0, <1>e, <2>5 DEF PlaceInv
  <2>7. ~In(balancer.batch, q)
    <3> SUFFICES ASSUME NEW i \in 1 .. Len(balancer.batch), balancer.batch[i] = q PROVE FALSE
      BY DEF In
    <3>1. q <= Len(urls)
      BY <1>0, <1>r DEF LineInv
    <3> QED
      BY <1>e, <2>5, <3>1
  <2>8. LocatedAt(q, "socket", 1)'
    BY <2>1, <2>3, <2>5, <2>6, <2>7 DEF LocatedAt
  <2>9. 1 \in Workers /\ "socket" \in Places
    BY HttpServiceAssumption DEF Workers, Places
  <2>10. \A r \in 1 .. Len(urls') : \E p \in Places, v \in Workers : LocatedAt(r, p, v)'
    BY <1>e, <2>2, <2>4, <2>5, <2>8, <2>9
  <2>11. \A r \in Requests : r > Len(urls') => r > Len(urls)
    BY <1>e, <1>r, <2>2
  <2> QED
    BY <1>0, <2>1, <2>10, <2>11 DEF PlaceInv
<1>3. CASE Balancer
  <2>1. /\ UNCHANGED <<urls, deleting, answers>>
        /\ BalancerTakes \/ BalancerRound \/ BalancerStops \/ BalancerPosts
    BY <1>0, <1>3, BalancerShape
  <2>2. deleting.pc # "done"
    BY <1>d, <2>1 DEF BalancerTakes, BalancerRound, BalancerStops, BalancerPosts
  <2>3. CASE BalancerTakes
    <3>1. /\ balancer'.batch = socket /\ socket' = <<>> /\ workers' = workers
          /\ balancer.batch = <<>>
      BY <1>0, <2>3 DEF BalancerTakes, BalancerInv
    <3>2. ASSUME NEW r \in 1 .. Len(urls)
          PROVE  \E p \in Places, v \in Workers : LocatedAt(r, p, v)'
      <4>1. PICK p \in Places, v \in Workers : LocatedAt(r, p, v)
        BY <1>0 DEF PlaceInv
      <4>2. CASE p = "socket"
        <5>1. LocatedAt(r, "balancer", v)' /\ "balancer" \in Places
          BY <1>e, <2>1, <3>1, <4>1, <4>2 DEF LocatedAt, Places
        <5> QED
          BY <5>1
      <4>3. CASE p # "socket"
        <5>1. LocatedAt(r, p, v)'
          BY <1>e, <2>1, <3>1, <4>1, <4>3 DEF LocatedAt
        <5> QED
          BY <5>1
      <4> QED
        BY <4>2, <4>3
    <3> QED
      BY <1>0, <2>1, <3>1, <3>2 DEF PlaceInv
  <2>4. CASE BalancerRound
    BY <1>0, <2>1, <2>4 DEF BalancerRound, PlaceInv, LocatedAt
  <2>5. CASE BalancerStops
    <3>1. \A r \in Requests : In(balancer'.batch, r) <=> In(balancer.batch, r)
      BY <1>e, <1>h, <1>r, <2>5 DEF BalancerStops
    <3>2. ASSUME NEW r \in 1 .. Len(urls), NEW p \in Places, NEW v \in Workers, LocatedAt(r, p, v)
          PROVE  LocatedAt(r, p, v)'
      BY <1>r, <2>1, <2>5, <3>1, <3>2 DEF BalancerStops, LocatedAt
    <3> QED
      BY <1>0, <2>1, <2>5, <3>2 DEF BalancerStops, PlaceInv
  <2>6. CASE BalancerPosts
    <3>1. PICK h : h = Head(balancer.batch)
      OBVIOUS
    <3>2. /\ balancer.batch # <<>> /\ h # StopHttp /\ balancer'.batch = Tail(balancer.batch)
          /\ socket' = socket
      BY <2>6, <3>1 DEF BalancerPosts
    <3>3. PICK w \in Workers : Queued(w, h)
      BY <2>6, <3>1 DEF BalancerPosts
    <3>4. h \in 1 .. Len(urls) /\ h \in Messages
      BY <3>1, <3>2, BalancedElsewhere
    <3>5. NoDup(balancer.batch)
      BY <1>0, <1>e, SortedNoDup DEF LineInv
    <3>6. /\ In(balancer.batch, h) /\ ~In(balancer'.batch, h)
          /\ \A y : y # h => (In(balancer'.batch, y) <=> In(balancer.batch, y))
      BY <1>e, <1>h, <3>1, <3>2, <3>5
    <3>7. /\ \A y : In(workers'[w].queue, y) <=> In(workers[w].queue, y) \/ y = h
          /\ workers'[w].batch = workers[w].batch /\ workers'[w].request = workers[w].request
          /\ \A v \in Workers \ {w} : workers'[v] = workers[v]
      BY <1>e, <3>3, <3>4, InAppend DEF Queued, SameWorkersBut
    <3>8. ASSUME NEW r \in 1 .. Len(urls)
          PROVE  \E p \in Places, v \in Workers : LocatedAt(r, p, v)'
      <4>1. PICK p \in Places, v \in Workers : LocatedAt(r, p, v)
        BY <1>0 DEF PlaceInv
      <4>2. CASE r = h
        <5>1. p = "balancer"
          BY <3>6, <4>1, <4>2 DEF LocatedAt
        <5>2. LocatedAt(r, "queue", w)' /\ "queue" \in Places
          BY <2>1, <3>2, <3>6, <3>7, <4>1, <4>2, <5>1 DEF LocatedAt, Places
        <5> QED
          BY <5>2
      <4>3. CASE r # h
        <5>1. LocatedAt(r, p, v)'
          BY <2>1, <3>2, <3>6, <3>7, <4>1, <4>3 DEF LocatedAt
        <5> QED
          BY <5>1
      <4> QED
        BY <4>2, <4>3
    <3>9. \A r \in Requests : r > Len(urls) => r # h
      BY <1>e, <1>r, <3>4
    <3> QED
      BY <1>0, <2>1, <3>7, <3>8, <3>9 DEF PlaceInv
  <2> QED
    BY <2>1, <2>3, <2>4, <2>5, <2>6
<1>4. ASSUME NEW w \in Workers, Loop(w) \/ Dispatch(w) \/ RequestReturns(w) PROVE PlaceInv'
  <2>1. /\ UNCHANGED <<urls, socket, balancer, deleting>>
        /\ \A v \in Workers \ {w} : workers'[v] = workers[v]
        /\ WorkerKind(w)
    BY <1>0, <1>4, WorkerShape DEF SameWorkersBut
  <2>2. WorkerInv(w) /\ workers[w].batch \in Seq(Messages) /\ workers[w].queue \in Seq(Messages)
    BY <1>0, <1>e DEF WorkersInv
  <2>3. deleting.pc # "done"
    BY <1>d, <2>1 DEF WorkerKind, Taken, Round, Stopped, Refused, Begun, Returned
  <2>4. workers[w].request # 0 <=> workers[w].pc = "request"
    BY <1>0 DEF Typed
  <2>5. ASSUME NEW h \in Requests,
               In(workers[w].batch, h) \/ workers[w].request = h
        PROVE  h \in 1 .. Len(urls)
    BY <1>0, <1>e, <1>r, <2>5, HttpServiceAssumption DEF PlaceInv, Requests
  <2>6. CASE Taken(w)
    <3>1. workers[w].batch = <<>>
      BY <2>2, <2>6 DEF WorkerInv, Taken
    <3>2. ASSUME NEW r \in 1 .. Len(urls)
          PROVE  \E p \in Places, v \in Workers : LocatedAt(r, p, v)'
      <4>1. PICK p \in Places, v \in Workers : LocatedAt(r, p, v)
        BY <1>0 DEF PlaceInv
      <4>2. CASE p = "queue" /\ v = w
        <5>1. LocatedAt(r, "batch", w)' /\ "batch" \in Places
          BY <1>e, <2>1, <2>6, <3>1, <4>1, <4>2 DEF LocatedAt, Places, Taken
        <5> QED
          BY <5>1
      <4>3. CASE ~(p = "queue" /\ v = w)
        <5>1. LocatedAt(r, p, v)'
          BY <1>e, <2>1, <2>6, <3>1, <4>1, <4>3 DEF LocatedAt, Taken
        <5> QED
          BY <5>1
      <4> QED
        BY <4>2, <4>3
    <3> QED
      BY SMTT(60), <1>0, <1>e, <2>1, <2>6, <3>2 DEF PlaceInv, Taken
  <2>7. CASE Round(w)
    BY <1>0, <2>1, <2>7 DEF Round, PlaceInv, LocatedAt
  <2>8. CASE Stopped(w)
    <3>1. \A r \in Requests : In(workers'[w].batch, r) <=> In(workers[w].batch, r)
      BY <1>h, <1>r, <2>2, <2>8 DEF Stopped
    <3>2. ASSUME NEW r \in 1 .. Len(urls), NEW p \in Places, NEW v \in Workers, LocatedAt(r, p, v)
          PROVE  LocatedAt(r, p, v)'
      BY <1>r, <2>1, <2>8, <3>1, <3>2 DEF Stopped, LocatedAt
    <3> QED
      BY <1>0, <1>r, <2>1, <2>8, <3>1, <3>2 DEF Stopped, PlaceInv
  <2>9. CASE Refused(w) \/ Begun(w)
    <3>1. PICK h \in Requests : h = Head(workers[w].batch)
      BY <1>0, <2>9, AtHand DEF Refused, Begun
    <3>2. /\ workers[w].batch # <<>> /\ workers'[w].batch = Tail(workers[w].batch)
          /\ workers'[w].queue = workers[w].queue /\ workers[w].request = 0
      BY <2>4, <2>9 DEF Refused, Begun
    <3>3. /\ In(workers[w].batch, h) /\ ~In(workers'[w].batch, h)
          /\ \A y : y # h => (In(workers'[w].batch, y) <=> In(workers[w].batch, y))
      BY <1>h, <1>r, <2>2, <3>1, <3>2 DEF WorkerInv
    <3>4. h \in 1 .. Len(urls)
      BY <2>5, <3>3
    <3>5. PICK p0 \in Places, v0 \in Workers : LocatedAt(h, p0, v0)
      BY <1>0, <3>4 DEF PlaceInv
    <3>6. p0 = "batch" /\ v0 = w /\ answers[h] = <<>>
      BY <3>3, <3>5 DEF LocatedAt
    <3>7. \A r \in Requests : r # h => answers'[r] = answers[r]
      BY <1>0, <2>9, <3>1, AnswersType DEF Refused, Begun
    <3>8. \A r \in Requests : r # h => (workers'[w].request = r <=> workers[w].request = r)
      <4>1. 0 \notin Requests
        BY HttpServiceAssumption DEF Requests
      <4> QED
        BY <2>9, <3>1, <3>2, <4>1 DEF Refused, Begun
    <3>9. \E p \in Places, v \in Workers : LocatedAt(h, p, v)'
      <4>1. CASE Refused(w)
        <5>1. Len(answers'[h]) = 1
          BY <1>0, <3>1, <3>6, <4>1, AnswersType DEF Refused
        <5>2. workers'[w].request = workers[w].request
          BY <4>1 DEF Refused
        <5>3. LocatedAt(h, "answered", w)' /\ "answered" \in Places
          BY <2>1, <3>2, <3>3, <3>5, <3>6, <5>1, <5>2 DEF LocatedAt, Places
        <5> QED
          BY <5>3
      <4>2. CASE Begun(w)
        <5>1. answers' = answers /\ workers'[w].request = h
          BY <3>1, <4>2 DEF Begun
        <5>2. LocatedAt(h, "request", w)' /\ "request" \in Places
          BY <2>1, <3>2, <3>3, <3>5, <3>6, <5>1 DEF LocatedAt, Places
        <5> QED
          BY <5>2
      <4> QED
        BY <2>9, <4>1, <4>2
    <3>10. ASSUME NEW r \in 1 .. Len(urls), r # h
           PROVE  \E p \in Places, v \in Workers : LocatedAt(r, p, v)'
      <4>1. PICK p \in Places, v \in Workers : LocatedAt(r, p, v)
        BY <1>0 DEF PlaceInv
      <4>2. LocatedAt(r, p, v)'
        BY <1>r, <2>1, <3>2, <3>3, <3>7, <3>8, <3>10, <4>1 DEF LocatedAt
      <4> QED
        BY <4>2
    <3>11. \A r \in Requests : r > Len(urls) => r # h
      BY <1>e, <1>r, <3>4
    <3> QED
      BY <1>0, <1>r, <2>1, <3>2, <3>3, <3>7, <3>8, <3>9, <3>10, <3>11 DEF PlaceInv
  <2>10. CASE Returned(w)
    <3>1. PICK h \in Requests : h = workers[w].request
      BY <1>0, <2>10, AtHand DEF Returned
    <3>2. /\ workers'[w].batch = workers[w].batch /\ workers'[w].queue = workers[w].queue
          /\ workers'[w].request = 0 /\ Answers(h)
      BY <2>10, <3>1 DEF Returned
    <3>3. h \in 1 .. Len(urls) /\ 0 \notin Requests
      BY <2>5, <3>1, HttpServiceAssumption DEF Requests
    <3>4. PICK p0 \in Places, v0 \in Workers : LocatedAt(h, p0, v0)
      BY <1>0, <3>3 DEF PlaceInv
    <3>5. p0 = "request" /\ v0 = w /\ answers[h] = <<>>
      BY <3>1, <3>4 DEF LocatedAt
    <3>6. /\ Len(answers'[h]) = 1
          /\ \A r \in Requests : r # h => answers'[r] = answers[r]
      BY <1>0, <3>2, <3>5, AnswersType
    <3>7. \E p \in Places, v \in Workers : LocatedAt(h, p, v)'
      <4>1. LocatedAt(h, "answered", w)' /\ "answered" \in Places
        BY <2>1, <3>2, <3>3, <3>4, <3>5, <3>6 DEF LocatedAt, Places
      <4> QED
        BY <4>1
    <3>8. ASSUME NEW r \in 1 .. Len(urls), r # h
          PROVE  \E p \in Places, v \in Workers : LocatedAt(r, p, v)'
      <4>1. PICK p \in Places, v \in Workers : LocatedAt(r, p, v)
        BY <1>0 DEF PlaceInv
      <4>2. workers'[w].request # r /\ workers[w].request # r
        BY <1>r, <3>1, <3>2, <3>3, <3>8
      <4>3. LocatedAt(r, p, v)'
        BY <1>r, <2>1, <3>2, <3>6, <3>8, <4>1, <4>2 DEF LocatedAt
      <4> QED
        BY <4>3
    <3>9. \A r \in Requests : r > Len(urls) => r # h
      BY <1>e, <1>r, <3>3
    <3> QED
      BY <1>0, <1>r, <2>1, <3>2, <3>3, <3>6, <3>7, <3>8, <3>9 DEF PlaceInv
  <2> QED
    BY <2>1, <2>6, <2>7, <2>8, <2>9, <2>10 DEF WorkerKind
<1>5. CASE Delete \/ Deleter
  <2>1. /\ UNCHANGED <<urls, balancer, answers>>
        /\ DeletesBegin \/ DeleteJoins \/ DeleteStops \/ DeleteFrees
    BY <1>0, <1>5, DeleteShape
  <2>2. deleting.pc # "done"
    BY <2>1 DEF DeletesBegin, DeleteJoins, DeleteStops, DeleteFrees
  <2>3. CASE DeletesBegin \/ DeleteJoins \/ DeleteStops
    <3>1. \A r \in Requests : In(socket', r) <=> In(socket, r)
      <4>1. CASE DeletesBegin
        <5>1. socket' = Append(socket, StopHttp)
          BY <4>1 DEF DeletesBegin
        <5>2. \A y : In(Append(socket, StopHttp), y) <=> In(socket, y) \/ y = StopHttp
          BY <1>e, InAppend
        <5> QED
          BY <1>r, <5>1, <5>2
      <4>2. CASE DeleteJoins \/ DeleteStops
        BY <4>2 DEF DeleteJoins, DeleteStops
      <4> QED
        BY <2>3, <4>1, <4>2
    <3>2. /\ \A v \in Workers : workers'[v].batch = workers[v].batch
                                /\ workers'[v].request = workers[v].request
          /\ \A v \in Workers, r \in Requests : In(workers'[v].queue, r) <=> In(workers[v].queue, r)
      <4>1. CASE workers' = workers
        BY <4>1
      <4>2. CASE DeleteStops
        <5>1. PICK w \in Workers : Queued(w, StopHttp)
          BY <1>0, <4>2 DEF DeleteStops, DeleteInv
        <5>2. \A y : In(workers'[w].queue, y) <=> In(workers[w].queue, y) \/ y = StopHttp
          BY <1>e, <5>1, InAppend DEF Queued
        <5> QED
          BY <1>r, <5>1, <5>2 DEF Queued, SameWorkersBut
      <4> QED
        BY <2>3, <4>1, <4>2 DEF DeletesBegin, DeleteJoins
    <3>3. ASSUME NEW r \in 1 .. Len(urls), NEW p \in Places, NEW v \in Workers, LocatedAt(r, p, v)
          PROVE  LocatedAt(r, p, v)'
      BY <1>r, <2>1, <2>2, <3>1, <3>2, <3>3 DEF LocatedAt
    <3> QED
      BY <1>0, <2>1, <3>2, <3>3 DEF PlaceInv
  <2>4. CASE DeleteFrees
    <3>1. \A v \in Workers : /\ workers'[v].batch = workers[v].batch /\ workers'[v].queue = workers[v].queue
                             /\ workers'[v].request = workers[v].request
      BY <2>4 DEF DeleteFrees, SameWorkersBut
    <3>2. /\ socket' = IF deleting'.pc = "done" THEN <<>> ELSE socket
          /\ deleting'.before = deleting.before
      BY <2>4 DEF DeleteFrees, Follows
    <3>3. \A r : In(socket, r) => r > deleting.before
      <4>1. ~balancer.run
        BY <1>0, <2>4 DEF DeleteFrees, DeleteInv, BalancerInv
      <4> QED
        BY <1>0, <4>1 DEF BalancerInv, In
    <3>4. ASSUME NEW r \in 1 .. Len(urls)
          PROVE  \E p \in Places, v \in Workers : LocatedAt(r, p, v)'
      <4>1. PICK p \in Places, v \in Workers : LocatedAt(r, p, v)
        BY <1>0 DEF PlaceInv
      <4>2. CASE p = "socket" /\ deleting'.pc = "done"
        <5>1. r > deleting.before
          BY <3>3, <4>1, <4>2 DEF LocatedAt
        <5>2. LocatedAt(r, "lost", v)' /\ "lost" \in Places
          BY <1>e, <2>1, <3>1, <3>2, <4>1, <4>2, <5>1 DEF LocatedAt, Places
        <5> QED
          BY <5>2
      <4>3. CASE ~(p = "socket" /\ deleting'.pc = "done")
        <5>1. LocatedAt(r, p, v)'
          BY <1>e, <2>1, <2>2, <3>1, <3>2, <4>1, <4>3 DEF LocatedAt
        <5> QED
          BY <5>1
      <4> QED
        BY <4>2, <4>3
    <3> QED
      BY <1>0, <2>1, <3>1, <3>4 DEF PlaceInv
  <2> QED
    BY <2>1, <2>3, <2>4
<1> QED
  BY <1>1, <1>2, <1>3, <1>4, <1>5 DEF Next

-----------------------------------------------------------------------------
(* The theorems.                                                           *)

\* The invariant holds at the start.
LEMMA InitIndInv == Init => IndInv
<1> SUFFICES ASSUME Init PROVE IndInv
  OBVIOUS
<1>e. Len(<<>>) = 0 /\ \A x : ~In(<<>>, x)
  BY InEmpty
<1>0. /\ urls = <<>> /\ socket = <<>> /\ Len(urls) = 0 /\ Len(socket) = 0
      /\ balancer.pc = "loop" /\ balancer.run /\ balancer.batch = <<>> /\ balancer.count = 0
      /\ deleting.pc = "no" /\ deleting.index = 0 /\ deleting.before = 0
      /\ \A r \in Requests : answers[r] = <<>>
  BY DEF Init
<1>1. \A w \in Workers : /\ workers[w].pc = "loop" /\ workers[w].run /\ workers[w].queue = <<>>
                         /\ workers[w].batch = <<>> /\ workers[w].request = 0
  BY DEF Init
<1>2. Typed
  <2>1. 0 \in 0 .. MaxRequests /\ 0 \in 0 .. ThreadCount
    BY HttpServiceAssumption
  <2>2. balancer \in BalancerRecord
    BY <2>1 DEF Init, BalancerRecord
  <2>3. workers \in [Workers -> WorkerRecord]
    <3>1. [pc |-> "loop", run |-> TRUE, queue |-> <<>>, batch |-> <<>>, request |-> 0,
           client |-> NoClient, status |-> NoStatus, canceled |-> FALSE] \in WorkerRecord
      BY <2>1 DEF WorkerRecord, NoStatus
    <3> QED
      BY <3>1 DEF Init
  <2>4. deleting \in DeletingRecord
    BY <2>1 DEF Init, DeletingRecord
  <2>5. /\ urls \in Seq(Hosts \cup {Malformed}) /\ Len(urls) <= MaxRequests
        /\ socket \in Seq(Messages)
        /\ answers \in [Requests -> Seq(0 .. MaxRequests)]
    BY HttpServiceAssumption DEF Init
  <2> QED
    BY <1>1, <2>2, <2>3, <2>4, <2>5 DEF Typed
<1>3. DeleteInv
  BY <1>0 DEF DeleteInv
<1>4. BalancerInv
  BY <1>0, <1>e DEF BalancerInv
<1>5. LineInv
  BY <1>0, <1>e DEF LineInv, Sorted
<1>6. WorkersInv
  BY <1>0, <1>1, <1>e DEF WorkersInv, WorkerInv, NoDup, StopLast
<1>7. PlaceInv
  <2>1. 0 \notin Requests /\ 1 .. Len(urls) = {}
    BY <1>0, HttpServiceAssumption DEF Requests
  <2> QED
    BY <1>0, <1>1, <1>e, <2>1 DEF PlaceInv
<1> QED
  BY <1>2, <1>3, <1>4, <1>5, <1>6, <1>7 DEF IndInv

\* Every step keeps the invariant.
LEMMA NextIndInv == IndInv /\ [Next]_vars => IndInv'
  BY TypedStep, DeleteStep, BalancerStep, LineStep, WorkersStep, PlaceStep DEF IndInv

\* The inductive invariant holds of every behaviour of the service.
THEOREM Invariance == Spec => []IndInv
  BY InitIndInv, NextIndInv, PTL DEF Spec

\* No worker has a message behind the one that stops it.
LEMMA StopIsLast ==
  ASSUME Typed, WorkersInv
  PROVE  NoneBehindStop
<1> SUFFICES ASSUME NEW w \in Workers,
                    NEW i \in DOMAIN (workers[w].batch \o workers[w].queue),
                    (workers[w].batch \o workers[w].queue)[i] # StopHttp
             PROVE  /\ workers[w].run
                    /\ \A j \in 1 .. i - 1 : (workers[w].batch \o workers[w].queue)[j] # StopHttp
  BY DEF NoneBehindStop
<1>0. PICK b, q : b = workers[w].batch /\ q = workers[w].queue
  OBVIOUS
<1>1. /\ b \in Seq(Messages) /\ q \in Seq(Messages) /\ Len(b) \in Nat /\ Len(q) \in Nat
  BY <1>0, Elements
<1>2. WorkerInv(w)
  BY DEF WorkersInv
<1>3. /\ b \o q \in Seq(Messages) /\ Len(b \o q) = Len(b) + Len(q)
      /\ \A k \in 1 .. Len(b) + Len(q) : (b \o q)[k] = IF k <= Len(b) THEN b[k] ELSE q[k - Len(b)]
  BY <1>1, ConcatProperties
<1>4. i \in 1 .. Len(b) + Len(q)
  <2>1. DOMAIN (b \o q) = 1 .. Len(b \o q)
    BY <1>3
  <2> QED
    BY <1>0, <1>3, <2>1
<1>a. (q = <<>> => Len(q) = 0) /\ (b = <<>> => Len(b) = 0)
  OBVIOUS
<1>5. workers[w].run
  <2>1. b # <<>> \/ q # <<>>
    BY <1>1, <1>4, <1>a
  <2> QED
    BY <1>0, <1>2, <2>1 DEF WorkerInv
<1>6. ASSUME NEW j \in 1 .. i - 1 PROVE (b \o q)[j] # StopHttp
  <2>1. j \in 1 .. Len(b) + Len(q) /\ j < i
    BY <1>1, <1>4
  <2>2. CASE i <= Len(b)
    <3>1. (b \o q)[j] = b[j] /\ j \in 1 .. Len(b) /\ j # Len(b)
      BY <1>1, <1>3, <1>4, <2>1, <2>2
    <3> QED
      BY <1>0, <1>2, <3>1 DEF WorkerInv, StopLast
  <2>3. CASE i > Len(b)
    <3>1. q # <<>>
      BY <1>1, <1>4, <1>a, <2>3
    <3>2. ~In(b, StopHttp)
      BY <1>0, <1>2, <3>1 DEF WorkerInv
    <3>3. CASE j <= Len(b)
      <4>1. (b \o q)[j] = b[j] /\ j \in 1 .. Len(b)
        BY <1>1, <1>3, <2>1, <3>3
      <4> QED
        BY <3>2, <4>1 DEF In
    <3>4. CASE j > Len(b)
      <4>1. /\ j - Len(b) \in 1 .. Len(q) /\ j - Len(b) # Len(q)
            /\ (b \o q)[j] = q[j - Len(b)]
        BY <1>1, <1>3, <1>4, <2>1, <2>3, <3>4
      <4> QED
        BY <1>0, <1>2, <4>1 DEF WorkerInv, StopLast
    <3> QED
      BY <1>1, <2>1, <3>3, <3>4
  <2> QED
    BY <1>1, <1>4, <2>2, <2>3
<1> QED
  BY <1>0, <1>5, <1>6

\* No request is answered twice; one that is not answered is still on its way, and
\* Delete leaves none unanswered that was posted before it: http_service.cpp joins the
\* balancer before it tells the workers to stop.
THEOREM EveryRequestAnswered == Spec => []AnsweredOnce
<1>1. IndInv => AnsweredOnce
  <2> SUFFICES ASSUME IndInv PROVE AnsweredOnce
    OBVIOUS
  <2>0. Typed /\ DeleteInv /\ BalancerInv /\ WorkersInv /\ PlaceInv
    BY DEF IndInv
  <2>1. TypeOK
    BY <2>0 DEF Typed, TypeOK, BalancerRecord, WorkerRecord, DeletingRecord
  <2>2. NoneBehindStop
    BY <2>0, StopIsLast
  <2>3. Len(urls) \in Nat /\ deleting.before \in Nat /\ deleting.before <= Len(urls)
        /\ Len(urls) <= MaxRequests /\ \A x : ~In(<<>>, x)
    BY <2>0, Elements, InEmpty DEF DeleteInv, Typed
  <2>4. \A r \in Requests : Len(answers[r]) <= 1
    <3> SUFFICES ASSUME NEW r \in Requests PROVE Len(answers[r]) <= 1
      OBVIOUS
    <3>1. CASE r > Len(urls)
      BY <2>0, <3>1 DEF PlaceInv
    <3>2. CASE r \in 1 .. Len(urls)
      <4>1. PICK p \in Places, v \in Workers : LocatedAt(r, p, v)
        BY <2>0, <3>2 DEF PlaceInv
      <4>2. Len(answers[r]) = 1 \/ answers[r] = <<>>
        BY <4>1 DEF LocatedAt
      <4>3. PICK n \in {0, 1} : Len(answers[r]) = n
        BY <4>2
      <4>4. n <= 1
        OBVIOUS
      <4> QED
        BY <4>3, <4>4
    <3> QED
      BY <2>3, <3>1, <3>2 DEF Requests
  <2>5. ASSUME deleting.pc = "done", NEW r \in 1 .. deleting.before
        PROVE  Len(answers[r]) = 1
    <3>1. r \in 1 .. Len(urls) /\ ~(r > deleting.before) /\ r # 0
      BY <2>3
    <3>2. PICK p \in Places, v \in Workers : LocatedAt(r, p, v)
      BY <2>0, <3>1 DEF PlaceInv
    <3>3. balancer.batch = <<>> /\ ~balancer.run
      BY <2>0, <2>5 DEF DeleteInv, BalancerInv
    <3>4. \A w \in Workers : /\ workers[w].pc = "deleted" /\ workers[w].batch = <<>>
                             /\ workers[w].queue = <<>> /\ workers[w].request = 0
      BY <2>0, <2>5 DEF DeleteInv, WorkersInv, WorkerInv, Typed
    <3>5. ~In(socket, r)
      BY <2>0, <3>1, <3>3 DEF BalancerInv, In
    <3>6. p \notin {"socket", "balancer", "queue", "batch", "request", "lost"}
      BY <2>3, <3>1, <3>2, <3>3, <3>4, <3>5 DEF LocatedAt
    <3>7. p = "answered"
      BY <3>6 DEF Places
    <3> QED
      BY <3>2, <3>7 DEF LocatedAt
  <2> QED
    BY <2>1, <2>2, <2>4, <2>5 DEF AnsweredOnce
<1> QED
  BY <1>1, Invariance, PTL

\* No worker runs, and nothing is posted to one, after Delete has freed it.
THEOREM DeletedIsOver == Spec => []NoUseAfterDelete
<1>1. IndInv => NoUseAfterDelete
  BY DEF IndInv, NoUseAfterDelete, WorkersInv, WorkerInv, DeleteInv, Typed
<1> QED
  BY <1>1, Invariance, PTL
=============================================================================
