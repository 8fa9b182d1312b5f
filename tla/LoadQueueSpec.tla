--------------------------- MODULE LoadQueueSpec ---------------------------
(***************************************************************************)
(* What load_queue.h promises a client of the threaded queue, without the  *)
(* ring, its counters, the condition variable or the byte throttle: at     *)
(* most MaxOutstanding requests, loaded one after the other in the order   *)
(* they were begun, each answered with its own resource, each freed by     *)
(* the client in any order once it has an answer.  A freed request keeps   *)
(* its place until everything begun before it is freed as well.            *)
(***************************************************************************)
EXTENDS Integers, Sequences

CONSTANTS Names, NoName, MaxOutstanding, Answers

VARIABLES requests,  \* in the order they were begun
          open       \* DeleteQueue has not been called

absVars == <<requests, open>>

Begun(n) == [name |-> n, status |-> "begun", answer |-> NoName, data |-> NoName]
Tombstone == [name |-> NoName, status |-> "freed", answer |-> NoName, data |-> NoName]

AbsInit == requests = <<>> /\ open = TRUE

Begin(n) ==
  /\ open
  /\ Len(requests) < MaxOutstanding
  /\ requests' = Append(requests, Begun(n))
  /\ UNCHANGED open

\* The oldest request without an answer gets one: its own resource, or an error.
Answer(k, a) ==
  /\ requests[k].status = "begun"
  /\ \A j \in 1 .. (k - 1) : requests[j].status # "begun"
  /\ requests' = [requests EXCEPT
                    ![k].status = "answered",
                    ![k].answer = a,
                    ![k].data = IF a = "RESULT_OK" THEN requests[k].name ELSE NoName]
  /\ UNCHANGED open

\* The freed requests at the head of the queue leave it.
Free(k) ==
  /\ open
  /\ requests[k].status = "answered"
  /\ \E h \in 0 .. Len(requests) :
       LET freed == [requests EXCEPT ![k] = Tombstone]
       IN  /\ \A j \in 1 .. h : freed[j].status = "freed"
           /\ h < Len(requests) => freed[h + 1].status # "freed"
           /\ requests' = SubSeq(freed, h + 1, Len(freed))
  /\ UNCHANGED open

Close == open /\ open' = FALSE /\ UNCHANGED requests

AbsNext ==
  \/ \E n \in Names : Begin(n)
  \/ \E k \in 1 .. Len(requests) : Free(k) \/ \E a \in Answers : Answer(k, a)
  \/ Close

AbsSpec == AbsInit /\ [][AbsNext]_absVars

=============================================================================
