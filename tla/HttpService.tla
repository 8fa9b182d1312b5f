---------------------------- MODULE HttpService ----------------------------
(***************************************************************************)
(* The HTTP service behind http.request (engine/script/src/http_service.   *)
(* cpp, script_http.cpp).  Requests are posted to the service's socket; a  *)
(* balancer thread hands them out to workers in turn; a worker makes one   *)
(* request at a time and posts the answer to the one who asked.  Delete    *)
(* stops the threads by messages and flags, and frees everything.          *)
(*                                                                         *)
(* DispatchBlocking takes what is in a socket as one batch and calls back  *)
(* for each message; it waits while there is none (see Message).  A        *)
(* request is its number, in the order of posting.  A status code is the   *)
(* number of the request that it was received for; 0 is no status.         *)
(***************************************************************************)
EXTENDS Naturals, Sequences

CONSTANTS ThreadCount,  \* params->m_ThreadCount
          Hosts,        \* scheme, host and port of a URL
          MaxRequests   \* bound on the requests ever posted

ASSUME HttpServiceAssumption == ThreadCount \in Nat \ {0} /\ MaxRequests \in Nat

VARIABLES urls,      \* the URLs of the requests posted so far
          socket,    \* the messages in the service's socket
          balancer,  \* the balancer thread, with m_Run and m_LoadBalanceCount
          workers,   \* m_Workers
          deleting,  \* where Delete is, and the requests posted before it
          answers    \* the status of every answer posted, by request

vars == <<urls, socket, balancer, workers, deleting, answers>>

Workers == 1 .. ThreadCount
Requests == 1 .. MaxRequests
StopHttp == 0
NoStatus == 0
NoClient == "none"
Malformed == "malformed" \* a URL that dmURI::Parse refuses

Init == \* New
  /\ urls = <<>> /\ socket = <<>>
  /\ balancer = [pc |-> "loop", run |-> TRUE, batch |-> <<>>, count |-> 0]
  /\ workers = [w \in Workers |->
       [pc |-> "loop", run |-> TRUE, queue |-> <<>>, batch |-> <<>>, request |-> 0,
        client |-> NoClient, status |-> NoStatus, canceled |-> FALSE]]
  /\ deleting = [pc |-> "no", index |-> 0, before |-> 0]
  /\ answers = [r \in Requests |-> <<>>]

\* Http_Request; any thread may post as long as the socket is there.
Http_Request(url) ==
  /\ Len(urls) < MaxRequests /\ deleting.pc # "done"
  /\ urls' = Append(urls, url)
  /\ socket' = Append(socket, Len(urls) + 1)
  /\ UNCHANGED <<balancer, workers, deleting, answers>>

-----------------------------------------------------------------------------
(* The balancer.                                                           *)

LoadBalancer ==
  \/ /\ balancer.pc = "loop" /\ socket # <<>>
     /\ balancer' = [balancer EXCEPT !.pc = "dispatch", !.batch = socket]
     /\ socket' = <<>>
     /\ UNCHANGED <<urls, workers, deleting, answers>>
  \/ /\ balancer.pc = "dispatch" /\ balancer.batch = <<>>
     /\ balancer' = [balancer EXCEPT !.pc = IF balancer.run THEN "loop" ELSE "done"]
     /\ UNCHANGED <<urls, socket, workers, deleting, answers>>

Turn == 1 + (balancer.count % ThreadCount)

\* A message to the socket of a worker that was deleted is refused.
PostTo(ws, w, message) ==
  [ws EXCEPT ![w].queue = IF ws[w].pc = "deleted" THEN @ ELSE Append(@, message)]

\* mutant: the workers are told to stop by the balancer
LoadBalanceForwarding ==
  /\ balancer.pc = "dispatch" /\ balancer.batch # <<>>
  /\ IF Head(balancer.batch) = StopHttp
     THEN /\ balancer' = [balancer EXCEPT !.batch = Tail(@), !.run = FALSE]
          /\ workers' = [w \in Workers |-> PostTo(workers, w, StopHttp)[w]]
     ELSE /\ balancer' = [balancer EXCEPT !.batch = Tail(@), !.count = @ + 1]
          /\ workers' = PostTo(workers, Turn, Head(balancer.batch))
  /\ UNCHANGED <<urls, socket, deleting, answers>>

LoadBalance ==
  /\ balancer.pc = "dispatch" /\ balancer.batch # <<>>
  /\ IF Head(balancer.batch) = StopHttp
     THEN /\ balancer' = [balancer EXCEPT !.batch = Tail(@), !.run = FALSE]
          /\ UNCHANGED workers
     ELSE /\ balancer' = [balancer EXCEPT !.batch = Tail(@), !.count = @ + 1]
          /\ workers' = PostTo(workers, Turn, Head(balancer.batch))
  /\ UNCHANGED <<urls, socket, deleting, answers>>

-----------------------------------------------------------------------------
(* A worker.                                                               *)

SetWorker(w, worker) == workers' = [workers EXCEPT ![w] = worker]
SendResponse(r, status) == answers' = [answers EXCEPT ![r] = Append(@, status)]

Loop(w) ==
  /\ \/ /\ workers[w].pc = "loop" /\ workers[w].queue # <<>>
        /\ SetWorker(w, [workers[w] EXCEPT !.pc = "dispatch", !.batch = workers[w].queue,
                                           !.queue = <<>>])
     \/ /\ workers[w].pc = "dispatch" /\ workers[w].batch = <<>>
        /\ SetWorker(w, [workers[w] EXCEPT !.pc = IF workers[w].run THEN "loop" ELSE "done"])
  /\ UNCHANGED <<urls, socket, balancer, deleting, answers>>

Dispatching(w) == workers[w].pc = "dispatch" /\ workers[w].batch # <<>>
Message(w) == Head(workers[w].batch)
Dispatched(w) == [workers[w] EXCEPT !.batch = Tail(@)]

\* A stop, or any message once the worker has stopped: those left are dropped.
DispatchStop(w) ==
  /\ Dispatching(w) /\ (workers[w].run => Message(w) = StopHttp)
  /\ SetWorker(w, [Dispatched(w) EXCEPT !.run = FALSE])
  /\ UNCHANGED <<urls, socket, balancer, deleting, answers>>

\* HandleRequest up to the request itself.  The client is kept while requests go to
\* one host; a new one may not find the host.
HandleRequest(w) ==
  /\ Dispatching(w) /\ workers[w].run /\ Message(w) # StopHttp
  /\ LET r == Message(w)
     IN \/ /\ urls[r] = Malformed
           /\ SetWorker(w, Dispatched(w)) /\ SendResponse(r, NoStatus)
        \/ /\ urls[r] \in Hosts
           /\ SetWorker(w, [Dispatched(w) EXCEPT !.pc = "request", !.request = r,
                                                 !.client = urls[r]])
           /\ UNCHANGED answers
        \/ /\ urls[r] \in Hosts /\ workers[w].client # urls[r]
           /\ SetWorker(w, [Dispatched(w) EXCEPT !.client = NoClient])
           /\ SendResponse(r, NoStatus)
  /\ UNCHANGED <<urls, socket, balancer, deleting>>

\* What dmHttpClient::Request leaves in m_Status, and whether it succeeds: headers set
\* the status, a request may fail before or after them, and one whose time is up when
\* it is connected succeeds without an answer (see HttpClient).
Results(w) ==
  [status : {workers[w].request}, ok : BOOLEAN] \cup [status : {workers[w].status}, ok : BOOLEAN]

RequestReturns(w) ==
  /\ workers[w].pc = "request"
  /\ \E result \in Results(w) :
       /\ SetWorker(w, [workers[w] EXCEPT !.pc = "dispatch", !.request = 0,
                                          !.status = result.status])
       /\ SendResponse(workers[w].request, IF result.ok THEN result.status ELSE NoStatus)
  /\ UNCHANGED <<urls, socket, balancer, deleting>>

-----------------------------------------------------------------------------
(* Delete.                                                                 *)

Delete ==
  /\ deleting.pc = "no"
  /\ socket' = Append(socket, StopHttp)
  /\ deleting' = [pc |-> "balancer", index |-> 0, before |-> Len(urls)]
  /\ UNCHANGED <<urls, balancer, workers, answers>>

DeleteJoinBalancer ==
  /\ deleting.pc = "balancer" /\ balancer.pc = "done"
  /\ deleting' = [deleting EXCEPT !.pc = "stop", !.index = 1]
  /\ UNCHANGED <<urls, socket, balancer, workers, answers>>

\* Delete's loops: the index moves on to the next worker, or to the next loop.
Following(next) == IF deleting.index < ThreadCount
                   THEN [deleting EXCEPT !.index = @ + 1]
                   ELSE [deleting EXCEPT !.pc = next, !.index = 1]

\* mutant: the request in progress is not cancelled
DeleteStopWorkerNoCancel ==
  /\ deleting.pc = "stop"
  /\ workers' = PostTo(workers, deleting.index, StopHttp)
  /\ deleting' = Following("join")
  /\ UNCHANGED <<urls, socket, balancer, answers>>

DeleteStopWorker ==
  /\ deleting.pc = "stop"
  /\ workers' = [PostTo(workers, deleting.index, StopHttp) EXCEPT
                   ![deleting.index].canceled = TRUE]
  /\ deleting' = Following("join")
  /\ UNCHANGED <<urls, socket, balancer, answers>>

\* mutant: the thread is not waited for
DeleteJoinWorkerNot ==
  /\ deleting.pc = "join"
  /\ workers' = [workers EXCEPT ![deleting.index].pc = "deleted"]
  /\ deleting' = Following("done")
  /\ socket' = IF deleting'.pc = "done" THEN <<>> ELSE socket
  /\ UNCHANGED <<urls, balancer, answers>>

\* The worker and its socket are deleted; after the last one, the service's socket.
DeleteJoinWorker ==
  /\ deleting.pc = "join" /\ workers[deleting.index].pc = "done"
  /\ workers' = [workers EXCEPT ![deleting.index].pc = "deleted"]
  /\ deleting' = Following("done")
  /\ socket' = IF deleting'.pc = "done" THEN <<>> ELSE socket
  /\ UNCHANGED <<urls, balancer, answers>>

-----------------------------------------------------------------------------
Balancer == LoadBalancer \/ LoadBalance
Dispatch(w) == DispatchStop(w) \/ HandleRequest(w)
Deleter == DeleteJoinBalancer \/ DeleteStopWorker \/ DeleteJoinWorker

Next ==
  \/ \E url \in Hosts \cup {Malformed} : Http_Request(url)
  \/ Balancer
  \/ \E w \in Workers : Loop(w) \/ Dispatch(w) \/ RequestReturns(w)
  \/ Delete \/ Deleter

Spec == Init /\ [][Next]_vars

\* Threads go on.  A request without a timeout may wait for ever, unless it is cancelled.
Fairness ==
  /\ WF_vars(Balancer) /\ WF_vars(Deleter)
  /\ \A w \in Workers : /\ WF_vars(Loop(w)) /\ WF_vars(Dispatch(w))
                        /\ WF_vars(workers[w].canceled /\ RequestReturns(w))

FairSpec == Spec /\ Fairness

-----------------------------------------------------------------------------
(* Properties.                                                             *)

Messages == Requests \cup {StopHttp}

\* The type invariant.
TypeOK ==
  /\ urls \in Seq(Hosts \cup {Malformed}) /\ socket \in Seq(Messages)
  /\ balancer \in [pc : {"loop", "dispatch", "done"}, run : BOOLEAN, batch : Seq(Messages),
                   count : 0 .. MaxRequests]
  /\ workers \in [Workers -> [pc : {"loop", "dispatch", "request", "done", "deleted"},
                              run : BOOLEAN, queue : Seq(Messages), batch : Seq(Messages),
                              request : 0 .. MaxRequests, client : Hosts \cup {NoClient},
                              status : 0 .. MaxRequests, canceled : BOOLEAN]]
  /\ \A w \in Workers : workers[w].request # 0 <=> workers[w].pc = "request"
  /\ deleting \in [pc : {"no", "balancer", "stop", "join", "done"},
                   index : 0 .. ThreadCount, before : 0 .. MaxRequests]
  /\ answers \in [Requests -> Seq(0 .. MaxRequests)]

\* Dispatch's early return (if (!worker->m_Run)), which would lose a request together
\* with the buffers it owns, never meets one: nothing comes after a worker's stop.
NoneBehindStop ==
  \A w \in Workers :
    LET waiting == workers[w].batch \o workers[w].queue
    IN \A i \in DOMAIN waiting :
         waiting[i] # StopHttp
         => workers[w].run /\ \A j \in 1 .. i - 1 : waiting[j] # StopHttp

\* "Stop the balancer first, so we don't accept any new requests": every request that
\* was posted before Delete has one answer when Delete returns, although it passes
\* two queues and is cancelled, no request ever gets two, and none is met behind a
\* stop.  The state is well typed.
AnsweredOnce ==
  /\ TypeOK /\ NoneBehindStop
  /\ \A r \in Requests : Len(answers[r]) <= 1
  /\ deleting.pc = "done" => \A r \in 1 .. deleting.before : Len(answers[r]) = 1

\* Delete frees a worker when its thread is over and nobody will post to it, and the
\* service when all threads are over.
NoUseAfterDelete ==
  \A w \in Workers : workers[w].pc = "deleted" =>
    /\ balancer.pc = "done"
    /\ workers[w].request = 0 /\ workers[w].batch = <<>> /\ workers[w].queue = <<>>

\* Delete returns: nobody waits for a message that never comes, and a request that
\* would wait for ever is cancelled.
DeleteReturns == deleting.pc # "no" ~> deleting.pc = "done"

=============================================================================
