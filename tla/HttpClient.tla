----------------------------- MODULE HttpClient -----------------------------
(***************************************************************************)
(* HTTP clients (engine/dlib/src/dlib/http_client.cpp) on one connection   *)
(* pool.  A request dials, sends, receives, and gives its connection back  *)
(* or closes it; a connection that was used before and fails without an    *)
(* answer is taken to have been closed by the other end, and the request   *)
(* is made again.  A GET is retried as a whole a number of times.          *)
(*                                                                         *)
(* What goes over the wire is reduced to how an exchange ends.  The cache  *)
(* is not used here (m_IgnoreCache).  A request times out, or is cancelled,*)
(* at any moment.                                                          *)
(***************************************************************************)
EXTENDS ConnectionPool

CONSTANTS MaxGetRetries

ASSUME HttpClientAssumption == MaxGetRetries \in Nat \ {0}

VARIABLES reqs,  \* the request each client is in, or its result
          shutting \* somebody keeps calling ShutdownConnectionPool

vars == <<vars_pool, reqs, shutting>>

NoRequest == [pc |-> "idle", host |-> "none", tries |-> 0, left |-> 0, expired |-> FALSE,
              disturbed |-> FALSE]

Init == PoolInit /\ reqs = [c \in Threads |-> NoRequest] /\ shutting = FALSE

-----------------------------------------------------------------------------
(* How an exchange on a connection can end.                                *)

\* The result of the request ("ok" is RESULT_OK or RESULT_NOT_200_OK), that of the
\* socket, whether bytes came that are not dealt with, and whether the connection
\* is to be closed.
Ends(results, srs, received, close) ==
  [r : results, sr : srs, received : received, close : close]

\* An error on the socket; "srs" is what the client keeps of it.
SocketFails(srs, received) == Ends({"socket_error"}, srs, received, {FALSE})

Socket(c) == sockets[conns[dials[c].handle.index].socket]
AtEnd(c) == Socket(c) \in {"shut", "peer_closed"}

\* SendRequest returns the client's socket result, which is an old one if Dial left it.
SendOutcomes(c) ==
  (IF dials[c].sr # "ok" THEN SocketFails({dials[c].sr}, {FALSE}) ELSE {})
  \cup (IF AtEnd(c) THEN SocketFails({"connreset"}, {FALSE}) ELSE {})
  \cup (IF reqs[c].expired THEN SocketFails({"wouldblock"}, {FALSE}) ELSE {})

\* RecvAndParseHeaders: the end of the stream, an error, or headers that do not parse.
HeaderOutcomes(c) ==
  Ends({"bad_answer"}, {"ok"}, {TRUE}, {TRUE})
  \cup (IF AtEnd(c) THEN Ends({"unexpected_eof"}, {"ok"}, BOOLEAN, {TRUE})
                         \cup SocketFails({"connreset"}, BOOLEAN) ELSE {})
  \cup (IF reqs[c].expired THEN SocketFails({"wouldblock"}, BOOLEAN) ELSE {})

\* HandleResponse and DoTransfer: the content, a part of it, or an error, which the
\* client does not keep.
TransferOutcomes(c) ==
  Ends({"ok"}, {"ok"}, {FALSE}, BOOLEAN) \cup Ends({"bad_answer"}, {"ok"}, BOOLEAN, BOOLEAN)
  \cup (IF reqs[c].expired THEN SocketFails({"ok"}, {FALSE}) ELSE {})

\* With an old socket result left by Dial nothing is received.
Outcomes(c) ==
  SendOutcomes(c)
  \cup (IF dials[c].sr = "ok" THEN HeaderOutcomes(c) \cup TransferOutcomes(c) ELSE {})

-----------------------------------------------------------------------------
(* A request.                                                              *)

AttemptsShort == MaxConnections \* mutant: one attempt per connection of the pool
Attempts == MaxConnections + 1

Started(host, tries) ==
  [NoRequest EXCEPT !.pc = "attempt", !.host = host, !.tries = tries, !.left = Attempts]

Get(c, host) ==
  /\ reqs[c].pc = "idle"
  /\ reqs' = [reqs EXCEPT ![c] = Started(host, MaxGetRetries)]
  /\ UNCHANGED <<vars_pool, shutting>>

\* Any other method is tried once.
Request(c, host) ==
  /\ reqs[c].pc = "idle"
  /\ reqs' = [reqs EXCEPT ![c] = Started(host, 1)]
  /\ UNCHANGED <<vars_pool, shutting>>

\* What Get tries again: the connection was lost.
Lost(r, sr) == r = "unexpected_eof" \/ (r = "socket_error" /\ sr \in {"connreset", "wouldblock"})

\* DoRequest returns r: the request is tried again, or ends.
AfterRequest(c, r, sr) ==
  IF Lost(r, sr) /\ ~reqs[c].expired /\ reqs[c].tries > 1
  THEN Started(reqs[c].host, reqs[c].tries - 1)
  ELSE NoRequest

DoRequest(c) ==
  /\ reqs[c].pc = "attempt" /\ reqs[c].left > 0
  /\ reqs' = [reqs EXCEPT ![c].pc = "dial", ![c].left = @ - 1]
  /\ Dial(c, reqs[c].host)
  /\ UNCHANGED <<poolVars, sockets, abandoned, shutting>>

\* "All connection attempts to remote host are prematurely closed."
GiveUp(c) ==
  /\ reqs[c].pc = "attempt" /\ reqs[c].left = 0
  /\ reqs' = [reqs EXCEPT ![c] = AfterRequest(c, "unknown", "ok")]
  /\ UNCHANGED <<vars_pool, shutting>>

NotConnected(c) ==
  /\ reqs[c].pc = "dial" /\ dials[c].pc = "done" /\ dials[c].r # "ok"
  /\ reqs' = [reqs EXCEPT ![c] = AfterRequest(c, "socket_error", dials[c].sr)]
  /\ dials' = [dials EXCEPT ![c] = NoDial]
  /\ UNCHANGED <<poolVars, sockets, abandoned, shutting>>

\* The response is destroyed: its connection is closed, or returned to the pool.
\* A request that is under way meanwhile finds one more idle connection.
Release(c, close, after) ==
  /\ IF close THEN Close(dials[c].handle) ELSE Return(dials[c].handle)
  /\ reqs' = [d \in Threads |->
       IF d = c THEN after
       ELSE [reqs[d] EXCEPT !.disturbed = @ \/ (~close /\ reqs[d].pc # "idle")]]
  /\ dials' = [dials EXCEPT ![c] = NoDial]
  /\ UNCHANGED <<next_version, allow, abandoned, shutting>>

\* A request that has timed out once it is connected returns the result of Connect.
ConnectedLate(c) ==
  /\ reqs[c].pc = "dial" /\ dials[c].pc = "done" /\ dials[c].r = "ok"
  /\ reqs[c].expired
  /\ Release(c, dials[c].sr # "ok", AfterRequest(c, "ok", dials[c].sr))

ConnectedInTime(c) ==
  /\ reqs[c].pc = "dial" /\ dials[c].pc = "done" /\ dials[c].r = "ok"
  /\ ~reqs[c].expired
  /\ reqs' = [reqs EXCEPT ![c].pc = "exchange"]
  /\ UNCHANGED <<vars_pool, shutting>>

\* A failed exchange on a reused connection, and no answer: the other end is taken
\* to have closed the connection.
TryAgain(c, e) ==
  /\ e.r # "ok" /\ ~reqs[c].expired
  /\ conns[dials[c].handle.index].reused /\ ~e.received

\* SendRequest and what comes back, and the end of this attempt.
DoDoRequest(c) ==
  /\ reqs[c].pc = "exchange"
  /\ \E e \in Outcomes(c) :
       Release(c, e.close \/ e.r # "ok" \/ e.sr # "ok",
               IF TryAgain(c, e) THEN [reqs[c] EXCEPT !.pc = "attempt"]
               ELSE AfterRequest(c, e.r, e.sr))

\* The request's time is up, or its cancel flag is set.  It is looked at after Dial
\* and during the exchange.
Expire(c) ==
  /\ dials[c].pc = "done" /\ ~reqs[c].expired
  /\ reqs' = [reqs EXCEPT ![c].expired = TRUE]
  /\ UNCHANGED <<vars_pool, shutting>>

-----------------------------------------------------------------------------
(* The whole system.  Whoever shuts the pool down does so until no         *)
(* connection is in use, as the pool's documentation proposes.             *)

BeginShutdown ==
  /\ allow /\ ~shutting
  /\ shutting' = TRUE
  /\ UNCHANGED <<vars_pool, reqs>>

ShutdownConnectionPool ==
  /\ shutting
  /\ Shutdown
  /\ shutting' = (InUse # {})
  /\ UNCHANGED reqs

ReopenConnectionPool == ~shutting /\ Reopen /\ UNCHANGED <<reqs, shutting>>

Dialling(c) == DialStep(c) /\ UNCHANGED <<reqs, shutting>>

Client(c) ==
  \/ DoRequest(c) \/ GiveUp(c) \/ NotConnected(c)
  \/ ConnectedLate(c) \/ ConnectedInTime(c) \/ DoDoRequest(c)

Next ==
  \/ \E c \in Threads : \/ \E h \in Hosts : Get(c, h) \/ Request(c, h)
                       \/ Dialling(c) \/ Client(c) \/ Expire(c)
  \/ BeginShutdown \/ ShutdownConnectionPool \/ ReopenConnectionPool
  \/ ((\E i \in Slots : Expires(i)) \/ \E s \in Sockets : PeerCloses(s)) /\ UNCHANGED <<reqs, shutting>>

Spec == Init /\ [][Next]_vars

\* A connection that is open and a request that has time may wait for an answer
\* for ever; everything else the threads do goes on.
Waits(c) == reqs[c].pc = "exchange" /\ Socket(c) = "open" /\ ~reqs[c].expired
            /\ dials[c].sr = "ok"
Fairness ==
  /\ WF_vars(ShutdownConnectionPool)
  /\ \A c \in Threads : WF_vars(Dialling(c)) /\ WF_vars(~Waits(c) /\ Client(c))

FairSpec == Spec /\ Fairness

-----------------------------------------------------------------------------
(* Properties.                                                             *)

Holding(c) == dials[c].pc = "done" /\ dials[c].r = "ok"
Reserving(c) == dials[c].pc = "connect"
SlotOf(c) == IF Holding(c) THEN dials[c].handle.index ELSE dials[c].index

\* The type invariant of the pool and of the requests on it.
TypeOK ==
  /\ conns \in [Slots -> [state : {"free", "connected", "inuse"}, host : Hosts \cup {"none"},
                          family : Families \cup {"none"}, expired : BOOLEAN,
                          socket : Sockets \cup {INVALID_SOCKET_HANDLE},
                          version : 0 .. VersionRange - 1, reused : BOOLEAN,
                          was_shutdown : BOOLEAN]]
  /\ next_version \in 0 .. VersionRange - 1 /\ allow \in BOOLEAN /\ shutting \in BOOLEAN
  /\ sockets \in [Sockets -> {"none", "open", "peer_closed", "shut"}]
  /\ abandoned \subseteq Sockets
  /\ \A c \in Threads :
       /\ dials[c].pc \in {"idle", "resolve", "reserve", "connect", "done"}
       /\ dials[c].sr \in {"ok", "wouldblock", "failed"}
       /\ Reserving(c) => dials[c].index \in Slots
       /\ reqs[c].pc \in {"idle", "attempt", "dial", "exchange"}
       /\ reqs[c].left \in 0 .. Attempts /\ reqs[c].tries \in 0 .. MaxGetRetries

\* What Shutdown passes over because m_WasShutdown is set has really been shut down,
\* also when the socket was assigned, or the connection reused, after the flag was.
FlaggedIsShut ==
  \A i \in Slots : conns[i].was_shutdown /\ conns[i].socket # INVALID_SOCKET_HANDLE
                   => sockets[conns[i].socket] = "shut"

\* Descriptors are reused by the system, so a descriptor kept too long is somebody
\* else's connection: every socket that is open is in exactly one slot, or was left
\* behind by a failed handshake, and no slot names a socket that was deleted
\* (DoClose, Reopen and the error paths of Connect between them).  A socket that
\* Shutdown would pass over has been shut down.
SocketsOwnedOnce ==
  /\ FlaggedIsShut
  /\ \A i, j \in Slots : i # j /\ conns[i].socket # INVALID_SOCKET_HANDLE
                         => conns[i].socket # conns[j].socket
  /\ {s \in Sockets : sockets[s] # "none"} =
       ({conns[i].socket : i \in Slots} \ {INVALID_SOCKET_HANDLE}) \cup abandoned
  /\ \A i \in Slots : conns[i].socket \notin abandoned

\* The slots in use are exactly those that some thread holds or has reserved, one
\* thread each, and a thread's handle names a connection with a socket: the
\* assertions of GetConnection, Return, Close, GetSocket and GetReuseCount hold,
\* even when versions have wrapped, and a slot is never lost.  The state is well typed.
ConnectionsHeldByOne ==
  /\ TypeOK
  /\ \A c \in Threads : Holding(c) =>
       Valid(dials[c].handle) /\ conns[dials[c].handle.index].socket # INVALID_SOCKET_HANDLE
  /\ InUse = {SlotOf(c) : c \in {d \in Threads : Holding(d) \/ Reserving(d)}}
  /\ \A c, d \in Threads :
       c # d /\ (Holding(c) \/ Reserving(c)) /\ (Holding(d) \/ Reserving(d))
       => SlotOf(c) # SlotOf(d)

\* DoRequest's comment: every connection of the pool may have been closed by the
\* other end, "therefore we must loop MAX_POOL_CONNECTIONS + 1 times".  The loop is
\* long enough unless another thread returned a connection meanwhile.
RetriesSuffice ==
  \A c \in Threads : reqs[c].pc = "attempt" /\ reqs[c].left = 0 => reqs[c].disturbed

\* Shutdown's documentation: it "can be called repeatedly on the same pool until it
\* returns no more connections in use".  It comes to that, whatever the threads are
\* in the middle of, and although an open connection may be waited on for ever.
ShutdownDrains == shutting ~> ~shutting

\* Shutdown's documentation: it shuts down the open sockets and blocks new
\* connection attempts.  After it has returned 0 no connection is in use.
NoneInUseAfterShutdown == ~allow /\ ~shutting => InUse = {}

=============================================================================
