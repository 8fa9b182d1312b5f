--------------------------- MODULE ConnectionPool ---------------------------
(***************************************************************************)
(* The pool of keep-alive connections (engine/dlib/src/dlib/connection_    *)
(* pool.cpp) that every HTTP client of the process shares.  A dial looks a *)
(* host up and connects without the pool's mutex; it takes the mutex twice,*)
(* to find an idle connection or reserve a slot, and to fill the slot in.  *)
(*                                                                         *)
(* One action is one read of the pool without the mutex, or one stretch of *)
(* code that holds it, with what the thread does on its own before it.  An *)
(* address is a host with a family, and that pair stands for the           *)
(* connection's hash; the SSL handle of a slot is valid exactly when its   *)
(* host is secure and its socket is valid.  The file descriptors are a     *)
(* small set that the system hands out again.  The results of sockets are  *)
(* told apart as far as a caller does.                                     *)
(***************************************************************************)
EXTENDS Integers, FiniteSets, FiniteSetsExt

CONSTANTS Threads,
          Hosts, Secure,   \* hosts, and those dialled with ssl
          Addresses,       \* the families each host has an address in
          MaxConnections,  \* m_MaxConnections
          MaxDescriptors,  \* sockets the system has for the process
          VersionRange     \* 2^16, the range of m_NextVersion

Families == {"ipv4", "ipv6"}

ASSUME ConnectionPoolAssumption ==
  /\ Secure \subseteq Hosts /\ Addresses \in [Hosts -> SUBSET Families]
  /\ MaxConnections \in Nat \ {0} /\ MaxDescriptors \in Nat
  /\ VersionRange \in Nat /\ VersionRange > 1

Slots == 1 .. MaxConnections
Sockets == 1 .. MaxDescriptors
INVALID_SOCKET_HANDLE == 0
NoHandle == [version |-> 0, index |-> 0]

VARIABLES conns,        \* m_Connections
          next_version, \* m_NextVersion
          allow,        \* m_AllowNewConnections
          sockets,      \* what the system knows of each socket
          dials,        \* the call of Dial each thread is in, or its result
          abandoned     \* sockets a failed handshake left open

poolVars == <<conns, next_version, allow>>
vars_pool == <<poolVars, sockets, dials, abandoned>>

\* A connection after Clear.  m_ReuseCount is above 0 while the connection is in use
\* if it was found, not made, by the dial that handed it out.
NoConnection == [state |-> "free", host |-> "none", family |-> "none", expired |-> FALSE,
                 socket |-> INVALID_SOCKET_HANDLE, version |-> 0, reused |-> FALSE,
                 was_shutdown |-> FALSE]

\* A dial; sr is the socket result of the caller's client, by pointer.
NoDial == [pc |-> "idle", host |-> "none", family |-> "none", r |-> "none", sr |-> "ok",
           index |-> 0, handle |-> NoHandle]

PoolInit ==
  /\ conns = [i \in Slots |-> NoConnection] /\ next_version = 0 /\ allow = TRUE
  /\ sockets = [s \in Sockets |-> "none"] /\ dials = [t \in Threads |-> NoDial]
  /\ abandoned = {}

-----------------------------------------------------------------------------
(* The pool's tables.                                                      *)

\* MakeHandle: 0 is no version, and the counter wraps.
Version == IF next_version = 0 THEN 1 ELSE next_version
VersionAfter == (Version + 1) % VersionRange

\* mutant: DoClose forgets dmSocket::Delete
DeletedNone(slots) == sockets

\* The sockets that a set of slots gives back to the system, and the rest.
Deleted(slots) == [s \in Sockets |->
  IF \E i \in slots : conns[i].socket = s THEN "none" ELSE sockets[s]]
Cleared(slots) == [i \in Slots |-> IF i \in slots THEN NoConnection ELSE conns[i]]

\* PurgeExpired closes these.
Expired == {i \in Slots : conns[i].state = "connected" /\ conns[i].expired}

\* What FindConnection takes: an idle connection to the same address.
Matching(t) == {i \in Slots \ Expired :
  /\ conns[i].state = "connected"
  /\ conns[i].host = dials[t].host /\ conns[i].family = dials[t].family}

\* What FindSlot takes, PurgeExpired having been called.
FreeSlots == {i \in Slots : conns[i].state = "free"} \cup Expired

\* GetConnection's assertion, and the one each caller of it makes.
Valid(handle) ==
  /\ handle.index \in Slots
  /\ conns[handle.index].version = handle.version
  /\ conns[handle.index].state = "inuse"

-----------------------------------------------------------------------------
(* Dial.                                                                   *)

Dial(t, host) ==
  /\ dials[t].pc = "idle"
  /\ dials' = [dials EXCEPT ![t] = [NoDial EXCEPT !.pc = "resolve", !.host = host,
                                                  !.family = "ipv4"]]

\* DoDial failed: Dial tries ipv6 after ipv4, unless that would not help or the
\* time is up.
Conclusive(t, r, sr) ==
  \/ dials[t].family = "ipv6"
  \/ r \in {"shut_down", "out_of_resources"}
  \/ r = "handshake_failed" /\ sr # "wouldblock"

Dialled(t, r, sr) ==
  \/ /\ Conclusive(t, r, sr)
     /\ dials' = [dials EXCEPT ![t] = [NoDial EXCEPT !.pc = "done", !.r = r, !.sr = sr]]
  \/ /\ ~Conclusive(t, r, sr)
     /\ \/ dials' = [dials EXCEPT ![t] = [NoDial EXCEPT !.pc = "done", !.r = "socket_error",
                                                       !.sr = sr]]
        \/ dials' = [dials EXCEPT ![t] = [NoDial EXCEPT !.pc = "resolve", !.host = dials[t].host,
                                                       !.family = "ipv6", !.sr = sr]]

\* Dial hands a connection out.
Connected(t, sr, index) ==
  dials' = [dials EXCEPT ![t] = [NoDial EXCEPT
              !.pc = "done", !.r = "ok", !.sr = sr,
              !.handle = [version |-> Version, index |-> index]]]

\* The flag is read before the mutex is taken; then GetHostByNameT succeeds, or
\* fails, or takes all of the time.
DialResolve(t) ==
  /\ dials[t].pc = "resolve"
  /\ \/ ~allow /\ Dialled(t, "shut_down", dials[t].sr)
     \/ allow /\ dials[t].family \in Addresses[dials[t].host]
              /\ dials' = [dials EXCEPT ![t].pc = "reserve"]
     \/ allow /\ Dialled(t, "socket_error", "failed")
     \/ allow /\ Dialled(t, "socket_error", dials[t].sr)
  /\ UNCHANGED <<poolVars, sockets, abandoned>>

\* Under the mutex: PurgeExpired, then FindConnection, then FindSlot.
DialReuse(t) ==
  /\ dials[t].pc = "reserve"
  /\ Matching(t) # {}
  /\ LET i == Min(Matching(t))
     IN /\ conns' = [Cleared(Expired) EXCEPT ![i].state = "inuse", ![i].reused = TRUE,
                                             ![i].version = Version]
        /\ Connected(t, dials[t].sr, i)
  /\ sockets' = Deleted(Expired)
  /\ next_version' = VersionAfter
  /\ UNCHANGED <<allow, abandoned>>

\* mutant: the slot is not marked before the mutex is released
DialReserveUnmarked(t) ==
  /\ dials[t].pc = "reserve"
  /\ Matching(t) = {} /\ FreeSlots # {}
  /\ conns' = Cleared(Expired)
  /\ dials' = [dials EXCEPT ![t].pc = "connect", ![t].index = Min(FreeSlots)]
  /\ sockets' = Deleted(Expired)
  /\ UNCHANGED <<next_version, allow, abandoned>>

DialReserve(t) ==
  /\ dials[t].pc = "reserve"
  /\ Matching(t) = {} /\ FreeSlots # {}
  /\ LET i == Min(FreeSlots)
     IN /\ conns' = [Cleared(Expired) EXCEPT ![i].state = "inuse"]
        /\ dials' = [dials EXCEPT ![t].pc = "connect", ![t].index = i]
  /\ sockets' = Deleted(Expired)
  /\ UNCHANGED <<next_version, allow, abandoned>>

DialNoSlot(t) ==
  /\ dials[t].pc = "reserve"
  /\ Matching(t) = {} /\ FreeSlots = {}
  /\ Dialled(t, "out_of_resources", dials[t].sr)
  /\ UNCHANGED <<poolVars, sockets, abandoned>>

Unused == {s \in Sockets : sockets[s] = "none"}

\* mutant: m_WasShutdown is not reset
FilledStale(t, socket) ==
  [state |-> "inuse", host |-> dials[t].host, family |-> dials[t].family,
   expired |-> FALSE, socket |-> socket, version |-> Version,
   reused |-> FALSE, was_shutdown |-> conns[dials[t].index].was_shutdown]

\* What DoDial writes into the slot it reserved.
Filled(t, socket) ==
  [state |-> "inuse", host |-> dials[t].host, family |-> dials[t].family,
   expired |-> FALSE, socket |-> socket, version |-> Version,
   reused |-> FALSE, was_shutdown |-> FALSE]

\* Connect succeeds, and under the mutex again the slot is filled in.
DialConnected(t) ==
  /\ dials[t].pc = "connect" /\ Unused # {}
  /\ sockets' = [sockets EXCEPT ![Min(Unused)] = "open"]
  /\ conns' = [conns EXCEPT ![dials[t].index] = Filled(t, Min(Unused))]
  /\ next_version' = VersionAfter
  /\ Connected(t, "ok", dials[t].index)
  /\ UNCHANGED <<allow, abandoned>>

\* Connect fails, and the slot is freed.  ConnectSocket deletes the socket it
\* cannot use; time that is up only then leaves its result at ok.
DialFailed(t) ==
  /\ dials[t].pc = "connect"
  /\ conns' = Cleared({dials[t].index})
  /\ \E sr \in {"ok", "wouldblock", "failed"} : Dialled(t, "socket_error", sr)
  /\ UNCHANGED <<next_version, allow, sockets, abandoned>>

\* The handshake fails: the socket stays open and nobody has it.
DialHandshakeFailed(t) ==
  /\ dials[t].pc = "connect" /\ Unused # {} /\ dials[t].host \in Secure
  /\ sockets' = [sockets EXCEPT ![Min(Unused)] = "open"]
  /\ abandoned' = abandoned \cup {Min(Unused)}
  /\ conns' = Cleared({dials[t].index})
  /\ \E sr \in {"wouldblock", "failed"} : Dialled(t, "handshake_failed", sr)
  /\ UNCHANGED <<next_version, allow>>

DialStep(t) ==
  \/ DialResolve(t) \/ DialReuse(t) \/ DialReserve(t) \/ DialNoSlot(t)
  \/ DialConnected(t) \/ DialFailed(t) \/ DialHandshakeFailed(t)

-----------------------------------------------------------------------------
(* What a thread does with the connection it has.                          *)

Return(handle) ==
  /\ conns' = [conns EXCEPT ![handle.index].state = "connected",
                            ![handle.index].reused = FALSE]
  /\ UNCHANGED sockets

Close(handle) ==
  /\ conns' = Cleared({handle.index})
  /\ sockets' = Deleted({handle.index})

-----------------------------------------------------------------------------
(* The whole pool.                                                         *)

InUse == {i \in Slots : conns[i].state = "inuse"}

\* Shutdown shuts down what is in use and was not shut down before.
ShutDownNow == {i \in InUse : ~conns[i].was_shutdown}
Shutdown ==
  /\ conns' = [i \in Slots |-> IF i \in InUse THEN [conns[i] EXCEPT !.was_shutdown = TRUE]
                                              ELSE conns[i]]
  /\ sockets' = [s \in Sockets |-> IF \E i \in ShutDownNow : conns[i].socket = s
                                   THEN "shut" ELSE sockets[s]]
  /\ allow' = FALSE
  /\ UNCHANGED <<next_version, dials, abandoned>>

\* Reopen deletes the idle connections.
Idle == {i \in Slots : conns[i].state = "connected"}
Reopen ==
  /\ ~allow
  /\ conns' = Cleared(Idle) /\ sockets' = Deleted(Idle)
  /\ allow' = TRUE
  /\ UNCHANGED <<next_version, dials, abandoned>>

\* The time that m_Expires holds comes; only an idle connection is asked.
Expires(i) ==
  /\ conns[i].state = "connected" /\ ~conns[i].expired
  /\ conns' = [conns EXCEPT ![i].expired = TRUE]
  /\ UNCHANGED <<next_version, allow, sockets, dials, abandoned>>

\* The other end closes a connection that somebody will look at.
PeerCloses(s) ==
  /\ sockets[s] = "open" /\ s \notin abandoned
  /\ sockets' = [sockets EXCEPT ![s] = "peer_closed"]
  /\ UNCHANGED <<poolVars, dials, abandoned>>

=============================================================================
