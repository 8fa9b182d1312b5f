-------------------------- MODULE HttpClientProofs --------------------------
(*****************************************************************************)
(* Proofs about HttpClient and the ConnectionPool it uses, for every         *)
(* number of threads, hosts, slots, descriptors and versions: a slot of      *)
(* the pool has one user, a socket one owner, and the loop of attempts is    *)
(* long enough to use up every stale connection of the pool.                 *)
(*****************************************************************************)
EXTENDS HttpClient, WellFoundedInduction, FiniteSetTheorems, TLAPS

\* A set of numbers that is not empty has a least element.
LEMMA NatMin ==
  ASSUME NEW T, T \subseteq Nat, T # {}
  PROVE  \E x \in T : \A y \in T : x <= y
<1> DEFINE R == OpToRel(<, Nat)
<1>1. IsWellFoundedOn(R, Nat)
  BY NatLessThanWellFounded
<1>2. \A x, y \in Nat : ~(<<y, x>> \in R) => x <= y
  BY DEF OpToRel
<1> HIDE DEF R
<1>3. PICK x \in T : \A y \in T : ~ (<<y, x>> \in R)
  BY <1>1, WFMin
<1>4. x \in Nat /\ \A y \in T : y \in Nat
  OBVIOUS
<1>5. \A y \in T : x <= y
  BY <1>2, <1>3, <1>4
<1> QED
  BY <1>5

\* The community module's Min is an element of the set.
LEMMA MinIsElement ==
  ASSUME NEW T, T \subseteq Nat, T # {}
  PROVE  Min(T) \in T
  BY NatMin DEF Min

-----------------------------------------------------------------------------
\* What the variables hold: a dial, a request and a slot of the pool.
DialRecord ==
  [pc : {"idle", "resolve", "reserve", "connect", "done"}, host : Hosts \cup {"none"},
   family : Families \cup {"none"},
   r : {"none", "ok", "shut_down", "out_of_resources", "socket_error", "handshake_failed"},
   sr : {"ok", "wouldblock", "failed"}, index : 0 .. MaxConnections,
   handle : [version : 0 .. VersionRange - 1, index : 0 .. MaxConnections]]

\* A request of the client.
RequestRecord ==
  [pc : {"idle", "attempt", "dial", "exchange"}, host : Hosts \cup {"none"},
   tries : 0 .. MaxGetRetries, left : 0 .. Attempts, expired : BOOLEAN, disturbed : BOOLEAN]

\* A slot of the pool.
ConnectionRecord ==
  [state : {"free", "connected", "inuse"}, host : Hosts \cup {"none"},
   family : Families \cup {"none"}, expired : BOOLEAN,
   socket : Sockets \cup {INVALID_SOCKET_HANDLE},
   version : 0 .. VersionRange - 1, reused : BOOLEAN, was_shutdown : BOOLEAN]

\* The type of every variable, and that whoever has a slot names one that exists.
Typed ==
  /\ conns \in [Slots -> ConnectionRecord]
  /\ next_version \in 0 .. VersionRange - 1 /\ allow \in BOOLEAN /\ shutting \in BOOLEAN
  /\ sockets \in [Sockets -> {"none", "open", "peer_closed", "shut"}]
  /\ abandoned \subseteq Sockets
  /\ dials \in [Threads -> DialRecord]
  /\ reqs \in [Threads -> RequestRecord]
  /\ \A c \in Threads : Reserving(c) => dials[c].index \in Slots
  /\ \A c \in Threads : Holding(c) => dials[c].handle.index \in Slots

\* The ranges of the counters hold their first and last values.
LEMMA NonEmptyRanges ==
  /\ 0 \in 0 .. MaxConnections /\ 0 \in 0 .. VersionRange - 1
  /\ 0 \in 0 .. MaxGetRetries /\ 1 \in 0 .. MaxGetRetries /\ MaxGetRetries \in 0 .. MaxGetRetries
  /\ 0 \in 0 .. Attempts /\ Attempts \in 0 .. Attempts
  BY ConnectionPoolAssumption, HttpClientAssumption DEF Attempts

\* The records at rest have their types.
LEMMA EmptyRecords ==
  /\ NoConnection \in ConnectionRecord
  /\ NoDial \in DialRecord
  /\ NoRequest \in RequestRecord
<1>1. NoConnection \in ConnectionRecord
  BY NonEmptyRanges DEF NoConnection, ConnectionRecord, INVALID_SOCKET_HANDLE
<1>2. NoDial \in DialRecord
  BY NonEmptyRanges DEF NoDial, DialRecord, NoHandle
<1>3. NoRequest \in RequestRecord
  BY NonEmptyRanges DEF NoRequest, RequestRecord
<1> QED
  BY <1>1, <1>2, <1>3

\* m_NextVersionNumber stays in its range when it wraps.
LEMMA VersionType ==
  ASSUME next_version \in 0 .. VersionRange - 1
  PROVE  Version \in 0 .. VersionRange - 1 /\ VersionAfter \in 0 .. VersionRange - 1
  BY ConnectionPoolAssumption DEF Version, VersionAfter

\* The initial state is well typed.
LEMMA TypedInit == Init => Typed
<1> SUFFICES ASSUME Init PROVE Typed
  OBVIOUS
<1> USE DEF Init, PoolInit
<1>1. conns \in [Slots -> ConnectionRecord]
  BY EmptyRecords
<1>2. dials \in [Threads -> DialRecord] /\ reqs \in [Threads -> RequestRecord]
  BY EmptyRecords
<1>3. \A c \in Threads : ~Reserving(c) /\ ~Holding(c)
  BY DEF Reserving, Holding, NoDial
<1> QED
  BY <1>1, <1>2, <1>3, NonEmptyRanges DEF Typed

\* The results of a Dial that failed.
Failure == {"shut_down", "out_of_resources", "socket_error", "handshake_failed"}

\* A failed dial is over, or goes on with the other address family.
LEMMA DialledType ==
  ASSUME Typed, NEW t \in Threads, NEW r \in Failure,
         NEW sr \in {"ok", "wouldblock", "failed"}, Dialled(t, r, sr)
  PROVE  \E d \in DialRecord :
           /\ dials' = [dials EXCEPT ![t] = d]
           /\ \/ d.pc = "done" /\ d.r # "ok"
              \/ d.pc = "resolve" /\ d.host = dials[t].host /\ d.family = "ipv6"
<1> DEFINE D(v) == [NoDial EXCEPT !.pc = "done", !.r = v, !.sr = sr]
           E == [NoDial EXCEPT !.pc = "resolve", !.host = dials[t].host, !.family = "ipv6", !.sr = sr]
<1>1. ASSUME NEW v \in Failure PROVE D(v) \in DialRecord /\ D(v).pc = "done" /\ D(v).r # "ok"
  BY NonEmptyRanges DEF NoDial, DialRecord, NoHandle, Failure
<1>2. dials[t] \in DialRecord
  BY DEF Typed
<1>3. E \in DialRecord /\ E.pc = "resolve" /\ E.host = dials[t].host /\ E.family = "ipv6"
  BY NonEmptyRanges, <1>2 DEF NoDial, DialRecord, NoHandle, Families
<1>4. \/ dials' = [dials EXCEPT ![t] = D(r)]
      \/ dials' = [dials EXCEPT ![t] = D("socket_error")]
      \/ dials' = [dials EXCEPT ![t] = E]
  BY DEF Dialled
<1>5. "socket_error" \in Failure
  BY DEF Failure
<1> QED
  BY <1>1, <1>3, <1>4, <1>5

\* Clearing slots keeps the type of the pool.
LEMMA ClearedType ==
  ASSUME Typed, NEW S
  PROVE  Cleared(S) \in [Slots -> ConnectionRecord]
  BY EmptyRecords DEF Typed, Cleared

\* Deleting sockets keeps the type of the descriptors.
LEMMA DeletedType ==
  ASSUME Typed, NEW S
  PROVE  Deleted(S) \in [Sockets -> {"none", "open", "peer_closed", "shut"}]
  BY DEF Typed, Deleted

-----------------------------------------------------------------------------
\* The part of the type that is about dials.
DialsTyped ==
  /\ dials \in [Threads -> DialRecord]
  /\ \A c \in Threads : Reserving(c) => dials[c].index \in Slots
  /\ \A c \in Threads : Holding(c) => dials[c].handle.index \in Slots

\* The part of the type that is about slots and descriptors.
PoolTyped ==
  /\ conns \in [Slots -> ConnectionRecord]
  /\ sockets \in [Sockets -> {"none", "open", "peer_closed", "shut"}]
  /\ next_version \in 0 .. VersionRange - 1 /\ allow \in BOOLEAN
  /\ abandoned \subseteq Sockets

\* A step that changes one dial keeps the types of all.
LEMMA DialsStep ==
  ASSUME DialsTyped, NEW t \in Threads, NEW d \in DialRecord,
         d.pc = "connect" => d.index \in Slots,
         d.pc = "done" /\ d.r = "ok" => d.handle.index \in Slots,
         dials' = [dials EXCEPT ![t] = d]
  PROVE  DialsTyped'
  BY DEF DialsTyped, Reserving, Holding

\* A dial that succeeded holds slot i under the version that was just handed out.
LEMMA ConnectedType ==
  ASSUME Typed, NEW t \in Threads, NEW sr \in {"ok", "wouldblock", "failed"}, NEW i \in Slots,
         Connected(t, sr, i)
  PROVE  \E d \in DialRecord :
           /\ dials' = [dials EXCEPT ![t] = d]
           /\ d.pc = "done" /\ d.r = "ok" /\ d.handle.index = i /\ d.handle.version = Version
<1> DEFINE D == [NoDial EXCEPT !.pc = "done", !.r = "ok", !.sr = sr,
                               !.handle = [version |-> Version, index |-> i]]
<1>1. Version \in 0 .. VersionRange - 1
  BY VersionType DEF Typed
<1>2. i \in 0 .. MaxConnections
  BY ConnectionPoolAssumption DEF Slots
<1>3. D \in DialRecord
  BY <1>1, <1>2, NonEmptyRanges DEF NoDial, DialRecord, NoHandle
<1>4. D.pc = "done" /\ D.r = "ok" /\ D.handle.index = i /\ D.handle.version = Version
  BY DEF NoDial
<1> QED
  BY <1>3, <1>4 DEF Connected

\* The slot FindConnection picks is a connected one that has not expired.
LEMMA MinMatching ==
  ASSUME NEW t, Matching(t) # {}
  PROVE  /\ Min(Matching(t)) \in Slots \ Expired
         /\ conns[Min(Matching(t))].state = "connected"
  BY MinIsElement, ConnectionPoolAssumption DEF Matching, Slots

\* The slot that is reserved is free, or its connection has expired.
LEMMA MinFreeSlots ==
  ASSUME FreeSlots # {}
  PROVE  /\ Min(FreeSlots) \in Slots
         /\ conns[Min(FreeSlots)].state = "free" \/ Min(FreeSlots) \in Expired
  BY MinIsElement, ConnectionPoolAssumption DEF FreeSlots, Expired, Slots

\* The descriptor the system hands out was not in use.
LEMMA MinUnused ==
  ASSUME Unused # {}
  PROVE  Min(Unused) \in Sockets /\ sockets[Min(Unused)] = "none" /\ Min(Unused) # INVALID_SOCKET_HANDLE
  BY MinIsElement, ConnectionPoolAssumption DEF Unused, Sockets, INVALID_SOCKET_HANDLE

\* After an exchange the request is over, or starts again with all attempts.
LEMMA AfterRequestType ==
  ASSUME Typed, NEW c \in Threads, NEW r, NEW sr
  PROVE  /\ AfterRequest(c, r, sr) \in RequestRecord
         /\ \/ AfterRequest(c, r, sr).pc = "idle"
            \/ /\ AfterRequest(c, r, sr).pc = "attempt"
               /\ AfterRequest(c, r, sr).left = Attempts
<1>1. reqs[c] \in RequestRecord
  BY DEF Typed
<1>2. CASE AfterRequest(c, r, sr) = NoRequest
  <2>1. NoRequest.pc = "idle"
    BY DEF NoRequest
  <2> QED
    BY <1>2, <2>1, EmptyRecords
<1>3. CASE AfterRequest(c, r, sr) = Started(reqs[c].host, reqs[c].tries - 1) /\ reqs[c].tries > 1
  <2>1. reqs[c].tries - 1 \in 0 .. MaxGetRetries /\ Attempts \in 0 .. Attempts
    BY <1>1, <1>3, NonEmptyRanges, HttpClientAssumption DEF RequestRecord
  <2> QED
    BY <1>1, <1>3, <2>1 DEF Started, NoRequest, RequestRecord
<1> QED
  BY <1>2, <1>3 DEF AfterRequest

\* A new request is well typed.
LEMMA StartedType ==
  ASSUME NEW h \in Hosts, NEW n \in {1, MaxGetRetries}
  PROVE  Started(h, n) \in RequestRecord
  BY NonEmptyRanges DEF Started, NoRequest, RequestRecord

(***************************************************************************)
(* Each step of a dial, by what it does to the pool's state.               *)
(***************************************************************************)
\* A step of a dial keeps the types of the pool and of the dials.
LEMMA PoolTypedStep ==
  ASSUME Typed, NEW t \in Threads, DialStep(t)
  PROVE  PoolTyped' /\ DialsTyped'
<1>1. PoolTyped /\ DialsTyped /\ dials[t] \in DialRecord
  BY DEF Typed, PoolTyped, DialsTyped
<1>2. dials[t].sr \in {"ok", "wouldblock", "failed"}
  BY <1>1 DEF DialRecord
<1>3. ASSUME NEW r \in Failure, NEW sr \in {"ok", "wouldblock", "failed"}, Dialled(t, r, sr)
      PROVE  DialsTyped'
  BY <1>1, <1>3, DialledType, DialsStep
<1>4. ASSUME NEW sr \in {"ok", "wouldblock", "failed"}, NEW i \in Slots, Connected(t, sr, i)
      PROVE  DialsTyped'
  BY <1>1, <1>4, ConnectedType, DialsStep
<1>5. Version \in 0 .. VersionRange - 1 /\ VersionAfter \in 0 .. VersionRange - 1
  BY <1>1, VersionType DEF PoolTyped
<1>6. /\ Cleared(Expired) \in [Slots -> ConnectionRecord]
      /\ Cleared({dials[t].index}) \in [Slots -> ConnectionRecord]
      /\ Deleted(Expired) \in [Sockets -> {"none", "open", "peer_closed", "shut"}]
  BY ClearedType, DeletedType
<1>7. {"shut_down", "out_of_resources", "socket_error", "handshake_failed"} = Failure
  BY DEF Failure
<1>a. CASE DialResolve(t)
  <2>1. PoolTyped'
    BY <1>1, <1>a DEF DialResolve, PoolTyped, poolVars
  <2>2. CASE dials' = [dials EXCEPT ![t].pc = "reserve"]
    <3>1. [dials[t] EXCEPT !.pc = "reserve"] \in DialRecord
      BY <1>1 DEF DialRecord
    <3>2. dials' = [dials EXCEPT ![t] = [dials[t] EXCEPT !.pc = "reserve"]]
      BY <1>1, <2>2 DEF DialsTyped
    <3>3. [dials[t] EXCEPT !.pc = "reserve"].pc = "reserve"
      BY <1>1 DEF DialRecord
    <3> QED
      BY <2>1, <3>1, <3>2, <3>3, <1>1, DialsStep
  <2> QED
    BY <1>a, <1>2, <1>3, <1>7, <2>1, <2>2 DEF DialResolve
<1>b. CASE DialReuse(t)
  <2> DEFINE i == Min(Matching(t))
  <2>1. i \in Slots
    BY <1>b, MinMatching DEF DialReuse
  <2>2. DialsTyped'
    BY <1>b, <2>1, <1>4, <1>2 DEF DialReuse
  <2>3. conns' = [Cleared(Expired) EXCEPT ![i] =
           [Cleared(Expired)[i] EXCEPT !.state = "inuse", !.reused = TRUE, !.version = Version]]
    BY <1>b, <1>6, <2>1 DEF DialReuse, ConnectionRecord
  <2>4. Cleared(Expired)[i] \in ConnectionRecord
    BY <1>6, <2>1
  <2>5. [Cleared(Expired)[i] EXCEPT !.state = "inuse", !.reused = TRUE, !.version = Version]
          \in ConnectionRecord
    BY <2>4, <1>5 DEF ConnectionRecord
  <2>6. conns' \in [Slots -> ConnectionRecord]
    BY <2>3, <2>5, <1>6
  <2> QED
    BY <1>b, <1>1, <1>5, <1>6, <2>2, <2>6 DEF DialReuse, PoolTyped
<1>c. CASE DialReserve(t)
  <2> DEFINE i == Min(FreeSlots)
             d == [dials[t] EXCEPT !.pc = "connect", !.index = i]
  <2>1. i \in Slots /\ i \in 0 .. MaxConnections
    BY <1>c, MinFreeSlots, ConnectionPoolAssumption DEF DialReserve, Slots
  <2>2. d \in DialRecord /\ d.pc = "connect" /\ d.index = i
    BY <1>1, <2>1 DEF DialRecord
  <2>3. dials' = [dials EXCEPT ![t] = d]
    BY <1>1, <1>c DEF DialReserve, DialsTyped, DialRecord
  <2>4. DialsTyped'
    BY <1>1, <2>1, <2>2, <2>3, DialsStep
  <2>5. Cleared(Expired)[i] \in ConnectionRecord
    BY <1>6, <2>1
  <2>6. [Cleared(Expired)[i] EXCEPT !.state = "inuse"] \in ConnectionRecord
    BY <2>5 DEF ConnectionRecord
  <2>7. conns' \in [Slots -> ConnectionRecord]
    BY <1>c, <1>6, <2>1, <2>6 DEF DialReserve
  <2> QED
    BY <1>c, <1>1, <1>6, <2>4, <2>7 DEF DialReserve, PoolTyped
<1>d. CASE DialNoSlot(t)
  BY <1>d, <1>1, <1>2, <1>3, <1>7 DEF DialNoSlot, PoolTyped, poolVars
<1>e. CASE DialConnected(t)
  <2>1. dials[t].index \in Slots
    BY <1>1, <1>e DEF DialConnected, DialsTyped, Reserving
  <2>2. Min(Unused) \in Sockets
    BY <1>e, MinUnused DEF DialConnected
  <2>3. Filled(t, Min(Unused)) \in ConnectionRecord
    BY <1>1, <1>5, <2>2 DEF Filled, ConnectionRecord, DialRecord
  <2>4. DialsTyped'
    BY <1>e, <1>4, <2>1 DEF DialConnected
  <2>5. /\ conns' \in [Slots -> ConnectionRecord]
        /\ sockets' \in [Sockets -> {"none", "open", "peer_closed", "shut"}]
    BY <1>e, <1>1, <2>1, <2>2, <2>3 DEF DialConnected, PoolTyped
  <2> QED
    BY <1>e, <1>1, <1>5, <2>4, <2>5 DEF DialConnected, PoolTyped
<1>f. CASE DialFailed(t)
  BY <1>f, <1>1, <1>3, <1>6, <1>7 DEF DialFailed, PoolTyped
<1>g. CASE DialHandshakeFailed(t)
  <2>1. Min(Unused) \in Sockets
    BY <1>g, MinUnused DEF DialHandshakeFailed
  <2>2. /\ sockets' \in [Sockets -> {"none", "open", "peer_closed", "shut"}]
        /\ abandoned' \subseteq Sockets
    BY <1>g, <1>1, <2>1 DEF DialHandshakeFailed, PoolTyped
  <2>3. DialsTyped'
    BY <1>g, <1>3, <1>7 DEF DialHandshakeFailed
  <2> QED
    BY <1>g, <1>1, <1>6, <2>2, <2>3 DEF DialHandshakeFailed, PoolTyped
<1> QED
  BY <1>a, <1>b, <1>c, <1>d, <1>e, <1>f, <1>g DEF DialStep

\* The part of the type that is about requests.
RequestsTyped == reqs \in [Threads -> RequestRecord] /\ shutting \in BOOLEAN

\* The type is the conjunction of its three parts.
LEMMA TypedParts ==
  /\ Typed <=> PoolTyped /\ DialsTyped /\ RequestsTyped
  /\ Typed' <=> PoolTyped' /\ DialsTyped' /\ RequestsTyped'
  BY DEF Typed, PoolTyped, DialsTyped, RequestsTyped

\* Giving a connection back keeps all types.
LEMMA ReleaseType ==
  ASSUME Typed, NEW c \in Threads, NEW close \in BOOLEAN, NEW after \in RequestRecord,
         Holding(c), Release(c, close, after)
  PROVE  Typed'
<1>1. PoolTyped /\ DialsTyped /\ RequestsTyped
  BY TypedParts
<1>2. dials[c].handle.index \in Slots
  BY <1>1 DEF DialsTyped
<1>3. DialsTyped'
  <2>1. NoDial.pc = "idle"
    BY DEF NoDial
  <2> QED
    BY <1>1, <2>1, EmptyRecords, DialsStep DEF Release
<1>4. RequestsTyped'
  <2>1. \A d \in Threads : \A b \in BOOLEAN :
          [reqs[d] EXCEPT !.disturbed = @ \/ b] \in RequestRecord
    BY <1>1 DEF RequestsTyped, RequestRecord
  <2>2. \A d \in Threads : (~close /\ reqs[d].pc # "idle") \in BOOLEAN
    OBVIOUS
  <2>3. shutting' = shutting
    BY DEF Release
  <2> DEFINE after2(d) == IF d = c THEN after
                          ELSE [reqs[d] EXCEPT !.disturbed = @ \/ (~close /\ reqs[d].pc # "idle")]
  <2>4. \A d \in Threads : after2(d) \in RequestRecord
    BY <2>1, <2>2
  <2>5. reqs' = [d \in Threads |-> after2(d)]
    BY DEF Release
  <2> HIDE DEF after2
  <2> QED
    BY <1>1, <2>3, <2>4, <2>5 DEF RequestsTyped
<1>5. conns' \in [Slots -> ConnectionRecord]
  <2>1. CASE close
    BY <2>1, ClearedType DEF Release, Close
  <2>2. CASE ~close
    <3>1. conns[dials[c].handle.index] \in ConnectionRecord
      BY <1>1, <1>2 DEF PoolTyped
    <3>2. [conns[dials[c].handle.index] EXCEPT !.state = "connected", !.reused = FALSE]
            \in ConnectionRecord
      BY <3>1 DEF ConnectionRecord
    <3>3. conns' = [conns EXCEPT ![dials[c].handle.index] =
                      [conns[dials[c].handle.index] EXCEPT !.state = "connected", !.reused = FALSE]]
      BY <1>1, <1>2, <2>2 DEF Release, Return, PoolTyped, ConnectionRecord
    <3> QED
      BY <1>1, <3>2, <3>3 DEF PoolTyped
  <2> QED
    BY <2>1, <2>2
<1>6. sockets' \in [Sockets -> {"none", "open", "peer_closed", "shut"}]
  BY <1>1, DeletedType DEF Release, Close, Return, PoolTyped
<1>7. PoolTyped'
  BY <1>1, <1>5, <1>6 DEF Release, PoolTyped
<1> QED
  BY <1>3, <1>4, <1>7, TypedParts

\* Every step keeps the types.
LEMMA TypedStep ==
  ASSUME Typed, \A c \in Threads : reqs[c].pc = "exchange" => Holding(c), [Next]_vars
  PROVE  Typed'
<1>1. PoolTyped /\ DialsTyped /\ RequestsTyped
  BY TypedParts
<1> USE DEF vars, vars_pool, poolVars
<1>2. ASSUME UNCHANGED vars PROVE Typed'
  BY <1>1, <1>2 DEF Typed, Reserving, Holding
<1>3. ASSUME UNCHANGED vars_pool PROVE PoolTyped' /\ DialsTyped'
  BY <1>1, <1>3 DEF PoolTyped, DialsTyped, Reserving, Holding
<1>4. ASSUME NEW c \in Threads, NEW x \in RequestRecord, reqs' = [reqs EXCEPT ![c] = x],
             UNCHANGED shutting
      PROVE  RequestsTyped'
  BY <1>1, <1>4 DEF RequestsTyped
<1>5. ASSUME NEW c \in Threads PROVE reqs[c] \in RequestRecord /\ dials[c] \in DialRecord
  BY <1>1 DEF RequestsTyped, DialsTyped
<1>a. ASSUME NEW c \in Threads, NEW h \in Hosts, Get(c, h) \/ Request(c, h) PROVE Typed'
  <2>1. Started(h, 1) \in RequestRecord /\ Started(h, MaxGetRetries) \in RequestRecord
    BY StartedType
  <2> QED
    BY <1>a, <2>1, <1>3, <1>4, TypedParts DEF Get, Request
<1>b. ASSUME NEW c \in Threads, DoRequest(c) PROVE Typed'
  <2> DEFINE x == [reqs[c] EXCEPT !.pc = "dial", !.left = @ - 1]
             d == [NoDial EXCEPT !.pc = "resolve", !.host = reqs[c].host, !.family = "ipv4"]
  <2>1. x \in RequestRecord
    <3>1. reqs[c].left - 1 \in 0 .. Attempts
      BY <1>b, <1>5, ConnectionPoolAssumption DEF DoRequest, RequestRecord, Attempts
    <3> QED
      BY <1>5, <3>1 DEF RequestRecord
  <2>2. reqs' = [reqs EXCEPT ![c] = x]
    BY <1>1, <1>b DEF DoRequest, RequestsTyped, RequestRecord
  <2>3. d \in DialRecord /\ d.pc = "resolve"
    BY <1>5, NonEmptyRanges DEF RequestRecord, DialRecord, NoDial, NoHandle, Families
  <2>4. DialsTyped'
    BY <1>1, <1>b, <2>3, DialsStep DEF DoRequest, Dial
  <2>5. PoolTyped'
    BY <1>1, <1>b DEF DoRequest, PoolTyped
  <2> QED
    BY <1>b, <1>4, <2>1, <2>2, <2>4, <2>5, TypedParts DEF DoRequest
<1>c. ASSUME NEW c \in Threads, GiveUp(c) PROVE Typed'
  BY <1>c, <1>3, <1>4, AfterRequestType, TypedParts DEF GiveUp
<1>d. ASSUME NEW c \in Threads, NotConnected(c) PROVE Typed'
  <2>1. DialsTyped'
    <3>1. NoDial.pc = "idle"
      BY DEF NoDial
    <3> QED
      BY <1>1, <1>d, <3>1, EmptyRecords, DialsStep DEF NotConnected
  <2>2. PoolTyped'
    BY <1>1, <1>d DEF NotConnected, PoolTyped
  <2> QED
    BY <1>d, <2>1, <2>2, <1>4, AfterRequestType, TypedParts DEF NotConnected
<1>e. ASSUME NEW c \in Threads, ConnectedLate(c) PROVE Typed'
  BY <1>e, ReleaseType, AfterRequestType DEF ConnectedLate, Holding
<1>f. ASSUME NEW c \in Threads, ConnectedInTime(c) PROVE Typed'
  <2>1. [reqs[c] EXCEPT !.pc = "exchange"] \in RequestRecord
    BY <1>5 DEF RequestRecord
  <2> QED
    BY <1>1, <1>f, <2>1, <1>3, <1>4, TypedParts DEF ConnectedInTime, RequestsTyped
<1>g. ASSUME NEW c \in Threads, DoDoRequest(c) PROVE Typed'
  <2>1. [reqs[c] EXCEPT !.pc = "attempt"] \in RequestRecord
    BY <1>5 DEF RequestRecord
  <2>2. Holding(c)
    BY <1>g DEF DoDoRequest
  <2>3. PICK e \in Outcomes(c) :
          Release(c, e.close \/ e.r # "ok" \/ e.sr # "ok",
                  IF TryAgain(c, e) THEN [reqs[c] EXCEPT !.pc = "attempt"]
                  ELSE AfterRequest(c, e.r, e.sr))
    BY <1>g DEF DoDoRequest
  <2>4. AfterRequest(c, e.r, e.sr) \in RequestRecord
    BY AfterRequestType
  <2>5. (IF TryAgain(c, e) THEN [reqs[c] EXCEPT !.pc = "attempt"]
                  ELSE AfterRequest(c, e.r, e.sr)) \in RequestRecord
    BY <2>1, <2>4
  <2>6. (e.close \/ e.r # "ok" \/ e.sr # "ok") \in BOOLEAN
    OBVIOUS
  <2> QED
    BY <2>2, <2>3, <2>5, <2>6, ReleaseType
<1>h. ASSUME NEW c \in Threads, Expire(c) PROVE Typed'
  <2>1. [reqs[c] EXCEPT !.expired = TRUE] \in RequestRecord
    BY <1>5 DEF RequestRecord
  <2> QED
    BY <1>1, <1>h, <2>1, <1>3, <1>4, TypedParts DEF Expire, RequestsTyped
<1>i. ASSUME NEW c \in Threads, Dialling(c) PROVE Typed'
  BY <1>1, <1>i, PoolTypedStep, TypedParts DEF Dialling, RequestsTyped
<1>j. CASE BeginShutdown
  BY <1>1, <1>3, <1>j, TypedParts DEF BeginShutdown, RequestsTyped
<1>k. CASE ShutdownConnectionPool
  <2>1. \A i \in Slots : [conns[i] EXCEPT !.was_shutdown = TRUE] \in ConnectionRecord
    BY ZenonT(60), <1>1 DEF PoolTyped, ConnectionRecord
  <2>2. conns' \in [Slots -> ConnectionRecord]
    BY <1>1, <1>k, <2>1 DEF ShutdownConnectionPool, Shutdown, PoolTyped
  <2>3. sockets' \in [Sockets -> {"none", "open", "peer_closed", "shut"}]
    BY <1>1, <1>k DEF ShutdownConnectionPool, Shutdown, PoolTyped
  <2>4. PoolTyped' /\ RequestsTyped'
    BY <1>1, <1>k, <2>2, <2>3 DEF ShutdownConnectionPool, Shutdown, PoolTyped, RequestsTyped
  <2>5. DialsTyped'
    BY <1>1, <1>k DEF ShutdownConnectionPool, Shutdown, DialsTyped, Reserving, Holding
  <2> QED
    BY <2>4, <2>5, TypedParts
<1>l. CASE ReopenConnectionPool
  <2>1. PoolTyped' /\ RequestsTyped'
    BY <1>1, <1>l, ClearedType, DeletedType
    DEF ReopenConnectionPool, Reopen, PoolTyped, RequestsTyped
  <2>2. DialsTyped'
    BY <1>1, <1>l DEF ReopenConnectionPool, Reopen, DialsTyped, Reserving, Holding
  <2> QED
    BY <2>1, <2>2, TypedParts
<1>m. ASSUME NEW i \in Slots, Expires(i), UNCHANGED <<reqs, shutting>> PROVE Typed'
  <2>1. [conns[i] EXCEPT !.expired = TRUE] \in ConnectionRecord
    BY ZenonT(60), <1>1 DEF PoolTyped, ConnectionRecord
  <2>2. PoolTyped' /\ RequestsTyped'
    BY <1>1, <1>m, <2>1 DEF Expires, PoolTyped, RequestsTyped
  <2>3. DialsTyped'
    BY <1>1, <1>m DEF Expires, DialsTyped, Reserving, Holding
  <2> QED
    BY <2>2, <2>3, TypedParts
<1>n. ASSUME NEW s \in Sockets, PeerCloses(s), UNCHANGED <<reqs, shutting>> PROVE Typed'
  <2>1. PoolTyped' /\ RequestsTyped'
    BY <1>1, <1>n DEF PeerCloses, PoolTyped, RequestsTyped
  <2>2. DialsTyped'
    BY <1>1, <1>n DEF PeerCloses, DialsTyped, Reserving, Holding
  <2> QED
    BY <2>1, <2>2, TypedParts
<1> QED
  BY <1>2, <1>a, <1>b, <1>c, <1>d, <1>e, <1>f, <1>g, <1>h, <1>i, <1>j, <1>k, <1>l, <1>m, <1>n
  DEF Next, Client

-----------------------------------------------------------------------------
(* The inductive invariant.                                                *)

\* Thread c has a slot of the pool, with a connection or for the one it dials.
User(c) == Holding(c) \/ Reserving(c)

\* A request and its dial are at matching points of their loops.
Phases ==
  \A c \in Threads :
    /\ reqs[c].pc \in {"idle", "attempt"} => dials[c].pc = "idle"
    /\ reqs[c].pc = "exchange" => Holding(c)
    /\ reqs[c].pc = "dial" => dials[c].pc # "idle"

\* A slot is in use exactly while one thread has it, and that thread's handle names the
\* slot's version: no other thread's Return or Close can meet it.
Owners ==
  /\ \A c \in Threads : User(c) => conns[SlotOf(c)].state = "inuse"
  /\ \A i \in Slots : conns[i].state = "inuse" => \E c \in Threads : User(c) /\ SlotOf(c) = i
  /\ \A c, d \in Threads : c # d /\ User(c) /\ User(d) => SlotOf(c) # SlotOf(d)
  /\ \A c \in Threads : Holding(c) => /\ conns[SlotOf(c)].version = dials[c].handle.version
                                      /\ conns[SlotOf(c)].socket # INVALID_SOCKET_HANDLE
  /\ \A c \in Threads : Reserving(c) => conns[SlotOf(c)].socket = INVALID_SOCKET_HANDLE

\* Only a slot that is in use may be without a socket while it is not free.
SlotSockets ==
  \A i \in Slots : /\ conns[i].state = "free" => conns[i].socket = INVALID_SOCKET_HANDLE
                   /\ conns[i].state = "connected" => conns[i].socket # INVALID_SOCKET_HANDLE

\* An open descriptor belongs to one slot, or was abandoned by a failed handshake; a
\* slot marked as shut down has a socket that is.
Descriptors ==
  /\ FlaggedIsShut
  /\ \A i, j \in Slots : i # j /\ conns[i].socket # INVALID_SOCKET_HANDLE
                         => conns[i].socket # conns[j].socket
  /\ \A s \in Sockets : sockets[s] # "none" <=> (\E i \in Slots : conns[i].socket = s) \/ s \in abandoned
  /\ \A i \in Slots : conns[i].socket \notin abandoned

\* A request that no other thread has disturbed by giving back a connection has more
\* attempts left than there are idle connections it could be handed.
Budget ==
  \A c \in Threads : ~reqs[c].disturbed =>
    /\ reqs[c].pc = "attempt" => Cardinality(Idle) < reqs[c].left
    /\ reqs[c].pc = "dial" => Cardinality(Idle) <= reqs[c].left
    /\ Holding(c) /\ conns[dials[c].handle.index].reused => Cardinality(Idle) < reqs[c].left

\* The inductive invariant.
IndInv == Typed /\ Phases /\ Owners /\ SlotSockets /\ Descriptors /\ Budget

-----------------------------------------------------------------------------
(* What each step does to the pool, field by field.                        *)

\* The fields of a slot at rest.
LEMMA NoConnectionFields ==
  /\ NoConnection.state = "free" /\ NoConnection.socket = INVALID_SOCKET_HANDLE
  /\ NoConnection.was_shutdown = FALSE /\ NoConnection.reused = FALSE
  BY DEF NoConnection

\* Slot j after the expired connections were purged.
Purged(j) == IF j \in Expired THEN NoConnection ELSE conns[j]

\* Dial with a connection from the pool.
LEMMA ReuseShape ==
  ASSUME Typed, NEW t \in Threads, DialReuse(t)
  PROVE  \E i \in Slots \ Expired :
           /\ conns[i].state = "connected"
           /\ conns'[i].state = "inuse" /\ conns'[i].version = Version /\ conns'[i].reused
           /\ conns'[i].socket = conns[i].socket /\ conns'[i].was_shutdown = conns[i].was_shutdown
           /\ \A j \in Slots \ {i} : conns'[j] = Purged(j)
           /\ sockets' = Deleted(Expired)
           /\ dials'[t].pc = "done" /\ dials'[t].r = "ok"
           /\ dials'[t].handle.index = i /\ dials'[t].handle.version = Version
           /\ \A c \in Threads \ {t} : dials'[c] = dials[c]
<1> DEFINE i == Min(Matching(t))
<1>1. i \in Slots \ Expired /\ conns[i].state = "connected"
  BY MinMatching DEF DialReuse
<1>2. conns[i] \in ConnectionRecord /\ dials \in [Threads -> DialRecord]
  BY <1>1 DEF Typed
<1>3. Cleared(Expired)[i] = conns[i] /\ \A j \in Slots : Cleared(Expired)[j] = Purged(j)
  BY <1>1 DEF Cleared, Purged
<1>4. Cleared(Expired) \in [Slots -> ConnectionRecord]
  BY ClearedType
<1>5. conns' = [Cleared(Expired) EXCEPT ![i] =
         [conns[i] EXCEPT !.state = "inuse", !.reused = TRUE, !.version = Version]]
  BY <1>1, <1>3, <1>4 DEF DialReuse, ConnectionRecord
<1>6. \A j \in Slots \ {i} : conns'[j] = Purged(j)
  BY <1>3, <1>4, <1>5
<1>7. conns'[i] = [conns[i] EXCEPT !.state = "inuse", !.reused = TRUE, !.version = Version]
  BY <1>1, <1>4, <1>5
<1>8. /\ conns'[i].state = "inuse" /\ conns'[i].version = Version /\ conns'[i].reused
      /\ conns'[i].socket = conns[i].socket /\ conns'[i].was_shutdown = conns[i].was_shutdown
  BY <1>2, <1>7 DEF ConnectionRecord
<1>9. dials[t].sr \in {"ok", "wouldblock", "failed"}
  BY <1>2 DEF DialRecord
<1>10. PICK d \in DialRecord :
         /\ dials' = [dials EXCEPT ![t] = d]
         /\ d.pc = "done" /\ d.r = "ok" /\ d.handle.index = i /\ d.handle.version = Version
  BY <1>1, <1>9, ConnectedType DEF DialReuse
<1>11. /\ dials'[t].pc = "done" /\ dials'[t].r = "ok"
       /\ dials'[t].handle.index = i /\ dials'[t].handle.version = Version
       /\ \A c \in Threads \ {t} : dials'[c] = dials[c]
  BY <1>2, <1>10
<1>12. sockets' = Deleted(Expired)
  BY DEF DialReuse
<1> HIDE DEF i
<1> QED
  BY <1>1, <1>6, <1>8, <1>11, <1>12

\* Dial reserves a slot for a new connection.
LEMMA ReserveShape ==
  ASSUME Typed, NEW t \in Threads, DialReserve(t)
  PROVE  \E i \in Slots :
           /\ conns[i].state = "free" \/ i \in Expired
           /\ conns'[i].state = "inuse"
           /\ conns'[i].socket = Purged(i).socket
           /\ conns'[i].was_shutdown = Purged(i).was_shutdown
           /\ \A j \in Slots \ {i} : conns'[j] = Purged(j)
           /\ sockets' = Deleted(Expired)
           /\ dials'[t].pc = "connect" /\ dials'[t].index = i
           /\ \A c \in Threads \ {t} : dials'[c] = dials[c]
<1> DEFINE i == Min(FreeSlots)
<1>1. i \in Slots /\ (conns[i].state = "free" \/ i \in Expired)
  BY MinFreeSlots DEF DialReserve
<1>2. dials \in [Threads -> DialRecord] /\ dials[t] \in DialRecord
  BY DEF Typed
<1>3. \A j \in Slots : Cleared(Expired)[j] = Purged(j)
  BY DEF Cleared, Purged
<1>4. Cleared(Expired) \in [Slots -> ConnectionRecord]
  BY ClearedType
<1>5. Purged(i) \in ConnectionRecord
  BY <1>1, <1>3, <1>4
<1>6. conns' = [Cleared(Expired) EXCEPT ![i] = [Purged(i) EXCEPT !.state = "inuse"]]
  BY <1>1, <1>3, <1>4 DEF DialReserve
<1>7. conns'[i] = [Purged(i) EXCEPT !.state = "inuse"] /\ \A j \in Slots \ {i} : conns'[j] = Purged(j)
  BY <1>1, <1>3, <1>4, <1>6
<1>8. /\ conns'[i].state = "inuse" /\ conns'[i].socket = Purged(i).socket
      /\ conns'[i].was_shutdown = Purged(i).was_shutdown
  BY <1>5, <1>7 DEF ConnectionRecord
<1>9. dials' = [dials EXCEPT ![t] = [dials[t] EXCEPT !.pc = "connect", !.index = i]]
  BY <1>2 DEF DialReserve, DialRecord
<1>10. dials'[t] = [dials[t] EXCEPT !.pc = "connect", !.index = i]
       /\ \A c \in Threads \ {t} : dials'[c] = dials[c]
  BY <1>2, <1>9
<1>11. dials'[t].pc = "connect" /\ dials'[t].index = i
  BY <1>2, <1>10 DEF DialRecord
<1>12. sockets' = Deleted(Expired)
  BY DEF DialReserve
<1> HIDE DEF i
<1> QED
  BY <1>1, <1>7, <1>8, <1>10, <1>11, <1>12

\* A new connection is put in the slot reserved for it.
LEMMA ConnectedShape ==
  ASSUME Typed, NEW t \in Threads, DialConnected(t)
  PROVE  /\ Reserving(t) /\ SlotOf(t) \in Slots
         /\ \E s \in Sockets :
              /\ s # INVALID_SOCKET_HANDLE /\ sockets[s] = "none"
              /\ sockets' = [sockets EXCEPT ![s] = "open"]
              /\ conns'[SlotOf(t)].state = "inuse" /\ conns'[SlotOf(t)].socket = s
              /\ conns'[SlotOf(t)].version = Version
              /\ ~conns'[SlotOf(t)].reused /\ ~conns'[SlotOf(t)].was_shutdown
         /\ \A j \in Slots \ {SlotOf(t)} : conns'[j] = conns[j]
         /\ dials'[t].pc = "done" /\ dials'[t].r = "ok"
         /\ dials'[t].handle.index = SlotOf(t) /\ dials'[t].handle.version = Version
         /\ \A c \in Threads \ {t} : dials'[c] = dials[c]
<1>1. Reserving(t) /\ SlotOf(t) = dials[t].index /\ SlotOf(t) \in Slots
  BY DEF DialConnected, Reserving, SlotOf, Holding, Typed
<1>2. PICK s \in Sockets : s = Min(Unused) /\ s # INVALID_SOCKET_HANDLE /\ sockets[s] = "none"
  BY MinUnused DEF DialConnected
<1>3. conns' = [conns EXCEPT ![SlotOf(t)] = Filled(t, s)] /\ sockets' = [sockets EXCEPT ![s] = "open"]
  BY <1>1, <1>2 DEF DialConnected
<1>4. conns'[SlotOf(t)] = Filled(t, s) /\ \A j \in Slots \ {SlotOf(t)} : conns'[j] = conns[j]
  BY <1>1, <1>3 DEF Typed
<1>5. /\ conns'[SlotOf(t)].state = "inuse" /\ conns'[SlotOf(t)].socket = s
      /\ conns'[SlotOf(t)].version = Version
      /\ ~conns'[SlotOf(t)].reused /\ ~conns'[SlotOf(t)].was_shutdown
  BY <1>4 DEF Filled
<1>6. PICK d \in DialRecord :
         /\ dials' = [dials EXCEPT ![t] = d]
         /\ d.pc = "done" /\ d.r = "ok" /\ d.handle.index = SlotOf(t) /\ d.handle.version = Version
  BY <1>1, ConnectedType DEF DialConnected
<1>7. /\ dials'[t].pc = "done" /\ dials'[t].r = "ok"
      /\ dials'[t].handle.index = SlotOf(t) /\ dials'[t].handle.version = Version
      /\ \A c \in Threads \ {t} : dials'[c] = dials[c]
  BY <1>6 DEF Typed
<1> QED
  BY <1>1, <1>2, <1>3, <1>4, <1>5, <1>7

\* A dial that failed clears its slot; a failed handshake abandons the socket.
LEMMA FailedShape ==
  ASSUME Typed, NEW t \in Threads, DialFailed(t) \/ DialHandshakeFailed(t)
  PROVE  /\ Reserving(t) /\ SlotOf(t) \in Slots
         /\ conns'[SlotOf(t)] = NoConnection
         /\ \A j \in Slots \ {SlotOf(t)} : conns'[j] = conns[j]
         /\ ~User(t)' /\ dials'[t].pc # "idle"
         /\ \A c \in Threads \ {t} : dials'[c] = dials[c]
         /\ \/ sockets' = sockets /\ abandoned' = abandoned
            \/ \E s \in Sockets :
                 /\ s # INVALID_SOCKET_HANDLE /\ sockets[s] = "none"
                 /\ sockets' = [sockets EXCEPT ![s] = "open"] /\ abandoned' = abandoned \cup {s}
<1>1. Reserving(t) /\ SlotOf(t) = dials[t].index /\ SlotOf(t) \in Slots
  BY DEF DialFailed, DialHandshakeFailed, Reserving, SlotOf, Holding, Typed
<1>2. conns'[SlotOf(t)] = NoConnection /\ \A j \in Slots \ {SlotOf(t)} : conns'[j] = conns[j]
  BY <1>1 DEF DialFailed, DialHandshakeFailed, Cleared
<1>3. \E r \in Failure, sr \in {"ok", "wouldblock", "failed"} : Dialled(t, r, sr)
  BY DEF DialFailed, DialHandshakeFailed, Failure
<1>4. PICK d \in DialRecord :
           /\ dials' = [dials EXCEPT ![t] = d]
           /\ \/ d.pc = "done" /\ d.r # "ok"
              \/ d.pc = "resolve"
  BY <1>3, DialledType
<1>5. dials'[t] = d /\ \A c \in Threads \ {t} : dials'[c] = dials[c]
  BY <1>4 DEF Typed
<1>6. ~User(t)' /\ dials'[t].pc # "idle"
  BY <1>4, <1>5 DEF User, Holding, Reserving
<1>7. CASE DialFailed(t)
  BY <1>1, <1>2, <1>5, <1>6, <1>7 DEF DialFailed
<1>8. CASE DialHandshakeFailed(t)
  <2>1. PICK s \in Sockets : s = Min(Unused) /\ s # INVALID_SOCKET_HANDLE /\ sockets[s] = "none"
    BY <1>8, MinUnused DEF DialHandshakeFailed
  <2>2. sockets' = [sockets EXCEPT ![s] = "open"] /\ abandoned' = abandoned \cup {s}
    BY <1>8, <2>1 DEF DialHandshakeFailed
  <2> QED
    BY <1>1, <1>2, <1>5, <1>6, <2>1, <2>2
<1> QED
  BY <1>7, <1>8

\* Steps of a dial that has no slot yet.
LEMMA ResolveShape ==
  ASSUME Typed, NEW t \in Threads, DialResolve(t) \/ DialNoSlot(t)
  PROVE  /\ UNCHANGED <<conns, sockets, abandoned>>
         /\ ~User(t) /\ ~User(t)' /\ dials[t].pc # "idle" /\ dials'[t].pc # "idle"
         /\ \A c \in Threads \ {t} : dials'[c] = dials[c]
<1>1. dials \in [Threads -> DialRecord] /\ dials[t] \in DialRecord
  BY DEF Typed
<1>2. dials[t].sr \in {"ok", "wouldblock", "failed"}
  BY <1>1 DEF DialRecord
<1>3. UNCHANGED <<conns, sockets, abandoned>> /\ ~User(t) /\ dials[t].pc # "idle"
  BY DEF DialResolve, DialNoSlot, poolVars, User, Holding, Reserving
<1>4. CASE dials' = [dials EXCEPT ![t].pc = "reserve"]
  <2>1. dials'[t] = [dials[t] EXCEPT !.pc = "reserve"] /\ \A c \in Threads \ {t} : dials'[c] = dials[c]
    BY <1>1, <1>4
  <2>2. dials'[t].pc = "reserve"
    BY <1>1, <2>1 DEF DialRecord
  <2> QED
    BY <1>3, <2>1, <2>2 DEF User, Holding, Reserving
<1>5. ASSUME NEW r \in Failure, NEW sr \in {"ok", "wouldblock", "failed"}, Dialled(t, r, sr)
      PROVE ~User(t)' /\ dials'[t].pc # "idle" /\ \A c \in Threads \ {t} : dials'[c] = dials[c]
  <2>1. PICK d \in DialRecord :
           /\ dials' = [dials EXCEPT ![t] = d]
           /\ \/ d.pc = "done" /\ d.r # "ok"
              \/ d.pc = "resolve"
    BY <1>5, DialledType
  <2>2. dials'[t] = d /\ \A c \in Threads \ {t} : dials'[c] = dials[c]
    BY <1>1, <2>1
  <2> QED
    BY <2>1, <2>2 DEF User, Holding, Reserving
<1>6. \/ dials' = [dials EXCEPT ![t].pc = "reserve"]
      \/ Dialled(t, "shut_down", dials[t].sr) \/ Dialled(t, "socket_error", "failed")
      \/ Dialled(t, "socket_error", dials[t].sr) \/ Dialled(t, "out_of_resources", dials[t].sr)
  BY DEF DialResolve, DialNoSlot
<1>7. {"shut_down", "out_of_resources", "socket_error", "handshake_failed"} = Failure
  BY DEF Failure
<1> QED
  BY <1>2, <1>3, <1>4, <1>5, <1>6, <1>7

\* Return and Close: the slot is connected again, or free.
LEMMA ReleaseShape ==
  ASSUME Typed, NEW c \in Threads, NEW close \in BOOLEAN, NEW after, Holding(c), Release(c, close, after)
  PROVE  /\ SlotOf(c) \in Slots /\ SlotOf(c) = dials[c].handle.index
         /\ close => conns'[SlotOf(c)] = NoConnection
         /\ ~close => /\ conns'[SlotOf(c)].state = "connected" /\ ~conns'[SlotOf(c)].reused
                      /\ conns'[SlotOf(c)].socket = conns[SlotOf(c)].socket
                      /\ conns'[SlotOf(c)].was_shutdown = conns[SlotOf(c)].was_shutdown
         /\ \A j \in Slots \ {SlotOf(c)} : conns'[j] = conns[j]
         /\ sockets' = IF close THEN Deleted({SlotOf(c)}) ELSE sockets
         /\ abandoned' = abandoned
         /\ ~User(c)' /\ dials'[c].pc = "idle"
         /\ \A d \in Threads \ {c} : dials'[d] = dials[d]
<1>1. SlotOf(c) \in Slots /\ SlotOf(c) = dials[c].handle.index
  BY DEF SlotOf, Typed
<1>2. dials'[c] = NoDial /\ \A d \in Threads \ {c} : dials'[d] = dials[d]
  BY DEF Release, Typed
<1>3. ~User(c)' /\ dials'[c].pc = "idle"
  BY <1>2 DEF User, Holding, Reserving, NoDial
<1>4. CASE close
  BY <1>1, <1>2, <1>3, <1>4 DEF Release, Close, Cleared
<1>5. CASE ~close
  <2>1. conns[SlotOf(c)] \in ConnectionRecord
    BY <1>1 DEF Typed
  <2>2. conns' = [conns EXCEPT ![SlotOf(c)] =
                    [conns[SlotOf(c)] EXCEPT !.state = "connected", !.reused = FALSE]]
    <3>1. conns \in [Slots -> ConnectionRecord] /\ Return(dials[c].handle)
      BY <1>5 DEF Release, Typed
    <3>2. conns' = [conns EXCEPT ![dials[c].handle.index].state = "connected",
                                 ![dials[c].handle.index].reused = FALSE]
      BY <3>1 DEF Return
    <3> QED
      BY <1>1, <3>1, <3>2 DEF ConnectionRecord
  <2>3. /\ conns'[SlotOf(c)] = [conns[SlotOf(c)] EXCEPT !.state = "connected", !.reused = FALSE]
        /\ \A j \in Slots \ {SlotOf(c)} : conns'[j] = conns[j]
    BY <1>1, <2>2 DEF Typed
  <2>4. /\ conns'[SlotOf(c)].state = "connected" /\ ~conns'[SlotOf(c)].reused
        /\ conns'[SlotOf(c)].socket = conns[SlotOf(c)].socket
        /\ conns'[SlotOf(c)].was_shutdown = conns[SlotOf(c)].was_shutdown
    BY <2>1, <2>3 DEF ConnectionRecord
  <2>5. sockets' = sockets /\ abandoned' = abandoned
    BY <1>5 DEF Release, Return
  <2> QED
    BY <1>1, <1>2, <1>3, <1>5, <2>3, <2>4, <2>5
<1> QED
  BY <1>4, <1>5

\* Shutdown marks the connections in use, and changes no owner.
LEMMA ShutdownShape ==
  ASSUME Typed, Shutdown
  PROVE  /\ \A i \in Slots : /\ conns'[i].state = conns[i].state
                             /\ conns'[i].socket = conns[i].socket
                             /\ conns'[i].version = conns[i].version
                             /\ conns'[i].reused = conns[i].reused
                             /\ conns'[i].was_shutdown = (conns[i].was_shutdown \/ i \in InUse)
         /\ dials' = dials /\ abandoned' = abandoned
<1>1. \A i \in Slots : conns[i] \in ConnectionRecord
  BY DEF Typed
<1>2. \A i \in Slots : conns'[i] = IF i \in InUse THEN [conns[i] EXCEPT !.was_shutdown = TRUE]
                                                  ELSE conns[i]
  BY DEF Shutdown
<1> QED
  BY <1>1, <1>2 DEF Shutdown, ConnectionRecord

\* A connection expires: nothing but its age changes.
LEMMA ExpiresShape ==
  ASSUME Typed, NEW i \in Slots, Expires(i)
  PROVE  /\ \A j \in Slots : /\ conns'[j].state = conns[j].state
                             /\ conns'[j].socket = conns[j].socket
                             /\ conns'[j].version = conns[j].version
                             /\ conns'[j].reused = conns[j].reused
                             /\ conns'[j].was_shutdown = conns[j].was_shutdown
         /\ dials' = dials /\ abandoned' = abandoned /\ sockets' = sockets
<1>1. \A j \in Slots : conns[j] \in ConnectionRecord
  BY DEF Typed
<1>2. \A j \in Slots : conns'[j] = IF j = i THEN [conns[j] EXCEPT !.expired = TRUE] ELSE conns[j]
  BY DEF Expires, Typed
<1> QED
  BY <1>1, <1>2 DEF Expires, ConnectionRecord

\* A step that leaves the pool and its users alone.
Quiet ==
  /\ UNCHANGED <<conns, sockets, abandoned>>
  /\ \A c \in Threads : dials'[c] = dials[c] \/ (~User(c) /\ ~User(c)')

\* Every step is quiet or one of those that change the pool.
LEMMA StepKinds ==
  ASSUME Typed, Phases, [Next]_vars
  PROVE  \/ Quiet
         \/ \E t \in Threads : DialReuse(t)
         \/ \E t \in Threads : DialReserve(t)
         \/ \E t \in Threads : DialConnected(t)
         \/ \E t \in Threads : DialFailed(t) \/ DialHandshakeFailed(t)
         \/ \E c \in Threads, close \in BOOLEAN : \E after : Holding(c) /\ Release(c, close, after)
         \/ Shutdown \/ Reopen
         \/ \E i \in Slots : Expires(i)
         \/ \E s \in Sockets : PeerCloses(s)
<1> USE DEF vars, vars_pool, poolVars
<1>2. ASSUME UNCHANGED vars_pool PROVE Quiet
  BY <1>2 DEF Quiet
<1>3. ASSUME NEW c \in Threads, DoRequest(c) PROVE Quiet
  <2>1. dials'[c].pc = "resolve" /\ \A d \in Threads \ {c} : dials'[d] = dials[d]
    BY <1>3 DEF DoRequest, Dial, Typed, NoDial
  <2> QED
    BY <1>3, <2>1 DEF DoRequest, Dial, Quiet, User, Holding, Reserving
<1>4. ASSUME NEW c \in Threads, NotConnected(c) PROVE Quiet
  <2>1. dials'[c].pc = "idle" /\ \A d \in Threads \ {c} : dials'[d] = dials[d]
    BY <1>4 DEF NotConnected, Typed, NoDial
  <2> QED
    BY <1>4, <2>1 DEF NotConnected, Quiet, User, Holding, Reserving
<1>5. ASSUME NEW c \in Threads, DialResolve(c) \/ DialNoSlot(c) PROVE Quiet
  BY <1>5, ResolveShape DEF Quiet
<1>6. ASSUME NEW c \in Threads, ConnectedLate(c)
      PROVE  \E d \in Threads, close \in BOOLEAN : \E after : Holding(d) /\ Release(d, close, after)
  BY <1>6 DEF ConnectedLate, Holding
<1>7. ASSUME NEW c \in Threads, DoDoRequest(c)
      PROVE  \E d \in Threads, close \in BOOLEAN : \E after : Holding(d) /\ Release(d, close, after)
  <2>1. PICK e \in Outcomes(c) :
          Release(c, e.close \/ e.r # "ok" \/ e.sr # "ok",
                  IF TryAgain(c, e) THEN [reqs[c] EXCEPT !.pc = "attempt"]
                  ELSE AfterRequest(c, e.r, e.sr))
    BY <1>7 DEF DoDoRequest
  <2>2. (e.close \/ e.r # "ok" \/ e.sr # "ok") \in BOOLEAN
    OBVIOUS
  <2>3. Holding(c)
    BY <1>7 DEF DoDoRequest, Phases
  <2> QED
    BY <2>1, <2>2, <2>3
<1>8. \/ UNCHANGED vars_pool
      \/ \E c \in Threads : DoRequest(c) \/ NotConnected(c) \/ ConnectedLate(c) \/ DoDoRequest(c)
      \/ \E c \in Threads : DialStep(c)
      \/ Shutdown \/ Reopen
      \/ \E i \in Slots : Expires(i)
      \/ \E s \in Sockets : PeerCloses(s)
  BY DEF Next, Get, Request, Dialling, Client, GiveUp, ConnectedInTime, Expire, BeginShutdown,
         ShutdownConnectionPool, ReopenConnectionPool
<1> QED
  BY <1>2, <1>3, <1>4, <1>5, <1>6, <1>7, <1>8 DEF DialStep

-----------------------------------------------------------------------------
(* Who owns which slot.                                                    *)

\* A user's slot exists.
LEMMA SlotOfType ==
  ASSUME Typed, NEW c \in Threads, User(c)
  PROVE  SlotOf(c) \in Slots
  BY DEF Typed, User, SlotOf

\* What a thread has follows from its dial.
LEMMA SameDial ==
  ASSUME NEW c, dials'[c] = dials[c]
  PROVE  /\ Holding(c)' <=> Holding(c)
         /\ Reserving(c)' <=> Reserving(c)
         /\ User(c)' <=> User(c)
         /\ SlotOf(c)' = SlotOf(c)
  BY DEF Holding, Reserving, User, SlotOf

\* Slot i keeps its user.
SameSlot(i) ==
  /\ conns'[i].state = "inuse" <=> conns[i].state = "inuse"
  /\ conns[i].state = "inuse" => /\ conns'[i].version = conns[i].version
                                 /\ conns'[i].socket = conns[i].socket

\* A step of thread t that changes no more than its slot keeps Owners.
LEMMA OwnersFrame ==
  ASSUME Typed, Owners, NEW t \in Threads,
         \A c \in Threads \ {t} : dials'[c] = dials[c],
         \A i \in Slots : \/ User(t) /\ i = SlotOf(t)
                          \/ User(t)' /\ i = SlotOf(t)'
                          \/ SameSlot(i),
         User(t)' => /\ SlotOf(t)' \in Slots /\ conns'[SlotOf(t)'].state = "inuse"
                     /\ \/ conns[SlotOf(t)'].state # "inuse"
                        \/ User(t) /\ SlotOf(t) = SlotOf(t)',
         User(t) => \/ conns'[SlotOf(t)].state # "inuse"
                    \/ User(t)' /\ SlotOf(t) = SlotOf(t)',
         Holding(t)' => /\ conns'[SlotOf(t)'].version = dials'[t].handle.version
                        /\ conns'[SlotOf(t)'].socket # INVALID_SOCKET_HANDLE,
         Reserving(t)' => conns'[SlotOf(t)'].socket = INVALID_SOCKET_HANDLE
  PROVE  Owners'
<1>1. \A c \in Threads \ {t} : /\ Holding(c)' <=> Holding(c)
                               /\ Reserving(c)' <=> Reserving(c)
                               /\ User(c)' <=> User(c)
                               /\ SlotOf(c)' = SlotOf(c)
  BY SameDial
<1>2. \A c \in Threads : User(c) => SlotOf(c) \in Slots
  BY SlotOfType
<1>3. \A c \in Threads \ {t} : User(c) => SameSlot(SlotOf(c)) /\ conns[SlotOf(c)].state = "inuse"
  BY <1>2 DEF Owners
<1>4. \A c \in Threads : User(c)' => conns'[SlotOf(c)'].state = "inuse"
  BY <1>1, <1>3 DEF SameSlot
<1>5. ASSUME NEW i \in Slots, conns'[i].state = "inuse"
      PROVE  \E c \in Threads : User(c)' /\ SlotOf(c)' = i
  <2>1. CASE SameSlot(i)
    <3>1. PICK c \in Threads : User(c) /\ SlotOf(c) = i
      BY <1>5, <2>1 DEF Owners, SameSlot
    <3>2. CASE c = t
      BY <1>5, <3>1, <3>2
    <3>3. CASE c # t
      BY <1>1, <3>1, <3>3
    <3> QED
      BY <3>2, <3>3
  <2> QED
    BY <1>5, <2>1
<1>6. \A c, d \in Threads : c # d /\ User(c)' /\ User(d)' => SlotOf(c)' # SlotOf(d)'
  <2>1. \A c \in Threads \ {t} : User(c) /\ User(t)' => SlotOf(c) # SlotOf(t)'
    BY <1>3 DEF Owners
  <2>2. \A c, d \in Threads \ {t} : c # d /\ User(c) /\ User(d) => SlotOf(c) # SlotOf(d)
    BY DEF Owners
  <2> QED
    BY <1>1, <2>1, <2>2
<1>7. \A c \in Threads : Holding(c)' => /\ conns'[SlotOf(c)'].version = dials'[c].handle.version
                                        /\ conns'[SlotOf(c)'].socket # INVALID_SOCKET_HANDLE
  BY <1>1, <1>3 DEF Owners, SameSlot, User
<1>8. \A c \in Threads : Reserving(c)' => conns'[SlotOf(c)'].socket = INVALID_SOCKET_HANDLE
  BY <1>1, <1>3 DEF Owners, SameSlot, User
<1> QED
  BY <1>4, <1>5, <1>6, <1>7, <1>8 DEF Owners

\* A step that changes no owner keeps Owners.
LEMMA OwnersKept ==
  ASSUME Typed, Owners,
         \A c \in Threads : dials'[c] = dials[c] \/ (~User(c) /\ ~User(c)'),
         \A i \in Slots : SameSlot(i)
  PROVE  Owners'
<1>1. \A c \in Threads : /\ User(c)' <=> User(c)
                         /\ User(c) => /\ Holding(c)' <=> Holding(c)
                                       /\ Reserving(c)' <=> Reserving(c)
                                       /\ SlotOf(c)' = SlotOf(c)
                                       /\ dials'[c] = dials[c]
  BY SameDial
<1>2. \A c \in Threads : User(c) => SlotOf(c) \in Slots
  BY SlotOfType
<1>3. \A c \in Threads : (Holding(c)' => User(c)') /\ (Reserving(c)' => User(c)')
  BY DEF User
<1>4. \A i \in Slots : conns'[i].state = "inuse" => \E c \in Threads : User(c)' /\ SlotOf(c)' = i
  BY <1>1 DEF Owners, SameSlot
<1>5. \A c \in Threads : User(c) => /\ conns'[SlotOf(c)].state = "inuse"
                                    /\ conns'[SlotOf(c)].version = conns[SlotOf(c)].version
                                    /\ conns'[SlotOf(c)].socket = conns[SlotOf(c)].socket
  BY <1>2 DEF Owners, SameSlot
<1> QED
  BY <1>1, <1>3, <1>4, <1>5 DEF Owners

\* Every step keeps Owners.
LEMMA OwnersStep ==
  ASSUME Typed, Phases, Owners, SlotSockets, [Next]_vars
  PROVE  Owners'
<1>p. \A i \in Slots : /\ conns[i].state # "inuse" => Purged(i).state # "inuse"
                       /\ conns[i].state = "inuse" => Purged(i) = conns[i]
  BY NoConnectionFields DEF Purged, Expired
<1>q. ASSUME NEW i \in Slots, conns'[i] = Purged(i) PROVE SameSlot(i)
  BY <1>p, <1>q DEF SameSlot
<1>1. CASE Quiet
  BY <1>1, OwnersKept DEF Quiet, SameSlot
<1>2. ASSUME NEW t \in Threads, DialReuse(t) PROVE Owners'
  <2>1. PICK i \in Slots \ Expired :
           /\ conns[i].state = "connected"
           /\ conns'[i].state = "inuse" /\ conns'[i].version = Version
           /\ conns'[i].socket = conns[i].socket
           /\ \A j \in Slots \ {i} : conns'[j] = Purged(j)
           /\ dials'[t].pc = "done" /\ dials'[t].r = "ok"
           /\ dials'[t].handle.index = i /\ dials'[t].handle.version = Version
           /\ \A c \in Threads \ {t} : dials'[c] = dials[c]
    BY <1>2, ReuseShape
  <2>2. User(t)' /\ Holding(t)' /\ ~Reserving(t)' /\ SlotOf(t)' = i /\ ~User(t)
    BY <1>2, <2>1 DEF User, Holding, Reserving, SlotOf, DialReuse
  <2>3. \A j \in Slots \ {i} : SameSlot(j)
    BY <1>q, <2>1
  <2>4. conns[i].socket # INVALID_SOCKET_HANDLE
    BY <2>1 DEF SlotSockets
  <2> QED
    BY <2>1, <2>2, <2>3, <2>4, OwnersFrame
<1>3. ASSUME NEW t \in Threads, DialReserve(t) PROVE Owners'
  <2>1. PICK i \in Slots :
           /\ conns[i].state = "free" \/ i \in Expired
           /\ conns'[i].state = "inuse"
           /\ conns'[i].socket = Purged(i).socket
           /\ \A j \in Slots \ {i} : conns'[j] = Purged(j)
           /\ dials'[t].pc = "connect" /\ dials'[t].index = i
           /\ \A c \in Threads \ {t} : dials'[c] = dials[c]
    BY <1>3, ReserveShape
  <2>2. User(t)' /\ ~Holding(t)' /\ Reserving(t)' /\ SlotOf(t)' = i /\ ~User(t)
    BY <1>3, <2>1 DEF User, Holding, Reserving, SlotOf, DialReserve
  <2>3. \A j \in Slots \ {i} : SameSlot(j)
    BY <1>q, <2>1
  <2>4. conns[i].state # "inuse" /\ conns'[i].socket = INVALID_SOCKET_HANDLE
    BY <2>1, NoConnectionFields DEF SlotSockets, Expired, Purged
  <2> QED
    BY <2>1, <2>2, <2>3, <2>4, OwnersFrame
<1>4. ASSUME NEW t \in Threads, DialConnected(t) PROVE Owners'
  <2>1. /\ Reserving(t) /\ SlotOf(t) \in Slots
        /\ conns'[SlotOf(t)].state = "inuse" /\ conns'[SlotOf(t)].socket # INVALID_SOCKET_HANDLE
        /\ conns'[SlotOf(t)].version = Version
        /\ \A j \in Slots \ {SlotOf(t)} : conns'[j] = conns[j]
        /\ dials'[t].pc = "done" /\ dials'[t].r = "ok"
        /\ dials'[t].handle.index = SlotOf(t) /\ dials'[t].handle.version = Version
        /\ \A c \in Threads \ {t} : dials'[c] = dials[c]
    BY <1>4, ConnectedShape
  <2>2. User(t)' /\ Holding(t)' /\ ~Reserving(t)' /\ SlotOf(t)' = SlotOf(t) /\ User(t)
    BY <2>1 DEF User, Holding, Reserving, SlotOf
  <2>3. \A j \in Slots \ {SlotOf(t)} : SameSlot(j)
    BY <2>1 DEF SameSlot
  <2> QED
    BY <2>1, <2>2, <2>3, OwnersFrame
<1>5. ASSUME NEW t \in Threads, DialFailed(t) \/ DialHandshakeFailed(t) PROVE Owners'
  <2>1. /\ Reserving(t) /\ SlotOf(t) \in Slots
        /\ conns'[SlotOf(t)] = NoConnection
        /\ \A j \in Slots \ {SlotOf(t)} : conns'[j] = conns[j]
        /\ ~User(t)'
        /\ \A c \in Threads \ {t} : dials'[c] = dials[c]
    BY <1>5, FailedShape
  <2>2. User(t) /\ ~Holding(t)' /\ ~Reserving(t)'
    BY <2>1 DEF User
  <2>3. \A j \in Slots \ {SlotOf(t)} : SameSlot(j)
    BY <2>1 DEF SameSlot
  <2>4. conns'[SlotOf(t)].state # "inuse"
    BY <2>1, NoConnectionFields
  <2> QED
    BY <2>1, <2>2, <2>3, <2>4, OwnersFrame
<1>6. ASSUME NEW t \in Threads, NEW close \in BOOLEAN, NEW after, Holding(t), Release(t, close, after)
      PROVE  Owners'
  <2>1. /\ SlotOf(t) \in Slots
        /\ close => conns'[SlotOf(t)] = NoConnection
        /\ ~close => conns'[SlotOf(t)].state = "connected"
        /\ \A j \in Slots \ {SlotOf(t)} : conns'[j] = conns[j]
        /\ ~User(t)'
        /\ \A c \in Threads \ {t} : dials'[c] = dials[c]
    BY <1>6, ReleaseShape
  <2>2. User(t) /\ ~Holding(t)' /\ ~Reserving(t)'
    BY <1>6, <2>1 DEF User
  <2>3. \A j \in Slots \ {SlotOf(t)} : SameSlot(j)
    BY <2>1 DEF SameSlot
  <2>4. conns'[SlotOf(t)].state # "inuse"
    BY <2>1, NoConnectionFields
  <2> QED
    BY <2>1, <2>2, <2>3, <2>4, OwnersFrame
<1>7. CASE Shutdown
  BY <1>7, ShutdownShape, OwnersKept DEF SameSlot
<1>8. CASE Reopen
  <2>1. dials' = dials
    BY <1>8 DEF Reopen
  <2>2. \A i \in Slots : conns'[i] = IF conns[i].state = "connected" THEN NoConnection ELSE conns[i]
    BY <1>8 DEF Reopen, Cleared, Idle
  <2>3. \A i \in Slots : SameSlot(i)
    BY <2>2, NoConnectionFields DEF SameSlot
  <2> QED
    BY <2>1, <2>3, OwnersKept
<1>9. ASSUME NEW i \in Slots, Expires(i) PROVE Owners'
  BY <1>9, ExpiresShape, OwnersKept DEF SameSlot
<1>10. ASSUME NEW s \in Sockets, PeerCloses(s) PROVE Owners'
  BY <1>10, OwnersKept DEF PeerCloses, poolVars, SameSlot
<1> QED
  BY <1>1, <1>2, <1>3, <1>4, <1>5, <1>6, <1>7, <1>8, <1>9, <1>10, StepKinds

-----------------------------------------------------------------------------
(* The sockets.                                                            *)

\* Every step keeps SlotSockets.
LEMMA SlotSocketsStep ==
  ASSUME Typed, Phases, Owners, SlotSockets, [Next]_vars
  PROVE  SlotSockets'
<1>p. \A i \in Slots : /\ Purged(i).state = "free" => Purged(i).socket = INVALID_SOCKET_HANDLE
                       /\ Purged(i).state = "connected" => Purged(i).socket # INVALID_SOCKET_HANDLE
  BY NoConnectionFields DEF Purged, SlotSockets
<1>1. CASE Quiet
  BY <1>1 DEF Quiet, SlotSockets
<1>2. ASSUME NEW t \in Threads, DialReuse(t) PROVE SlotSockets'
  <2>1. PICK i \in Slots : /\ conns'[i].state = "inuse"
                           /\ \A j \in Slots \ {i} : conns'[j] = Purged(j)
    BY <1>2, ReuseShape
  <2> QED
    BY <1>p, <2>1 DEF SlotSockets
<1>3. ASSUME NEW t \in Threads, DialReserve(t) PROVE SlotSockets'
  <2>1. PICK i \in Slots : /\ conns'[i].state = "inuse"
                           /\ \A j \in Slots \ {i} : conns'[j] = Purged(j)
    BY <1>3, ReserveShape
  <2> QED
    BY <1>p, <2>1 DEF SlotSockets
<1>4. ASSUME NEW t \in Threads, DialConnected(t) PROVE SlotSockets'
  <2>1. /\ conns'[SlotOf(t)].state = "inuse"
        /\ \A j \in Slots \ {SlotOf(t)} : conns'[j] = conns[j]
    BY <1>4, ConnectedShape
  <2> QED
    BY <2>1 DEF SlotSockets
<1>5. ASSUME NEW t \in Threads, DialFailed(t) \/ DialHandshakeFailed(t) PROVE SlotSockets'
  <2>1. /\ conns'[SlotOf(t)] = NoConnection
        /\ \A j \in Slots \ {SlotOf(t)} : conns'[j] = conns[j]
    BY <1>5, FailedShape
  <2> QED
    BY <2>1, NoConnectionFields DEF SlotSockets
<1>6. ASSUME NEW t \in Threads, NEW close \in BOOLEAN, NEW after, Holding(t), Release(t, close, after)
      PROVE  SlotSockets'
  <2>1. /\ close => conns'[SlotOf(t)] = NoConnection
        /\ ~close => /\ conns'[SlotOf(t)].state = "connected"
                     /\ conns'[SlotOf(t)].socket = conns[SlotOf(t)].socket
        /\ \A j \in Slots \ {SlotOf(t)} : conns'[j] = conns[j]
    BY <1>6, ReleaseShape
  <2>2. conns[SlotOf(t)].socket # INVALID_SOCKET_HANDLE
    BY <1>6 DEF Owners
  <2> QED
    BY <2>1, <2>2, NoConnectionFields DEF SlotSockets
<1>7. CASE Shutdown
  BY <1>7, ShutdownShape DEF SlotSockets
<1>8. CASE Reopen
  <2>1. \A i \in Slots : conns'[i] = IF conns[i].state = "connected" THEN NoConnection ELSE conns[i]
    BY <1>8 DEF Reopen, Cleared, Idle
  <2> QED
    BY <2>1, NoConnectionFields DEF SlotSockets
<1>9. ASSUME NEW i \in Slots, Expires(i) PROVE SlotSockets'
  BY <1>9, ExpiresShape DEF SlotSockets
<1>10. ASSUME NEW s \in Sockets, PeerCloses(s) PROVE SlotSockets'
  BY <1>10 DEF PeerCloses, poolVars, SlotSockets
<1> QED
  BY <1>1, <1>2, <1>3, <1>4, <1>5, <1>6, <1>7, <1>8, <1>9, <1>10, StepKinds

\* A slot's socket is a descriptor, or none.
LEMMA SocketOfSlot ==
  ASSUME Typed, NEW i \in Slots
  PROVE  /\ conns[i].socket \in Sockets \/ conns[i].socket = INVALID_SOCKET_HANDLE
         /\ INVALID_SOCKET_HANDLE \notin Sockets
  BY ConnectionPoolAssumption DEF Typed, ConnectionRecord, Sockets, INVALID_SOCKET_HANDLE

\* Clearing slots and deleting their sockets keeps Descriptors.
LEMMA DescriptorsCleared ==
  ASSUME Typed, Descriptors, NEW S \in SUBSET Slots,
         \A i \in S : conns'[i].socket = INVALID_SOCKET_HANDLE,
         \A i \in Slots \ S : /\ conns'[i].socket = conns[i].socket
                              /\ conns'[i].was_shutdown = conns[i].was_shutdown,
         sockets' = Deleted(S), abandoned' = abandoned
  PROVE  Descriptors'
<1>1. INVALID_SOCKET_HANDLE \notin Sockets
  BY ConnectionPoolAssumption DEF Sockets, INVALID_SOCKET_HANDLE
<1>2. \A s \in Sockets : sockets'[s] = IF \E i \in S : conns[i].socket = s THEN "none" ELSE sockets[s]
  BY DEF Deleted
<1>3. \A i \in Slots \ S : conns[i].socket # INVALID_SOCKET_HANDLE =>
        conns[i].socket \in Sockets /\ sockets'[conns[i].socket] = sockets[conns[i].socket]
  BY <1>2, SocketOfSlot DEF Descriptors
<1>4. FlaggedIsShut'
  BY <1>3 DEF Descriptors, FlaggedIsShut
<1>5. \A i, j \in Slots : i # j /\ conns'[i].socket # INVALID_SOCKET_HANDLE
                          => conns'[i].socket # conns'[j].socket
  BY DEF Descriptors
<1>6. ASSUME NEW s \in Sockets
      PROVE  sockets'[s] # "none" <=> (\E i \in Slots : conns'[i].socket = s) \/ s \in abandoned
  <2>1. sockets[s] # "none" <=> (\E i \in Slots : conns[i].socket = s) \/ s \in abandoned
    BY DEF Descriptors
  <2>2. CASE \E i \in S : conns[i].socket = s
    <3>1. PICK i \in S : conns[i].socket = s
      BY <2>2
    <3>2. sockets'[s] = "none" /\ s \notin abandoned
      BY <1>2, <3>1 DEF Descriptors
    <3>3. \A j \in Slots : conns'[j].socket # s
      BY <1>1, <3>1 DEF Descriptors
    <3> QED
      BY <3>2, <3>3
  <2>3. CASE ~ \E i \in S : conns[i].socket = s
    BY <1>1, <1>2, <2>1, <2>3
  <2> QED
    BY <2>2, <2>3
<1>7. 0 \notin abandoned
  BY ConnectionPoolAssumption DEF Typed, Sockets
<1>8. \A i \in Slots : conns'[i].socket \notin abandoned
  BY <1>7 DEF Descriptors, INVALID_SOCKET_HANDLE
<1> QED
  BY <1>4, <1>5, <1>6, <1>8 DEF Descriptors

\* Every step keeps Descriptors.
LEMMA DescriptorsStep ==
  ASSUME Typed, Phases, Owners, SlotSockets, Descriptors, [Next]_vars
  PROVE  Descriptors'
<1>0. INVALID_SOCKET_HANDLE \notin Sockets /\ Expired \subseteq Slots /\ abandoned \subseteq Sockets
  BY ConnectionPoolAssumption DEF Sockets, INVALID_SOCKET_HANDLE, Expired, Typed
<1>p. /\ \A j \in Expired : Purged(j).socket = INVALID_SOCKET_HANDLE
      /\ \A j \in Slots \ Expired : Purged(j) = conns[j]
  BY NoConnectionFields DEF Purged
<1>s. sockets \in [Sockets -> {"none", "open", "peer_closed", "shut"}]
  BY DEF Typed
<1>1. CASE Quiet
  BY <1>1 DEF Quiet, Descriptors, FlaggedIsShut
<1>2. ASSUME NEW t \in Threads, DialReuse(t) PROVE Descriptors'
  <2>1. PICK i \in Slots \ Expired :
           /\ conns'[i].socket = conns[i].socket /\ conns'[i].was_shutdown = conns[i].was_shutdown
           /\ \A j \in Slots \ {i} : conns'[j] = Purged(j)
           /\ sockets' = Deleted(Expired)
    BY <1>2, ReuseShape
  <2>2. abandoned' = abandoned
    BY <1>2 DEF DialReuse
  <2> QED
    BY <1>0, <1>p, <2>1, <2>2, DescriptorsCleared
<1>3. ASSUME NEW t \in Threads, DialReserve(t) PROVE Descriptors'
  <2>1. PICK i \in Slots :
           /\ conns'[i].socket = Purged(i).socket
           /\ conns'[i].was_shutdown = Purged(i).was_shutdown
           /\ \A j \in Slots \ {i} : conns'[j] = Purged(j)
           /\ sockets' = Deleted(Expired)
    BY <1>3, ReserveShape
  <2>2. abandoned' = abandoned
    BY <1>3 DEF DialReserve
  <2> QED
    BY <1>0, <1>p, <2>1, <2>2, DescriptorsCleared
<1>4. ASSUME NEW t \in Threads, DialConnected(t) PROVE Descriptors'
  <2>1. /\ Reserving(t) /\ SlotOf(t) \in Slots
        /\ ~conns'[SlotOf(t)].was_shutdown
        /\ \A j \in Slots \ {SlotOf(t)} : conns'[j] = conns[j]
    BY <1>4, ConnectedShape
  <2>2. PICK s \in Sockets :
              /\ s # INVALID_SOCKET_HANDLE /\ sockets[s] = "none"
              /\ sockets' = [sockets EXCEPT ![s] = "open"]
              /\ conns'[SlotOf(t)].socket = s
    BY <1>4, ConnectedShape
  <2>3. abandoned' = abandoned
    BY <1>4 DEF DialConnected
  <2>4. s \notin abandoned /\ \A j \in Slots : conns[j].socket # s
    BY <2>2 DEF Descriptors
  <2>5. conns[SlotOf(t)].socket = INVALID_SOCKET_HANDLE
    BY <2>1 DEF Owners
  <2>6. \A x \in Sockets : sockets'[x] = IF x = s THEN "open" ELSE sockets[x]
    BY <1>s, <2>2
  <2>7. FlaggedIsShut'
    BY <2>1, <2>4, <2>6, SocketOfSlot DEF Descriptors, FlaggedIsShut
  <2>8. \A i, j \in Slots : i # j /\ conns'[i].socket # INVALID_SOCKET_HANDLE
                          => conns'[i].socket # conns'[j].socket
    BY <2>1, <2>2, <2>4 DEF Descriptors
  <2>9. ASSUME NEW x \in Sockets
        PROVE  sockets'[x] # "none" <=> (\E i \in Slots : conns'[i].socket = x) \/ x \in abandoned
    <3>1. sockets[x] # "none" <=> (\E i \in Slots : conns[i].socket = x) \/ x \in abandoned
      BY DEF Descriptors
    <3>2. CASE x = s
      BY <2>1, <2>2, <2>6, <3>2
    <3>3. CASE x # s
      BY <1>0, <2>1, <2>2, <2>5, <2>6, <3>1, <3>3
    <3> QED
      BY <3>2, <3>3
  <2>10. \A i \in Slots : conns'[i].socket \notin abandoned
    BY <2>1, <2>2, <2>4 DEF Descriptors
  <2> QED
    BY <2>3, <2>7, <2>8, <2>9, <2>10 DEF Descriptors
<1>5. ASSUME NEW t \in Threads, DialFailed(t) \/ DialHandshakeFailed(t) PROVE Descriptors'
  <2>1. /\ Reserving(t) /\ SlotOf(t) \in Slots
        /\ conns'[SlotOf(t)] = NoConnection
        /\ \A j \in Slots \ {SlotOf(t)} : conns'[j] = conns[j]
    BY <1>5, FailedShape
  <2>2. conns[SlotOf(t)].socket = INVALID_SOCKET_HANDLE
    BY <2>1 DEF Owners
  <2>3. /\ \A j \in Slots : conns'[j].socket = conns[j].socket
        /\ \A j \in Slots : conns'[j].was_shutdown => conns[j].was_shutdown
    BY <2>1, <2>2, NoConnectionFields
  <2>4. CASE sockets' = sockets /\ abandoned' = abandoned
    BY <2>3, <2>4 DEF Descriptors, FlaggedIsShut
  <2>5. ASSUME NEW s \in Sockets,
               s # INVALID_SOCKET_HANDLE, sockets[s] = "none",
               sockets' = [sockets EXCEPT ![s] = "open"], abandoned' = abandoned \cup {s}
        PROVE  Descriptors'
    <3>1. \A j \in Slots : conns[j].socket # s
      BY <2>5 DEF Descriptors
    <3>2. \A x \in Sockets : sockets'[x] = IF x = s THEN "open" ELSE sockets[x]
      BY <1>s, <2>5
    <3>3. FlaggedIsShut'
      BY <2>3, <3>1, <3>2, SocketOfSlot DEF Descriptors, FlaggedIsShut
    <3>4. ASSUME NEW x \in Sockets
          PROVE  sockets'[x] # "none" <=> (\E i \in Slots : conns'[i].socket = x) \/ x \in abandoned'
      <4>1. sockets[x] # "none" <=> (\E i \in Slots : conns[i].socket = x) \/ x \in abandoned
        BY DEF Descriptors
      <4> QED
        BY <2>3, <2>5, <3>2, <4>1
    <3> QED
      BY <2>3, <2>5, <3>1, <3>3, <3>4 DEF Descriptors
  <2> QED
    BY <1>5, <2>4, <2>5, FailedShape
<1>6. ASSUME NEW t \in Threads, NEW close \in BOOLEAN, NEW after, Holding(t), Release(t, close, after)
      PROVE  Descriptors'
  <2>1. /\ SlotOf(t) \in Slots
        /\ close => conns'[SlotOf(t)] = NoConnection
        /\ ~close => /\ conns'[SlotOf(t)].socket = conns[SlotOf(t)].socket
                     /\ conns'[SlotOf(t)].was_shutdown = conns[SlotOf(t)].was_shutdown
        /\ \A j \in Slots \ {SlotOf(t)} : conns'[j] = conns[j]
        /\ sockets' = IF close THEN Deleted({SlotOf(t)}) ELSE sockets
        /\ abandoned' = abandoned
    BY <1>6, ReleaseShape
  <2>2. CASE close
    <3>1. {SlotOf(t)} \in SUBSET Slots
      BY <2>1
    <3>2. conns'[SlotOf(t)].socket = INVALID_SOCKET_HANDLE
      BY <2>1, <2>2, NoConnectionFields
    <3> QED
      BY <2>1, <2>2, <3>1, <3>2, DescriptorsCleared
  <2>3. CASE ~close
    BY <2>1, <2>3 DEF Descriptors, FlaggedIsShut
  <2> QED
    BY <2>2, <2>3
<1>7. CASE Shutdown
  <2>1. \A i \in Slots : /\ conns'[i].socket = conns[i].socket
                         /\ conns'[i].was_shutdown = (conns[i].was_shutdown \/ i \in InUse)
    BY <1>7, ShutdownShape
  <2>2. \A s \in Sockets : sockets'[s] = IF \E i \in ShutDownNow : conns[i].socket = s
                                         THEN "shut" ELSE sockets[s]
    BY <1>7 DEF Shutdown
  <2>3. abandoned' = abandoned
    BY <1>7 DEF Shutdown
  <2>4. \A i \in ShutDownNow : i \in Slots
    BY DEF ShutDownNow, InUse
  <2>5. \A s \in Sockets : sockets'[s] # "none" <=> sockets[s] # "none"
    BY <2>2, <2>4 DEF Descriptors
  <2>6. FlaggedIsShut'
    <3>1. SUFFICES ASSUME NEW i \in Slots, conns'[i].was_shutdown,
                          conns'[i].socket # INVALID_SOCKET_HANDLE
                   PROVE  sockets'[conns'[i].socket] = "shut"
      BY DEF FlaggedIsShut
    <3>2. conns[i].socket \in Sockets
      BY <2>1, <3>1, SocketOfSlot
    <3>3. CASE conns[i].was_shutdown
      BY <2>1, <2>2, <3>1, <3>2, <3>3 DEF Descriptors, FlaggedIsShut
    <3>4. CASE ~conns[i].was_shutdown
      BY <2>1, <2>2, <3>1, <3>2, <3>4 DEF ShutDownNow
    <3> QED
      BY <3>3, <3>4
  <2> QED
    BY <2>1, <2>3, <2>5, <2>6 DEF Descriptors
<1>8. CASE Reopen
  <2>1. \A i \in Slots : conns'[i] = IF i \in Idle THEN NoConnection ELSE conns[i]
    BY <1>8 DEF Reopen, Cleared
  <2>2. sockets' = Deleted(Idle) /\ abandoned' = abandoned /\ Idle \in SUBSET Slots
    BY <1>8 DEF Reopen, Idle
  <2> QED
    BY <2>1, <2>2, NoConnectionFields, DescriptorsCleared
<1>9. ASSUME NEW i \in Slots, Expires(i) PROVE Descriptors'
  BY <1>9, ExpiresShape DEF Descriptors, FlaggedIsShut
<1>10. ASSUME NEW s \in Sockets, PeerCloses(s) PROVE Descriptors'
  <2>1. conns' = conns /\ abandoned' = abandoned /\ sockets[s] = "open"
        /\ \A x \in Sockets : sockets'[x] = IF x = s THEN "peer_closed" ELSE sockets[x]
    BY <1>10, <1>s DEF PeerCloses, poolVars
  <2>2. FlaggedIsShut'
    BY <2>1, SocketOfSlot DEF Descriptors, FlaggedIsShut
  <2> QED
    BY <2>1, <2>2 DEF Descriptors
<1> QED
  BY <1>1, <1>2, <1>3, <1>4, <1>5, <1>6, <1>7, <1>8, <1>9, <1>10, StepKinds

-----------------------------------------------------------------------------
(* The requests.                                                           *)

\* A step of a dial changes that dial, which is under way.
LEMMA DialStepShape ==
  ASSUME Typed, NEW t \in Threads, DialStep(t)
  PROVE  /\ dials[t].pc \in {"resolve", "reserve", "connect"} /\ dials'[t].pc # "idle"
         /\ \A c \in Threads \ {t} : dials'[c] = dials[c]
<1>1. dials[t].pc \in {"resolve", "reserve", "connect"}
  BY DEF DialStep, DialResolve, DialReuse, DialReserve, DialNoSlot, DialConnected, DialFailed,
         DialHandshakeFailed
<1>2. CASE DialResolve(t) \/ DialNoSlot(t)
  BY <1>1, <1>2, ResolveShape
<1>3. CASE DialReuse(t)
  BY <1>1, <1>3, ReuseShape
<1>4. CASE DialReserve(t)
  BY <1>1, <1>4, ReserveShape
<1>5. CASE DialConnected(t)
  BY <1>1, <1>5, ConnectedShape
<1>6. CASE DialFailed(t) \/ DialHandshakeFailed(t)
  BY <1>1, <1>6, FailedShape
<1> QED
  BY <1>2, <1>3, <1>4, <1>5, <1>6 DEF DialStep

\* Phases, for one thread.
PhaseOf(c) ==
  /\ reqs[c].pc \in {"idle", "attempt"} => dials[c].pc = "idle"
  /\ reqs[c].pc = "exchange" => Holding(c)
  /\ reqs[c].pc = "dial" => dials[c].pc # "idle"

\* A thread that does not move keeps its phase.
LEMMA PhaseKept ==
  ASSUME Phases, NEW c \in Threads, dials'[c] = dials[c], reqs'[c].pc = reqs[c].pc
  PROVE  PhaseOf(c)'
  BY DEF Phases, PhaseOf, Holding

\* A thread whose dial is over is at rest or between attempts.
LEMMA PhaseRests ==
  ASSUME NEW c \in Threads, dials'[c].pc = "idle", reqs'[c].pc \in {"idle", "attempt"}
  PROVE  PhaseOf(c)'
  BY DEF PhaseOf

\* What Return and Close do to the requests: one that is given back disturbs the
\* others.
LEMMA ReleaseRequests ==
  ASSUME Typed, NEW t \in Threads, NEW close, NEW after, Release(t, close, after)
  PROVE  /\ reqs'[t] = after
         /\ \A c \in Threads \ {t} :
              /\ reqs'[c].pc = reqs[c].pc /\ reqs'[c].left = reqs[c].left
              /\ reqs'[c].disturbed = (reqs[c].disturbed \/ (~close /\ reqs[c].pc # "idle"))
<1>1. \A c \in Threads : reqs[c] \in RequestRecord
  BY DEF Typed
<1>2. reqs'[t] = after
  BY DEF Release
<1>3. \A c \in Threads \ {t} :
        reqs'[c] = [reqs[c] EXCEPT !.disturbed = @ \/ (~close /\ reqs[c].pc # "idle")]
  BY DEF Release
<1> QED
  BY ZenonT(60), <1>1, <1>2, <1>3 DEF RequestRecord

\* The request that an exchange or a late connection leaves behind.
Leaves(t, close, after) ==
  /\ Holding(t) /\ Release(t, close, after)
  /\ after \in RequestRecord /\ close \in BOOLEAN
  /\ \/ after.pc = "idle"
     \/ after.pc = "attempt" /\ after.left = Attempts
     \/ /\ after.pc = "attempt" /\ after.left = reqs[t].left
        /\ after.disturbed = reqs[t].disturbed
        /\ close /\ conns[dials[t].handle.index].reused

\* An exchange, and a connection that comes too late, end in a release.
LEMMA LeavesKinds ==
  ASSUME Typed, Phases, NEW t \in Threads, ConnectedLate(t) \/ DoDoRequest(t)
  PROVE  \E close, after : Leaves(t, close, after)
<1>1. \A r, sr : /\ AfterRequest(t, r, sr) \in RequestRecord
                 /\ \/ AfterRequest(t, r, sr).pc = "idle"
                    \/ /\ AfterRequest(t, r, sr).pc = "attempt"
                       /\ AfterRequest(t, r, sr).left = Attempts
  BY AfterRequestType
<1>2. CASE ConnectedLate(t)
  <2> DEFINE close == dials[t].sr # "ok"
  <2>1. /\ Holding(t) /\ close \in BOOLEAN
        /\ Release(t, close, AfterRequest(t, "ok", dials[t].sr))
    BY <1>2 DEF ConnectedLate, Holding
  <2> HIDE DEF close
  <2>2. Leaves(t, close, AfterRequest(t, "ok", dials[t].sr))
    BY <1>1, <2>1 DEF Leaves
  <2> QED
    BY <2>2
<1>3. CASE DoDoRequest(t)
  <2>1. PICK e \in Outcomes(t) :
          Release(t, e.close \/ e.r # "ok" \/ e.sr # "ok",
                  IF TryAgain(t, e) THEN [reqs[t] EXCEPT !.pc = "attempt"]
                  ELSE AfterRequest(t, e.r, e.sr))
    BY <1>3 DEF DoDoRequest
  <2> DEFINE close == e.close \/ e.r # "ok" \/ e.sr # "ok"
             after == [reqs[t] EXCEPT !.pc = "attempt"]
  <2>2. close \in BOOLEAN /\ Holding(t)
    BY <1>3 DEF DoDoRequest, Phases
  <2>3. CASE TryAgain(t, e)
    <3>1. close = TRUE /\ conns[dials[t].handle.index].reused
      BY <2>3 DEF TryAgain
    <3>2. reqs[t] \in RequestRecord
      BY DEF Typed
    <3>3. /\ after \in RequestRecord /\ after.pc = "attempt" /\ after.left = reqs[t].left
          /\ after.disturbed = reqs[t].disturbed
      BY <3>2 DEF RequestRecord
    <3>4. Release(t, close, after)
      BY <2>1, <2>3
    <3> HIDE DEF close, after
    <3>5. Leaves(t, close, after)
      BY <2>2, <3>1, <3>3, <3>4 DEF Leaves
    <3> QED
      BY <3>5
  <2>4. CASE ~TryAgain(t, e)
    <3>1. Release(t, close, AfterRequest(t, e.r, e.sr))
      BY <2>1, <2>4
    <3> HIDE DEF close
    <3>2. Leaves(t, close, AfterRequest(t, e.r, e.sr))
      BY <1>1, <2>2, <3>1 DEF Leaves
    <3> QED
      BY <3>2
  <2> QED
    BY <2>3, <2>4
<1> QED
  BY <1>2, <1>3

\* The steps by what they do to the requests.
LEMMA RequestKinds ==
  ASSUME Typed, Phases, [Next]_vars
  PROVE  \/ \E c \in Threads, h \in Hosts : Get(c, h) \/ Request(c, h)
         \/ \E c \in Threads : DialStep(c) /\ reqs' = reqs
         \/ \E c \in Threads : DoRequest(c) \/ GiveUp(c) \/ NotConnected(c) \/ ConnectedInTime(c)
                               \/ Expire(c)
         \/ \E c \in Threads : \E close, after : Leaves(c, close, after)
         \/ /\ reqs' = reqs /\ dials' = dials
            /\ conns' = conns \/ Shutdown \/ Reopen \/ \E i \in Slots : Expires(i)
<1>1. ASSUME NEW c \in Threads, ConnectedLate(c) \/ DoDoRequest(c)
      PROVE  \E close, after : Leaves(c, close, after)
  BY <1>1, LeavesKinds
<1> QED
  BY <1>1
  DEF Next, Dialling, Client, BeginShutdown, ShutdownConnectionPool, Shutdown, ReopenConnectionPool,
      Reopen, Expires, PeerCloses, vars, vars_pool, poolVars

\* Every step keeps Phases.
LEMMA PhasesStep ==
  ASSUME Typed, Phases, [Next]_vars
  PROVE  Phases'
<1> SUFFICES ASSUME NEW c \in Threads PROVE PhaseOf(c)'
  BY DEF Phases, PhaseOf
<1>0. dials \in [Threads -> DialRecord] /\ reqs \in [Threads -> RequestRecord]
  BY DEF Typed
<1>1. ASSUME NEW t \in Threads, NEW h \in Hosts, Get(t, h) \/ Request(t, h) PROVE PhaseOf(c)'
  <2>1. dials' = dials /\ reqs[t].pc = "idle" /\ reqs'[t].pc = "attempt"
        /\ \A d \in Threads \ {t} : reqs'[d] = reqs[d]
    BY <1>0, <1>1 DEF Get, Request, vars_pool, Started, NoRequest
  <2>2. dials[t].pc = "idle"
    BY <2>1 DEF Phases
  <2> QED
    BY <2>1, <2>2, PhaseKept, PhaseRests
<1>2. ASSUME NEW t \in Threads, DialStep(t), reqs' = reqs PROVE PhaseOf(c)'
  <2>1. /\ dials[t].pc \in {"resolve", "reserve", "connect"} /\ dials'[t].pc # "idle"
        /\ \A d \in Threads \ {t} : dials'[d] = dials[d]
    BY <1>2, DialStepShape
  <2>2. PhaseOf(t)'
    BY <1>2, <2>1 DEF Phases, PhaseOf, Holding
  <2> QED
    BY <1>2, <2>1, <2>2, PhaseKept
<1>3. ASSUME NEW t \in Threads, DoRequest(t) PROVE PhaseOf(c)'
  <2>1. /\ dials'[t].pc = "resolve" /\ reqs'[t].pc = "dial"
        /\ \A d \in Threads \ {t} : dials'[d] = dials[d] /\ reqs'[d] = reqs[d]
    BY <1>0, <1>3 DEF DoRequest, Dial, NoDial, RequestRecord
  <2> QED
    BY <2>1, PhaseKept DEF PhaseOf
<1>4. ASSUME NEW t \in Threads, GiveUp(t) PROVE PhaseOf(c)'
  <2>1. dials' = dials /\ reqs'[t].pc \in {"idle", "attempt"}
        /\ \A d \in Threads \ {t} : reqs'[d] = reqs[d]
    BY <1>0, <1>4, AfterRequestType DEF GiveUp, vars_pool
  <2>2. dials[t].pc = "idle"
    BY <1>4 DEF GiveUp, Phases
  <2> QED
    BY <2>1, <2>2, PhaseKept, PhaseRests
<1>5. ASSUME NEW t \in Threads, NotConnected(t) PROVE PhaseOf(c)'
  <2>1. dials'[t].pc = "idle" /\ reqs'[t].pc \in {"idle", "attempt"}
        /\ \A d \in Threads \ {t} : dials'[d] = dials[d] /\ reqs'[d] = reqs[d]
    <3>1. NoDial.pc = "idle"
      BY DEF NoDial
    <3> QED
      BY <1>0, <1>5, <3>1, AfterRequestType DEF NotConnected
  <2> QED
    BY <2>1, PhaseKept, PhaseRests
<1>6. ASSUME NEW t \in Threads, ConnectedInTime(t) PROVE PhaseOf(c)'
  <2>1. dials' = dials /\ Holding(t) /\ reqs'[t].pc = "exchange"
        /\ \A d \in Threads \ {t} : reqs'[d] = reqs[d]
    BY <1>0, <1>6 DEF ConnectedInTime, vars_pool, Holding, RequestRecord
  <2> QED
    BY <2>1, PhaseKept DEF PhaseOf, Holding
<1>7. ASSUME NEW t \in Threads, Expire(t) PROVE PhaseOf(c)'
  <2>1. dials' = dials /\ reqs'[t].pc = reqs[t].pc
        /\ \A d \in Threads \ {t} : reqs'[d] = reqs[d]
    BY <1>0, <1>7 DEF Expire, vars_pool, RequestRecord
  <2> QED
    BY <2>1, PhaseKept
<1>8. ASSUME NEW t \in Threads, NEW close, NEW after, Leaves(t, close, after) PROVE PhaseOf(c)'
  <2>1. dials'[t].pc = "idle" /\ \A d \in Threads \ {t} : dials'[d] = dials[d]
    BY <1>8, ReleaseShape DEF Leaves
  <2>2. reqs'[t].pc \in {"idle", "attempt"} /\ \A d \in Threads \ {t} : reqs'[d].pc = reqs[d].pc
    BY <1>8, ReleaseRequests DEF Leaves
  <2> QED
    BY <2>1, <2>2, PhaseKept, PhaseRests
<1>9. CASE reqs' = reqs /\ dials' = dials
  BY <1>9, PhaseKept
<1> QED
  BY <1>1, <1>2, <1>3, <1>4, <1>5, <1>6, <1>7, <1>8, <1>9, RequestKinds

-----------------------------------------------------------------------------
(* The attempts that a request has left.                                   *)

\* There are fewer slots than attempts.
LEMMA IdleBound ==
  ASSUME NEW T \in SUBSET Slots
  PROVE  Cardinality(T) \in Nat /\ Cardinality(T) < Attempts
<1>1. IsFiniteSet(Slots) /\ Cardinality(Slots) = MaxConnections
  BY FS_Interval, ConnectionPoolAssumption DEF Slots
<1>3. IsFiniteSet(T) /\ Cardinality(T) <= Cardinality(Slots)
  BY <1>1, FS_Subset
<1>4. Cardinality(T) \in Nat
  BY <1>3, FS_CardinalityType
<1> QED
  BY <1>1, <1>3, <1>4, ConnectionPoolAssumption DEF Attempts

\* The idle connections are finitely many.
LEMMA IdleFinite == IsFiniteSet(Idle)
<1>1. IsFiniteSet(Slots) /\ Idle \subseteq Slots
  BY FS_Interval, ConnectionPoolAssumption DEF Slots, Idle
<1> QED
  BY <1>1, FS_Subset

\* Fewer idle connections, a smaller number.
LEMMA IdleShrinks ==
  ASSUME Idle' \subseteq Idle
  PROVE  /\ Cardinality(Idle) \in Nat /\ Cardinality(Idle') \in Nat
         /\ Cardinality(Idle') <= Cardinality(Idle)
         /\ Idle' # Idle => Cardinality(Idle') < Cardinality(Idle)
<1>1. IsFiniteSet(Idle)
  BY IdleFinite
<1>2. IsFiniteSet(Idle') /\ Cardinality(Idle') <= Cardinality(Idle)
  BY <1>1, FS_Subset
<1>3. Idle' # Idle => Cardinality(Idle') < Cardinality(Idle)
  <2>1. Cardinality(Idle) = Cardinality(Idle') => Idle' = Idle
    BY <1>1, FS_Subset
  <2>2. Cardinality(Idle) \in Nat /\ Cardinality(Idle') \in Nat
    BY <1>1, <1>2, FS_CardinalityType
  <2> QED
    BY <1>2, <2>1, <2>2
<1> QED
  BY <1>1, <1>2, <1>3, FS_CardinalityType

\* Budget, for one thread.
BudgetOf(c) ==
  ~reqs[c].disturbed =>
    /\ reqs[c].pc = "attempt" => Cardinality(Idle) < reqs[c].left
    /\ reqs[c].pc = "dial" => Cardinality(Idle) <= reqs[c].left
    /\ Holding(c) /\ conns[dials[c].handle.index].reused => Cardinality(Idle) < reqs[c].left

\* A thread keeps its budget while no connection becomes idle.
LEMMA BudgetKept ==
  ASSUME Typed, Budget, NEW c \in Threads, Idle' \subseteq Idle,
         reqs'[c].pc = reqs[c].pc, reqs'[c].left = reqs[c].left,
         reqs'[c].disturbed = reqs[c].disturbed, dials'[c] = dials[c],
         Holding(c) => conns'[dials[c].handle.index].reused = conns[dials[c].handle.index].reused
  PROVE  BudgetOf(c)'
<1>1. /\ Cardinality(Idle) \in Nat /\ Cardinality(Idle') \in Nat
      /\ Cardinality(Idle') <= Cardinality(Idle)
  BY IdleShrinks
<1>2. reqs[c].left \in Int
  <2>1. reqs[c] \in RequestRecord
    BY DEF Typed
  <2> QED
    BY <2>1 DEF RequestRecord
<1>3. Holding(c)' <=> Holding(c)
  BY SameDial
<1>4. BudgetOf(c)
  BY DEF Budget, BudgetOf
<1>5. /\ Cardinality(Idle) < reqs[c].left => Cardinality(Idle') < reqs[c].left
      /\ Cardinality(Idle) <= reqs[c].left => Cardinality(Idle') <= reqs[c].left
  BY <1>1, <1>2
<1> QED
  BY <1>3, <1>4, <1>5 DEF BudgetOf

\* A request that starts has attempts enough.
LEMMA BudgetFresh ==
  ASSUME NEW c \in Threads, ~Holding(c)',
         reqs'[c].pc = "idle" \/ (reqs'[c].pc = "attempt" /\ reqs'[c].left = Attempts)
  PROVE  BudgetOf(c)'
<1>1. Idle' \in SUBSET Slots
  BY DEF Idle
<1>2. Cardinality(Idle') < Attempts
  BY <1>1, IdleBound
<1> QED
  BY <1>2 DEF BudgetOf

\* A step of a dial makes no connection idle, and one that reuses a connection leaves
\* one idle connection fewer.
LEMMA SlotsKept ==
  ASSUME Typed, Owners, NEW t \in Threads, DialStep(t)
  PROVE  /\ Idle' \subseteq Idle
         /\ Holding(t)' /\ conns'[dials'[t].handle.index].reused => Idle' # Idle
         /\ \A c \in Threads \ {t} : Holding(c) => conns'[dials[c].handle.index] = conns[dials[c].handle.index]
<1>p. \A i \in Slots : /\ Purged(i).state = "connected" => conns[i].state = "connected"
                       /\ conns[i].state = "inuse" => Purged(i) = conns[i]
  BY NoConnectionFields DEF Purged, Expired
<1>h. \A c \in Threads : Holding(c) => /\ dials[c].handle.index \in Slots /\ SlotOf(c) = dials[c].handle.index
                                       /\ conns[dials[c].handle.index].state = "inuse" /\ User(c)
  BY DEF Typed, Owners, SlotOf, User
<1>1. CASE DialResolve(t) \/ DialNoSlot(t)
  BY <1>1, ResolveShape DEF Idle, User
<1>2. CASE DialReuse(t)
  <2>1. PICK i \in Slots \ Expired :
           /\ conns[i].state = "connected" /\ conns'[i].state = "inuse"
           /\ \A j \in Slots \ {i} : conns'[j] = Purged(j)
    BY <1>2, ReuseShape
  <2>2. \A j \in Slots : conns'[j].state = "connected" => conns[j].state = "connected"
    BY <1>p, <2>1
  <2>3. i \in Idle /\ i \notin Idle'
    BY <2>1 DEF Idle
  <2> QED
    BY <1>p, <1>h, <2>1, <2>2, <2>3 DEF Idle
<1>3. CASE DialReserve(t)
  <2>1. PICK i \in Slots :
           /\ conns[i].state = "free" \/ i \in Expired
           /\ conns'[i].state = "inuse"
           /\ \A j \in Slots \ {i} : conns'[j] = Purged(j)
           /\ dials'[t].pc = "connect"
    BY <1>3, ReserveShape
  <2>2. conns[i].state # "inuse" /\ ~Holding(t)'
    BY <2>1 DEF Expired, Holding
  <2>3. Idle' \subseteq Idle
    BY <1>p, <2>1 DEF Idle
  <2> QED
    BY <1>p, <1>h, <2>1, <2>2, <2>3
<1>4. CASE DialConnected(t)
  <2>1. /\ Reserving(t) /\ SlotOf(t) \in Slots
        /\ conns'[SlotOf(t)].state = "inuse" /\ ~conns'[SlotOf(t)].reused
        /\ \A j \in Slots \ {SlotOf(t)} : conns'[j] = conns[j]
        /\ dials'[t].handle.index = SlotOf(t)
    BY <1>4, ConnectedShape
  <2>2. Idle' \subseteq Idle
    BY <2>1 DEF Idle
  <2>3. \A c \in Threads \ {t} : Holding(c) => dials[c].handle.index # SlotOf(t)
    BY <1>h, <2>1 DEF Owners, User
  <2> QED
    BY <1>h, <2>1, <2>2, <2>3
<1>5. CASE DialFailed(t) \/ DialHandshakeFailed(t)
  <2>1. /\ Reserving(t) /\ SlotOf(t) \in Slots
        /\ conns'[SlotOf(t)] = NoConnection
        /\ \A j \in Slots \ {SlotOf(t)} : conns'[j] = conns[j]
        /\ ~Holding(t)'
    BY <1>5, FailedShape DEF User
  <2>2. Idle' \subseteq Idle
    BY <2>1, NoConnectionFields DEF Idle
  <2>3. \A c \in Threads \ {t} : Holding(c) => dials[c].handle.index # SlotOf(t)
    BY <1>h, <2>1 DEF Owners, User
  <2> QED
    BY <1>h, <2>1, <2>2, <2>3
<1> QED
  BY <1>1, <1>2, <1>3, <1>4, <1>5 DEF DialStep

\* Every step keeps Budget.
LEMMA BudgetStep ==
  ASSUME Typed, Phases, Owners, Budget, [Next]_vars
  PROVE  Budget'
<1> SUFFICES ASSUME NEW c \in Threads PROVE BudgetOf(c)'
  BY DEF Budget, BudgetOf
<1>0. dials \in [Threads -> DialRecord] /\ reqs \in [Threads -> RequestRecord]
  BY DEF Typed
<1>i. conns' = conns => Idle' \subseteq Idle
  BY DEF Idle
<1>h. \A d \in Threads : Holding(d) => /\ dials[d].handle.index \in Slots /\ SlotOf(d) = dials[d].handle.index
                                       /\ conns[dials[d].handle.index].state = "inuse" /\ User(d)
  BY DEF Typed, Owners, SlotOf, User
<1>1. ASSUME NEW t \in Threads, NEW h \in Hosts, Get(t, h) \/ Request(t, h) PROVE BudgetOf(c)'
  <2>1. dials' = dials /\ conns' = conns /\ reqs[t].pc = "idle"
        /\ reqs'[t].pc = "attempt" /\ reqs'[t].left = Attempts
        /\ \A d \in Threads \ {t} : reqs'[d] = reqs[d]
    BY <1>0, <1>1 DEF Get, Request, vars_pool, poolVars, Started, NoRequest
  <2>2. ~Holding(t)'
    BY <2>1 DEF Phases, Holding
  <2> QED
    BY <1>i, <2>1, <2>2, BudgetKept, BudgetFresh
<1>2. ASSUME NEW t \in Threads, DialStep(t), reqs' = reqs PROVE BudgetOf(c)'
  <2>1. /\ dials[t].pc \in {"resolve", "reserve", "connect"}
        /\ \A d \in Threads \ {t} : dials'[d] = dials[d]
    BY <1>2, DialStepShape
  <2>2. /\ Idle' \subseteq Idle
        /\ Holding(t)' /\ conns'[dials'[t].handle.index].reused => Idle' # Idle
        /\ \A d \in Threads \ {t} : Holding(d) => conns'[dials[d].handle.index] = conns[dials[d].handle.index]
    BY <1>2, SlotsKept
  <2>3. CASE c # t
    BY <1>2, <2>1, <2>2, <2>3, BudgetKept
  <2>4. CASE c = t
    <3>1. reqs[t].pc = "dial" /\ reqs[t].left \in Int
      <4>1. reqs[t] \in RequestRecord
        BY <1>0
      <4>2. reqs[t].pc \in {"idle", "attempt", "dial", "exchange"} /\ reqs[t].left \in Int
        BY <4>1 DEF RequestRecord
      <4> QED
        BY <2>1, <4>2 DEF Phases, Holding
    <3>2. SUFFICES ASSUME ~reqs[t].disturbed
                   PROVE  /\ Cardinality(Idle') <= reqs[t].left
                          /\ Holding(t)' /\ conns'[dials'[t].handle.index].reused
                             => Cardinality(Idle') < reqs[t].left
      BY <1>2, <2>4, <3>1 DEF BudgetOf
    <3>3. Cardinality(Idle) <= reqs[t].left
      BY <3>1, <3>2 DEF Budget
    <3>4. /\ Cardinality(Idle) \in Nat /\ Cardinality(Idle') \in Nat
          /\ Cardinality(Idle') <= Cardinality(Idle)
          /\ Idle' # Idle => Cardinality(Idle') < Cardinality(Idle)
      BY <2>2, IdleShrinks
    <3> QED
      BY <2>2, <3>1, <3>3, <3>4
  <2> QED
    BY <2>3, <2>4
<1>3. ASSUME NEW t \in Threads, DoRequest(t) PROVE BudgetOf(c)'
  <2>1. /\ dials'[t].pc = "resolve" /\ reqs'[t].pc = "dial" /\ reqs[t].pc = "attempt"
        /\ reqs'[t].left = reqs[t].left - 1 /\ reqs'[t].disturbed = reqs[t].disturbed
        /\ \A d \in Threads \ {t} : dials'[d] = dials[d] /\ reqs'[d] = reqs[d]
        /\ conns' = conns
    BY <1>0, <1>3 DEF DoRequest, Dial, NoDial, RequestRecord, poolVars
  <2>2. CASE c = t
    <3>1. reqs[t].left \in Int
      <4>1. reqs[t] \in RequestRecord
        BY <1>0
      <4> QED
        BY <4>1 DEF RequestRecord
    <3>2. ~Holding(t)'
      BY <2>1 DEF Holding
    <3>3. Idle' = Idle /\ Cardinality(Idle) \in Nat
      BY <2>1, IdleShrinks DEF Idle
    <3>4. ~reqs[t].disturbed => Cardinality(Idle) < reqs[t].left
      BY <2>1 DEF Budget
    <3>5. ~reqs[t].disturbed => Cardinality(Idle') <= reqs'[t].left
      BY <2>1, <3>1, <3>3, <3>4
    <3> QED
      BY <2>1, <2>2, <3>2, <3>5 DEF BudgetOf
  <2>3. CASE c # t
    BY <1>i, <2>1, <2>3, BudgetKept
  <2> QED
    BY <2>2, <2>3
<1>4. ASSUME NEW t \in Threads, GiveUp(t) PROVE BudgetOf(c)'
  <2>1. dials' = dials /\ conns' = conns /\ \A d \in Threads \ {t} : reqs'[d] = reqs[d]
    BY <1>0, <1>4 DEF GiveUp, vars_pool, poolVars
  <2>2. reqs'[t].pc = "idle" \/ (reqs'[t].pc = "attempt" /\ reqs'[t].left = Attempts)
    BY <1>0, <1>4, AfterRequestType DEF GiveUp
  <2>3. ~Holding(t)'
    BY <1>4, <2>1 DEF GiveUp, Phases, Holding
  <2> QED
    BY <1>i, <2>1, <2>2, <2>3, BudgetKept, BudgetFresh
<1>5. ASSUME NEW t \in Threads, NotConnected(t) PROVE BudgetOf(c)'
  <2>1. conns' = conns /\ \A d \in Threads \ {t} : dials'[d] = dials[d] /\ reqs'[d] = reqs[d]
    BY <1>0, <1>5 DEF NotConnected, poolVars
  <2>2. reqs'[t].pc = "idle" \/ (reqs'[t].pc = "attempt" /\ reqs'[t].left = Attempts)
    BY <1>0, <1>5, AfterRequestType DEF NotConnected
  <2>3. ~Holding(t)'
    BY <1>0, <1>5 DEF NotConnected, Holding, NoDial
  <2> QED
    BY <1>i, <2>1, <2>2, <2>3, BudgetKept, BudgetFresh
<1>6. ASSUME NEW t \in Threads, ConnectedInTime(t) PROVE BudgetOf(c)'
  <2>1. dials' = dials /\ conns' = conns
        /\ reqs'[t].pc = "exchange" /\ reqs'[t].left = reqs[t].left
        /\ reqs'[t].disturbed = reqs[t].disturbed
        /\ \A d \in Threads \ {t} : reqs'[d] = reqs[d]
    BY <1>0, <1>6 DEF ConnectedInTime, vars_pool, poolVars, RequestRecord
  <2>2. BudgetOf(t)'
    BY <2>1 DEF Budget, BudgetOf, Holding, Idle
  <2> QED
    BY <1>i, <2>1, <2>2, BudgetKept
<1>7. ASSUME NEW t \in Threads, Expire(t) PROVE BudgetOf(c)'
  <2>1. dials' = dials /\ conns' = conns
        /\ reqs'[t].pc = reqs[t].pc /\ reqs'[t].left = reqs[t].left
        /\ reqs'[t].disturbed = reqs[t].disturbed
        /\ \A d \in Threads \ {t} : reqs'[d] = reqs[d]
    BY <1>0, <1>7 DEF Expire, vars_pool, poolVars, RequestRecord
  <2> QED
    BY <1>i, <2>1, BudgetKept
<1>8. ASSUME NEW t \in Threads, NEW close, NEW after, Leaves(t, close, after) PROVE BudgetOf(c)'
  <2>1. /\ SlotOf(t) \in Slots /\ SlotOf(t) = dials[t].handle.index
        /\ close => conns'[SlotOf(t)] = NoConnection
        /\ \A j \in Slots \ {SlotOf(t)} : conns'[j] = conns[j]
        /\ ~User(t)' /\ dials'[t].pc = "idle"
        /\ \A d \in Threads \ {t} : dials'[d] = dials[d]
    BY <1>8, ReleaseShape DEF Leaves
  <2>2. /\ reqs'[t] = after
        /\ \A d \in Threads \ {t} :
             /\ reqs'[d].pc = reqs[d].pc /\ reqs'[d].left = reqs[d].left
             /\ reqs'[d].disturbed = (reqs[d].disturbed \/ (~close /\ reqs[d].pc # "idle"))
    BY <1>8, ReleaseRequests DEF Leaves
  <2>3. close => Idle' \subseteq Idle
    BY <2>1, NoConnectionFields DEF Idle
  <2>4. ~Holding(t)' /\ Holding(t)
    BY <1>8, <2>1 DEF User, Leaves
  <2>5. CASE c # t /\ close
    <3>1. Holding(c) => conns'[dials[c].handle.index] = conns[dials[c].handle.index]
      BY <1>h, <2>1, <2>4, <2>5 DEF Owners
    <3>2. reqs[c].disturbed \in BOOLEAN
      <4>1. reqs[c] \in RequestRecord
        BY <1>0
      <4> QED
        BY <4>1 DEF RequestRecord
    <3>3. reqs'[c].disturbed = reqs[c].disturbed
      BY <2>2, <2>5, <3>2
    <3> QED
      BY <2>1, <2>2, <2>3, <2>5, <3>1, <3>3, BudgetKept
  <2>6. CASE c # t /\ ~close
    <3>1. CASE reqs[c].pc = "idle"
      <4>1. ~Holding(c)'
        BY <2>1, <2>6, <3>1 DEF Phases, Holding
      <4> QED
        BY <2>2, <2>6, <3>1, <4>1, BudgetFresh
    <3>2. CASE reqs[c].pc # "idle"
      BY <2>2, <2>6, <3>2 DEF BudgetOf
    <3> QED
      BY <3>1, <3>2
  <2>7. CASE c = t
    <3>1. CASE after.pc = "idle" \/ (after.pc = "attempt" /\ after.left = Attempts)
      BY <2>2, <2>4, <2>7, <3>1, BudgetFresh
    <3>2. CASE /\ after.pc = "attempt" /\ after.left = reqs[t].left
               /\ after.disturbed = reqs[t].disturbed
               /\ close /\ conns[dials[t].handle.index].reused
      <4>1. ~reqs[t].disturbed => Cardinality(Idle) < reqs[t].left
        BY <2>4, <3>2 DEF Budget
      <4>2. reqs[t].left \in Int
        <5>1. reqs[t] \in RequestRecord
          BY <1>0
        <5> QED
          BY <5>1 DEF RequestRecord
      <4>3. /\ Cardinality(Idle) \in Nat /\ Cardinality(Idle') \in Nat
            /\ Cardinality(Idle') <= Cardinality(Idle)
        BY <2>3, <3>2, IdleShrinks
      <4>4. ~reqs[t].disturbed => Cardinality(Idle') < reqs[t].left
        BY <4>1, <4>2, <4>3
      <4> QED
        BY <2>2, <2>4, <2>7, <3>2, <4>4 DEF BudgetOf
    <3> QED
      BY <1>8, <3>1, <3>2 DEF Leaves
  <2> QED
    BY <2>5, <2>6, <2>7
<1>9. CASE /\ reqs' = reqs /\ dials' = dials
           /\ conns' = conns \/ Shutdown \/ Reopen \/ \E i \in Slots : Expires(i)
  <2>1. ASSUME conns' = conns PROVE BudgetOf(c)'
    BY <1>9, <1>i, <2>1, BudgetKept
  <2>2. ASSUME Shutdown PROVE BudgetOf(c)'
    <3>1. \A i \in Slots : conns'[i].state = conns[i].state /\ conns'[i].reused = conns[i].reused
      BY <2>2, ShutdownShape
    <3>2. Idle' \subseteq Idle
      BY <3>1 DEF Idle
    <3> QED
      BY <1>9, <1>h, <3>1, <3>2, BudgetKept
  <2>3. ASSUME Reopen PROVE BudgetOf(c)'
    <3>1. \A i \in Slots : conns'[i] = IF conns[i].state = "connected" THEN NoConnection ELSE conns[i]
      BY <2>3 DEF Reopen, Cleared, Idle
    <3>2. Idle' \subseteq Idle
      BY <3>1, NoConnectionFields DEF Idle
    <3> QED
      BY <1>9, <1>h, <3>1, <3>2, BudgetKept
  <2>4. ASSUME NEW i \in Slots, Expires(i) PROVE BudgetOf(c)'
    <3>1. \A j \in Slots : conns'[j].state = conns[j].state /\ conns'[j].reused = conns[j].reused
      BY <2>4, ExpiresShape
    <3>2. Idle' \subseteq Idle
      BY <3>1 DEF Idle
    <3> QED
      BY <1>9, <1>h, <3>1, <3>2, BudgetKept
  <2> QED
    BY <1>9, <2>1, <2>2, <2>3, <2>4
<1> QED
  BY <1>1, <1>2, <1>3, <1>4, <1>5, <1>6, <1>7, <1>8, <1>9, RequestKinds

-----------------------------------------------------------------------------
(* The theorems.                                                           *)

\* The invariant holds at the start.
LEMMA InitIndInv == Init => IndInv
<1> SUFFICES ASSUME Init PROVE IndInv
  OBVIOUS
<1>1. Typed
  BY TypedInit
<1>2. \A c \in Threads : dials[c].pc = "idle" /\ reqs[c].pc = "idle" /\ ~User(c) /\ ~Holding(c)
  BY DEF Init, PoolInit, NoDial, NoRequest, User, Holding, Reserving
<1>3. \A i \in Slots : /\ conns[i].state = "free" /\ conns[i].socket = INVALID_SOCKET_HANDLE
                       /\ ~conns[i].was_shutdown
  BY DEF Init, PoolInit, NoConnection
<1>4. Phases
  BY <1>2 DEF Phases
<1>5. Owners
  BY <1>2, <1>3 DEF Owners, User
<1>6. SlotSockets
  BY <1>3 DEF SlotSockets
<1>7. Descriptors
  <2>1. INVALID_SOCKET_HANDLE \notin Sockets
    BY ConnectionPoolAssumption DEF Sockets, INVALID_SOCKET_HANDLE
  <2>2. abandoned = {} /\ \A s \in Sockets : sockets[s] = "none"
    BY DEF Init, PoolInit
  <2> QED
    BY <1>3, <2>1, <2>2 DEF Descriptors, FlaggedIsShut
<1>8. Budget
  BY <1>2 DEF Budget
<1> QED
  BY <1>1, <1>4, <1>5, <1>6, <1>7, <1>8 DEF IndInv

\* Every step keeps the invariant.
LEMMA NextIndInv == IndInv /\ [Next]_vars => IndInv'
<1> SUFFICES ASSUME IndInv, [Next]_vars PROVE IndInv'
  OBVIOUS
<1>1. Typed /\ Phases /\ Owners /\ SlotSockets /\ Descriptors /\ Budget
  BY DEF IndInv
<1>2. \A c \in Threads : reqs[c].pc = "exchange" => Holding(c)
  BY <1>1 DEF Phases
<1> QED
  BY <1>1, <1>2, TypedStep, PhasesStep, OwnersStep, SlotSocketsStep, DescriptorsStep, BudgetStep
  DEF IndInv

\* The inductive invariant holds of every behaviour of the client and its pool.
THEOREM Invariance == Spec => []IndInv
  BY InitIndInv, NextIndInv, PTL DEF Spec

\* A slot of the connection pool is held by at most one thread, and its handle stays
\* good until it is given back: connection_pool.cpp reserves a slot before a long dial,
\* without its lock.
THEOREM PoolOwned == Spec => []ConnectionsHeldByOne
<1>1. IndInv => ConnectionsHeldByOne
  <2> SUFFICES ASSUME IndInv PROVE ConnectionsHeldByOne
    OBVIOUS
  <2>1. Typed /\ Owners
    BY DEF IndInv
  <2>2. TypeOK
    <3>1. /\ conns \in [Slots -> ConnectionRecord]
          /\ next_version \in 0 .. VersionRange - 1 /\ allow \in BOOLEAN /\ shutting \in BOOLEAN
          /\ sockets \in [Sockets -> {"none", "open", "peer_closed", "shut"}]
          /\ abandoned \subseteq Sockets
      BY <2>1 DEF Typed
    <3>2. \A c \in Threads : /\ dials[c] \in DialRecord /\ reqs[c] \in RequestRecord
                             /\ Reserving(c) => dials[c].index \in Slots
      BY <2>1 DEF Typed
    <3>3. \A c \in Threads :
            /\ dials[c].pc \in {"idle", "resolve", "reserve", "connect", "done"}
            /\ dials[c].sr \in {"ok", "wouldblock", "failed"}
      BY <3>2 DEF DialRecord
    <3>4. \A c \in Threads :
            /\ reqs[c].pc \in {"idle", "attempt", "dial", "exchange"}
            /\ reqs[c].left \in 0 .. Attempts /\ reqs[c].tries \in 0 .. MaxGetRetries
      BY <3>2 DEF RequestRecord
    <3> QED
      BY <3>1, <3>2, <3>3, <3>4 DEF TypeOK, ConnectionRecord
  <2>3. \A c \in Threads : Holding(c) => SlotOf(c) = dials[c].handle.index /\ SlotOf(c) \in Slots
    BY <2>1 DEF SlotOf, Typed
  <2>4. \A c \in Threads : Holding(c) =>
       Valid(dials[c].handle) /\ conns[dials[c].handle.index].socket # INVALID_SOCKET_HANDLE
    BY <2>1, <2>3 DEF Owners, Valid, User
  <2>5. \A c \in Threads : User(c) => SlotOf(c) \in Slots
    BY <2>1, SlotOfType
  <2>6. InUse = {SlotOf(c) : c \in {d \in Threads : Holding(d) \/ Reserving(d)}}
    BY <2>1, <2>5 DEF Owners, InUse, User
  <2> QED
    BY <2>1, <2>2, <2>4, <2>6 DEF ConnectionsHeldByOne, Owners, User
<1> QED
  BY <1>1, Invariance, PTL

\* A socket has one owner, however dials fail, connections expire and the pool is shut
\* down in between.
THEOREM SocketsOwned == Spec => []SocketsOwnedOnce
<1>1. IndInv => SocketsOwnedOnce
  <2> SUFFICES ASSUME IndInv PROVE SocketsOwnedOnce
    OBVIOUS
  <2>1. Typed /\ Descriptors
    BY DEF IndInv
  <2>2. {s \in Sockets : sockets[s] # "none"} =
          ({conns[i].socket : i \in Slots} \ {INVALID_SOCKET_HANDLE}) \cup abandoned
    <3>1. abandoned \subseteq Sockets
      BY <2>1 DEF Typed
    <3>2. \A i \in Slots : conns[i].socket # INVALID_SOCKET_HANDLE => conns[i].socket \in Sockets
      BY <2>1, SocketOfSlot
    <3>3. INVALID_SOCKET_HANDLE \notin Sockets
      BY ConnectionPoolAssumption DEF Sockets, INVALID_SOCKET_HANDLE
    <3> QED
      BY <2>1, <3>1, <3>2, <3>3 DEF Descriptors
  <2> QED
    BY <2>1, <2>2 DEF Descriptors, SocketsOwnedOnce
<1> QED
  BY <1>1, Invariance, PTL

\* The loop in DoRequest has more attempts than the pool has connections, so a request
\* that no other thread disturbs never fails on stale connections alone.
THEOREM LoopIsLongEnough == Spec => []RetriesSuffice
<1>1. IndInv => RetriesSuffice
  <2> SUFFICES ASSUME IndInv, NEW c \in Threads, reqs[c].pc = "attempt", reqs[c].left = 0
               PROVE  reqs[c].disturbed
    BY DEF RetriesSuffice
  <2>1. ~reqs[c].disturbed => Cardinality(Idle) < reqs[c].left
    BY DEF IndInv, Budget
  <2>2. Idle \in SUBSET Slots
    BY DEF Idle
  <2>3. Cardinality(Idle) \in Nat
    BY <2>2, IdleBound
  <2> QED
    BY <2>1, <2>3
<1> QED
  BY <1>1, Invariance, PTL
=============================================================================
