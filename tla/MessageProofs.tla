--------------------------- MODULE MessageProofs ---------------------------
(***************************************************************************)
(* Proofs about Message, for every set of threads and names, every number  *)
(* of sockets, pages and messages.                                         *)
(***************************************************************************)
EXTENDS Message, SequenceTheorems, FunctionTheorems, FiniteSetTheorems, TLAPS

-----------------------------------------------------------------------------
(* Sequences without duplicates. *)

\* x is an element of the sequence.
In(s, x) == \E k \in 1 .. Len(s) : s[k] = x
\* No element twice.
NoDup(s) == \A k, l \in 1 .. Len(s) : s[k] = s[l] => k = l

\* The sequence of messages holds the message with this identity.
HasId(s, m) == \E k \in 1 .. Len(s) : s[k].id = m
\* No message twice.
DistinctIds(s) == \A k, l \in 1 .. Len(s) : s[k].id = s[l].id => k = l

-----------------------------------------------------------------------------
(* The invariant: sockets. *)

\* A socket in its entry.
SocketRecord == [refs : Nat, queue : Seq(Places), current : Pages \cup {None},
                 used : 0 .. PageMessages, full : Seq(Pages), free : Seq(Pages),
                 live : BOOLEAN]

\* TypeOK, and the memory.
Typed == TypeOK /\ mem \in [Pages -> [1 .. PageMessages -> Messages \cup {None}]]

\* Threads that are going to post a message are counted by MayPost.
Posting == {t \in Threads : pc[t] = "enqueue"}
\* There is a number left for each of them.
BudgetInv == posted + Cardinality(Posting) <= MaxPosts

\* An entry of the hash table is not used yet, or in the table once, or erased.
TableInv ==
  /\ \A n, m \in Names : table[n] # None /\ table[n] = table[m] => n = m
  /\ \A n \in Names : table[n] <= created
  /\ NoDup(freeEntries)
  /\ \A k \in 1 .. Len(freeEntries) : freeEntries[k] <= created /\ ~InTable(freeEntries[k])
  /\ \A e \in Entries : e <= created => InTable(e) \/ In(freeEntries, e)

\* A thread has a socket as long as it is in a call.
PtrInv == \A t \in Threads : pc[t] = "idle" <=> ptr[t] = None

\* m_RefCount counts the table and the threads that use the socket; whoever drops
\* the last reference disposes of it.
RefInv(e) ==
  /\ sock[e].live => sock[e].refs = (IF InTable(e) THEN 1 ELSE 0) + Cardinality(Users(e))
  /\ Users(e) # {} \/ InTable(e) => sock[e].live /\ Disposers(e) = {}
  /\ Disposers(e) # {} => sock[e].live
  /\ \A t, u \in Disposers(e) : t = u
  /\ sock[e].live => Users(e) # {} \/ InTable(e) \/ Disposers(e) # {}
  /\ e > created => ~sock[e].live

\* RefInv, for all entries.
RefsInv == \A e \in Entries : RefInv(e)

\* A socket that was disposed of holds nothing, and a thread holds messages and
\* pages in its callbacks only.
EmptyInv ==
  /\ \A e \in Entries : ~sock[e].live => /\ sock[e].queue = <<>> /\ sock[e].full = <<>>
                                         /\ sock[e].free = <<>> /\ sock[e].current = None
  /\ \A t \in Threads : pc[t] # "callbacks" => batch[t] = <<>> /\ unlinked[t] = <<>>

\* The one place where page p is.
PageAt(p, k, e, t) ==
  /\ p \in heap <=> k = "heap"
  /\ \A f \in Entries : /\ In(sock[f].free, p) <=> (k = "free" /\ f = e)
                        /\ In(sock[f].full, p) <=> (k = "full" /\ f = e)
                        /\ sock[f].current = p <=> (k = "current" /\ f = e)
  /\ \A u \in Threads : In(unlinked[u], p) <=> (k = "unlinked" /\ u = t)

\* The places where a page can be.
PagePlaces == {"heap", "free", "full", "current", "unlinked"}

\* Every page is in one place, and there once.
PagesInv ==
  /\ \A p \in Pages : \E k \in PagePlaces, e \in Entries, t \in Threads \cup {None} :
       PageAt(p, k, e, t) /\ (k = "unlinked" => t \in Threads)
  /\ \A e \in Entries : NoDup(sock[e].free) /\ NoDup(sock[e].full)
  /\ \A t \in Threads : NoDup(unlinked[t])

\* The inductive invariant about sockets and pages.
SocketsInv == Typed /\ BudgetInv /\ TableInv /\ PtrInv /\ RefsInv /\ EmptyInv /\ PagesInv

-----------------------------------------------------------------------------
(* The invariant: messages. *)

\* Message m is on a page that socket s does not reuse before the next dispatch.
OnPage(m, s) == In(s.full, m.page) \/ (m.page = s.current /\ m.offset <= s.used)

\* A message that waits is on a page its socket keeps, one that is being dispatched is
\* on such a page or on one the dispatch has unlinked; its memory holds it.
MemoryInv ==
  /\ \A e \in Entries, m \in Places : In(sock[e].queue, m) =>
       OnPage(m, sock[e]) /\ mem[m.page][m.offset] = m.id
  /\ \A t \in Threads, m \in Places : In(batch[t], m) =>
       (OnPage(m, sock[ptr[t]]) \/ In(unlinked[t], m.page)) /\ mem[m.page][m.offset] = m.id

\* The one place where message m is.
MessageAt(m, k, e, t) ==
  /\ \A f \in Entries : HasId(sock[f].queue, m) <=> (k = "queue" /\ f = e)
  /\ \A u \in Threads : HasId(batch[u], m) <=> (k = "batch" /\ u = t)
  /\ gone[m] = IF k = "gone" THEN 1 ELSE 0

\* The places where a message can be.
MessagePlaces == {"queue", "batch", "gone"}

\* Every message that was posted is in one place, and there once.
OnceInv ==
  /\ \A m \in Messages : m <= posted =>
       \E k \in MessagePlaces, e \in Entries, t \in Threads : MessageAt(m, k, e, t)
  /\ \A m \in Messages : m > posted =>
       /\ \A f \in Entries : ~HasId(sock[f].queue, m)
       /\ \A u \in Threads : ~HasId(batch[u], m)
       /\ gone[m] = 0
  /\ \A e \in Entries : DistinctIds(sock[e].queue)
  /\ \A t \in Threads : DistinctIds(batch[t])

\* The inductive invariant about messages.
MessagesInv == SocketsInv /\ MemoryInv /\ OnceInv

\* No two threads dispatch the messages of one socket at the same time.
OneDispatcher ==
  \A t, u \in Threads : pc[t] = "callbacks" /\ pc[u] = "callbacks" /\ ptr[t] = ptr[u] => t = u

\* NewSocket is never given the entry of a socket that is not disposed of yet.
EntryIsFree == \A t \in Threads, n \in Names : NewSocket(t, n) => ~sock[AllocateEntry].live

-----------------------------------------------------------------------------
(* Lemmas about sequences. *)

\* Nothing is in the empty sequence.
LEMMA InEmpty == NoDup(<<>>) /\ DistinctIds(<<>>) /\ \A x : ~In(<<>>, x) /\ ~HasId(<<>>, x)
  BY DEF In, NoDup, HasId, DistinctIds

\* The community module's set of the elements.
LEMMA InToSet ==
  ASSUME NEW S, NEW s \in Seq(S)
  PROVE  \A x : x \in ToSet(s) <=> In(s, x)
  BY DEF ToSet, In

\* The elements of a sequence are of its type.
LEMMA InType ==
  ASSUME NEW S, NEW s \in Seq(S), NEW x, In(s, x)
  PROVE  x \in S
  BY DEF In

\* One sequence behind another.
LEMMA InConcat ==
  ASSUME NEW S, NEW p \in Seq(S), NEW q \in Seq(S)
  PROVE  /\ p \o q \in Seq(S)
         /\ \A x : In(p \o q, x) <=> In(p, x) \/ In(q, x)
         /\ NoDup(p) /\ NoDup(q) /\ (\A x : ~(In(p, x) /\ In(q, x))) => NoDup(p \o q)
<1>1. PICK a, m, n : a = p \o q /\ m = Len(p) /\ n = Len(q)
  OBVIOUS
<1>2. /\ m \in Nat /\ n \in Nat /\ Len(a) = m + n /\ a \in Seq(S)
      /\ \A k \in 1 .. m + n : a[k] = IF k <= m THEN p[k] ELSE q[k - m]
  BY <1>1, ConcatProperties
<1>3. \A k \in 1 .. m : k \in 1 .. Len(a) /\ a[k] = p[k]
  BY <1>2
<1>4. \A k \in 1 .. n : k + m \in 1 .. Len(a) /\ a[k + m] = q[k]
  <2> SUFFICES ASSUME NEW k \in 1 .. n PROVE k + m \in 1 .. Len(a) /\ a[k + m] = q[k]
    OBVIOUS
  <2>1. k + m \in 1 .. m + n /\ ~(k + m <= m) /\ (k + m) - m = k
    BY <1>2
  <2> QED
    BY <1>2, <2>1
<1>5. \A k \in 1 .. Len(a) : k \in 1 .. m \/ k - m \in 1 .. n
  BY <1>2
<1>6. \A k \in 1 .. Len(a) : k \in 1 .. m => a[k] = p[k]
  BY <1>3
<1>7. \A k \in 1 .. Len(a) : k - m \in 1 .. n => a[k] = q[k - m]
  <2> SUFFICES ASSUME NEW k \in 1 .. Len(a), k - m \in 1 .. n PROVE a[k] = q[k - m]
    OBVIOUS
  <2>1. (k - m) + m = k
    BY <1>2
  <2> QED
    BY <1>4, <2>1
<1>8. \A x : In(a, x) <=> In(p, x) \/ In(q, x)
  <2>1. ASSUME NEW x, In(a, x) PROVE In(p, x) \/ In(q, x)
    <3>1. PICK k \in 1 .. Len(a) : a[k] = x
      BY <2>1 DEF In
    <3>2. CASE k \in 1 .. m
      BY <1>1, <1>6, <3>1, <3>2 DEF In
    <3>3. CASE k - m \in 1 .. n
      BY <1>1, <1>7, <3>1, <3>3 DEF In
    <3> QED
      BY <1>5, <3>2, <3>3
  <2>2. ASSUME NEW x, In(p, x) PROVE In(a, x)
    BY <1>1, <1>3, <2>2 DEF In
  <2>3. ASSUME NEW x, In(q, x) PROVE In(a, x)
    BY <1>1, <1>4, <2>3 DEF In
  <2> QED
    BY <2>1, <2>2, <2>3
<1>9. ASSUME NoDup(p), NoDup(q), \A x : ~(In(p, x) /\ In(q, x)) PROVE NoDup(a)
  <2> SUFFICES ASSUME NEW k \in 1 .. Len(a), NEW l \in 1 .. Len(a), a[k] = a[l] PROVE k = l
    BY DEF NoDup
  <2>1. CASE k \in 1 .. m /\ l \in 1 .. m
    BY <1>1, <1>6, <1>9, <2>1 DEF NoDup
  <2>2. CASE k - m \in 1 .. n /\ l - m \in 1 .. n
    <3>1. q[k - m] = q[l - m]
      BY <1>7, <2>2
    <3>2. k - m = l - m
      BY <1>1, <1>9, <2>2, <3>1 DEF NoDup
    <3> QED
      BY <1>2, <3>2
  <2>3. CASE k \in 1 .. m /\ l - m \in 1 .. n
    <3>1. In(p, a[k]) /\ In(q, a[k])
      BY <1>1, <1>6, <1>7, <2>3 DEF In
    <3> QED
      BY <1>9, <3>1
  <2>4. CASE k - m \in 1 .. n /\ l \in 1 .. m
    <3>1. In(p, a[k]) /\ In(q, a[k])
      BY <1>1, <1>6, <1>7, <2>4 DEF In
    <3> QED
      BY <1>9, <3>1
  <2> QED
    BY <1>5, <2>1, <2>2, <2>3, <2>4
<1> QED
  BY <1>1, <1>2, <1>8, <1>9

\* An element put in front.
LEMMA InCons ==
  ASSUME NEW S, NEW s \in Seq(S), NEW x \in S
  PROVE  /\ <<x>> \o s \in Seq(S)
         /\ \A y : In(<<x>> \o s, y) <=> y = x \/ In(s, y)
         /\ NoDup(s) /\ ~In(s, x) => NoDup(<<x>> \o s)
<1>1. PICK h : h = <<x>>
  OBVIOUS
<1>2. h \in Seq(S) /\ Len(h) = 1 /\ h[1] = x
  BY <1>1
<1>3. \A k \in 1 .. 1 : k = 1
  OBVIOUS
<1>4. NoDup(h) /\ \A y : In(h, y) <=> y = x
  BY <1>2, <1>3 DEF NoDup, In
<1>5. /\ h \o s \in Seq(S)
      /\ \A y : In(h \o s, y) <=> In(h, y) \/ In(s, y)
      /\ NoDup(h) /\ NoDup(s) /\ (\A y : ~(In(h, y) /\ In(s, y))) => NoDup(h \o s)
  BY <1>2, InConcat
<1> QED
  BY <1>1, <1>4, <1>5

\* The first element taken off.
LEMMA InTail ==
  ASSUME NEW S, NEW s \in Seq(S), s # <<>>
  PROVE  /\ Tail(s) \in Seq(S) /\ Head(s) \in S /\ In(s, Head(s))
         /\ NoDup(s) => NoDup(Tail(s))
         /\ NoDup(s) => \A x : In(Tail(s), x) <=> In(s, x) /\ x # Head(s)
<1>1. PICK a, n : a = Tail(s) /\ n = Len(s)
  OBVIOUS
<1>2. /\ n \in Nat \ {0} /\ a \in Seq(S) /\ Len(a) = n - 1 /\ Head(s) = s[1] /\ Head(s) \in S
      /\ \A k \in 1 .. n - 1 : a[k] = s[k + 1]
  BY <1>1
<1>3. \A k \in 1 .. Len(a) : k + 1 \in 1 .. n /\ k + 1 # 1 /\ a[k] = s[k + 1]
  BY <1>2
<1>4. \A k \in 1 .. n : k = 1 \/ (k - 1 \in 1 .. Len(a) /\ a[k - 1] = s[k])
  <2> SUFFICES ASSUME NEW k \in 1 .. n, k # 1 PROVE k - 1 \in 1 .. Len(a) /\ a[k - 1] = s[k]
    OBVIOUS
  <2>1. k - 1 \in 1 .. n - 1 /\ (k - 1) + 1 = k
    BY <1>2
  <2> QED
    BY <1>2, <2>1
<1>5. 1 \in 1 .. n
  BY <1>2
<1>6. ASSUME NoDup(s) PROVE NoDup(a)
  <2> SUFFICES ASSUME NEW k \in 1 .. Len(a), NEW l \in 1 .. Len(a), a[k] = a[l] PROVE k = l
    BY DEF NoDup
  <2>1. k + 1 = l + 1
    BY <1>1, <1>3, <1>6 DEF NoDup
  <2> QED
    BY <1>2, <2>1
<1>7. ASSUME NoDup(s), NEW x PROVE In(a, x) <=> In(s, x) /\ x # Head(s)
  <2>1. ASSUME In(a, x) PROVE In(s, x) /\ x # Head(s)
    BY <1>1, <1>2, <1>3, <1>5, <1>7, <2>1 DEF In, NoDup
  <2>2. ASSUME In(s, x), x # Head(s) PROVE In(a, x)
    BY <1>1, <1>2, <1>4, <2>2 DEF In
  <2> QED
    BY <2>1, <2>2
<1>8. In(s, Head(s))
  BY <1>1, <1>2, <1>5 DEF In
<1> QED
  BY <1>1, <1>2, <1>6, <1>7, <1>8

\* The community module's reversal.
LEMMA InReverse ==
  ASSUME NEW S, NEW s \in Seq(S)
  PROVE  /\ Reverse(s) \in Seq(S)
         /\ \A x : In(Reverse(s), x) <=> In(s, x)
         /\ NoDup(s) => NoDup(Reverse(s))
<1>1. PICK r, n : r = Reverse(s) /\ n = Len(s)
  OBVIOUS
<1>2. n \in Nat /\ r = [k \in 1 .. n |-> s[(n - k) + 1]]
  BY <1>1 DEF Reverse
<1>3. \A k \in 1 .. n : (n - k) + 1 \in 1 .. n /\ (n - ((n - k) + 1)) + 1 = k
  BY <1>2
<1>4. \A k \in 1 .. n : s[k] \in S
  BY <1>1
<1>5. r \in Seq(S) /\ Len(r) = n
  BY <1>2, <1>3, <1>4
<1>6. \A k \in 1 .. n : r[k] = s[(n - k) + 1]
  BY <1>2
<1>7. \A k \in 1 .. n : s[k] = r[(n - k) + 1]
  BY <1>3, <1>6
<1>8. \A x : In(r, x) <=> In(s, x)
  <2>1. ASSUME NEW x, In(r, x) PROVE In(s, x)
    BY <1>1, <1>3, <1>5, <1>6, <2>1 DEF In
  <2>2. ASSUME NEW x, In(s, x) PROVE In(r, x)
    BY <1>1, <1>3, <1>5, <1>7, <2>2 DEF In
  <2> QED
    BY <2>1, <2>2
<1>9. ASSUME NoDup(s) PROVE NoDup(r)
  <2> SUFFICES ASSUME NEW k \in 1 .. n, NEW l \in 1 .. n, r[k] = r[l] PROVE k = l
    BY <1>5 DEF NoDup
  <2>1. (n - k) + 1 = (n - l) + 1
    <3>1. s[(n - k) + 1] = s[(n - l) + 1]
      BY <1>6
    <3> QED
      BY <1>1, <1>3, <1>9, <3>1 DEF NoDup
  <2> QED
    BY <1>2, <2>1
<1> QED
  BY <1>1, <1>5, <1>8, <1>9

\* Identities: one more message at the end, the first one taken off.
LEMMA IdsAppend ==
  ASSUME NEW S, NEW s \in Seq(S), NEW x \in S
  PROVE  /\ \A m : HasId(Append(s, x), m) <=> HasId(s, m) \/ x.id = m
         /\ DistinctIds(s) /\ ~HasId(s, x.id) => DistinctIds(Append(s, x))
<1>1. PICK a : a = Append(s, x)
  OBVIOUS
<1>2. /\ Len(a) = Len(s) + 1 /\ Len(s) \in Nat /\ a[Len(s) + 1] = x
      /\ \A k \in 1 .. Len(s) : a[k] = s[k]
  BY <1>1
<1>3. \A k \in 1 .. Len(a) : k \in 1 .. Len(s) \/ k = Len(s) + 1
  BY <1>2
<1>4. (\A k \in 1 .. Len(s) : k \in 1 .. Len(a)) /\ Len(s) + 1 \in 1 .. Len(a)
  BY <1>2
<1>6. \A m : HasId(a, m) <=> HasId(s, m) \/ x.id = m
  BY <1>2, <1>3, <1>4 DEF HasId
<1>7. DistinctIds(s) /\ ~HasId(s, x.id) => DistinctIds(a)
  BY <1>2, <1>3 DEF HasId, DistinctIds
<1> QED
  BY <1>1, <1>6, <1>7

\* Identities: the first message taken off.
LEMMA IdsTail ==
  ASSUME NEW S, NEW s \in Seq(S), s # <<>>, DistinctIds(s)
  PROVE  /\ HasId(s, Head(s).id) /\ DistinctIds(Tail(s))
         /\ \A m : HasId(Tail(s), m) <=> HasId(s, m) /\ m # Head(s).id
<1>1. PICK a, n : a = Tail(s) /\ n = Len(s)
  OBVIOUS
<1>2. /\ n \in Nat \ {0} /\ Len(a) = n - 1 /\ Head(s) = s[1]
      /\ \A k \in 1 .. n - 1 : a[k] = s[k + 1]
  BY <1>1
<1>3. \A k \in 1 .. Len(a) : k + 1 \in 1 .. n /\ k + 1 # 1 /\ a[k] = s[k + 1]
  BY <1>2
<1>4. \A k \in 1 .. n : k = 1 \/ (k - 1 \in 1 .. Len(a) /\ a[k - 1] = s[k])
  <2> SUFFICES ASSUME NEW k \in 1 .. n, k # 1 PROVE k - 1 \in 1 .. Len(a) /\ a[k - 1] = s[k]
    OBVIOUS
  <2>1. k - 1 \in 1 .. n - 1 /\ (k - 1) + 1 = k
    BY <1>2
  <2> QED
    BY <1>2, <2>1
<1>5. 1 \in 1 .. n
  BY <1>2
<1>6. DistinctIds(a)
  <2> SUFFICES ASSUME NEW k \in 1 .. Len(a), NEW l \in 1 .. Len(a), a[k].id = a[l].id PROVE k = l
    BY DEF DistinctIds
  <2>1. k + 1 = l + 1
    BY <1>1, <1>3 DEF DistinctIds
  <2> QED
    BY <1>2, <2>1
<1>7. ASSUME NEW m PROVE HasId(a, m) <=> HasId(s, m) /\ m # Head(s).id
  <2>1. ASSUME HasId(a, m) PROVE HasId(s, m) /\ m # Head(s).id
    BY <1>1, <1>2, <1>3, <1>5, <2>1 DEF HasId, DistinctIds
  <2>2. ASSUME HasId(s, m), m # Head(s).id PROVE HasId(a, m)
    BY <1>1, <1>2, <1>4, <2>2 DEF HasId
  <2> QED
    BY <2>1, <2>2
<1>8. HasId(s, Head(s).id)
  BY <1>1, <1>2, <1>5 DEF HasId
<1> QED
  BY <1>1, <1>6, <1>7, <1>8

-----------------------------------------------------------------------------
(* What the actions do, field by field. *)

\* The fields of a typed state.
LEMMA TypedFields ==
  ASSUME Typed
  PROVE  /\ \A e \in Entries : /\ sock[e] \in SocketRecord /\ sock[e].refs \in Nat
                               /\ sock[e].queue \in Seq(Places) /\ sock[e].live \in BOOLEAN
                               /\ sock[e].current \in Pages \cup {None}
                               /\ sock[e].used \in 0 .. PageMessages /\ sock[e].used \in Nat
                               /\ sock[e].full \in Seq(Pages) /\ sock[e].free \in Seq(Pages)
         /\ \A t \in Threads : /\ pc[t] \in Labels /\ ptr[t] \in Entries \cup {None}
                               /\ batch[t] \in Seq(Places) /\ unlinked[t] \in Seq(Pages)
         /\ \A n \in Names : table[n] \in Entries \cup {None}
         /\ created \in Nat /\ posted \in Nat /\ None \notin Entries /\ None \notin Pages
         /\ \A e \in Entries : e \in Nat
         /\ sock \in [Entries -> SocketRecord]
<1>1. sock \in [Entries -> SocketRecord]
  BY DEF Typed, TypeOK, SocketRecord
<1>2. \A e \in Entries : /\ sock[e] \in SocketRecord /\ sock[e].refs \in Nat
                         /\ sock[e].queue \in Seq(Places) /\ sock[e].live \in BOOLEAN
                         /\ sock[e].current \in Pages \cup {None}
                         /\ sock[e].used \in 0 .. PageMessages
                         /\ sock[e].full \in Seq(Pages) /\ sock[e].free \in Seq(Pages)
  BY <1>1 DEF SocketRecord
<1>3. \A n \in 0 .. PageMessages : n \in Nat
  BY MessageAssumption
<1>4. created \in Nat /\ posted \in Nat
  BY MessageAssumption DEF Typed, TypeOK
<1>5. None \notin Entries /\ None \notin Pages /\ \A e \in Entries : e \in Nat
  BY MessageAssumption DEF None, Entries
<1> QED
  BY <1>1, <1>2, <1>3, <1>4, <1>5 DEF Typed, TypeOK

\* The other sockets stay as they are.
OthersKept(e) == \A f \in Entries : f # e => sock'[f] = sock[f]
\* A step that changes no more of socket e than its count.
CountOnly(e) ==
  /\ sock' \in [Entries -> SocketRecord] /\ OthersKept(e)
  /\ sock'[e].queue = sock[e].queue /\ sock'[e].current = sock[e].current
  /\ sock'[e].used = sock[e].used /\ sock'[e].full = sock[e].full
  /\ sock'[e].free = sock[e].free /\ sock'[e].live = sock[e].live

\* Thread t goes to a label with a socket; nothing happens to the others.
ThreadGoes(t, label, e) ==
  /\ pc' = [pc EXCEPT ![t] = label] /\ ptr' = [ptr EXCEPT ![t] = e]
  /\ pc'[t] = label /\ ptr'[t] = e
  /\ \A u \in Threads : u # t => pc'[u] = pc[u] /\ ptr'[u] = ptr[u]

\* A step that sets the count of socket e.
LEMMA CountChange ==
  ASSUME Typed, NEW e \in Entries, NEW n \in Nat,
         sock' = [sock EXCEPT ![e] = [sock[e] EXCEPT !.refs = n]]
  PROVE  CountOnly(e) /\ sock'[e].refs = n
<1>1. sock \in [Entries -> SocketRecord] /\ sock[e] \in SocketRecord
  BY TypedFields
<1>2. PICK r : r = [sock[e] EXCEPT !.refs = n]
  OBVIOUS
<1>3. /\ r \in SocketRecord /\ r.refs = n /\ r.queue = sock[e].queue /\ r.current = sock[e].current
      /\ r.used = sock[e].used /\ r.full = sock[e].full /\ r.free = sock[e].free
      /\ r.live = sock[e].live
  BY <1>1, <1>2 DEF SocketRecord
<1>4. sock' = [sock EXCEPT ![e] = r]
  BY <1>2
<1>5. sock' \in [Entries -> SocketRecord] /\ sock'[e] = r /\ OthersKept(e)
  BY <1>1, <1>3, <1>4 DEF OthersKept
<1> QED
  BY <1>3, <1>5 DEF CountOnly

\* NewSocket.
Creates(n, e) ==
  /\ table[n] = None /\ e \in Entries /\ ~InTable(e)
  /\ table' = [table EXCEPT ![n] = e]
  /\ created' = created + 1 /\ created < MaxCreations
  /\ \/ created < MAX_SOCKETS /\ e = created + 1 /\ freeEntries' = freeEntries
     \/ /\ created >= MAX_SOCKETS /\ freeEntries # <<>> /\ e = Head(freeEntries)
        /\ freeEntries' = Tail(freeEntries)
  /\ sock' = [sock EXCEPT ![e] = NewMessageSocket] /\ ~sock[e].live
  /\ UNCHANGED <<pageVars, threadVars, dispatchVars, posted, gone>>

\* When every entry has been used and not all are in the table, one is free.
LEMMA FreeEntryLeft ==
  ASSUME Typed, TableInv, ~SocketsFull, created >= MAX_SOCKETS
  PROVE  freeEntries # <<>>
<1> SUFFICES ASSUME freeEntries = <<>> PROVE FALSE
  OBVIOUS
<1>0. /\ created \in Nat /\ MAX_SOCKETS \in Nat /\ \A n \in Names : table[n] \in Entries \cup {None}
      /\ None \notin Entries
  BY TypedFields, MessageAssumption
<1>1. \A e \in Entries : InTable(e)
  BY <1>0, InEmpty DEF TableInv, Entries
<1> DEFINE S == {n \in Names : table[n] # None}
           g == [n \in S |-> table[n]]
<1>2. g \in Bijection(S, Entries)
  <2>1. g \in [S -> Entries]
    BY <1>0
  <2>2. \A a, b \in S : g[a] = g[b] => a = b
    BY DEF TableInv
  <2>3. \A e \in Entries : \E n \in S : g[n] = e
    BY <1>0, <1>1 DEF InTable
  <2> HIDE DEF g, S
  <2> QED
    BY <2>1, <2>2, <2>3, Fun_IsBij
<1>3. IsFiniteSet(Entries) /\ Cardinality(Entries) = MAX_SOCKETS
  <2>1. 1 \in Int /\ MAX_SOCKETS \in Int
    BY <1>0
  <2>2. IsFiniteSet(1 .. MAX_SOCKETS) /\ Cardinality(1 .. MAX_SOCKETS) = IF 1 > MAX_SOCKETS THEN 0 ELSE MAX_SOCKETS - 1 + 1
    BY <2>1, FS_Interval
  <2> QED
    BY <2>2, MessageAssumption DEF Entries
<1>4. Cardinality(S) = MAX_SOCKETS
  <2>1. ExistsBijection(S, Entries)
    BY <1>2 DEF ExistsBijection
  <2>2. ExistsBijection(Entries, S)
    BY <2>1, Fun_ExistsBijSymmetric
  <2> HIDE DEF S
  <2> QED
    BY <1>3, <2>2, FS_Bijection
<1> QED
  BY <1>4 DEF SocketsFull

\* What NewSocket does.
LEMMA CreatesShape ==
  ASSUME Typed, TableInv, EntryIsFree, NEW t \in Threads, NEW n \in Names, NewSocket(t, n)
  PROVE  \E e \in Entries : Creates(n, e)
<1>0. /\ created \in Nat /\ MAX_SOCKETS \in Nat \ {0} /\ freeEntries \in Seq(Entries)
      /\ \A m \in Names : table[m] \in Nat
  <2>1. \A m \in Names : table[m] \in Nat
    BY TypedFields DEF None
  <2> QED
    BY <2>1, TypedFields, MessageAssumption DEF Typed, TypeOK
<1>1. PICK e : e = AllocateEntry
  OBVIOUS
<1>2. ~sock[e].live
  BY <1>1 DEF EntryIsFree
<1>3. CASE created < MAX_SOCKETS
  <2>1. e = created + 1
    BY <1>1, <1>3 DEF AllocateEntry
  <2>2. e \in Entries
    BY <1>0, <1>3, <2>1 DEF Entries
  <2>3. ~InTable(e)
    <3>1. \A m \in Names : table[m] <= created
      BY DEF TableInv
    <3> QED
      BY <1>0, <2>1, <3>1 DEF InTable
  <2> QED
    BY <1>1, <1>2, <1>3, <2>1, <2>2, <2>3 DEF NewSocket, Creates
<1>4. CASE created >= MAX_SOCKETS
  <2>1. freeEntries # <<>>
    BY <1>4, FreeEntryLeft DEF NewSocket
  <2>2. e = Head(freeEntries) /\ ~(created < MAX_SOCKETS)
    BY <1>0, <1>1, <1>4 DEF AllocateEntry
  <2>3. e \in Entries /\ \E k \in 1 .. Len(freeEntries) : freeEntries[k] = e
    <3>1. Head(freeEntries) \in Entries /\ In(freeEntries, Head(freeEntries))
      BY <1>0, <2>1, InTail
    <3> QED
      BY <2>2, <3>1 DEF In
  <2>4. ~InTable(e)
    BY <2>3 DEF TableInv
  <2> QED
    BY <1>1, <1>2, <1>4, <2>1, <2>2, <2>3, <2>4 DEF NewSocket, Creates
<1> QED
  BY <1>0, <1>3, <1>4

\* AcquireSocket.
Acquires(t, e) ==
  /\ pc[t] = "idle" /\ e \in Entries /\ InTable(e)
  /\ \E label \in {"enqueue", "peek", "take"} :
       /\ ThreadGoes(t, label, e)
       /\ label = "enqueue" => posted + Cardinality(Posting) < MaxPosts
  /\ CountOnly(e) /\ sock'[e].refs = sock[e].refs + 1
  /\ UNCHANGED <<tableVars, pageVars, dispatchVars, posted, gone>>

\* What AcquireSocket does, for each of its callers.
LEMMA AcquiresShape ==
  ASSUME Typed, NEW t \in Threads, NEW n \in Names,
         \/ BeginPost(t, n) \/ BeginHasMessages(t, n)
         \/ BeginDispatch(t, n) \/ BeginDispatchBlocking(t, n)
  PROVE  \E e \in Entries : Acquires(t, e)
<1>1. ASSUME NEW label \in {"enqueue", "peek", "take"}, NEW o, AcquireSocket(t, n, o, label),
             label = "enqueue" => MayPost
      PROVE  \E e \in Entries : Acquires(t, e)
  <2>1. PICK e \in Entries : e = table[n]
    BY <1>1, TypedFields DEF AcquireSocket
  <2>2. InTable(e) /\ pc[t] = "idle"
    BY <1>1, <2>1 DEF InTable, AcquireSocket, Here
  <2>3. sock[e].refs \in Nat /\ sock[e].refs + 1 \in Nat
    BY TypedFields
  <2>4. sock' = [sock EXCEPT ![e] = [sock[e] EXCEPT !.refs = sock[e].refs + 1]]
    BY <1>1, <2>1 DEF AcquireSocket
  <2>5. CountOnly(e) /\ sock'[e].refs = sock[e].refs + 1
    BY <2>3, <2>4, CountChange
  <2>6. pc \in [Threads -> Labels] /\ ptr \in [Threads -> Entries \cup {None}]
    BY DEF Typed, TypeOK
  <2>7. ThreadGoes(t, label, e)
    BY <1>1, <2>1, <2>6 DEF AcquireSocket, Goto, ThreadGoes
  <2>8. label = "enqueue" => posted + Cardinality(Posting) < MaxPosts
    BY <1>1 DEF MayPost, Posting
  <2> QED
    BY <1>1, <2>2, <2>5, <2>7, <2>8 DEF Acquires, AcquireSocket
<1> QED
  BY <1>1 DEF BeginPost, BeginHasMessages, BeginDispatch, BeginDispatchBlocking

\* DeleteSocket and ReleaseSocket: a reference is dropped, and with the last one
\* the thread goes on to dispose of the socket.
Drops(t, e) ==
  /\ e \in Entries /\ CountOnly(e) /\ sock[e].refs >= 1 /\ sock'[e].refs = sock[e].refs - 1
  /\ \/ sock[e].refs > 1 /\ ThreadGoes(t, "idle", None)
     \/ sock[e].refs = 1 /\ ThreadGoes(t, "dispose", e)
  /\ UNCHANGED <<pageVars, dispatchVars, created, posted, gone>>

\* What dropping a reference does.
LEMMA DropsShape ==
  ASSUME Typed, NEW t \in Threads, NEW e \in Entries, sock[e].refs >= 1,
         sock' = [sock EXCEPT ![e] = DecRef(@)],
         GotoOrReturn(t, AfterDecRef(sock[e]), e),
         UNCHANGED <<pageVars, dispatchVars, created, posted, gone>>
  PROVE  Drops(t, e)
<1>1. sock[e].refs \in Nat /\ sock[e].refs - 1 \in Nat
  BY TypedFields
<1>2. sock' = [sock EXCEPT ![e] = [sock[e] EXCEPT !.refs = sock[e].refs - 1]]
  BY DEF DecRef
<1>3. CountOnly(e) /\ sock'[e].refs = sock[e].refs - 1
  BY <1>1, <1>2, CountChange
<1>4. pc \in [Threads -> Labels] /\ ptr \in [Threads -> Entries \cup {None}]
  BY DEF Typed, TypeOK
<1>5. CASE sock[e].refs > 1
  BY <1>3, <1>4, <1>5 DEF AfterDecRef, GotoOrReturn, Goto, ThreadGoes, Drops
<1>6. CASE sock[e].refs = 1
  <2>1. ~(sock[e].refs > 1)
    BY <1>6
  <2> QED
    BY <1>3, <1>4, <1>6, <2>1 DEF AfterDecRef, GotoOrReturn, Goto, ThreadGoes, Drops
<1> QED
  BY <1>1, <1>5, <1>6

\* DisposeSocket.
Disposes(t, e) ==
  /\ pc[t] = "dispose" /\ e \in Entries /\ ptr[t] = e
  /\ ThreadGoes(t, "idle", None)
  /\ sock' = [sock EXCEPT ![e] = Disposed]
  /\ heap' = heap \cup PagesOf(sock[e])
  /\ gone' = [m \in Messages |-> gone[m] + Cardinality({k \in DOMAIN sock[e].queue : sock[e].queue[k].id = m})]
  /\ UNCHANGED <<tableVars, mem, batch, unlinked, posted>>

\* What DisposeSocket does.
LEMMA DisposesShape ==
  ASSUME Typed, PtrInv, NEW t \in Threads, DisposeSocket(t)
  PROVE  \E e \in Entries : Disposes(t, e)
<1>1. PICK e \in Entries : e = ptr[t]
  BY TypedFields DEF PtrInv, DisposeSocket, Here
<1>2. pc \in [Threads -> Labels] /\ ptr \in [Threads -> Entries \cup {None}]
  BY DEF Typed, TypeOK
<1>3. ThreadGoes(t, "idle", None)
  BY <1>2 DEF DisposeSocket, GotoOrReturn, Goto, ThreadGoes
<1> QED
  BY <1>1, <1>3 DEF DisposeSocket, Disposes, Here

\* A step within a call that only moves the thread.
MovesOn(t) ==
  /\ pc[t] \in {"peek", "take", "wait"}
  /\ \E label \in {"release", "wait", "woken"} : pc' = [pc EXCEPT ![t] = label] /\ pc'[t] = label
  /\ \A u \in Threads : u # t => pc'[u] = pc[u]
  /\ UNCHANGED <<tableVars, sock, pageVars, ptr, dispatchVars, posted, gone>>

\* HasMessages, an empty dispatch and a wake-up only move the thread.
LEMMA MovesOnShape ==
  ASSUME Typed, NEW t \in Threads, HasMessages(t) \/ DispatchEmpty(t) \/ SpuriousWake(t)
  PROVE  MovesOn(t)
<1>1. pc \in [Threads -> Labels]
  BY DEF Typed, TypeOK
<1>2. CASE HasMessages(t)
  BY <1>1, <1>2 DEF HasMessages, Here, Goto, MovesOn
<1>3. CASE DispatchEmpty(t)
  <2>1. PICK label \in {"release", "wait"} : pc' = [pc EXCEPT ![t] = label]
    BY <1>3 DEF DispatchEmpty, Goto
  <2> QED
    BY <1>1, <1>3, <2>1 DEF DispatchEmpty, Here, MovesOn
<1>4. CASE SpuriousWake(t)
  BY <1>1, <1>4 DEF SpuriousWake, Here, Goto, MovesOn
<1> QED
  BY <1>2, <1>3, <1>4

\* PostMessage: a message is placed on page g.
Posts(t, e, g, off) ==
  /\ pc[t] = "enqueue" /\ ptr[t] = e /\ posted + 1 \in Messages
  /\ sock' \in [Entries -> SocketRecord] /\ OthersKept(e)
  /\ sock'[e].refs = sock[e].refs /\ sock'[e].live = sock[e].live
  /\ sock'[e].current = g /\ sock'[e].used = off
  /\ sock'[e].queue = Append(sock[e].queue, At(g, off, posted + 1))
  /\ \/ /\ g = sock[e].current /\ off = sock[e].used + 1
        /\ sock'[e].full = sock[e].full /\ sock'[e].free = sock[e].free
     \/ /\ off = 1
        /\ \/ sock[e].current = None /\ sock'[e].full = sock[e].full
           \/ /\ sock[e].current # None
              /\ sock'[e].full = <<sock[e].current>> \o sock[e].full
        /\ \/ /\ sock[e].free # <<>> /\ g = Head(sock[e].free)
              /\ sock'[e].free = Tail(sock[e].free)
           \/ sock[e].free = <<>> /\ g \in heap /\ sock'[e].free = <<>>
  /\ mem' = [mem EXCEPT ![g] = [mem[g] EXCEPT ![off] = posted + 1]]
  /\ heap' = heap \ {g} /\ posted' = posted + 1
  /\ pc' \in [Threads -> Labels] /\ pc'[t] = "release"
  /\ \A u \in Threads : u # t => pc'[u] = pc[u] \/ (pc[u] = "wait" /\ pc'[u] = "woken")
  /\ UNCHANGED <<tableVars, ptr, dispatchVars, gone>>

\* What PostMessage does: the message goes to the current page, or to a new one.
LEMMA PostsShape ==
  ASSUME Typed, BudgetInv, PtrInv, NEW t \in Threads, PostMessage(t)
  PROVE  \E e \in Entries, g \in Pages, off \in 1 .. PageMessages : Posts(t, e, g, off)
<1>0. /\ pc \in [Threads -> Labels] /\ pc[t] = "enqueue" /\ posted \in Nat
      /\ sock \in [Entries -> SocketRecord] /\ heap \subseteq Pages
  BY TypedFields DEF Typed, TypeOK, PostMessage, Here
<1>1. PICK e \in Entries : e = ptr[t]
  BY <1>0, TypedFields DEF PtrInv
<1>2. posted + 1 \in Messages
  <2>1. IsFiniteSet(Posting) /\ Cardinality(Posting) \in Nat
    <3>1. Posting \in SUBSET Threads
      BY DEF Posting
    <3> QED
      BY <3>1, MessageAssumption, FS_Subset, FS_CardinalityType
  <2>2. t \in Posting
    BY <1>0 DEF Posting
  <2>3. Cardinality(Posting) # 0
    BY <2>1, <2>2, FS_EmptySet
  <2> QED
    BY <1>0, <2>1, <2>3, MessageAssumption DEF BudgetInv, Messages
<1>3. PICK o : o = sock[e]
  OBVIOUS
<1>4. /\ o \in SocketRecord /\ o.free \in Seq(Pages) /\ o.full \in Seq(Pages) /\ o.used \in 0 .. PageMessages
      /\ o.used \in Nat /\ o.current \in Pages \cup {None} /\ o.queue \in Seq(Places) /\ None \notin Pages
  BY <1>3, TypedFields
<1>5. PICK s : s = Allocated(o)
  OBVIOUS
<1>6. /\ s \in SocketRecord /\ s.refs = o.refs /\ s.live = o.live /\ s.queue = o.queue
      /\ s.current \in Pages /\ s.used < PageMessages /\ s.used \in Nat
      /\ \/ /\ s.current = o.current /\ s.used = o.used
            /\ s.full = o.full /\ s.free = o.free
         \/ /\ s.used = 0
            /\ \/ o.current = None /\ s.full = o.full
               \/ o.current # None /\ s.full = <<o.current>> \o o.full
            /\ \/ o.free # <<>> /\ s.current = Head(o.free) /\ s.free = Tail(o.free)
               \/ o.free = <<>> /\ s.current \in heap /\ s.free = <<>>
  <2>1. CASE ~NeedsPage(o)
    BY <1>4, <1>5, <2>1, MessageAssumption DEF Allocated, NeedsPage
  <2>2. CASE NeedsPage(o)
    <3>1. o.free # <<>> \/ heap # {}
      BY <1>1, <1>3, <2>2 DEF PostMessage, PageAvailable
    <3>2. PICK g : g = NewPage(o)
      OBVIOUS
    <3>3. \/ o.free # <<>> /\ g = Head(o.free) /\ g \in Pages /\ Tail(o.free) \in Seq(Pages)
          \/ o.free = <<>> /\ g \in heap /\ g \in Pages
      BY <1>0, <1>4, <3>1, <3>2, InTail DEF NewPage
    <3>4. PICK fl, fr : /\ fl = IF o.current = None THEN o.full ELSE <<o.current>> \o o.full
                        /\ fr = IF o.free = <<>> THEN o.free ELSE Tail(o.free)
      OBVIOUS
    <3>5. fl \in Seq(Pages) /\ fr \in Seq(Pages)
      BY <1>4, <3>3, <3>4, InCons
    <3>6. s = [o EXCEPT !.full = fl, !.free = fr, !.current = g, !.used = 0]
      BY <1>5, <2>2, <3>2, <3>4 DEF Allocated, WithNewPage
    <3>7. /\ s.refs = o.refs /\ s.live = o.live /\ s.queue = o.queue
          /\ s.current = g /\ s.used = 0 /\ s.full = fl /\ s.free = fr
      BY <1>4, <3>6 DEF SocketRecord
    <3>8. s \in SocketRecord
      <4>1. 0 \in 0 .. PageMessages /\ g \in Pages \cup {None}
        BY <3>3, MessageAssumption
      <4>2. PICK a, b : a = [o EXCEPT !.full = fl, !.free = fr] /\ b = [a EXCEPT !.current = g]
        OBVIOUS
      <4>3. a \in SocketRecord
        BY <1>4, <3>5, <4>2 DEF SocketRecord
      <4>4. b \in SocketRecord
        BY <4>1, <4>2, <4>3 DEF SocketRecord
      <4>5. s = [b EXCEPT !.used = 0]
        BY <3>6, <4>2
      <4> QED
        BY <4>1, <4>4, <4>5 DEF SocketRecord
    <3> QED
      BY <3>3, <3>4, <3>7, <3>8, MessageAssumption
  <2> QED
    BY <2>1, <2>2
<1>7. PICK g \in Pages, off \in 1 .. PageMessages : g = s.current /\ off = s.used + 1
  BY <1>6, MessageAssumption
<1>8. PICK r : r = Appended(s, posted + 1)
  OBVIOUS
<1>9. /\ r \in SocketRecord /\ r.refs = s.refs /\ r.live = s.live /\ r.current = g /\ r.used = off
      /\ r.full = s.full /\ r.free = s.free
      /\ r.queue = Append(s.queue, At(g, off, posted + 1))
  <2>1. At(g, off, posted + 1) \in Places
    BY <1>2 DEF At, Places
  <2>2. Append(s.queue, At(g, off, posted + 1)) \in Seq(Places)
    BY <1>6, <2>1 DEF SocketRecord
  <2>3. off \in 0 .. PageMessages
    BY MessageAssumption
  <2>4. PICK q : q = Append(s.queue, At(g, off, posted + 1))
    OBVIOUS
  <2>5. r = [s EXCEPT !.used = off, !.queue = q]
    BY <1>7, <1>8, <2>4 DEF Appended
  <2> QED
    BY <1>6, <1>7, <2>2, <2>3, <2>4, <2>5 DEF SocketRecord
<1>10. sock' = [sock EXCEPT ![e] = r] /\ heap' = heap \ {g} /\ posted' = posted + 1
  BY <1>1, <1>3, <1>5, <1>7, <1>8 DEF PostMessage
<1>11. mem' = [mem EXCEPT ![g] = [mem[g] EXCEPT ![off] = posted + 1]]
  BY <1>1, <1>3, <1>5, <1>7 DEF PostMessage
<1>12. sock' \in [Entries -> SocketRecord] /\ OthersKept(e) /\ sock'[e] = r
  BY <1>0, <1>9, <1>10 DEF OthersKept
<1>13. /\ pc' \in [Threads -> Labels] /\ pc'[t] = "release"
       /\ \A u \in Threads : u # t => pc'[u] = pc[u] \/ (pc[u] = "wait" /\ pc'[u] = "woken")
  <2>1. "release" \in Labels /\ "woken" \in Labels
    BY DEF Labels
  <2>2. CASE pc' = [pc EXCEPT ![t] = "release"]
    BY <1>0, <2>1, <2>2
  <2>3. CASE \E w \in WaitingOn(ptr[t]) : pc' = [pc EXCEPT ![t] = "release", ![w] = "woken"]
    <3>1. PICK w \in WaitingOn(ptr[t]) : pc' = [pc EXCEPT ![t] = "release", ![w] = "woken"]
      BY <2>3
    <3>2. w \in Threads /\ pc[w] = "wait" /\ w # t
      BY <1>0 DEF WaitingOn
    <3> QED
      BY <1>0, <2>1, <3>1, <3>2
  <2> QED
    BY <2>2, <2>3 DEF PostMessage, Goto
<1>14. UNCHANGED <<tableVars, ptr, dispatchVars, gone>>
  BY DEF PostMessage
<1>15. Posts(t, e, g, off)
  <2>1. \/ g = o.current /\ off = o.used + 1 /\ r.full = o.full /\ r.free = o.free
        \/ /\ off = 1
           /\ \/ o.current = None /\ r.full = o.full
              \/ o.current # None /\ r.full = <<o.current>> \o o.full
           /\ \/ o.free # <<>> /\ g = Head(o.free) /\ r.free = Tail(o.free)
              \/ o.free = <<>> /\ g \in heap /\ r.free = <<>>
    BY <1>6, <1>7, <1>9
  <2> QED
    BY <1>0, <1>1, <1>2, <1>3, <1>6, <1>9, <1>10, <1>11, <1>12, <1>13, <1>14, <2>1 DEF Posts
<1> QED
  BY <1>15

\* DispatchTake and DispatchWoken.
Takes(t, e) ==
  /\ pc[t] \in {"take", "woken"} /\ ptr[t] = e
  /\ pc' = [pc EXCEPT ![t] = "callbacks"] /\ pc'[t] = "callbacks"
  /\ \A u \in Threads : u # t => pc'[u] = pc[u]
  /\ batch' = [batch EXCEPT ![t] = sock[e].queue]
  /\ unlinked' = [unlinked EXCEPT ![t] = sock[e].full]
  /\ sock' \in [Entries -> SocketRecord] /\ OthersKept(e)
  /\ sock'[e].refs = sock[e].refs /\ sock'[e].live = sock[e].live
  /\ sock'[e].queue = <<>> /\ sock'[e].full = <<>> /\ sock'[e].free = sock[e].free
  /\ sock'[e].current = sock[e].current /\ sock'[e].used = sock[e].used
  /\ UNCHANGED <<tableVars, pageVars, ptr, posted, gone>>

\* What the first half of InternalDispatch does.
LEMMA TakesShape ==
  ASSUME Typed, PtrInv, NEW t \in Threads, DispatchTake(t) \/ DispatchWoken(t)
  PROVE  \E e \in Entries : Takes(t, e)
<1>0. /\ pc \in [Threads -> Labels] /\ pc[t] \in {"take", "woken"} /\ Take(t)
      /\ sock \in [Entries -> SocketRecord]
  BY TypedFields DEF Typed, TypeOK, DispatchTake, DispatchWoken, Here
<1>1. PICK e \in Entries : e = ptr[t]
  BY <1>0, TypedFields DEF PtrInv
<1>2. <<>> \in Seq(Places) /\ <<>> \in Seq(Pages)
  OBVIOUS
<1>3. PICK r : r = [sock[e] EXCEPT !.queue = <<>>, !.full = <<>>]
  OBVIOUS
<1>4. /\ r \in SocketRecord /\ r.refs = sock[e].refs /\ r.live = sock[e].live
      /\ r.queue = <<>> /\ r.full = <<>> /\ r.free = sock[e].free
      /\ r.current = sock[e].current /\ r.used = sock[e].used
  BY <1>0, <1>2, <1>3 DEF SocketRecord
<1>5. sock' = [sock EXCEPT ![e] = r]
  BY <1>0, <1>1, <1>3 DEF Take
<1>6. sock' \in [Entries -> SocketRecord] /\ OthersKept(e) /\ sock'[e] = r
  BY <1>0, <1>4, <1>5 DEF OthersKept
<1>7. /\ pc' = [pc EXCEPT ![t] = "callbacks"] /\ pc'[t] = "callbacks"
      /\ \A u \in Threads : u # t => pc'[u] = pc[u]
  BY <1>0 DEF Take, Goto
<1>8. /\ batch' = [batch EXCEPT ![t] = sock[e].queue]
      /\ unlinked' = [unlinked EXCEPT ![t] = sock[e].full]
      /\ UNCHANGED <<tableVars, pageVars, ptr, posted, gone>>
  BY SMTT(60), <1>0, <1>1 DEF Take, UnlinkedPages
<1> QED
  BY <1>0, <1>1, <1>4, <1>6, <1>7, <1>8 DEF Takes

\* DispatchCallback.
Calls(t, m) ==
  /\ pc[t] = "callbacks" /\ batch[t] # <<>> /\ m = Head(batch[t])
  /\ gone' = [gone EXCEPT ![mem[m.page][m.offset]] = @ + 1]
  /\ batch' = [batch EXCEPT ![t] = Tail(batch[t])]
  /\ UNCHANGED <<tableVars, sock, pageVars, pc, ptr, unlinked, posted>>

\* What a callback does.
LEMMA CallsShape ==
  ASSUME Typed, NEW t \in Threads, DispatchCallback(t)
  PROVE  \E m \in Places : Calls(t, m)
<1>1. batch[t] \in Seq(Places) /\ batch[t] # <<>>
  BY TypedFields DEF DispatchCallback
<1>2. PICK m \in Places : m = Head(batch[t])
  BY <1>1
<1> QED
  BY <1>1, <1>2 DEF DispatchCallback, Calls, Here, threadVars

\* DispatchReclaim.
Reclaims(t, e) ==
  /\ pc[t] = "callbacks" /\ ptr[t] = e /\ batch[t] = <<>>
  /\ pc' = [pc EXCEPT ![t] = "release"] /\ pc'[t] = "release"
  /\ \A u \in Threads : u # t => pc'[u] = pc[u]
  /\ unlinked' = [unlinked EXCEPT ![t] = <<>>]
  /\ sock' \in [Entries -> SocketRecord] /\ OthersKept(e)
  /\ sock'[e].refs = sock[e].refs /\ sock'[e].live = sock[e].live
  /\ sock'[e].queue = sock[e].queue /\ sock'[e].full = sock[e].full
  /\ sock'[e].free = Reverse(unlinked[t]) \o sock[e].free
  /\ sock'[e].current = sock[e].current /\ sock'[e].used = sock[e].used
  /\ UNCHANGED <<tableVars, pageVars, ptr, batch, posted, gone>>

\* What the second half of InternalDispatch does.
LEMMA ReclaimsShape ==
  ASSUME Typed, PtrInv, NEW t \in Threads, DispatchReclaim(t)
  PROVE  \E e \in Entries : Reclaims(t, e)
<1>0. /\ pc \in [Threads -> Labels] /\ pc[t] = "callbacks"
      /\ sock \in [Entries -> SocketRecord] /\ unlinked[t] \in Seq(Pages)
  BY TypedFields DEF Typed, TypeOK, DispatchReclaim, Here
<1>1. PICK e \in Entries : e = ptr[t]
  BY <1>0, TypedFields DEF PtrInv
<1>2. PICK fr : fr = Reverse(unlinked[t]) \o sock[e].free
  OBVIOUS
<1>3. fr \in Seq(Pages)
  <2>1. sock[e].free \in Seq(Pages) /\ Reverse(unlinked[t]) \in Seq(Pages)
    BY <1>0, TypedFields, InReverse
  <2> QED
    BY <1>2, <2>1, InConcat
<1>4. PICK r : r = [sock[e] EXCEPT !.free = fr]
  OBVIOUS
<1>5. /\ r \in SocketRecord /\ r.refs = sock[e].refs /\ r.live = sock[e].live
      /\ r.queue = sock[e].queue /\ r.full = sock[e].full /\ r.free = fr
      /\ r.current = sock[e].current /\ r.used = sock[e].used
  BY <1>0, <1>3, <1>4 DEF SocketRecord
<1>6. sock' = [sock EXCEPT ![e] = r]
  BY <1>1, <1>2, <1>4 DEF DispatchReclaim
<1>7. sock' \in [Entries -> SocketRecord] /\ OthersKept(e) /\ sock'[e] = r
  BY <1>0, <1>5, <1>6 DEF OthersKept
<1>8. /\ pc' = [pc EXCEPT ![t] = "release"] /\ pc'[t] = "release"
      /\ \A u \in Threads : u # t => pc'[u] = pc[u]
  BY <1>0 DEF DispatchReclaim, Goto
<1> QED
  BY ZenonT(60), <1>0, <1>1, <1>2, <1>5, <1>7, <1>8 DEF DispatchReclaim, Reclaims


\* DeleteSocket and ReleaseSocket: the table's reference, and a user's.
Deletes(t, n, e) ==
  /\ pc[t] = "idle" /\ table[n] = e
  /\ table' = [table EXCEPT ![n] = None] /\ freeEntries' = <<e>> \o freeEntries
  /\ Drops(t, e)

\* ReleaseSocket.
Releases(t, e) == pc[t] = "release" /\ ptr[t] = e /\ UNCHANGED tableVars /\ Drops(t, e)

\* Every set of threads is finite.
LEMMA ThreadsFinite ==
  ASSUME NEW S \in SUBSET Threads
  PROVE  IsFiniteSet(S) /\ Cardinality(S) \in Nat /\ (S # {} <=> Cardinality(S) >= 1)
<1>1. IsFiniteSet(S) /\ Cardinality(S) \in Nat
  BY MessageAssumption, FS_Subset, FS_CardinalityType
<1> QED
  BY <1>1, FS_EmptySet

\* A socket has finitely many users.
LEMMA UsersFinite ==
  ASSUME NEW e
  PROVE  /\ Users(e) \in SUBSET Threads /\ IsFiniteSet(Users(e)) /\ Cardinality(Users(e)) \in Nat
         /\ Users(e) # {} <=> Cardinality(Users(e)) >= 1
<1>1. Users(e) \in SUBSET Threads
  BY DEF Users
<1> QED
  BY <1>1, ThreadsFinite

\* The table has a reference to drop.
LEMMA DeletesShape ==
  ASSUME Typed, RefsInv, NEW t \in Threads, NEW n \in Names, DeleteSocket(t, n)
  PROVE  \E e \in Entries : Deletes(t, n, e)
<1>1. PICK e \in Entries : e = table[n]
  BY TypedFields DEF DeleteSocket
<1>2. InTable(e)
  BY <1>1 DEF InTable
<1>3. sock[e].refs = 1 + Cardinality(Users(e))
  BY <1>2 DEF RefsInv, RefInv
<1>4. sock[e].refs >= 1
  BY <1>3, UsersFinite
<1>5. /\ sock' = [sock EXCEPT ![e] = DecRef(@)] /\ GotoOrReturn(t, AfterDecRef(sock[e]), e)
      /\ UNCHANGED <<pageVars, dispatchVars, created, posted, gone>>
  BY <1>1 DEF DeleteSocket, dispatchVars
<1>6. Drops(t, e)
  BY <1>4, <1>5, DropsShape
<1> QED
  BY <1>1, <1>6 DEF DeleteSocket, Deletes, Here

\* A user has a reference to drop.
LEMMA ReleasesShape ==
  ASSUME Typed, PtrInv, RefsInv, NEW t \in Threads, ReleaseSocket(t)
  PROVE  \E e \in Entries : Releases(t, e)
<1>1. PICK e \in Entries : e = ptr[t]
  BY TypedFields DEF PtrInv, ReleaseSocket, Here
<1>2. t \in Users(e)
  BY <1>1 DEF Users, ReleaseSocket, Here
<1>3. Cardinality(Users(e)) >= 1 /\ Cardinality(Users(e)) \in Nat
  BY <1>2, UsersFinite
<1>4. \/ sock[e].refs = 1 + Cardinality(Users(e))
      \/ sock[e].refs = 0 + Cardinality(Users(e))
  BY <1>2 DEF RefsInv, RefInv
<1>5. sock[e].refs >= 1
  BY <1>3, <1>4
<1>6. /\ sock' = [sock EXCEPT ![e] = DecRef(@)] /\ GotoOrReturn(t, AfterDecRef(sock[e]), e)
      /\ UNCHANGED <<pageVars, dispatchVars, created, posted, gone>> /\ UNCHANGED tableVars
  BY <1>1 DEF ReleaseSocket, dispatchVars, tableVars
<1>7. Drops(t, e)
  BY <1>5, <1>6, DropsShape
<1> QED
  BY <1>1, <1>6, <1>7 DEF ReleaseSocket, Releases, Here

\* Every step is one of these.
StepShape(t, e) ==
  \/ \E n \in Names : Creates(n, e) \/ Deletes(t, n, e)
  \/ Acquires(t, e) \/ Releases(t, e) \/ Disposes(t, e) \/ MovesOn(t)
  \/ \E g \in Pages, off \in 1 .. PageMessages : Posts(t, e, g, off)
  \/ Takes(t, e) \/ Reclaims(t, e)
  \/ \E m \in Places : Calls(t, m)

\* Every step of the sockets has one of these shapes.
LEMMA NextShape ==
  ASSUME SocketsInv, Next, EntryIsFree
  PROVE  \E t \in Threads, e \in Entries : StepShape(t, e)
<1> USE DEF SocketsInv
<1>0. \E e : e \in Entries
  <2>1. 1 \in Entries
    BY MessageAssumption DEF Entries
  <2> QED
    BY <2>1
<1>1. PICK t \in Threads : Step(t) \/ SpuriousWake(t) \/ \E n \in Names : Call(t, n)
  BY DEF Next
<1>2. CASE ReleaseSocket(t)
  BY <1>2, ReleasesShape DEF StepShape
<1>3. CASE DisposeSocket(t)
  BY <1>3, DisposesShape DEF StepShape
<1>4. CASE HasMessages(t) \/ DispatchEmpty(t) \/ SpuriousWake(t)
  BY <1>0, <1>4, MovesOnShape DEF StepShape
<1>5. CASE PostMessage(t)
  <2>1. PICK e \in Entries, g \in Pages, off \in 1 .. PageMessages : Posts(t, e, g, off)
    BY <1>5, PostsShape
  <2> QED
    BY <2>1 DEF StepShape
<1>6. CASE DispatchTake(t) \/ DispatchWoken(t)
  BY <1>6, TakesShape DEF StepShape
<1>7. CASE DispatchCallback(t)
  BY <1>0, <1>7, CallsShape DEF StepShape
<1>8. CASE DispatchReclaim(t)
  BY <1>8, ReclaimsShape DEF StepShape
<1>9. ASSUME NEW n \in Names, Call(t, n) PROVE \E u \in Threads, e \in Entries : StepShape(u, e)
  <2>1. CASE NewSocket(t, n)
    <3>1. PICK e \in Entries : Creates(n, e)
      BY <2>1, CreatesShape
    <3> QED
      BY <3>1 DEF StepShape
  <2>2. CASE DeleteSocket(t, n)
    <3>1. PICK e \in Entries : Deletes(t, n, e)
      BY <2>2, DeletesShape
    <3> QED
      BY <3>1 DEF StepShape
  <2>3. CASE \/ BeginPost(t, n) \/ BeginHasMessages(t, n)
             \/ BeginDispatch(t, n) \/ BeginDispatchBlocking(t, n)
    <3>1. PICK e \in Entries : Acquires(t, e)
      BY <2>3, AcquiresShape
    <3> QED
      BY <3>1 DEF StepShape
  <2> QED
    BY <1>9, <2>1, <2>2, <2>3 DEF Call
<1> QED
  BY <1>1, <1>2, <1>3, <1>4, <1>5, <1>6, <1>7, <1>8, <1>9 DEF Step

-----------------------------------------------------------------------------
(* Types, budget, table, calls. *)

\* The fields of a new socket and of one that was disposed of.
LEMMA DisposedFields ==
  /\ NewMessageSocket \in SocketRecord /\ NewMessageSocket.refs = 1 /\ NewMessageSocket.live
  /\ NewMessageSocket.queue = <<>> /\ NewMessageSocket.full = <<>> /\ NewMessageSocket.free = <<>>
  /\ NewMessageSocket.current = None /\ NewMessageSocket.used = 0
  /\ Disposed \in SocketRecord /\ Disposed.refs = 0 /\ ~Disposed.live
  /\ Disposed.queue = <<>> /\ Disposed.full = <<>> /\ Disposed.free = <<>>
  /\ Disposed.current = None /\ Disposed.used = 0
<1>1. /\ <<>> \in Seq(Pages) /\ <<>> \in Seq(Places) /\ 0 \in 0 .. PageMessages
      /\ 0 \in Nat /\ 1 \in Nat /\ FALSE \in BOOLEAN
  BY MessageAssumption
<1>2. PICK s : s = NewMessageSocket
  OBVIOUS
<1>3. /\ s \in SocketRecord /\ s.refs = 1 /\ s.live = TRUE /\ s.queue = <<>> /\ s.full = <<>> /\ s.free = <<>>
      /\ s.current = None /\ s.used = 0
  BY <1>1, <1>2 DEF NewMessageSocket, SocketRecord
<1>4. PICK r : r = [s EXCEPT !.refs = 0]
  OBVIOUS
<1>5. /\ r \in SocketRecord /\ r.refs = 0 /\ r.queue = <<>> /\ r.full = <<>> /\ r.free = <<>>
      /\ r.current = None /\ r.used = 0
  BY <1>1, <1>3, <1>4 DEF SocketRecord
<1>6. PICK d : d = [r EXCEPT !.live = FALSE]
  OBVIOUS
<1>7. /\ d \in SocketRecord /\ d.refs = 0 /\ d.live = FALSE /\ d.queue = <<>> /\ d.full = <<>> /\ d.free = <<>>
      /\ d.current = None /\ d.used = 0
  BY <1>1, <1>5, <1>6 DEF SocketRecord
<1>8. Disposed = d
  BY <1>2, <1>4, <1>6 DEF Disposed
<1> QED
  BY <1>2, <1>3, <1>7, <1>8

\* Every step keeps the types.
LEMMA TypedStep ==
  ASSUME SocketsInv, NEW t \in Threads, NEW e \in Entries, StepShape(t, e)
  PROVE  Typed'
<1>0. /\ table \in [Names -> Entries \cup {None}] /\ freeEntries \in Seq(Entries)
      /\ created \in 0 .. MaxCreations /\ posted \in 0 .. MaxPosts
      /\ sock \in [Entries -> SocketRecord]
      /\ pc \in [Threads -> Labels] /\ ptr \in [Threads -> Entries \cup {None}]
      /\ batch \in [Threads -> Seq(Places)] /\ unlinked \in [Threads -> Seq(Pages)]
      /\ heap \subseteq Pages /\ gone \in [Messages -> Nat]
      /\ mem \in [Pages -> [1 .. PageMessages -> Messages \cup {None}]]
  BY DEF SocketsInv, Typed, TypeOK, SocketRecord
<1>l. /\ "idle" \in Labels /\ "dispose" \in Labels /\ "release" \in Labels /\ "callbacks" \in Labels
      /\ "wait" \in Labels /\ "woken" \in Labels
      /\ \A l \in {"enqueue", "peek", "take"} : l \in Labels
  BY DEF Labels
<1>e. <<>> \in Seq(Pages) /\ <<>> \in Seq(Places) /\ <<>> \in Seq(Entries)
  OBVIOUS
<1>q. \A f \in Entries : /\ sock[f].queue \in Seq(Places) /\ sock[f].full \in Seq(Pages)
                         /\ sock[f].free \in Seq(Pages) /\ sock[f].current \in Pages \cup {None}
  BY <1>0 DEF SocketRecord
<1> SUFFICES
      /\ table' \in [Names -> Entries \cup {None}] /\ freeEntries' \in Seq(Entries)
      /\ created' \in 0 .. MaxCreations /\ posted' \in 0 .. MaxPosts
      /\ sock' \in [Entries -> SocketRecord]
      /\ pc' \in [Threads -> Labels] /\ ptr' \in [Threads -> Entries \cup {None}]
      /\ batch' \in [Threads -> Seq(Places)] /\ unlinked' \in [Threads -> Seq(Pages)]
      /\ heap' \subseteq Pages /\ gone' \in [Messages -> Nat]
      /\ mem' \in [Pages -> [1 .. PageMessages -> Messages \cup {None}]]
  BY DEF Typed, TypeOK, SocketRecord
<1> USE DEF pageVars, tableVars, threadVars, dispatchVars
<1>1. ASSUME NEW n \in Names, Creates(n, e)
      PROVE  /\ table' \in [Names -> Entries \cup {None}] /\ freeEntries' \in Seq(Entries)
             /\ created' \in 0 .. MaxCreations /\ sock' \in [Entries -> SocketRecord]
  <2>1. NewMessageSocket \in SocketRecord
    BY <1>e, MessageAssumption DEF NewMessageSocket, SocketRecord
  <2>2. freeEntries' \in Seq(Entries)
    <3>1. freeEntries # <<>> => Tail(freeEntries) \in Seq(Entries)
      BY <1>0, InTail
    <3> QED
      BY <1>0, <1>1, <3>1 DEF Creates
  <2>3. created' \in 0 .. MaxCreations
    BY <1>0, <1>1, MessageAssumption DEF Creates
  <2> QED
    BY <1>0, <1>1, <2>1, <2>2, <2>3 DEF Creates
<1>2. CASE \E n \in Names : Creates(n, e)
  BY <1>0, <1>1, <1>2 DEF Creates
<1>3. ASSUME Drops(t, e)
      PROVE  /\ sock' \in [Entries -> SocketRecord] /\ pc' \in [Threads -> Labels]
             /\ ptr' \in [Threads -> Entries \cup {None}]
  BY ZenonT(60), <1>0, <1>l, <1>3 DEF Drops, CountOnly, ThreadGoes
<1>4. CASE \E n \in Names : Deletes(t, n, e)
  <2>1. PICK n \in Names : Deletes(t, n, e)
    BY <1>4
  <2>2. Drops(t, e)
    BY <2>1 DEF Deletes
  <2>3. freeEntries' \in Seq(Entries)
    BY <1>0, <2>1, InCons DEF Deletes
  <2> QED
    BY <1>0, <1>3, <2>1, <2>2, <2>3 DEF Deletes, Drops
<1>5. CASE Acquires(t, e)
  BY <1>0, <1>l, <1>5 DEF Acquires, CountOnly, ThreadGoes
<1>6. CASE Releases(t, e)
  <2>1. Drops(t, e)
    BY <1>6 DEF Releases
  <2> QED
    BY <1>0, <1>3, <1>6, <2>1 DEF Releases, Drops
<1>7. CASE Disposes(t, e)
  <2>1. Disposed \in SocketRecord
    BY DisposedFields
  <2>2. sock' \in [Entries -> SocketRecord]
    BY <1>0, <1>7, <2>1 DEF Disposes
  <2>3. PagesOf(sock[e]) \subseteq Pages
    BY <1>q, InToSet, InType DEF PagesOf
  <2>4. heap' \subseteq Pages
    BY <1>0, <1>7, <2>3 DEF Disposes
  <2>5. \A m \in Messages : Cardinality({k \in DOMAIN sock[e].queue : sock[e].queue[k].id = m}) \in Nat
    <3> SUFFICES ASSUME NEW m PROVE Cardinality({k \in DOMAIN sock[e].queue : sock[e].queue[k].id = m}) \in Nat
      OBVIOUS
    <3>1. PICK N : N = Len(sock[e].queue) /\ N \in Nat
      BY SMTT(60), <1>q
    <3>2. DOMAIN sock[e].queue = 1 .. N
      BY <1>q, <3>1
    <3>3. 1 \in Int /\ N \in Int
      BY <3>1
    <3>4. IsFiniteSet(1 .. N)
      BY <3>3, FS_Interval
    <3>5. PICK S : S = {k \in DOMAIN sock[e].queue : sock[e].queue[k].id = m}
      OBVIOUS
    <3>6. S \in SUBSET (1 .. N)
      BY <3>2, <3>5
    <3>7. Cardinality(S) \in Nat
      BY <3>4, <3>6, FS_Subset, FS_CardinalityType
    <3> QED
      BY <3>5, <3>7
  <2>6. \A m \in Messages : gone[m] + Cardinality({k \in DOMAIN sock[e].queue : sock[e].queue[k].id = m}) \in Nat
    <3> SUFFICES ASSUME NEW m \in Messages
                 PROVE  gone[m] + Cardinality({k \in DOMAIN sock[e].queue : sock[e].queue[k].id = m}) \in Nat
      OBVIOUS
    <3>1. PICK c \in Nat : c = Cardinality({k \in DOMAIN sock[e].queue : sock[e].queue[k].id = m})
      BY <2>5
    <3>2. gone[m] + c \in Nat
      BY <1>0
    <3> QED
      BY <3>1, <3>2
  <2>7. gone' \in [Messages -> Nat]
    BY <1>7, <2>6 DEF Disposes
  <2> QED
    BY <1>0, <1>l, <1>7, <2>2, <2>4, <2>7 DEF Disposes, ThreadGoes
<1>8. CASE MovesOn(t)
  BY <1>0, <1>l, <1>8 DEF MovesOn
<1>9. CASE \E g \in Pages, off \in 1 .. PageMessages : Posts(t, e, g, off)
  <2>1. PICK g \in Pages, off \in 1 .. PageMessages : Posts(t, e, g, off)
    BY <1>9
  <2>2. posted' \in 0 .. MaxPosts
    BY <1>0, <2>1, MessageAssumption DEF Posts, Messages
  <2>3. [mem[g] EXCEPT ![off] = posted + 1] \in [1 .. PageMessages -> Messages \cup {None}]
    BY <1>0, <2>1 DEF Posts
  <2>4. mem' \in [Pages -> [1 .. PageMessages -> Messages \cup {None}]]
    BY <1>0, <2>1, <2>3 DEF Posts
  <2> QED
    BY <1>0, <2>1, <2>2, <2>4 DEF Posts
<1>10. CASE Takes(t, e)
  BY <1>0, <1>l, <1>q, <1>10 DEF Takes
<1>11. CASE Reclaims(t, e)
  BY SMTT(60), <1>0, <1>l, <1>e, <1>11 DEF Reclaims
<1>12. CASE \E m \in Places : Calls(t, m)
  <2>1. PICK m \in Places : Calls(t, m)
    BY <1>12
  <2>2. gone' \in [Messages -> Nat]
    <3>1. PICK x : x = mem[m.page][m.offset]
      OBVIOUS
    <3>2. gone' = [gone EXCEPT ![x] = gone[x] + 1]
      BY <2>1, <3>1 DEF Calls
    <3>3. x \in Messages => gone[x] + 1 \in Nat
      BY <1>0
    <3> QED
      BY <1>0, <3>2, <3>3
  <2>3. Tail(batch[t]) \in Seq(Places)
    BY <1>0, <2>1 DEF Calls
  <2> QED
    BY <1>0, <2>1, <2>2, <2>3 DEF Calls
<1> QED
  BY <1>2, <1>4, <1>5, <1>6, <1>7, <1>8, <1>9, <1>10, <1>11, <1>12 DEF StepShape

\* Every step keeps BudgetInv.
LEMMA BudgetStep ==
  ASSUME SocketsInv, NEW t \in Threads, NEW e \in Entries, StepShape(t, e)
  PROVE  BudgetInv'
<1>0. /\ posted \in Nat /\ MaxPosts \in Nat /\ Posting \in SUBSET Threads /\ Posting' \in SUBSET Threads
      /\ posted + Cardinality(Posting) <= MaxPosts
  BY TypedFields, MessageAssumption DEF SocketsInv, Posting, BudgetInv
<1>1. PICK a, b : a = Cardinality(Posting) /\ b = Cardinality(Posting')
  OBVIOUS
<1>2. a \in Nat /\ b \in Nat /\ IsFiniteSet(Posting)
  BY <1>0, <1>1, ThreadsFinite
<1> SUFFICES posted' + b <= MaxPosts
  BY <1>1 DEF BudgetInv
<1>3. ASSUME \A u \in Threads : pc'[u] = "enqueue" => pc[u] = "enqueue" PROVE b <= a
  <2>1. Posting' \in SUBSET Posting
    BY <1>3 DEF Posting
  <2> QED
    BY <1>1, <1>2, <2>1, FS_Subset
<1>4. ASSUME posted' = posted, \A u \in Threads : pc'[u] = "enqueue" => pc[u] = "enqueue"
      PROVE  posted' + b <= MaxPosts
  BY <1>0, <1>1, <1>2, <1>3, <1>4
<1> USE DEF pageVars, tableVars, threadVars, dispatchVars
<1>5. CASE \E n \in Names : Creates(n, e)
  BY <1>4, <1>5 DEF Creates
<1>6. CASE (\E n \in Names : Deletes(t, n, e)) \/ Releases(t, e)
  BY <1>4, <1>6 DEF Deletes, Releases, Drops, ThreadGoes
<1>7. CASE Acquires(t, e)
  <2>1. PICK label \in {"enqueue", "peek", "take"} :
          ThreadGoes(t, label, e) /\ (label = "enqueue" => posted + Cardinality(Posting) < MaxPosts)
    BY <1>7 DEF Acquires
  <2>2. CASE label # "enqueue"
    BY <1>4, <1>7, <2>1, <2>2 DEF Acquires, ThreadGoes
  <2>3. CASE label = "enqueue"
    <3>1. Posting' = Posting \cup {t} /\ t \notin Posting
      BY <1>7, <2>1, <2>3 DEF Posting, ThreadGoes, Acquires
    <3>2. b = a + 1
      BY <1>1, <1>2, <3>1, FS_AddElement
    <3> QED
      BY <1>0, <1>1, <1>2, <1>7, <2>1, <2>3, <3>2 DEF Acquires
  <2> QED
    BY <2>2, <2>3
<1>8. CASE Disposes(t, e)
  BY <1>4, <1>8 DEF Disposes, ThreadGoes
<1>9. CASE MovesOn(t)
  BY <1>4, <1>9 DEF MovesOn
<1>10. CASE \E g \in Pages, off \in 1 .. PageMessages : Posts(t, e, g, off)
  <2>1. PICK g \in Pages, off \in 1 .. PageMessages : Posts(t, e, g, off)
    BY <1>10
  <2>2. Posting' = Posting \ {t} /\ t \in Posting
    BY <2>1 DEF Posting, Posts
  <2>3. b = a - 1
    BY <1>1, <1>2, <2>2, FS_RemoveElement
  <2>4. posted' = posted + 1
    BY <2>1 DEF Posts
  <2> QED
    BY <1>0, <1>1, <1>2, <2>3, <2>4
<1>11. CASE Takes(t, e)
  BY <1>4, <1>11 DEF Takes
<1>12. CASE Reclaims(t, e)
  BY <1>4, <1>12 DEF Reclaims
<1>13. CASE \E m \in Places : Calls(t, m)
  BY <1>4, <1>13 DEF Calls
<1> QED
  BY <1>5, <1>6, <1>7, <1>8, <1>9, <1>10, <1>11, <1>12, <1>13 DEF StepShape

\* Every step keeps PtrInv.
LEMMA PtrStep ==
  ASSUME SocketsInv, NEW t \in Threads, NEW e \in Entries, StepShape(t, e)
  PROVE  PtrInv'
<1>0. /\ \A u \in Threads : pc[u] = "idle" <=> ptr[u] = None
      /\ e # None
  BY TypedFields DEF SocketsInv, PtrInv
<1> SUFFICES \A u \in Threads : pc'[u] = "idle" <=> ptr'[u] = None
  BY DEF PtrInv
<1> USE DEF pageVars, tableVars, threadVars, dispatchVars
<1>5. CASE \E n \in Names : Creates(n, e)
  BY <1>0, <1>5 DEF Creates
<1>6. CASE (\E n \in Names : Deletes(t, n, e)) \/ Releases(t, e)
  BY <1>0, <1>6 DEF Deletes, Releases, Drops, ThreadGoes
<1>7. CASE Acquires(t, e)
  BY <1>0, <1>7 DEF Acquires, ThreadGoes
<1>8. CASE Disposes(t, e)
  BY <1>0, <1>8 DEF Disposes, ThreadGoes
<1>9. CASE MovesOn(t)
  BY <1>0, <1>9 DEF MovesOn
<1>10. CASE \E g \in Pages, off \in 1 .. PageMessages : Posts(t, e, g, off)
  BY <1>0, <1>10 DEF Posts
<1>11. CASE Takes(t, e)
  BY <1>0, <1>11 DEF Takes
<1>12. CASE Reclaims(t, e)
  BY <1>0, <1>12 DEF Reclaims
<1>13. CASE \E m \in Places : Calls(t, m)
  BY <1>0, <1>13 DEF Calls
<1> QED
  BY <1>5, <1>6, <1>7, <1>8, <1>9, <1>10, <1>11, <1>12, <1>13 DEF StepShape

\* Every step keeps EmptyInv.
LEMMA EmptyStep ==
  ASSUME SocketsInv, NEW t \in Threads, NEW e \in Entries, StepShape(t, e)
  PROVE  EmptyInv'
<1>0. /\ \A f \in Entries : ~sock[f].live => /\ sock[f].queue = <<>> /\ sock[f].full = <<>>
                                             /\ sock[f].free = <<>> /\ sock[f].current = None
      /\ \A u \in Threads : pc[u] # "callbacks" => batch[u] = <<>> /\ unlinked[u] = <<>>
  BY DEF SocketsInv, EmptyInv
<1>1. /\ batch \in [Threads -> Seq(Places)] /\ unlinked \in [Threads -> Seq(Pages)]
      /\ sock \in [Entries -> SocketRecord]
  BY TypedFields DEF SocketsInv, Typed, TypeOK
<1> SUFFICES
      /\ \A f \in Entries : ~sock'[f].live => /\ sock'[f].queue = <<>> /\ sock'[f].full = <<>>
                                              /\ sock'[f].free = <<>> /\ sock'[f].current = None
      /\ \A u \in Threads : pc'[u] # "callbacks" => batch'[u] = <<>> /\ unlinked'[u] = <<>>
  BY DEF EmptyInv
<1> USE DEF pageVars, tableVars, threadVars, dispatchVars
<1>2. ASSUME NEW f \in Entries, InTable(f) \/ Users(f) # {} PROVE sock[f].live
  BY <1>2 DEF SocketsInv, RefsInv, RefInv
<1>3. ASSUME ptr[t] = e, pc[t] \notin {"idle", "dispose"} PROVE sock[e].live
  <2>1. t \in Users(e)
    BY <1>3 DEF Users
  <2> QED
    BY <1>2, <2>1
<1>5. CASE \E n \in Names : Creates(n, e)
  BY <1>0, <1>1, <1>5, DisposedFields DEF Creates
<1>6. CASE (\E n \in Names : Deletes(t, n, e)) \/ Releases(t, e)
  <2>1. Drops(t, e) /\ pc[t] # "callbacks"
    BY <1>6 DEF Deletes, Releases
  <2> QED
    BY <1>0, <2>1 DEF Drops, CountOnly, OthersKept, ThreadGoes
<1>7. CASE Acquires(t, e)
  BY <1>0, <1>7 DEF Acquires, CountOnly, OthersKept, ThreadGoes
<1>8. CASE Disposes(t, e)
  BY <1>0, <1>1, <1>8, DisposedFields DEF Disposes, ThreadGoes
<1>9. CASE MovesOn(t)
  BY <1>0, <1>9 DEF MovesOn
<1>10. CASE \E g \in Pages, off \in 1 .. PageMessages : Posts(t, e, g, off)
  <2>1. PICK g \in Pages, off \in 1 .. PageMessages : Posts(t, e, g, off)
    BY <1>10
  <2>2. sock'[e].live
    BY <1>3, <2>1 DEF Posts
  <2>3. \A u \in Threads : pc'[u] # "callbacks" => pc[u] # "callbacks"
    BY <2>1 DEF Posts
  <2>4. batch' = batch /\ unlinked' = unlinked /\ OthersKept(e)
    BY <2>1 DEF Posts
  <2> QED
    BY <1>0, <2>2, <2>3, <2>4 DEF OthersKept
<1>11. CASE Takes(t, e)
  <2>2. sock'[e].live
    BY <1>3, <1>11 DEF Takes
  <2> QED
    BY ZenonT(60), <1>0, <1>1, <1>11, <2>2 DEF Takes, OthersKept
<1>12. CASE Reclaims(t, e)
  <2>2. sock'[e].live
    BY <1>3, <1>12 DEF Reclaims
  <2> QED
    BY ZenonT(60), <1>0, <1>1, <1>12, <2>2 DEF Reclaims, OthersKept
<1>13. CASE \E m \in Places : Calls(t, m)
  BY <1>0, <1>1, <1>13 DEF Calls
<1> QED
  BY <1>5, <1>6, <1>7, <1>8, <1>9, <1>10, <1>11, <1>12, <1>13 DEF StepShape

\* Every step keeps TableInv.
LEMMA TableStep ==
  ASSUME SocketsInv, NEW t \in Threads, NEW e \in Entries, StepShape(t, e)
  PROVE  TableInv'
<1>0. /\ table \in [Names -> Entries \cup {None}] /\ freeEntries \in Seq(Entries)
      /\ created \in Nat /\ e \in Nat /\ e # None /\ MAX_SOCKETS \in Nat
      /\ \A n \in Names : table[n] \in Nat
  <2>1. \A n \in Names : table[n] \in Nat
    BY TypedFields DEF None, SocketsInv
  <2> QED
    BY <2>1, TypedFields, MessageAssumption DEF SocketsInv, Typed, TypeOK
<1>1. /\ \A n, m \in Names : table[n] # None /\ table[n] = table[m] => n = m
      /\ \A n \in Names : table[n] <= created
      /\ NoDup(freeEntries)
      /\ \A f : In(freeEntries, f) => f \in Entries /\ f <= created /\ ~InTable(f)
      /\ \A f \in Entries : f <= created => InTable(f) \/ In(freeEntries, f)
  BY <1>0 DEF SocketsInv, TableInv, In
<1> SUFFICES ASSUME TRUE
    PROVE /\ \A n, m \in Names : table'[n] # None /\ table'[n] = table'[m] => n = m
          /\ \A n \in Names : table'[n] <= created'
          /\ NoDup(freeEntries')
          /\ \A f : In(freeEntries', f) => f <= created' /\ ~InTable(f)'
          /\ \A f \in Entries : f <= created' => InTable(f)' \/ In(freeEntries', f)
  BY DEF TableInv, In, InTable, NoDup
<1>2. CASE UNCHANGED <<table, freeEntries, created>>
  <2>1. \A f : InTable(f)' <=> InTable(f)
    BY <1>2 DEF InTable
  <2> QED
    BY <1>1, <1>2, <2>1
<1>3. CASE \E n \in Names : Creates(n, e)
  <2>1. PICK n \in Names : Creates(n, e)
    BY <1>3
  <2>2. \A m \in Names : table'[m] = IF m = n THEN e ELSE table[m]
    BY <1>0, <2>1 DEF Creates
  <2>3. \A f : InTable(f)' <=> f = e \/ (f # None /\ InTable(f)) \/ (f = None /\ \E m \in Names : m # n /\ table[m] = None)
    BY <2>1, <2>2, <1>0 DEF InTable, Creates
  <2>4. ~InTable(e) /\ created' = created + 1
    BY <2>1 DEF Creates
  <2>5. \A a, b \in Names : table'[a] # None /\ table'[a] = table'[b] => a = b
    BY <1>1, <2>2, <2>4 DEF InTable
  <2>6. CASE created < MAX_SOCKETS /\ e = created + 1 /\ freeEntries' = freeEntries
    <3>1. \A f : In(freeEntries, f) => f <= created' /\ ~InTable(f)'
      <4> SUFFICES ASSUME NEW f, In(freeEntries, f) PROVE f <= created' /\ ~InTable(f)'
        OBVIOUS
      <4>1. f \in Entries /\ f <= created /\ ~InTable(f) /\ f \in Nat /\ f # None
        BY <1>1, TypedFields DEF SocketsInv
      <4>2. f # e
        BY <1>0, <2>6, <4>1
      <4> QED
        BY <1>0, <2>3, <2>4, <4>1, <4>2
    <3>2. \A m \in Names : table'[m] <= created'
      BY <1>0, <1>1, <2>2, <2>4, <2>6
    <3>3. \A f \in Entries : f <= created' => InTable(f)' \/ In(freeEntries, f)
      <4> SUFFICES ASSUME NEW f \in Entries, f <= created + 1, f # e PROVE InTable(f)' \/ In(freeEntries, f)
        BY <2>3, <2>4
      <4>1. f \in Nat /\ f # None
        BY TypedFields DEF SocketsInv
      <4>2. f <= created
        BY <1>0, <2>6, <4>1
      <4> QED
        BY <1>1, <2>3, <4>1, <4>2
    <3> QED
      BY <1>1, <2>5, <2>6, <3>1, <3>2, <3>3
  <2>7. CASE /\ created >= MAX_SOCKETS /\ freeEntries # <<>> /\ e = Head(freeEntries)
             /\ freeEntries' = Tail(freeEntries)
    <3>0. NoDup(Tail(freeEntries)) /\ \A f : In(Tail(freeEntries), f) <=> In(freeEntries, f) /\ f # e
      BY <1>0, <1>1, <2>7, InTail
    <3>e. In(freeEntries, e)
      BY <1>0, <2>7, InTail
    <3>f. \A f \in Entries : f <= created /\ f \in Nat /\ f # None
      BY <1>0, <2>7, TypedFields DEF SocketsInv, Entries
    <3>1. \A f : In(Tail(freeEntries), f) => f <= created' /\ ~InTable(f)'
      <4> SUFFICES ASSUME NEW f, In(freeEntries, f), f # e PROVE f <= created' /\ ~InTable(f)'
        BY <3>0
      <4>1. f \in Entries /\ f <= created /\ ~InTable(f) /\ f \in Nat /\ f # None
        BY <1>1, <3>f
      <4> QED
        BY <1>0, <2>3, <2>4, <4>1
    <3>2. \A m \in Names : table'[m] <= created'
      BY <1>0, <1>1, <2>2, <2>4, <3>f
    <3>3. \A f \in Entries : f <= created' => InTable(f)' \/ In(Tail(freeEntries), f)
      BY <1>1, <2>3, <3>0, <3>f
    <3> QED
      BY <2>5, <2>7, <3>0, <3>1, <3>2, <3>3
  <2> QED
    BY <2>1, <2>6, <2>7 DEF Creates
<1>4. CASE \E n \in Names : Deletes(t, n, e)
  <2>1. PICK n \in Names : Deletes(t, n, e)
    BY <1>4
  <2>2. \A m \in Names : table'[m] = IF m = n THEN None ELSE table[m]
    BY <1>0, <2>1 DEF Deletes
  <2>3. InTable(e) /\ table[n] = e /\ created' = created
    BY <2>1 DEF InTable, Deletes, Drops
  <2>4. ASSUME NEW f, f # None PROVE InTable(f)' <=> InTable(f) /\ f # e
    BY <1>1, <2>2, <2>3, <2>4 DEF InTable
  <2>5. \A a, b \in Names : table'[a] # None /\ table'[a] = table'[b] => a = b
    BY <1>1, <2>2
  <2>6. \A m \in Names : table'[m] <= created'
    BY <1>0, <1>1, <2>2, <2>3 DEF None
  <2>7. ~In(freeEntries, e)
    BY <1>1, <2>3
  <2>8. NoDup(freeEntries') /\ \A f : In(freeEntries', f) <=> f = e \/ In(freeEntries, f)
    <3>1. freeEntries' = <<e>> \o freeEntries
      BY <2>1 DEF Deletes
    <3> QED
      BY <1>0, <1>1, <2>7, <3>1, InCons
  <2>9. \A f : In(freeEntries', f) => f <= created' /\ ~InTable(f)'
    <3> SUFFICES ASSUME NEW f, f = e \/ In(freeEntries, f) PROVE f <= created /\ ~InTable(f)'
      BY <2>3, <2>8
    <3>1. f <= created /\ f # None
      BY <1>0, <1>1, <2>3, TypedFields DEF SocketsInv
    <3> QED
      BY <1>1, <2>4, <3>1
  <2>10. \A f \in Entries : f <= created' => InTable(f)' \/ In(freeEntries', f)
    <3> SUFFICES ASSUME NEW f \in Entries, f <= created PROVE InTable(f)' \/ In(freeEntries', f)
      BY <2>3
    <3>1. f # None
      BY TypedFields DEF SocketsInv
    <3> QED
      BY <1>1, <2>4, <2>8, <3>1
  <2> QED
    BY <2>5, <2>6, <2>8, <2>9, <2>10
<1> USE DEF pageVars, tableVars, threadVars, dispatchVars
<1>6. CASE Releases(t, e) \/ Acquires(t, e) \/ Disposes(t, e) \/ MovesOn(t)
  BY SMTT(60), <1>2, <1>6 DEF Releases, Acquires, Disposes, MovesOn
<1>7. CASE \/ \E g \in Pages, off \in 1 .. PageMessages : Posts(t, e, g, off)
           \/ Takes(t, e) \/ Reclaims(t, e) \/ \E m \in Places : Calls(t, m)
  BY <1>2, <1>7 DEF Posts, Takes, Reclaims, Calls
<1> QED
  BY <1>3, <1>4, <1>6, <1>7 DEF StepShape

-----------------------------------------------------------------------------
(* Reference counts. *)

\* What is known of one socket.
LEMMA RefFacts ==
  ASSUME SocketsInv, NEW f \in Entries
  PROVE  /\ InTable(f) /\ sock[f].live => sock[f].refs = 1 + Cardinality(Users(f))
         /\ ~InTable(f) /\ sock[f].live => sock[f].refs = Cardinality(Users(f))
         /\ Users(f) # {} \/ InTable(f) => sock[f].live /\ Disposers(f) = {}
         /\ Disposers(f) # {} => sock[f].live
         /\ \A t, u \in Disposers(f) : t = u
         /\ sock[f].live => Users(f) # {} \/ InTable(f) \/ Disposers(f) # {}
         /\ f > created => ~sock[f].live
         /\ f \in Nat /\ f # None /\ created \in Nat /\ sock[f].refs \in Nat
         /\ Cardinality(Users(f)) \in Nat
<1>1. RefInv(f) /\ Cardinality(Users(f)) \in Nat
  BY UsersFinite DEF SocketsInv, RefsInv
<1>2. f \in Nat /\ f # None /\ created \in Nat /\ sock[f].refs \in Nat
  BY TypedFields DEF SocketsInv
<1>3. \A n \in Nat : 0 + n = n
  OBVIOUS
<1> QED
  BY <1>1, <1>2, <1>3 DEF RefInv

\* A socket whose count and users stay as they are.
LEMMA RefKept ==
  ASSUME SocketsInv, NEW f \in Entries, sock'[f].refs = sock[f].refs, sock'[f].live = sock[f].live,
         \A u \in Threads : u \in Users(f)' <=> u \in Users(f),
         \A u \in Threads : u \in Disposers(f)' <=> u \in Disposers(f),
         InTable(f)' <=> InTable(f), created' \in {created, created + 1}
  PROVE  RefInv(f)'
<1>1. Users(f)' = Users(f) /\ Disposers(f)' = Disposers(f)
  BY DEF Users, Disposers
<1>2. f > created' => f > created
  BY RefFacts
<1>3. RefInv(f)
  BY DEF SocketsInv, RefsInv
<1> QED
  BY <1>1, <1>2, <1>3 DEF RefInv

\* Every step keeps RefsInv: the count follows the table and the users.
LEMMA RefsStep ==
  ASSUME SocketsInv, NEW t \in Threads, NEW e \in Entries, StepShape(t, e)
  PROVE  RefsInv'
<1> SUFFICES ASSUME NEW f \in Entries PROVE RefInv(f)'
  BY DEF RefsInv
<1> USE DEF pageVars, tableVars, threadVars, dispatchVars
<1>0. /\ f # None /\ e # None /\ f \in Nat /\ e \in Nat /\ created \in Nat
      /\ sock \in [Entries -> SocketRecord]
  BY TypedFields DEF SocketsInv
<1>p. \A u \in Threads : pc[u] = "idle" <=> ptr[u] = None
  BY DEF SocketsInv, PtrInv
<1>1. CASE \E n \in Names : Creates(n, e)
  <2>1. PICK n \in Names : Creates(n, e)
    BY <1>1
  <2>2. /\ Users(f)' = Users(f) /\ Disposers(f)' = Disposers(f) /\ created' = created + 1
    BY <2>1 DEF Creates, Users, Disposers
  <2>3. \A m \in Names : table'[m] = IF m = n THEN e ELSE table[m]
    BY <2>1 DEF Creates, SocketsInv, Typed, TypeOK
  <2>4. CASE f # e
    <3>1. InTable(f)' <=> InTable(f)
      BY <1>0, <2>1, <2>3, <2>4 DEF InTable, Creates
    <3>2. sock'[f] = sock[f]
      BY <1>0, <2>1, <2>4 DEF Creates
    <3> QED
      BY <2>2, <3>1, <3>2, RefKept
  <2>5. CASE f = e
    <3>1. InTable(f)'
      BY <2>3, <2>5 DEF InTable
    <3>2. Users(f) = {} /\ Disposers(f) = {}
      BY <2>1, <2>5, RefFacts DEF Creates
    <3>3. sock'[f].refs = 1 /\ sock'[f].live
      BY <1>0, <2>1, <2>5, DisposedFields DEF Creates
    <3>4. Cardinality(Users(f)') = 0
      BY <2>2, <3>2, FS_EmptySet
    <3>5. ~(f > created')
      <4>1. e <= created + 1
        <5>1. CASE e = created + 1
          BY <1>0, <5>1
        <5>2. CASE created >= MAX_SOCKETS
          BY <1>0, <5>2, MessageAssumption DEF Entries
        <5> QED
          BY <2>1, <5>1, <5>2 DEF Creates
      <4> QED
        BY <1>0, <2>2, <2>5, <4>1
    <3> QED
      BY <2>2, <3>1, <3>2, <3>3, <3>4, <3>5 DEF RefInv
  <2> QED
    BY <2>4, <2>5
<1>2. CASE \E n \in Names : Deletes(t, n, e)
  <2>1. PICK n \in Names : Deletes(t, n, e)
    BY <1>2
  <2>2. Drops(t, e) /\ created' = created /\ ptr[t] = None
    BY <1>p, <2>1 DEF Deletes, Drops
  <2>3. \A m \in Names : table'[m] = IF m = n THEN None ELSE table[m]
    BY <2>1 DEF Deletes, SocketsInv, Typed, TypeOK
  <2>4. CASE f # e
    <3>1. InTable(f)' <=> InTable(f)
      BY <1>0, <2>1, <2>3, <2>4 DEF InTable, Deletes
    <3>2. sock'[f] = sock[f]
      BY <2>2, <2>4 DEF Drops, CountOnly, OthersKept
    <3>3. \A u \in Threads : (u \in Users(f)' <=> u \in Users(f)) /\ (u \in Disposers(f)' <=> u \in Disposers(f))
      BY <1>0, <2>2, <2>4 DEF Drops, ThreadGoes, Users, Disposers
    <3> QED
      BY <2>2, <3>1, <3>2, <3>3, RefKept
  <2>5. CASE f = e
    <3>1. InTable(f)
      BY <2>1, <2>5 DEF InTable, Deletes
    <3>2. ~InTable(f)'
      <4>1. \A m \in Names : table[m] = e => m = n
        BY <1>0, <2>1 DEF SocketsInv, TableInv, Deletes
      <4> QED
        BY <1>0, <2>3, <2>5, <4>1 DEF InTable
    <3>3. sock[f].live /\ Disposers(f) = {} /\ sock[f].refs = 1 + Cardinality(Users(f))
      BY <3>1, RefFacts
    <3>4. Users(f)' = Users(f)
      BY <1>0, <2>2, <2>5 DEF Drops, ThreadGoes, Users
    <3>5. sock'[f].live /\ sock'[f].refs = sock[f].refs - 1
      BY <2>2, <2>5, <3>3 DEF Drops, CountOnly
    <3>6. sock'[f].refs = 0 + Cardinality(Users(f))
      BY <3>3, <3>5, RefFacts
    <3>7. ~(f > created')
      BY <2>2, <3>3, RefFacts
    <3>8. CASE sock[e].refs > 1 /\ ThreadGoes(t, "idle", None)
      <4>1. Disposers(f)' = {}
        BY <1>0, <2>2, <2>5, <3>3, <3>8 DEF ThreadGoes, Disposers
      <4>2. Users(f) # {}
        BY <2>5, <3>3, <3>8, UsersFinite
      <4> QED
        BY <3>2, <3>4, <3>5, <3>6, <3>7, <4>1, <4>2 DEF RefInv
    <3>9. CASE sock[e].refs = 1 /\ ThreadGoes(t, "dispose", e)
      <4>1. Disposers(f)' = {t}
        <5>1. \A u \in Threads : u # t => u \notin Disposers(f)'
          BY <3>3, <3>9 DEF ThreadGoes, Disposers
        <5>2. t \in Disposers(f)'
          BY <2>5, <3>9 DEF ThreadGoes, Disposers
        <5> QED
          BY <5>1, <5>2 DEF Disposers
      <4>2. Users(f) = {}
        BY <2>5, <3>3, <3>9, UsersFinite
      <4> QED
        BY <3>2, <3>4, <3>5, <3>6, <3>7, <4>1, <4>2 DEF RefInv
    <3> QED
      BY <2>2, <3>8, <3>9 DEF Drops
  <2> QED
    BY <2>4, <2>5
<1>3. CASE Releases(t, e)
  <2>1. Drops(t, e) /\ created' = created /\ table' = table /\ ptr[t] = e /\ pc[t] = "release"
    BY <1>3 DEF Releases, Drops
  <2>2. InTable(f)' <=> InTable(f)
    BY <2>1 DEF InTable
  <2>4. CASE f # e
    <3>2. sock'[f] = sock[f]
      BY <2>1, <2>4 DEF Drops, CountOnly, OthersKept
    <3>3. \A u \in Threads : (u \in Users(f)' <=> u \in Users(f)) /\ (u \in Disposers(f)' <=> u \in Disposers(f))
      BY <1>0, <2>1, <2>4 DEF Drops, ThreadGoes, Users, Disposers
    <3> QED
      BY <2>1, <2>2, <3>2, <3>3, RefKept
  <2>5. CASE f = e
    <3>1. t \in Users(f)
      BY <2>1, <2>5 DEF Users
    <3>2. sock[f].live /\ Disposers(f) = {}
      BY <3>1, RefFacts
    <3>3. Users(f)' = Users(f) \ {t}
      BY <1>0, <2>1, <2>5 DEF Drops, ThreadGoes, Users
    <3>4. Cardinality(Users(f)') = Cardinality(Users(f)) - 1
      BY <3>1, <3>3, UsersFinite, FS_RemoveElement
    <3>5. sock'[f].live /\ sock'[f].refs = sock[f].refs - 1
      BY <2>1, <2>5, <3>2 DEF Drops, CountOnly
    <3>6. PICK c \in {0, 1}, a \in Nat : /\ c = (IF InTable(f) THEN 1 ELSE 0) /\ a = Cardinality(Users(f))
                                         /\ sock[f].refs = c + a
      BY <3>2, RefFacts
    <3>7. sock'[f].refs = (IF InTable(f) THEN 1 ELSE 0) + Cardinality(Users(f)')
      <4>1. sock'[f].refs = c + (a - 1)
        BY <3>5, <3>6
      <4> QED
        BY <3>4, <3>6, <4>1
    <3>8. ~(f > created')
      BY <2>1, <3>2, RefFacts
    <3>a. Users(f)' \in SUBSET Threads
      BY DEF Users
    <3>9. CASE sock[e].refs > 1 /\ ThreadGoes(t, "idle", None)
      <4>1. Disposers(f)' = {}
        BY <1>0, <3>2, <3>9 DEF ThreadGoes, Disposers
      <4>2. Users(f)' # {} \/ InTable(f)
        <5>1. c = 0 => a - 1 >= 1
          BY <2>5, <3>6, <3>9
        <5>2. c = 0 => Users(f)' # {}
          BY <3>4, <3>6, <3>a, <5>1, ThreadsFinite
        <5> QED
          BY <3>6, <5>2
      <4> QED
        BY <2>2, <3>5, <3>7, <3>8, <4>1, <4>2 DEF RefInv
    <3>10. CASE sock[e].refs = 1 /\ ThreadGoes(t, "dispose", e)
      <4>1. Disposers(f)' = {t}
        <5>1. \A u \in Threads : u # t => u \notin Disposers(f)'
          BY <3>2, <3>10 DEF ThreadGoes, Disposers
        <5>2. t \in Disposers(f)'
          BY <2>5, <3>10 DEF ThreadGoes, Disposers
        <5> QED
          BY <5>1, <5>2 DEF Disposers
      <4>2. a >= 1
        BY <3>1, <3>6, UsersFinite
      <4>3. c = 0 /\ a = 1
        BY <2>5, <3>6, <3>10, <4>2
      <4>4. Users(f)' = {} /\ ~InTable(f)
        <5>1. Cardinality(Users(f)') = 0
          BY <3>4, <3>6, <4>3
        <5> QED
          BY <3>6, <3>a, <4>3, <5>1, ThreadsFinite
      <4> QED
        BY <2>2, <3>5, <3>7, <3>8, <4>1, <4>4 DEF RefInv
    <3> QED
      BY <2>1, <3>9, <3>10 DEF Drops
  <2> QED
    BY <2>4, <2>5
<1>4. CASE Disposes(t, e)
  <2>1. created' = created /\ (InTable(f)' <=> InTable(f))
    BY <1>4 DEF Disposes, InTable
  <2>4. CASE f # e
    <3>2. sock'[f] = sock[f]
      BY <1>0, <1>4, <2>4 DEF Disposes
    <3>3. \A u \in Threads : (u \in Users(f)' <=> u \in Users(f)) /\ (u \in Disposers(f)' <=> u \in Disposers(f))
      BY <1>0, <1>4, <2>4 DEF Disposes, ThreadGoes, Users, Disposers
    <3> QED
      BY <2>1, <3>2, <3>3, RefKept
  <2>5. CASE f = e
    <3>1. t \in Disposers(f)
      BY <1>4, <2>5 DEF Disposers, Disposes
    <3>2. Users(f) = {} /\ ~InTable(f) /\ \A u \in Disposers(f) : u = t
      BY <3>1, RefFacts
    <3>3. ~sock'[f].live
      BY <1>0, <1>4, <2>5, DisposedFields DEF Disposes
    <3>4. Users(f)' = {} /\ Disposers(f)' = {}
      BY <1>0, <1>4, <3>2 DEF Users, Disposers, Disposes, ThreadGoes
    <3> QED
      BY <2>1, <3>2, <3>3, <3>4 DEF RefInv
  <2> QED
    BY <2>4, <2>5
<1>5. CASE Acquires(t, e)
  <2>1. created' = created /\ (InTable(f)' <=> InTable(f)) /\ ptr[t] = None /\ pc[t] = "idle"
    BY <1>p, <1>5 DEF Acquires, InTable
  <2>2. PICK label \in {"enqueue", "peek", "take"} : ThreadGoes(t, label, e)
    BY <1>5 DEF Acquires
  <2>4. CASE f # e
    <3>2. sock'[f] = sock[f]
      BY <1>5, <2>4 DEF Acquires, CountOnly, OthersKept
    <3>3. \A u \in Threads : (u \in Users(f)' <=> u \in Users(f)) /\ (u \in Disposers(f)' <=> u \in Disposers(f))
      BY <1>0, <2>1, <2>2, <2>4 DEF ThreadGoes, Users, Disposers
    <3> QED
      BY <2>1, <3>2, <3>3, RefKept
  <2>5. CASE f = e
    <3>1. InTable(f)
      BY <1>5, <2>5 DEF Acquires
    <3>2. sock[f].live /\ Disposers(f) = {} /\ sock[f].refs = 1 + Cardinality(Users(f))
      BY <3>1, RefFacts
    <3>3. Users(f)' = Users(f) \cup {t} /\ t \notin Users(f)
      BY <1>0, <2>1, <2>2, <2>5 DEF ThreadGoes, Users
    <3>4. Cardinality(Users(f)') = Cardinality(Users(f)) + 1
      BY <3>3, UsersFinite, FS_AddElement
    <3>5. sock'[f].live /\ sock'[f].refs = sock[f].refs + 1
      BY <1>5, <2>5, <3>2 DEF Acquires, CountOnly
    <3>6. sock'[f].refs = 1 + Cardinality(Users(f)')
      BY <3>2, <3>4, <3>5, RefFacts
    <3>7. Disposers(f)' = {}
      BY <1>0, <2>2, <3>2 DEF ThreadGoes, Disposers
    <3>8. ~(f > created')
      BY <2>1, <3>2, RefFacts
    <3> QED
      BY <2>1, <3>1, <3>5, <3>6, <3>7, <3>8 DEF RefInv
  <2> QED
    BY <2>4, <2>5
<1>6. ASSUME UNCHANGED <<table, freeEntries, created, ptr>>,
             \A u \in Threads : (pc'[u] = "idle" <=> pc[u] = "idle") /\ (pc'[u] = "dispose" <=> pc[u] = "dispose"),
             sock'[f].refs = sock[f].refs, sock'[f].live = sock[f].live
      PROVE  RefInv(f)'
  <2>1. InTable(f)' <=> InTable(f)
    BY <1>6 DEF InTable
  <2>2. \A u \in Threads : (u \in Users(f)' <=> u \in Users(f)) /\ (u \in Disposers(f)' <=> u \in Disposers(f))
    BY <1>6 DEF Users, Disposers
  <2> QED
    BY <1>6, <2>1, <2>2, RefKept
<1>7. CASE MovesOn(t)
  BY <1>6, <1>7 DEF MovesOn
<1>8. CASE \E g \in Pages, off \in 1 .. PageMessages : Posts(t, e, g, off)
  <2>1. PICK g \in Pages, off \in 1 .. PageMessages : Posts(t, e, g, off)
    BY <1>8
  <2>2. \A u \in Threads : (pc'[u] = "idle" <=> pc[u] = "idle") /\ (pc'[u] = "dispose" <=> pc[u] = "dispose")
    BY <2>1 DEF Posts
  <2>3. sock'[f].refs = sock[f].refs /\ sock'[f].live = sock[f].live
    BY <2>1 DEF Posts, OthersKept
  <2> QED
    BY <1>6, <2>1, <2>2, <2>3 DEF Posts
<1>9. CASE Takes(t, e)
  BY <1>6, <1>9 DEF Takes, OthersKept
<1>10. CASE Reclaims(t, e)
  BY <1>6, <1>10 DEF Reclaims, OthersKept
<1>11. CASE \E m \in Places : Calls(t, m)
  BY <1>6, <1>11 DEF Calls
<1> QED
  BY <1>1, <1>2, <1>3, <1>4, <1>5, <1>7, <1>8, <1>9, <1>10, <1>11 DEF StepShape

-----------------------------------------------------------------------------
(* Pages. *)

\* The page p is somewhere, as PagesInv says.
Placed(p) == \E k \in PagePlaces, e \in Entries, t \in Threads \cup {None} :
               PageAt(p, k, e, t) /\ (k = "unlinked" => t \in Threads)

\* A page that stays where it is.
PageStays(p) ==
  /\ p \in heap' <=> p \in heap
  /\ \A f \in Entries : /\ In(sock'[f].free, p) <=> In(sock[f].free, p)
                        /\ In(sock'[f].full, p) <=> In(sock[f].full, p)
                        /\ sock'[f].current = p <=> sock[f].current = p
  /\ \A u \in Threads : In(unlinked'[u], p) <=> In(unlinked[u], p)

\* A page that stays is in its place.
LEMMA PageKept ==
  ASSUME NEW p \in Pages, Placed(p), PageStays(p)
  PROVE  Placed(p)'
  BY DEF Placed, PageStays, PageAt

\* A page is in one place only.
LEMMA OnePlace ==
  ASSUME SocketsInv, NEW p \in Pages
  PROVE  /\ Placed(p)
         /\ p \in heap => /\ \A f \in Entries : /\ ~In(sock[f].free, p) /\ ~In(sock[f].full, p)
                                                /\ sock[f].current # p
                          /\ \A u \in Threads : ~In(unlinked[u], p)
         /\ \A e \in Entries : In(sock[e].free, p) =>
              /\ p \notin heap /\ \A u \in Threads : ~In(unlinked[u], p)
              /\ \A f \in Entries : /\ ~In(sock[f].full, p) /\ sock[f].current # p
                                    /\ In(sock[f].free, p) => f = e
         /\ \A e \in Entries : In(sock[e].full, p) =>
              /\ p \notin heap /\ \A u \in Threads : ~In(unlinked[u], p)
              /\ \A f \in Entries : /\ ~In(sock[f].free, p) /\ sock[f].current # p
                                    /\ In(sock[f].full, p) => f = e
         /\ \A e \in Entries : sock[e].current = p =>
              /\ p \notin heap /\ \A u \in Threads : ~In(unlinked[u], p)
              /\ \A f \in Entries : /\ ~In(sock[f].free, p) /\ ~In(sock[f].full, p)
                                    /\ sock[f].current = p => f = e
         /\ \A t \in Threads : In(unlinked[t], p) =>
              /\ p \notin heap /\ \A u \in Threads : In(unlinked[u], p) => u = t
              /\ \A f \in Entries : /\ ~In(sock[f].free, p) /\ ~In(sock[f].full, p)
                                    /\ sock[f].current # p
<1>1. Placed(p)
  BY DEF SocketsInv, PagesInv, Placed
<1>2. PICK k \in PagePlaces, e \in Entries, t \in Threads \cup {None} :
        PageAt(p, k, e, t) /\ (k = "unlinked" => t \in Threads)
  BY <1>1 DEF Placed
<1>3. CASE k = "heap"
  BY <1>1, <1>2, <1>3 DEF PageAt
<1>4. CASE k = "free"
  BY <1>1, <1>2, <1>4 DEF PageAt
<1>5. CASE k = "full"
  BY <1>1, <1>2, <1>5 DEF PageAt
<1>6. CASE k = "current"
  BY <1>1, <1>2, <1>6 DEF PageAt
<1>7. CASE k = "unlinked"
  BY <1>1, <1>2, <1>7 DEF PageAt
<1> QED
  BY <1>3, <1>4, <1>5, <1>6, <1>7 DEF PagePlaces

\* Every step keeps PagesInv: a page moves from one place to another.
LEMMA PagesStep ==
  ASSUME SocketsInv, NEW t \in Threads, NEW e \in Entries, StepShape(t, e)
  PROVE  PagesInv'
<1>d. /\ \A f \in Entries : NoDup(sock[f].free) /\ NoDup(sock[f].full)
      /\ \A u \in Threads : NoDup(unlinked[u])
  BY DEF SocketsInv, PagesInv
<1>t. /\ sock \in [Entries -> SocketRecord] /\ None \notin Pages
      /\ unlinked \in [Threads -> Seq(Pages)]
      /\ sock[e].free \in Seq(Pages) /\ sock[e].full \in Seq(Pages) /\ unlinked[t] \in Seq(Pages)
      /\ sock[e].current \in Pages \cup {None}
  BY TypedFields DEF SocketsInv, Typed, TypeOK
<1> SUFFICES /\ \A p \in Pages : Placed(p)'
             /\ \A f \in Entries : NoDup(sock'[f].free) /\ NoDup(sock'[f].full)
             /\ \A u \in Threads : NoDup(unlinked'[u])
  BY DEF PagesInv, Placed
<1>p. \A p \in Pages : Placed(p)
  BY OnePlace
<1>k. ASSUME \A p \in Pages : PageStays(p) PROVE \A p \in Pages : Placed(p)'
  BY <1>k, <1>p, PageKept
<1> USE DEF pageVars, tableVars, threadVars, dispatchVars
<1>1. CASE \E n \in Names : Creates(n, e)
  <2>1. PICK n \in Names : Creates(n, e)
    BY <1>1
  <2>2. /\ sock[e].queue = <<>> /\ sock[e].full = <<>>
        /\ sock[e].free = <<>> /\ sock[e].current = None
    BY <2>1 DEF SocketsInv, EmptyInv, Creates
  <2>3. \A f \in Entries : /\ sock'[f].free = sock[f].free /\ sock'[f].full = sock[f].full
                           /\ sock'[f].current = sock[f].current
    BY <1>t, <2>1, <2>2, DisposedFields DEF Creates
  <2>4. heap' = heap /\ unlinked' = unlinked
    BY <2>1 DEF Creates
  <2>5. \A p \in Pages : PageStays(p)
    BY <2>3, <2>4 DEF PageStays
  <2> QED
    BY <1>d, <1>k, <2>3, <2>4, <2>5
<1>2. CASE (\E n \in Names : Deletes(t, n, e)) \/ Releases(t, e) \/ Acquires(t, e)
  <2>1. CountOnly(e) /\ heap' = heap /\ unlinked' = unlinked
    BY <1>2 DEF Deletes, Releases, Acquires, Drops
  <2>3. \A f \in Entries : /\ sock'[f].free = sock[f].free /\ sock'[f].full = sock[f].full
                           /\ sock'[f].current = sock[f].current
    BY <2>1 DEF CountOnly, OthersKept
  <2>5. \A p \in Pages : PageStays(p)
    BY <2>1, <2>3 DEF PageStays
  <2> QED
    BY <1>d, <1>k, <2>1, <2>3, <2>5
<1>3. CASE MovesOn(t) \/ \E m \in Places : Calls(t, m)
  <2>1. sock' = sock /\ heap' = heap /\ unlinked' = unlinked
    BY <1>3 DEF MovesOn, Calls
  <2>5. \A p \in Pages : PageStays(p)
    BY <2>1 DEF PageStays
  <2> QED
    BY <1>d, <1>k, <2>1, <2>5
<1>4. CASE Disposes(t, e)
  <2>1. /\ sock'[e].full = <<>> /\ sock'[e].free = <<>> /\ sock'[e].current = None
        /\ \A f \in Entries : f # e => sock'[f] = sock[f]
    BY <1>t, <1>4, DisposedFields DEF Disposes
  <2>2. heap' = heap \cup PagesOf(sock[e]) /\ unlinked' = unlinked
    BY <1>4 DEF Disposes
  <2>3. \A p \in Pages : p \in PagesOf(sock[e]) <=>
          In(sock[e].free, p) \/ In(sock[e].full, p) \/ sock[e].current = p
    BY <1>t, InToSet DEF PagesOf
  <2>4. \A p \in Pages : Placed(p)'
    <3> SUFFICES ASSUME NEW p \in Pages PROVE Placed(p)'
      OBVIOUS
    <3>1. CASE p \in PagesOf(sock[e])
      <4>1. PageAt(p, "heap", e, t)'
        BY <2>1, <2>2, <2>3, <3>1, <1>t, OnePlace, InEmpty DEF PageAt
      <4> QED
        BY <4>1 DEF Placed, PagePlaces
    <3>2. CASE p \notin PagesOf(sock[e])
      <4>1. PageStays(p)
        BY <1>t, <2>1, <2>2, <2>3, <3>2, InEmpty DEF PageStays
      <4> QED
        BY <1>p, <4>1, PageKept
    <3> QED
      BY <3>1, <3>2
  <2> QED
    BY <1>d, <2>1, <2>2, <2>4, InEmpty
<1>5. CASE Takes(t, e)
  <2>1. /\ sock'[e].full = <<>> /\ sock'[e].free = sock[e].free /\ sock'[e].current = sock[e].current
        /\ \A f \in Entries : f # e => sock'[f] = sock[f]
        /\ heap' = heap
    BY <1>5 DEF Takes, OthersKept
  <2>2. unlinked'[t] = sock[e].full /\ \A u \in Threads : u # t => unlinked'[u] = unlinked[u]
    BY <1>t, <1>5 DEF Takes
  <2>3. unlinked[t] = <<>>
    BY <1>5 DEF SocketsInv, EmptyInv, Takes
  <2>4. \A p \in Pages : Placed(p)'
    <3> SUFFICES ASSUME NEW p \in Pages PROVE Placed(p)'
      OBVIOUS
    <3>1. CASE In(sock[e].full, p)
      <4>1. PageAt(p, "unlinked", e, t)'
        BY <2>1, <2>2, <3>1, OnePlace, InEmpty DEF PageAt
      <4> QED
        BY <4>1 DEF Placed, PagePlaces
    <3>2. CASE ~In(sock[e].full, p)
      <4>1. PageStays(p)
        BY <2>1, <2>2, <2>3, <3>2, InEmpty DEF PageStays
      <4> QED
        BY <1>p, <4>1, PageKept
    <3> QED
      BY <3>1, <3>2
  <2> QED
    BY <1>d, <2>1, <2>2, <2>4, InEmpty
<1>6. CASE Reclaims(t, e)
  <2>1. /\ sock'[e].full = sock[e].full /\ sock'[e].free = Reverse(unlinked[t]) \o sock[e].free
        /\ sock'[e].current = sock[e].current
        /\ \A f \in Entries : f # e => sock'[f] = sock[f]
        /\ heap' = heap
    BY <1>6 DEF Reclaims, OthersKept
  <2>2. unlinked'[t] = <<>> /\ \A u \in Threads : u # t => unlinked'[u] = unlinked[u]
    BY <1>t, <1>6 DEF Reclaims
  <2>3. PICK r : r = Reverse(unlinked[t])
    OBVIOUS
  <2>4. r \in Seq(Pages) /\ NoDup(r) /\ \A x : In(r, x) <=> In(unlinked[t], x)
    BY <1>d, <1>t, <2>3, InReverse
  <2>5. \A x : ~(In(r, x) /\ In(sock[e].free, x))
    <3> SUFFICES ASSUME NEW x, In(unlinked[t], x), In(sock[e].free, x) PROVE FALSE
      BY <2>4
    <3>1. x \in Pages
      BY <1>t, InType
    <3> QED
      BY <3>1, OnePlace
  <2>6. NoDup(sock'[e].free) /\ \A x : In(sock'[e].free, x) <=> In(unlinked[t], x) \/ In(sock[e].free, x)
    <3>1. sock'[e].free = r \o sock[e].free
      BY <2>1, <2>3
    <3> QED
      BY <1>d, <1>t, <2>4, <2>5, <3>1, InConcat
  <2>7. \A p \in Pages : Placed(p)'
    <3> SUFFICES ASSUME NEW p \in Pages PROVE Placed(p)'
      OBVIOUS
    <3>1. CASE In(unlinked[t], p)
      <4>0. /\ p \notin heap /\ (\A u \in Threads : In(unlinked[u], p) => u = t)
            /\ \A f \in Entries : /\ ~In(sock[f].free, p) /\ ~In(sock[f].full, p)
                                  /\ sock[f].current # p
        BY <3>1, OnePlace
      <4>1. PageAt(p, "free", e, t)'
        BY <2>1, <2>2, <2>6, <3>1, <4>0, InEmpty DEF PageAt
      <4> QED
        BY <4>1 DEF Placed, PagePlaces
    <3>2. CASE ~In(unlinked[t], p)
      <4>1. PageStays(p)
        BY <2>1, <2>2, <2>6, <3>2, InEmpty DEF PageStays
      <4> QED
        BY <1>p, <4>1, PageKept
    <3> QED
      BY <3>1, <3>2
  <2> QED
    BY <1>d, <2>1, <2>2, <2>6, <2>7, InEmpty
<1>7. CASE \E g \in Pages, off \in 1 .. PageMessages : Posts(t, e, g, off)
  <2>0. PICK g \in Pages, off \in 1 .. PageMessages : Posts(t, e, g, off)
    BY <1>7
  <2>1. /\ \A f \in Entries : f # e => sock'[f] = sock[f]
        /\ heap' = heap \ {g} /\ unlinked' = unlinked /\ sock'[e].current = g
    BY <2>0 DEF Posts, OthersKept
  <2>2. CASE /\ g = sock[e].current
             /\ sock'[e].full = sock[e].full /\ sock'[e].free = sock[e].free
    <3>1. g \notin heap
      BY <2>2, OnePlace
    <3>2. \A p \in Pages : PageStays(p)
      BY <2>1, <2>2, <3>1 DEF PageStays
    <3> QED
      BY <1>d, <1>k, <2>1, <2>2, <3>2
  <2>3. CASE /\ \/ sock[e].current = None /\ sock'[e].full = sock[e].full
                \/ /\ sock[e].current # None
                   /\ sock'[e].full = <<sock[e].current>> \o sock[e].full
             /\ \/ /\ sock[e].free # <<>> /\ g = Head(sock[e].free)
                   /\ sock'[e].free = Tail(sock[e].free)
                \/ sock[e].free = <<>> /\ g \in heap /\ sock'[e].free = <<>>
    <3>1. PICK c \in Pages \cup {None} : c = sock[e].current
      BY <1>t
    <3>2. /\ NoDup(sock'[e].full)
          /\ \A x \in Pages : In(sock'[e].full, x) <=> In(sock[e].full, x) \/ x = c
      <4>1. CASE c = None
        BY <1>d, <1>t, <2>3, <3>1, <4>1
      <4>2. CASE c # None
        <5>1. c \in Pages /\ ~In(sock[e].full, c) /\ sock'[e].full = <<c>> \o sock[e].full
          BY <2>3, <3>1, <4>2, OnePlace
        <5> QED
          BY <1>d, <1>t, <5>1, InCons
      <4> QED
        BY <4>1, <4>2
    <3>3. /\ NoDup(sock'[e].free) /\ (In(sock[e].free, g) \/ g \in heap)
          /\ \A x \in Pages : In(sock'[e].free, x) <=> In(sock[e].free, x) /\ x # g
      <4>1. CASE sock[e].free # <<>> /\ g = Head(sock[e].free) /\ sock'[e].free = Tail(sock[e].free)
        BY <1>d, <1>t, <4>1, InTail
      <4>2. CASE sock[e].free = <<>> /\ g \in heap /\ sock'[e].free = <<>>
        BY <4>2, InEmpty
      <4> QED
        BY <2>3, <4>1, <4>2
    <3>4. /\ g # c /\ ~In(sock[e].full, g) /\ \A f \in Entries : sock[f].current # g
          /\ \A f \in Entries : f # e => ~In(sock[f].full, g) /\ ~In(sock[f].free, g)
          /\ \A u \in Threads : ~In(unlinked[u], g)
      BY <3>1, <3>3, OnePlace
    <3>5. \A p \in Pages : Placed(p)'
      <4> SUFFICES ASSUME NEW p \in Pages PROVE Placed(p)'
        OBVIOUS
      <4>1. CASE p = g
        <5>1. PageAt(p, "current", e, t)'
          BY <2>1, <3>2, <3>3, <3>4, <4>1 DEF PageAt
        <5> QED
          BY <5>1 DEF Placed, PagePlaces
      <4>2. CASE p = c
        <5>1. /\ p # g /\ p \notin heap /\ (\A u \in Threads : ~In(unlinked[u], p))
              /\ \A f \in Entries : /\ ~In(sock[f].free, p) /\ ~In(sock[f].full, p)
                                    /\ sock[f].current = p => f = e
          BY <3>1, <3>4, <4>2, OnePlace
        <5>2. PageAt(p, "full", e, t)'
          BY <2>1, <3>2, <3>3, <4>2, <5>1 DEF PageAt
        <5> QED
          BY <5>2 DEF Placed, PagePlaces
      <4>3. CASE p # g /\ p # c
        <5>1. PageStays(p)
          BY <2>1, <3>1, <3>2, <3>3, <4>3 DEF PageStays
        <5> QED
          BY <1>p, <5>1, PageKept
      <4> QED
        BY <4>1, <4>2, <4>3
    <3> QED
      BY <1>d, <2>1, <3>2, <3>3, <3>5
  <2> QED
    BY <2>0, <2>2, <2>3 DEF Posts
<1> QED
  BY <1>1, <1>2, <1>3, <1>4, <1>5, <1>6, <1>7 DEF StepShape

-----------------------------------------------------------------------------
(* The theorems about sockets and pages. *)

\* The invariant about sockets holds at the start.
LEMMA InitSockets == Init => SocketsInv
<1> SUFFICES ASSUME Init PROVE SocketsInv
  OBVIOUS
<1>0. /\ table = [n \in Names |-> None] /\ freeEntries = <<>> /\ created = 0
      /\ sock = [e \in Entries |-> Disposed] /\ posted = 0 /\ heap = Pages
      /\ pc = [t \in Threads |-> "idle"] /\ ptr = [t \in Threads |-> None]
      /\ batch = [t \in Threads |-> <<>>] /\ unlinked = [t \in Threads |-> <<>>]
      /\ gone = [m \in Messages |-> 0]
      /\ mem = [p \in Pages |-> [k \in 1 .. PageMessages |-> None]]
  BY DEF Init
<1>1. \A e \in Entries : sock[e] = Disposed /\ e \in Nat /\ e # None
  BY <1>0 DEF Entries, None
<1>2. \A e : ~InTable(e) \/ e = None
  BY <1>0 DEF InTable
<1>3. \A e \in Entries : Users(e) = {} /\ Disposers(e) = {}
  BY <1>0 DEF Users, Disposers
<1>4. Typed
  <2>1. <<>> \in Seq(Places) /\ <<>> \in Seq(Pages) /\ <<>> \in Seq(Entries) /\ "idle" \in Labels
    BY DEF Labels
  <2>2. created \in 0 .. MaxCreations /\ posted \in 0 .. MaxPosts
    BY <1>0, MessageAssumption
  <2>3. sock \in [Entries -> SocketRecord]
    BY <1>0, DisposedFields
  <2>4. mem \in [Pages -> [1 .. PageMessages -> Messages \cup {None}]]
    BY <1>0
  <2> QED
    BY <1>0, <2>1, <2>2, <2>3, <2>4 DEF Typed, TypeOK, SocketRecord
<1>5. BudgetInv
  <2>1. Posting = {}
    BY <1>0 DEF Posting
  <2> QED
    BY <1>0, <2>1, FS_EmptySet, MessageAssumption DEF BudgetInv
<1>6. TableInv
  <2>1. \A n \in Names : table[n] <= created
    BY <1>0 DEF None
  <2>2. \A e \in Entries : ~(e <= created)
    BY <1>0, <1>1 DEF None
  <2> QED
    BY <1>0, <2>1, <2>2, InEmpty DEF TableInv
<1>7. PtrInv
  BY <1>0 DEF PtrInv
<1>8. RefsInv
  BY <1>1, <1>2, <1>3, DisposedFields DEF RefsInv, RefInv
<1>9. EmptyInv
  BY <1>0, <1>1, DisposedFields DEF EmptyInv
<1>10. PagesInv
  <2> SUFFICES ASSUME NEW p \in Pages PROVE Placed(p)
    BY <1>0, <1>1, DisposedFields, InEmpty DEF PagesInv, Placed
  <2>1. 1 \in Entries
    BY MessageAssumption DEF Entries
  <2>2. PageAt(p, "heap", 1, None)
    BY <1>0, <1>1, DisposedFields, InEmpty, MessageAssumption DEF PageAt
  <2> QED
    BY <2>1, <2>2 DEF Placed, PagePlaces
<1> QED
  BY <1>4, <1>5, <1>6, <1>7, <1>8, <1>9, <1>10 DEF SocketsInv

\* Every step that takes a free entry keeps the invariant about sockets.
LEMMA NextSockets == SocketsInv /\ [Next]_vars /\ [EntryIsFree]_vars => SocketsInv'
<1> SUFFICES ASSUME SocketsInv, [Next]_vars, [EntryIsFree]_vars PROVE SocketsInv'
  OBVIOUS
<1>1. CASE UNCHANGED vars
  <2> USE <1>1 DEF vars, pageVars, tableVars, threadVars, dispatchVars
  <2>1. Typed'
    BY DEF SocketsInv, Typed, TypeOK
  <2>2. BudgetInv'
    BY DEF SocketsInv, BudgetInv, Posting
  <2>3. TableInv' /\ PtrInv' /\ EmptyInv'
    BY DEF SocketsInv, TableInv, PtrInv, EmptyInv, InTable
  <2>4. RefsInv'
    BY DEF SocketsInv, RefsInv, RefInv, InTable, Users, Disposers
  <2>5. PagesInv'
    BY DEF SocketsInv, PagesInv, PageAt
  <2> QED
    BY <2>1, <2>2, <2>3, <2>4, <2>5 DEF SocketsInv
<1>2. CASE Next /\ EntryIsFree
  <2>1. PICK t \in Threads, e \in Entries : StepShape(t, e)
    BY <1>2, NextShape
  <2> QED
    BY <2>1, TypedStep, BudgetStep, TableStep, PtrStep, RefsStep, EmptyStep, PagesStep DEF SocketsInv
<1> QED
  BY <1>1, <1>2

\* As long as no entry is used twice, NewSocket gets one that was never used.
LEMMA FreshEntries ==
  ASSUME MaxCreations <= MAX_SOCKETS, SocketsInv
  PROVE  EntryIsFree
<1> SUFFICES ASSUME NEW t \in Threads, NEW n \in Names, NewSocket(t, n) PROVE ~sock[AllocateEntry].live
  BY DEF EntryIsFree
<1>1. created \in Nat /\ created < MaxCreations /\ MAX_SOCKETS \in Nat /\ MaxCreations \in Nat
  BY TypedFields, MessageAssumption DEF SocketsInv, NewSocket
<1>2. created < MAX_SOCKETS
  BY <1>1
<1>3. AllocateEntry = created + 1
  BY <1>2 DEF AllocateEntry
<1>4. created + 1 \in Entries /\ created + 1 > created
  BY <1>1, <1>2 DEF Entries
<1> QED
  BY <1>3, <1>4, RefFacts

\* What the invariant says about disposal.
LEMMA SocketsDisposed == SocketsInv => DisposedByTheLast
<1> SUFFICES ASSUME SocketsInv, NEW e \in Entries, sock[e].live, ~(Users(e) # {} \/ InTable(e))
             PROVE  Cardinality(Disposers(e)) = 1
  BY DEF SocketsInv, Typed, DisposedByTheLast, RefsInv, RefInv
<1>1. PICK t : t \in Disposers(e)
  BY RefFacts
<1>2. Disposers(e) = {t}
  BY <1>1, RefFacts
<1> QED
  BY <1>2, FS_Singleton

\* What the invariant says about the holders of a page.
LEMMA PagesHeld == SocketsInv => NoPageLost
<1> SUFFICES ASSUME SocketsInv, NEW p \in Pages PROVE Cardinality(Holders(p)) = 1
  BY DEF NoPageLost
<1> DEFINE A == {f \in Entries : sock[f].live /\ p \in PagesOf(sock[f])}
           B == {u \in Threads : p \in ToSet(unlinked[u])}
<1>1. PICK k \in PagePlaces, e \in Entries, t \in Threads \cup {None} :
        PageAt(p, k, e, t) /\ (k = "unlinked" => t \in Threads)
  BY DEF SocketsInv, PagesInv
<1>2. \A f \in Entries : f \in A <=> In(sock[f].free, p) \/ In(sock[f].full, p) \/ sock[f].current = p
  <2> SUFFICES ASSUME NEW f \in Entries
               PROVE  f \in A <=> In(sock[f].free, p) \/ In(sock[f].full, p) \/ sock[f].current = p
    OBVIOUS
  <2>1. sock[f].free \in Seq(Pages) /\ sock[f].full \in Seq(Pages) /\ p # None
    BY TypedFields DEF SocketsInv
  <2>2. p \in PagesOf(sock[f]) <=> In(sock[f].free, p) \/ In(sock[f].full, p) \/ sock[f].current = p
    BY <2>1, InToSet DEF PagesOf
  <2>3. ~sock[f].live => sock[f].free = <<>> /\ sock[f].full = <<>> /\ sock[f].current = None
    BY DEF SocketsInv, EmptyInv
  <2>4. ~sock[f].live => ~(In(sock[f].free, p) \/ In(sock[f].full, p) \/ sock[f].current = p)
    BY <2>1, <2>3, InEmpty
  <2> QED
    BY <2>2, <2>4
<1>3. \A u \in Threads : u \in B <=> In(unlinked[u], p)
  BY TypedFields, InToSet DEF SocketsInv
<1>4. A = (IF k \in {"free", "full", "current"} THEN {e} ELSE {})
  BY <1>1, <1>2 DEF PageAt
<1>5. B = (IF k = "unlinked" THEN {t} ELSE {})
  BY <1>1, <1>3 DEF PageAt
<1>6. p \in heap <=> k = "heap"
  BY <1>1 DEF PageAt
<1>7. Holders(p) = {<<"socket", f>> : f \in A} \cup {<<"dispatch", u>> : u \in B}
                   \cup (IF p \in heap THEN {<<"heap", p>>} ELSE {})
  BY DEF Holders
<1> HIDE DEF A, B
<1>8. \E x : Holders(p) = {x}
  <2>1. CASE k = "heap"
    <3>1. Holders(p) = {<<"heap", p>>}
      BY <1>4, <1>5, <1>6, <1>7, <2>1
    <3> QED
      BY <3>1
  <2>2. CASE k \in {"free", "full", "current"}
    <3>1. Holders(p) = {<<"socket", e>>}
      BY <1>4, <1>5, <1>6, <1>7, <2>2
    <3> QED
      BY <3>1
  <2>3. CASE k = "unlinked"
    <3>1. Holders(p) = {<<"dispatch", t>>}
      BY <1>4, <1>5, <1>6, <1>7, <2>3
    <3> QED
      BY <3>1
  <2> QED
    BY <2>1, <2>2, <2>3 DEF PagePlaces
<1> QED
  BY <1>8, FS_Singleton

\* The invariant about sockets holds of every behaviour in which NewSocket gets free
\* entries.
THEOREM SocketsInvariance == Spec /\ [][EntryIsFree]_vars => []SocketsInv
<1>1. Init => SocketsInv
  BY InitSockets
<1>2. SocketsInv /\ [Next]_vars /\ [EntryIsFree]_vars => SocketsInv'
  BY NextSockets
<1> QED
  BY <1>1, <1>2, PTL DEF Spec

\* A program that creates no more sockets than m_Sockets has entries never reuses one:
\* its sockets are disposed of by the last user, and it loses no page, without a
\* further hypothesis.
THEOREM SocketsOfFreshEntries ==
  ASSUME MaxCreations <= MAX_SOCKETS
  PROVE  Spec => [](DisposedByTheLast /\ NoPageLost)
<1>1. Init => SocketsInv
  BY InitSockets
<1>2. SocketsInv /\ [Next]_vars => SocketsInv'
  BY NextSockets, FreshEntries
<1>3. SocketsInv => DisposedByTheLast /\ NoPageLost
  BY SocketsDisposed, PagesHeld
<1> QED
  BY <1>1, <1>2, <1>3, PTL DEF Spec

\* A socket is disposed of by exactly one thread, once it is out of the table and no
\* thread uses it, whoever deletes it while others post or dispatch.
THEOREM LastUserDisposes == Spec /\ [][EntryIsFree]_vars => []DisposedByTheLast
<1>1. SocketsInv => DisposedByTheLast
  BY SocketsDisposed
<1> QED
  BY <1>1, SocketsInvariance, PTL

\* Every page is on the heap, in one socket or in one dispatch: none is lost and none
\* is in two lists.
THEOREM PagesAccounted == Spec /\ [][EntryIsFree]_vars => []NoPageLost
<1>1. SocketsInv => NoPageLost
  BY PagesHeld
<1> QED
  BY <1>1, SocketsInvariance, PTL

-----------------------------------------------------------------------------
(* The memory of messages. *)

\* A thread that holds messages is in its callbacks, on a live socket.
LEMMA BatchOwner ==
  ASSUME SocketsInv, NEW u \in Threads, NEW m, In(batch[u], m)
  PROVE  pc[u] = "callbacks" /\ ptr[u] \in Entries /\ sock[ptr[u]].live /\ u \in Users(ptr[u])
<1>1. pc[u] = "callbacks"
  BY InEmpty DEF SocketsInv, EmptyInv
<1>2. ptr[u] \in Entries
  BY <1>1, TypedFields DEF SocketsInv, PtrInv
<1>3. u \in Users(ptr[u])
  BY <1>1 DEF Users
<1>4. sock[ptr[u]].live
  BY <1>2, <1>3, RefFacts
<1> QED
  BY <1>1, <1>2, <1>3, <1>4

\* Messages that stay where they are, with their memory.
LEMMA MemoryKept ==
  ASSUME MemoryInv, mem' = mem,
         \A f \in Entries : \A m \in Places : In(sock'[f].queue, m) =>
           In(sock[f].queue, m) /\ (OnPage(m, sock[f]) => OnPage(m, sock'[f])),
         \A u \in Threads : \A m \in Places : In(batch'[u], m) =>
           /\ In(batch[u], m) /\ ptr'[u] = ptr[u] /\ unlinked'[u] = unlinked[u]
           /\ OnPage(m, sock[ptr[u]]) => OnPage(m, sock'[ptr[u]])
  PROVE  MemoryInv'
<1>1. ASSUME NEW f \in Entries, NEW m \in Places, In(sock'[f].queue, m)
      PROVE  OnPage(m, sock'[f]) /\ mem'[m.page][m.offset] = m.id
  BY <1>1 DEF MemoryInv
<1>2. ASSUME NEW u \in Threads, NEW m \in Places, In(batch'[u], m)
      PROVE  (OnPage(m, sock'[ptr'[u]]) \/ In(unlinked'[u], m.page)) /\ mem'[m.page][m.offset] = m.id
  BY <1>2 DEF MemoryInv
<1> QED
  BY <1>1, <1>2 DEF MemoryInv

\* Every step keeps MemoryInv: a page that is written holds no message that waits at
\* that place, and one that is unlinked belongs to this dispatch alone.
LEMMA MemoryStep ==
  ASSUME MessagesInv, OneDispatcher', NEW t \in Threads, NEW e \in Entries, StepShape(t, e)
  PROVE  MemoryInv'
<1> USE DEF pageVars, tableVars, threadVars, dispatchVars
<1>0. SocketsInv /\ MemoryInv
  BY DEF MessagesInv
<1>t. /\ sock \in [Entries -> SocketRecord] /\ batch \in [Threads -> Seq(Places)]
      /\ unlinked \in [Threads -> Seq(Pages)] /\ ptr \in [Threads -> Entries \cup {None}]
      /\ sock[e].queue \in Seq(Places) /\ sock[e].full \in Seq(Pages) /\ sock[e].free \in Seq(Pages)
      /\ sock[e].used \in Nat
      /\ mem \in [Pages -> [1 .. PageMessages -> Messages \cup {None}]]
  BY <1>0, TypedFields DEF SocketsInv, Typed, TypeOK
<1>1. CASE \E n \in Names : Creates(n, e)
  <2>1. /\ \A f \in Entries : f # e => sock'[f] = sock[f]
        /\ ~sock[e].live /\ sock'[e].queue = <<>>
        /\ mem' = mem /\ batch' = batch /\ ptr' = ptr /\ unlinked' = unlinked
    BY <1>t, <1>1, DisposedFields DEF Creates
  <2>2. \A u \in Threads : \A m \in Places : In(batch[u], m) => ptr[u] \in Entries /\ ptr[u] # e
    BY <1>0, <2>1, BatchOwner
  <2> QED
    BY <1>0, <2>1, <2>2, MemoryKept, InEmpty
<1>2. CASE (\E n \in Names : Deletes(t, n, e)) \/ Releases(t, e) \/ Acquires(t, e)
  <2>1. /\ CountOnly(e) /\ mem' = mem /\ batch' = batch /\ unlinked' = unlinked
        /\ \A u \in Threads : u # t => ptr'[u] = ptr[u]
        /\ pc[t] # "callbacks"
    BY <1>2 DEF Deletes, Releases, Acquires, Drops, ThreadGoes
  <2>2. \A f \in Entries : sock'[f].queue = sock[f].queue /\ \A m : OnPage(m, sock[f]) => OnPage(m, sock'[f])
    BY <2>1 DEF CountOnly, OthersKept, OnPage
  <2>3. \A u \in Threads : \A m \in Places : In(batch[u], m) => ptr[u] \in Entries /\ u # t
    BY <1>0, <2>1, BatchOwner
  <2> QED
    BY <1>0, <2>1, <2>2, <2>3, MemoryKept
<1>3. CASE MovesOn(t)
  <2>1. sock' = sock /\ mem' = mem /\ batch' = batch /\ unlinked' = unlinked /\ ptr' = ptr
    BY <1>3 DEF MovesOn
  <2> QED
    BY <1>0, <2>1, MemoryKept
<1>4. CASE \E m \in Places : Calls(t, m)
  <2>1. /\ sock' = sock /\ mem' = mem /\ unlinked' = unlinked /\ ptr' = ptr
        /\ batch' = [batch EXCEPT ![t] = Tail(batch[t])] /\ batch[t] # <<>>
    BY <1>4 DEF Calls
  <2>2. \A m : In(Tail(batch[t]), m) => In(batch[t], m)
    <3>0. PICK s \in Seq(Places) : s = batch[t]
      BY <1>t
    <3>1. PICK n \in Nat : n = Len(s)
      OBVIOUS
    <3>2. /\ Len(Tail(s)) = n - 1 /\ \A k \in 1 .. n - 1 : Tail(s)[k] = s[k + 1] /\ k + 1 \in 1 .. n
      BY <2>1, <3>0, <3>1
    <3> QED
      BY <3>0, <3>1, <3>2 DEF In
  <2>3. \A u \in Threads : batch'[u] = IF u = t THEN Tail(batch[t]) ELSE batch[u]
    BY <1>t, <2>1
  <2> QED
    BY <1>0, <2>1, <2>2, <2>3, MemoryKept
<1>5. CASE Disposes(t, e)
  <2>1. /\ \A f \in Entries : f # e => sock'[f] = sock[f]
        /\ sock'[e].queue = <<>> /\ mem' = mem /\ batch' = batch /\ unlinked' = unlinked
        /\ \A u \in Threads : u # t => ptr'[u] = ptr[u]
        /\ pc[t] = "dispose" /\ ptr[t] = e
    BY <1>t, <1>5, DisposedFields DEF Disposes, ThreadGoes
  <2>2. t \in Disposers(e)
    BY <2>1 DEF Disposers
  <2>3. \A u \in Threads : \A m \in Places : In(batch[u], m) => ptr[u] \in Entries /\ ptr[u] # e /\ u # t
    BY <1>0, <2>1, <2>2, BatchOwner, RefFacts
  <2> QED
    BY <1>0, <2>1, <2>3, MemoryKept, InEmpty
<1>6. CASE Reclaims(t, e)
  <2>1. /\ \A f \in Entries : sock'[f].queue = sock[f].queue /\ \A m : OnPage(m, sock[f]) => OnPage(m, sock'[f])
    BY <1>6 DEF Reclaims, OthersKept, OnPage
  <2>2. /\ mem' = mem /\ batch' = batch /\ ptr' = ptr /\ batch[t] = <<>>
        /\ \A u \in Threads : u # t => unlinked'[u] = unlinked[u]
    BY <1>t, <1>6 DEF Reclaims
  <2>3. \A u \in Threads : \A m \in Places : In(batch[u], m) => ptr[u] \in Entries /\ u # t
    BY <1>0, <2>2, BatchOwner, InEmpty
  <2> QED
    BY <1>0, <2>1, <2>2, <2>3, MemoryKept
<1>7. CASE Takes(t, e)
  <2>1. /\ \A f \in Entries : f # e => sock'[f] = sock[f]
        /\ sock'[e].queue = <<>> /\ sock'[e].current = sock[e].current /\ sock'[e].used = sock[e].used
        /\ mem' = mem /\ ptr' = ptr /\ ptr[t] = e
    BY <1>7 DEF Takes, OthersKept
  <2>2. /\ batch'[t] = sock[e].queue /\ unlinked'[t] = sock[e].full
        /\ \A u \in Threads : u # t => batch'[u] = batch[u] /\ unlinked'[u] = unlinked[u]
    BY <1>t, <1>7 DEF Takes
  <2>3. \A u \in Threads : \A m \in Places : In(batch[u], m) /\ u # t => ptr[u] \in Entries /\ ptr[u] # e
    <3> SUFFICES ASSUME NEW u \in Threads, NEW m, In(batch[u], m), u # t PROVE ptr[u] \in Entries /\ ptr[u] # e
      OBVIOUS
    <3>1. ptr[u] \in Entries /\ pc[u] = "callbacks"
      BY <1>0, BatchOwner
    <3>2. pc'[u] = "callbacks" /\ pc'[t] = "callbacks"
      BY <1>7, <3>1 DEF Takes
    <3> QED
      BY <2>1, <3>1, <3>2 DEF OneDispatcher
  <2>4. ASSUME NEW f \in Entries, NEW m \in Places, In(sock'[f].queue, m)
        PROVE  OnPage(m, sock'[f]) /\ mem'[m.page][m.offset] = m.id
    <3>1. f # e
      BY <2>1, <2>4, InEmpty
    <3> QED
      BY <1>0, <2>1, <2>4, <3>1 DEF MemoryInv
  <2>5. ASSUME NEW u \in Threads, NEW m \in Places, In(batch'[u], m)
        PROVE  (OnPage(m, sock'[ptr'[u]]) \/ In(unlinked'[u], m.page)) /\ mem'[m.page][m.offset] = m.id
    <3>1. CASE u = t
      <4>1. OnPage(m, sock[e]) /\ mem[m.page][m.offset] = m.id
        BY <1>0, <2>2, <2>5, <3>1 DEF MemoryInv
      <4> QED
        BY <2>1, <2>2, <3>1, <4>1 DEF OnPage
    <3>2. CASE u # t
      BY <1>0, <2>1, <2>2, <2>3, <2>5, <3>2 DEF MemoryInv
    <3> QED
      BY <3>1, <3>2
  <2> QED
    BY <2>4, <2>5 DEF MemoryInv
<1>8. CASE \E g \in Pages, off \in 1 .. PageMessages : Posts(t, e, g, off)
  <2>0. PICK g \in Pages, off \in 1 .. PageMessages : Posts(t, e, g, off)
    BY <1>8
  <2>1. /\ \A f \in Entries : f # e => sock'[f] = sock[f]
        /\ sock'[e].current = g /\ sock'[e].used = off
        /\ sock'[e].queue = Append(sock[e].queue, At(g, off, posted + 1))
        /\ mem' = [mem EXCEPT ![g] = [mem[g] EXCEPT ![off] = posted + 1]]
        /\ batch' = batch /\ unlinked' = unlinked /\ ptr' = ptr
    BY <2>0 DEF Posts, OthersKept
  <2>w. mem'[g][off] = posted + 1
    BY <1>t, <2>1
  <2>k. \A m \in Places : ~(m.page = g /\ m.offset = off) => mem'[m.page][m.offset] = mem[m.page][m.offset]
    BY <1>t, <2>1 DEF Places
  <2>2. /\ \A m \in Places : OnPage(m, sock[e]) => OnPage(m, sock'[e])
        /\ \A m \in Places, f \in Entries : OnPage(m, sock[f]) => ~(m.page = g /\ m.offset = off)
        /\ \A u \in Threads : ~In(unlinked[u], g)
    <3>1. CASE /\ g = sock[e].current /\ off = sock[e].used + 1
               /\ sock'[e].full = sock[e].full
      <4>1. \A m \in Places : m.offset \in Nat
        BY MessageAssumption DEF Places
      <4>2. \A m \in Places : OnPage(m, sock[e]) => OnPage(m, sock'[e])
        BY <1>t, <2>1, <3>1, <4>1 DEF OnPage
      <4>3. /\ \A u \in Threads : ~In(unlinked[u], g)
            /\ \A f \in Entries : ~In(sock[f].full, g) /\ (sock[f].current = g => f = e)
        BY <1>0, <3>1, OnePlace
      <4>4. \A m \in Places, f \in Entries : OnPage(m, sock[f]) => ~(m.page = g /\ m.offset = off)
        BY <1>t, <3>1, <4>1, <4>3 DEF OnPage
      <4> QED
        BY <4>2, <4>3, <4>4
    <3>2. CASE /\ \/ sock[e].current = None /\ sock'[e].full = sock[e].full
                  \/ /\ sock[e].current # None
                     /\ sock'[e].full = <<sock[e].current>> \o sock[e].full
               /\ \/ sock[e].free # <<>> /\ g = Head(sock[e].free)
                  \/ g \in heap
      <4>1. g \in heap \/ In(sock[e].free, g)
        BY <1>t, <3>2, InTail
      <4>2. /\ \A u \in Threads : ~In(unlinked[u], g)
            /\ \A f \in Entries : ~In(sock[f].full, g) /\ sock[f].current # g
        BY <1>0, <4>1, OnePlace
      <4>3. \A x \in Pages : In(sock[e].full, x) \/ x = sock[e].current => In(sock'[e].full, x)
        <5>1. sock[e].current \in Pages \cup {None} /\ None \notin Pages
          BY <1>0, TypedFields DEF SocketsInv
        <5>2. CASE sock[e].current = None
          BY <3>2, <5>1, <5>2
        <5>3. CASE sock[e].current # None
          <6>1. sock[e].current \in Pages /\ sock'[e].full = <<sock[e].current>> \o sock[e].full
            BY <3>2, <5>1, <5>3
          <6> QED
            BY <1>t, <6>1, InCons
        <5> QED
          BY <5>2, <5>3
      <4>4. \A m \in Places : OnPage(m, sock[e]) => OnPage(m, sock'[e])
        BY <4>3 DEF OnPage, Places
      <4> QED
        BY <4>2, <4>4 DEF OnPage
    <3> QED
      BY <2>0, <3>1, <3>2 DEF Posts
  <2>3. ASSUME NEW f \in Entries, NEW m \in Places, In(sock[f].queue, m)
        PROVE  OnPage(m, sock'[f]) /\ mem'[m.page][m.offset] = m.id
    BY <1>0, <2>1, <2>2, <2>3, <2>k DEF MemoryInv
  <2>4. ASSUME NEW f \in Entries, NEW m \in Places, In(sock'[f].queue, m)
        PROVE  OnPage(m, sock'[f]) /\ mem'[m.page][m.offset] = m.id
    <3>1. CASE In(sock[f].queue, m)
      BY <2>3, <3>1
    <3>2. CASE ~In(sock[f].queue, m)
      <4>1. f = e
        BY <2>1, <2>4, <3>2
      <4>2. m = At(g, off, posted + 1)
        <5>1. PICK s, x : s = sock[e].queue /\ x = At(g, off, posted + 1) /\ s \in Seq(Places)
          BY <1>t
        <5>2. sock'[e].queue = Append(s, x)
          BY <2>1, <5>1
        <5>3. PICK k \in 1 .. Len(Append(s, x)) : Append(s, x)[k] = m
          BY <2>4, <4>1, <5>2 DEF In
        <5>4. k \in 1 .. Len(s) \/ k = Len(s) + 1
          BY <5>1, <5>3
        <5>5. k \notin 1 .. Len(s)
          BY <3>2, <4>1, <5>1, <5>3 DEF In
        <5> QED
          BY <5>1, <5>3, <5>4, <5>5
      <4>3. m.page = g /\ m.offset = off /\ m.id = posted + 1
        BY <4>2 DEF At
      <4>4. off <= off
        BY MessageAssumption
      <4> QED
        BY <2>1, <2>w, <4>1, <4>3, <4>4 DEF OnPage
    <3> QED
      BY <3>1, <3>2
  <2>5. ASSUME NEW u \in Threads, NEW m \in Places, In(batch'[u], m)
        PROVE  (OnPage(m, sock'[ptr'[u]]) \/ In(unlinked'[u], m.page)) /\ mem'[m.page][m.offset] = m.id
    <3>1. In(batch[u], m) /\ ptr[u] \in Entries
      BY <1>0, <2>1, <2>5, BatchOwner
    <3>2. (OnPage(m, sock[ptr[u]]) \/ In(unlinked[u], m.page)) /\ mem[m.page][m.offset] = m.id
      BY <1>0, <3>1 DEF MemoryInv
    <3>3. ~(m.page = g /\ m.offset = off)
      BY <2>2, <3>1, <3>2
    <3>4. OnPage(m, sock[ptr[u]]) => OnPage(m, sock'[ptr[u]])
      BY <2>1, <2>2, <3>1
    <3> QED
      BY <2>1, <2>k, <3>2, <3>3, <3>4
  <2> QED
    BY <2>4, <2>5 DEF MemoryInv
<1> QED
  BY <1>1, <1>2, <1>3, <1>4, <1>5, <1>6, <1>7, <1>8 DEF StepShape

-----------------------------------------------------------------------------
(* Every message once. *)

\* The number of places in a queue that hold one message.
LEMMA IdCount ==
  ASSUME NEW S, NEW q \in Seq(S), DistinctIds(q), NEW m
  PROVE  Cardinality({k \in DOMAIN q : q[k].id = m}) = (IF HasId(q, m) THEN 1 ELSE 0)
<1>0. DOMAIN q = 1 .. Len(q)
  OBVIOUS
<1>1. CASE HasId(q, m)
  <2>1. PICK k \in 1 .. Len(q) : q[k].id = m
    BY <1>1 DEF HasId
  <2>2. {l \in DOMAIN q : q[l].id = m} = {k}
    BY <1>0, <2>1 DEF DistinctIds
  <2> QED
    BY <1>1, <2>2, FS_Singleton
<1>2. CASE ~HasId(q, m)
  <2>1. {l \in DOMAIN q : q[l].id = m} = {}
    BY <1>0, <1>2 DEF HasId
  <2> QED
    BY <1>2, <2>1, FS_EmptySet
<1> QED
  BY <1>1, <1>2

\* Message m is where OnceInv says.
Accounted(m) ==
  /\ m <= posted => \E k \in MessagePlaces, e \in Entries, t \in Threads : MessageAt(m, k, e, t)
  /\ m > posted => /\ \A f \in Entries : ~HasId(sock[f].queue, m)
                   /\ \A u \in Threads : ~HasId(batch[u], m)
                   /\ gone[m] = 0

\* A message that stays in its place.
LEMMA MessageKept ==
  ASSUME NEW m \in Messages, Accounted(m), posted \in Nat, posted' = posted,
         \A f \in Entries : HasId(sock'[f].queue, m) <=> HasId(sock[f].queue, m),
         \A u \in Threads : HasId(batch'[u], m) <=> HasId(batch[u], m),
         gone'[m] = gone[m]
  PROVE  Accounted(m)'
<1>1. CASE m <= posted
  <2>1. PICK k \in MessagePlaces, e \in Entries, t \in Threads : MessageAt(m, k, e, t)
    BY <1>1 DEF Accounted
  <2>2. MessageAt(m, k, e, t)'
    BY <2>1 DEF MessageAt
  <2>3. ~(m > posted)
    BY <1>1, MessageAssumption DEF Messages
  <2> QED
    BY <2>2, <2>3 DEF Accounted
<1>2. CASE ~(m <= posted)
  BY <1>2 DEF Accounted
<1> QED
  BY <1>1, <1>2

\* A message that moves to place k.
LEMMA MessageMoved ==
  ASSUME NEW m \in Messages, NEW k \in MessagePlaces, NEW e \in Entries, NEW t \in Threads,
         posted' \in Nat, m <= posted',
         \A f \in Entries : HasId(sock'[f].queue, m) <=> (k = "queue" /\ f = e),
         \A u \in Threads : HasId(batch'[u], m) <=> (k = "batch" /\ u = t),
         gone'[m] = IF k = "gone" THEN 1 ELSE 0
  PROVE  Accounted(m)'
<1>1. MessageAt(m, k, e, t)'
  BY DEF MessageAt
<1>2. ~(m > posted')
  BY MessageAssumption DEF Messages
<1> QED
  BY <1>1, <1>2 DEF Accounted

\* A message that is in a queue or a batch is nowhere else.
LEMMA OneHolder ==
  ASSUME MessagesInv, NEW m \in Messages
  PROVE  /\ Accounted(m)
         /\ \A e \in Entries : HasId(sock[e].queue, m) =>
              /\ m <= posted /\ gone[m] = 0 /\ \A u \in Threads : ~HasId(batch[u], m)
              /\ \A f \in Entries : HasId(sock[f].queue, m) => f = e
         /\ \A t \in Threads : HasId(batch[t], m) =>
              /\ m <= posted /\ gone[m] = 0 /\ \A f \in Entries : ~HasId(sock[f].queue, m)
              /\ \A u \in Threads : HasId(batch[u], m) => u = t
<1>1. Accounted(m)
  BY DEF MessagesInv, OnceInv, Accounted
<1>2. CASE m <= posted
  <2>1. PICK k \in MessagePlaces, e \in Entries, t \in Threads : MessageAt(m, k, e, t)
    BY <1>1, <1>2 DEF Accounted
  <2> QED
    BY <1>1, <1>2, <2>1 DEF MessageAt
<1>3. CASE m > posted
  BY <1>1, <1>3 DEF Accounted
<1>4. m \in Nat /\ posted \in Nat
  BY TypedFields, MessageAssumption DEF MessagesInv, SocketsInv, Messages
<1> QED
  BY <1>2, <1>3, <1>4

\* Every step keeps OnceInv: a message moves from one place to the next.
LEMMA OnceStep ==
  ASSUME MessagesInv, NEW t \in Threads, NEW e \in Entries, StepShape(t, e)
  PROVE  OnceInv'
<1> USE DEF pageVars, tableVars, threadVars, dispatchVars
<1>0. SocketsInv /\ MemoryInv /\ OnceInv
  BY DEF MessagesInv
<1>t. /\ sock \in [Entries -> SocketRecord] /\ batch \in [Threads -> Seq(Places)]
      /\ sock[e].queue \in Seq(Places) /\ batch[t] \in Seq(Places) /\ posted \in Nat
      /\ gone \in [Messages -> Nat]
  BY <1>0, TypedFields DEF SocketsInv, Typed, TypeOK
<1>d. /\ \A f \in Entries : DistinctIds(sock[f].queue)
      /\ \A u \in Threads : DistinctIds(batch[u])
  BY <1>0 DEF OnceInv
<1>a. \A m \in Messages : Accounted(m)
  BY OneHolder
<1> SUFFICES /\ \A m \in Messages : Accounted(m)'
             /\ \A f \in Entries : DistinctIds(sock'[f].queue)
             /\ \A u \in Threads : DistinctIds(batch'[u])
  BY DEF OnceInv, Accounted
<1>k. ASSUME posted' = posted, gone' = gone, batch' = batch,
             \A f \in Entries : sock'[f].queue = sock[f].queue
      PROVE  /\ \A m \in Messages : Accounted(m)'
             /\ \A f \in Entries : DistinctIds(sock'[f].queue)
             /\ \A u \in Threads : DistinctIds(batch'[u])
  BY <1>a, <1>d, <1>k, <1>t, MessageKept
<1>1. CASE \E n \in Names : Creates(n, e)
  <2>1. posted' = posted /\ gone' = gone /\ batch' = batch /\ ~sock[e].live
    BY <1>1 DEF Creates
  <2>2. sock[e].queue = <<>>
    BY <1>0, <2>1 DEF SocketsInv, EmptyInv
  <2>3. \A f \in Entries : sock'[f].queue = sock[f].queue
    BY <1>t, <1>1, <2>2, DisposedFields DEF Creates
  <2> QED
    BY <1>k, <2>1, <2>3
<1>2. CASE (\E n \in Names : Deletes(t, n, e)) \/ Releases(t, e) \/ Acquires(t, e)
  <2>1. CountOnly(e) /\ posted' = posted /\ gone' = gone /\ batch' = batch
    BY <1>2 DEF Deletes, Releases, Acquires, Drops
  <2>3. \A f \in Entries : sock'[f].queue = sock[f].queue
    BY <2>1 DEF CountOnly, OthersKept
  <2> QED
    BY <1>k, <2>1, <2>3
<1>3. CASE MovesOn(t)
  BY <1>k, <1>3 DEF MovesOn
<1>4. CASE Reclaims(t, e)
  <2>3. \A f \in Entries : sock'[f].queue = sock[f].queue
    BY <1>4 DEF Reclaims, OthersKept
  <2> QED
    BY <1>k, <1>4, <2>3 DEF Reclaims
<1>5. CASE \E m \in Places : Calls(t, m)
  <2>1. PICK h \in Places : Calls(t, h)
    BY <1>5
  <2>2. /\ sock' = sock /\ posted' = posted /\ batch[t] # <<>> /\ h = Head(batch[t])
        /\ batch'[t] = Tail(batch[t]) /\ \A u \in Threads : u # t => batch'[u] = batch[u]
        /\ gone' = [gone EXCEPT ![mem[h.page][h.offset]] = @ + 1]
    BY <1>t, <2>1 DEF Calls
  <2>3. In(batch[t], h)
    BY <1>t, <2>2, InTail
  <2>4. mem[h.page][h.offset] = h.id /\ h.id \in Messages
    BY <1>0, <2>3 DEF MemoryInv, Places
  <2>5. gone'[h.id] = gone[h.id] + 1 /\ \A m \in Messages : m # h.id => gone'[m] = gone[m]
    <3>1. PICK x \in Messages : x = h.id
      BY <2>4
    <3>2. gone' = [gone EXCEPT ![x] = gone[x] + 1]
      BY <2>2, <2>4, <3>1
    <3> QED
      BY <1>t, <3>1, <3>2
  <2>6. /\ HasId(batch[t], h.id) /\ DistinctIds(batch'[t])
        /\ \A m : HasId(batch'[t], m) <=> HasId(batch[t], m) /\ m # h.id
    BY <1>d, <1>t, <2>2, IdsTail
  <2>7. ASSUME NEW m \in Messages PROVE Accounted(m)'
    <3>1. CASE m = h.id
      <4>1. m <= posted /\ gone'[m] = 1
        BY <1>t, <2>5, <2>6, <3>1, OneHolder
      <4>2. \A f \in Entries : ~HasId(sock'[f].queue, m)
        BY <2>2, <2>6, <3>1, OneHolder
      <4>3. \A u \in Threads : ~HasId(batch'[u], m)
        BY <2>2, <2>6, <3>1, OneHolder
      <4>4. posted' \in Nat /\ m <= posted'
        BY <1>t, <2>2, <4>1
      <4>5. "gone" \in MessagePlaces
        BY SMTT(60) DEF MessagePlaces
      <4> QED
        BY <4>1, <4>2, <4>3, <4>4, <4>5, MessageMoved
    <3>2. CASE m # h.id
      BY <1>a, <1>t, <2>2, <2>5, <2>6, <3>2, MessageKept
    <3> QED
      BY <3>1, <3>2
  <2> QED
    BY <1>d, <2>2, <2>6, <2>7
<1>6. CASE Disposes(t, e)
  <2>1. /\ \A f \in Entries : f # e => sock'[f] = sock[f]
        /\ sock'[e].queue = <<>> /\ posted' = posted /\ batch' = batch
        /\ gone' = [m \in Messages |-> gone[m] + Cardinality({k \in DOMAIN sock[e].queue : sock[e].queue[k].id = m})]
    BY <1>t, <1>6, DisposedFields DEF Disposes
  <2>2. ASSUME NEW m \in Messages PROVE gone'[m] = gone[m] + IF HasId(sock[e].queue, m) THEN 1 ELSE 0
    <3>1. Cardinality({k \in DOMAIN sock[e].queue : sock[e].queue[k].id = m}) = IF HasId(sock[e].queue, m) THEN 1 ELSE 0
      BY <1>d, <1>t, IdCount
    <3>2. gone'[m] = gone[m] + Cardinality({k \in DOMAIN sock[e].queue : sock[e].queue[k].id = m})
      BY <2>1
    <3> QED
      BY <3>1, <3>2
  <2>3. ASSUME NEW m \in Messages PROVE Accounted(m)'
    <3>1. CASE HasId(sock[e].queue, m)
      <4>1. /\ m <= posted /\ gone[m] = 0 /\ (\A u \in Threads : ~HasId(batch[u], m))
            /\ \A f \in Entries : HasId(sock[f].queue, m) => f = e
        BY <3>1, OneHolder
      <4>2. gone'[m] = 1
        BY <2>2, <3>1, <4>1
      <4>3. \A f \in Entries : ~HasId(sock'[f].queue, m)
        BY <2>1, <4>1, InEmpty
      <4>4. posted' \in Nat /\ m <= posted' /\ "gone" \in MessagePlaces
        BY <1>t, <2>1, <4>1 DEF MessagePlaces
      <4> QED
        BY <2>1, <4>1, <4>2, <4>3, <4>4, MessageMoved
    <3>2. CASE ~HasId(sock[e].queue, m)
      <4>1. gone'[m] = gone[m]
        BY <1>t, <2>2, <3>2
      <4>2. \A f \in Entries : HasId(sock'[f].queue, m) <=> HasId(sock[f].queue, m)
        BY <2>1, <3>2, InEmpty
      <4> QED
        BY <1>a, <1>t, <2>1, <4>1, <4>2, MessageKept
    <3> QED
      BY <3>1, <3>2
  <2> QED
    BY <1>d, <2>1, <2>3, InEmpty
<1>7. CASE Takes(t, e)
  <2>1. /\ \A f \in Entries : f # e => sock'[f] = sock[f]
        /\ sock'[e].queue = <<>> /\ posted' = posted /\ gone' = gone
    BY <1>7 DEF Takes, OthersKept
  <2>2. /\ batch'[t] = sock[e].queue /\ \A u \in Threads : u # t => batch'[u] = batch[u]
    BY <1>t, <1>7 DEF Takes
  <2>3. batch[t] = <<>>
    BY <1>0, <1>7 DEF SocketsInv, EmptyInv, Takes
  <2>4. ASSUME NEW m \in Messages PROVE Accounted(m)'
    <3>1. CASE HasId(sock[e].queue, m)
      <4>1. /\ m <= posted /\ gone[m] = 0 /\ (\A u \in Threads : ~HasId(batch[u], m))
            /\ \A f \in Entries : HasId(sock[f].queue, m) => f = e
        BY <3>1, OneHolder
      <4>2. gone'[m] = 0
        BY <2>1, <4>1
      <4>3. \A f \in Entries : ~HasId(sock'[f].queue, m)
        BY <2>1, <4>1, InEmpty
      <4>4. \A u \in Threads : HasId(batch'[u], m) <=> u = t
        BY <2>2, <3>1, <4>1
      <4>5. posted' \in Nat /\ m <= posted' /\ "batch" \in MessagePlaces
        BY <1>t, <2>1, <4>1 DEF MessagePlaces
      <4> QED
        BY <4>2, <4>3, <4>4, <4>5, MessageMoved
    <3>2. CASE ~HasId(sock[e].queue, m)
      <4>1. \A f \in Entries : HasId(sock'[f].queue, m) <=> HasId(sock[f].queue, m)
        BY <2>1, <3>2, InEmpty
      <4>2. \A u \in Threads : HasId(batch'[u], m) <=> HasId(batch[u], m)
        BY <2>2, <2>3, <3>2, InEmpty
      <4> QED
        BY <1>a, <1>t, <2>1, <4>1, <4>2, MessageKept
    <3> QED
      BY <3>1, <3>2
  <2> QED
    BY <1>d, <2>1, <2>2, <2>4, InEmpty
<1>8. CASE \E g \in Pages, off \in 1 .. PageMessages : Posts(t, e, g, off)
  <2>0. PICK g \in Pages, off \in 1 .. PageMessages : Posts(t, e, g, off)
    BY <1>8
  <2>1. PICK x : x = At(g, off, posted + 1)
    OBVIOUS
  <2>2. /\ \A f \in Entries : f # e => sock'[f] = sock[f]
        /\ sock'[e].queue = Append(sock[e].queue, x)
        /\ batch' = batch /\ gone' = gone /\ posted' = posted + 1 /\ posted + 1 \in Messages
    BY <2>0, <2>1 DEF Posts, OthersKept
  <2>3. x.id = posted + 1 /\ x \in Places
    BY <2>1, <2>2 DEF At, Places
  <2>4. /\ \A f \in Entries : ~HasId(sock[f].queue, posted + 1)
        /\ \A u \in Threads : ~HasId(batch[u], posted + 1)
        /\ gone[posted + 1] = 0
    <3>1. posted + 1 > posted
      BY <1>t
    <3> QED
      BY <1>a, <2>2, <3>1 DEF Accounted
  <2>5. /\ DistinctIds(sock'[e].queue)
        /\ \A m : HasId(sock'[e].queue, m) <=> HasId(sock[e].queue, m) \/ m = posted + 1
    BY <1>d, <1>t, <2>2, <2>3, <2>4, IdsAppend
  <2>6. ASSUME NEW m \in Messages PROVE Accounted(m)'
    <3>1. CASE m = posted + 1
      <4>1. \A f \in Entries : HasId(sock'[f].queue, m) <=> f = e
        BY <2>2, <2>4, <2>5, <3>1
      <4>2. posted' \in Nat /\ m <= posted' /\ "queue" \in MessagePlaces
        BY <1>t, <2>2, <3>1 DEF MessagePlaces
      <4> QED
        BY <2>2, <2>4, <3>1, <4>1, <4>2, MessageMoved
    <3>2. CASE m # posted + 1
      <4>0. m \in Nat /\ (m <= posted' <=> m <= posted) /\ (m > posted' <=> m > posted)
        BY <1>t, <2>2, <3>2, MessageAssumption DEF Messages
      <4>1. \A f \in Entries : HasId(sock'[f].queue, m) <=> HasId(sock[f].queue, m)
        BY <2>2, <2>5, <3>2
      <4>2. CASE m <= posted
        <5>1. PICK k \in MessagePlaces, f \in Entries, u \in Threads : MessageAt(m, k, f, u)
          BY <1>a, <4>2 DEF Accounted
        <5>2. MessageAt(m, k, f, u)'
          BY <2>2, <4>1, <5>1 DEF MessageAt
        <5>3. ~(m > posted')
          BY <1>t, <4>0, <4>2
        <5> QED
          BY <5>2, <5>3 DEF Accounted
      <4>3. CASE ~(m <= posted)
        BY <1>a, <2>2, <4>0, <4>1, <4>3 DEF Accounted
      <4> QED
        BY <4>2, <4>3
    <3> QED
      BY <3>1, <3>2
  <2> QED
    BY <1>d, <2>2, <2>5, <2>6
<1> QED
  BY <1>1, <1>2, <1>3, <1>4, <1>5, <1>6, <1>7, <1>8 DEF StepShape

-----------------------------------------------------------------------------
(* The theorems about messages. *)

\* The invariant about messages holds at the start.
LEMMA InitMessages == Init => MessagesInv
<1> SUFFICES ASSUME Init PROVE MessagesInv
  OBVIOUS
<1>1. SocketsInv
  BY InitSockets
<1>2. /\ \A e \in Entries : sock[e].queue = <<>>
      /\ \A t \in Threads : batch[t] = <<>>
      /\ posted = 0 /\ \A m \in Messages : gone[m] = 0
  BY DisposedFields DEF Init
<1>3. MemoryInv
  BY <1>2, InEmpty DEF MemoryInv
<1>4. \A m \in Messages : ~(m <= posted)
  BY <1>2, MessageAssumption DEF Messages
<1>5. OnceInv
  BY <1>2, <1>4, InEmpty DEF OnceInv
<1> QED
  BY <1>1, <1>3, <1>5 DEF MessagesInv

\* Every step that takes a free entry and leaves one dispatcher per socket keeps the
\* invariant about messages.
LEMMA NextMessages ==
  MessagesInv /\ [Next]_vars /\ [EntryIsFree]_vars /\ OneDispatcher' => MessagesInv'
<1> SUFFICES ASSUME MessagesInv, [Next]_vars, [EntryIsFree]_vars, OneDispatcher' PROVE MessagesInv'
  OBVIOUS
<1>0. SocketsInv
  BY DEF MessagesInv
<1>s. SocketsInv'
  BY <1>0, NextSockets
<1>1. CASE UNCHANGED vars
  <2> USE <1>1 DEF vars, pageVars, tableVars, threadVars, dispatchVars
  <2>1. MemoryInv'
    BY DEF MessagesInv, MemoryInv
  <2>2. OnceInv'
    BY DEF MessagesInv, OnceInv, MessageAt
  <2> QED
    BY <1>s, <2>1, <2>2 DEF MessagesInv
<1>2. CASE Next /\ EntryIsFree
  <2>1. PICK t \in Threads, e \in Entries : StepShape(t, e)
    BY <1>0, <1>2, NextShape
  <2> QED
    BY <1>s, <2>1, MemoryStep, OnceStep DEF MessagesInv
<1> QED
  BY <1>1, <1>2

\* The messages that wait or are dispatched.
LEMMA Waiting ==
  ASSUME MessagesInv, NEW x
  PROVE  x \in Batched \cup Queued <=> /\ x \in Places
                                       /\ \/ \E f \in Entries : In(sock[f].queue, x)
                                          \/ \E u \in Threads : In(batch[u], x)
<1>1. /\ \A f \in Entries : sock[f].queue \in Seq(Places)
      /\ \A u \in Threads : batch[u] \in Seq(Places)
  BY TypedFields DEF MessagesInv, SocketsInv
<1>2. x \in Queued <=> \E f \in Entries : In(sock[f].queue, x)
  BY <1>1, InToSet DEF Queued
<1>3. x \in Batched <=> \E u \in Threads : In(batch[u], x)
  BY <1>1, InToSet DEF Batched
<1> QED
  BY <1>1, <1>2, <1>3, InType

\* What the invariant says about the memory of messages.
LEMMA MemoryIntact == MessagesInv => MessageMemoryIntact
<1> SUFFICES ASSUME MessagesInv, NEW m \in Batched \cup Queued PROVE mem[m.page][m.offset] = m.id
  BY DEF MessageMemoryIntact
<1> QED
  BY Waiting DEF MessagesInv, MemoryInv

\* The messages with one identity among those of a sequence.
LEMMA OneOfThem ==
  ASSUME NEW S, NEW s \in Seq(S), DistinctIds(s), NEW m, HasId(s, m)
  PROVE  \E x : In(s, x) /\ x.id = m /\ \A y : In(s, y) /\ y.id = m => y = x
<1>1. PICK k \in 1 .. Len(s) : s[k].id = m
  BY DEF HasId
<1>2. \A y : In(s, y) /\ y.id = m => y = s[k]
  BY <1>1 DEF In, DistinctIds
<1> QED
  BY <1>1, <1>2 DEF In

\* What the invariant says about the places of a message.
LEMMA MessagesOnce == MessagesInv => EveryMessageOnce
<1> SUFFICES ASSUME MessagesInv, NEW m \in Messages
             PROVE  Cardinality({q \in Batched \cup Queued : q.id = m}) + gone[m] = (IF m <= posted THEN 1 ELSE 0)
  BY DEF EveryMessageOnce
<1>t. /\ \A f \in Entries : sock[f].queue \in Seq(Places) /\ DistinctIds(sock[f].queue)
      /\ \A u \in Threads : batch[u] \in Seq(Places) /\ DistinctIds(batch[u])
      /\ m \in Nat /\ posted \in Nat
  BY TypedFields, MessageAssumption DEF MessagesInv, SocketsInv, OnceInv, Messages
<1>a. Accounted(m)
  BY OneHolder
<1>q. PICK Q : Q = {q \in Batched \cup Queued : q.id = m}
  OBVIOUS
<1>h. \A s, x : In(s, x) /\ x.id = m => HasId(s, m)
  BY DEF In, HasId
<1>e. ASSUME \A f \in Entries : ~HasId(sock[f].queue, m), \A u \in Threads : ~HasId(batch[u], m)
      PROVE  Cardinality(Q) = 0
  <2>1. Q = {}
    BY <1>e, <1>h, <1>q, Waiting
  <2> QED
    BY <2>1, FS_EmptySet
<1>o. ASSUME NEW x, Q = {x} PROVE Cardinality(Q) = 1
  BY <1>o, FS_Singleton
<1>1. CASE m <= posted
  <2>1. PICK k \in MessagePlaces, e \in Entries, t \in Threads : MessageAt(m, k, e, t)
    BY <1>1, <1>a DEF Accounted
  <2>2. CASE k = "gone"
    <3>1. gone[m] = 1 /\ Cardinality(Q) = 0
      BY <1>e, <2>1, <2>2 DEF MessageAt
    <3> QED
      BY <1>1, <1>q, <3>1
  <2>3. CASE k = "queue"
    <3>1. /\ gone[m] = 0 /\ HasId(sock[e].queue, m) /\ (\A u \in Threads : ~HasId(batch[u], m))
          /\ \A f \in Entries : HasId(sock[f].queue, m) => f = e
      BY <2>1, <2>3 DEF MessageAt
    <3>2. PICK x : /\ In(sock[e].queue, x) /\ x.id = m
                   /\ \A y : In(sock[e].queue, y) /\ y.id = m => y = x
      BY <1>t, <3>1, OneOfThem
    <3>3. x \in Places
      BY <1>t, <3>2, InType
    <3>4. \A y : y \in Q <=> y = x
      <4>1. ASSUME NEW y, y \in Q PROVE y = x
        <5>1. y.id = m /\ ((\E f \in Entries : In(sock[f].queue, y)) \/ (\E u \in Threads : In(batch[u], y)))
          BY <1>q, <4>1, Waiting
        <5> QED
          BY <1>h, <3>1, <3>2, <5>1
      <4>2. x \in Q
        BY <1>q, <3>2, <3>3, Waiting
      <4> QED
        BY <4>1, <4>2
    <3>5. Q = {x}
      BY <3>4
    <3>6. Cardinality(Q) = 1
      BY <1>o, <3>5
    <3> QED
      BY <1>1, <1>q, <3>1, <3>6
  <2>4. CASE k = "batch"
    <3>1. /\ gone[m] = 0 /\ HasId(batch[t], m) /\ (\A f \in Entries : ~HasId(sock[f].queue, m))
          /\ \A u \in Threads : HasId(batch[u], m) => u = t
      BY <2>1, <2>4 DEF MessageAt
    <3>2. PICK x : /\ In(batch[t], x) /\ x.id = m
                   /\ \A y : In(batch[t], y) /\ y.id = m => y = x
      BY <1>t, <3>1, OneOfThem
    <3>3. x \in Places
      BY <1>t, <3>2, InType
    <3>4. \A y : y \in Q <=> y = x
      <4>1. ASSUME NEW y, y \in Q PROVE y = x
        <5>1. y.id = m /\ ((\E f \in Entries : In(sock[f].queue, y)) \/ (\E u \in Threads : In(batch[u], y)))
          BY <1>q, <4>1, Waiting
        <5> QED
          BY <1>h, <3>1, <3>2, <5>1
      <4>2. x \in Q
        BY <1>q, <3>2, <3>3, Waiting
      <4> QED
        BY <4>1, <4>2
    <3>5. Q = {x}
      BY <3>4
    <3>6. Cardinality(Q) = 1
      BY <1>o, <3>5
    <3> QED
      BY <1>1, <1>q, <3>1, <3>6
  <2> QED
    BY <2>2, <2>3, <2>4 DEF MessagePlaces
<1>2. CASE ~(m <= posted)
  <2>1. m > posted
    BY <1>2, <1>t
  <2>2. gone[m] = 0 /\ Cardinality(Q) = 0
    BY <1>a, <1>e, <2>1 DEF Accounted
  <2> QED
    BY <1>2, <1>q, <2>2
<1> QED
  BY <1>1, <1>2

\* The invariant about messages holds of every behaviour in which NewSocket gets free
\* entries and no two threads dispatch one socket at the same time.
THEOREM MessagesInvariance ==
  Spec /\ [][EntryIsFree]_vars /\ []OneDispatcher => []MessagesInv
<1>1. Init => MessagesInv
  BY InitMessages
<1>2. MessagesInv /\ [Next]_vars /\ [EntryIsFree]_vars /\ OneDispatcher' => MessagesInv'
  BY NextMessages
<1> QED
  BY <1>1, <1>2, PTL DEF Spec

\* The memory of a message that waits or is dispatched holds that message: no page is
\* handed out again before its messages are dispatched.
THEOREM NoPageReusedEarly ==
  Spec /\ [][EntryIsFree]_vars /\ []OneDispatcher => []MessageMemoryIntact
<1>1. MessagesInv => MessageMemoryIntact
  BY MemoryIntact
<1> QED
  BY <1>1, MessagesInvariance, PTL

\* A message that was posted is waiting, being dispatched, or was dispatched or
\* destroyed once: none is lost, none is seen twice.
THEOREM MessagesHandledOnce ==
  Spec /\ [][EntryIsFree]_vars /\ []OneDispatcher => []EveryMessageOnce
<1>1. MessagesInv => EveryMessageOnce
  BY MessagesOnce
<1> QED
  BY <1>1, MessagesInvariance, PTL

-----------------------------------------------------------------------------
(* The two hypotheses hold of a program that never has more sockets than    *)
(* entries, and dispatches on one thread.                                   *)

\* Only consumers dispatch.
ConsumersInv ==
  \A t \in Threads : pc[t] \in {"take", "wait", "woken", "callbacks"} => t \in Consumers

\* No thread dispatches at the start.
LEMMA InitConsumers == Init => ConsumersInv
  BY DEF Init, ConsumersInv

\* Every step keeps ConsumersInv.
LEMMA NextConsumers == SocketsInv /\ ConsumersInv /\ [Next]_vars => ConsumersInv'
<1> SUFFICES ASSUME SocketsInv, ConsumersInv, [Next]_vars PROVE ConsumersInv'
  OBVIOUS
<1>0. pc \in [Threads -> Labels] /\ Blocking \subseteq Consumers
  BY MessageAssumption DEF SocketsInv, Typed, TypeOK
<1>1. ASSUME NEW t \in Threads, NEW l, pc' = [pc EXCEPT ![t] = l],
             l \in {"take", "wait", "woken", "callbacks"} => t \in Consumers
      PROVE  ConsumersInv'
  BY <1>0, <1>1 DEF ConsumersInv
<1>2. CASE UNCHANGED vars
  BY <1>2 DEF vars, threadVars, ConsumersInv
<1>3. CASE Next
  <2>1. PICK t \in Threads : Step(t) \/ SpuriousWake(t) \/ \E n \in Names : Call(t, n)
    BY <1>3 DEF Next
  <2>2. CASE ReleaseSocket(t) \/ \E n \in Names : DeleteSocket(t, n)
    <3>1. PICK l : l \in {"idle", "dispose"} /\ pc' = [pc EXCEPT ![t] = l]
      BY <2>2 DEF ReleaseSocket, DeleteSocket, GotoOrReturn, Goto, AfterDecRef
    <3> QED
      BY <1>1, <3>1
  <2>3. CASE DisposeSocket(t) \/ HasMessages(t) \/ DispatchReclaim(t)
    <3>1. PICK l : l \in {"idle", "release"} /\ pc' = [pc EXCEPT ![t] = l]
      BY <2>3 DEF DisposeSocket, HasMessages, DispatchReclaim, GotoOrReturn, Goto
    <3> QED
      BY <1>1, <3>1
  <2>4. CASE DispatchTake(t) \/ DispatchWoken(t) \/ SpuriousWake(t) \/ DispatchEmpty(t)
    <3>1. pc[t] \in {"take", "wait", "woken"} /\ \E l : pc' = [pc EXCEPT ![t] = l]
      BY <2>4 DEF DispatchTake, DispatchWoken, SpuriousWake, DispatchEmpty, Take, Goto, Here
    <3>2. t \in Consumers
      BY SMTT(60), <3>1 DEF ConsumersInv
    <3> QED
      BY <1>1, <3>1, <3>2
  <2>5. CASE DispatchCallback(t) \/ \E n \in Names : NewSocket(t, n)
    BY <2>5 DEF DispatchCallback, NewSocket, threadVars, ConsumersInv
  <2>6. CASE PostMessage(t)
    <3>1. PICK e \in Entries, g \in Pages, off \in 1 .. PageMessages : Posts(t, e, g, off)
      BY <2>6, PostsShape DEF SocketsInv
    <3> QED
      BY <3>1 DEF Posts, ConsumersInv
  <2>7. CASE \E n \in Names : BeginPost(t, n) \/ BeginHasMessages(t, n)
    <3>1. PICK l : l \in {"enqueue", "peek"} /\ pc' = [pc EXCEPT ![t] = l]
      BY <2>7 DEF BeginPost, BeginHasMessages, AcquireSocket, Goto
    <3> QED
      BY <1>1, <3>1
  <2>8. CASE \E n \in Names : BeginDispatch(t, n) \/ BeginDispatchBlocking(t, n)
    <3>1. t \in Consumers /\ pc' = [pc EXCEPT ![t] = "take"]
      BY <1>0, <2>8 DEF BeginDispatch, BeginDispatchBlocking, AcquireSocket, Goto
    <3> QED
      BY <1>1, <3>1
  <2> QED
    BY <2>1, <2>2, <2>3, <2>4, <2>5, <2>6, <2>7, <2>8 DEF Step, Call
<1> QED
  BY <1>2, <1>3

\* In a program that creates no more sockets than the table has entries and dispatches
\* on one thread, all four properties of the sockets hold without a further hypothesis.
THEOREM SingleDispatcher ==
  ASSUME MaxCreations <= MAX_SOCKETS, \A a, b \in Consumers : a = b
  PROVE  Spec => [](DisposedByTheLast /\ NoPageLost /\ MessageMemoryIntact /\ EveryMessageOnce)
<1>1. Init => MessagesInv /\ ConsumersInv
  BY InitMessages, InitConsumers
<1>2. ConsumersInv => OneDispatcher
  BY DEF ConsumersInv, OneDispatcher
<1>3. MessagesInv => SocketsInv
  BY DEF MessagesInv
<1>4. SocketsInv => EntryIsFree
  BY FreshEntries
<1>5. MessagesInv /\ ConsumersInv /\ [Next]_vars => (MessagesInv /\ ConsumersInv)'
  <2> SUFFICES ASSUME MessagesInv, ConsumersInv, [Next]_vars PROVE MessagesInv' /\ ConsumersInv'
    OBVIOUS
  <2>1. ConsumersInv'
    BY <1>3, NextConsumers
  <2>2. OneDispatcher'
    BY <2>1 DEF ConsumersInv, OneDispatcher
  <2> QED
    BY <1>3, <1>4, <2>1, <2>2, NextMessages
<1>6. MessagesInv => DisposedByTheLast /\ NoPageLost /\ MessageMemoryIntact /\ EveryMessageOnce
  BY <1>3, SocketsDisposed, PagesHeld, MemoryIntact, MessagesOnce
<1> QED
  BY <1>1, <1>5, <1>6, PTL DEF Spec

=============================================================================
