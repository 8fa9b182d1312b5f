-------------------------- MODULE PreloaderProofs --------------------------
(***************************************************************************)
(* Proofs about Preloader: the tree of requests, its walk, the load queue  *)
(* and the reference counts, for every number of requests, of queue slots, *)
(* of names and of paths, in the worlds in which no resource depends on    *)
(* itself.                                                                 *)
(***************************************************************************)
EXTENDS Preloader, ResourceFactoryProofs

-----------------------------------------------------------------------------
(* The tree's links.  Live(F) are the requests that are not on the free    *)
(* list F, Kids(R, F, i) the children of i; T gives every request a stamp, *)
(* later requests a higher one.                                            *)

Requests == [name : Names, parent : Nodes \cup {None}, first : Nodes \cup {None},
             next : Nodes \cup {None}, pending : Int, loading : BOOLEAN,
             buffer : BOOLEAN, result : NodeResults, resource : BOOLEAN]

TreeStates == [req : [Nodes -> Requests], free : Seq(Nodes \ {0}), inProgress : SUBSET Paths,
               persisted : Seq(Paths), post : Seq(Callbacks), res : [Paths -> Resources],
               abort : Aborts]

Live(F) == Nodes \ ToSet(F)
Kids(R, F, i) == {k \in Live(F) : R[k].parent = i}
PendingKids(R, F, i) == {k \in Kids(R, F, i) : R[k].result = PENDING}

FreeOK(F) == F \in Seq(Nodes \ {0}) /\ \A a, b \in 1 .. Len(F) : F[a] = F[b] => a = b

Stamped(F, T, B) ==
  /\ T \in [Nodes -> Nat] /\ B \in Nat /\ \A k \in Nodes : T[k] < B
  /\ \A j, k \in Live(F) : T[j] = T[k] => j = k

\* The first child is the one inserted last.
FirstOK(R, F, T, i) ==
  /\ R[i].first = None => Kids(R, F, i) = {}
  /\ R[i].first # None => /\ R[i].first \in Kids(R, F, i)
                          /\ \A k \in Kids(R, F, i) : T[k] <= T[R[i].first]

\* The next sibling is the one inserted before.
NextOK(R, F, T, k) ==
  /\ R[k].next = None => \A j \in Kids(R, F, R[k].parent) : T[k] <= T[j]
  /\ R[k].next # None =>
       /\ R[k].next \in Kids(R, F, R[k].parent) /\ T[R[k].next] < T[k]
       /\ \A j \in Kids(R, F, R[k].parent) : T[j] <= T[R[k].next] \/ T[k] <= T[j]

Linked(R, F, T) ==
  /\ R[0].parent = None /\ R[0].next = None
  /\ \A k \in Live(F) \ {0} : R[k].parent \in Live(F) /\ T[R[k].parent] < T[k]
  /\ \A i \in Live(F) : FirstOK(R, F, T, i)
  /\ \A k \in Live(F) \ {0} : NextOK(R, F, T, k)

Shape(R, F) == FreeOK(F) /\ \E T, B : Stamped(F, T, B) /\ Linked(R, F, T)

\* Requests with the same place in the tree.
SameLinks(q, r) == q.parent = r.parent /\ q.first = r.first /\ q.next = r.next

\* The indices of requests are finitely many numbers.
LEMMA NodesFinite ==
  /\ IsFiniteSet(Nodes) /\ Cardinality(Nodes) = MAX_PRELOADER_REQUESTS
  /\ 0 \in Nodes /\ Nodes \subseteq Nat /\ None \notin Nodes
<1>1. MAX_PRELOADER_REQUESTS \in Nat \ {0}
  BY PreloaderAssumption
<1>2. 0 \in Nodes /\ Nodes \subseteq Nat /\ None \notin Nodes
  BY <1>1 DEF Nodes, None
<1>3. IsFiniteSet(Nodes) /\ Cardinality(Nodes) = (MAX_PRELOADER_REQUESTS - 1) - 0 + 1
  BY <1>1, FS_Interval DEF Nodes
<1> QED
  BY <1>1, <1>2, <1>3

\* The root is never free.
LEMMA RootLive ==
  ASSUME NEW F \in Seq(Nodes \ {0})
  PROVE  0 \in Live(F) /\ Live(F) \subseteq Nodes /\ ToSet(F) \subseteq Nodes \ {0}
<1>1. ToSet(F) \subseteq Nodes \ {0}
  BY DEF ToSet
<1> QED
  BY <1>1, NodesFinite DEF Live

\* A set of requests is finite.
LEMMA LiveFinite ==
  ASSUME NEW A, A \subseteq Nodes
  PROVE  IsFiniteSet(A) /\ Cardinality(A) \in Nat /\ Cardinality(A) <= MAX_PRELOADER_REQUESTS
BY NodesFinite, FS_Subset, FS_CardinalityType

\* A member of a tree has its parent in the tree, or is the root.
LEMMA ParentLive ==
  ASSUME NEW R, NEW F, Shape(R, F), NEW k \in Live(F)
  PROVE  /\ k = 0 => R[k].parent = None
         /\ k # 0 => R[k].parent \in Live(F) /\ R[k].parent # k /\ R[k].parent # None
<1>1. PICK T, B : Stamped(F, T, B) /\ Linked(R, F, T)
  BY DEF Shape
<1>2. T[k] \in Nat
  BY <1>1 DEF Stamped, Live
<1>3. k # 0 => R[k].parent \in Live(F) /\ T[R[k].parent] < T[k]
  BY <1>1 DEF Linked
<1>4. k # 0 => R[k].parent \in Nodes
  BY <1>3 DEF Live
<1> QED
  BY <1>1, <1>2, <1>3, <1>4, NodesFinite DEF Linked

\* A request without a first child has no children.
LEMMA NoFirstChild ==
  ASSUME NEW R, NEW F, Shape(R, F), NEW i \in Live(F)
  PROVE  /\ R[i].first = None <=> Kids(R, F, i) = {}
         /\ R[i].first # None => R[i].first \in Kids(R, F, i)
         /\ i \notin Kids(R, F, i)
<1>1. PICK T, B : Stamped(F, T, B) /\ Linked(R, F, T)
  BY DEF Shape
<1>2. FirstOK(R, F, T, i)
  BY <1>1 DEF Linked
<1>3. i \notin Kids(R, F, i)
  <2>1. i = 0 => R[i].parent = None
    BY ParentLive
  <2>2. i # 0 => R[i].parent # i
    BY ParentLive
  <2>3. None # 0
    BY DEF None
  <2> QED
    BY <2>1, <2>2, <2>3 DEF Kids
<1> QED
  BY <1>2, <1>3 DEF FirstOK

\* The next sibling has the same parent.
LEMMA NextSibling ==
  ASSUME NEW R, NEW F, Shape(R, F), NEW k \in Live(F), R[k].next # None
  PROVE  k # 0 /\ R[k].next \in Live(F) /\ R[R[k].next].parent = R[k].parent
<1>1. PICK T, B : Stamped(F, T, B) /\ Linked(R, F, T)
  BY DEF Shape
<1>2. k # 0
  BY <1>1 DEF Linked
<1>3. NextOK(R, F, T, k)
  BY <1>1, <1>2 DEF Linked
<1> QED
  BY <1>2, <1>3 DEF NextOK, Kids

\* Changes of anything but the links keep the tree.
LEMMA SameShape ==
  ASSUME NEW R, NEW F, Shape(R, F), NEW Q, \A k \in Nodes : SameLinks(Q[k], R[k])
  PROVE  Shape(Q, F) /\ \A i : Kids(Q, F, i) = Kids(R, F, i)
<1>1. PICK T, B : Stamped(F, T, B) /\ Linked(R, F, T)
  BY DEF Shape
<1>2. \A k \in Nodes : Q[k].parent = R[k].parent /\ Q[k].first = R[k].first /\ Q[k].next = R[k].next
  BY DEF SameLinks
<1>3. \A i : Kids(Q, F, i) = Kids(R, F, i)
  BY <1>2 DEF Kids, Live
<1>4. \A k \in Live(F) : k \in Nodes
  BY DEF Live
<1>5. ASSUME NEW i \in Live(F) PROVE FirstOK(Q, F, T, i)
  <2>1. FirstOK(R, F, T, i)
    BY <1>1 DEF Linked
  <2> QED
    BY <1>2, <1>3, <1>4, <2>1 DEF FirstOK
<1>6. ASSUME NEW k \in Live(F) \ {0} PROVE NextOK(Q, F, T, k)
  <2>1. NextOK(R, F, T, k)
    BY <1>1 DEF Linked
  <2> QED
    BY <1>2, <1>3, <1>4, <2>1 DEF NextOK
<1>7. Linked(Q, F, T)
  BY <1>1, <1>2, <1>4, <1>5, <1>6, NodesFinite DEF Linked
<1> QED
  BY <1>1, <1>3, <1>7 DEF Shape

\* The tree without the children of i, which have no children themselves.
LEMMA ShapeWithoutKids ==
  ASSUME NEW R, NEW F, Shape(R, F), NEW i \in Live(F),
         \A k \in Kids(R, F, i) : Kids(R, F, k) = {},
         NEW Q, NEW G, FreeOK(G), Live(G) = Live(F) \ Kids(R, F, i),
         \A k \in Nodes : Q[k].parent = R[k].parent /\ Q[k].next = R[k].next,
         \A k \in Nodes : k # i => Q[k].first = R[k].first,
         Q[i].first = None
  PROVE  /\ Shape(Q, G) /\ Kids(Q, G, i) = {}
         /\ \A j : j # i => Kids(Q, G, j) = Kids(R, F, j)
<1>1. PICK T, B : Stamped(F, T, B) /\ Linked(R, F, T)
  BY DEF Shape
<1>2. \A k \in Live(F) : k \in Nodes
  BY DEF Live
<1>3. Live(G) \subseteq Live(F)
  OBVIOUS
<1>4. \A j : Kids(Q, G, j) = {k \in Live(F) \ Kids(R, F, i) : R[k].parent = j}
  BY <1>2 DEF Kids
<1>5. Kids(Q, G, i) = {}
  <2>1. \A k \in Live(F) : R[k].parent = i => k \in Kids(R, F, i)
    BY DEF Kids
  <2> QED
    BY <1>4, <2>1
<1>6. ASSUME NEW j, j # i PROVE Kids(Q, G, j) = Kids(R, F, j)
  <2>1. \A k \in Kids(R, F, i) : R[k].parent = i
    BY DEF Kids
  <2> QED
    BY <1>4, <1>6, <2>1 DEF Kids
<1>7. \A k \in Live(G) : k \in Live(F) /\ k \in Nodes /\ k \notin Kids(R, F, i)
  BY <1>2
<1>8. Stamped(G, T, B)
  BY <1>1, <1>7 DEF Stamped
<1>9. ASSUME NEW k \in Live(G) \ {0}
      PROVE  Q[k].parent \in Live(G) /\ T[Q[k].parent] < T[k] /\ Q[k].parent # i
  <2>1. Q[k].parent = R[k].parent
    BY <1>7
  <2>2. R[k].parent \in Live(F) /\ T[R[k].parent] < T[k]
    BY <1>1, <1>7 DEF Linked
  <2>3. R[k].parent # i
    BY <1>7 DEF Kids
  <2>4. R[k].parent \notin Kids(R, F, i)
    <3>1. k \in Kids(R, F, R[k].parent)
      BY <1>7 DEF Kids
    <3> QED
      BY <3>1
  <2> QED
    BY <2>1, <2>2, <2>3, <2>4
<1>10. ASSUME NEW j \in Live(G) PROVE FirstOK(Q, G, T, j)
  <2>1. FirstOK(R, F, T, j)
    BY <1>1, <1>7 DEF Linked
  <2>2. CASE j = i
    BY <1>5, <2>2 DEF FirstOK
  <2>3. CASE j # i
    <3>1. Q[j].first = R[j].first /\ Kids(Q, G, j) = Kids(R, F, j)
      BY <1>6, <1>7, <2>3
    <3> QED
      BY <2>1, <3>1 DEF FirstOK
  <2> QED
    BY <2>2, <2>3
<1>11. ASSUME NEW k \in Live(G) \ {0} PROVE NextOK(Q, G, T, k)
  <2>1. NextOK(R, F, T, k)
    BY <1>1, <1>7 DEF Linked
  <2>2. Q[k].parent = R[k].parent /\ Q[k].next = R[k].next
    BY <1>7
  <2>3. Kids(Q, G, Q[k].parent) = Kids(R, F, R[k].parent)
    BY <1>6, <1>9, <2>2
  <2> QED
    BY <2>1, <2>2, <2>3 DEF NextOK
<1>12. Linked(Q, G, T)
  <2>1. Q[0].parent = None /\ Q[0].next = None
    BY <1>1, NodesFinite DEF Linked
  <2> QED
    BY <1>9, <1>10, <1>11, <2>1 DEF Linked
<1> QED
  BY <1>5, <1>6, <1>8, <1>12 DEF Shape

\* The tree with a request n more, the first child of p.
LEMMA ShapeWithKid ==
  ASSUME NEW R, NEW F, Shape(R, F), NEW p \in Live(F), NEW n \in Nodes \ {0}, n \notin Live(F),
         NEW Q, NEW G, FreeOK(G), Live(G) = Live(F) \cup {n},
         \A k \in Nodes \ {n} : Q[k].parent = R[k].parent /\ Q[k].next = R[k].next,
         \A k \in Nodes \ {n} : k # p => Q[k].first = R[k].first,
         Q[p].first = n,
         Q[n].parent = p, Q[n].first = None, Q[n].next = R[p].first
  PROVE  /\ Shape(Q, G) /\ Kids(Q, G, p) = Kids(R, F, p) \cup {n} /\ Kids(Q, G, n) = {}
         /\ \A j : j # p => Kids(Q, G, j) = Kids(R, F, j)
<1>1. PICK T, B : Stamped(F, T, B) /\ Linked(R, F, T)
  BY DEF Shape
<1> DEFINE U == [T EXCEPT ![n] = B]
<1>2. /\ U \in [Nodes -> Nat] /\ B \in Nat /\ U[n] = B
      /\ \A k \in Nodes : k # n => U[k] = T[k]
      /\ \A k \in Nodes : T[k] \in Nat /\ T[k] < B
  BY <1>1 DEF Stamped
<1> HIDE DEF U
<1>3. p \in Nodes /\ p # n /\ \A k \in Live(F) : k \in Nodes /\ k # n
  BY DEF Live
<1>4. \A k \in Live(F) : U[k] = T[k] /\ T[k] \in Nat /\ T[k] < B /\ U[k] < B
  BY <1>2, <1>3
<1>5. Stamped(G, U, B + 1)
  <2>1. B + 1 \in Nat /\ \A k \in Nodes : U[k] < B + 1
    <3>1. ASSUME NEW k \in Nodes PROVE U[k] < B + 1
      <4>1. CASE k = n
        BY <1>2, <4>1
      <4>2. CASE k # n
        <5>1. U[k] = T[k] /\ T[k] \in Nat /\ T[k] < B
          BY <1>2, <4>2
        <5> QED
          BY <1>2, <5>1
      <4> QED
        BY <4>1, <4>2
    <3> QED
      BY <1>2, <3>1
  <2>2. ASSUME NEW j \in Live(G), NEW k \in Live(G), U[j] = U[k] PROVE j = k
    <3>1. (j \in Live(F) \/ j = n) /\ (k \in Live(F) \/ k = n)
      OBVIOUS
    <3>2. CASE j \in Live(F) /\ k \in Live(F)
      BY <1>1, <1>4, <2>2, <3>2 DEF Stamped
    <3>3. CASE j \in Live(F) /\ k = n
      <4>1. U[j] < B /\ U[j] \in Nat /\ U[k] = B
        BY <1>2, <1>4, <3>3
      <4> QED
        BY <1>2, <2>2, <4>1
    <3>4. CASE j = n /\ k \in Live(F)
      <4>1. U[k] < B /\ U[k] \in Nat /\ U[j] = B
        BY <1>2, <1>4, <3>4
      <4> QED
        BY <1>2, <2>2, <4>1
    <3> QED
      BY <3>1, <3>2, <3>3, <3>4
  <2> QED
    BY <1>2, <2>1, <2>2 DEF Stamped
<1>6. \A k \in Live(F) : Q[k].parent = R[k].parent /\ Q[k].next = R[k].next
  BY <1>3
<1>7. \A k \in Live(F) : R[k].parent # n
  <2> SUFFICES ASSUME NEW k \in Live(F) PROVE R[k].parent # n
    OBVIOUS
  <2>1. k = 0 => R[k].parent = None
    BY ParentLive
  <2>2. k # 0 => R[k].parent \in Live(F)
    BY ParentLive
  <2> QED
    BY <2>1, <2>2, NodesFinite
<1>8. \A j : j # p => Kids(Q, G, j) = Kids(R, F, j)
  BY <1>6 DEF Kids
<1>9. Kids(Q, G, p) = Kids(R, F, p) \cup {n}
  BY <1>6 DEF Kids
<1>10. Kids(Q, G, n) = {}
  <2>1. Kids(R, F, n) = {}
    BY <1>7 DEF Kids
  <2> QED
    BY <1>3, <1>8, <2>1
<1>11. ASSUME NEW k \in Live(G) \ {0} PROVE Q[k].parent \in Live(G) /\ U[Q[k].parent] < U[k]
  <2>1. CASE k = n
    BY <1>2, <1>4, <2>1
  <2>2. CASE k \in Live(F)
    <3>1. R[k].parent \in Live(F) /\ T[R[k].parent] < T[k]
      BY <1>1, <2>2 DEF Linked
    <3> QED
      BY <1>4, <1>6, <2>2, <3>1
  <2> QED
    BY <2>1, <2>2
<1>12. ASSUME NEW j \in Live(G) PROVE FirstOK(Q, G, U, j)
  <2>1. CASE j = n
    BY <1>10, <2>1 DEF FirstOK
  <2>2. CASE j = p
    <3>1. \A k \in Kids(R, F, p) : k \in Live(F)
      BY DEF Kids
    <3>2. \A k \in Kids(Q, G, p) : U[k] <= U[n]
      <4>1. \A k \in Kids(R, F, p) : U[k] <= U[n]
        <5> SUFFICES ASSUME NEW k \in Kids(R, F, p) PROVE U[k] <= U[n]
          OBVIOUS
        <5>1. U[k] < B /\ U[k] \in Nat
          BY <1>4, <3>1
        <5> QED
          BY <1>2, <5>1
      <4>2. U[n] <= U[n]
        BY <1>2
      <4> QED
        BY <1>9, <4>1, <4>2
    <3>3. n # None
      BY NodesFinite
    <3> QED
      BY <1>9, <2>2, <3>2, <3>3 DEF FirstOK
  <2>3. CASE j \in Live(F) /\ j # p
    <3>1. FirstOK(R, F, T, j)
      BY <1>1, <2>3 DEF Linked
    <3>2. Q[j].first = R[j].first /\ Kids(Q, G, j) = Kids(R, F, j)
      BY <1>3, <1>8, <2>3
    <3>3. \A k \in Kids(R, F, j) : U[k] = T[k]
      BY <1>4 DEF Kids
    <3> QED
      BY <3>1, <3>2, <3>3 DEF FirstOK
  <2> QED
    BY <2>1, <2>2, <2>3
<1>13. ASSUME NEW k \in Live(G) \ {0} PROVE NextOK(Q, G, U, k)
  <2>1. CASE k = n
    <3>1. FirstOK(R, F, T, p)
      BY <1>1 DEF Linked
    <3>2. \A j \in Kids(R, F, p) : U[j] = T[j] /\ U[j] < U[n]
      BY <1>2, <1>4 DEF Kids
    <3>3. CASE R[p].first = None
      <4>1. Kids(R, F, p) = {}
        BY <3>1, <3>3 DEF FirstOK
      <4>2. \A j \in Kids(Q, G, p) : U[n] <= U[j]
        BY <1>2, <1>9, <4>1
      <4> QED
        BY <2>1, <3>3, <4>2 DEF NextOK
    <3>4. CASE R[p].first # None
      <4>1. R[p].first \in Kids(R, F, p) /\ \A j \in Kids(R, F, p) : T[j] <= T[R[p].first]
        BY <3>1, <3>4 DEF FirstOK
      <4>2. \A j \in Kids(R, F, p) : U[j] <= U[R[p].first]
        BY <3>2, <4>1
      <4>3. \A j \in Kids(Q, G, p) : U[j] <= U[R[p].first] \/ U[n] <= U[j]
        BY <1>2, <1>9, <4>2
      <4> QED
        BY <1>9, <2>1, <3>2, <3>4, <4>1, <4>3 DEF NextOK
    <3> QED
      BY <3>3, <3>4
  <2>2. CASE k \in Live(F)
    <3>1. NextOK(R, F, T, k)
      BY <1>1, <2>2 DEF Linked
    <3>2. Q[k].parent = R[k].parent /\ Q[k].next = R[k].next
      BY <1>6, <2>2
    <3>3. U[k] = T[k] /\ T[k] \in Nat /\ U[k] <= U[n]
      <4>1. U[k] = T[k] /\ T[k] \in Nat /\ U[k] < B /\ U[n] = B /\ B \in Nat
        BY <1>2, <1>4, <2>2
      <4> QED
        BY <4>1
    <3>4. \A j \in Kids(R, F, R[k].parent) : U[j] = T[j]
      BY <1>4 DEF Kids
    <3>5. /\ Kids(R, F, R[k].parent) \subseteq Kids(Q, G, R[k].parent)
          /\ \A j \in Kids(Q, G, R[k].parent) : j \in Kids(R, F, R[k].parent) \/ j = n
      <4>1. CASE R[k].parent = p
        BY <1>9, <4>1
      <4>2. CASE R[k].parent # p
        BY <1>8, <4>2
      <4> QED
        BY <4>1, <4>2
    <3>6. CASE R[k].next = None
      BY <3>1, <3>2, <3>3, <3>4, <3>5, <3>6 DEF NextOK
    <3>7. CASE R[k].next # None
      BY <3>1, <3>2, <3>3, <3>4, <3>5, <3>7 DEF NextOK
    <3> QED
      BY <3>6, <3>7
  <2> QED
    BY <2>1, <2>2
<1>14. Linked(Q, G, U)
  <2>1. Q[0].parent = None /\ Q[0].next = None
    BY <1>1, NodesFinite DEF Linked
  <2> QED
    BY <1>11, <1>12, <1>13, <2>1 DEF Linked
<1> QED
  BY <1>5, <1>8, <1>9, <1>10, <1>14 DEF Shape

\* A set with the first child of i and the next sibling of each of its elements has all
\* the children of i.
LEMMA KidsReached ==
  ASSUME NEW R, NEW F, Shape(R, F), NEW i \in Live(F), NEW Z,
         R[i].first # None => R[i].first \in Z,
         \A k \in Z \cap Kids(R, F, i) : R[k].next # None => R[k].next \in Z
  PROVE  Kids(R, F, i) \subseteq Z
<1> SUFFICES ASSUME ~(Kids(R, F, i) \subseteq Z) PROVE FALSE
  OBVIOUS
<1>1. PICK T, B : Stamped(F, T, B) /\ Linked(R, F, T)
  BY DEF Shape
<1>2. FirstOK(R, F, T, i)
  BY <1>1 DEF Linked
<1>3. \A k \in Kids(R, F, i) : k \in Live(F) /\ k \in Nodes /\ R[k].parent = i /\ k # 0
  <2>1. \A k \in Kids(R, F, i) : k \in Live(F) /\ k \in Nodes /\ R[k].parent = i
    BY DEF Kids, Live
  <2>2. R[0].parent = None /\ i \in Nodes
    BY <1>1 DEF Linked, Live
  <2> QED
    BY <2>1, <2>2, NodesFinite
<1>4. \A k \in Kids(R, F, i) : T[k] \in Nat /\ T[k] < B /\ B \in Nat
  BY <1>1, <1>3 DEF Stamped
<1> DEFINE Lost == {k \in Kids(R, F, i) : k \notin Z}
           Depths == {B - T[k] : k \in Lost}
\* the lost child that was inserted last
<1>5. PICK x \in Lost : \A y \in Lost : T[y] <= T[x]
  <2>1. Depths \subseteq Nat
    BY <1>4
  <2>2. Depths # {}
    OBVIOUS
  <2>3. PICK d \in Depths : \A e \in Depths : d <= e
    BY <2>1, <2>2, LeastOf
  <2>4. PICK x \in Lost : d = B - T[x]
    BY <2>3
  <2>5. ASSUME NEW y \in Lost PROVE T[y] <= T[x]
    <3>1. B - T[x] <= B - T[y]
      BY <2>3, <2>4
    <3>2. T[x] \in Nat /\ T[y] \in Nat /\ B \in Nat
      BY <1>4
    <3> QED
      BY <3>1, <3>2
  <2> QED
    BY <2>5
<1>6. R[i].first # None /\ R[i].first \in Kids(R, F, i) /\ T[x] <= T[R[i].first]
  BY <1>2, <1>5 DEF FirstOK
<1> DEFINE After == {k \in Kids(R, F, i) : T[x] < T[k]}
           Stamps == {T[k] : k \in After}
\* the sibling inserted after it
<1>7. PICK z \in After : \A y \in After : T[z] <= T[y]
  <2>1. R[i].first # x
    BY <1>5, <1>6
  <2>2. T[R[i].first] # T[x]
    BY <1>1, <1>3, <1>5, <1>6, <2>1 DEF Stamped
  <2>3. R[i].first \in After
    BY <1>4, <1>5, <1>6, <2>2
  <2>4. Stamps \subseteq Nat /\ Stamps # {}
    BY <1>4, <2>3
  <2>5. PICK d \in Stamps : \A e \in Stamps : d <= e
    BY <2>4, LeastOf
  <2> QED
    BY <2>5
<1>8. z \in Z
  <2>1. z \in Lost => T[z] <= T[x]
    BY <1>5
  <2>2. T[z] \in Nat /\ T[x] \in Nat /\ T[x] < T[z]
    BY <1>4, <1>5, <1>7
  <2> QED
    BY <1>7, <2>1, <2>2
<1>9. NextOK(R, F, T, z) /\ R[z].parent = i
  BY <1>1, <1>3, <1>7 DEF Linked
<1>10. R[z].next = x
  <2>1. ~(T[z] <= T[x])
    BY <1>4, <1>5, <1>7
  <2>2. R[z].next # None
    BY <1>5, <1>9, <2>1 DEF NextOK
  <2>3. PICK y : y = R[z].next
    OBVIOUS
  <2>4. y \in Kids(R, F, i) /\ T[y] < T[z] /\ T[x] <= T[y]
    BY <1>5, <1>9, <2>1, <2>2, <2>3 DEF NextOK
  <2>5. y \notin After
    BY <1>4, <1>7, <2>4
  <2>6. T[y] = T[x]
    BY <1>4, <1>5, <2>4, <2>5
  <2>7. y = x
    BY <1>1, <1>3, <1>5, <2>4, <2>6 DEF Stamped
  <2> QED
    BY <2>3, <2>7
<1>11. x # None
  BY <1>3, <1>5, NodesFinite
<1> QED
  BY <1>5, <1>7, <1>8, <1>10, <1>11

\* Walks along the links of a tree state stay among the requests.
LEMMA LinkTypes ==
  ASSUME NEW R \in [Nodes -> Requests], NEW k \in Nodes
  PROVE  /\ R[k].parent \in Nodes \cup {None} /\ R[k].first \in Nodes \cup {None}
         /\ R[k].next \in Nodes \cup {None}
BY DEF Requests

\* What a walk from the first child meets are the children.
LEMMA ChildrenAreKids ==
  ASSUME NEW s, s.req \in [Nodes -> Requests], Shape(s.req, s.free), NEW i \in Live(s.free)
  PROVE  Children(s, i) = Kids(s.req, s.free, i)
<1>1. PICK R \in [Nodes -> Requests] : R = s.req
  OBVIOUS
<1>2. PICK F : F = s.free
  OBVIOUS
<1>3. PICK next : next = [j \in Nodes |-> {R[j].next} \ {None}]
  OBVIOUS
<1>4. PICK from : from = {R[i].first} \ {None}
  OBVIOUS
<1>5. PICK C : C = Reach(Nodes, from, next)
  OBVIOUS
<1>6. Children(s, i) = C
  BY <1>1, <1>3, <1>4, <1>5 DEF Children
<1>7. Shape(R, F) /\ i \in Live(F) /\ i \in Nodes
  BY <1>1, <1>2 DEF Live
<1>8. from \subseteq Nodes /\ \A x \in Nodes : next[x] \subseteq Nodes
  BY <1>3, <1>4, <1>7, LinkTypes
<1>9. from \subseteq C /\ C \subseteq Nodes /\ \A x \in C : next[x] \subseteq C
  BY <1>5, <1>8, NodesFinite, ReachClosed
<1>10. Kids(R, F, i) \subseteq C
  <2>1. R[i].first # None => R[i].first \in C
    BY <1>4, <1>9
  <2>2. \A k \in C \cap Kids(R, F, i) : R[k].next # None => R[k].next \in C
    BY <1>3, <1>9
  <2> QED
    BY <1>7, <2>1, <2>2, KidsReached
<1>11. C \subseteq Kids(R, F, i)
  <2>1. from \subseteq Kids(R, F, i)
    BY <1>4, <1>7, NoFirstChild
  <2>2. ASSUME NEW x \in Kids(R, F, i) PROVE next[x] \subseteq Kids(R, F, i)
    <3>1. x \in Live(F) /\ x \in Nodes /\ R[x].parent = i
      BY DEF Kids, Live
    <3>2. R[x].next # None => R[x].next \in Live(F) /\ R[R[x].next].parent = i
      BY <1>7, <3>1, NextSibling
    <3>3. R[x].next # None => R[x].next \in Kids(R, F, i)
      BY <3>2 DEF Kids
    <3> QED
      BY <1>3, <3>1, <3>3
  <2> QED
    BY <1>5, <2>1, <2>2, NodesFinite, ReachWithin
<1> QED
  BY <1>1, <1>2, <1>6, <1>10, <1>11

\* What is reached from the root are the requests that are not free.
LEMMA ReachedAreLive ==
  ASSUME req \in [Nodes -> Requests], Shape(req, freelist)
  PROVE  LiveNodes = Live(freelist)
<1>1. PICK R \in [Nodes -> Requests] : R = req
  OBVIOUS
<1>2. PICK F : F = freelist
  OBVIOUS
<1>3. PICK next : next = [j \in Nodes |-> {R[j].first, R[j].next} \ {None}]
  OBVIOUS
<1>4. PICK C : C = Reach(Nodes, {0}, next)
  OBVIOUS
<1>5. LiveNodes = C
  BY <1>1, <1>3, <1>4 DEF LiveNodes
<1>6. Shape(R, F) /\ F \in Seq(Nodes \ {0})
  BY <1>1, <1>2 DEF Shape, FreeOK
<1>7. 0 \in Live(F) /\ Live(F) \subseteq Nodes
  BY <1>6, RootLive
<1>8. {0} \subseteq Nodes /\ \A x \in Nodes : next[x] \subseteq Nodes
  <2>1. ASSUME NEW x \in Nodes PROVE next[x] \subseteq Nodes
    <3>1. R[x].first \in Nodes \cup {None} /\ R[x].next \in Nodes \cup {None}
      BY LinkTypes
    <3> QED
      BY <1>3, <3>1
  <2> QED
    BY <2>1, NodesFinite
<1>9. {0} \subseteq C /\ C \subseteq Nodes /\ \A x \in C : next[x] \subseteq C
  BY <1>4, <1>8, NodesFinite, ReachClosed
<1>10. C \subseteq Live(F)
  <2>1. ASSUME NEW x \in Live(F) PROVE next[x] \subseteq Live(F)
    <3>1. R[x].first # None => R[x].first \in Live(F)
      <4>1. R[x].first # None => R[x].first \in Kids(R, F, x)
        BY <1>6, NoFirstChild
      <4> QED
        BY <4>1 DEF Kids
    <3>2. R[x].next # None => R[x].next \in Live(F)
      BY <1>6, NextSibling
    <3>3. x \in Nodes
      BY <1>7
    <3> QED
      BY <1>3, <3>1, <3>2, <3>3
  <2> QED
    BY <1>4, <1>7, <2>1, NodesFinite, ReachWithin
<1>11. Live(F) \subseteq C
  <2> SUFFICES ASSUME ~(Live(F) \subseteq C) PROVE FALSE
    OBVIOUS
  <2>1. PICK T, B : Stamped(F, T, B) /\ Linked(R, F, T)
    BY <1>6 DEF Shape
  <2>2. \A k \in Live(F) : T[k] \in Nat
    BY <1>7, <2>1 DEF Stamped
  <2> DEFINE Stamps == {T[k] : k \in Live(F) \ C}
  <2>3. PICK x \in Live(F) \ C : \A y \in Live(F) \ C : T[x] <= T[y]
    <3>1. Stamps \subseteq Nat /\ Stamps # {}
      BY <2>2
    <3>2. PICK d \in Stamps : \A e \in Stamps : d <= e
      BY <3>1, LeastOf
    <3> QED
      BY <3>2
  <2>4. x # 0
    BY <1>9
  <2>5. PICK p : p = R[x].parent
    OBVIOUS
  <2>6. p \in Live(F) /\ T[p] < T[x]
    BY <2>1, <2>3, <2>4, <2>5 DEF Linked
  <2>7. p \in C
    <3>1. T[p] \in Nat /\ T[x] \in Nat
      BY <2>2, <2>6
    <3> QED
      BY <2>3, <2>6, <3>1
  <2>8. Kids(R, F, p) \subseteq C
    <3>1. R[p].first # None => R[p].first \in C
      <4>1. p \in Nodes
        BY <1>7, <2>6
      <4> QED
        BY <1>3, <1>9, <2>7, <4>1
    <3>2. \A k \in C \cap Kids(R, F, p) : R[k].next # None => R[k].next \in C
      BY <1>3, <1>9
    <3> QED
      BY <1>6, <2>6, <3>1, <3>2, KidsReached
  <2>9. x \in Kids(R, F, p)
    BY <2>3, <2>5 DEF Kids
  <2> QED
    BY <2>3, <2>8, <2>9
<1> QED
  BY <1>2, <1>5, <1>10, <1>11

\* A root without children is alone.
LEMMA RootAlone ==
  ASSUME NEW R, NEW F, Shape(R, F), Kids(R, F, 0) = {}
  PROVE  Live(F) = {0}
<1>1. PICK T, B : Stamped(F, T, B) /\ Linked(R, F, T)
  BY DEF Shape
<1>2. 0 \in Live(F) /\ Live(F) \subseteq Nodes
  BY RootLive DEF Shape, FreeOK
<1>3. \A k \in Live(F) : T[k] \in Nat
  BY <1>1, <1>2 DEF Stamped
<1> SUFFICES ASSUME Live(F) # {0} PROVE FALSE
  OBVIOUS
<1> DEFINE Stamps == {T[k] : k \in Live(F) \ {0}}
<1>4. PICK x \in Live(F) \ {0} : \A y \in Live(F) \ {0} : T[x] <= T[y]
  <2>1. Stamps \subseteq Nat /\ Stamps # {}
    BY <1>2, <1>3
  <2>2. PICK d \in Stamps : \A e \in Stamps : d <= e
    BY <2>1, LeastOf
  <2> QED
    BY <2>2
<1>5. PICK p : p = R[x].parent
  OBVIOUS
<1>6. p \in Live(F) /\ T[p] < T[x]
  BY <1>1, <1>4, <1>5 DEF Linked
<1>7. p = 0
  <2>1. T[p] \in Nat /\ T[x] \in Nat
    BY <1>3, <1>6
  <2> QED
    BY <1>4, <1>6, <2>1
<1> QED
  BY <1>4, <1>5, <1>7 DEF Kids

-----------------------------------------------------------------------------
(* The free list. *)

\* A request that is returned.
LEMMA FreeAppend ==
  ASSUME NEW F, FreeOK(F), NEW x \in Live(F), x # 0
  PROVE  FreeOK(Append(F, x)) /\ Live(Append(F, x)) = Live(F) \ {x}
<1>1. F \in Seq(Nodes \ {0}) /\ x \in Nodes \ {0}
  BY DEF FreeOK, Live
<1>2. PICK L \in Nat : L = Len(F)
  BY <1>1, LenProperties
<1>3. PICK G : G = Append(F, x)
  OBVIOUS
<1>4. /\ G \in Seq(Nodes \ {0}) /\ Len(G) = L + 1 /\ G[L + 1] = x
      /\ \A k \in 1 .. L : G[k] = F[k]
  BY <1>1, <1>2, <1>3, AppendProperties
<1>5. ToSet(F) = {F[k] : k \in 1 .. L} /\ ToSet(G) = {G[k] : k \in 1 .. (L + 1)}
  BY <1>1, <1>2, <1>4 DEF ToSet
<1>6. ToSet(G) = ToSet(F) \cup {x}
  <2>1. 1 .. (L + 1) = (1 .. L) \cup {L + 1}
    BY <1>2
  <2> QED
    BY <1>4, <1>5, <2>1
<1>7. x \notin ToSet(F)
  BY DEF Live
<1>8. ASSUME NEW a \in 1 .. Len(G), NEW b \in 1 .. Len(G), G[a] = G[b] PROVE a = b
  <2>1. \A k \in 1 .. L : F[k] # x
    BY <1>5, <1>7
  <2>2. (a \in 1 .. L \/ a = L + 1) /\ (b \in 1 .. L \/ b = L + 1)
    BY <1>2, <1>4
  <2>3. \A c, d \in 1 .. L : F[c] = F[d] => c = d
    BY <1>2 DEF FreeOK
  <2> QED
    BY <1>4, <1>8, <2>1, <2>2, <2>3
<1>9. FreeOK(G)
  BY <1>4, <1>8 DEF FreeOK
<1> QED
  BY <1>3, <1>6, <1>9 DEF Live

\* The last request of a free list is taken off.
LEMMA FreeFront ==
  ASSUME NEW F, FreeOK(F), F # <<>>
  PROVE  /\ Last(F) \in Nodes \ {0} /\ Last(F) \notin Live(F)
         /\ FreeOK(Front(F)) /\ Live(Front(F)) = Live(F) \cup {Last(F)}
<1>1. F \in Seq(Nodes \ {0})
  BY DEF FreeOK
<1>2. PICK L \in Nat : L = Len(F) /\ L > 0
  BY <1>1, LenProperties, EmptySeq
<1>3. PICK x : x = Last(F)
  OBVIOUS
<1>4. x = F[L] /\ x \in Nodes \ {0}
  BY <1>1, <1>2, <1>3 DEF Last
<1>5. PICK G : G = Front(F)
  OBVIOUS
<1>6. G \in Seq(Nodes \ {0}) /\ Len(G) = L - 1 /\ \A k \in 1 .. (L - 1) : G[k] = F[k]
  <2>1. G = SubSeq(F, 1, L - 1)
    BY <1>2, <1>5 DEF Front
  <2> QED
    BY <1>1, <1>2, <2>1, SubSeqProperties
<1>7. ToSet(F) = {F[k] : k \in 1 .. L} /\ ToSet(G) = {G[k] : k \in 1 .. (L - 1)}
  BY <1>1, <1>2, <1>6 DEF ToSet
<1>8. ToSet(F) = ToSet(G) \cup {x}
  <2>1. 1 .. L = (1 .. (L - 1)) \cup {L}
    BY <1>2
  <2> QED
    BY <1>4, <1>6, <1>7, <2>1
<1>9. \A c, d \in 1 .. L : F[c] = F[d] => c = d
  BY <1>2 DEF FreeOK
<1>10. x \notin ToSet(G)
  <2>1. \A k \in 1 .. (L - 1) : k \in 1 .. L /\ k # L
    BY <1>2
  <2>2. L \in 1 .. L
    BY <1>2
  <2> QED
    BY <1>4, <1>6, <1>7, <1>9, <2>1, <2>2
<1>11. FreeOK(G)
  <2>1. \A k \in 1 .. (L - 1) : k \in 1 .. L
    BY <1>2
  <2> QED
    BY <1>6, <1>9, <2>1 DEF FreeOK
<1> QED
  BY <1>3, <1>4, <1>5, <1>8, <1>10, <1>11 DEF Live

\* Every request is free or in the tree.
LEMMA FreeCount ==
  ASSUME NEW F, FreeOK(F)
  PROVE  /\ Cardinality(Live(F)) + Len(F) = MAX_PRELOADER_REQUESTS
         /\ Len(F) \in Nat /\ Cardinality(Live(F)) \in Nat
         /\ Live(F) \cap ToSet(F) = {}
<1>1. F \in Seq(Nodes \ {0})
  BY DEF FreeOK
<1>2. PICK L \in Nat : L = Len(F)
  BY <1>1, LenProperties
<1>3. PICK A : A = ToSet(F)
  OBVIOUS
<1>4. A \subseteq Nodes /\ A = {F[k] : k \in 1 .. L}
  BY <1>1, <1>2, <1>3, RootLive DEF ToSet
<1>5. IsFiniteSet(A) /\ Cardinality(A) = L
  <2>1. PICK f : f = [k \in 1 .. L |-> F[k]]
    OBVIOUS
  <2>2. f \in [1 .. L -> A] /\ (\A x, y \in 1 .. L : f[x] = f[y] => x = y)
        /\ \A y \in A : \E x \in 1 .. L : f[x] = y
    BY <1>2, <1>4, <2>1 DEF FreeOK
  <2>3. f \in Bijection(1 .. L, A)
    BY <2>2, Fun_IsBij
  <2>4. ExistsBijection(1 .. L, A)
    BY <2>3 DEF ExistsBijection
  <2>5. IsFiniteSet(1 .. L) /\ Cardinality(1 .. L) = L
    <3>1. Cardinality(1 .. L) = L - 1 + 1
      BY FS_Interval
    <3> QED
      BY <3>1, FS_Interval
  <2> QED
    BY <2>4, <2>5, FS_Bijection
<1>6. PICK B : B = Live(F)
  OBVIOUS
<1>7. B = Nodes \ A /\ IsFiniteSet(B) /\ Cardinality(B) \in Nat
  BY <1>3, <1>6, LiveFinite DEF Live
<1>8. A \cup B = Nodes /\ A \cap B = {}
  BY <1>4, <1>7
<1>9. Cardinality(A \cup B) = Cardinality(A) + Cardinality(B) - Cardinality(A \cap B)
  BY <1>5, <1>7, FS_Union
<1>10. Cardinality(A \cap B) = 0
  BY <1>8, FS_EmptySet
<1>11. PICK m \in Nat : m = MAX_PRELOADER_REQUESTS
  BY PreloaderAssumption
<1>12. PICK b \in Nat : b = Cardinality(B)
  BY <1>7
<1>13. m = L + b
  BY <1>5, <1>8, <1>9, <1>10, <1>11, <1>12, NodesFinite
<1>14. b + L = m
  BY <1>13
<1> QED
  BY <1>2, <1>3, <1>6, <1>8, <1>11, <1>12, <1>14

-----------------------------------------------------------------------------
(* The references that are held to a path, other than by resources: by     *)
(* other users, by the live requests, by the list of persisted resources   *)
(* and by the instances that are destroyed after their PostCreate.         *)

ExternalAt(ext, p) == {n \in ext : CanonicalPath[n] = p}
NodesAt(R, F, p) == {i \in Live(F) : R[i].resource /\ PathOf(R[i]) = p}
Doomed(callbacks) == {k \in DOMAIN callbacks : callbacks[k].destroy}

UsedAt(ext, R, F, P, callbacks, p) ==
  Cardinality(ExternalAt(ext, p)) + Cardinality(NodesAt(R, F, p))
  + Times(p, P) + Cardinality(DoomedHoldersOf(callbacks, p))
Used(ext, R, F, P, callbacks) == [p \in Paths |-> UsedAt(ext, R, F, P, callbacks, p)]

\* The instances that are to be destroyed, as holders of references.
LEMMA DoomedHeld ==
  ASSUME NEW c \in Seq(Callbacks), NEW p
  PROVE  /\ DoomedHoldersOf(c, p) = HeldBy(Doomed(c), [k \in DOMAIN c |-> c[k].refs], p)
         /\ IsFiniteSet(Doomed(c)) /\ IsFiniteSet(DoomedHoldersOf(c, p))
         /\ Cardinality(DoomedHoldersOf(c, p)) \in Nat
         /\ \A k \in Doomed(c) : c[k].refs \in Seq(Paths)
<1>1. PICK L \in Nat : L = Len(c) /\ DOMAIN c = 1 .. L
  BY LenProperties
<1>2. Doomed(c) \subseteq 1 .. L
  BY <1>1 DEF Doomed
<1>3. IsFiniteSet(Doomed(c))
  <2>1. IsFiniteSet(1 .. L)
    BY FS_Interval
  <2> QED
    BY <1>2, <2>1, FS_Subset
<1>4. PICK refs : refs = [k \in DOMAIN c |-> c[k].refs]
  OBVIOUS
<1>5. \A k \in Doomed(c) : refs[k] = c[k].refs /\ c[k].refs \in Seq(Paths)
  <2> SUFFICES ASSUME NEW k \in Doomed(c) PROVE refs[k] = c[k].refs /\ c[k].refs \in Seq(Paths)
    OBVIOUS
  <2>1. k \in DOMAIN c /\ k \in 1 .. Len(c)
    BY <1>1, <1>2
  <2>2. c[k] \in Callbacks
    BY <2>1
  <2> QED
    BY <1>4, <2>1, <2>2 DEF Callbacks
<1>6. DoomedHoldersOf(c, p) = HeldBy(Doomed(c), refs, p)
  <2>1. \A x : x \in DoomedHoldersOf(c, p) <=>
                 \E k \in Doomed(c) : x \in {k} \X PlacesOf(p, c[k].refs)
    BY Zenon DEF DoomedHoldersOf, Doomed
  <2>2. \A x : x \in HeldBy(Doomed(c), refs, p) <=>
                 \E k \in Doomed(c) : x \in {k} \X PlacesOf(p, refs[k])
    BY HeldByMember
  <2>3. \A x : x \in DoomedHoldersOf(c, p) <=> x \in HeldBy(Doomed(c), refs, p)
    BY <1>5, <2>1, <2>2
  <2> QED
    BY <2>3
<1>7. IsFiniteSet(HeldBy(Doomed(c), refs, p)) /\ Cardinality(HeldBy(Doomed(c), refs, p)) \in Nat
  BY <1>3, <1>5, HeldByFinite
<1> QED
  BY <1>3, <1>4, <1>5, <1>6, <1>7

\* Whether the resource of a callback is still there changes nothing.
LEMMA DoomedSame ==
  ASSUME NEW a \in Seq(Callbacks), NEW b \in Seq(Callbacks), SameCallbacks(a, b), NEW p
  PROVE  DoomedHoldersOf(a, p) = DoomedHoldersOf(b, p)
<1>1. PICK L \in Nat : L = Len(a) /\ L = Len(b) /\ DOMAIN a = 1 .. L /\ DOMAIN b = 1 .. L
  BY LenProperties DEF SameCallbacks
<1>2. \A k \in 1 .. L : a[k].destroy = b[k].destroy /\ a[k].refs = b[k].refs
  BY <1>1 DEF SameCallbacks
<1>3. Doomed(a) = Doomed(b)
  BY <1>1, <1>2 DEF Doomed
<1>4. \A k \in Doomed(b) : k \in 1 .. L
  BY <1>1 DEF Doomed
<1>5. PICK ra, rb : ra = [k \in DOMAIN a |-> a[k].refs] /\ rb = [k \in DOMAIN b |-> b[k].refs]
  OBVIOUS
<1>6. \A k \in Doomed(b) : ra[k] = rb[k]
  BY <1>1, <1>2, <1>4, <1>5
<1>7. HeldBy(Doomed(b), ra, p) = HeldBy(Doomed(b), rb, p)
  BY <1>6, HeldBySame
<1> QED
  BY <1>3, <1>5, <1>7, DoomedHeld

\* A new callback whose instance is not to be destroyed.
LEMMA DoomedAppend ==
  ASSUME NEW c \in Seq(Callbacks), NEW x \in Callbacks, ~x.destroy, NEW p
  PROVE  DoomedHoldersOf(Append(c, x), p) = DoomedHoldersOf(c, p)
<1>1. PICK L \in Nat : L = Len(c) /\ DOMAIN c = 1 .. L
  BY LenProperties
<1>2. PICK d : d = Append(c, x)
  OBVIOUS
<1>3. /\ d \in Seq(Callbacks) /\ Len(d) = L + 1 /\ DOMAIN d = 1 .. (L + 1) /\ d[L + 1] = x
      /\ \A k \in 1 .. L : d[k] = c[k]
  BY <1>1, <1>2, AppendProperties
<1>4. 1 .. (L + 1) = (1 .. L) \cup {L + 1}
  BY <1>1
<1>5. Doomed(d) = Doomed(c)
  BY <1>1, <1>3, <1>4 DEF Doomed
<1>6. \A k \in Doomed(c) : k \in 1 .. L /\ k \in 1 .. (L + 1)
  BY <1>1, <1>4 DEF Doomed
<1>7. PICK rc, rd : rc = [k \in DOMAIN c |-> c[k].refs] /\ rd = [k \in DOMAIN d |-> d[k].refs]
  OBVIOUS
<1>8. \A k \in Doomed(c) : rc[k] = rd[k]
  BY <1>1, <1>3, <1>6, <1>7
<1>9. HeldBy(Doomed(c), rc, p) = HeldBy(Doomed(c), rd, p)
  BY <1>8, HeldBySame
<1> QED
  BY <1>2, <1>3, <1>5, <1>7, <1>9, DoomedHeld

\* The instance of the last callback is to be destroyed: it holds its references.
LEMMA DoomedLast ==
  ASSUME NEW c \in Seq(Callbacks), c # <<>>, ~c[Len(c)].destroy, NEW p
  PROVE  LET d == [c EXCEPT ![Len(c)].destroy = TRUE]
         IN  /\ d \in Seq(Callbacks) /\ c[Len(c)].refs \in Seq(Paths)
             /\ Cardinality(DoomedHoldersOf(d, p)) =
                  Cardinality(DoomedHoldersOf(c, p)) + Times(p, c[Len(c)].refs)
<1>1. PICK L \in Nat : L = Len(c) /\ DOMAIN c = 1 .. L /\ L > 0
  BY LenProperties, EmptySeq
<1>2. PICK r \in Callbacks : r = c[L] /\ ~r.destroy
  BY <1>1
<1>3. PICK q : q = [r EXCEPT !.destroy = TRUE]
  OBVIOUS
<1>4. q \in Callbacks /\ q.destroy /\ q.refs = r.refs /\ r.refs \in Seq(Paths)
  BY <1>2, <1>3 DEF Callbacks
<1>5. PICK d : d = [c EXCEPT ![L] = q]
  OBVIOUS
<1>6. /\ d \in Seq(Callbacks) /\ Len(d) = L /\ DOMAIN d = 1 .. L /\ d[L] = q
      /\ \A k \in 1 .. L : k # L => d[k] = c[k]
  BY <1>1, <1>4, <1>5, ExceptSeq
<1>7. d = [c EXCEPT ![Len(c)].destroy = TRUE]
  BY <1>1, <1>2, <1>3, <1>5
<1>8. Doomed(d) = Doomed(c) \cup {L} /\ L \notin Doomed(c) /\ L \in Doomed(d)
  BY <1>1, <1>2, <1>4, <1>6 DEF Doomed
<1>9. PICK rc, rd : rc = [k \in DOMAIN c |-> c[k].refs] /\ rd = [k \in DOMAIN d |-> d[k].refs]
  OBVIOUS
<1>10. \A k \in Doomed(c) : k \in 1 .. L /\ k # L
  BY <1>1, <1>8 DEF Doomed
<1>11. \A k \in Doomed(c) : rc[k] = rd[k]
  BY <1>1, <1>6, <1>9, <1>10
<1>12. HeldBy(Doomed(c), rc, p) = HeldBy(Doomed(c), rd, p)
  BY <1>11, HeldBySame
<1>13. Doomed(d) \ {L} = Doomed(c)
  BY <1>8
<1>14. rd[L] = r.refs
  BY <1>1, <1>4, <1>6, <1>9
<1>15. \A k \in Doomed(d) : rd[k] \in Seq(Paths)
  <2>1. \A k \in Doomed(d) : k \in DOMAIN d
    BY DEF Doomed
  <2>2. \A k \in Doomed(d) : d[k].refs \in Seq(Paths)
    BY <1>6, DoomedHeld
  <2> QED
    BY <1>9, <2>1, <2>2
<1>16. IsFiniteSet(Doomed(d))
  BY <1>6, DoomedHeld
<1>17. Cardinality(HeldBy(Doomed(d), rd, p)) =
         Cardinality(HeldBy(Doomed(d) \ {L}, rd, p)) + Times(p, rd[L])
  <2>1. PICK S : S = Doomed(d)
    OBVIOUS
  <2>2. IsFiniteSet(S)
    BY <1>16, <2>1
  <2>3. \A k \in S : rd[k] \in Seq(Paths)
    BY <1>15, <2>1
  <2>4. L \in S
    BY <1>8, <2>1
  <2>5. Cardinality(HeldBy(S, rd, p)) = Cardinality(HeldBy(S \ {L}, rd, p)) + Times(p, rd[L])
    <3>1. PICK x \in S : x = L
      BY <2>4
    <3>2. Cardinality(HeldBy(S, rd, p)) = Cardinality(HeldBy(S \ {x}, rd, p)) + Times(p, rd[x])
      BY <2>2, <2>3, HeldByWithout
    <3> QED
      BY <3>1, <3>2
  <2> QED
    BY <2>1, <2>5
<1>18. Cardinality(DoomedHoldersOf(d, p)) = Cardinality(DoomedHoldersOf(c, p)) + Times(p, r.refs)
  BY <1>6, <1>9, <1>12, <1>13, <1>14, <1>17, DoomedHeld
<1> QED
  BY <1>1, <1>2, <1>4, <1>6, <1>7, <1>18

\* The first callback is taken off: with it go the references of its instance, if that
\* is to be destroyed.
LEMMA DoomedTail ==
  ASSUME NEW c \in Seq(Callbacks), c # <<>>, NEW p
  PROVE  /\ Tail(c) \in Seq(Callbacks) /\ Head(c).refs \in Seq(Paths)
         /\ Cardinality(DoomedHoldersOf(c, p)) =
              Cardinality(DoomedHoldersOf(Tail(c), p))
              + Times(p, IF Head(c).destroy THEN Head(c).refs ELSE <<>>)
<1>1. PICK L \in Nat : L = Len(c) /\ DOMAIN c = 1 .. L /\ L > 0
  BY LenProperties, EmptySeq
<1>2. PICK d : d = Tail(c)
  OBVIOUS
<1>3. d \in Seq(Callbacks) /\ Len(d) = L - 1 /\ \A k \in 1 .. (L - 1) : d[k] = c[k + 1]
  BY <1>1, <1>2, HeadTailProperties
<1>4. DOMAIN d = 1 .. (L - 1)
  BY <1>1, <1>3, LenProperties
<1>5. PICK h \in Callbacks : h = Head(c) /\ h = c[1]
  BY <1>1
<1>6. h.refs \in Seq(Paths) /\ h.destroy \in BOOLEAN
  BY DEF Callbacks
<1>7. PICK S, rest : S = Doomed(c) /\ rest = S \ {1}
  OBVIOUS
<1>8. PICK rc, rd : rc = [k \in DOMAIN c |-> c[k].refs] /\ rd = [k \in DOMAIN d |-> d[k].refs]
  OBVIOUS
<1>9. IsFiniteSet(S) /\ IsFiniteSet(rest) /\ \A k \in S : rc[k] \in Seq(Paths)
  <2>1. IsFiniteSet(S) /\ \A k \in S : c[k].refs \in Seq(Paths)
    BY <1>7, DoomedHeld
  <2>2. \A k \in S : k \in DOMAIN c
    BY <1>7 DEF Doomed
  <2> QED
    BY <1>7, <1>8, <2>1, <2>2, FS_RemoveElement
<1>10. PICK a \in Nat : a = Cardinality(HeldBy(rest, rc, p))
  BY <1>7, <1>9, HeldByFinite
<1>11. Cardinality(DoomedHoldersOf(d, p)) = a
  <2>1. PICK b : b = [k \in rest |-> k - 1]
    OBVIOUS
  <2>2. PICK D : D = Doomed(d)
    OBVIOUS
  <2>3. \A k : k \in rest <=> k \in 2 .. L /\ c[k].destroy
    <3>1. \A k : k \in 2 .. L <=> k \in 1 .. L /\ k # 1
      BY <1>1
    <3> QED
      BY <1>1, <1>7, <3>1 DEF Doomed
  <2>4. \A k : k \in D <=> k \in 1 .. (L - 1) /\ c[k + 1].destroy
    BY <1>3, <1>4, <2>2 DEF Doomed
  <2>5. b \in [rest -> D]
    <3>1. ASSUME NEW k \in rest PROVE k - 1 \in D
      <4>1. k \in 2 .. L /\ c[k].destroy
        BY <2>3
      <4>2. k - 1 \in 1 .. (L - 1) /\ (k - 1) + 1 = k
        BY <1>1, <4>1
      <4> QED
        BY <2>4, <4>1, <4>2
    <3> QED
      BY <2>1, <3>1
  <2>6. \A x, y \in rest : b[x] = b[y] => x = y
    <3>1. \A x \in rest : x \in Int
      BY <1>1, <2>3
    <3> QED
      BY <2>1, <3>1
  <2>7. \A y \in D : \E x \in rest : b[x] = y
    <3> SUFFICES ASSUME NEW y \in D PROVE \E x \in rest : b[x] = y
      OBVIOUS
    <3>1. y \in 1 .. (L - 1) /\ c[y + 1].destroy
      BY <2>4
    <3>2. y + 1 \in 2 .. L /\ (y + 1) - 1 = y
      BY <1>1, <3>1
    <3>3. y + 1 \in rest
      BY <2>3, <3>1, <3>2
    <3> QED
      BY <2>1, <3>2, <3>3
  <2>8. b \in Bijection(rest, D)
    BY <2>5, <2>6, <2>7, Fun_IsBij
  <2>9. \A q \in rest : rd[b[q]] = rc[q]
    <3> SUFFICES ASSUME NEW q \in rest PROVE rd[b[q]] = rc[q]
      OBVIOUS
    <3>1. q \in 2 .. L
      BY <2>3
    <3>2. q - 1 \in 1 .. (L - 1) /\ (q - 1) + 1 = q /\ q \in 1 .. L
      BY <1>1, <3>1
    <3>3. d[q - 1] = c[q]
      BY <1>3, <3>2
    <3>4. b[q] = q - 1
      BY <2>1
    <3> QED
      BY <1>1, <1>4, <1>8, <3>2, <3>3, <3>4
  <2>10. \A q \in rest : rc[q] \in Seq(Paths)
    BY <1>7, <1>9
  <2>11. Cardinality(HeldBy(D, rd, p)) = Cardinality(HeldBy(rest, rc, p))
    BY <1>9, <2>8, <2>9, <2>10, HeldByRenamed
  <2> QED
    BY <1>3, <1>8, <1>10, <2>2, <2>11, DoomedHeld
<1>12. CASE h.destroy
  <2>1. 1 \in S
    BY <1>1, <1>5, <1>7, <1>12 DEF Doomed
  <2>2. Cardinality(HeldBy(S, rc, p)) = Cardinality(HeldBy(S \ {1}, rc, p)) + Times(p, rc[1])
    BY <1>9, <2>1, HeldByWithout
  <2>3. rc[1] = h.refs
    BY <1>1, <1>5, <1>8
  <2> QED
    BY <1>2, <1>3, <1>5, <1>6, <1>7, <1>8, <1>10, <1>11, <1>12, <2>2, <2>3, DoomedHeld
<1>13. CASE ~h.destroy
  <2>1. 1 \notin S
    BY <1>1, <1>5, <1>7, <1>13 DEF Doomed
  <2>2. rest = S
    BY <1>7, <2>1
  <2>3. Cardinality(DoomedHoldersOf(c, p)) = a
    BY <1>7, <1>8, <1>10, <2>2, DoomedHeld
  <2>4. Times(p, <<>>) = 0
    BY TimesEmpty
  <2>5. a = a + 0
    OBVIOUS
  <2> QED
    BY <1>2, <1>3, <1>5, <1>6, <1>11, <1>13, <2>3, <2>4, <2>5
<1> QED
  BY <1>6, <1>12, <1>13

\* The parts of Used are numbers.
LEMMA UsedType ==
  ASSUME NEW ext \in SUBSET Names, NEW R, NEW F, NEW P \in Seq(Paths), NEW c \in Seq(Callbacks)
  PROVE  /\ Used(ext, R, F, P, c) \in Users
         /\ \A p \in Paths : /\ Cardinality(ExternalAt(ext, p)) \in Nat
                             /\ Cardinality(NodesAt(R, F, p)) \in Nat
                             /\ Times(p, P) \in Nat
                             /\ Cardinality(DoomedHoldersOf(c, p)) \in Nat
                             /\ IsFiniteSet(ExternalAt(ext, p)) /\ IsFiniteSet(NodesAt(R, F, p))
                             /\ Used(ext, R, F, P, c)[p] =
                                  Cardinality(ExternalAt(ext, p)) + Cardinality(NodesAt(R, F, p))
                                  + Times(p, P) + Cardinality(DoomedHoldersOf(c, p))
<1>1. ASSUME NEW p \in Paths
      PROVE  /\ Cardinality(ExternalAt(ext, p)) \in Nat /\ Cardinality(NodesAt(R, F, p)) \in Nat
             /\ Times(p, P) \in Nat /\ Cardinality(DoomedHoldersOf(c, p)) \in Nat
             /\ IsFiniteSet(ExternalAt(ext, p)) /\ IsFiniteSet(NodesAt(R, F, p))
  <2>1. ExternalAt(ext, p) \subseteq Names
    BY DEF ExternalAt
  <2>2. IsFiniteSet(ExternalAt(ext, p))
    BY <2>1, NamesAssumption, FS_Subset
  <2>3. NodesAt(R, F, p) \subseteq Nodes
    BY DEF NodesAt, Live
  <2>4. IsFiniteSet(NodesAt(R, F, p)) /\ Cardinality(NodesAt(R, F, p)) \in Nat
    BY <2>3, LiveFinite
  <2> QED
    BY <2>2, <2>4, FS_CardinalityType, TimesType, DoomedHeld
<1>2. \A p \in Paths : Used(ext, R, F, P, c)[p] =
                         Cardinality(ExternalAt(ext, p)) + Cardinality(NodesAt(R, F, p))
                         + Times(p, P) + Cardinality(DoomedHoldersOf(c, p))
  BY DEF Used, UsedAt
<1>3. Used(ext, R, F, P, c) \in Users
  <2> HIDE <1>2
  <2> SUFFICES ASSUME NEW p \in Paths
               PROVE  Cardinality(ExternalAt(ext, p)) + Cardinality(NodesAt(R, F, p))
                      + Times(p, P) + Cardinality(DoomedHoldersOf(c, p)) \in Nat
    BY DEF Used, UsedAt, Users
  <2> QED
    BY <1>1
<1> QED
  BY <1>1, <1>2, <1>3

\* A table with the same users, and as many more references as a sequence has.
LEMMA UsedMore ==
  ASSUME NEW ext1 \in SUBSET Names, NEW R1, NEW F1, NEW P1 \in Seq(Paths), NEW c1 \in Seq(Callbacks),
         NEW ext2 \in SUBSET Names, NEW R2, NEW F2, NEW P2 \in Seq(Paths), NEW c2 \in Seq(Callbacks),
         NEW more \in Seq(Paths),
         \A p \in Paths : UsedAt(ext2, R2, F2, P2, c2, p) =
                            UsedAt(ext1, R1, F1, P1, c1, p) + Times(p, more)
  PROVE  Used(ext2, R2, F2, P2, c2) = Plus(Used(ext1, R1, F1, P1, c1), more)
<1>1. PICK u1, u2 : u1 = Used(ext1, R1, F1, P1, c1) /\ u2 = Used(ext2, R2, F2, P2, c2)
  OBVIOUS
<1>2. u1 \in Users /\ u2 \in Users
  BY <1>1, UsedType
<1>3. \A p \in Paths : u1[p] = UsedAt(ext1, R1, F1, P1, c1, p)
  BY <1>1 DEF Used
<1>4. \A p \in Paths : u2[p] = UsedAt(ext2, R2, F2, P2, c2, p)
  BY <1>1 DEF Used
<1>5. \A p \in Paths : u2[p] = u1[p] + Times(p, more)
  BY <1>3, <1>4
<1>6. Plus(u1, more) \in Users /\ \A p \in Paths : Plus(u1, more)[p] = u1[p] + Times(p, more)
  BY <1>2, PlusType
<1> QED
  BY <1>1, <1>2, <1>5, <1>6, UsersEqual

\* The order in which references are added does not matter.
LEMMA PlusSwap ==
  ASSUME NEW u \in Users, NEW a \in Seq(Paths), NEW b \in Seq(Paths)
  PROVE  Plus(Plus(u, a), b) = Plus(Plus(u, b), a)
<1>1. Plus(u, a) \in Users /\ \A p \in Paths : Plus(u, a)[p] = u[p] + Times(p, a)
  BY PlusType
<1>2. Plus(u, b) \in Users /\ \A p \in Paths : Plus(u, b)[p] = u[p] + Times(p, b)
  BY PlusType
<1>3. /\ Plus(Plus(u, a), b) \in Users
      /\ \A p \in Paths : Plus(Plus(u, a), b)[p] = Plus(u, a)[p] + Times(p, b)
  BY <1>1, PlusType
<1>4. /\ Plus(Plus(u, b), a) \in Users
      /\ \A p \in Paths : Plus(Plus(u, b), a)[p] = Plus(u, b)[p] + Times(p, a)
  BY <1>2, PlusType
<1>5. ASSUME NEW p \in Paths PROVE Plus(Plus(u, a), b)[p] = Plus(Plus(u, b), a)[p]
  <2>1. PICK x \in Nat, y \in Nat, z \in Nat : x = u[p] /\ y = Times(p, a) /\ z = Times(p, b)
    BY TimesType DEF Users
  <2>2. Plus(Plus(u, a), b)[p] = (x + y) + z /\ Plus(Plus(u, b), a)[p] = (x + z) + y
    BY <1>1, <1>2, <1>3, <1>4, <2>1
  <2> QED
    BY <2>2
<1> QED
  BY <1>3, <1>4, <1>5, UsersEqual

\* Callbacks that differ in whether their resource is there hold the same.
LEMMA UsedSameCallbacks ==
  ASSUME NEW ext, NEW R, NEW F, NEW P, NEW a \in Seq(Callbacks), NEW b \in Seq(Callbacks),
         SameCallbacks(a, b)
  PROVE  Used(ext, R, F, P, a) = Used(ext, R, F, P, b)
<1>1. \A p \in Paths : DoomedHoldersOf(a, p) = DoomedHoldersOf(b, p)
  BY DoomedSame
<1> QED
  BY <1>1 DEF Used, UsedAt

\* Requests that hold the same.
LEMMA UsedSameNodes ==
  ASSUME NEW ext, NEW R, NEW F, NEW P, NEW c, NEW Q,
         \A k \in Live(F) : Q[k].name = R[k].name /\ Q[k].resource = R[k].resource
  PROVE  Used(ext, Q, F, P, c) = Used(ext, R, F, P, c)
<1>1. \A k \in Live(F) : PathOf(Q[k]) = PathOf(R[k])
  BY DEF PathOf
<1>2. \A p \in Paths : NodesAt(Q, F, p) = NodesAt(R, F, p)
  BY <1>1 DEF NodesAt
<1> QED
  BY <1>2 DEF Used, UsedAt

\* One request less, which holds nothing.
LEMMA UsedWithoutIdleNode ==
  ASSUME NEW ext, NEW R, NEW F, NEW P, NEW c, NEW x, ~R[x].resource,
         NEW G, Live(G) = Live(F) \ {x}
  PROVE  Used(ext, R, F, P, c) = Used(ext, R, G, P, c)
<1>1. \A p \in Paths : NodesAt(R, G, p) = NodesAt(R, F, p)
  BY DEF NodesAt
<1> QED
  BY <1>1 DEF Used, UsedAt

\* One request less.
LEMMA UsedWithoutNode ==
  ASSUME NEW ext \in SUBSET Names, NEW R, NEW F, NEW P \in Seq(Paths), NEW c \in Seq(Callbacks),
         NEW x \in Live(F), NEW G, Live(G) = Live(F) \ {x}
  PROVE  R[x].resource /\ PathOf(R[x]) \in Paths =>
           Used(ext, R, F, P, c) = Plus(Used(ext, R, G, P, c), <<PathOf(R[x])>>)
<1>1. \A p \in Paths : NodesAt(R, G, p) = NodesAt(R, F, p) \ {x}
  BY DEF NodesAt
<1>3. ASSUME R[x].resource, PathOf(R[x]) \in Paths
      PROVE  Used(ext, R, F, P, c) = Plus(Used(ext, R, G, P, c), <<PathOf(R[x])>>)
  <2>1. PICK q \in Paths : q = PathOf(R[x])
    BY <1>3
  <2>2. <<q>> \in Seq(Paths)
    OBVIOUS
  <2>3. ASSUME NEW p \in Paths
        PROVE  UsedAt(ext, R, F, P, c, p) = UsedAt(ext, R, G, P, c, p) + Times(p, <<q>>)
    <3>1. Times(p, <<q>>) = IF p = q THEN 1 ELSE 0
      BY TimesSingle
    <3>2. PICK e \in Nat, t \in Nat, d \in Nat, n \in Nat :
            /\ e = Cardinality(ExternalAt(ext, p)) /\ t = Times(p, P)
            /\ d = Cardinality(DoomedHoldersOf(c, p)) /\ n = Cardinality(NodesAt(R, G, p))
      BY UsedType
    <3>3. IsFiniteSet(NodesAt(R, F, p))
      BY UsedType
    <3>4. CASE p = q
      <4>1. x \in NodesAt(R, F, p)
        BY <1>3, <2>1, <3>4 DEF NodesAt
      <4>2. Cardinality(NodesAt(R, G, p)) = Cardinality(NodesAt(R, F, p)) - 1
        BY <1>1, <3>3, <4>1, FS_RemoveElement
      <4>3. PICK m \in Nat : m = Cardinality(NodesAt(R, F, p))
        BY <3>3, FS_CardinalityType
      <4>4. m = n + 1
        BY <3>2, <4>2, <4>3
      <4>5. e + m + t + d = (e + n + t + d) + 1
        BY <4>4
      <4> QED
        BY <3>1, <3>2, <3>4, <4>3, <4>5 DEF UsedAt
    <3>5. CASE p # q
      <4>1. x \notin NodesAt(R, F, p)
        BY <2>1, <3>5 DEF NodesAt
      <4>2. NodesAt(R, G, p) = NodesAt(R, F, p)
        BY <1>1, <4>1
      <4>3. e + n + t + d = (e + n + t + d) + 0
        OBVIOUS
      <4> QED
        BY <3>1, <3>2, <3>5, <4>2, <4>3 DEF UsedAt
    <3> QED
      BY <3>4, <3>5
  <2>4. Used(ext, R, F, P, c) = Plus(Used(ext, R, G, P, c), <<q>>)
    <3>1. PICK more \in Seq(Paths) : more = <<q>>
      BY <2>2
    <3>2. \A p \in Paths : UsedAt(ext, R, F, P, c, p) = UsedAt(ext, R, G, P, c, p) + Times(p, more)
      BY <2>3, <3>1
    <3>3. Used(ext, R, F, P, c) = Plus(Used(ext, R, G, P, c), more)
      BY <3>2, UsedMore
    <3> QED
      BY <3>1, <3>3
  <2> QED
    BY <2>1, <2>4
<1> QED
  BY <1>3

\* A request that gets its resource.
LEMMA UsedWithNode ==
  ASSUME NEW ext \in SUBSET Names, NEW R, NEW F, NEW P \in Seq(Paths), NEW c \in Seq(Callbacks),
         NEW x \in Live(F), ~R[x].resource, PathOf(R[x]) \in Paths, NEW Q,
         \A k \in Live(F) : Q[k].name = R[k].name,
         \A k \in Live(F) \ {x} : Q[k].resource = R[k].resource, Q[x].resource
  PROVE  Used(ext, Q, F, P, c) = Plus(Used(ext, R, F, P, c), <<PathOf(R[x])>>)
<1>0. \A k \in Live(F) : PathOf(Q[k]) = PathOf(R[k])
  BY DEF PathOf
<1>1. PICK q \in Paths : q = PathOf(R[x])
  OBVIOUS
<1>2. <<q>> \in Seq(Paths)
  OBVIOUS
<1>3. ASSUME NEW p \in Paths
      PROVE  UsedAt(ext, Q, F, P, c, p) = UsedAt(ext, R, F, P, c, p) + Times(p, <<q>>)
  <2>1. Times(p, <<q>>) = IF p = q THEN 1 ELSE 0
    BY TimesSingle
  <2>2. PICK e \in Nat, t \in Nat, d \in Nat, n \in Nat :
          /\ e = Cardinality(ExternalAt(ext, p)) /\ t = Times(p, P)
          /\ d = Cardinality(DoomedHoldersOf(c, p)) /\ n = Cardinality(NodesAt(R, F, p))
    BY UsedType
  <2>3. IsFiniteSet(NodesAt(R, F, p))
    BY UsedType
  <2>4. CASE p = q
    <3>1. NodesAt(Q, F, p) = NodesAt(R, F, p) \cup {x} /\ x \notin NodesAt(R, F, p)
      BY <1>0, <1>1, <2>4 DEF NodesAt
    <3>2. Cardinality(NodesAt(Q, F, p)) = n + 1
      BY ZenonT(60), <2>2, <2>3, <3>1, FS_AddElement
    <3>3. e + (n + 1) + t + d = (e + n + t + d) + 1
      OBVIOUS
    <3> QED
      BY <2>1, <2>2, <2>4, <3>2, <3>3 DEF UsedAt
  <2>5. CASE p # q
    <3>1. NodesAt(Q, F, p) = NodesAt(R, F, p)
      BY <1>0, <1>1, <2>5 DEF NodesAt
    <3>2. e + n + t + d = (e + n + t + d) + 0
      OBVIOUS
    <3> QED
      BY <2>1, <2>2, <2>5, <3>1, <3>2 DEF UsedAt
  <2> QED
    BY <2>4, <2>5
<1>4. Used(ext, Q, F, P, c) = Plus(Used(ext, R, F, P, c), <<q>>)
  <2>1. PICK more \in Seq(Paths) : more = <<q>>
    BY <1>2
  <2>2. \A p \in Paths : UsedAt(ext, Q, F, P, c, p) = UsedAt(ext, R, F, P, c, p) + Times(p, more)
    BY <1>3, <2>1
  <2>3. Used(ext, Q, F, P, c) = Plus(Used(ext, R, F, P, c), more)
    BY <2>2, UsedMore
  <2> QED
    BY <2>1, <2>3
<1> QED
  BY <1>1, <1>4

\* A resource that is persisted.
LEMMA UsedPersisted ==
  ASSUME NEW ext \in SUBSET Names, NEW R, NEW F, NEW P \in Seq(Paths), NEW c \in Seq(Callbacks),
         NEW q \in Paths
  PROVE  Used(ext, R, F, Append(P, q), c) = Plus(Used(ext, R, F, P, c), <<q>>)
<1>1. <<q>> \in Seq(Paths) /\ Append(P, q) \in Seq(Paths)
  BY AppendProperties
<1>2. ASSUME NEW p \in Paths
      PROVE  UsedAt(ext, R, F, Append(P, q), c, p) = UsedAt(ext, R, F, P, c, p) + Times(p, <<q>>)
  <2>1. PICK e \in Nat, t \in Nat, d \in Nat, n \in Nat :
          /\ e = Cardinality(ExternalAt(ext, p)) /\ t = Times(p, P)
          /\ d = Cardinality(DoomedHoldersOf(c, p)) /\ n = Cardinality(NodesAt(R, F, p))
    BY UsedType
  <2>2. PICK m \in Nat : m = Times(p, <<q>>)
    BY <1>1, TimesType
  <2>3. Append(P, q) = P \o <<q>>
    OBVIOUS
  <2>4. Times(p, P \o <<q>>) = t + m
    BY <1>1, <2>1, <2>2, TimesConcat
  <2>5. e + n + (t + m) + d = (e + n + t + d) + m
    OBVIOUS
  <2> QED
    BY <2>1, <2>2, <2>3, <2>4, <2>5 DEF UsedAt
<1>3. PICK more \in Seq(Paths) : more = <<q>>
  BY <1>1
<1>4. PICK P2 \in Seq(Paths) : P2 = Append(P, q)
  BY <1>1
<1>5. \A p \in Paths : UsedAt(ext, R, F, P2, c, p) = UsedAt(ext, R, F, P, c, p) + Times(p, more)
  BY <1>2, <1>3, <1>4
<1>6. Used(ext, R, F, P2, c) = Plus(Used(ext, R, F, P, c), more)
  BY <1>5, UsedMore
<1> QED
  BY <1>3, <1>4, <1>6

-----------------------------------------------------------------------------
(* The factory's part of a tree state. *)

\* The reference counts are exact when the references in "inhand" are counted too.
Accounts(s, ext, inhand) ==
  Exact(Factory(s), Plus(Used(ext, s.req, s.free, s.persisted, s.post), inhand))

\* The parts of a tree state.
LEMMA TreeFields ==
  ASSUME NEW s \in TreeStates
  PROVE  /\ s.req \in [Nodes -> Requests] /\ s.free \in Seq(Nodes \ {0})
         /\ s.inProgress \in SUBSET Paths /\ s.persisted \in Seq(Paths)
         /\ s.post \in Seq(Callbacks) /\ s.res \in [Paths -> Resources] /\ s.abort \in Aborts
         /\ s = [req |-> s.req, free |-> s.free, inProgress |-> s.inProgress,
                 persisted |-> s.persisted, post |-> s.post, res |-> s.res, abort |-> s.abort]
BY DEF TreeStates

\* The factory of a tree state.
LEMMA FactoryOf ==
  ASSUME NEW s \in TreeStates
  PROVE  /\ Factory(s) \in FactoryStates
         /\ Factory(s).res = s.res /\ Factory(s).post = s.post /\ Factory(s).abort = s.abort
BY TreeFields DEF Factory, FactoryStates

\* A tree state with another factory.
LEMMA WithFactoryFields ==
  ASSUME NEW s \in TreeStates, NEW f \in FactoryStates
  PROVE  LET t == WithFactory(s, f)
         IN  /\ t \in TreeStates /\ Factory(t) = f
             /\ t.req = s.req /\ t.free = s.free /\ t.inProgress = s.inProgress
             /\ t.persisted = s.persisted /\ t.post = f.post /\ t.res = f.res /\ t.abort = f.abort
<1>1. f = [res |-> f.res, post |-> f.post, abort |-> f.abort] /\ f.res \in [Paths -> Resources]
      /\ f.post \in Seq(Callbacks) /\ f.abort \in Aborts
  BY FactoryFields
<1>2. PICK t : t = WithFactory(s, f)
  OBVIOUS
<1>3. /\ t \in TreeStates
      /\ t.req = s.req /\ t.free = s.free /\ t.inProgress = s.inProgress
      /\ t.persisted = s.persisted /\ t.post = f.post /\ t.res = f.res /\ t.abort = f.abort
  BY <1>1, <1>2 DEF TreeStates, WithFactory
<1>4. Factory(t) = f
  BY <1>1, <1>3 DEF Factory
<1> QED
  BY <1>2, <1>3, <1>4

\* Only the factory's part of the record counts.
LEMMA SameFactory ==
  ASSUME NEW s, NEW t, t.res = s.res, t.post = s.post, t.abort = s.abort
  PROVE  Factory(t) = Factory(s)
BY DEF Factory

\* References that are given back.
LEMMA ReleaseAllExact ==
  ASSUME NEW s \in TreeStates, NEW u \in Users, NEW paths \in Seq(Paths),
         Exact(Factory(s), Plus(u, paths))
  PROVE  LET t == ReleaseAll(s, paths)
         IN  /\ t \in TreeStates /\ Exact(Factory(t), u) /\ SameCallbacks(s.post, t.post)
             /\ t.req = s.req /\ t.free = s.free /\ t.inProgress = s.inProgress
             /\ t.persisted = s.persisted /\ t.abort = "none"
<1>1. PICK g : g = Release(Factory(s), paths)
  OBVIOUS
<1>2. Exact(g, u) /\ Progressed(Factory(s), g)
  BY <1>1, ReleaseExact
<1>3. g \in FactoryStates /\ g.abort = "none"
  BY <1>2 DEF Exact, Sane
<1>4. SameCallbacks(s.post, g.post)
  BY <1>2, FactoryOf DEF Progressed
<1>5. PICK t : t = WithFactory(s, g)
  OBVIOUS
<1>6. /\ t \in TreeStates /\ Factory(t) = g
      /\ t.req = s.req /\ t.free = s.free /\ t.inProgress = s.inProgress
      /\ t.persisted = s.persisted /\ t.post = g.post /\ t.abort = g.abort
  BY <1>3, <1>5, WithFactoryFields
<1>7. ReleaseAll(s, paths) = t
  BY <1>1, <1>5 DEF ReleaseAll
<1> QED
  BY <1>2, <1>3, <1>4, <1>6, <1>7

\* There is room in the list of persisted resources for the given names that are
\* still in the tree.
PersistRoom(count, F, P) ==
  /\ count \in Nat \ {0}
  /\ Len(P) + Cardinality(Live(F) \cap 1 .. (count - 1)) <= count - 1

\* A request that leaves the tree takes its reference with it, or leaves it in the list.
LEMMA ReleaseOrPersistExact ==
  ASSUME NEW s \in TreeStates, NEW ext \in SUBSET Names, NEW inhand \in Seq(Paths),
         Accounts(s, ext, inhand), NEW x \in Live(s.free), x # 0, s.req[x].name \notin Malformed,
         PersistRoom(persistCount, s.free, s.persisted),
         NEW G, Live(G) = Live(s.free) \ {x}
  PROVE  LET t == ReleaseOrPersist(s, x)
         IN  /\ t \in TreeStates /\ t.req = s.req /\ t.free = s.free
             /\ t.inProgress = s.inProgress /\ SameCallbacks(s.post, t.post)
             /\ Exact(Factory(t), Plus(Used(ext, t.req, G, t.persisted, t.post), inhand))
             /\ PersistRoom(persistCount, G, t.persisted)
<1>1. /\ s.req \in [Nodes -> Requests] /\ s.persisted \in Seq(Paths) /\ s.post \in Seq(Callbacks)
      /\ x \in Nodes
  BY TreeFields DEF Live
<1>2. PICK q \in Paths : q = PathOf(s.req[x])
  <2>1. s.req[x].name \in Names
    BY <1>1 DEF Requests
  <2> QED
    BY <2>1, NamesAssumption DEF PathOf
<1>3. PICK u \in Users : u = Used(ext, s.req, s.free, s.persisted, s.post)
  BY <1>1, UsedType
<1>4. PICK v \in Users : v = Used(ext, s.req, G, s.persisted, s.post)
  BY <1>1, UsedType
<1>5. Exact(Factory(s), Plus(u, inhand))
  BY <1>3 DEF Accounts
<1>6. PICK n \in Nat \ {0}, a \in Nat, b \in Nat, l \in Nat :
        /\ n = persistCount /\ a = Cardinality(Live(s.free) \cap 1 .. (n - 1))
        /\ b = Cardinality(Live(G) \cap 1 .. (n - 1)) /\ l = Len(s.persisted)
        /\ l + a <= n - 1 /\ b <= a /\ (x < n => b + 1 = a)
  <2>1. PICK n \in Nat \ {0} : n = persistCount
    BY DEF PersistRoom
  <2>2. PICK A : A = Live(s.free) \cap 1 .. (n - 1)
    OBVIOUS
  <2>3. PICK B : B = Live(G) \cap 1 .. (n - 1)
    OBVIOUS
  <2>4. IsFiniteSet(A) /\ B = A \ {x} /\ IsFiniteSet(B)
    <3>1. A \subseteq Nodes
      BY <2>2 DEF Live
    <3>2. B = A \ {x}
      BY <2>2, <2>3
    <3> QED
      BY <3>1, <3>2, LiveFinite, FS_RemoveElement
  <2>5. Cardinality(A) \in Nat /\ Cardinality(B) \in Nat
    BY <2>4, FS_CardinalityType
  <2>6. x \in A => Cardinality(B) = Cardinality(A) - 1
    BY <2>4, FS_RemoveElement
  <2>7. x \notin A => B = A
    BY <2>4
  <2>8. x < n => x \in A
    <3>1. x \in Nat
      BY <1>1, NodesFinite
    <3> QED
      BY <2>1, <2>2, <3>1
  <2>9. PICK a \in Nat, b \in Nat, l \in Nat :
          a = Cardinality(A) /\ b = Cardinality(B) /\ l = Len(s.persisted)
    BY <1>1, <2>5, LenProperties
  <2>10. l + a <= n - 1
    BY <2>1, <2>2, <2>9 DEF PersistRoom
  <2>11. b <= a /\ (x < n => b + 1 = a)
    <3>1. x \in A => b = a - 1
      BY <2>6, <2>9
    <3>2. x \notin A => b = a
      BY <2>7, <2>9
    <3>3. x < n => b = a - 1
      BY <2>8, <3>1
    <3>4. b <= a
      BY <3>1, <3>2
    <3> QED
      BY <3>3, <3>4
  <2> QED
    BY <2>1, <2>2, <2>3, <2>9, <2>10, <2>11
<1>7. PICK t : t = ReleaseOrPersist(s, x)
  OBVIOUS
<1>8. CASE ~s.req[x].resource
  <2>1. t = s
    BY <1>7, <1>8 DEF ReleaseOrPersist
  <2>2. u = v
    <3>1. PICK R, F, P, c : R = s.req /\ F = s.free /\ P = s.persisted /\ c = s.post
      OBVIOUS
    <3>2. P \in Seq(Paths) /\ c \in Seq(Callbacks) /\ x \in Live(F) /\ Live(G) = Live(F) \ {x}
          /\ ~R[x].resource
      BY <1>1, <1>8, <3>1
    <3>3. Used(ext, R, F, P, c) = Used(ext, R, G, P, c)
      BY <3>2, UsedWithoutIdleNode
    <3> QED
      BY <1>3, <1>4, <3>1, <3>3
  <2>3. PersistRoom(persistCount, G, s.persisted)
    <3>1. l + b <= n - 1
      BY <1>6
    <3> QED
      BY <1>6, <3>1 DEF PersistRoom
  <2> QED
    BY <1>4, <1>5, <1>7, <2>1, <2>2, <2>3, SameCallbacksReflexive
<1>9. CASE s.req[x].resource
  <2>0. <<q>> \in Seq(Paths)
    OBVIOUS
  <2>1. PICK more \in Seq(Paths) : more = <<q>>
    BY <2>0
  <2>2. u = Plus(v, more)
    BY <1>1, <1>2, <1>3, <1>4, <1>9, <2>1, UsedWithoutNode
  <2>3. CASE x < persistCount
    <3>1. PICK P \in Seq(Paths) : P = Append(s.persisted, q) /\ Len(P) = l + 1
      BY <1>1, <1>6, AppendProperties
    <3>2. t = [s EXCEPT !.persisted = P]
      BY <1>2, <1>7, <1>9, <2>3, <3>1 DEF ReleaseOrPersist, Persists
    <3>3. /\ t \in TreeStates /\ t.req = s.req /\ t.free = s.free /\ t.inProgress = s.inProgress
          /\ t.post = s.post /\ t.res = s.res /\ t.abort = s.abort /\ t.persisted = P
      BY <3>1, <3>2 DEF TreeStates
    <3>4. Factory(t) = Factory(s)
      BY <3>3, SameFactory
    <3>5. Used(ext, s.req, G, P, s.post) = Plus(v, more)
      BY <1>1, <1>4, <2>1, <3>1, UsedPersisted
    <3>6. PersistRoom(persistCount, G, P)
      <4>1. b + 1 = a
        BY <1>6, <2>3
      <4>2. (l + 1) + b <= n - 1
        BY <1>6, <4>1
      <4> QED
        BY <1>6, <3>1, <4>2 DEF PersistRoom
    <3> QED
      BY <1>5, <1>7, <2>2, <3>3, <3>4, <3>5, <3>6, SameCallbacksReflexive
  <2>4. CASE ~(x < persistCount)
    <3>1. t = ReleaseAll(s, more)
      BY <1>2, <1>7, <1>9, <2>1, <2>4 DEF ReleaseOrPersist, Persists
    <3>2. PICK w \in Users : w = Plus(v, inhand)
      BY PlusType
    <3>3. Plus(u, inhand) = Plus(w, more)
      <4>1. Plus(Plus(v, more), inhand) = Plus(Plus(v, inhand), more)
        BY PlusSwap
      <4> QED
        BY <2>2, <3>2, <4>1
    <3>4. /\ t \in TreeStates /\ Exact(Factory(t), w) /\ SameCallbacks(s.post, t.post)
          /\ t.req = s.req /\ t.free = s.free /\ t.inProgress = s.inProgress
          /\ t.persisted = s.persisted
      BY <1>5, <3>1, <3>3, ReleaseAllExact
    <3>5. t.post \in Seq(Callbacks)
      BY <3>4, TreeFields
    <3>6. Used(ext, s.req, G, s.persisted, t.post) = v
      BY <1>1, <1>4, <3>4, <3>5, UsedSameCallbacks
    <3>7. PersistRoom(persistCount, G, s.persisted)
      <4>1. l + b <= n - 1
        BY <1>6
      <4> QED
        BY <1>6, <4>1 DEF PersistRoom
    <3> QED
      BY <1>7, <3>2, <3>4, <3>6, <3>7
  <2> QED
    BY <2>3, <2>4
<1> QED
  BY <1>8, <1>9

-----------------------------------------------------------------------------
(* Changes of one request. *)

\* Nothing but request i is changed.
OnlyAt(s, t, i) ==
  /\ t \in TreeStates /\ \A k \in Nodes : k # i => t.req[k] = s.req[k]
  /\ t.free = s.free /\ t.inProgress = s.inProgress /\ t.persisted = s.persisted
  /\ t.post = s.post /\ t.res = s.res /\ t.abort = s.abort

\* Requests that differ in their place and in what they wait for only.
SameStatus(q, r) ==
  /\ q.name = r.name /\ q.loading = r.loading /\ q.buffer = r.buffer
  /\ q.result = r.result /\ q.resource = r.resource

\* One request is replaced.
LEMMA SetRequest ==
  ASSUME NEW s \in TreeStates, NEW i \in Nodes, NEW r \in Requests
  PROVE  OnlyAt(s, [s EXCEPT !.req[i] = r], i) /\ [s EXCEPT !.req[i] = r].req[i] = r
<1>1. PICK Q : Q = [s.req EXCEPT ![i] = r]
  OBVIOUS
<1>2. Q \in [Nodes -> Requests] /\ Q[i] = r /\ \A k \in Nodes : k # i => Q[k] = s.req[k]
  BY <1>1, TreeFields
<1>3. PICK t : t = [s EXCEPT !.req = Q]
  OBVIOUS
<1>4. /\ t \in TreeStates /\ t.req = Q /\ t.free = s.free /\ t.inProgress = s.inProgress
      /\ t.persisted = s.persisted /\ t.post = s.post /\ t.res = s.res /\ t.abort = s.abort
  BY <1>2, <1>3 DEF TreeStates
<1>5. t = [s EXCEPT !.req[i] = r]
  BY <1>1, <1>3
<1> QED
  BY <1>2, <1>4, <1>5 DEF OnlyAt

\* The list of children of a request begins elsewhere.
LEMMA SetFirst ==
  ASSUME NEW s \in TreeStates, NEW i \in Nodes, NEW v \in Nodes \cup {None}
  PROVE  LET t == [s EXCEPT !.req[i].first = v]
         IN  /\ OnlyAt(s, t, i) /\ SameStatus(t.req[i], s.req[i]) /\ t.req[i].first = v
             /\ t.req[i].pending = s.req[i].pending /\ t.req[i].parent = s.req[i].parent
             /\ t.req[i].next = s.req[i].next
<1>1. s.req[i] \in Requests
  BY TreeFields
<1>2. PICK r : r = [s.req[i] EXCEPT !.first = v]
  OBVIOUS
<1>3. /\ r \in Requests /\ SameStatus(r, s.req[i]) /\ r.first = v
      /\ r.pending = s.req[i].pending /\ r.parent = s.req[i].parent /\ r.next = s.req[i].next
  BY <1>1, <1>2 DEF Requests, SameStatus
<1>4. PICK t : t = [s EXCEPT !.req[i] = r]
  OBVIOUS
<1>5. OnlyAt(s, t, i) /\ t.req[i] = r
  BY <1>3, <1>4, SetRequest
<1>6. t = [s EXCEPT !.req[i].first = v]
  BY <1>2, <1>4
<1> QED
  BY <1>3, <1>5, <1>6

\* A request waits for another number of children.
LEMMA SetPending ==
  ASSUME NEW s \in TreeStates, NEW i \in Nodes, NEW v \in Int
  PROVE  LET t == [s EXCEPT !.req[i].pending = v]
         IN  /\ OnlyAt(s, t, i) /\ SameStatus(t.req[i], s.req[i]) /\ t.req[i].pending = v
             /\ SameLinks(t.req[i], s.req[i])
<1>1. s.req[i] \in Requests
  BY TreeFields
<1>2. PICK r : r = [s.req[i] EXCEPT !.pending = v]
  OBVIOUS
<1>3. r \in Requests /\ SameStatus(r, s.req[i]) /\ r.pending = v /\ SameLinks(r, s.req[i])
  BY <1>1, <1>2 DEF Requests, SameStatus, SameLinks
<1>4. PICK t : t = [s EXCEPT !.req[i] = r]
  OBVIOUS
<1>5. OnlyAt(s, t, i) /\ t.req[i] = r
  BY <1>3, <1>4, SetRequest
<1>6. t = [s EXCEPT !.req[i].pending = v]
  BY <1>2, <1>4
<1> QED
  BY <1>3, <1>5, <1>6

\* The parent of x waits for one child less; its assert holds.
LEMMA ParentWaitsForOneLess ==
  ASSUME NEW s \in TreeStates, NEW x \in Nodes, NEW p \in Nodes, s.req[x].parent = p,
         s.req[p].pending > 0
  PROVE  LET t == RemoveFromParentPendingCount(s, x)
         IN  /\ OnlyAt(s, t, p) /\ SameStatus(t.req[p], s.req[p]) /\ SameLinks(t.req[p], s.req[p])
             /\ t.req[p].pending = s.req[p].pending - 1
<1>1. s.req[p].pending \in Int
  BY TreeFields DEF Requests
<1>2. PICK v \in Int : v = s.req[p].pending - 1
  BY <1>1
<1>3. p # None
  BY NodesFinite
<1>4. Require(s, s.req[p].pending > 0, "RemoveFromParentPendingCount") = s
  BY DEF Require
<1>5. RemoveFromParentPendingCount(s, x) = [s EXCEPT !.req[p].pending = v]
  BY <1>2, <1>3, <1>4 DEF RemoveFromParentPendingCount
<1> QED
  <2>1. PICK t : t = [s EXCEPT !.req[p].pending = v]
    OBVIOUS
  <2>2. /\ OnlyAt(s, t, p) /\ SameStatus(t.req[p], s.req[p]) /\ t.req[p].pending = v
        /\ SameLinks(t.req[p], s.req[p])
    BY <2>1, SetPending
  <2> QED
    BY <1>2, <1>5, <2>1, <2>2

\* The rounds of RemoveChildren: the definition by recursion has a solution.
LEMMA RemoveRounds ==
  ASSUME NEW s, NEW i
  PROVE  \E g : /\ g[0] = s
                /\ \A n \in 1 .. MAX_PRELOADER_REQUESTS : g[n] = RemoveFirstChild(g[n - 1], i)
                /\ RemoveChildren(s, i) = Require(g[MAX_PRELOADER_REQUESTS], g[MAX_PRELOADER_REQUESTS].req[i].pending = 0, "RemoveChildren")
<1> DEFINE L == MAX_PRELOADER_REQUESTS
           after[n \in 0 .. MAX_PRELOADER_REQUESTS] ==
             IF n = 0 THEN s ELSE RemoveFirstChild(after[n - 1], i)
           Body(g, m) == [n \in 0 .. m |-> IF n = 0 THEN s ELSE RemoveFirstChild(g[n - 1], i)]
           S == {m \in 0 .. L : \E g : g = Body(g, m)}
<1>0. L \in Nat
  BY PreloaderAssumption
<1>1. 0 \in S
  <2>1. [n \in 0 .. 0 |-> s] = Body([n \in 0 .. 0 |-> s], 0)
    OBVIOUS
  <2> HIDE DEF Body
  <2> QED
    BY <1>0, <2>1
<1>2. ASSUME NEW m \in 0 .. L, m \in S, m < L PROVE m + 1 \in S
  <2>1. PICK g : g = Body(g, m)
    BY <1>2
  <2> DEFINE h == [n \in 0 .. m + 1 |-> IF n <= m THEN g[n] ELSE RemoveFirstChild(g[m], i)]
  <2>2. h = Body(h, m + 1)
    <3>1. ASSUME NEW n \in 0 .. m + 1 PROVE h[n] = Body(h, m + 1)[n]
      <4>1. CASE n = 0
        BY <2>1, <4>1
      <4>2. CASE n \in 1 .. m
        <5>1. n - 1 \in 0 .. m /\ h[n - 1] = g[n - 1] /\ h[n] = g[n]
          BY <4>2
        <5>2. n \in 0 .. m /\ n \in 0 .. m + 1 /\ n # 0
          BY <4>2
        <5>3. Body(g, m)[n] = RemoveFirstChild(g[n - 1], i)
          BY <5>2
        <5>4. Body(h, m + 1)[n] = RemoveFirstChild(h[n - 1], i)
          <6> HIDE DEF h
          <6> QED
            BY <5>2
        <5>5. g[n] = Body(g, m)[n]
          BY <2>1
        <5> HIDE DEF Body, h
        <5> QED
          BY <5>1, <5>3, <5>4, <5>5
      <4>3. CASE n = m + 1
        <5>1. h[n - 1] = g[m]
          BY <4>3
        <5> QED
          BY <4>3, <5>1
      <4> QED
        BY <4>1, <4>2, <4>3
    <3> QED
      BY <3>1
  <2> HIDE DEF Body, h
  <2>3. m + 1 \in 0 .. L /\ \E x : x = Body(x, m + 1)
    BY <1>0, <1>2, <2>2
  <2> QED
    BY <2>3
<1>3. 0 .. L \subseteq S
  <2> HIDE DEF S, L
  <2> QED
    BY <1>0, <1>1, <1>2, EveryRound
<1>4. \E g : g = Body(g, L)
  BY <1>0, <1>3
<1>5. after = Body(after, L)
  BY <1>4
<1>6. RemoveChildren(s, i) = Require(after[MAX_PRELOADER_REQUESTS], after[MAX_PRELOADER_REQUESTS].req[i].pending = 0, "RemoveChildren")
  BY DEF RemoveChildren
<1> HIDE DEF after
<1>7. after[0] = s
  BY <1>0, <1>5
<1>8. ASSUME NEW n \in 1 .. L PROVE after[n] = RemoveFirstChild(after[n - 1], i)
  <2>1. n \in 0 .. L /\ n # 0
    BY <1>0
  <2>2. Body(after, L)[n] = RemoveFirstChild(after[n - 1], i)
    <3> HIDE DEF L
    <3> QED
      BY <2>1
  <2> HIDE DEF Body
  <2> QED
    BY <1>5, <2>2
<1> QED
  BY <1>6, <1>7, <1>8

-----------------------------------------------------------------------------
(* RemoveChildren. *)

\* The children of i in the state s that are still there in the state c.
Left(s, c, i) == Kids(s.req, s.free, i) \cap Live(c.free)

\* The state c when some of the children of i in the state s have been removed.
Emptying(s, c, i, T, ext, inhand, count) ==
  /\ c \in TreeStates
  /\ \A k \in Nodes : k # i => c.req[k] = s.req[k]
  /\ SameStatus(c.req[i], s.req[i])
  /\ c.req[i].parent = s.req[i].parent /\ c.req[i].next = s.req[i].next
  /\ c.inProgress = s.inProgress /\ SameCallbacks(s.post, c.post)
  /\ FreeOK(c.free) /\ Live(c.free) \subseteq Live(s.free)
  /\ Live(s.free) \ Kids(s.req, s.free, i) \subseteq Live(c.free)
  /\ c.req[i].pending = Cardinality({k \in Left(s, c, i) : s.req[k].result = PENDING})
  /\ c.req[i].first = None => Left(s, c, i) = {}
  /\ c.req[i].first # None =>
       /\ c.req[i].first \in Left(s, c, i)
       /\ Left(s, c, i) = {k \in Kids(s.req, s.free, i) : T[k] <= T[c.req[i].first]}
  /\ Accounts(c, ext, inhand) /\ PersistRoom(count, c.free, c.persisted)

\* The children of i can be removed one after the other, in the order of their stamps.
Removable(s, i, T, B) ==
  /\ s \in TreeStates /\ Shape(s.req, s.free) /\ Stamped(s.free, T, B)
  /\ Linked(s.req, s.free, T) /\ i \in Live(s.free)
  /\ \A k \in Kids(s.req, s.free, i) :
       s.req[k].first = None /\ s.req[k].pending = 0 /\ s.req[k].name \notin Malformed

\* A round removes the first child: its assert holds.
LEMMA RemoveFirstChildEffect ==
  ASSUME NEW s, NEW i, NEW T, NEW B, Removable(s, i, T, B),
         NEW ext \in SUBSET Names, NEW inhand \in Seq(Paths),
         NEW c, Emptying(s, c, i, T, ext, inhand, persistCount), c.req[i].first # None
  PROVE  /\ Emptying(s, RemoveFirstChild(c, i), i, T, ext, inhand, persistCount)
         /\ Left(s, RemoveFirstChild(c, i), i) = Left(s, c, i) \ {c.req[i].first}
<1>0. /\ s \in TreeStates /\ Shape(s.req, s.free) /\ Stamped(s.free, T, B)
      /\ Linked(s.req, s.free, T) /\ i \in Live(s.free)
      /\ \A k \in Kids(s.req, s.free, i) :
           s.req[k].first = None /\ s.req[k].pending = 0 /\ s.req[k].name \notin Malformed
  BY DEF Removable
<1> USE <1>0
<1>1. PICK x : x = c.req[i].first
  OBVIOUS
<1>2. /\ x \in Left(s, c, i) /\ x \in Kids(s.req, s.free, i) /\ x \in Live(s.free)
      /\ x \in Live(c.free) /\ x \in Nodes /\ i \in Nodes
      /\ Left(s, c, i) = {k \in Kids(s.req, s.free, i) : T[k] <= T[x]}
  BY <1>1 DEF Emptying, Left, Kids, Live
<1>3. x # i /\ x # 0
  <2>1. i \notin Kids(s.req, s.free, i)
    BY NoFirstChild
  <2>2. 0 \notin Kids(s.req, s.free, i)
    BY <1>2, NodesFinite DEF Linked, Kids
  <2> QED
    BY <1>2, <2>1, <2>2
<1>4. /\ c \in TreeStates /\ c.req[x] = s.req[x] /\ c.req[x].parent = i
      /\ c.req[x].first = None /\ c.req[x].pending = 0 /\ c.req[x].name \notin Malformed
  BY <1>2, <1>3 DEF Emptying, Kids
<1>5. c.abort = "none" /\ s.req[x] \in Requests
  <2>1. Factory(c).abort = "none"
    BY DEF Emptying, Accounts, Exact, Sane
  <2> QED
    BY <1>2, <1>4, <2>1, FactoryOf, TreeFields
<1>6. RemoveFirstChild(c, i) = PreloaderRemoveLeaf(c, x)
  BY <1>1, <1>5 DEF RemoveFirstChild
<1>7. Require(c, IsFirstLeaf(c, x), "PreloaderRemoveLeaf") = c
  BY <1>1, <1>4 DEF Require, IsFirstLeaf
<1>8. PICK G : G = Append(c.free, x)
  OBVIOUS
<1>9. FreeOK(G) /\ Live(G) = Live(c.free) \ {x}
  BY <1>2, <1>3, <1>8, FreeAppend DEF Emptying
<1>10. PICK c1 : c1 = ReleaseOrPersist(c, x)
  OBVIOUS
<1>11. /\ c1 \in TreeStates /\ c1.req = c.req /\ c1.free = c.free
       /\ c1.inProgress = c.inProgress /\ SameCallbacks(c.post, c1.post)
       /\ Exact(Factory(c1), Plus(Used(ext, c1.req, G, c1.persisted, c1.post), inhand))
       /\ PersistRoom(persistCount, G, c1.persisted)
  <2>1. Accounts(c, ext, inhand) /\ PersistRoom(persistCount, c.free, c.persisted)
    BY DEF Emptying
  <2> QED
    BY <1>2, <1>3, <1>4, <1>9, <1>10, <2>1, ReleaseOrPersistExact
<1>12. PICK v \in Nodes \cup {None} : v = s.req[x].next
  BY <1>5 DEF Requests
<1>14. PICK c2 : c2 = Unlink(c1, x)
  OBVIOUS
<1>15. /\ OnlyAt(c1, c2, i) /\ SameStatus(c2.req[i], c1.req[i]) /\ c2.req[i].first = v
       /\ c2.req[i].pending = c1.req[i].pending /\ c2.req[i].parent = c1.req[i].parent
       /\ c2.req[i].next = c1.req[i].next
  <2>1. c2 = [c1 EXCEPT !.req[i].first = v]
    BY <1>4, <1>11, <1>12, <1>14 DEF Unlink
  <2>2. c1 \in TreeStates /\ i \in Nodes
    BY <1>2, <1>11
  <2> HIDE <1>0
  <2> QED
    BY SMTT(60), <2>1, <2>2, SetFirst
<1>16. c2 \in TreeStates /\ c2.req[x] = s.req[x] /\ c2.req[x].parent = i
  BY <1>2, <1>3, <1>4, <1>11, <1>15 DEF OnlyAt
<1>17. PICK A : A = {k \in Left(s, c, i) : s.req[k].result = PENDING}
  OBVIOUS
<1>18. PICK n \in Nat : n = Cardinality(A)
  <2>1. A \subseteq Nodes
    BY <1>17 DEF Left, Live
  <2> QED
    BY <2>1, LiveFinite
<1>19. IsFiniteSet(A) /\ c.req[i].pending = n
  <2>1. A \subseteq Nodes
    BY <1>17 DEF Left, Live
  <2> QED
    BY <1>17, <1>18, <2>1, LiveFinite DEF Emptying
<1>20. x \in A => n > 0 /\ Cardinality(A \ {x}) = n - 1
  <2>1. ASSUME x \in A PROVE n > 0 /\ Cardinality(A \ {x}) = n - 1
    <3>1. Cardinality(A \ {x}) = n - 1 /\ IsFiniteSet(A \ {x})
      BY <1>18, <1>19, <2>1, FS_RemoveElement
    <3>2. n # 0
      BY <1>18, <1>19, <2>1, FS_EmptySet
    <3> QED
      BY <1>18, <3>1, <3>2
  <2> QED
    BY <2>1
<1>21. PICK c3 : c3 = ForgetPending(c2, x)
  OBVIOUS
<1>22. /\ OnlyAt(c1, c3, i) /\ SameStatus(c3.req[i], c1.req[i]) /\ c3.req[i].first = v
       /\ c3.req[i].pending = Cardinality(A \ {x}) /\ c3.req[i].parent = c1.req[i].parent
       /\ c3.req[i].next = c1.req[i].next
  <2>1. CASE s.req[x].result = PENDING
    <3>1. x \in A
      BY <1>2, <1>17, <2>1
    <3>2. c3 = RemoveFromParentPendingCount(c2, x)
      BY <1>16, <1>21, <2>1 DEF ForgetPending
    <3>3. c2.req[i].pending = n /\ n > 0
      BY <1>11, <1>15, <1>19, <1>20, <3>1
    <3>4. /\ OnlyAt(c2, c3, i) /\ SameStatus(c3.req[i], c2.req[i]) /\ SameLinks(c3.req[i], c2.req[i])
          /\ c3.req[i].pending = c2.req[i].pending - 1
      BY <1>2, <1>16, <3>2, <3>3, ParentWaitsForOneLess
    <3>5. OnlyAt(c1, c3, i)
      BY <1>15, <3>4 DEF OnlyAt
    <3> QED
      BY <1>15, <1>20, <3>1, <3>3, <3>4, <3>5 DEF SameStatus, SameLinks
  <2>2. CASE s.req[x].result # PENDING
    <3>1. c3 = c2
      BY <1>16, <1>21, <2>2 DEF ForgetPending
    <3>2. A \ {x} = A
      BY <1>17, <2>2
    <3> QED
      BY <1>11, <1>15, <1>18, <1>19, <3>1, <3>2
  <2> QED
    BY <2>1, <2>2
<1>23. PICK d : d = [c3 EXCEPT !.free = G]
  OBVIOUS
<1>24. RemoveFirstChild(c, i) = d
  <2>1. c3.free = c.free
    BY <1>11, <1>22 DEF OnlyAt
  <2>2. PreloaderRemoveLeaf(c, x) = [c3 EXCEPT !.free = Append(@, x)]
    BY <1>7, <1>10, <1>14, <1>21 DEF PreloaderRemoveLeaf
  <2>3. [c3 EXCEPT !.free = Append(@, x)] = [c3 EXCEPT !.free = Append(c3.free, x)]
    OBVIOUS
  <2> QED
    BY <1>6, <1>8, <1>23, <2>1, <2>2, <2>3
<1>25. /\ d \in TreeStates /\ d.req = c3.req /\ d.free = G /\ d.inProgress = c3.inProgress
       /\ d.persisted = c3.persisted /\ d.post = c3.post /\ d.res = c3.res /\ d.abort = c3.abort
  <2>1. c3 \in TreeStates /\ G \in Seq(Nodes \ {0})
    BY <1>9, <1>22 DEF OnlyAt, FreeOK
  <2> QED
    BY <1>23, <2>1 DEF TreeStates
<1>26. Left(s, d, i) = Left(s, c, i) \ {x}
  BY <1>9, <1>25 DEF Left
<1>27. d.req[i].pending = Cardinality({k \in Left(s, d, i) : s.req[k].result = PENDING})
  <2>1. {k \in Left(s, d, i) : s.req[k].result = PENDING} = A \ {x}
    BY <1>17, <1>26
  <2> QED
    BY <1>22, <1>25, <2>1
<1>28. /\ d.req[i].first = None => Left(s, d, i) = {}
       /\ d.req[i].first # None =>
            /\ d.req[i].first \in Left(s, d, i)
            /\ Left(s, d, i) = {k \in Kids(s.req, s.free, i) : T[k] <= T[d.req[i].first]}
  <2>1. d.req[i].first = v
    BY <1>22, <1>25
  <2>2. NextOK(s.req, s.free, T, x) /\ s.req[x].parent = i
    BY <1>2, <1>3, <1>4 DEF Linked
  <2>3. \A k \in Kids(s.req, s.free, i) : T[k] \in Nat /\ (T[k] = T[x] => k = x)
    <3>1. \A k \in Kids(s.req, s.free, i) : k \in Live(s.free) /\ k \in Nodes
      BY DEF Kids, Live
    <3> QED
      BY <1>2, <3>1 DEF Stamped
  <2>4. CASE v = None
    <3>1. \A k \in Kids(s.req, s.free, i) : T[x] <= T[k]
      BY <1>12, <2>2, <2>4 DEF NextOK
    <3>2. \A k \in Left(s, c, i) : k = x
      <4> SUFFICES ASSUME NEW k \in Left(s, c, i) PROVE k = x
        OBVIOUS
      <4>1. k \in Kids(s.req, s.free, i) /\ T[k] <= T[x] /\ T[x] <= T[k]
        BY <1>2, <3>1
      <4>2. T[k] \in Nat /\ T[x] \in Nat
        BY <1>2, <2>3, <4>1
      <4>3. T[k] = T[x]
        BY <4>1, <4>2
      <4> QED
        BY <2>3, <4>1, <4>3
    <3> QED
      BY <1>26, <2>1, <2>4, <3>2
  <2>5. CASE v # None
    <3>1. /\ v \in Kids(s.req, s.free, i) /\ T[v] < T[x]
          /\ \A k \in Kids(s.req, s.free, i) : T[k] <= T[v] \/ T[x] <= T[k]
      BY <1>12, <2>2, <2>5 DEF NextOK
    <3>2. T[v] \in Nat /\ T[x] \in Nat
      BY <1>2, <2>3, <3>1
    <3>3. ASSUME NEW k \in Kids(s.req, s.free, i)
          PROVE  (T[k] <= T[x] /\ k # x) <=> T[k] <= T[v]
      <4>1. T[k] \in Nat /\ (T[k] = T[x] => k = x) /\ (T[k] <= T[v] \/ T[x] <= T[k])
        BY <2>3, <3>1
      <4>2. k = x => ~(T[k] <= T[v])
        BY <3>1, <3>2
      <4> QED
        BY <3>1, <3>2, <4>1, <4>2
    <3>4. Left(s, d, i) = {k \in Kids(s.req, s.free, i) : T[k] <= T[v]}
      BY <1>2, <1>26, <3>3
    <3>5. v \in Left(s, d, i)
      BY <3>1, <3>2, <3>4
    <3> QED
      BY <2>1, <2>5, <3>4, <3>5
  <2> QED
    BY <2>4, <2>5
<1>29. Accounts(d, ext, inhand) /\ PersistRoom(persistCount, d.free, d.persisted)
  <2>1. /\ d.persisted = c1.persisted /\ d.post = c1.post /\ d.res = c1.res /\ d.abort = c1.abort
    BY <1>22, <1>25 DEF OnlyAt
  <2>2. Factory(d) = Factory(c1)
    BY <2>1, SameFactory
  <2>3. \A k \in Live(G) : d.req[k].name = c1.req[k].name /\ d.req[k].resource = c1.req[k].resource
    BY <1>22, <1>25 DEF OnlyAt, SameStatus, Live
  <2>4. Used(ext, d.req, G, c1.persisted, c1.post) = Used(ext, c1.req, G, c1.persisted, c1.post)
    BY <2>3, UsedSameNodes
  <2> QED
    BY <1>11, <1>25, <2>1, <2>2, <2>4 DEF Accounts
<1>30. /\ \A k \in Nodes : k # i => d.req[k] = s.req[k]
       /\ SameStatus(d.req[i], s.req[i])
       /\ d.req[i].parent = s.req[i].parent /\ d.req[i].next = s.req[i].next
  BY <1>11, <1>22, <1>25 DEF OnlyAt, Emptying, SameStatus
<1>31. d.inProgress = s.inProgress /\ SameCallbacks(s.post, d.post)
  <2>1. d.inProgress = c1.inProgress /\ d.post = c1.post
    BY <1>22, <1>25 DEF OnlyAt
  <2> QED
    BY <1>11, <2>1, SameCallbacksTransitive DEF Emptying
<1>32. /\ FreeOK(d.free) /\ Live(d.free) \subseteq Live(s.free)
       /\ Live(s.free) \ Kids(s.req, s.free, i) \subseteq Live(d.free)
  BY <1>2, <1>9, <1>25 DEF Emptying
<1>33. Emptying(s, d, i, T, ext, inhand, persistCount)
  BY <1>25, <1>27, <1>28, <1>29, <1>30, <1>31, <1>32 DEF Emptying
<1> QED
  BY <1>1, <1>24, <1>26, <1>33

\* The state t after RemoveChildren: the request i has no children, nothing else in the
\* tree has changed, and the references of the children are given back or in the list.
Emptied(s, t, i, ext, inhand, count) ==
  /\ t \in TreeStates
  /\ \A k \in Nodes : k # i => t.req[k] = s.req[k]
  /\ SameStatus(t.req[i], s.req[i])
  /\ t.req[i].parent = s.req[i].parent /\ t.req[i].next = s.req[i].next
  /\ t.req[i].first = None /\ t.req[i].pending = 0
  /\ t.inProgress = s.inProgress /\ SameCallbacks(s.post, t.post)
  /\ FreeOK(t.free) /\ Live(t.free) = Live(s.free) \ Kids(s.req, s.free, i)
  /\ Accounts(t, ext, inhand) /\ PersistRoom(count, t.free, t.persisted)

\* RemoveChildren removes all the children, and its assert holds.
LEMMA RemoveChildrenEffect ==
  ASSUME NEW s \in TreeStates, Shape(s.req, s.free), NEW i \in Live(s.free),
         \A k \in Kids(s.req, s.free, i) :
           s.req[k].first = None /\ s.req[k].pending = 0 /\ s.req[k].name \notin Malformed,
         s.req[i].pending = Cardinality(PendingKids(s.req, s.free, i)),
         NEW ext \in SUBSET Names, NEW inhand \in Seq(Paths), Accounts(s, ext, inhand),
         PersistRoom(persistCount, s.free, s.persisted)
  PROVE  Emptied(s, RemoveChildren(s, i), i, ext, inhand, persistCount)
<1>1. PICK T, B : Stamped(s.free, T, B) /\ Linked(s.req, s.free, T)
  BY DEF Shape
<1>14. Removable(s, i, T, B)
  BY <1>1 DEF Removable
<1>2. PICK M \in Nat : M = MAX_PRELOADER_REQUESTS
  BY PreloaderAssumption
<1>3. PICK g : /\ g[0] = s
               /\ \A n \in 1 .. M : g[n] = RemoveFirstChild(g[n - 1], i)
               /\ RemoveChildren(s, i) = Require(g[M], g[M].req[i].pending = 0, "RemoveChildren")
  BY <1>2, RemoveRounds
<1> DEFINE Good(c, n) == /\ Emptying(s, c, i, T, ext, inhand, persistCount)
                         /\ c.req[i].first # None => Cardinality(Left(s, c, i)) + n <= M
           S == {n \in 0 .. M : Good(g[n], n)}
<1>4. 0 \in S
  <2>1. Left(s, s, i) = Kids(s.req, s.free, i)
    BY DEF Left, Kids
  <2>2. FreeOK(s.free)
    BY DEF Shape
  <2>3. {k \in Left(s, s, i) : s.req[k].result = PENDING} = PendingKids(s.req, s.free, i)
    BY <2>1 DEF PendingKids
  <2>4. FirstOK(s.req, s.free, T, i)
    BY <1>1 DEF Linked
  <2>5. s.req[i].first # None =>
          Left(s, s, i) = {k \in Kids(s.req, s.free, i) : T[k] <= T[s.req[i].first]}
    BY <2>1, <2>4 DEF FirstOK
  <2>6. /\ s.req[i].first = None => Left(s, s, i) = {}
        /\ s.req[i].first # None => s.req[i].first \in Left(s, s, i)
    BY <2>1, <2>4 DEF FirstOK
  <2>7. Emptying(s, s, i, T, ext, inhand, persistCount)
    BY <2>2, <2>3, <2>5, <2>6, SameCallbacksReflexive DEF Emptying, SameStatus
  <2>8. Cardinality(Left(s, s, i)) \in Nat /\ Cardinality(Left(s, s, i)) <= M
    <3>1. Left(s, s, i) \subseteq Nodes
      BY DEF Left, Live
    <3> QED
      BY <1>2, <3>1, LiveFinite
  <2>9. Cardinality(Left(s, s, i)) + 0 <= M
    BY <2>8
  <2>10. Good(g[0], 0)
    BY <1>3, <2>7, <2>9
  <2> HIDE DEF Good
  <2> QED
    BY <2>10
<1>5. ASSUME NEW n \in 0 .. M, n \in S, n < M PROVE n + 1 \in S
  <2>1. n + 1 \in 1 .. M /\ n + 1 \in 0 .. M /\ (n + 1) - 1 = n
    BY <1>5
  <2>2. PICK c : c = g[n]
    OBVIOUS
  <2>3. PICK d : d = RemoveFirstChild(c, i)
    OBVIOUS
  <2>4. g[n + 1] = d
    BY <1>3, <2>1, <2>2, <2>3
  <2>5. Good(c, n)
    BY <1>5, <2>2
  <2>6. CASE c.req[i].first = None
    <3>1. d = c
      BY <2>3, <2>6 DEF RemoveFirstChild
    <3>2. Good(d, n + 1)
      BY <2>5, <2>6, <3>1
    <3> HIDE DEF Good
    <3> QED
      BY <2>1, <2>4, <3>2
  <2>7. CASE c.req[i].first # None
    <3>1. PICK x : x = c.req[i].first
      OBVIOUS
    <3>2. Emptying(s, d, i, T, ext, inhand, persistCount) /\ Left(s, d, i) = Left(s, c, i) \ {x}
      <4>1. Emptying(s, c, i, T, ext, inhand, persistCount)
        BY <2>5
      <4> HIDE DEF Good, S
      <4>2. /\ Emptying(s, RemoveFirstChild(c, i), i, T, ext, inhand, persistCount)
            /\ Left(s, RemoveFirstChild(c, i), i) = Left(s, c, i) \ {c.req[i].first}
        BY <1>14, <2>7, <4>1, RemoveFirstChildEffect
      <4> QED
        BY <2>3, <3>1, <4>2
    <3>3. x \in Left(s, c, i)
      BY <2>5, <2>7, <3>1 DEF Emptying
    <3>4. IsFiniteSet(Left(s, c, i))
      <4>1. Left(s, c, i) \subseteq Nodes
        BY DEF Left, Live
      <4> QED
        BY <4>1, LiveFinite
    <3>5. Cardinality(Left(s, d, i)) = Cardinality(Left(s, c, i)) - 1
      <4>1. PICK A : A = Left(s, c, i)
        OBVIOUS
      <4>2. Cardinality(A \ {x}) = Cardinality(A) - 1
        BY <3>3, <3>4, <4>1, FS_RemoveElement
      <4> QED
        BY <3>2, <4>1, <4>2
    <3>6. PICK a \in Nat : a = Cardinality(Left(s, c, i))
      BY <3>4, FS_CardinalityType
    <3>7. (a - 1) + (n + 1) <= M
      BY <2>5, <2>7, <3>6
    <3>8. Good(d, n + 1)
      BY <3>2, <3>5, <3>6, <3>7
    <3> HIDE DEF Good
    <3> QED
      BY <2>1, <2>4, <3>8
  <2> QED
    BY <2>6, <2>7
<1>6. 0 .. M \subseteq S
  <2> HIDE DEF S
  <2> QED
    BY <1>4, <1>5, EveryRound
<1>7. PICK t : t = g[M]
  OBVIOUS
<1>8. Good(t, M)
  BY <1>6, <1>7
<1>9. t.req[i].first = None
  <2> SUFFICES ASSUME t.req[i].first # None PROVE FALSE
    OBVIOUS
  <2>1. t.req[i].first \in Left(s, t, i) /\ Cardinality(Left(s, t, i)) + M <= M
    BY <1>8 DEF Emptying
  <2>2. IsFiniteSet(Left(s, t, i))
    <3>1. Left(s, t, i) \subseteq Nodes
      BY DEF Left, Live
    <3> QED
      BY <3>1, LiveFinite
  <2>3. PICK a \in Nat : a = Cardinality(Left(s, t, i))
    BY <2>2, FS_CardinalityType
  <2>4. a = 0
    BY <2>1, <2>3
  <2> QED
    BY <2>1, <2>2, <2>3, <2>4, FS_EmptySet
<1>10. Left(s, t, i) = {}
  BY <1>8, <1>9 DEF Emptying
<1>11. t.req[i].pending = 0
  <2>1. {k \in Left(s, t, i) : s.req[k].result = PENDING} = {}
    BY <1>10
  <2> QED
    BY <1>8, <2>1, FS_EmptySet DEF Emptying
<1>12. RemoveChildren(s, i) = t
  BY <1>3, <1>7, <1>11 DEF Require
<1>13. Live(t.free) = Live(s.free) \ Kids(s.req, s.free, i)
  BY <1>8, <1>10 DEF Emptying, Left
<1> QED
  BY <1>8, <1>9, <1>11, <1>12, <1>13 DEF Emptying, Emptied


-----------------------------------------------------------------------------
(* What holds of the tree.  w is the world, "rank" gives every path a rank *)
(* that is above those of what it refers to, and "count" is persistCount.  *)

\* A request that has been inserted, and nothing else.
Pristine(R, F, k) ==
  R[k].result = PENDING /\ ~R[k].loading /\ ~R[k].buffer /\ Kids(R, F, k) = {}

\* A child is of a lower rank than its parent.
Descends(rank, R, i) ==
  R[i].name \notin Malformed /\ rank[PathOf(R[i])] < rank[PathOf(R[R[i].parent])]

NodeOK(w, rank, R, F, i) ==
  /\ R[i].pending = Cardinality(PendingKids(R, F, i))
  /\ R[i].result # LOOP
  /\ R[i].result # PENDING => Kids(R, F, i) = {} /\ ~R[i].loading /\ ~R[i].buffer
  /\ R[i].result = PENDING => ~R[i].resource /\ R[i].name \notin Malformed
  /\ R[i].resource => R[i].name \notin Malformed
  /\ R[i].loading => ~R[i].buffer
  /\ R[i].buffer => Kids(R, F, i) # {}
  /\ R[i].loading \/ R[i].buffer => w.fate[PathOf(R[i])] # "untyped"
  /\ Kids(R, F, i) # {} =>
       R[i].loading \/ R[i].buffer \/ (i = 0 /\ w.fate[PathOf(R[i])] # "untyped")
  /\ ~R[i].buffer => \A k \in Kids(R, F, i) : Pristine(R, F, k)
  /\ i # 0 => Descends(rank, R, i)

\* The requests between BeginLoad and CreateResource.
Busy(R, F) == {i \in Live(F) : R[i].loading \/ R[i].buffer}

ProgressOK(R, F, I) ==
  /\ I = {PathOf(R[i]) : i \in Busy(R, F)}
  /\ \A i, j \in Busy(R, F) : PathOf(R[i]) = PathOf(R[j]) => i = j

TreeOK(w, rank, count, s) ==
  /\ s \in TreeStates /\ Shape(s.req, s.free)
  /\ \A i \in Live(s.free) : NodeOK(w, rank, s.req, s.free, i)
  /\ ProgressOK(s.req, s.free, s.inProgress)
  /\ PersistRoom(count, s.free, s.persisted)
  /\ s.req[0].result = PENDING => 1 .. (count - 1) \subseteq Kids(s.req, s.free, 0)
  /\ \A k \in Nodes \ Live(s.free) : s.req[k].pending = 0

\* The visit or the climb may resolve the request i.
Solvable(s, i) ==
  /\ i \in Live(s.free) /\ s.req[i].result = PENDING
  /\ ~s.req[i].buffer \/ s.req[i].pending = 0
  /\ i # 0 => s.req[s.req[i].parent].buffer

\* The children of a request that is resolved are leaves, and not being loaded.
LEMMA KidsAreLeaves ==
  ASSUME NEW w, NEW rank, NEW count, NEW s, TreeOK(w, rank, count, s),
         NEW i \in Live(s.free), ~s.req[i].buffer \/ s.req[i].pending = 0
  PROVE  \A k \in Kids(s.req, s.free, i) :
           /\ k \in Live(s.free) /\ k \in Nodes \ {0}
           /\ Kids(s.req, s.free, k) = {} /\ s.req[k].first = None /\ s.req[k].pending = 0
           /\ s.req[k].name \notin Malformed /\ ~s.req[k].loading /\ ~s.req[k].buffer
           /\ (s.req[i].pending = 0 => s.req[k].result # PENDING)
<1> SUFFICES ASSUME NEW k \in Kids(s.req, s.free, i)
             PROVE  /\ k \in Live(s.free) /\ k \in Nodes \ {0}
                    /\ Kids(s.req, s.free, k) = {} /\ s.req[k].first = None
                    /\ s.req[k].pending = 0 /\ s.req[k].name \notin Malformed
                    /\ ~s.req[k].loading /\ ~s.req[k].buffer
                    /\ (s.req[i].pending = 0 => s.req[k].result # PENDING)
  OBVIOUS
<1>1. PICK R, F : R = s.req /\ F = s.free
  OBVIOUS
<1>2. /\ Shape(R, F) /\ i \in Live(F) /\ k \in Kids(R, F, i) /\ k \in Live(F) /\ k \in Nodes
      /\ NodeOK(w, rank, R, F, i) /\ NodeOK(w, rank, R, F, k) /\ R[k].parent = i
      /\ i \in Nodes
  BY <1>1 DEF TreeOK, Kids, Live
<1>3. k # 0
  <2>1. k = 0 => R[k].parent = None
    BY <1>2, ParentLive
  <2> QED
    BY <1>2, <2>1, NodesFinite
<1>4. ASSUME R[i].pending = 0 PROVE R[k].result # PENDING
  <2>1. PendingKids(R, F, i) \subseteq Nodes
    BY DEF PendingKids, Kids, Live
  <2>2. IsFiniteSet(PendingKids(R, F, i))
    BY <2>1, LiveFinite
  <2>3. Cardinality(PendingKids(R, F, i)) = 0
    BY <1>2, <1>4 DEF NodeOK
  <2>4. PendingKids(R, F, i) = {}
    BY <2>2, <2>3, FS_EmptySet
  <2> QED
    BY <1>2, <2>4 DEF PendingKids
<1>5. Kids(R, F, k) = {} /\ ~R[k].loading /\ ~R[k].buffer
  <2>1. CASE ~R[i].buffer
    BY <1>2, <2>1 DEF NodeOK, Pristine
  <2>2. CASE R[i].pending = 0
    BY <1>2, <1>4, <2>2 DEF NodeOK
  <2> QED
    BY <1>1, <2>1, <2>2
<1>6. R[k].first = None
  BY <1>2, <1>5, NoFirstChild
<1>7. R[k].pending = 0
  <2>1. PendingKids(R, F, k) = {}
    BY <1>5 DEF PendingKids
  <2> QED
    BY <1>2, <2>1, FS_EmptySet DEF NodeOK
<1>8. R[k].name \notin Malformed
  BY <1>2, <1>3 DEF NodeOK, Descends
<1> QED
  BY <1>1, <1>2, <1>3, <1>4, <1>5, <1>6, <1>7, <1>8

\* The state t is s with the request i resolved: it has no children, and its parent waits
\* for one child less.
Resolves(s, t, i) ==
  /\ t \in TreeStates
  /\ \A k \in Nodes : k # i /\ k # s.req[i].parent => t.req[k] = s.req[k]
  /\ s.req[i].parent # None =>
       /\ SameStatus(t.req[s.req[i].parent], s.req[s.req[i].parent])
       /\ SameLinks(t.req[s.req[i].parent], s.req[s.req[i].parent])
       /\ t.req[s.req[i].parent].pending = s.req[s.req[i].parent].pending - 1
  /\ t.req[i].name = s.req[i].name /\ t.req[i].parent = s.req[i].parent
  /\ t.req[i].next = s.req[i].next /\ t.req[i].first = None /\ t.req[i].pending = 0
  /\ ~t.req[i].buffer /\ t.req[i].result \notin {PENDING, LOOP}
  /\ FreeOK(t.free) /\ Live(t.free) = Live(s.free) \ Kids(s.req, s.free, i)

\* Nor is it being loaded.
Ends(s, t, i) ==
  /\ ~t.req[i].loading
  /\ s.req[i].loading \/ s.req[i].buffer => t.inProgress = s.inProgress \ {PathOf(s.req[i])}
  /\ ~(s.req[i].loading \/ s.req[i].buffer) => t.inProgress = s.inProgress

\* A request that is resolved leaves the tree as it must be.
LEMMA ResolvedTree ==
  ASSUME NEW w, NEW rank, NEW count, NEW s, TreeOK(w, rank, count, s), NEW i, Solvable(s, i),
         NEW t, Resolves(s, t, i), Ends(s, t, i), PersistRoom(count, t.free, t.persisted)
  PROVE  TreeOK(w, rank, count, t)
<1>1. PICK R, F, Q, G, p : R = s.req /\ F = s.free /\ Q = t.req /\ G = t.free /\ p = R[i].parent
  OBVIOUS
<1>2. /\ Shape(R, F) /\ i \in Live(F) /\ i \in Nodes /\ \A k \in Live(F) : k \in Nodes
      /\ \A j \in Live(F) : NodeOK(w, rank, R, F, j)
      /\ R[i].result = PENDING
  BY <1>1 DEF TreeOK, Solvable, Live
<1>3. /\ i = 0 => p = None
      /\ i # 0 => p \in Live(F) /\ p # i /\ p # None /\ R[p].buffer
  <2>1. i = 0 => R[i].parent = None
    BY <1>2, ParentLive
  <2>2. i # 0 => R[i].parent \in Live(F) /\ R[i].parent # i /\ R[i].parent # None
    BY <1>2, ParentLive
  <2> QED
    BY <1>1, <2>1, <2>2 DEF Solvable
<1>4. /\ p # None => /\ SameStatus(Q[p], R[p]) /\ SameLinks(Q[p], R[p])
                     /\ Q[p].pending = R[p].pending - 1
      /\ \A k \in Nodes : k # i /\ k # p => Q[k] = R[k]
      /\ Q[i].name = R[i].name /\ Q[i].parent = p /\ Q[i].next = R[i].next
      /\ Q[i].first = None /\ Q[i].pending = 0 /\ ~Q[i].buffer /\ ~Q[i].loading
      /\ Q[i].result \notin {PENDING, LOOP}
      /\ FreeOK(G) /\ Live(G) = Live(F) \ Kids(R, F, i)
  BY <1>1 DEF Resolves, Ends
<1>5. ASSUME NEW k \in Nodes, k # i
      PROVE  SameStatus(Q[k], R[k]) /\ SameLinks(Q[k], R[k])
  <2>1. CASE k = p
    BY <1>4, <2>1, NodesFinite
  <2>2. CASE k # p
    BY <1>4, <1>5, <2>2 DEF SameStatus, SameLinks
  <2> QED
    BY <2>1, <2>2
<1>6. \A k \in Nodes : Q[k].name = R[k].name /\ Q[k].parent = R[k].parent /\ Q[k].next = R[k].next
  BY <1>1, <1>4, <1>5 DEF SameStatus, SameLinks
<1>7. \A k \in Nodes : PathOf(Q[k]) = PathOf(R[k])
  BY <1>6 DEF PathOf
<1>8. \A k \in Kids(R, F, i) : /\ Kids(R, F, k) = {} /\ ~R[k].loading /\ ~R[k].buffer
                               /\ k \in Live(F) /\ k # 0
  <2>1. ~s.req[i].buffer \/ s.req[i].pending = 0
    BY DEF Solvable
  <2>2. i \in Live(s.free)
    BY <1>1, <1>2
  <2> QED
    BY <1>1, <2>1, <2>2, KidsAreLeaves
<1>9. Shape(Q, G) /\ Kids(Q, G, i) = {} /\ \A j : j # i => Kids(Q, G, j) = Kids(R, F, j)
  <2>1. \A k \in Kids(R, F, i) : Kids(R, F, k) = {}
    BY <1>8
  <2>2. \A k \in Nodes : Q[k].parent = R[k].parent /\ Q[k].next = R[k].next
    BY <1>6
  <2>3. \A k \in Nodes : k # i => Q[k].first = R[k].first
    BY <1>5 DEF SameLinks
  <2>4. FreeOK(G) /\ Live(G) = Live(F) \ Kids(R, F, i) /\ Q[i].first = None
    BY <1>4
  <2> QED
    BY <1>2, <2>1, <2>2, <2>3, <2>4, ShapeWithoutKids
<1>10. \A j \in Live(G) : j \in Live(F) /\ j \in Nodes
  BY <1>2, <1>4
<1>11. \A j : j # i => \A k \in Kids(R, F, j) : k \in Nodes /\ R[k].parent = j
  BY DEF Kids, Live
<1>12. ASSUME NEW j, j # i, j # p PROVE PendingKids(Q, G, j) = PendingKids(R, F, j)
  <2>1. Kids(Q, G, j) = Kids(R, F, j)
    BY <1>9, <1>12
  <2>2. \A k \in Kids(R, F, j) : k # i /\ k \in Nodes
    BY <1>1, <1>11, <1>12
  <2>3. \A k \in Kids(R, F, j) : Q[k].result = R[k].result
    BY <1>5, <2>2 DEF SameStatus
  <2> QED
    BY <2>1, <2>3 DEF PendingKids
<1>13. ASSUME i # 0
       PROVE  PendingKids(Q, G, p) = PendingKids(R, F, p) \ {i} /\ i \in PendingKids(R, F, p)
  <2>1. Kids(Q, G, p) = Kids(R, F, p)
    BY <1>3, <1>9, <1>13
  <2>2. \A k \in Kids(R, F, p) : k # i => Q[k].result = R[k].result
    BY <1>3, <1>5, <1>11, <1>13 DEF SameStatus
  <2>3. i \in Kids(R, F, p)
    BY <1>1, <1>2 DEF Kids
  <2> QED
    BY <1>2, <1>4, <2>1, <2>2, <2>3 DEF PendingKids
<1>14. ASSUME NEW j \in Live(G), j # i, j # p PROVE NodeOK(w, rank, Q, G, j)
  <2>1. /\ Q[j] = R[j] /\ Kids(Q, G, j) = Kids(R, F, j) /\ PathOf(Q[j]) = PathOf(R[j])
        /\ PendingKids(Q, G, j) = PendingKids(R, F, j) /\ NodeOK(w, rank, R, F, j)
    BY <1>2, <1>4, <1>7, <1>9, <1>10, <1>12, <1>14
  <2>2. ASSUME NEW k \in Kids(R, F, j), Pristine(R, F, k) PROVE Pristine(Q, G, k)
    <3>1. k # i /\ k \in Nodes
      BY <1>1, <1>11, <1>14
    <3> QED
      BY <1>5, <1>9, <2>2, <3>1 DEF Pristine, SameStatus
  <2>3. j # 0 => Descends(rank, Q, j)
    <3>1. j # 0 => Descends(rank, R, j)
      BY <2>1 DEF NodeOK
    <3>2. j # 0 => R[j].parent \in Nodes
      BY <1>2, <1>10, ParentLive
    <3> QED
      BY <1>7, <2>1, <3>1, <3>2 DEF Descends
  <2> QED
    BY <2>1, <2>2, <2>3 DEF NodeOK
<1>15. ASSUME i # 0 PROVE NodeOK(w, rank, Q, G, p)
  <2>1. p \in Live(F) /\ p # i /\ p \in Nodes /\ NodeOK(w, rank, R, F, p) /\ R[p].buffer
    BY <1>2, <1>3, <1>15
  <2>2. SameStatus(Q[p], R[p]) /\ Kids(Q, G, p) = Kids(R, F, p) /\ PathOf(Q[p]) = PathOf(R[p])
    BY <1>5, <1>7, <1>9, <2>1
  <2>3. Q[p].pending = Cardinality(PendingKids(Q, G, p))
    <3>1. PICK A : A = PendingKids(R, F, p)
      OBVIOUS
    <3>2. A \subseteq Nodes
      BY <3>1 DEF PendingKids, Kids, Live
    <3>3. IsFiniteSet(A) /\ i \in A
      BY <1>13, <1>15, <3>1, <3>2, LiveFinite
    <3>4. Cardinality(A \ {i}) = Cardinality(A) - 1
      BY <3>3, FS_RemoveElement
    <3>5. R[p].pending = Cardinality(A)
      BY <2>1, <3>1 DEF NodeOK
    <3> QED
      BY <1>3, <1>4, <1>13, <1>15, <3>1, <3>4, <3>5
  <2>4. p # 0 => Descends(rank, Q, p)
    <3>1. p # 0 => Descends(rank, R, p)
      BY <2>1 DEF NodeOK
    <3>2. p # 0 => R[p].parent \in Nodes
      BY <1>2, <2>1, ParentLive
    <3>3. Q[p].parent = R[p].parent /\ Q[p].name = R[p].name
      BY <1>6, <2>1
    <3> QED
      BY <1>7, <2>2, <3>1, <3>2, <3>3 DEF Descends
  <2> QED
    BY <2>1, <2>2, <2>3, <2>4 DEF NodeOK, SameStatus
<1>16. NodeOK(w, rank, Q, G, i)
  <2>1. PendingKids(Q, G, i) = {}
    BY <1>9 DEF PendingKids
  <2>2. Q[i].pending = Cardinality(PendingKids(Q, G, i))
    BY <1>4, <2>1, FS_EmptySet
  <2>3. Q[i].name \notin Malformed
    BY <1>2, <1>4 DEF NodeOK
  <2>4. i # 0 => Descends(rank, Q, i)
    <3>1. i # 0 => Descends(rank, R, i)
      BY <1>2 DEF NodeOK
    <3>2. i # 0 => p \in Nodes
      BY <1>2, <1>3
    <3> QED
      BY <1>1, <1>2, <1>4, <1>7, <3>1, <3>2 DEF Descends
  <2> QED
    BY <1>4, <1>9, <2>2, <2>3, <2>4 DEF NodeOK
<1>17. \A j \in Live(G) : NodeOK(w, rank, Q, G, j)
  <2> SUFFICES ASSUME NEW j \in Live(G) PROVE NodeOK(w, rank, Q, G, j)
    OBVIOUS
  <2>1. CASE j = i
    BY <1>16, <2>1
  <2>2. CASE j # i /\ j = p
    <3>1. i # 0
      BY <1>3, <1>10, <2>2, NodesFinite
    <3> QED
      BY <1>15, <2>2, <3>1
  <2>3. CASE j # i /\ j # p
    BY <1>14, <2>3
  <2> QED
    BY <2>1, <2>2, <2>3
<1>18. ProgressOK(Q, G, t.inProgress)
  <2>1. ProgressOK(R, F, s.inProgress)
    BY <1>1 DEF TreeOK
  <2>2. Busy(Q, G) = Busy(R, F) \ {i}
    <3>1. ASSUME NEW k \in Busy(Q, G) PROVE k \in Busy(R, F) \ {i}
      <4>1. k \in Live(G) /\ k \in Live(F) /\ k \in Nodes /\ k # i
        BY <1>4, <1>10 DEF Busy
      <4> QED
        BY <1>5, <4>1 DEF Busy, SameStatus
    <3>2. ASSUME NEW k \in Busy(R, F) \ {i} PROVE k \in Busy(Q, G)
      <4>1. k \in Live(F) /\ k \in Nodes /\ k # i /\ k \notin Kids(R, F, i)
        BY <1>2, <1>8 DEF Busy
      <4> QED
        BY <1>4, <1>5, <4>1 DEF Busy, SameStatus
    <3> QED
      BY <3>1, <3>2
  <2>3. \A k \in Busy(R, F) : k \in Nodes
    BY <1>2 DEF Busy
  <2>4. \A k \in Busy(Q, G) : k \in Busy(R, F) /\ k # i /\ PathOf(Q[k]) = PathOf(R[k])
    BY <1>7, <2>2, <2>3
  <2>5. CASE i \in Busy(R, F)
    <3>1. t.inProgress = s.inProgress \ {PathOf(R[i])}
      BY <1>1, <2>5 DEF Ends, Busy
    <3> QED
      BY <2>1, <2>2, <2>4, <2>5, <3>1 DEF ProgressOK
  <2>6. CASE i \notin Busy(R, F)
    <3>1. t.inProgress = s.inProgress
      BY <1>1, <1>2, <2>6 DEF Ends, Busy
    <3> QED
      BY <2>1, <2>2, <2>4, <2>6, <3>1 DEF ProgressOK
  <2> QED
    BY <2>5, <2>6
<1>19. Q[0].result = PENDING => 1 .. (count - 1) \subseteq Kids(Q, G, 0)
  <2>1. Q[0].result = PENDING => i # 0 /\ R[0].result = PENDING
    BY <1>4, <1>5, NodesFinite DEF SameStatus
  <2> QED
    BY <1>1, <1>9, <2>1 DEF TreeOK
<1>20. t \in TreeStates
  BY DEF Resolves
<1>21. ASSUME NEW k \in Nodes \ Live(G) PROVE Q[k].pending = 0
  <2>1. CASE k \in Kids(R, F, i)
    <3>1. k # i /\ k # p
      <4>1. p # k
        BY <1>1, <1>2, <1>3, <1>8, <2>1 DEF Kids, NodeOK
      <4> QED
        BY <1>2, <2>1, <4>1, NoFirstChild
    <3>2. R[k].pending = 0
      <4>1. ~s.req[i].buffer \/ s.req[i].pending = 0
        BY DEF Solvable
      <4>2. i \in Live(s.free)
        BY <1>1, <1>2
      <4> QED
        BY <1>1, <2>1, <4>1, <4>2, KidsAreLeaves
    <3> QED
      BY <1>4, <3>1, <3>2
  <2>2. CASE k \notin Live(F)
    <3>1. k # i /\ k # p
      <4>1. p # None => p \in Live(F)
        BY <1>3
      <4> QED
        BY <1>2, <2>2, <4>1, NodesFinite
    <3>2. R[k].pending = 0
      BY <1>1, <2>2 DEF TreeOK
    <3> QED
      BY <1>4, <3>1, <3>2
  <2> QED
    BY <1>4, <2>1, <2>2
<1> QED
  BY <1>1, <1>9, <1>17, <1>18, <1>19, <1>20, <1>21 DEF TreeOK
-----------------------------------------------------------------------------
(* How a request is resolved: its result is recorded, its children are     *)
(* removed and its parent is told, in one order or the other.              *)

\* The result of the request i has been recorded.
Marked(s, c, i) ==
  /\ c \in TreeStates /\ \A k \in Nodes : k # i => c.req[k] = s.req[k]
  /\ SameLinks(c.req[i], s.req[i]) /\ c.req[i].pending = s.req[i].pending
  /\ c.req[i].name = s.req[i].name /\ c.req[i].loading = s.req[i].loading
  /\ ~c.req[i].buffer /\ c.req[i].result \notin {PENDING, LOOP}
  /\ c.free = s.free /\ c.inProgress = s.inProgress /\ c.persisted = s.persisted

\* Then the children have been removed and the parent has been told.
Settles(s, c, t, i, ext, inhand, count) ==
  /\ Resolves(s, t, i) /\ SameStatus(t.req[i], c.req[i]) /\ t.inProgress = s.inProgress
  /\ SameCallbacks(c.post, t.post)
  /\ Accounts(t, ext, inhand) /\ PersistRoom(count, t.free, t.persisted)

\* The request p waits for one child less.
Notified(c, t, p) ==
  /\ t \in TreeStates /\ \A k \in Nodes : k # p => t.req[k] = c.req[k]
  /\ p # None => /\ SameStatus(t.req[p], c.req[p]) /\ SameLinks(t.req[p], c.req[p])
                 /\ t.req[p].pending = c.req[p].pending - 1
  /\ t.free = c.free /\ t.inProgress = c.inProgress /\ t.persisted = c.persisted
  /\ t.post = c.post /\ t.res = c.res /\ t.abort = c.abort

\* The parent is told, if there is one, and no reference count changes.
LEMMA ParentNotified ==
  ASSUME NEW c \in TreeStates, NEW i \in Nodes, NEW p, c.req[i].parent = p,
         p = None \/ (p \in Nodes /\ c.req[p].pending > 0),
         NEW ext, NEW inhand, Accounts(c, ext, inhand)
  PROVE  /\ Notified(c, RemoveFromParentPendingCount(c, i), p)
         /\ Accounts(RemoveFromParentPendingCount(c, i), ext, inhand)
<1>1. PICK t : t = RemoveFromParentPendingCount(c, i)
  OBVIOUS
<1>2. Notified(c, t, p)
  <2>1. CASE p = None
    <3>1. t = c
      BY <1>1, <2>1 DEF RemoveFromParentPendingCount
    <3> QED
      BY <2>1, <3>1 DEF Notified
  <2>2. CASE p # None
    <3>1. p \in Nodes /\ c.req[p].pending > 0
      BY <2>2
    <3>2. /\ OnlyAt(c, t, p) /\ SameStatus(t.req[p], c.req[p]) /\ SameLinks(t.req[p], c.req[p])
          /\ t.req[p].pending = c.req[p].pending - 1
      BY <1>1, <3>1, ParentWaitsForOneLess
    <3> QED
      BY <3>2 DEF Notified, OnlyAt
  <2> QED
    BY <2>1, <2>2
<1>3. Factory(t) = Factory(c)
  BY <1>2, SameFactory DEF Notified
<1>4. \A k \in Nodes : t.req[k].name = c.req[k].name /\ t.req[k].resource = c.req[k].resource
  BY <1>2, NodesFinite DEF Notified, SameStatus
<1>5. Used(ext, t.req, t.free, t.persisted, t.post) = Used(ext, c.req, c.free, c.persisted, c.post)
  <2>1. \A k \in Live(c.free) : t.req[k].name = c.req[k].name /\ t.req[k].resource = c.req[k].resource
    BY <1>4 DEF Live
  <2>2. Used(ext, t.req, c.free, c.persisted, c.post) = Used(ext, c.req, c.free, c.persisted, c.post)
    BY <2>1, UsedSameNodes
  <2> QED
    BY <1>2, <2>2 DEF Notified
<1> QED
  BY <1>1, <1>2, <1>3, <1>5 DEF Accounts

\* What is known of the children and the parent of a request that is resolved.
LEMMA SolvableFacts ==
  ASSUME NEW w, NEW rank, NEW count, NEW s, TreeOK(w, rank, count, s), NEW i, Solvable(s, i)
  PROVE  /\ s \in TreeStates /\ i \in Live(s.free) /\ i \in Nodes /\ Shape(s.req, s.free)
         /\ s.req[i].name \notin Malformed /\ PathOf(s.req[i]) \in Paths /\ ~s.req[i].resource
         /\ s.req[i].parent # i
         /\ s.req[i].parent = None
            \/ (s.req[i].parent \in Nodes /\ s.req[s.req[i].parent].pending > 0)
         /\ s.req[i].pending = Cardinality(PendingKids(s.req, s.free, i))
         /\ \A k \in Kids(s.req, s.free, i) :
              /\ k \in Nodes /\ k # i /\ k # s.req[i].parent
              /\ s.req[k].first = None /\ s.req[k].pending = 0 /\ s.req[k].name \notin Malformed
<1>1. PICK R, F, p : R = s.req /\ F = s.free /\ p = R[i].parent
  OBVIOUS
<1>2. /\ s \in TreeStates /\ R \in [Nodes -> Requests] /\ i \in Live(F) /\ i \in Nodes
      /\ Shape(R, F) /\ NodeOK(w, rank, R, F, i)
  BY <1>1, TreeFields DEF TreeOK, Solvable, Live
<1>3. R[i].name \notin Malformed /\ ~R[i].resource /\ R[i].result = PENDING
  BY <1>1, <1>2 DEF NodeOK, Solvable
<1>4. PathOf(R[i]) \in Paths
  <2>1. R[i].name \in Names
    BY <1>2 DEF Requests
  <2> QED
    BY <1>3, <2>1, NamesAssumption DEF PathOf
<1>5. /\ i = 0 => p = None
      /\ i # 0 => p \in Live(F) /\ p # i
  BY <1>1, <1>2, ParentLive
<1>6. p # i
  BY <1>2, <1>5, NodesFinite
<1>7. ASSUME i # 0 PROVE p \in Nodes /\ R[p].pending > 0
  <2>1. p \in Live(F) /\ p \in Nodes /\ NodeOK(w, rank, R, F, p)
    BY <1>1, <1>5, <1>7 DEF TreeOK, Live
  <2>2. PICK A : A = PendingKids(R, F, p)
    OBVIOUS
  <2>3. A \subseteq Nodes /\ i \in A
    BY <1>1, <1>2, <1>3, <2>2 DEF PendingKids, Kids, Live
  <2>4. IsFiniteSet(A) /\ Cardinality(A) \in Nat
    BY <2>3, LiveFinite
  <2>5. Cardinality(A) # 0
    BY <2>3, <2>4, FS_EmptySet
  <2>6. R[p].pending = Cardinality(A)
    BY <2>1, <2>2 DEF NodeOK
  <2> QED
    BY <2>1, <2>4, <2>5, <2>6
<1>8. ASSUME NEW k \in Kids(R, F, i)
      PROVE  /\ k \in Nodes /\ k # i /\ k # p
             /\ R[k].first = None /\ R[k].pending = 0 /\ R[k].name \notin Malformed
  <2>1. ~s.req[i].buffer \/ s.req[i].pending = 0
    BY DEF Solvable
  <2>2. i \in Live(s.free) /\ k \in Kids(s.req, s.free, i)
    BY <1>1, <1>2
  <2>3. /\ k \in Nodes /\ R[k].first = None /\ R[k].pending = 0 /\ R[k].name \notin Malformed
        /\ Kids(R, F, k) = {}
    BY <1>1, <2>1, <2>2, KidsAreLeaves
  <2>4. i \in Kids(R, F, p)
    BY <1>1, <1>2 DEF Kids
  <2>5. i \notin Kids(R, F, i)
    BY <1>2, NoFirstChild
  <2> QED
    BY <2>3, <2>4, <2>5
<1>9. R[i].pending = Cardinality(PendingKids(R, F, i))
  BY <1>2 DEF NodeOK
<1> QED
  BY <1>1, <1>2, <1>3, <1>4, <1>5, <1>6, <1>7, <1>8, <1>9

\* A tree with the links and the children of another one.
LEMMA MarkedFacts ==
  ASSUME NEW w, NEW rank, NEW count, NEW s, TreeOK(w, rank, count, s), NEW i, Solvable(s, i),
         NEW c, c \in TreeStates, c.free = s.free,
         \A k \in Nodes : SameLinks(c.req[k], s.req[k]),
         \A k \in Nodes : k # i /\ k # s.req[i].parent => c.req[k] = s.req[k],
         c.req[i].pending = s.req[i].pending
  PROVE  /\ Shape(c.req, c.free) /\ i \in Live(c.free)
         /\ Kids(c.req, c.free, i) = Kids(s.req, s.free, i)
         /\ c.req[i].pending = Cardinality(PendingKids(c.req, c.free, i))
         /\ \A k \in Kids(c.req, c.free, i) :
              c.req[k].first = None /\ c.req[k].pending = 0 /\ c.req[k].name \notin Malformed
<1>1. PICK R, F, Q : R = s.req /\ F = s.free /\ Q = c.req
  OBVIOUS
<1>2. /\ i \in Live(F) /\ i \in Nodes /\ Shape(R, F)
      /\ R[i].pending = Cardinality(PendingKids(R, F, i))
      /\ \A k \in Kids(R, F, i) :
           /\ k \in Nodes /\ k # i /\ k # R[i].parent
           /\ R[k].first = None /\ R[k].pending = 0 /\ R[k].name \notin Malformed
  BY <1>1, SolvableFacts
<1>3. \A k \in Nodes : SameLinks(Q[k], R[k])
  BY <1>1
<1>4. Shape(Q, F) /\ Kids(Q, F, i) = Kids(R, F, i)
  BY <1>2, <1>3, SameShape
<1>5. \A k \in Kids(R, F, i) : Q[k] = R[k]
  BY <1>1, <1>2
<1>6. PendingKids(Q, F, i) = PendingKids(R, F, i)
  BY <1>4, <1>5 DEF PendingKids
<1> QED
  BY <1>1, <1>2, <1>4, <1>5, <1>6

\* CreateResource tells the parent first.
LEMMA NotifyThenRemove ==
  ASSUME NEW w, NEW rank, NEW s, TreeOK(w, rank, persistCount, s), NEW i, Solvable(s, i),
         NEW c, Marked(s, c, i),
         NEW ext \in SUBSET Names, NEW inhand \in Seq(Paths), Accounts(c, ext, inhand)
  PROVE  Settles(s, c, RemoveChildren(RemoveFromParentPendingCount(c, i), i), i, ext, inhand,
                 persistCount)
<1>1. PICK p : p = s.req[i].parent
  OBVIOUS
<1>2. /\ s \in TreeStates /\ i \in Live(s.free) /\ i \in Nodes /\ p # i
      /\ p = None \/ (p \in Nodes /\ s.req[p].pending > 0)
      /\ PersistRoom(persistCount, s.free, s.persisted)
  BY <1>1, SolvableFacts DEF TreeOK
<1>3. /\ c \in TreeStates /\ c.req[i].parent = p /\ c.free = s.free
      /\ \A k \in Nodes : k # i => c.req[k] = s.req[k]
      /\ SameLinks(c.req[i], s.req[i]) /\ c.req[i].pending = s.req[i].pending
  BY <1>1 DEF Marked, SameLinks
<1>4. p = None \/ (p \in Nodes /\ c.req[p].pending > 0)
  BY <1>2, <1>3
<1>5. PICK d : d = RemoveFromParentPendingCount(c, i)
  OBVIOUS
<1>6. Notified(c, d, p) /\ Accounts(d, ext, inhand)
  BY <1>2, <1>3, <1>4, <1>5, ParentNotified
<1>7. /\ d \in TreeStates /\ \A k \in Nodes : k # p => d.req[k] = c.req[k]
      /\ p # None => /\ SameStatus(d.req[p], c.req[p]) /\ SameLinks(d.req[p], c.req[p])
                     /\ d.req[p].pending = c.req[p].pending - 1
      /\ d.free = c.free /\ d.inProgress = c.inProgress /\ d.persisted = c.persisted
      /\ d.post = c.post
  BY <1>6 DEF Notified
<1>8. \A k \in Nodes : SameLinks(d.req[k], s.req[k])
  <2>1. \A k \in Nodes : SameLinks(c.req[k], s.req[k])
    BY <1>3 DEF SameLinks
  <2>2. \A k \in Nodes : SameLinks(d.req[k], c.req[k])
    BY <1>7, NodesFinite DEF SameLinks
  <2> QED
    BY <2>1, <2>2 DEF SameLinks
<1>9. \A k \in Nodes : k # i /\ k # p => d.req[k] = s.req[k]
  BY <1>3, <1>7
<1>10. d.req[i] = c.req[i] /\ d.free = s.free /\ d.persisted = s.persisted
  BY <1>2, <1>7 DEF Marked
<1>11. /\ Shape(d.req, d.free) /\ i \in Live(d.free)
       /\ Kids(d.req, d.free, i) = Kids(s.req, s.free, i)
       /\ d.req[i].pending = Cardinality(PendingKids(d.req, d.free, i))
       /\ \A k \in Kids(d.req, d.free, i) :
            d.req[k].first = None /\ d.req[k].pending = 0 /\ d.req[k].name \notin Malformed
  <2>1. \A k \in Nodes : k # i /\ k # s.req[i].parent => d.req[k] = s.req[k]
    BY <1>1, <1>9
  <2>2. d.req[i].pending = s.req[i].pending
    BY <1>3, <1>10
  <2> QED
    BY <1>7, <1>8, <1>10, <2>1, <2>2, MarkedFacts
<1>12. PICK t : t = RemoveChildren(d, i)
  OBVIOUS
<1>13. PersistRoom(persistCount, d.free, d.persisted)
  BY <1>2, <1>10
<1>14. Emptied(d, t, i, ext, inhand, persistCount)
  BY <1>6, <1>7, <1>11, <1>12, <1>13, RemoveChildrenEffect
<1>15. Resolves(s, t, i)
  <2>1. \A k \in Nodes : k # i /\ k # s.req[i].parent => t.req[k] = s.req[k]
    BY <1>1, <1>9, <1>14 DEF Emptied
  <2>2. p # None => /\ SameStatus(t.req[p], s.req[p]) /\ SameLinks(t.req[p], s.req[p])
                    /\ t.req[p].pending = s.req[p].pending - 1
    <3>1. p # None => t.req[p] = d.req[p] /\ c.req[p] = s.req[p]
      BY <1>2, <1>3, <1>14 DEF Emptied
    <3> QED
      BY <1>7, <3>1
  <2>3. SameStatus(t.req[i], c.req[i])
    BY <1>10, <1>14 DEF Emptied
  <2>4. t.req[i].parent = s.req[i].parent /\ t.req[i].next = s.req[i].next
    BY <1>3, <1>10, <1>14 DEF Emptied, SameLinks
  <2> QED
    BY <1>1, <1>10, <1>11, <1>14, <2>1, <2>2, <2>3, <2>4 DEF Resolves, Emptied, Marked, SameStatus
<1>16. SameStatus(t.req[i], c.req[i]) /\ t.inProgress = s.inProgress /\ SameCallbacks(c.post, t.post)
  BY <1>7, <1>10, <1>14 DEF Emptied, Marked
<1> QED
  BY <1>5, <1>12, <1>14, <1>15, <1>16 DEF Settles, Emptied

\* A failed load and a resource that is there already remove the children first.
LEMMA RemoveThenNotify ==
  ASSUME NEW w, NEW rank, NEW s, TreeOK(w, rank, persistCount, s), NEW i, Solvable(s, i),
         NEW c, Marked(s, c, i),
         NEW ext \in SUBSET Names, NEW inhand \in Seq(Paths), Accounts(c, ext, inhand)
  PROVE  Settles(s, c, RemoveFromParentPendingCount(RemoveChildren(c, i), i), i, ext, inhand,
                 persistCount)
<1>1. PICK p : p = s.req[i].parent
  OBVIOUS
<1>2. /\ s \in TreeStates /\ i \in Live(s.free) /\ i \in Nodes /\ p # i
      /\ p = None \/ (p \in Nodes /\ s.req[p].pending > 0)
      /\ PersistRoom(persistCount, s.free, s.persisted)
  BY <1>1, SolvableFacts DEF TreeOK
<1>3. /\ c \in TreeStates /\ c.req[i].parent = p /\ c.free = s.free /\ c.persisted = s.persisted
      /\ \A k \in Nodes : k # i => c.req[k] = s.req[k]
      /\ SameLinks(c.req[i], s.req[i]) /\ c.req[i].pending = s.req[i].pending
  BY <1>1 DEF Marked, SameLinks
<1>4. \A k \in Nodes : SameLinks(c.req[k], s.req[k])
  BY <1>3 DEF SameLinks
<1>5. /\ Shape(c.req, c.free) /\ i \in Live(c.free)
      /\ Kids(c.req, c.free, i) = Kids(s.req, s.free, i)
      /\ c.req[i].pending = Cardinality(PendingKids(c.req, c.free, i))
      /\ \A k \in Kids(c.req, c.free, i) :
           c.req[k].first = None /\ c.req[k].pending = 0 /\ c.req[k].name \notin Malformed
  <2>1. \A k \in Nodes : k # i /\ k # s.req[i].parent => c.req[k] = s.req[k]
    BY <1>3
  <2>2. c.req[i].pending = s.req[i].pending
    BY <1>3
  <2> QED
    BY <1>3, <1>4, <2>1, <2>2, MarkedFacts
<1>6. PICK d : d = RemoveChildren(c, i)
  OBVIOUS
<1>7. PersistRoom(persistCount, c.free, c.persisted)
  BY <1>2, <1>3
<1>8. Emptied(c, d, i, ext, inhand, persistCount)
  BY <1>3, <1>5, <1>6, <1>7, RemoveChildrenEffect
<1>9. /\ d \in TreeStates /\ \A k \in Nodes : k # i => d.req[k] = s.req[k]
      /\ d.req[i].parent = p /\ Accounts(d, ext, inhand)
  BY <1>3, <1>8 DEF Emptied
<1>10. p = None \/ (p \in Nodes /\ d.req[p].pending > 0)
  BY <1>2, <1>9
<1>11. PICK t : t = RemoveFromParentPendingCount(d, i)
  OBVIOUS
<1>12. Notified(d, t, p) /\ Accounts(t, ext, inhand)
  BY SMTT(60), <1>2, <1>9, <1>10, <1>11, ParentNotified
<1>13. /\ t \in TreeStates /\ \A k \in Nodes : k # p => t.req[k] = d.req[k]
       /\ p # None => /\ SameStatus(t.req[p], d.req[p]) /\ SameLinks(t.req[p], d.req[p])
                      /\ t.req[p].pending = d.req[p].pending - 1
       /\ t.free = d.free /\ t.inProgress = d.inProgress /\ t.persisted = d.persisted
       /\ t.post = d.post /\ t.req[i] = d.req[i]
  BY SMTT(60), <1>2, <1>12 DEF Notified
<1>14. Resolves(s, t, i)
  <2>1. \A k \in Nodes : k # i /\ k # s.req[i].parent => t.req[k] = s.req[k]
    BY <1>1, <1>9, <1>13
  <2>2. p # None => /\ SameStatus(t.req[p], s.req[p]) /\ SameLinks(t.req[p], s.req[p])
                    /\ t.req[p].pending = s.req[p].pending - 1
    <3>1. p # None => d.req[p] = s.req[p]
      BY <1>2, <1>9
    <3> QED
      BY <1>13, <3>1
  <2>3. SameStatus(t.req[i], c.req[i])
    BY <1>8, <1>13 DEF Emptied
  <2>4. t.req[i].parent = s.req[i].parent /\ t.req[i].next = s.req[i].next
    BY <1>3, <1>8, <1>13 DEF Emptied, SameLinks
  <2> QED
    BY <1>1, <1>3, <1>5, <1>8, <1>13, <2>1, <2>2, <2>3, <2>4 DEF Resolves, Emptied, Marked, SameStatus
<1>15. SameStatus(t.req[i], c.req[i]) /\ t.inProgress = s.inProgress /\ SameCallbacks(c.post, t.post)
  BY <1>8, <1>13 DEF Emptied, Marked
<1>16. PersistRoom(persistCount, t.free, t.persisted)
  BY <1>8, <1>13 DEF Emptied
<1> QED
  BY <1>6, <1>11, <1>12, <1>14, <1>15, <1>16 DEF Settles

-----------------------------------------------------------------------------
(* CreateResource. *)

\* The counts do not depend on the callbacks.
LEMMA ExactOtherPost ==
  ASSUME NEW f, NEW u, Exact(f, u), NEW g \in FactoryStates, g.res = f.res, g.abort = f.abort
  PROVE  Exact(g, u)
<1>1. Sane(f) /\ \A p \in Paths : f.res[p].count = u[p] + Cardinality(HoldersOf(f.res, p))
  BY DEF Exact
<1>2. Sane(g)
  BY <1>1 DEF Sane
<1> QED
  BY <1>1, <1>2 DEF Exact

\* When nothing is in hand.
LEMMA AccountsNothing ==
  ASSUME NEW s \in TreeStates, NEW ext \in SUBSET Names
  PROVE  /\ Used(ext, s.req, s.free, s.persisted, s.post) \in Users
         /\ Accounts(s, ext, <<>>) <=> Exact(Factory(s), Used(ext, s.req, s.free, s.persisted, s.post))
<1>1. s.persisted \in Seq(Paths) /\ s.post \in Seq(Callbacks)
  BY TreeFields
<1>2. PICK u : u = Used(ext, s.req, s.free, s.persisted, s.post)
  OBVIOUS
<1>3. u \in Users
  BY <1>1, <1>2, UsedType
<1>4. Plus(u, <<>>) = u
  BY <1>3, PlusNothing
<1> QED
  BY <1>2, <1>3, <1>4 DEF Accounts

\* The factory has changed, and nothing else.
SameTree(s, t) ==
  /\ t \in TreeStates /\ t.req = s.req /\ t.free = s.free /\ t.inProgress = s.inProgress
  /\ t.persisted = s.persisted

\* The instance that has just been created is the last to wait for its PostCreate.
LastIs(callbacks, refs) ==
  callbacks # <<>> /\ ~callbacks[Len(callbacks)].destroy /\ callbacks[Len(callbacks)].refs = refs

\* An instance that is destroyed gives its references back, or keeps them until then.
LEMMA DestroyExact ==
  ASSUME NEW s \in TreeStates, NEW ext \in SUBSET Names, NEW refs \in Seq(Paths),
         Accounts(s, ext, refs), NEW p, HasPostCreate(p) => LastIs(s.post, refs)
  PROVE  SameTree(s, Destroy(s, p, refs)) /\ Accounts(Destroy(s, p, refs), ext, <<>>)
<1>1. s.persisted \in Seq(Paths) /\ s.post \in Seq(Callbacks)
  BY TreeFields
<1>2. PICK u \in Users : u = Used(ext, s.req, s.free, s.persisted, s.post)
  BY <1>1, UsedType
<1>3. Exact(Factory(s), Plus(u, refs))
  BY <1>2 DEF Accounts
<1>4. PICK t : t = Destroy(s, p, refs)
  OBVIOUS
<1>5. CASE HasPostCreate(p)
  <2>1. PICK c \in Seq(Callbacks) : c = s.post
    BY <1>1
  <2>2. c # <<>> /\ ~c[Len(c)].destroy /\ c[Len(c)].refs = refs
    BY <1>5, <2>1 DEF LastIs
  <2>3. PICK d : d = [c EXCEPT ![Len(c)].destroy = TRUE]
    OBVIOUS
  <2>4. d \in Seq(Callbacks)
    BY <2>2, <2>3, DoomedLast
  <2>5. ASSUME NEW q \in Paths
        PROVE  Cardinality(DoomedHoldersOf(d, q)) = Cardinality(DoomedHoldersOf(c, q)) + Times(q, refs)
    BY <2>2, <2>3, DoomedLast
  <2>6. t = [s EXCEPT !.post = d]
    BY <1>4, <1>5, <2>1, <2>3 DEF Destroy
  <2>7. SameTree(s, t) /\ t.post = d /\ t.res = s.res /\ t.abort = s.abort
    BY <2>4, <2>6 DEF SameTree, TreeStates
  <2>8. PICK R, F, P : R = s.req /\ F = s.free /\ P = s.persisted
    OBVIOUS
  <2>9. \A q \in Paths : UsedAt(ext, R, F, P, d, q) = UsedAt(ext, R, F, P, c, q) + Times(q, refs)
    <3> SUFFICES ASSUME NEW q \in Paths
                 PROVE  UsedAt(ext, R, F, P, d, q) = UsedAt(ext, R, F, P, c, q) + Times(q, refs)
      OBVIOUS
    <3>1. PICK a \in Nat, b \in Nat, e \in Nat, m \in Nat :
            /\ a = Cardinality(ExternalAt(ext, q)) /\ b = Cardinality(NodesAt(R, F, q))
            /\ e = Times(q, P) /\ m = Cardinality(DoomedHoldersOf(c, q))
      BY <1>1, <2>8, UsedType
    <3>2. PICK x \in Nat : x = Times(q, refs)
      BY TimesType
    <3>3. Cardinality(DoomedHoldersOf(d, q)) = m + x
      BY <2>5, <3>1, <3>2
    <3>4. a + b + e + (m + x) = (a + b + e + m) + x
      OBVIOUS
    <3> QED
      BY <3>1, <3>2, <3>3, <3>4 DEF UsedAt
  <2>10. Used(ext, R, F, P, d) = Plus(Used(ext, R, F, P, c), refs)
    BY <1>1, <2>4, <2>8, <2>9, UsedMore
  <2>11. Exact(Factory(t), Plus(u, refs))
    <3>1. Factory(t) \in FactoryStates /\ Factory(t).res = Factory(s).res
          /\ Factory(t).abort = Factory(s).abort
      BY <2>7, FactoryOf DEF SameTree
    <3> QED
      BY <1>3, <3>1, ExactOtherPost
  <2>12. Exact(Factory(t), Used(ext, t.req, t.free, t.persisted, t.post))
    BY <1>2, <2>1, <2>7, <2>8, <2>10, <2>11 DEF SameTree
  <2> QED
    BY <1>4, <2>7, <2>12, AccountsNothing DEF SameTree
<1>6. CASE ~HasPostCreate(p)
  <2>1. t = ReleaseAll(s, refs)
    BY <1>4, <1>6 DEF Destroy
  <2>2. /\ t \in TreeStates /\ Exact(Factory(t), u) /\ SameCallbacks(s.post, t.post)
        /\ t.req = s.req /\ t.free = s.free /\ t.inProgress = s.inProgress
        /\ t.persisted = s.persisted
    BY <1>3, <2>1, ReleaseAllExact
  <2>3. t.post \in Seq(Callbacks)
    BY <2>2, TreeFields
  <2>4. Used(ext, s.req, s.free, s.persisted, t.post) = u
    BY <1>1, <1>2, <2>2, <2>3, UsedSameCallbacks
  <2> QED
    BY <1>4, <2>2, <2>4, AccountsNothing DEF SameTree
<1> QED
  BY <1>5, <1>6

\* A request that is given its resource or another result.
LEMMA SetOutcome ==
  ASSUME NEW s \in TreeStates, NEW i \in Nodes, NEW x \in NodeResults, NEW b \in BOOLEAN,
         NEW e \in BOOLEAN
  PROVE  LET r == [s.req[i] EXCEPT !.result = x, !.resource = b, !.buffer = e]
         IN  /\ r \in Requests /\ r.result = x /\ r.resource = b /\ r.buffer = e
             /\ r.name = s.req[i].name /\ r.loading = s.req[i].loading
             /\ r.pending = s.req[i].pending /\ SameLinks(r, s.req[i])
<1>1. s.req[i] \in Requests
  BY TreeFields
<1>2. PICK q \in Requests : q = s.req[i]
  BY <1>1
<1> QED
  BY <1>2 DEF Requests, SameLinks

\* One request of a tree state has other contents, in the same place.
Replaced(s, t, i) ==
  /\ t \in TreeStates /\ \A k \in Nodes : k # i => t.req[k] = s.req[k]
  /\ SameLinks(t.req[i], s.req[i]) /\ t.req[i].pending = s.req[i].pending
  /\ t.req[i].name = s.req[i].name /\ t.req[i].loading = s.req[i].loading
  /\ t.req[i].buffer = s.req[i].buffer
  /\ t.free = s.free /\ t.inProgress = s.inProgress /\ t.persisted = s.persisted

\* A request that gets its resource is one more user of it.
LEMMA UsedProvided ==
  ASSUME NEW s \in TreeStates, NEW ext \in SUBSET Names, NEW i \in Live(s.free),
         ~s.req[i].resource, NEW p \in Paths, p = PathOf(s.req[i]),
         NEW t, Replaced(s, t, i), t.req[i].resource, t.post = s.post
  PROVE  Used(ext, t.req, t.free, t.persisted, t.post)
           = Plus(Used(ext, s.req, s.free, s.persisted, s.post), <<p>>)
<1>1. PICK R, F, Q : R = s.req /\ F = s.free /\ Q = t.req
  OBVIOUS
<1>2. PICK P \in Seq(Paths), c \in Seq(Callbacks) : P = s.persisted /\ c = s.post
  BY TreeFields
<1>3. \A k \in Live(F) : k \in Nodes
  BY DEF Live
<1>4. \A k \in Live(F) : Q[k].name = R[k].name
  BY <1>1, <1>3 DEF Replaced
<1>5. \A k \in Live(F) \ {i} : Q[k].resource = R[k].resource
  BY <1>1, <1>3 DEF Replaced
<1>6. i \in Live(F) /\ ~R[i].resource /\ Q[i].resource /\ PathOf(R[i]) \in Paths
  BY <1>1
<1>7. Used(ext, Q, F, P, c) = Plus(Used(ext, R, F, P, c), <<PathOf(R[i])>>)
  BY <1>4, <1>5, <1>6, UsedWithNode
<1> QED
  BY <1>1, <1>2, <1>7 DEF Replaced

\* What has just been created is inserted, or is destroyed because it is there already or
\* because the table is full.
LEMMA InsertOrDestroyEffect ==
  ASSUME NEW s \in TreeStates, NEW ext \in SUBSET Names, NEW i \in Live(s.free),
         ~s.req[i].resource, NEW p \in Paths, p = PathOf(s.req[i]),
         NEW refs \in Seq(Paths), Accounts(s, ext, refs), HasPostCreate(p) => LastIs(s.post, refs),
         s.req[i].result \notin {PENDING, LOOP}
  PROVE  LET t == InsertOrDestroy(s, i, p, refs)
         IN  Replaced(s, t, i) /\ Accounts(t, ext, <<>>) /\ t.req[i].result \notin {PENDING, LOOP}
<1>1. /\ s.persisted \in Seq(Paths) /\ s.post \in Seq(Callbacks) /\ i \in Nodes
      /\ s.req[i] \in Requests
  BY TreeFields DEF Live
<1>2. PICK u \in Users : u = Used(ext, s.req, s.free, s.persisted, s.post)
  BY <1>1, UsedType
<1>3. Exact(Factory(s), Plus(u, refs)) /\ Plus(u, refs) \in Users
  BY <1>2, PlusType DEF Accounts
<1>4. Factory(s) \in FactoryStates /\ Factory(s).res = s.res /\ Factory(s).post = s.post
      /\ Factory(s).abort = s.abort
  BY FactoryOf
<1>5. PICK r : r = [s.req[i] EXCEPT !.resource = TRUE]
  OBVIOUS
<1>6. /\ r \in Requests /\ r.resource /\ SameLinks(r, s.req[i]) /\ r.pending = s.req[i].pending
      /\ r.name = s.req[i].name /\ r.loading = s.req[i].loading /\ r.buffer = s.req[i].buffer
      /\ r.result = s.req[i].result
  BY <1>1, <1>5 DEF Requests, SameLinks
<1>7. PICK Q : Q = [s.req EXCEPT ![i] = r]
  OBVIOUS
<1>8. Q \in [Nodes -> Requests] /\ Q[i] = r /\ \A k \in Nodes : k # i => Q[k] = s.req[k]
  BY <1>1, <1>6, <1>7, TreeFields
<1>9. <<p>> \in Seq(Paths)
  OBVIOUS
<1>10. PICK one \in Seq(Paths) : one = <<p>>
  BY <1>9
<1>11. PICK t : t = InsertOrDestroy(s, i, p, refs)
  OBVIOUS
<1>12. Loaded(s, p) <=> Loaded(Factory(s), p)
  BY <1>4 DEF Loaded
<1>13. CASE Loaded(s, p)
  <2>1. PICK f : f = IncRef(Factory(s), p)
    OBVIOUS
  <2>2. Exact(f, Plus(Plus(u, refs), <<p>>)) /\ f.post = s.post
    BY <1>3, <1>4, <1>12, <1>13, <2>1, IncRefExact
  <2>3. f \in FactoryStates /\ f.abort = "none" /\ f.res \in [Paths -> Resources]
    BY <2>2, FactoryFields DEF Exact, Sane
  <2>4. f.res = [s.res EXCEPT ![p].count = @ + 1]
    BY <1>4, <2>1, FactoryFields DEF IncRef
  <2>5. PICK x : x = [IncRef(s, p) EXCEPT !.req[i].resource = TRUE]
    OBVIOUS
  <2>6. x = [s EXCEPT !.res = f.res, !.req = Q]
    BY <1>5, <1>7, <2>4, <2>5 DEF IncRef, TreeStates
  <2>7. /\ x \in TreeStates /\ x.req = Q /\ x.free = s.free /\ x.inProgress = s.inProgress
        /\ x.persisted = s.persisted /\ x.post = s.post /\ x.res = f.res /\ x.abort = s.abort
    BY <1>8, <2>3, <2>6 DEF TreeStates
  <2>8. Replaced(s, x, i) /\ x.req[i] = r
    BY <1>6, <1>8, <2>7 DEF Replaced
  <2>9. Used(ext, x.req, x.free, x.persisted, x.post) = Plus(u, <<p>>)
    BY <1>2, <1>6, <2>7, <2>8, UsedProvided
  <2>10. Factory(x) = f
    <3>1. f.abort = s.abort
      BY <1>3, <1>4, <2>3 DEF Exact, Sane
    <3> QED
      BY <2>2, <2>3, <2>7, <3>1, FactoryFields DEF Factory
  <2>11. Plus(Plus(u, refs), one) = Plus(Plus(u, one), refs)
    BY PlusSwap
  <2>12. Accounts(x, ext, refs)
    BY <1>10, <2>2, <2>9, <2>10, <2>11 DEF Accounts
  <2>13. t = Destroy(x, p, refs)
    BY <1>11, <1>13, <2>5 DEF InsertOrDestroy
  <2>14. SameTree(x, t) /\ Accounts(t, ext, <<>>)
    <3>1. HasPostCreate(p) => LastIs(x.post, refs)
      BY <2>7
    <3> QED
      BY <2>7, <2>12, <2>13, <3>1, DestroyExact
  <2>15. Replaced(s, t, i) /\ t.req[i].result \notin {PENDING, LOOP}
    BY <1>6, <2>8, <2>14 DEF Replaced, SameTree
  <2> QED
    BY <1>11, <2>14, <2>15
<1>14. CASE ~Loaded(s, p) /\ Full(s)
  <2>1. PICK q : q = [s.req[i] EXCEPT !.result = "RESULT_OUT_OF_RESOURCES"]
    OBVIOUS
  <2>2. /\ q \in Requests /\ q.resource = s.req[i].resource /\ SameLinks(q, s.req[i])
        /\ q.pending = s.req[i].pending /\ q.name = s.req[i].name /\ q.loading = s.req[i].loading
        /\ q.buffer = s.req[i].buffer /\ q.result = "RESULT_OUT_OF_RESOURCES"
    BY <1>1, <2>1 DEF Requests, SameLinks, NodeResults
  <2>3. PICK x : x = [s EXCEPT !.req[i] = q]
    OBVIOUS
  <2>4. OnlyAt(s, x, i) /\ x.req[i] = q
    BY <1>1, <2>2, <2>3, SetRequest
  <2>5. x = [s EXCEPT !.req[i].result = "RESULT_OUT_OF_RESOURCES"]
    BY <2>1, <2>3
  <2>6. Replaced(s, x, i)
    BY <2>2, <2>4 DEF OnlyAt, Replaced
  <2>7. Accounts(x, ext, refs)
    <3>1. Factory(x) = Factory(s)
      BY <2>4, SameFactory DEF OnlyAt
    <3>2. \A k \in Live(s.free) : x.req[k].name = s.req[k].name /\ x.req[k].resource = s.req[k].resource
      BY <2>2, <2>4 DEF OnlyAt, Live
    <3>3. Used(ext, x.req, s.free, s.persisted, s.post) = Used(ext, s.req, s.free, s.persisted, s.post)
      BY <3>2, UsedSameNodes
    <3> QED
      BY <2>4, <3>1, <3>3 DEF OnlyAt, Accounts
  <2>8. t = Destroy(x, p, refs)
    BY <1>11, <1>14, <2>5 DEF InsertOrDestroy
  <2>9. SameTree(x, t) /\ Accounts(t, ext, <<>>)
    <3>1. x \in TreeStates /\ (HasPostCreate(p) => LastIs(x.post, refs))
      BY <2>4 DEF OnlyAt
    <3> QED
      BY <2>7, <2>8, <3>1, DestroyExact
  <2>10. Replaced(s, t, i) /\ t.req[i] = q
    BY <2>4, <2>6, <2>9 DEF Replaced, SameTree
  <2> QED
    BY <1>11, <2>2, <2>9, <2>10 DEF PENDING, LOOP
<1>15. CASE ~Loaded(s, p) /\ ~Full(s)
  <2>1. PICK f : f = InsertResource(Factory(s), p, refs)
    OBVIOUS
  <2>2. Exact(f, Plus(u, <<p>>)) /\ f.post = s.post
    BY <1>3, <1>4, <1>12, <1>15, <2>1, InsertExact
  <2>3. f \in FactoryStates /\ f.abort = "none" /\ f.res \in [Paths -> Resources]
    BY <2>2, FactoryFields DEF Exact, Sane
  <2>4. f.res = [s.res EXCEPT ![p] = [count |-> 1, refs |-> refs, lost |-> s.res[p].lost]]
    BY <2>1 DEF InsertResource, Factory
  <2>5. t = [InsertResource(s, p, refs) EXCEPT !.req[i].resource = TRUE]
    BY <1>11, <1>15 DEF InsertOrDestroy
  <2>6. t = [s EXCEPT !.res = f.res, !.req = Q]
    BY <1>5, <1>7, <2>4, <2>5 DEF InsertResource, TreeStates
  <2>7. /\ t \in TreeStates /\ t.req = Q /\ t.free = s.free /\ t.inProgress = s.inProgress
        /\ t.persisted = s.persisted /\ t.post = s.post /\ t.res = f.res /\ t.abort = s.abort
    BY <1>8, <2>3, <2>6 DEF TreeStates
  <2>8. Replaced(s, t, i) /\ t.req[i] = r
    BY <1>6, <1>8, <2>7 DEF Replaced
  <2>9. Used(ext, t.req, t.free, t.persisted, t.post) = Plus(u, <<p>>)
    BY <1>2, <1>6, <2>7, <2>8, UsedProvided
  <2>10. Factory(t) = f
    <3>1. f.abort = s.abort
      BY <1>3, <1>4, <2>3 DEF Exact, Sane
    <3> QED
      BY <2>2, <2>3, <2>7, <3>1, FactoryFields DEF Factory
  <2>11. Accounts(t, ext, <<>>)
    BY <2>2, <2>7, <2>9, <2>10, AccountsNothing
  <2> QED
    BY <1>6, <1>11, <2>8, <2>11
<1> QED
  BY <1>13, <1>14, <1>15

\* The world is as the proofs of the factory need it.
WorldOK(rank) == TypedWorld /\ RefsDescend(rank)

\* The references a create function has taken.
InHand(created, inhand) ==
  /\ inhand \in Seq(Paths)
  /\ created.ok => inhand = created.refs
  /\ ~created.ok => inhand = <<>>

\* A create function has been called for the request i of the tree s.
CalledFor(rank, s, ext, i, p, created, inhand) ==
  /\ s \in TreeStates /\ i \in Nodes /\ p \in Paths /\ ext \in SUBSET Names
  /\ Creates(rank, created, Factory(s), Used(ext, s.req, s.free, s.persisted, s.post), p)
  /\ InHand(created, inhand)

\* Its result has been recorded, with a callback for the new instance.
Recorded(s, c, i, ext, inhand, p, created) ==
  /\ Marked(s, c, i) /\ Accounts(c, ext, inhand)
  /\ c.req[i].resource = s.req[i].resource
  /\ created.ok /\ HasPostCreate(p) => LastIs(c.post, inhand)

\* RecordCreated does that.
LEMMA RecordCreatedEffect ==
  ASSUME NEW rank, NEW s, NEW ext, NEW i, NEW p, NEW created, NEW inhand,
         CalledFor(rank, s, ext, i, p, created, inhand)
  PROVE  Recorded(s, RecordCreated(WithFactory(s, created.f), i, p, created), i, ext, inhand, p,
                  created)
<1>0. /\ inhand \in Seq(Paths) /\ (created.ok => inhand = created.refs) /\ (~created.ok => inhand = <<>>)
      /\ s \in TreeStates /\ i \in Nodes /\ p \in Paths /\ ext \in SUBSET Names
      /\ Creates(rank, created, Factory(s), Used(ext, s.req, s.free, s.persisted, s.post), p)
  BY DEF InHand, CalledFor
<1> USE <1>0
<1>1. s.persisted \in Seq(Paths) /\ s.post \in Seq(Callbacks) /\ s.req[i] \in Requests
  BY TreeFields
<1>2. PICK u \in Users : u = Used(ext, s.req, s.free, s.persisted, s.post)
  BY <1>1, UsedType
<1>3. PICK f : f = created.f
  OBVIOUS
<1>4. created.ok \in BOOLEAN /\ SameCallbacks(s.post, f.post)
  BY <1>3, FactoryOf DEF Creates, Answered
<1>5. Exact(f, Plus(u, inhand))
  <2>1. created.ok => Exact(f, Plus(u, created.refs))
    BY <1>2, <1>3 DEF Creates
  <2>2. ~created.ok => Exact(f, u)
    BY <1>2, <1>3 DEF Creates
  <2>3. Plus(u, <<>>) = u
    BY PlusNothing
  <2> QED
    BY <1>4, <2>1, <2>2, <2>3
<1>6. f \in FactoryStates /\ f.abort = "none" /\ f.post \in Seq(Callbacks)
  BY <1>5, FactoryFields DEF Exact, Sane
<1>7. PICK s1 : s1 = WithFactory(s, f)
  OBVIOUS
<1>8. /\ s1 \in TreeStates /\ Factory(s1) = f
      /\ s1.req = s.req /\ s1.free = s.free /\ s1.inProgress = s.inProgress
      /\ s1.persisted = s.persisted /\ s1.post = f.post /\ s1.res = f.res /\ s1.abort = f.abort
  BY <1>6, <1>7, WithFactoryFields
<1>9. PICK x \in NodeResults : /\ x = IF created.ok THEN OK ELSE "RESULT_FORMAT_ERROR"
                               /\ x \notin {PENDING, LOOP}
  BY DEF NodeResults, Results, OK, PENDING, LOOP
<1>10. PICK r : r = [s.req[i] EXCEPT !.result = x, !.buffer = FALSE]
  OBVIOUS
<1>11. /\ r \in Requests /\ r.resource = s.req[i].resource /\ SameLinks(r, s.req[i])
       /\ r.pending = s.req[i].pending /\ r.name = s.req[i].name /\ r.loading = s.req[i].loading
       /\ r.buffer = FALSE /\ r.result = x
  BY <1>1, <1>10 DEF Requests, SameLinks
<1>12. PICK Q : Q = [s.req EXCEPT ![i] = r]
  OBVIOUS
<1>13. Q \in [Nodes -> Requests] /\ Q[i] = r /\ \A k \in Nodes : k # i => Q[k] = s.req[k]
  BY <1>1, <1>11, <1>12, TreeFields
<1>14. PICK b : b = Callback(p, inhand)
  OBVIOUS
<1>15. b \in Callbacks /\ ~b.destroy /\ b.refs = inhand
  BY <1>14 DEF Callback, Callbacks
<1>16. PICK P : P = IF created.ok /\ HasPostCreate(p) THEN Append(f.post, b) ELSE f.post
  OBVIOUS
<1>17. /\ P \in Seq(Callbacks)
       /\ \A q \in Paths : DoomedHoldersOf(P, q) = DoomedHoldersOf(f.post, q)
       /\ created.ok /\ HasPostCreate(p) => LastIs(P, inhand)
  <2>1. CASE created.ok /\ HasPostCreate(p)
    <3>1. P = Append(f.post, b)
      BY <1>16, <2>1
    <3>2. P \in Seq(Callbacks) /\ Len(P) = Len(f.post) + 1 /\ P[Len(f.post) + 1] = b
      BY <1>6, <1>15, <3>1, AppendProperties
    <3>3. \A q \in Paths : DoomedHoldersOf(P, q) = DoomedHoldersOf(f.post, q)
      BY <1>6, <1>15, <3>1, DoomedAppend
    <3>4. P # <<>>
      BY <1>6, <3>2, LenProperties, EmptySeq
    <3> QED
      BY <1>15, <3>2, <3>3, <3>4 DEF LastIs
  <2>2. CASE ~(created.ok /\ HasPostCreate(p))
    BY <1>6, <1>16, <2>2
  <2> QED
    BY <2>1, <2>2
<1>18. PICK c : c = RecordCreated(s1, i, p, created)
  OBVIOUS
<1>19. c = [s1 EXCEPT !.req = Q, !.post = P]
  <2>1. created.ok => b = Callback(p, created.refs)
    BY <1>14
  <2>2. P = IF created.ok /\ HasPostCreate(p) THEN Append(s1.post, Callback(p, created.refs)) ELSE s1.post
    BY <1>8, <1>16, <2>1
  <2>3. c = [s1 EXCEPT !.req[i].result = x, !.req[i].buffer = FALSE, !.post = P]
    BY <1>9, <1>18, <2>2 DEF RecordCreated, TreeStates
  <2> QED
    BY <1>8, <1>10, <1>12, <2>3 DEF TreeStates
<1>20. /\ c \in TreeStates /\ c.req = Q /\ c.free = s.free /\ c.inProgress = s.inProgress
       /\ c.persisted = s.persisted /\ c.post = P /\ c.res = f.res /\ c.abort = f.abort
  BY <1>8, <1>13, <1>17, <1>19 DEF TreeStates
<1>21. Marked(s, c, i) /\ c.req[i].resource = s.req[i].resource
  BY <1>9, <1>11, <1>13, <1>20 DEF Marked
<1>22. Used(ext, c.req, c.free, c.persisted, c.post) = u
  <2>1. Used(ext, s.req, s.free, s.persisted, f.post) = u
    BY <1>1, <1>2, <1>4, <1>6, UsedSameCallbacks
  <2>2. Used(ext, s.req, s.free, s.persisted, P) = Used(ext, s.req, s.free, s.persisted, f.post)
    BY <1>17 DEF Used, UsedAt
  <2>3. \A k \in Live(s.free) : Q[k].name = s.req[k].name /\ Q[k].resource = s.req[k].resource
    BY <1>11, <1>13 DEF Live
  <2>4. Used(ext, Q, s.free, s.persisted, P) = Used(ext, s.req, s.free, s.persisted, P)
    BY <2>3, UsedSameNodes
  <2> QED
    BY <1>20, <2>1, <2>2, <2>4
<1>23. Exact(Factory(c), Plus(u, inhand))
  <2>1. Factory(c) \in FactoryStates /\ Factory(c).res = f.res /\ Factory(c).abort = f.abort
    BY <1>20, FactoryOf
  <2> QED
    BY <1>5, <2>1, ExactOtherPost
<1>24. Accounts(c, ext, inhand)
  BY <1>22, <1>23 DEF Accounts
<1> QED
  BY <1>3, <1>7, <1>17, <1>18, <1>20, <1>21, <1>24 DEF Recorded

\* What has been resolved is still counted as being loaded.
Created(s, t, i, ext, count) ==
  /\ Resolves(s, t, i) /\ t.req[i].loading = s.req[i].loading /\ t.inProgress = s.inProgress
  /\ Accounts(t, ext, <<>>) /\ PersistRoom(count, t.free, t.persisted)

\* CreateResource resolves a request that waits for nothing else, its asserts hold and the
\* reference counts stay exact.
LEMMA CreateResourceEffect ==
  ASSUME NEW rank, WorldOK(rank), NEW w, NEW s, TreeOK(w, rank, persistCount, s),
         NEW i, Solvable(s, i), s.req[i].pending = 0,
         NEW inPlace, inPlace \/ s.req[i].buffer,
         NEW ext \in SUBSET Names, Accounts(s, ext, <<>>)
  PROVE  Created(s, CreateResource(s, i, inPlace), i, ext, persistCount)
<1>1. /\ s \in TreeStates /\ i \in Live(s.free) /\ i \in Nodes
      /\ s.req[i].name \notin Malformed /\ PathOf(s.req[i]) \in Paths /\ ~s.req[i].resource
      /\ s.req[i].result = PENDING
  BY SolvableFacts DEF Solvable
<1>2. PICK p \in Paths : p = PathOf(s.req[i])
  BY <1>1
<1>3. PICK u \in Users : u = Used(ext, s.req, s.free, s.persisted, s.post)
  BY <1>1, AccountsNothing
<1>4. Exact(Factory(s), u)
  BY <1>1, <1>3, AccountsNothing
<1>5. PICK created : created = CreateFunction(Factory(s), p, <<>>)
  OBVIOUS
<1>6. Creates(rank, created, Factory(s), u, p)
  <2>1. TypedWorld /\ RefsDescend(rank)
    BY DEF WorldOK
  <2>4. <<>> \in Seq(Names)
    OBVIOUS
  <2>2. PICK chain \in Seq(Names) : chain = <<>>
    BY <2>4
  <2>3. Creates(rank, CreateFunction(Factory(s), p, chain), Factory(s), u, p)
    BY <1>4, <2>1, CreateFunctionExact
  <2> QED
    BY <1>5, <2>2, <2>3
<1>7. PICK inhand \in Seq(Paths) : /\ created.ok => inhand = created.refs
                                   /\ ~created.ok => inhand = <<>>
  <2>1. <<>> \in Seq(Paths)
    OBVIOUS
  <2>2. created.ok => created.refs \in Seq(Paths)
    BY <1>6 DEF Creates
  <2> QED
    BY <2>1, <2>2
<1>8. PICK c : c = RecordCreated(WithFactory(s, created.f), i, p, created)
  OBVIOUS
<1>9. /\ Marked(s, c, i) /\ Accounts(c, ext, inhand) /\ c.req[i].resource = s.req[i].resource
      /\ created.ok /\ HasPostCreate(p) => LastIs(c.post, inhand)
  <2>1. Creates(rank, created, Factory(s), Used(ext, s.req, s.free, s.persisted, s.post), p)
    BY <1>3, <1>6
  <2>2. s \in TreeStates /\ i \in Nodes /\ InHand(created, inhand)
    BY <1>1, <1>7 DEF InHand
  <2>3. CalledFor(rank, s, ext, i, p, created, inhand)
    BY <2>1, <2>2 DEF CalledFor
  <2>4. Recorded(s, c, i, ext, inhand, p, created)
    BY <1>8, <2>3, RecordCreatedEffect
  <2> QED
    BY <2>4 DEF Recorded
<1>10. PICK d : d = RemoveChildren(RemoveFromParentPendingCount(c, i), i)
  OBVIOUS
<1>11. Settles(s, c, d, i, ext, inhand, persistCount)
  BY <1>9, <1>10, NotifyThenRemove
<1>12. PICK t : t = InsertIfCreated(d, i, p, created)
  OBVIOUS
<1>13. CreateResource(s, i, inPlace) = t
  <2>1. MayCreate(s.req[i], inPlace)
    BY <1>1 DEF MayCreate
  <2> QED
    BY <1>2, <1>5, <1>8, <1>10, <1>12, <2>1 DEF CreateResource, AfterCreateFunction
<1>14. /\ d \in TreeStates /\ i \in Live(d.free) /\ ~d.req[i].resource /\ PathOf(d.req[i]) = p
       /\ d.req[i].result \notin {PENDING, LOOP} /\ d.req[i].loading = s.req[i].loading
  <2>1. i \notin Kids(s.req, s.free, i)
    BY <1>1, SolvableFacts
  <2>2. d.req[i].name = s.req[i].name
    BY <1>11 DEF Settles, Resolves
  <2>3. PathOf(d.req[i]) = p
    BY <1>2, <2>2 DEF PathOf
  <2> QED
    BY <1>1, <1>9, <1>11, <2>1, <2>3 DEF Settles, Resolves, SameStatus, Marked
<1>15. d.abort = "none"
  <2>1. Factory(d).abort = "none"
    BY <1>11 DEF Settles, Accounts, Exact, Sane
  <2> QED
    BY <1>14, <2>1, FactoryOf
<1>16. CASE created.ok
  <2>1. t = InsertOrDestroy(d, i, p, inhand)
    BY <1>7, <1>12, <1>15, <1>16 DEF InsertIfCreated
  <2>2. HasPostCreate(p) => LastIs(d.post, inhand)
    <3>1. SameCallbacks(c.post, d.post)
      BY <1>11 DEF Settles
    <3>2. c.post \in Seq(Callbacks) /\ d.post \in Seq(Callbacks)
      BY <1>9, <1>14, TreeFields DEF Marked
    <3>3. PICK a \in Seq(Callbacks), b \in Seq(Callbacks) : a = c.post /\ b = d.post
      BY <3>2
    <3>4. ASSUME LastIs(a, inhand) PROVE LastIs(b, inhand)
      <4>1. PICK n \in Nat : n = Len(a) /\ n = Len(b)
        BY <3>1, <3>3, LenProperties DEF SameCallbacks
      <4>2. n # 0
        BY <3>4, <4>1, EmptySeq DEF LastIs
      <4>3. n \in 1 .. Len(a)
        BY <4>1, <4>2
      <4>4. a[n].destroy = b[n].destroy /\ a[n].refs = b[n].refs
        BY <3>1, <3>3, <4>3 DEF SameCallbacks
      <4>5. b # <<>>
        BY <4>1, <4>2
      <4> QED
        BY <3>4, <4>1, <4>4, <4>5 DEF LastIs
    <3> QED
      BY <1>9, <1>16, <3>3, <3>4
  <2>3. Accounts(d, ext, inhand)
    BY <1>11 DEF Settles
  <2>4. Replaced(d, t, i) /\ Accounts(t, ext, <<>>) /\ t.req[i].result \notin {PENDING, LOOP}
    BY <1>14, <2>1, <2>2, <2>3, InsertOrDestroyEffect
  <2>5. /\ t.inProgress = s.inProgress /\ t.req[i].loading = s.req[i].loading
        /\ PersistRoom(persistCount, t.free, t.persisted)
    BY <1>11, <1>14, <2>4 DEF Replaced, Settles
  <2>6. Resolves(s, t, i)
    <3>1. Resolves(s, d, i)
      BY <1>11 DEF Settles
    <3>2. s.req[i].parent # i /\ (s.req[i].parent = None \/ s.req[i].parent \in Nodes)
      BY SolvableFacts
    <3>3. PICK q : q = s.req[i].parent
      OBVIOUS
    <3>4. q # None => t.req[q] = d.req[q]
      BY <2>4, <3>2, <3>3 DEF Replaced
    <3>5. \A k \in Nodes : k # i /\ k # q => t.req[k] = s.req[k]
      BY <2>4, <3>1, <3>3 DEF Replaced, Resolves
    <3> QED
      BY <2>4, <3>1, <3>3, <3>4, <3>5 DEF Replaced, Resolves, SameLinks
  <2> QED
    BY <1>13, <2>4, <2>5, <2>6 DEF Created
<1>17. CASE ~created.ok
  <2>1. t = d /\ inhand = <<>>
    BY <1>7, <1>12, <1>17 DEF InsertIfCreated
  <2> QED
    BY <1>11, <1>13, <1>14, <2>1 DEF Created, Settles
<1> QED
  BY <1>16, <1>17

-----------------------------------------------------------------------------
(* The ways in which a visit or the climb resolves a request. *)

\* The tree is as it must be, and the reference counts are exact.
Sound(w, rank, count, s, ext) ==
  TreeOK(w, rank, count, s) /\ Accounts(s, ext, <<>>) /\ ext \in SUBSET Names

\* The request i has been resolved in the tree s, which is now t.
Solves(w, rank, count, s, t, i, ext) ==
  Resolves(s, t, i) /\ Ends(s, t, i) /\ Sound(w, rank, count, t, ext)

\* When the request is resolved and no longer in progress, all is as it must be.
LEMMA SolvesIf ==
  ASSUME NEW w, NEW rank, NEW count, NEW s, NEW ext, Sound(w, rank, count, s, ext),
         NEW i, Solvable(s, i), NEW t, Resolves(s, t, i), Ends(s, t, i), Accounts(t, ext, <<>>),
         PersistRoom(count, t.free, t.persisted)
  PROVE  Solves(w, rank, count, s, t, i, ext)
BY ResolvedTree DEF Sound, Solves

\* The counts depend on what the requests hold only.
LEMMA AccountsSame ==
  ASSUME NEW c, NEW t, t.free = c.free, t.persisted = c.persisted, t.post = c.post,
         t.res = c.res, t.abort = c.abort,
         \A k \in Live(c.free) : t.req[k].name = c.req[k].name /\ t.req[k].resource = c.req[k].resource,
         NEW ext, NEW inhand, Accounts(c, ext, inhand)
  PROVE  Accounts(t, ext, inhand)
<1>1. Used(ext, t.req, c.free, c.persisted, c.post) = Used(ext, c.req, c.free, c.persisted, c.post)
  BY UsedSameNodes
<1>2. Factory(t) = Factory(c)
  BY SameFactory
<1> QED
  BY <1>1, <1>2 DEF Accounts

\* A request that has a path in progress.
LEMMA BusyPath ==
  ASSUME NEW w, NEW rank, NEW count, NEW s, TreeOK(w, rank, count, s), NEW i \in Live(s.free),
         s.req[i].loading \/ s.req[i].buffer
  PROVE  PathOf(s.req[i]) \in s.inProgress
BY DEF TreeOK, ProgressOK, Busy

\* The path of the request i is taken out of m_InProgress; the assert holds.
LEMMA UnmarkEffect ==
  ASSUME NEW c \in TreeStates, NEW i, PathOf(c.req[i]) \in c.inProgress
  PROVE  LET t == UnmarkPathInProgress(c, i)
         IN  /\ t \in TreeStates /\ t.req = c.req /\ t.free = c.free
             /\ t.inProgress = c.inProgress \ {PathOf(c.req[i])}
             /\ t.persisted = c.persisted /\ t.post = c.post /\ t.res = c.res /\ t.abort = c.abort
<1>1. PICK p : p = PathOf(c.req[i])
  OBVIOUS
<1>2. UnmarkPathInProgress(c, i) = [c EXCEPT !.inProgress = @ \ {p}]
  BY <1>1 DEF UnmarkPathInProgress, Require
<1> QED
  BY <1>1, <1>2 DEF TreeStates

\* The load queue's request is freed.
LEMMA FreeLoadEffect ==
  ASSUME NEW c \in TreeStates, NEW i \in Nodes
  PROVE  LET t == FreeLoad(c, i)
         IN  /\ OnlyAt(c, t, i) /\ SameLinks(t.req[i], c.req[i]) /\ ~t.req[i].loading
             /\ t.req[i].name = c.req[i].name /\ t.req[i].pending = c.req[i].pending
             /\ t.req[i].buffer = c.req[i].buffer /\ t.req[i].result = c.req[i].result
             /\ t.req[i].resource = c.req[i].resource
<1>1. PICK r : r = [c.req[i] EXCEPT !.loading = FALSE]
  OBVIOUS
<1>2. c.req[i] \in Requests
  BY TreeFields
<1>3. /\ r \in Requests /\ SameLinks(r, c.req[i]) /\ ~r.loading /\ r.name = c.req[i].name
      /\ r.pending = c.req[i].pending /\ r.buffer = c.req[i].buffer
      /\ r.result = c.req[i].result /\ r.resource = c.req[i].resource
  BY <1>1, <1>2 DEF Requests, SameLinks
<1>4. FreeLoad(c, i) = [c EXCEPT !.req[i] = r]
  BY <1>1 DEF FreeLoad, TreeStates
<1>5. OnlyAt(c, [c EXCEPT !.req[i] = r], i) /\ [c EXCEPT !.req[i] = r].req[i] = r
  BY <1>3, SetRequest
<1> QED
  BY <1>3, <1>4, <1>5

\* The climb creates a request from its own buffer.
LEMMA BufferedEffect ==
  ASSUME NEW rank, WorldOK(rank), NEW w, NEW s, NEW ext, Sound(w, rank, persistCount, s, ext),
         NEW i, Solvable(s, i), s.req[i].pending = 0, s.req[i].buffer
  PROVE  Solves(w, rank, persistCount, s, UnmarkPathInProgress(CreateResource(s, i, FALSE), i), i,
                ext)
<1>1. TreeOK(w, rank, persistCount, s) /\ Accounts(s, ext, <<>>) /\ ext \in SUBSET Names
  BY DEF Sound
<1>2. PICK c : c = CreateResource(s, i, FALSE)
  OBVIOUS
<1>3. Created(s, c, i, ext, persistCount)
  BY <1>1, <1>2, CreateResourceEffect
<1>4. /\ Resolves(s, c, i) /\ c.inProgress = s.inProgress /\ c.req[i].loading = s.req[i].loading
      /\ Accounts(c, ext, <<>>) /\ PersistRoom(persistCount, c.free, c.persisted)
  BY <1>3 DEF Created
<1>5. i \in Live(s.free) /\ PathOf(s.req[i]) \in s.inProgress /\ ~s.req[i].loading
  BY ZenonT(60), <1>1, BusyPath DEF Solvable, TreeOK, NodeOK
<1>6. c \in TreeStates /\ PathOf(c.req[i]) = PathOf(s.req[i])
  BY <1>4 DEF Resolves, PathOf
<1>7. PICK t : t = UnmarkPathInProgress(c, i)
  OBVIOUS
<1>8. /\ t \in TreeStates /\ t.req = c.req /\ t.free = c.free
      /\ t.inProgress = c.inProgress \ {PathOf(c.req[i])}
      /\ t.persisted = c.persisted /\ t.post = c.post /\ t.res = c.res /\ t.abort = c.abort
  BY <1>4, <1>5, <1>6, <1>7, UnmarkEffect
<1>9. Resolves(s, t, i)
  BY <1>4, <1>8 DEF Resolves
<1>10. Ends(s, t, i)
  BY <1>4, <1>5, <1>6, <1>8 DEF Ends
<1>11. Accounts(t, ext, <<>>) /\ PersistRoom(persistCount, t.free, t.persisted)
  BY <1>4, <1>8, AccountsSame
<1> QED
  BY <1>2, <1>7, <1>9, <1>10, <1>11, SolvesIf

\* A request whose load has ended is no longer in progress.
LEMMA LoadEndsEffect ==
  ASSUME NEW w, NEW rank, NEW s, NEW ext, Sound(w, rank, persistCount, s, ext),
         NEW i, Solvable(s, i), s.req[i].loading,
         NEW c, Created(s, c, i, ext, persistCount)
  PROVE  Solves(w, rank, persistCount, s, FreeLoad(UnmarkPathInProgress(c, i), i), i, ext)
<1>1. TreeOK(w, rank, persistCount, s) /\ Accounts(s, ext, <<>>) /\ ext \in SUBSET Names
  BY DEF Sound
<1>4. /\ Resolves(s, c, i) /\ c.inProgress = s.inProgress
      /\ Accounts(c, ext, <<>>) /\ PersistRoom(persistCount, c.free, c.persisted)
  BY DEF Created
<1>5. i \in Live(s.free) /\ i \in Nodes /\ PathOf(s.req[i]) \in s.inProgress /\ ~s.req[i].buffer
  BY ZenonT(60), <1>1, BusyPath DEF Solvable, TreeOK, NodeOK, Live
<1>6. c \in TreeStates /\ PathOf(c.req[i]) = PathOf(s.req[i]) /\ s.req[i].parent # i
  BY <1>1, <1>4, SolvableFacts DEF Resolves, PathOf
<1>7. PICK d : d = UnmarkPathInProgress(c, i)
  OBVIOUS
<1>8. /\ d \in TreeStates /\ d.req = c.req /\ d.free = c.free
      /\ d.inProgress = c.inProgress \ {PathOf(c.req[i])}
      /\ d.persisted = c.persisted /\ d.post = c.post /\ d.res = c.res /\ d.abort = c.abort
  BY <1>4, <1>5, <1>6, <1>7, UnmarkEffect
<1>9. Resolves(s, d, i)
  BY <1>4, <1>8 DEF Resolves
<1>10. Accounts(d, ext, <<>>) /\ PersistRoom(persistCount, d.free, d.persisted)
  BY <1>4, <1>8, AccountsSame
<1>11. PICK t : t = FreeLoad(d, i)
  OBVIOUS
<1>12. /\ OnlyAt(d, t, i) /\ SameLinks(t.req[i], d.req[i]) /\ ~t.req[i].loading
       /\ t.req[i].name = d.req[i].name /\ t.req[i].pending = d.req[i].pending
       /\ t.req[i].buffer = d.req[i].buffer /\ t.req[i].result = d.req[i].result
       /\ t.req[i].resource = d.req[i].resource
  BY <1>5, <1>8, <1>11, FreeLoadEffect
<1>13. Resolves(s, t, i)
  <2>1. /\ t \in TreeStates /\ t.free = d.free
        /\ \A k \in Nodes : k # i => t.req[k] = d.req[k]
    BY <1>12 DEF OnlyAt
  <2>2. s.req[i].parent # None => s.req[i].parent \in Nodes
    BY <1>1, SolvableFacts
  <2>3. \A k \in Nodes : k # i /\ k # s.req[i].parent => t.req[k] = s.req[k]
    BY <1>9, <2>1 DEF Resolves
  <2>4. s.req[i].parent # None => t.req[s.req[i].parent] = d.req[s.req[i].parent]
    BY <1>6, <2>1, <2>2
  <2>5. /\ t.req[i].parent = d.req[i].parent /\ t.req[i].next = d.req[i].next
        /\ t.req[i].first = d.req[i].first
    BY <1>12 DEF SameLinks
  <2> QED
    BY <1>9, <1>12, <2>1, <2>3, <2>4, <2>5 DEF Resolves
<1>14. Ends(s, t, i)
  BY <1>4, <1>5, <1>6, <1>8, <1>12 DEF Ends, OnlyAt
<1>15. Accounts(t, ext, <<>>) /\ PersistRoom(persistCount, t.free, t.persisted)
  <2>1. \A k \in Live(d.free) : t.req[k].name = d.req[k].name /\ t.req[k].resource = d.req[k].resource
    BY <1>12 DEF OnlyAt, Live
  <2>2. /\ t.free = d.free /\ t.persisted = d.persisted /\ t.post = d.post
        /\ t.res = d.res /\ t.abort = d.abort
    BY <1>12 DEF OnlyAt
  <2> QED
    BY <1>10, <2>1, <2>2, AccountsSame
<1> QED
  BY <1>7, <1>11, <1>13, <1>14, <1>15, SolvesIf

\* A load that has succeeded and brought no children: the resource is created in place.
LEMMA InPlaceEffect ==
  ASSUME NEW rank, WorldOK(rank), NEW w, NEW s, NEW ext, Sound(w, rank, persistCount, s, ext),
         NEW i, Solvable(s, i), s.req[i].pending = 0, s.req[i].loading
  PROVE  Solves(w, rank, persistCount, s,
                FreeLoad(UnmarkPathInProgress(CreateResource(s, i, TRUE), i), i), i, ext)
<1>1. TreeOK(w, rank, persistCount, s) /\ Accounts(s, ext, <<>>) /\ ext \in SUBSET Names
  BY DEF Sound
<1>2. PICK c : c = CreateResource(s, i, TRUE)
  OBVIOUS
<1>3. Created(s, c, i, ext, persistCount)
  BY <1>1, <1>2, CreateResourceEffect
<1> QED
  BY <1>2, <1>3, LoadEndsEffect

\* A request whose result is set.
LEMMA ResultMarked ==
  ASSUME NEW s \in TreeStates, NEW i \in Nodes, ~s.req[i].buffer,
         NEW x \in NodeResults \ {PENDING, LOOP}
  PROVE  LET c == [s EXCEPT !.req[i].result = x]
         IN  /\ Marked(s, c, i) /\ c.req[i].resource = s.req[i].resource /\ c.req[i].result = x
             /\ \A ext, inhand : Accounts(s, ext, inhand) => Accounts(c, ext, inhand)
<1>1. PICK r : r = [s.req[i] EXCEPT !.result = x]
  OBVIOUS
<1>2. s.req[i] \in Requests
  BY TreeFields
<1>3. /\ r \in Requests /\ SameLinks(r, s.req[i]) /\ r.loading = s.req[i].loading
      /\ r.name = s.req[i].name
      /\ r.pending = s.req[i].pending /\ r.buffer = s.req[i].buffer
      /\ r.result = x /\ r.resource = s.req[i].resource
  BY <1>1, <1>2 DEF Requests, SameLinks
<1>4. PICK c : c = [s EXCEPT !.req[i].result = x]
  OBVIOUS
<1>5. c = [s EXCEPT !.req[i] = r]
  BY <1>1, <1>4 DEF TreeStates
<1>6. OnlyAt(s, c, i) /\ c.req[i] = r
  BY <1>3, <1>5, SetRequest
<1>7. Marked(s, c, i)
  BY <1>3, <1>6 DEF Marked, OnlyAt
<1>8. ASSUME NEW ext, NEW inhand, Accounts(s, ext, inhand) PROVE Accounts(c, ext, inhand)
  <2>1. \A k \in Live(s.free) : c.req[k].name = s.req[k].name /\ c.req[k].resource = s.req[k].resource
    BY <1>3, <1>6 DEF OnlyAt, Live
  <2>2. /\ c.free = s.free /\ c.persisted = s.persisted /\ c.post = s.post
        /\ c.res = s.res /\ c.abort = s.abort
    BY <1>6 DEF OnlyAt
  <2> QED
    BY <1>8, <2>1, <2>2, AccountsSame
<1> QED
  BY <1>3, <1>4, <1>6, <1>7, <1>8

\* A load that has failed: the children of the request are removed.
LEMMA FailedEffect ==
  ASSUME NEW w, NEW rank, NEW s, NEW ext, Sound(w, rank, persistCount, s, ext),
         NEW i, Solvable(s, i), s.req[i].loading, NEW answer \in Results, answer # OK
  PROVE  /\ RecordLoad(s, i, answer).req[i].first = None
         /\ RecordLoad(s, i, answer).req[i].result # PENDING
         /\ Solves(w, rank, persistCount, s,
                   FreeLoad(UnmarkPathInProgress(RecordLoad(s, i, answer), i), i), i, ext)
<1>1. TreeOK(w, rank, persistCount, s) /\ Accounts(s, ext, <<>>) /\ ext \in SUBSET Names
  BY DEF Sound
<1>2. s \in TreeStates /\ i \in Nodes /\ ~s.req[i].buffer
  <2>1. s \in TreeStates /\ i \in Nodes /\ i \in Live(s.free)
    BY <1>1, SolvableFacts
  <2>2. NodeOK(w, rank, s.req, s.free, i)
    BY <1>1, <2>1 DEF TreeOK
  <2> QED
    BY <2>1, <2>2 DEF NodeOK
<1>3. answer \in NodeResults \ {PENDING, LOOP}
  BY DEF NodeResults, Results, PENDING, LOOP, OK
<1>4. PICK c : c = [s EXCEPT !.req[i].result = answer]
  OBVIOUS
<1>5. Marked(s, c, i) /\ Accounts(c, ext, <<>>)
  BY <1>1, <1>2, <1>3, <1>4, ResultMarked
<1>6. PICK d : d = RemoveFromParentPendingCount(RemoveChildren(c, i), i)
  OBVIOUS
<1>7. Settles(s, c, d, i, ext, <<>>, persistCount)
  <2>1. <<>> \in Seq(Paths)
    OBVIOUS
  <2>2. PICK inhand \in Seq(Paths) : inhand = <<>>
    BY <2>1
  <2>3. Settles(s, c, d, i, ext, inhand, persistCount)
    BY <1>1, <1>5, <1>6, <2>2, RemoveThenNotify
  <2> QED
    BY <2>2, <2>3
<1>8. Created(s, d, i, ext, persistCount)
  BY <1>5, <1>7 DEF Created, Settles, SameStatus, Marked
<1>9. RecordLoad(s, i, answer) = d
  BY <1>4, <1>6 DEF RecordLoad, LoadFailed
<1>10. d.req[i].first = None /\ d.req[i].result # PENDING
  BY <1>7 DEF Settles, Resolves
<1> QED
  BY <1>8, <1>9, <1>10, LoadEndsEffect

\* A resource that is in the table already, and is not being loaded.
LEMMA FoundEffect ==
  ASSUME NEW w, NEW rank, NEW s, NEW ext, Sound(w, rank, persistCount, s, ext),
         NEW i, Solvable(s, i), ~s.req[i].loading, ~s.req[i].buffer,
         Loaded(s, PathOf(s.req[i]))
  PROVE  Solves(w, rank, persistCount, s,
                RemoveFromParentPendingCount(RemoveChildren(Found(s, i), i), i), i, ext)
<1>1. TreeOK(w, rank, persistCount, s) /\ Accounts(s, ext, <<>>) /\ ext \in SUBSET Names
  BY DEF Sound
<1>2. /\ s \in TreeStates /\ i \in Nodes /\ i \in Live(s.free) /\ ~s.req[i].resource
      /\ PathOf(s.req[i]) \in Paths
  BY <1>1, SolvableFacts
<1>3. PICK p \in Paths : p = PathOf(s.req[i])
  BY <1>2
<1>4. PICK u \in Users : u = Used(ext, s.req, s.free, s.persisted, s.post)
  BY <1>1, <1>2, AccountsNothing
<1>5. Exact(Factory(s), u)
  BY <1>1, <1>2, <1>4, AccountsNothing
<1>6. PICK f : f = IncRef(Factory(s), p)
  OBVIOUS
<1>7. Exact(f, Plus(u, <<p>>)) /\ f.post = s.post
  <2>1. Loaded(Factory(s), p)
    BY <1>2, <1>3, FactoryOf DEF Loaded
  <2> QED
    BY <1>2, <1>5, <1>6, <2>1, IncRefExact, FactoryOf
<1>8. f \in FactoryStates /\ f.abort = "none"
  BY <1>7 DEF Exact, Sane
<1>9. PICK r : r = [s.req[i] EXCEPT !.result = OK, !.resource = TRUE]
  OBVIOUS
<1>10. /\ r \in Requests /\ SameLinks(r, s.req[i]) /\ r.loading = s.req[i].loading
       /\ r.name = s.req[i].name /\ r.pending = s.req[i].pending /\ r.buffer = s.req[i].buffer
       /\ r.result = OK /\ r.resource
  <2>1. s.req[i] \in Requests /\ OK \in NodeResults
    BY <1>2, TreeFields DEF NodeResults, Results
  <2> QED
    BY <1>9, <2>1 DEF Requests, SameLinks
<1>11. PICK c : c = Found(s, i)
  OBVIOUS
<1>12. PICK Q : Q = [s.req EXCEPT ![i] = r]
  OBVIOUS
<1>13. Q \in [Nodes -> Requests] /\ Q[i] = r /\ \A k \in Nodes : k # i => Q[k] = s.req[k]
  BY <1>2, <1>10, <1>12, TreeFields
<1>14. c = [s EXCEPT !.req = Q, !.res = f.res]
  <2>1. s.req \in [Nodes -> Requests] /\ s.res \in [Paths -> Resources]
    BY <1>2, TreeFields
  <2>2. f.res = [s.res EXCEPT ![p].count = @ + 1]
    BY <1>6 DEF IncRef, Factory
  <2>3. IncRef(s, p) = [s EXCEPT !.res = f.res]
    BY <1>2, <2>2 DEF IncRef, TreeStates
  <2>4. c = [IncRef(s, p) EXCEPT !.req[i].resource = TRUE, !.req[i].result = OK]
    BY <1>3, <1>11 DEF Found
  <2>5. c = [s EXCEPT !.res = f.res, !.req[i].resource = TRUE, !.req[i].result = OK]
    BY <2>3, <2>4
  <2> QED
    BY <1>2, <1>9, <1>12, <2>5 DEF TreeStates
<1>15. /\ c \in TreeStates /\ c.req = Q /\ c.free = s.free /\ c.inProgress = s.inProgress
       /\ c.persisted = s.persisted /\ c.post = s.post /\ c.res = f.res /\ c.abort = s.abort
  <2>1. f.res \in [Paths -> Resources]
    BY <1>8, FactoryFields
  <2> QED
    BY <1>2, <1>13, <1>14, <2>1 DEF TreeStates
<1>16. Marked(s, c, i)
  <2>1. OK \notin {PENDING, LOOP}
    BY DEF OK, PENDING, LOOP
  <2> QED
    BY <1>10, <1>13, <1>15, <2>1 DEF Marked
<1>17. Accounts(c, ext, <<>>)
  <2>1. Replaced(s, c, i)
    BY <1>10, <1>13, <1>15 DEF Replaced
  <2>2. c.req[i].resource
    BY <1>10, <1>13, <1>15
  <2>3. Used(ext, c.req, c.free, c.persisted, c.post) = Plus(u, <<p>>)
    <3>1. Used(ext, c.req, c.free, c.persisted, c.post)
            = Plus(Used(ext, s.req, s.free, s.persisted, s.post), <<p>>)
      <4>1. s \in TreeStates /\ i \in Live(s.free) /\ ~s.req[i].resource /\ c.post = s.post
        BY <1>2, <1>15
      <4>2. PICK names \in SUBSET Names : names = ext
        BY <1>1
      <4>3. Used(names, c.req, c.free, c.persisted, c.post)
              = Plus(Used(names, s.req, s.free, s.persisted, s.post), <<p>>)
        BY ZenonT(60), <1>3, <2>1, <2>2, <4>1, UsedProvided
      <4> QED
        BY <4>2, <4>3
    <3> QED
      BY <1>4, <3>1
  <2>4. Factory(c) \in FactoryStates /\ Factory(c).res = f.res /\ Factory(c).abort = f.abort
    <3>1. s.abort = "none"
      BY <1>2, <1>5, FactoryOf DEF Exact, Sane
    <3> QED
      BY <1>8, <1>15, <3>1, FactoryOf
  <2>5. Exact(Factory(c), Plus(u, <<p>>))
    BY <1>7, <2>4, ExactOtherPost
  <2> QED
    BY <1>1, <1>15, <2>3, <2>5, AccountsNothing
<1>18. PICK t : t = RemoveFromParentPendingCount(RemoveChildren(c, i), i)
  OBVIOUS
<1>19. Settles(s, c, t, i, ext, <<>>, persistCount)
  <2>1. <<>> \in Seq(Paths)
    OBVIOUS
  <2>2. PICK inhand \in Seq(Paths) : inhand = <<>>
    BY <2>1
  <2>3. Settles(s, c, t, i, ext, inhand, persistCount)
    BY <1>1, <1>16, <1>17, <1>18, <2>2, RemoveThenNotify
  <2> QED
    BY <2>2, <2>3
<1>20. Ends(s, t, i)
  BY <1>10, <1>13, <1>15, <1>19 DEF Settles, Ends, SameStatus
<1>21. /\ Resolves(s, t, i) /\ Accounts(t, ext, <<>>)
       /\ PersistRoom(persistCount, t.free, t.persisted)
  BY <1>19 DEF Settles
<1> QED
  BY <1>11, <1>18, <1>20, <1>21, SolvesIf

\* A resource of a type that is not known has no children and is not loaded.
LEMMA UnknownEffect ==
  ASSUME NEW w, NEW rank, NEW s, NEW ext, Sound(w, rank, persistCount, s, ext),
         NEW i, Solvable(s, i), w.fate[PathOf(s.req[i])] = "untyped",
         NEW x \in NodeResults \ {PENDING, LOOP}
  PROVE  Solves(w, rank, persistCount, s,
                RemoveFromParentPendingCount([s EXCEPT !.req[i].result = x], i), i, ext)
<1>1. TreeOK(w, rank, persistCount, s) /\ Accounts(s, ext, <<>>) /\ ext \in SUBSET Names
  BY DEF Sound
<1>2. /\ s \in TreeStates /\ i \in Live(s.free) /\ i \in Nodes /\ Shape(s.req, s.free)
      /\ s.req[i].parent # i
      /\ s.req[i].parent = None
         \/ (s.req[i].parent \in Nodes /\ s.req[s.req[i].parent].pending > 0)
      /\ s.req[i].pending = Cardinality(PendingKids(s.req, s.free, i))
  BY <1>1, SolvableFacts
<1>3. NodeOK(w, rank, s.req, s.free, i)
  BY <1>1, <1>2 DEF TreeOK
<1>4. ~s.req[i].loading /\ ~s.req[i].buffer /\ Kids(s.req, s.free, i) = {}
  BY <1>3 DEF NodeOK
<1>5. s.req[i].first = None
  BY <1>2, <1>4, NoFirstChild
<1>6. s.req[i].pending = 0
  <2>1. PendingKids(s.req, s.free, i) = {}
    BY <1>4 DEF PendingKids
  <2> QED
    BY <1>2, <2>1, FS_EmptySet
<1>7. PICK c : c = [s EXCEPT !.req[i].result = x]
  OBVIOUS
<1>8. Marked(s, c, i) /\ Accounts(c, ext, <<>>)
  BY <1>1, <1>2, <1>4, <1>7, ResultMarked
<1>9. PICK p : p = s.req[i].parent
  OBVIOUS
<1>10. /\ c \in TreeStates /\ c.req[i].parent = p
       /\ p = None \/ (p \in Nodes /\ c.req[p].pending > 0)
  BY <1>2, <1>8, <1>9 DEF Marked, SameLinks
<1>11. PICK t : t = RemoveFromParentPendingCount(c, i)
  OBVIOUS
<1>12. Notified(c, t, p) /\ Accounts(t, ext, <<>>)
  BY <1>2, <1>8, <1>10, <1>11, ParentNotified
<1>13. t.req[i] = c.req[i]
  BY <1>2, <1>9, <1>12 DEF Notified
<1>14. Resolves(s, t, i)
  <2>1. t \in TreeStates /\ \A k \in Nodes : k # i /\ k # s.req[i].parent => t.req[k] = s.req[k]
    BY <1>8, <1>9, <1>12 DEF Notified, Marked
  <2>2. s.req[i].parent # None =>
          /\ SameStatus(t.req[s.req[i].parent], s.req[s.req[i].parent])
          /\ SameLinks(t.req[s.req[i].parent], s.req[s.req[i].parent])
          /\ t.req[s.req[i].parent].pending = s.req[s.req[i].parent].pending - 1
    <3>1. p # None => p \in Nodes /\ p # i
      BY <1>2, <1>9
    <3>2. p # None => c.req[p] = s.req[p]
      BY <1>8, <3>1 DEF Marked
    <3>3. p # None => /\ SameStatus(t.req[p], c.req[p]) /\ SameLinks(t.req[p], c.req[p])
                      /\ t.req[p].pending = c.req[p].pending - 1
      BY <1>12 DEF Notified
    <3> QED
      BY <1>9, <3>2, <3>3
  <2>3. /\ t.req[i].name = s.req[i].name /\ t.req[i].parent = s.req[i].parent
        /\ t.req[i].next = s.req[i].next /\ t.req[i].first = None /\ t.req[i].pending = 0
        /\ ~t.req[i].buffer /\ t.req[i].result \notin {PENDING, LOOP}
    BY <1>5, <1>6, <1>8, <1>13 DEF Marked, SameLinks
  <2>4. FreeOK(t.free) /\ Live(t.free) = Live(s.free) \ Kids(s.req, s.free, i)
    BY <1>2, <1>4, <1>8, <1>12 DEF Notified, Marked, Shape
  <2> QED
    BY <2>1, <2>2, <2>3, <2>4 DEF Resolves
<1>15. Ends(s, t, i)
  BY <1>4, <1>8, <1>12, <1>13 DEF Ends, Marked, Notified
<1>16. PersistRoom(persistCount, t.free, t.persisted)
  BY <1>1, <1>8, <1>12 DEF TreeOK, Marked, Notified
<1> QED
  BY <1>7, <1>11, <1>12, <1>14, <1>15, <1>16, SolvesIf

-----------------------------------------------------------------------------
(* A request that is loaded, and then keeps its buffer and waits.          *)

\* The request i of the tree s is loading, or has its buffer, in the tree t.
GetsBusy(s, t, i) ==
  /\ t \in TreeStates /\ \A k \in Nodes : k # i => t.req[k] = s.req[k]
  /\ SameLinks(t.req[i], s.req[i]) /\ t.req[i].name = s.req[i].name
  /\ t.req[i].pending = s.req[i].pending /\ t.req[i].result = s.req[i].result
  /\ t.req[i].resource = s.req[i].resource
  /\ t.free = s.free /\ t.persisted = s.persisted
  /\ t.inProgress = s.inProgress \cup {PathOf(s.req[i])}
  /\ \/ t.req[i].loading /\ ~t.req[i].buffer
     \/ ~t.req[i].loading /\ t.req[i].buffer /\ Kids(s.req, s.free, i) # {}

\* The tree stays as it must be.
LEMMA BusyTree ==
  ASSUME NEW w, NEW rank, NEW count, NEW s, TreeOK(w, rank, count, s), NEW i, Solvable(s, i),
         ~s.req[i].buffer, s.req[i].loading \/ PathOf(s.req[i]) \notin s.inProgress,
         w.fate[PathOf(s.req[i])] # "untyped", NEW t, GetsBusy(s, t, i)
  PROVE  TreeOK(w, rank, count, t)
<1>1. /\ s \in TreeStates /\ i \in Live(s.free) /\ i \in Nodes /\ Shape(s.req, s.free)
      /\ s.req[i].result = PENDING /\ (i # 0 => s.req[s.req[i].parent].buffer)
  BY SolvableFacts DEF Solvable
<1>2. PICK R : R = s.req
  OBVIOUS
<1>3. PICK F : F = s.free
  OBVIOUS
<1>4. PICK Q : Q = t.req
  OBVIOUS
<1>5. /\ \A k \in Nodes : k # i => Q[k] = R[k]
      /\ SameLinks(Q[i], R[i]) /\ Q[i].name = R[i].name
      /\ Q[i].pending = R[i].pending /\ Q[i].result = R[i].result
      /\ Q[i].resource = R[i].resource
      /\ Q[i].loading => ~Q[i].buffer
      /\ Q[i].buffer => Kids(R, F, i) # {} /\ ~Q[i].loading
      /\ Q[i].loading \/ Q[i].buffer
  BY <1>2, <1>3, <1>4 DEF GetsBusy
<1>6. Shape(Q, F) /\ \A j : Kids(Q, F, j) = Kids(R, F, j)
  <2>1. \A k \in Nodes : SameLinks(Q[k], R[k])
    BY <1>5 DEF SameLinks
  <2> QED
    BY <1>1, <1>2, <1>3, <2>1, SameShape
<1>7. \A j : PendingKids(Q, F, j) = PendingKids(R, F, j)
  <2>1. \A k \in Live(F) : Q[k].result = R[k].result
    BY <1>5 DEF Live
  <2> QED
    BY <1>6, <2>1 DEF PendingKids, Kids
<1>8. \A k \in Nodes : PathOf(Q[k]) = PathOf(R[k])
  BY <1>5 DEF PathOf
<1>9. ASSUME NEW j \in Live(F) PROVE NodeOK(w, rank, Q, F, j)
  <2>0. j \in Nodes
    BY DEF Live
  <2>1. NodeOK(w, rank, R, F, j)
    BY <1>2, <1>3 DEF TreeOK
  <2>2. Q[j].pending = Cardinality(PendingKids(Q, F, j)) /\ Q[j].result # LOOP
    BY <1>5, <1>7, <2>0, <2>1 DEF NodeOK
  <2>3. j # 0 => Descends(rank, Q, j)
    <3>1. SUFFICES ASSUME j # 0 PROVE Descends(rank, Q, j)
      OBVIOUS
    <3>2. Descends(rank, R, j)
      BY <2>1, <3>1 DEF NodeOK
    <3>3. R[j].parent \in Nodes
      BY <1>1, <1>2, <1>3, <3>1, ParentLive DEF Live
    <3>4. Q[j].name = R[j].name /\ Q[j].parent = R[j].parent
      BY <1>5, <2>0 DEF SameLinks
    <3> QED
      BY <1>8, <2>0, <3>2, <3>3, <3>4 DEF Descends
  <2>4. ~Q[j].buffer => \A k \in Kids(Q, F, j) : Pristine(Q, F, k)
    <3>1. SUFFICES ASSUME ~Q[j].buffer, NEW k \in Kids(R, F, j) PROVE Pristine(Q, F, k)
      BY <1>6
    <3>2. k \in Live(F) /\ k \in Nodes /\ R[k].parent = j
      BY DEF Kids, Live
    <3>3. ~R[j].buffer
      BY <1>2, <1>5, <2>0, <3>1
    <3>4. Pristine(R, F, k)
      BY <2>1, <3>3 DEF NodeOK
    <3>5. k # i
      <4>1. SUFFICES ASSUME k = i PROVE FALSE
        OBVIOUS
      <4>2. k # 0
        BY <1>1, <1>2, <1>3, <3>2, <2>0, ParentLive, NodesFinite
      <4> QED
        BY <1>1, <1>2, <3>2, <3>3, <4>1, <4>2
    <3> QED
      BY <1>5, <1>6, <3>2, <3>4, <3>5 DEF Pristine
  <2>5. CASE j = i
    <3>1. R[i].result = PENDING
      BY <1>1, <1>2
    <3>2. Q[i].result = PENDING /\ ~Q[i].resource /\ Q[i].name \notin Malformed
      BY <1>5, <2>1, <2>5, <3>1 DEF NodeOK
    <3>3. w.fate[PathOf(Q[i])] # "untyped"
      BY <1>1, <1>2, <1>8
    <3> QED
      BY <1>5, <1>6, <2>2, <2>3, <2>4, <2>5, <3>2, <3>3 DEF NodeOK
  <2>6. CASE j # i
    <3>1. Q[j] = R[j]
      BY <1>5, <2>0, <2>6
    <3> QED
      BY <1>6, <2>1, <2>2, <2>3, <2>4, <3>1 DEF NodeOK
  <2> QED
    BY <2>5, <2>6
<1>10. ProgressOK(Q, F, t.inProgress)
  <2>1. PICK p : p = PathOf(R[i])
    OBVIOUS
  <2>2. PICK I : I = s.inProgress
    OBVIOUS
  <2>3. t.inProgress = I \cup {p}
    BY <1>2, <2>1, <2>2 DEF GetsBusy
  <2>4. /\ I = {PathOf(R[k]) : k \in Busy(R, F)}
        /\ \A k, j \in Busy(R, F) : PathOf(R[k]) = PathOf(R[j]) => k = j
    BY <1>2, <1>3, <2>2 DEF TreeOK, ProgressOK
  <2>5. Busy(Q, F) = Busy(R, F) \cup {i}
    <3>1. i \in Live(F)
      BY <1>1, <1>3
    <3>2. \A k \in Live(F) : k # i => Q[k] = R[k]
      BY <1>5 DEF Live
    <3> QED
      BY <1>5, <3>1, <3>2 DEF Busy
  <2>6. \A k \in Busy(R, F) : k # i => PathOf(R[k]) # p
    <3>1. CASE s.req[i].loading
      <4>1. i \in Busy(R, F)
        BY <1>1, <1>2, <1>3, <3>1 DEF Busy
      <4> QED
        BY <2>1, <2>4, <4>1
    <3>2. CASE PathOf(s.req[i]) \notin s.inProgress
      BY <1>2, <2>1, <2>2, <2>4, <3>2
    <3> QED
      BY <3>1, <3>2
  <2>7. \A k \in Busy(Q, F) : k \in Nodes /\ PathOf(Q[k]) = PathOf(R[k])
    BY <1>8 DEF Busy, Live
  <2>8. I \cup {p} = {PathOf(Q[k]) : k \in Busy(Q, F)}
    BY <2>1, <2>4, <2>5, <2>7
  <2>9. \A k, j \in Busy(Q, F) : PathOf(Q[k]) = PathOf(Q[j]) => k = j
    BY <2>1, <2>4, <2>5, <2>6, <2>7
  <2> QED
    BY <2>3, <2>8, <2>9 DEF ProgressOK
<1>11. t.req[0].result = PENDING => 1 .. (count - 1) \subseteq Kids(Q, F, 0)
  <2>1. Q[0].result = R[0].result
    BY <1>5, NodesFinite
  <2> QED
    BY <1>2, <1>3, <1>4, <1>6, <2>1 DEF TreeOK
<1>12. t \in TreeStates /\ t.free = F /\ PersistRoom(count, t.free, t.persisted)
  BY <1>3 DEF GetsBusy, TreeOK
<1>13. \A k \in Nodes \ Live(F) : Q[k].pending = 0
  <2>1. \A k \in Nodes \ Live(F) : R[k].pending = 0
    BY <1>2, <1>3 DEF TreeOK
  <2> QED
    BY <1>1, <1>3, <1>5, <2>1
<1> QED
  BY <1>4, <1>6, <1>9, <1>10, <1>11, <1>12, <1>13 DEF TreeOK

\* The load has succeeded and the request has children: it keeps its buffer.
LEMMA BufferEffect ==
  ASSUME NEW w, NEW rank, NEW s, NEW ext, Sound(w, rank, persistCount, s, ext),
         NEW i, Solvable(s, i), s.req[i].loading, s.req[i].first # None
  PROVE  LET t == FreeLoad([s EXCEPT !.req[i].buffer = TRUE], i)
         IN  GetsBusy(s, t, i) /\ ~t.req[i].loading /\ Sound(w, rank, persistCount, t, ext)
<1>1. TreeOK(w, rank, persistCount, s) /\ Accounts(s, ext, <<>>) /\ ext \in SUBSET Names
  BY DEF Sound
<1>2. s \in TreeStates /\ i \in Live(s.free) /\ i \in Nodes /\ Shape(s.req, s.free)
  BY <1>1, SolvableFacts
<1>3. NodeOK(w, rank, s.req, s.free, i)
  BY <1>1, <1>2 DEF TreeOK
<1>4. ~s.req[i].buffer /\ w.fate[PathOf(s.req[i])] # "untyped"
  BY <1>3 DEF NodeOK
<1>5. Kids(s.req, s.free, i) # {}
  BY <1>2, NoFirstChild
<1>6. PathOf(s.req[i]) \in s.inProgress
  BY <1>1, <1>2, BusyPath
<1>7. PICK r : r = [s.req[i] EXCEPT !.buffer = TRUE, !.loading = FALSE]
  OBVIOUS
<1>8. /\ r \in Requests /\ SameLinks(r, s.req[i]) /\ ~r.loading /\ r.buffer
      /\ r.name = s.req[i].name /\ r.pending = s.req[i].pending
      /\ r.result = s.req[i].result /\ r.resource = s.req[i].resource
  <2>1. s.req[i] \in Requests
    BY <1>2, TreeFields
  <2> QED
    BY <1>7, <2>1 DEF Requests, SameLinks
<1>9. PICK t : t = FreeLoad([s EXCEPT !.req[i].buffer = TRUE], i)
  OBVIOUS
<1>10. t = [s EXCEPT !.req[i] = r]
  BY <1>2, <1>7, <1>9 DEF FreeLoad, TreeStates
<1>11. OnlyAt(s, t, i) /\ t.req[i] = r
  BY <1>2, <1>8, <1>10, SetRequest
<1>12. GetsBusy(s, t, i)
  BY <1>5, <1>6, <1>8, <1>11 DEF GetsBusy, OnlyAt
<1>13. TreeOK(w, rank, persistCount, t)
  BY <1>1, <1>4, <1>12, BusyTree
<1>14. Accounts(t, ext, <<>>)
  <2>1. \A k \in Live(s.free) : t.req[k].name = s.req[k].name /\ t.req[k].resource = s.req[k].resource
    BY <1>8, <1>11 DEF OnlyAt, Live
  <2>2. /\ t.free = s.free /\ t.persisted = s.persisted /\ t.post = s.post
        /\ t.res = s.res /\ t.abort = s.abort
    BY <1>11 DEF OnlyAt
  <2> QED
    BY <1>1, <2>1, <2>2, AccountsSame
<1> QED
  BY <1>1, <1>8, <1>9, <1>11, <1>12, <1>13, <1>14 DEF Sound

\* A load is begun; the assert of MarkPathInProgress holds.
LEMMA BeginEffect ==
  ASSUME NEW w, NEW rank, NEW s, NEW ext, Sound(w, rank, persistCount, s, ext),
         NEW i, Solvable(s, i), ~s.req[i].buffer, PathOf(s.req[i]) \notin s.inProgress,
         w.fate[PathOf(s.req[i])] # "untyped"
  PROVE  LET t == MarkPathInProgress([s EXCEPT !.req[i].loading = TRUE], i)
         IN  GetsBusy(s, t, i) /\ t.req[i].loading /\ Sound(w, rank, persistCount, t, ext)
<1>1. TreeOK(w, rank, persistCount, s) /\ Accounts(s, ext, <<>>) /\ ext \in SUBSET Names
  BY DEF Sound
<1>2. s \in TreeStates /\ i \in Live(s.free) /\ i \in Nodes /\ PathOf(s.req[i]) \in Paths
  BY <1>1, SolvableFacts
<1>7. PICK r : r = [s.req[i] EXCEPT !.loading = TRUE]
  OBVIOUS
<1>8. /\ r \in Requests /\ SameLinks(r, s.req[i]) /\ r.loading /\ ~r.buffer
      /\ r.name = s.req[i].name /\ r.pending = s.req[i].pending
      /\ r.result = s.req[i].result /\ r.resource = s.req[i].resource
  <2>1. s.req[i] \in Requests
    BY <1>2, TreeFields
  <2> QED
    BY <1>7, <2>1 DEF Requests, SameLinks
<1>9. PICK c : c = [s EXCEPT !.req[i].loading = TRUE]
  OBVIOUS
<1>10. c = [s EXCEPT !.req[i] = r]
  BY <1>2, <1>7, <1>9 DEF TreeStates
<1>11. OnlyAt(s, c, i) /\ c.req[i] = r
  BY <1>2, <1>8, <1>10, SetRequest
<1>12. PICK p : p = PathOf(s.req[i])
  OBVIOUS
<1>13. PathOf(c.req[i]) = p /\ p \notin c.inProgress /\ c \in TreeStates
  BY <1>8, <1>11, <1>12 DEF PathOf, OnlyAt
<1>14. PICK t : t = MarkPathInProgress(c, i)
  OBVIOUS
<1>15. t = [c EXCEPT !.inProgress = @ \cup {p}]
  BY <1>13, <1>14 DEF MarkPathInProgress, Require
<1>16. /\ t \in TreeStates /\ t.req = c.req /\ t.free = c.free
       /\ t.inProgress = c.inProgress \cup {p}
       /\ t.persisted = c.persisted /\ t.post = c.post /\ t.res = c.res /\ t.abort = c.abort
  BY <1>2, <1>12, <1>13, <1>15 DEF TreeStates
<1>17. GetsBusy(s, t, i) /\ t.req[i].loading
  BY <1>8, <1>11, <1>12, <1>16 DEF GetsBusy, OnlyAt
<1>18. TreeOK(w, rank, persistCount, t)
  BY <1>1, <1>17, BusyTree
<1>19. Accounts(t, ext, <<>>)
  <2>1. \A k \in Live(s.free) : t.req[k].name = s.req[k].name /\ t.req[k].resource = s.req[k].resource
    BY <1>8, <1>11, <1>16 DEF OnlyAt, Live
  <2>2. /\ t.free = s.free /\ t.persisted = s.persisted /\ t.post = s.post
        /\ t.res = s.res /\ t.abort = s.abort
    BY <1>11, <1>16 DEF OnlyAt
  <2> QED
    BY <1>1, <2>1, <2>2, AccountsSame
<1> QED
  BY <1>1, <1>9, <1>14, <1>17, <1>18, <1>19 DEF Sound

-----------------------------------------------------------------------------
(* The walk.  Its stack leads from the root to the request it visits.  A   *)
(* request of the stack may have been removed by the creation of its       *)
(* parent; it was resolved then, and so were its siblings.                 *)

OnPath(R, st) ==
  /\ st \in Seq(Nodes) /\ st # <<>> /\ st[1] = 0
  /\ \A j \in 1 .. (Len(st) - 1) : R[st[j + 1]].parent = st[j]

Gone(R, F, D) ==
  /\ D \subseteq Nodes \ Live(F)
  /\ \A k \in D : /\ R[k].result \notin {PENDING, LOOP}
                  /\ R[k].next # None => R[k].next \in D /\ R[R[k].next].parent = R[k].parent

WalkOK(R, F, st) ==
  /\ OnPath(R, st)
  /\ \E D : Gone(R, F, D) /\ \A j \in 1 .. Len(st) : st[j] \in Live(F) \cup D
  /\ \A j \in 1 .. (Len(st) - 1) : st[j + 1] \in Live(F) => R[st[j]].buffer

\* The length of the stack.
LEMMA StackFacts ==
  ASSUME NEW R, NEW st, OnPath(R, st)
  PROVE  /\ Len(st) \in Nat \ {0} /\ Last(st) = st[Len(st)] /\ st \in Seq(Nodes)
         /\ \A j \in 1 .. Len(st) : st[j] \in Nodes
<1>1. st \in Seq(Nodes) /\ st # <<>>
  BY DEF OnPath
<1>2. Len(st) \in Nat /\ Len(st) # 0
  BY <1>1, LenProperties, EmptySeq
<1> QED
  BY <1>1, <1>2, ElementOfSeq DEF Last

\* While the request that is visited is in the tree, so are those above it.
LEMMA WalkLive ==
  ASSUME NEW R, NEW F, Shape(R, F), NEW st, OnPath(R, st), st[Len(st)] \in Live(F)
  PROVE  \A j \in 1 .. Len(st) : st[j] \in Live(F)
<1>1. PICK L \in Nat : L = Len(st) - 1
  BY StackFacts
<1>2. PICK n \in Nat : n = Len(st) /\ n = L + 1
  BY <1>1, StackFacts
<1> DEFINE S == {m \in 0 .. L : st[n - m] \in Live(F)}
<1>3. 0 \in S
  BY <1>1, <1>2
<1>4. ASSUME NEW m \in 0 .. L, m \in S, m < L PROVE m + 1 \in S
  <2>1. PICK j \in Nat : j = n - (m + 1) /\ j \in 1 .. (Len(st) - 1) /\ j + 1 = n - m
    BY <1>1, <1>2, <1>4
  <2>2. st[j + 1] \in Live(F) /\ R[st[j + 1]].parent = st[j]
    BY <1>4, <2>1 DEF OnPath
  <2>3. st[j] \in Nodes
    <3>1. j \in 1 .. Len(st)
      BY <1>1, <1>2, <2>1
    <3> QED
      BY <3>1, StackFacts
  <2>4. st[j] \in Live(F)
    BY <2>2, <2>3, ParentLive, NodesFinite
  <2> QED
    BY <1>4, <2>1, <2>4
<1>5. 0 .. L \subseteq S
  <2> HIDE DEF S
  <2> QED
    BY <1>3, <1>4, EveryRound
<1>6. ASSUME NEW j \in 1 .. Len(st) PROVE st[j] \in Live(F)
  <2>1. PICK m \in 0 .. L : m = n - j /\ n - m = j
    BY <1>2
  <2>2. st[n - m] \in Live(F)
    BY <1>5
  <2> QED
    BY <2>1, <2>2
<1> QED
  BY <1>6

\* Resolving a request leaves every request where it is.
LEMMA ResolvedLinks ==
  ASSUME NEW w, NEW rank, NEW count, NEW s, TreeOK(w, rank, count, s), NEW i, Solvable(s, i),
         NEW t, Resolves(s, t, i)
  PROVE  /\ \A k \in Nodes : /\ t.req[k].parent = s.req[k].parent /\ t.req[k].next = s.req[k].next
                             /\ t.req[k].name = s.req[k].name
                             /\ k # i => SameStatus(t.req[k], s.req[k])
         /\ \A k \in Nodes \ Live(s.free) : t.req[k] = s.req[k]
         /\ \A k \in Kids(s.req, s.free, i) : t.req[k] = s.req[k]
<1>1. /\ i \in Live(s.free) /\ i \in Nodes /\ Shape(s.req, s.free) /\ s.req[i].parent # i
      /\ \A k \in Kids(s.req, s.free, i) : k \in Nodes /\ k # i /\ k # s.req[i].parent
  BY SolvableFacts
<1>2. s.req[i].parent \in Live(s.free) \/ s.req[i].parent = None
  BY <1>1, ParentLive
<1>3. ASSUME NEW k \in Nodes
      PROVE  /\ t.req[k].parent = s.req[k].parent /\ t.req[k].next = s.req[k].next
             /\ t.req[k].name = s.req[k].name
             /\ k # i => SameStatus(t.req[k], s.req[k])
  <2>1. CASE k = i
    BY <2>1 DEF Resolves
  <2>2. CASE k # i /\ k = s.req[i].parent
    <3>1. s.req[i].parent # None
      BY <2>2, NodesFinite
    <3> QED
      BY <2>2, <3>1 DEF Resolves, SameStatus, SameLinks
  <2>3. CASE k # i /\ k # s.req[i].parent
    BY <2>3 DEF Resolves, SameStatus
  <2> QED
    BY <2>1, <2>2, <2>3
<1>4. ASSUME NEW k \in Nodes \ Live(s.free) PROVE t.req[k] = s.req[k]
  <2>1. k # i /\ k # s.req[i].parent
    BY <1>1, <1>2, NodesFinite
  <2> QED
    BY <2>1 DEF Resolves
<1>5. \A k \in Kids(s.req, s.free, i) : t.req[k] = s.req[k]
  BY <1>1 DEF Resolves
<1> QED
  BY <1>3, <1>4, <1>5

\* The request that is visited is resolved.
LEMMA VisitKeepsWalk ==
  ASSUME NEW w, NEW rank, NEW count, NEW s, TreeOK(w, rank, count, s), NEW i, Solvable(s, i),
         NEW t, Resolves(s, t, i), NEW st, WalkOK(s.req, s.free, st), st[Len(st)] = i
  PROVE  WalkOK(t.req, t.free, st)
<1>1. s \in TreeStates /\ i \in Live(s.free) /\ i \in Nodes /\ Shape(s.req, s.free)
  BY SolvableFacts
<1>2. OnPath(s.req, st)
  BY DEF WalkOK
<1>3. \A j \in 1 .. Len(st) : st[j] \in Live(s.free)
  BY <1>1, <1>2, WalkLive
<1>4. Len(st) \in Nat \ {0}
  BY <1>2, StackFacts
<1>5. ASSUME NEW j \in 1 .. Len(st), st[j] \in Kids(s.req, s.free, i) PROVE FALSE
  <2>1. CASE j = Len(st)
    BY <1>1, <1>5, <2>1, NoFirstChild
  <2>2. CASE j # Len(st)
    <3>1. j \in 1 .. (Len(st) - 1) /\ j + 1 \in 1 .. Len(st)
      BY <1>4, <2>2
    <3>2. st[j + 1] \in Kids(s.req, s.free, st[j])
      BY <1>2, <1>3, <3>1 DEF OnPath, Kids
    <3>3. Kids(s.req, s.free, st[j]) = {}
      BY <1>1, <1>5, KidsAreLeaves DEF Solvable
    <3> QED
      BY <3>2, <3>3
  <2> QED
    BY <2>1, <2>2
<1>6. Live(t.free) = Live(s.free) \ Kids(s.req, s.free, i)
  BY DEF Resolves
<1>7. \A j \in 1 .. Len(st) : st[j] \in Live(t.free)
  BY <1>3, <1>5, <1>6
<1>8. \A k \in Nodes : t.req[k].parent = s.req[k].parent /\ (k # i => SameStatus(t.req[k], s.req[k]))
  BY ResolvedLinks
<1>9. OnPath(t.req, st)
  <2>1. ASSUME NEW j \in 1 .. (Len(st) - 1) PROVE t.req[st[j + 1]].parent = st[j]
    <3>1. j + 1 \in 1 .. Len(st)
      BY <1>4
    <3>2. st[j + 1] \in Nodes
      BY <1>2, <3>1, StackFacts
    <3> QED
      BY <1>2, <1>8, <3>2 DEF OnPath
  <2> QED
    BY <1>2, <2>1 DEF OnPath
<1>10. Gone(t.req, t.free, {}) /\ \A j \in 1 .. Len(st) : st[j] \in Live(t.free) \cup {}
  BY <1>7 DEF Gone
<1>11. ASSUME NEW j \in 1 .. (Len(st) - 1) PROVE t.req[st[j]].buffer
  <2>1. j + 1 \in 1 .. Len(st) /\ j \in 1 .. Len(st)
    BY <1>4
  <2>2. s.req[st[j]].buffer /\ s.req[st[j + 1]].parent = st[j]
    BY <1>2, <1>3, <2>1 DEF WalkOK, OnPath
  <2>3. st[j] # i
    BY <1>3, <1>5, <2>1, <2>2 DEF Kids
  <2>4. st[j] \in Nodes
    BY <1>2, <2>1, StackFacts
  <2> QED
    BY <1>8, <2>2, <2>3, <2>4 DEF SameStatus
<1> QED
  BY <1>9, <1>10, <1>11 DEF WalkOK

\* The climb creates a request, of the stack or not.
LEMMA ClimbKeepsWalk ==
  ASSUME NEW w, NEW rank, NEW count, NEW s, TreeOK(w, rank, count, s), NEW i, Solvable(s, i),
         s.req[i].pending = 0, NEW t, Resolves(s, t, i), NEW st, WalkOK(s.req, s.free, st)
  PROVE  WalkOK(t.req, t.free, st)
<1>1. s \in TreeStates /\ i \in Live(s.free) /\ i \in Nodes /\ Shape(s.req, s.free)
  BY SolvableFacts
<1>2. OnPath(s.req, st)
  BY DEF WalkOK
<1>3. PICK D : Gone(s.req, s.free, D) /\ \A j \in 1 .. Len(st) : st[j] \in Live(s.free) \cup D
  BY DEF WalkOK
<1>4. Len(st) \in Nat \ {0}
  BY <1>2, StackFacts
<1>5. PICK K : K = Kids(s.req, s.free, i)
  OBVIOUS
<1>6. Live(t.free) = Live(s.free) \ K /\ K \subseteq Live(s.free) /\ Live(s.free) \subseteq Nodes
  BY <1>5 DEF Resolves, Kids, Live
<1>7. /\ \A k \in Nodes : /\ t.req[k].parent = s.req[k].parent /\ t.req[k].next = s.req[k].next
                          /\ k # i => SameStatus(t.req[k], s.req[k])
      /\ \A k \in Nodes \ Live(s.free) : t.req[k] = s.req[k]
      /\ \A k \in K : t.req[k] = s.req[k]
  BY <1>5, ResolvedLinks
<1>8. OnPath(t.req, st)
  <2>1. ASSUME NEW j \in 1 .. (Len(st) - 1) PROVE t.req[st[j + 1]].parent = st[j]
    <3>1. j + 1 \in 1 .. Len(st)
      BY <1>4
    <3>2. st[j + 1] \in Nodes
      BY <1>2, <3>1, StackFacts
    <3> QED
      BY <1>2, <1>7, <3>2 DEF OnPath
  <2> QED
    BY <1>2, <2>1 DEF OnPath
<1>9. Gone(t.req, t.free, D \cup K)
  <2>1. D \cup K \subseteq Nodes \ Live(t.free)
    BY <1>3, <1>6 DEF Gone
  <2>2. ASSUME NEW k \in D
        PROVE  /\ t.req[k].result \notin {PENDING, LOOP}
               /\ t.req[k].next # None => t.req[k].next \in D /\ t.req[t.req[k].next].parent = t.req[k].parent
    BY <1>3, <1>7 DEF Gone
  <2>3. ASSUME NEW k \in K
        PROVE  /\ t.req[k].result \notin {PENDING, LOOP}
               /\ t.req[k].next # None => t.req[k].next \in K /\ t.req[t.req[k].next].parent = t.req[k].parent
    <3>1. k \in Live(s.free) /\ k \in Nodes /\ s.req[k].parent = i /\ t.req[k] = s.req[k]
      BY <1>5, <1>6, <1>7 DEF Kids
    <3>2. s.req[k].result # PENDING
      BY <1>1, <1>5, KidsAreLeaves
    <3>3. s.req[k].result # LOOP
      BY <3>1 DEF TreeOK, NodeOK
    <3>4. s.req[k].next # None => s.req[k].next \in K /\ s.req[s.req[k].next].parent = i
      BY <1>1, <1>5, <3>1, NextSibling DEF Kids
    <3> QED
      BY <1>6, <1>7, <3>1, <3>2, <3>3, <3>4
  <2> QED
    BY <2>1, <2>2, <2>3 DEF Gone
<1>10. \A j \in 1 .. Len(st) : st[j] \in Live(t.free) \cup (D \cup K)
  BY <1>3, <1>6
<1>11. ASSUME NEW j \in 1 .. (Len(st) - 1), st[j + 1] \in Live(t.free) PROVE t.req[st[j]].buffer
  <2>1. j + 1 \in 1 .. Len(st) /\ j \in 1 .. Len(st)
    BY <1>4
  <2>2. st[j + 1] \in Live(s.free) /\ st[j + 1] \notin K
    BY <1>6, <1>11
  <2>3. s.req[st[j]].buffer /\ s.req[st[j + 1]].parent = st[j]
    BY <1>2, <2>2 DEF WalkOK, OnPath
  <2>4. st[j] # i
    BY <1>5, <2>2, <2>3 DEF Kids
  <2>5. st[j] \in Nodes
    BY <1>2, <2>1, StackFacts
  <2> QED
    BY <1>7, <2>3, <2>4, <2>5 DEF SameStatus
<1> QED
  BY <1>8, <1>9, <1>10, <1>11 DEF WalkOK

\* The rounds of the climb: the definition by recursion has a solution.
LEMMA ClimbRounds ==
  ASSUME NEW s, NEW i
  PROVE  \E g : /\ g[0] = [s |-> s, i |-> i]
                /\ \A n \in 1 .. MAX_PRELOADER_REQUESTS : g[n] = Climb(g[n - 1])
                /\ PreloaderTryPruneParent(s, i) = g[MAX_PRELOADER_REQUESTS].s
<1> DEFINE L == MAX_PRELOADER_REQUESTS
           after[n \in 0 .. MAX_PRELOADER_REQUESTS] ==
             IF n = 0 THEN [s |-> s, i |-> i] ELSE Climb(after[n - 1])
           Body(g, m) == [n \in 0 .. m |-> IF n = 0 THEN [s |-> s, i |-> i] ELSE Climb(g[n - 1])]
           S == {m \in 0 .. L : \E g : g = Body(g, m)}
<1>0. L \in Nat
  BY PreloaderAssumption
<1>1. 0 \in S
  <2>1. [n \in 0 .. 0 |-> [s |-> s, i |-> i]] = Body([n \in 0 .. 0 |-> [s |-> s, i |-> i]], 0)
    OBVIOUS
  <2> HIDE DEF Body
  <2> QED
    BY <1>0, <2>1
<1>2. ASSUME NEW m \in 0 .. L, m \in S, m < L PROVE m + 1 \in S
  <2>1. PICK g : g = Body(g, m)
    BY <1>2
  <2> DEFINE h == [n \in 0 .. m + 1 |-> IF n <= m THEN g[n] ELSE Climb(g[m])]
  <2>2. h = Body(h, m + 1)
    <3>1. ASSUME NEW n \in 0 .. m + 1 PROVE h[n] = Body(h, m + 1)[n]
      <4>1. CASE n = 0
        BY <2>1, <4>1
      <4>2. CASE n \in 1 .. m
        <5>1. n - 1 \in 0 .. m /\ h[n - 1] = g[n - 1] /\ h[n] = g[n]
          BY <4>2
        <5>2. n \in 0 .. m /\ n \in 0 .. m + 1 /\ n # 0
          BY <4>2
        <5>3. Body(g, m)[n] = Climb(g[n - 1])
          BY <5>2
        <5>4. Body(h, m + 1)[n] = Climb(h[n - 1])
          <6> HIDE DEF h
          <6> QED
            BY <5>2
        <5>5. g[n] = Body(g, m)[n]
          BY <2>1
        <5> HIDE DEF Body, h
        <5> QED
          BY <5>1, <5>3, <5>4, <5>5
      <4>3. CASE n = m + 1
        <5>1. h[n - 1] = g[m]
          BY <4>3
        <5> QED
          BY <4>3, <5>1
      <4> QED
        BY <4>1, <4>2, <4>3
    <3> QED
      BY <3>1
  <2> HIDE DEF Body, h
  <2>3. m + 1 \in 0 .. L /\ \E x : x = Body(x, m + 1)
    BY <1>0, <1>2, <2>2
  <2> QED
    BY <2>3
<1>3. 0 .. L \subseteq S
  <2> HIDE DEF S, L
  <2> QED
    BY <1>0, <1>1, <1>2, EveryRound
<1>4. \E g : g = Body(g, L)
  BY <1>0, <1>3
<1>5. after = Body(after, L)
  BY <1>4
<1>6. PreloaderTryPruneParent(s, i) = after[MAX_PRELOADER_REQUESTS].s
  BY DEF PreloaderTryPruneParent
<1> HIDE DEF after
<1>7. after[0] = [s |-> s, i |-> i]
  BY <1>0, <1>5
<1>8. ASSUME NEW n \in 1 .. L PROVE after[n] = Climb(after[n - 1])
  <2>1. n \in 0 .. L /\ n # 0
    BY <1>0
  <2>2. Body(after, L)[n] = Climb(after[n - 1])
    <3> HIDE DEF L
    <3> QED
      BY <2>1
  <2> HIDE DEF Body
  <2> QED
    BY <1>5, <2>2
<1> QED
  BY <1>6, <1>7, <1>8

-----------------------------------------------------------------------------
(* The climb. *)

\* The requests that the load queue has.
Loaders(R, F) == {k \in Live(F) : R[k].loading}

\* In the tree t the load queue has the requests A, with the names they had in s.
HasLoads(s, t, A) ==
  Loaders(t.req, t.free) = A /\ \A k \in A : t.req[k].name = s.req[k].name

\* A request that is resolved is not with the load queue, and no other request comes or goes.
LEMMA SolvedLoads ==
  ASSUME NEW w, NEW rank, NEW count, NEW s, TreeOK(w, rank, count, s), NEW i, Solvable(s, i),
         NEW t, Resolves(s, t, i), Ends(s, t, i)
  PROVE  HasLoads(s, t, Loaders(s.req, s.free) \ {i})
<1>1. s \in TreeStates /\ i \in Live(s.free) /\ i \in Nodes /\ Shape(s.req, s.free)
  BY SolvableFacts
<1>2. \A k \in Nodes : t.req[k].name = s.req[k].name /\ (k # i => SameStatus(t.req[k], s.req[k]))
  BY ResolvedLinks
<1>3. Live(t.free) = Live(s.free) \ Kids(s.req, s.free, i) /\ Live(s.free) \subseteq Nodes
  BY DEF Resolves, Live
<1>4. \A k \in Kids(s.req, s.free, i) : ~s.req[k].loading
  BY <1>1, KidsAreLeaves DEF Solvable
<1>5. ~t.req[i].loading
  BY DEF Ends
<1>6. \A k \in Live(s.free) : k # i => t.req[k].loading = s.req[k].loading
  BY <1>2, <1>3 DEF SameStatus
<1>7. Loaders(t.req, t.free) = Loaders(s.req, s.free) \ {i}
  BY <1>3, <1>4, <1>5, <1>6 DEF Loaders
<1>8. \A k \in Loaders(s.req, s.free) \ {i} : t.req[k].name = s.req[k].name
  BY <1>2, <1>3 DEF Loaders
<1> QED
  BY <1>7, <1>8 DEF HasLoads

\* What holds in every round: the request r.i has just been resolved.
Climbing(w, rank, count, s, r, st, ext) ==
  /\ Sound(w, rank, count, r.s, ext) /\ WalkOK(r.s.req, r.s.free, st)
  /\ r.i \in Live(r.s.free) /\ r.s.req[r.i].result # PENDING
  /\ HasLoads(s, r.s, Loaders(s.req, s.free))

\* A request with a resolved child that waits for no child has its buffer.
LEMMA ParentSolvable ==
  ASSUME NEW w, NEW rank, NEW count, NEW s, TreeOK(w, rank, count, s), NEW i \in Live(s.free),
         s.req[i].result # PENDING, NEW p, p = s.req[i].parent, p # None, s.req[p].pending = 0
  PROVE  Solvable(s, p) /\ s.req[p].buffer
<1>1. Shape(s.req, s.free)
  BY DEF TreeOK
<1>2. i # 0 /\ p \in Live(s.free)
  BY <1>1, ParentLive
<1>3. i \in Kids(s.req, s.free, p)
  BY DEF Kids
<1>4. NodeOK(w, rank, s.req, s.free, p)
  BY <1>2 DEF TreeOK
<1>5. s.req[p].buffer
  BY <1>3, <1>4 DEF NodeOK, Pristine
<1>6. s.req[p].result = PENDING
  BY SMTT(60), <1>3, <1>4 DEF NodeOK
<1>7. ASSUME p # 0 PROVE s.req[s.req[p].parent].buffer
  <2>1. PICK q : q = s.req[p].parent
    OBVIOUS
  <2>2. q \in Live(s.free)
    BY <1>1, <1>2, <1>7, <2>1, ParentLive
  <2>3. NodeOK(w, rank, s.req, s.free, q)
    BY <2>2 DEF TreeOK
  <2>4. p \in Kids(s.req, s.free, q)
    BY <1>2, <2>1 DEF Kids
  <2>5. ~Pristine(s.req, s.free, p)
    BY <1>5 DEF Pristine
  <2> QED
    BY ZenonT(60), <2>1, <2>3, <2>4, <2>5 DEF NodeOK
<1> QED
  BY <1>2, <1>5, <1>6, <1>7 DEF Solvable

\* One round of the climb.
LEMMA ClimbRound ==
  ASSUME NEW rank, WorldOK(rank), NEW w, NEW s, NEW st, NEW ext, NEW r,
         Climbing(w, rank, persistCount, s, r, st, ext)
  PROVE  Climbing(w, rank, persistCount, s, Climb(r), st, ext)
<1>1. PICK c : c = r.s
  OBVIOUS
<1>2. PICK i : i = r.i
  OBVIOUS
<1>3. PICK A : A = Loaders(s.req, s.free)
  OBVIOUS
<1>4. /\ Sound(w, rank, persistCount, c, ext) /\ WalkOK(c.req, c.free, st)
      /\ i \in Live(c.free) /\ c.req[i].result # PENDING /\ HasLoads(s, c, A)
  BY <1>1, <1>2, <1>3 DEF Climbing
<1>5. CASE ~(c.abort = "none" /\ Prunes(c, i))
  BY <1>1, <1>2, <1>5 DEF Climb
<1>6. CASE c.abort = "none" /\ Prunes(c, i)
  <2>1. PICK p : p = c.req[i].parent
    OBVIOUS
  <2>2. p # None /\ c.req[p].pending = 0
    BY <1>6, <2>1 DEF Prunes
  <2>3. TreeOK(w, rank, persistCount, c)
    BY <1>4 DEF Sound
  <2>4. Solvable(c, p) /\ c.req[p].buffer
    BY <1>4, <2>1, <2>2, <2>3, ParentSolvable
  <2>5. PICK t : t = UnmarkPathInProgress(CreateResource(c, p, FALSE), p)
    OBVIOUS
  <2>6. Solves(w, rank, persistCount, c, t, p, ext)
    BY <1>4, <2>2, <2>4, <2>5, BufferedEffect
  <2>7. Resolves(c, t, p) /\ Ends(c, t, p) /\ Sound(w, rank, persistCount, t, ext)
    BY <2>6 DEF Solves
  <2>8. WalkOK(t.req, t.free, st)
    BY <1>4, <2>2, <2>3, <2>4, <2>7, ClimbKeepsWalk
  <2>9. p \in Live(t.free) /\ t.req[p].result # PENDING
    <3>1. p \in Live(c.free) /\ Shape(c.req, c.free)
      BY <2>3, <2>4 DEF Solvable, TreeOK
    <3>2. p \notin Kids(c.req, c.free, p)
      BY <3>1, NoFirstChild
    <3> QED
      BY <2>7, <3>1, <3>2 DEF Resolves
  <2>10. HasLoads(s, t, A)
    <3>1. HasLoads(c, t, Loaders(c.req, c.free) \ {p})
      BY <2>3, <2>4, <2>7, SolvedLoads
    <3>2. ~c.req[p].loading
      BY <2>3, <2>4 DEF TreeOK, NodeOK, Solvable
    <3>3. Loaders(c.req, c.free) \ {p} = A
      BY <1>4, <3>2 DEF HasLoads, Loaders
    <3> QED
      BY <1>4, <3>1, <3>3 DEF HasLoads
  <2>11. Climb(r) = [s |-> t, i |-> p]
    BY <1>1, <1>2, <1>6, <2>1, <2>5 DEF Climb, CreateBuffered
  <2>12. Climb(r).s = t /\ Climb(r).i = p
    BY <2>11
  <2> QED
    BY <1>3, <2>7, <2>8, <2>9, <2>10, <2>12 DEF Climbing
<1> QED
  BY <1>5, <1>6

\* After a request is resolved, its parents are created as far as they wait for nothing else.
LEMMA ClimbEffect ==
  ASSUME NEW rank, WorldOK(rank), NEW w, NEW s, NEW ext, Sound(w, rank, persistCount, s, ext),
         NEW st, WalkOK(s.req, s.free, st), NEW i \in Live(s.free), s.req[i].result # PENDING
  PROVE  LET t == PreloaderTryPruneParent(s, i)
         IN  /\ Sound(w, rank, persistCount, t, ext) /\ WalkOK(t.req, t.free, st)
             /\ HasLoads(s, t, Loaders(s.req, s.free))
<1>1. PICK g : /\ g[0] = [s |-> s, i |-> i]
               /\ \A n \in 1 .. MAX_PRELOADER_REQUESTS : g[n] = Climb(g[n - 1])
               /\ PreloaderTryPruneParent(s, i) = g[MAX_PRELOADER_REQUESTS].s
  BY ClimbRounds
<1>2. PICK L \in Nat : L = MAX_PRELOADER_REQUESTS
  BY PreloaderAssumption
<1> DEFINE S == {n \in 0 .. L : Climbing(w, rank, persistCount, s, g[n], st, ext)}
<1>3. 0 \in S
  <2>1. g[0].s = s /\ g[0].i = i
    BY <1>1
  <2>2. Climbing(w, rank, persistCount, s, g[0], st, ext)
    BY <2>1 DEF Climbing, HasLoads
  <2> QED
    BY <2>2
<1>4. ASSUME NEW n \in 0 .. L, n \in S, n < L PROVE n + 1 \in S
  <2>1. n + 1 \in 1 .. MAX_PRELOADER_REQUESTS /\ (n + 1) - 1 = n /\ n + 1 \in 0 .. L
    BY <1>2, <1>4
  <2>2. g[n + 1] = Climb(g[n])
    BY <1>1, <2>1
  <2>3. Climbing(w, rank, persistCount, s, Climb(g[n]), st, ext)
    BY <1>4, ClimbRound
  <2> QED
    BY <2>1, <2>2, <2>3
<1>5. 0 .. L \subseteq S
  <2> HIDE DEF S
  <2> QED
    BY <1>3, <1>4, EveryRound
<1>6. Climbing(w, rank, persistCount, s, g[L], st, ext)
  BY <1>5
<1> QED
  BY <1>1, <1>2, <1>6 DEF Climbing

-----------------------------------------------------------------------------
(* The moves of the walk. *)

\* The walk returns to a level and goes on from there.
LEMMA CutStack ==
  ASSUME NEW st \in Seq(Nodes), NEW d \in 1 .. Len(st), NEW x \in Nodes
  PROVE  LET z == Append(SubSeq(st, 1, d - 1), x)
         IN  /\ z \in Seq(Nodes) /\ Len(z) = d /\ z[d] = x /\ z # <<>>
             /\ \A j \in 1 .. (d - 1) : z[j] = st[j]
<1>1. PICK n \in Nat : n = Len(st)
  BY LenProperties
<1>2. PICK m \in Nat : m = d - 1 /\ m <= n /\ d = m + 1
  BY <1>1
<1>3. PICK y : y = SubSeq(st, 1, m)
  OBVIOUS
<1>4. \A j \in 1 .. m : st[j] \in Nodes
  BY <1>1, <1>2, ElementOfSeq
<1>5. /\ y \in Seq(Nodes) /\ Len(y) = IF 1 <= m THEN m - 1 + 1 ELSE 0
      /\ \A j \in 1 .. m - 1 + 1 : y[j] = st[1 + j - 1]
  BY <1>3, <1>4, SubSeqProperties
<1>6. Len(y) = m
  BY <1>2, <1>5
<1>7. \A j \in 1 .. m : y[j] = st[j]
  <2>1. m - 1 + 1 = m /\ \A j \in 1 .. m : 1 + j - 1 = j
    OBVIOUS
  <2> QED
    BY <1>5, <2>1
<1>8. PICK z : z = Append(y, x)
  OBVIOUS
<1>9. /\ z \in Seq(Nodes) /\ Len(z) = m + 1 /\ z[m + 1] = x
      /\ \A j \in 1 .. m : z[j] = y[j]
  <2>1. /\ z \in Seq(Nodes) /\ Len(z) = Len(y) + 1
        /\ \A i \in 1 .. Len(y) : z[i] = y[i]
        /\ z[Len(y) + 1] = x
    BY <1>5, <1>8, AppendProperties
  <2> QED
    BY <1>6, <2>1
<1>10. z # <<>>
  <2>1. Len(z) # 0
    BY <1>2, <1>9
  <2> QED
    BY <2>1
<1> QED
  BY <1>2, <1>3, <1>7, <1>8, <1>9, <1>10

\* Going on with the next sibling of the deepest level that has one.
LEMMA AdvanceKeepsWalk ==
  ASSUME NEW s, s.req \in [Nodes -> Requests], Shape(s.req, s.free),
         NEW st, WalkOK(s.req, s.free, st)
  PROVE  Advance(s, st) = <<>> \/ WalkOK(s.req, s.free, Advance(s, st))
<1> DEFINE more == {l \in DOMAIN st : s.req[st[l]].next # None}
           deepest == CHOOSE l \in more : \A m \in more : m <= l
<1>1. PICK R \in [Nodes -> Requests] : R = s.req
  OBVIOUS
<1>2. PICK F : F = s.free
  OBVIOUS
<1>3. OnPath(R, st)
  BY <1>1, <1>2 DEF WalkOK
<1>4. Len(st) \in Nat \ {0} /\ st \in Seq(Nodes) /\ \A j \in 1 .. Len(st) : st[j] \in Nodes
  BY <1>3, StackFacts
<1>5. DOMAIN st = 1 .. Len(st)
  BY <1>4, LenProperties
<1>6. CASE more = {}
  BY <1>6 DEF Advance
<1>7. CASE more # {}
  <2>1. \E l \in more : \A m \in more : m <= l
    <3> DEFINE T == {Len(st) - l : l \in more}
    <3>1. T \subseteq Nat
      BY <1>4, <1>5
    <3>2. T # {}
      BY <1>7
    <3>3. PICK x \in T : \A y \in T : x <= y
      <4> HIDE DEF T
      <4> QED
        BY <3>1, <3>2, LeastOf
    <3>4. PICK l \in more : x = Len(st) - l
      OBVIOUS
    <3>5. ASSUME NEW m \in more PROVE m <= l
      <4>1. Len(st) - m \in T
        OBVIOUS
      <4>2. Len(st) - l <= Len(st) - m
        BY <3>3, <3>4, <4>1
      <4>3. m \in 1 .. Len(st) /\ l \in 1 .. Len(st)
        BY <1>5
      <4> QED
        BY <1>4, <4>2, <4>3
    <3> QED
      BY <3>5
  <2>2. PICK d : d = deepest
    OBVIOUS
  <2>3. d \in more
    BY SMTT(60), <2>1, <2>2
  <2>4. d \in 1 .. Len(st) /\ R[st[d]].next # None
    BY SMTT(60), <1>1, <1>5, <2>3
  <2>5. PICK x : x = R[st[d]].next
    BY SMTT(60)
  <2>6. Advance(s, st) = Append(SubSeq(st, 1, d - 1), x)
    BY ZenonT(60), <1>1, <1>7, <2>2, <2>5 DEF Advance
  <2>7. x \in Nodes
    BY <1>1, <1>4, <2>4, <2>5, LinkTypes
  <2>8. PICK z : z = Advance(s, st)
    OBVIOUS
  <2>9. /\ z \in Seq(Nodes) /\ Len(z) = d /\ z[d] = x /\ z # <<>>
        /\ \A j \in 1 .. (d - 1) : z[j] = st[j]
    <3> HIDE DEF more, deepest
    <3>1. PICK e \in 1 .. Len(st) : e = d
      BY <2>4
    <3>2. LET y == Append(SubSeq(st, 1, e - 1), x)
          IN  /\ y \in Seq(Nodes) /\ Len(y) = e /\ y[e] = x /\ y # <<>>
              /\ \A j \in 1 .. (e - 1) : y[j] = st[j]
      <4>1. st \in Seq(Nodes)
        BY <1>4
      <4>2. PICK y \in Nodes : y = x
        BY <2>7
      <4> HIDE DEF Nodes
      <4>3. LET q == Append(SubSeq(st, 1, e - 1), y)
            IN  /\ q \in Seq(Nodes) /\ Len(q) = e /\ q[e] = y /\ q # <<>>
                /\ \A j \in 1 .. (e - 1) : q[j] = st[j]
        BY ZenonT(60), <4>1, CutStack
      <4> QED
        BY <4>2, <4>3
    <3>3. z = Append(SubSeq(st, 1, e - 1), x)
      BY <2>6, <2>8, <3>1
    <3> QED
      BY <3>1, <3>2, <3>3
  <2>10. d # 1
    <3>1. st[1] = 0 /\ R[0].next = None
      BY <1>1, <1>3 DEF OnPath, Shape, Linked
    <3> QED
      BY <2>4, <3>1
  <2>11. PICK m \in Nat : m \in 1 .. (Len(st) - 1) /\ m + 1 = d /\ m = d - 1 /\ m \in 1 .. Len(st)
    BY <1>4, <2>4, <2>10
  <2>12. R[st[d]].parent = st[m]
    BY <1>3, <2>11 DEF OnPath
  <2>13. PICK D : Gone(R, F, D) /\ \A j \in 1 .. Len(st) : st[j] \in Live(F) \cup D
    BY <1>1, <1>2 DEF WalkOK
  <2>14. \A j \in 1 .. (Len(st) - 1) : st[j + 1] \in Live(F) => R[st[j]].buffer
    BY <1>1, <1>2 DEF WalkOK
  <2>15. /\ R[x].parent = st[m] /\ x \in Live(F) \cup D
         /\ x \in Live(F) => R[st[m]].buffer
    <3>1. CASE st[d] \in Live(F)
      <4>1. x \in Live(F) /\ R[x].parent = st[m]
        BY <1>1, <1>2, <2>4, <2>5, <2>12, <3>1, NextSibling
      <4>2. R[st[m]].buffer
        BY <2>11, <2>14, <3>1
      <4> QED
        BY <4>1, <4>2
    <3>2. CASE st[d] \in D
      BY <2>4, <2>5, <2>12, <2>13, <3>2 DEF Gone
    <3> QED
      BY <2>4, <2>13, <3>1, <3>2
  <2>16. OnPath(R, z)
    <3>1. z[1] = 0
      BY <1>3, <2>9, <2>11 DEF OnPath
    <3>2. ASSUME NEW j \in 1 .. (Len(z) - 1) PROVE R[z[j + 1]].parent = z[j]
      <4>1. CASE j = m
        BY <2>9, <2>11, <2>15, <4>1
      <4>2. CASE j # m
        <5>1. /\ j \in 1 .. (d - 1) /\ j + 1 \in 1 .. (d - 1) /\ j \in 1 .. (Len(st) - 1)
          BY <1>4, <2>4, <2>9, <2>11, <4>2
        <5> QED
          BY <1>3, <2>9, <5>1 DEF OnPath
      <4> QED
        BY <4>1, <4>2
    <3> QED
      BY <2>9, <3>1, <3>2 DEF OnPath
  <2>17. ASSUME NEW j \in 1 .. Len(z) PROVE z[j] \in Live(F) \cup D
    <3>1. CASE j = d
      BY <2>9, <2>15, <3>1
    <3>2. CASE j # d
      <4>1. j \in 1 .. (d - 1) /\ j \in 1 .. Len(st)
        BY <1>4, <2>4, <2>9, <3>2
      <4> QED
        BY <2>9, <2>13, <4>1
    <3> QED
      BY <3>1, <3>2
  <2>18. ASSUME NEW j \in 1 .. (Len(z) - 1), z[j + 1] \in Live(F) PROVE R[z[j]].buffer
    <3>1. CASE j = m
      BY <2>9, <2>11, <2>15, <2>18, <3>1
    <3>2. CASE j # m
      <4>1. /\ j \in 1 .. (d - 1) /\ j + 1 \in 1 .. (d - 1) /\ j \in 1 .. (Len(st) - 1)
        BY <1>4, <2>4, <2>9, <2>11, <3>2
      <4> QED
        BY <2>9, <2>14, <2>18, <4>1
    <3> QED
      BY <3>1, <3>2
  <2>19. WalkOK(R, F, z)
    BY <2>13, <2>16, <2>17, <2>18 DEF WalkOK
  <2> QED
    BY <1>1, <1>2, <2>8, <2>19
<1> QED
  BY <1>6, <1>7

\* Going down to the first child of a request that has its buffer.
LEMMA PushKeepsWalk ==
  ASSUME NEW w, NEW rank, NEW count, NEW s, TreeOK(w, rank, count, s),
         NEW st, WalkOK(s.req, s.free, st), NEW i, i = st[Len(st)], i \in Live(s.free),
         s.req[i].buffer
  PROVE  WalkOK(s.req, s.free, Append(st, s.req[i].first))
<1>1. PICK R : R = s.req
  OBVIOUS
<1>2. PICK F : F = s.free
  OBVIOUS
<1>3. OnPath(R, st) /\ Shape(R, F)
  BY <1>1, <1>2 DEF WalkOK, TreeOK
<1>4. Len(st) \in Nat \ {0} /\ st \in Seq(Nodes) /\ \A j \in 1 .. Len(st) : st[j] \in Nodes
  BY <1>3, StackFacts
<1>5. PICK x : x = R[i].first
  OBVIOUS
<1>6. x \in Kids(R, F, i)
  <2>1. Kids(R, F, i) # {}
    BY <1>1, <1>2 DEF TreeOK, NodeOK
  <2> QED
    BY <1>2, <1>3, <1>5, <2>1, NoFirstChild
<1>7. x \in Live(F) /\ x \in Nodes /\ R[x].parent = i
  BY <1>6 DEF Kids, Live
<1>8. PICK z : z = Append(st, x)
  OBVIOUS
<1>9. PICK n \in Nat \ {0} : n = Len(st)
  BY <1>4
<1>10. /\ z \in Seq(Nodes) /\ Len(z) = n + 1 /\ z[n + 1] = x
       /\ \A j \in 1 .. n : z[j] = st[j]
  <2>1. /\ z \in Seq(Nodes) /\ Len(z) = Len(st) + 1
        /\ \A j \in 1 .. Len(st) : z[j] = st[j]
        /\ z[Len(st) + 1] = x
    BY <1>4, <1>7, <1>8, AppendProperties
  <2> QED
    BY <1>9, <2>1
<1>11. PICK D : Gone(R, F, D) /\ \A j \in 1 .. n : st[j] \in Live(F) \cup D
  BY <1>1, <1>2, <1>9 DEF WalkOK
<1>12. \A j \in 1 .. (n - 1) : st[j + 1] \in Live(F) => R[st[j]].buffer
  BY <1>1, <1>2, <1>9 DEF WalkOK
<1>13. st[1] = 0 /\ \A j \in 1 .. (n - 1) : R[st[j + 1]].parent = st[j]
  BY <1>3, <1>9 DEF OnPath
<1>14. z # <<>> /\ z[1] = 0
  <2>1. 1 \in 1 .. n /\ Len(z) # 0
    BY <1>9, <1>10
  <2> QED
    BY <1>10, <1>13, <2>1
<1>15. z[n] = i
  BY <1>9, <1>10
<1>16. ASSUME NEW j \in 1 .. n
       PROVE  R[z[j + 1]].parent = z[j] /\ (z[j + 1] \in Live(F) => R[z[j]].buffer)
  <2>1. CASE j = n
    BY <1>1, <1>7, <1>10, <1>15, <2>1
  <2>2. CASE j # n
    <3>1. j \in 1 .. (n - 1) /\ j + 1 \in 1 .. n
      BY <2>2
    <3> QED
      BY <1>10, <1>12, <1>13, <3>1
  <2> QED
    BY <2>1, <2>2
<1>17. Len(z) - 1 = n /\ 1 .. Len(z) = (1 .. n) \cup {n + 1}
  BY <1>10
<1>18. \A j \in 1 .. Len(z) : z[j] \in Live(F) \cup D
  BY <1>7, <1>10, <1>11, <1>17
<1>19. WalkOK(R, F, z)
  BY <1>10, <1>11, <1>14, <1>16, <1>17, <1>18 DEF WalkOK, OnPath
<1> QED
  BY <1>1, <1>2, <1>5, <1>8, <1>19

-----------------------------------------------------------------------------
(* A child is inserted. *)

\* A child with the given name may be inserted under the request p.
MayInsert(w, rank, count, s, p, name) ==
  /\ TreeOK(w, rank, count, s) /\ rank \in [Paths -> Nat]
  /\ p \in Live(s.free) /\ s.req[p].result = PENDING /\ ~s.req[p].buffer
  /\ s.req[p].loading \/ (p = 0 /\ w.fate[PathOf(s.req[p])] # "untyped")
  /\ name \in Names \ Malformed /\ rank[CanonicalPath[name]] < rank[PathOf(s.req[p])]

\* The tree t is s with the request n more, the first child of p.
Inserted(s, t, p, n, name) ==
  /\ t \in TreeStates /\ n \in Nodes \ {0} /\ n \notin Live(s.free)
  /\ FreeOK(t.free) /\ Live(t.free) = Live(s.free) \cup {n}
  /\ \A k \in Nodes : k # n /\ k # p => t.req[k] = s.req[k]
  /\ SameStatus(t.req[p], s.req[p]) /\ t.req[p].parent = s.req[p].parent
  /\ t.req[p].next = s.req[p].next /\ t.req[p].first = n
  /\ t.req[p].pending = s.req[p].pending + 1
  /\ t.req[n].name = name /\ t.req[n].parent = p /\ t.req[n].first = None
  /\ t.req[n].next = s.req[p].first /\ t.req[n].pending = 0 /\ ~t.req[n].loading
  /\ ~t.req[n].buffer /\ t.req[n].result = PENDING /\ ~t.req[n].resource
  /\ t.inProgress = s.inProgress /\ t.persisted = s.persisted /\ t.post = s.post
  /\ t.res = s.res /\ t.abort = s.abort

\* The names of the requests of a tree are proper, if its root is not resolved.
LEMMA ProperNames ==
  ASSUME NEW w, NEW rank, NEW count, NEW s, TreeOK(w, rank, count, s),
         NEW p \in Live(s.free), s.req[p].result = PENDING
  PROVE  /\ s.req[0].result = PENDING
         /\ \A k \in Live(s.free) : s.req[k].name \notin Malformed /\ PathOf(s.req[k]) \in Paths
<1>1. s \in TreeStates /\ Shape(s.req, s.free) /\ s.free \in Seq(Nodes \ {0})
  BY TreeFields DEF TreeOK
<1>2. 0 \in Live(s.free) /\ Live(s.free) \subseteq Nodes
  BY <1>1, RootLive
<1>3. s.req[0].result = PENDING
  <2>1. CASE p = 0
    BY <2>1
  <2>2. CASE p # 0
    <3>1. Kids(s.req, s.free, 0) # {}
      BY <1>1, <2>2, RootAlone
    <3> QED
      BY <1>2, <3>1 DEF TreeOK, NodeOK
  <2> QED
    BY <2>1, <2>2
<1>4. ASSUME NEW k \in Live(s.free) PROVE s.req[k].name \notin Malformed /\ PathOf(s.req[k]) \in Paths
  <2>1. NodeOK(w, rank, s.req, s.free, k)
    BY DEF TreeOK
  <2>2. s.req[k].name \notin Malformed
    BY <1>3, <2>1 DEF NodeOK, Descends
  <2>3. s.req[k].name \in Names
    BY <1>1, <1>2, TreeFields DEF Requests
  <2> QED
    BY <2>2, <2>3, NamesAssumption DEF PathOf
<1> QED
  BY <1>3, <1>4

\* A child of a lower rank than its parent is not among its ancestors.
LEMMA NotLoop ==
  ASSUME NEW w, NEW rank, NEW count, NEW s, NEW p, NEW name,
         MayInsert(w, rank, count, s, p, name), NEW c, c.req = s.req
  PROVE  ~IsLoop(c, p, name)
<1>1. /\ TreeOK(w, rank, count, s) /\ rank \in [Paths -> Nat] /\ p \in Live(s.free)
      /\ s.req[p].result = PENDING /\ name \in Names
      /\ rank[CanonicalPath[name]] < rank[PathOf(s.req[p])]
  BY DEF MayInsert
<1>2. PICK R : R = s.req
  OBVIOUS
<1>3. PICK F : F = s.free
  OBVIOUS
<1>4. \A k \in Live(F) : PathOf(R[k]) \in Paths
  BY <1>1, <1>2, <1>3, ProperNames
<1>5. PICK a \in Nat : a = rank[PathOf(R[p])]
  BY <1>1, <1>2, <1>3, <1>4
<1>6. \A k \in Live(F) : rank[PathOf(R[k])] \in Nat
  BY <1>1, <1>4
<1> DEFINE Z == {k \in Live(F) : rank[PathOf(R[k])] >= a}
           up == [j \in Nodes |-> {c.req[j].parent} \ {None}]
<1>7. {p} \subseteq Z
  BY <1>1, <1>3, <1>5
<1>8. ASSUME NEW k \in Z PROVE up[k] \subseteq Z
  <2>1. k \in Live(F) /\ k \in Nodes /\ rank[PathOf(R[k])] >= a
    BY DEF Live
  <2>2. up[k] = {R[k].parent} \ {None}
    BY <1>2, <2>1
  <2>3. CASE k = 0
    <3>1. R[k].parent = None
      BY <1>1, <1>2, <1>3, <2>1, <2>3, ParentLive DEF TreeOK
    <3> QED
      BY <2>2, <3>1
  <2>4. CASE k # 0
    <3>1. PICK q : q = R[k].parent
      OBVIOUS
    <3>2. q \in Live(F)
      BY <1>1, <1>2, <1>3, <2>1, <2>4, <3>1, ParentLive DEF TreeOK
    <3>3. rank[PathOf(R[k])] < rank[PathOf(R[q])]
      BY <1>1, <1>2, <1>3, <2>1, <2>4, <3>1 DEF TreeOK, NodeOK, Descends
    <3>4. rank[PathOf(R[q])] >= a
      BY <1>5, <1>6, <2>1, <3>2, <3>3
    <3> QED
      BY <2>2, <3>1, <3>2, <3>4
  <2> QED
    BY <2>3, <2>4
<1>9. Ancestors(c, p) \subseteq Z
  <2> HIDE DEF Z
  <2>1. Reach(Nodes, {p}, up) \subseteq Z
    <3> HIDE DEF up
    <3> QED
      BY <1>7, <1>8, NodesFinite, ReachWithin
  <2> QED
    BY <2>1 DEF Ancestors
<1>10. ASSUME NEW k \in Ancestors(c, p) PROVE PathOf(c.req[k]) # CanonicalPath[name]
  <2>1. k \in Live(F) /\ rank[PathOf(R[k])] >= a
    BY <1>9
  <2>2. rank[CanonicalPath[name]] \in Nat /\ rank[CanonicalPath[name]] < a
    BY <1>1, <1>2, <1>5, NamesAssumption
  <2> QED
    BY <1>2, <1>5, <1>6, <2>1, <2>2
<1> QED
  BY <1>10 DEF IsLoop

\* PreloadPathDescriptor inserts the child, unless it is there or no request is free.
LEMMA InsertEffect ==
  ASSUME NEW w, NEW rank, NEW count, NEW s, NEW p, NEW name,
         MayInsert(w, rank, count, s, p, name)
  PROVE  \/ PreloadPathDescriptor(s, p, name) = s
         \/ /\ s.free # <<>> /\ PreloadPathDescriptor(s, p, name).free = Front(s.free)
            /\ Inserted(s, PreloadPathDescriptor(s, p, name), p, Last(s.free), name)
<1>1. CASE Registered(s, p, name) \/ s.free = <<>>
  BY <1>1 DEF PreloadPathDescriptor
<1>2. CASE ~(Registered(s, p, name) \/ s.free = <<>>)
  <2>1. /\ s \in TreeStates /\ Shape(s.req, s.free) /\ p \in Live(s.free) /\ p \in Nodes
        /\ name \in Names
    BY DEF MayInsert, TreeOK, Live
  <2>2. FreeOK(s.free) /\ s.free # <<>>
    BY <1>2, <2>1 DEF Shape
  <2>3. PICK n : n = Last(s.free)
    OBVIOUS
  <2>4. PICK G : G = Front(s.free)
    OBVIOUS
  <2>5. /\ n \in Nodes \ {0} /\ n \notin Live(s.free)
        /\ FreeOK(G) /\ Live(G) = Live(s.free) \cup {n}
    BY <2>2, <2>3, <2>4, FreeFront
  <2>6. PICK c : c = [s EXCEPT !.free = G]
    OBVIOUS
  <2>7. /\ c \in TreeStates /\ c.req = s.req /\ c.free = G /\ c.inProgress = s.inProgress
        /\ c.persisted = s.persisted /\ c.post = s.post /\ c.res = s.res /\ c.abort = s.abort
    BY <2>1, <2>5, <2>6 DEF TreeStates, FreeOK
  <2>8. ~IsLoop(c, p, name)
    BY <2>7, NotLoop
  <2>9. PICK t : t = PreloadPathDescriptor(s, p, name)
    OBVIOUS
  <2>10. t = PreloaderTreeInsert(c, n, p, name)
    BY <1>2, <2>3, <2>4, <2>6, <2>9 DEF PreloadPathDescriptor
  <2>11. PICK x : x = [NewRequest(name) EXCEPT !.parent = p, !.next = s.req[p].first, !.result = PENDING]
    OBVIOUS
  <2>12. /\ x.name = name /\ x.parent = p /\ x.first = None /\ x.next = s.req[p].first
         /\ x.pending = 0 /\ ~x.loading /\ ~x.buffer /\ x.result = PENDING /\ ~x.resource
         /\ x \in Requests
    <3>1. s.req[p].first \in Nodes \cup {None} /\ PENDING \in NodeResults
      BY <2>1, TreeFields, LinkTypes DEF NodeResults
    <3>2. x = [name |-> name, parent |-> p, first |-> None, next |-> s.req[p].first, pending |-> 0,
               loading |-> FALSE, buffer |-> FALSE, result |-> PENDING, resource |-> FALSE]
      BY <2>11 DEF NewRequest
    <3>3. x \in Requests
      BY <2>1, <3>1, <3>2 DEF Requests
    <3> QED
      BY <3>2, <3>3
  <2>13. PICK y : y = [s.req[p] EXCEPT !.first = n, !.pending = @ + 1]
    OBVIOUS
  <2>14. /\ y \in Requests /\ SameStatus(y, s.req[p]) /\ y.parent = s.req[p].parent
         /\ y.next = s.req[p].next /\ y.first = n /\ y.pending = s.req[p].pending + 1
    <3>1. s.req[p] \in Requests
      BY <2>1, TreeFields
    <3>2. PICK r \in Requests : r = s.req[p]
      BY <3>1
    <3>3. PICK v \in Int : v = r.pending + 1
      <4>1. r.pending \in Int
        BY DEF Requests
      <4> QED
        BY <4>1
    <3>4. y = [r EXCEPT !.first = n, !.pending = v]
      BY <2>13, <3>2, <3>3
    <3>5. /\ y \in Requests /\ SameStatus(y, r) /\ y.parent = r.parent
          /\ y.next = r.next /\ y.first = n /\ y.pending = v
      BY <2>5, <3>4 DEF Requests, SameStatus
    <3> QED
      BY <3>2, <3>3, <3>5
  <2>15. PICK Q : Q = [s.req EXCEPT ![n] = x, ![p] = y]
    OBVIOUS
  <2>16. n # p
    BY <2>1, <2>5
  <2>17. /\ Q \in [Nodes -> Requests] /\ Q[n] = x /\ Q[p] = y
         /\ \A k \in Nodes : k # n /\ k # p => Q[k] = s.req[k]
    <3>1. s.req \in [Nodes -> Requests]
      BY <2>1, TreeFields
    <3> QED
      BY <2>1, <2>5, <2>12, <2>14, <2>15, <2>16, <3>1
  <2>18. t = [c EXCEPT !.req = Q]
    <3>1. t = [c EXCEPT !.req = [@ EXCEPT ![n] = x, ![p].first = n, ![p].pending = @ + 1]]
      BY <2>7, <2>8, <2>10, <2>11 DEF PreloaderTreeInsert, PendingAfterInsert
    <3>2. [s.req EXCEPT ![n] = x, ![p].first = n, ![p].pending = @ + 1] = Q
      <4>1. s.req \in [Nodes -> Requests] /\ s.req[p] \in Requests
        BY <2>1, TreeFields
      <4>2. PICK R : R = s.req
        OBVIOUS
      <4>3. PICK r \in Requests : r = R[p]
        BY <4>1, <4>2
      <4>4. [R EXCEPT ![n] = x, ![p].first = n, ![p].pending = @ + 1] = [R EXCEPT ![n] = x, ![p] = [r EXCEPT !.first = n, !.pending = @ + 1]]
        BY <2>1, <2>5, <2>16, <4>1, <4>2, <4>3
      <4> QED
        BY <2>13, <2>15, <4>2, <4>3, <4>4
    <3> QED
      BY <2>7, <3>1, <3>2
  <2>19. /\ t \in TreeStates /\ t.req = Q /\ t.free = G /\ t.inProgress = s.inProgress
         /\ t.persisted = s.persisted /\ t.post = s.post /\ t.res = s.res /\ t.abort = s.abort
    BY <2>7, <2>17, <2>18 DEF TreeStates
  <2>20. Inserted(s, t, p, n, name)
    BY <2>5, <2>12, <2>14, <2>17, <2>19 DEF Inserted
  <2> QED
    BY <2>2, <2>3, <2>4, <2>9, <2>19, <2>20
<1> QED
  BY <1>1, <1>2

\* The tree stays as it must be; requests that are not the parent are as they were.
Grown(s, t) ==
  /\ Live(s.free) \subseteq Live(t.free)
  /\ \A k \in Live(s.free) : /\ SameStatus(t.req[k], s.req[k]) /\ t.req[k].parent = s.req[k].parent
                             /\ t.req[k].next = s.req[k].next
  /\ \A k \in Live(t.free) \ Live(s.free) : ~t.req[k].loading

\* A child that has been inserted leaves the tree as it must be.
LEMMA InsertedTree ==
  ASSUME NEW w, NEW rank, NEW count, NEW s, NEW p, NEW name,
         MayInsert(w, rank, count, s, p, name), NEW t, NEW n, Inserted(s, t, p, n, name)
  PROVE  TreeOK(w, rank, count, t) /\ Grown(s, t)
<1>1. /\ TreeOK(w, rank, count, s) /\ p \in Live(s.free) /\ s.req[p].result = PENDING
      /\ ~s.req[p].buffer
      /\ s.req[p].loading \/ (p = 0 /\ w.fate[PathOf(s.req[p])] # "untyped")
      /\ name \in Names \ Malformed /\ rank[CanonicalPath[name]] < rank[PathOf(s.req[p])]
  BY DEF MayInsert
<1>2. PICK R : R = s.req
  OBVIOUS
<1>3. PICK F : F = s.free
  OBVIOUS
<1>4. PICK Q : Q = t.req
  OBVIOUS
<1>5. PICK G : G = t.free
  OBVIOUS
<1>6. Shape(R, F) /\ Live(F) \subseteq Nodes /\ p \in Live(F) /\ p \in Nodes
  BY <1>1, <1>2, <1>3 DEF TreeOK, Live
<1>7. /\ n \in Nodes \ {0} /\ n \notin Live(F) /\ FreeOK(G) /\ Live(G) = Live(F) \cup {n} /\ n # p
      /\ \A k \in Nodes : k # n /\ k # p => Q[k] = R[k]
      /\ SameStatus(Q[p], R[p]) /\ Q[p].parent = R[p].parent
      /\ Q[p].next = R[p].next /\ Q[p].first = n /\ Q[p].pending = R[p].pending + 1
      /\ Q[n].name = name /\ Q[n].parent = p /\ Q[n].first = None
      /\ Q[n].next = R[p].first /\ Q[n].pending = 0 /\ ~Q[n].loading
      /\ ~Q[n].buffer /\ Q[n].result = PENDING /\ ~Q[n].resource
  BY <1>2, <1>3, <1>4, <1>5, <1>6 DEF Inserted
<1>8. /\ Shape(Q, G) /\ Kids(Q, G, p) = Kids(R, F, p) \cup {n} /\ Kids(Q, G, n) = {}
      /\ \A j : j # p => Kids(Q, G, j) = Kids(R, F, j)
  <2>1. /\ \A k \in Nodes \ {n} : Q[k].parent = R[k].parent /\ Q[k].next = R[k].next
        /\ \A k \in Nodes \ {n} : k # p => Q[k].first = R[k].first
    BY <1>7
  <2>2. Q[p].first = n /\ Q[n].parent = p /\ Q[n].first = None /\ Q[n].next = R[p].first
    BY <1>7
  <2>3. n \in Nodes \ {0} /\ n \notin Live(F) /\ FreeOK(G) /\ Live(G) = Live(F) \cup {n}
    BY <1>7
  <2> QED
    BY <1>6, <2>1, <2>2, <2>3, ShapeWithKid
<1>9. \A k \in Live(F) : k # p => Q[k] = R[k]
  BY <1>6, <1>7
<1>10. \A k \in Live(F) : SameStatus(Q[k], R[k]) /\ Q[k].parent = R[k].parent /\ Q[k].next = R[k].next
  BY <1>7, <1>9 DEF SameStatus
<1>11. \A k \in Live(F) : PathOf(Q[k]) = PathOf(R[k])
  BY <1>10 DEF PathOf, SameStatus
<1>12. NodeOK(w, rank, R, F, p) /\ R[p].result = PENDING /\ ~R[p].buffer
  BY <1>1, <1>2, <1>3 DEF TreeOK
<1>13. \A j : j # p => PendingKids(Q, G, j) = PendingKids(R, F, j)
  <2>1. \A j : \A k \in Kids(R, F, j) : Q[k].result = R[k].result
    BY <1>10 DEF Kids, SameStatus
  <2> QED
    BY <1>8, <2>1 DEF PendingKids
<1>14. PendingKids(Q, G, p) = PendingKids(R, F, p) \cup {n} /\ n \notin PendingKids(R, F, p)
  <2>1. \A k \in Kids(R, F, p) : Q[k].result = R[k].result /\ k # n
    BY <1>7, <1>10 DEF Kids, SameStatus
  <2> QED
    BY <1>7, <1>8, <2>1 DEF PendingKids
<1>15. NodeOK(w, rank, Q, G, n)
  <2>1. PendingKids(Q, G, n) = {}
    BY <1>8 DEF PendingKids
  <2>2. Q[n].pending = Cardinality(PendingKids(Q, G, n))
    BY <1>7, <2>1, FS_EmptySet
  <2>3. PENDING # LOOP
    BY DEF PENDING, LOOP
  <2>4. Descends(rank, Q, n)
    <3>1. PathOf(Q[n]) = CanonicalPath[name]
      BY <1>1, <1>7 DEF PathOf
    <3>2. PathOf(Q[Q[n].parent]) = PathOf(R[p])
      BY <1>6, <1>7, <1>11
    <3> QED
      BY <1>1, <1>2, <1>7, <3>1, <3>2 DEF Descends
  <2> QED
    BY <1>1, <1>7, <1>8, <2>2, <2>3, <2>4 DEF NodeOK
<1>16. NodeOK(w, rank, Q, G, p)
  <2>1. Q[p].pending = Cardinality(PendingKids(Q, G, p))
    <3>1. PICK A : A = PendingKids(R, F, p)
      OBVIOUS
    <3>2. A \subseteq Nodes
      BY <3>1 DEF PendingKids, Kids, Live
    <3>3. IsFiniteSet(A)
      BY <3>2, LiveFinite
    <3>4. Cardinality(A \cup {n}) = Cardinality(A) + 1
      BY <1>14, <3>1, <3>3, FS_AddElement
    <3>5. R[p].pending = Cardinality(A)
      BY <1>12, <3>1 DEF NodeOK
    <3> QED
      BY <1>7, <1>14, <3>1, <3>4, <3>5
  <2>2. ASSUME NEW k \in Kids(Q, G, p) PROVE Pristine(Q, G, k)
    <3>1. CASE k = n
      BY <1>7, <1>8, <3>1 DEF Pristine
    <3>2. CASE k \in Kids(R, F, p)
      <4>1. k # p /\ k \in Live(F)
        BY <1>6, <3>2, NoFirstChild DEF Kids
      <4>2. Pristine(R, F, k)
        BY <1>12, <3>2 DEF NodeOK
      <4> QED
        BY <1>8, <1>9, <4>1, <4>2 DEF Pristine
    <3> QED
      BY <1>8, <3>1, <3>2
  <2>3. p # 0 => Descends(rank, Q, p)
    <3>1. SUFFICES ASSUME p # 0 PROVE Descends(rank, Q, p)
      OBVIOUS
    <3>2. R[p].parent \in Live(F)
      BY <1>6, <3>1, ParentLive
    <3>3. Descends(rank, R, p)
      BY <1>12, <3>1 DEF NodeOK
    <3> QED
      BY <1>6, <1>10, <1>11, <3>2, <3>3 DEF Descends, SameStatus
  <2>4. /\ Q[p].name = R[p].name /\ Q[p].loading = R[p].loading /\ Q[p].buffer = R[p].buffer
        /\ Q[p].result = R[p].result /\ Q[p].resource = R[p].resource
    BY <1>7 DEF SameStatus
  <2>5. PathOf(Q[p]) = PathOf(R[p])
    BY <1>6, <1>11
  <2>6. /\ Q[p].result = PENDING /\ ~Q[p].buffer /\ ~Q[p].resource /\ Q[p].name \notin Malformed
        /\ PENDING # LOOP
    BY <1>12, <2>4 DEF NodeOK, PENDING, LOOP
  <2>7. /\ Q[p].loading => w.fate[PathOf(Q[p])] # "untyped"
        /\ Q[p].loading \/ (p = 0 /\ w.fate[PathOf(Q[p])] # "untyped")
    BY <1>1, <1>2, <1>12, <2>4, <2>5 DEF NodeOK
  <2> QED
    BY <2>1, <2>2, <2>3, <2>6, <2>7 DEF NodeOK
<1>17. ASSUME NEW j \in Live(F), j # p PROVE NodeOK(w, rank, Q, G, j)
  <2>1. NodeOK(w, rank, R, F, j)
    BY <1>1, <1>2, <1>3 DEF TreeOK
  <2>2. Q[j] = R[j] /\ Kids(Q, G, j) = Kids(R, F, j) /\ PendingKids(Q, G, j) = PendingKids(R, F, j)
    BY <1>8, <1>9, <1>13, <1>17
  <2>3. ~Q[j].buffer => \A k \in Kids(Q, G, j) : Pristine(Q, G, k)
    <3>1. SUFFICES ASSUME ~R[j].buffer, NEW k \in Kids(R, F, j) PROVE Pristine(Q, G, k)
      BY <2>2
    <3>2. Pristine(R, F, k)
      BY <2>1, <3>1 DEF NodeOK
    <3>3. k \in Live(F) /\ R[k].parent = j
      BY DEF Kids
    <3>4. k # p
      <4>1. k # 0
        BY <1>6, <3>3, ParentLive, NodesFinite
      <4> QED
        BY <1>1, <1>2, <3>2, <4>1 DEF Pristine
    <3> QED
      BY <1>8, <1>9, <3>2, <3>3, <3>4 DEF Pristine
  <2>4. j # 0 => Descends(rank, Q, j)
    <3>1. SUFFICES ASSUME j # 0 PROVE Descends(rank, Q, j)
      OBVIOUS
    <3>2. R[j].parent \in Live(F)
      BY <1>6, <3>1, ParentLive
    <3>3. Descends(rank, R, j)
      BY <2>1, <3>1 DEF NodeOK
    <3> QED
      BY <1>11, <2>2, <3>2, <3>3 DEF Descends
  <2> QED
    BY <2>1, <2>2, <2>3, <2>4 DEF NodeOK
<1>18. \A j \in Live(G) : NodeOK(w, rank, Q, G, j)
  BY <1>7, <1>15, <1>16, <1>17
<1>19. ProgressOK(Q, G, t.inProgress)
  <2>1. PICK I : I = s.inProgress
    OBVIOUS
  <2>2. t.inProgress = I
    BY <2>1 DEF Inserted
  <2>3. /\ I = {PathOf(R[k]) : k \in Busy(R, F)}
        /\ \A k, j \in Busy(R, F) : PathOf(R[k]) = PathOf(R[j]) => k = j
    BY <1>1, <1>2, <1>3, <2>1 DEF TreeOK, ProgressOK
  <2>4. \A k \in Live(F) : Q[k].loading = R[k].loading /\ Q[k].buffer = R[k].buffer
    BY <1>10 DEF SameStatus
  <2>5. Busy(Q, G) = Busy(R, F)
    BY <1>7, <2>4 DEF Busy
  <2>6. \A k \in Busy(R, F) : PathOf(Q[k]) = PathOf(R[k])
    BY <1>11 DEF Busy
  <2> QED
    BY <2>2, <2>3, <2>5, <2>6 DEF ProgressOK
<1>20. PersistRoom(count, G, t.persisted)
  <2>1. s.req[0].result = PENDING
    BY <1>1, ProperNames
  <2>2. 1 .. (count - 1) \subseteq Live(F)
    BY <1>1, <1>3, <2>1 DEF TreeOK, Kids
  <2>3. Live(G) \cap 1 .. (count - 1) = Live(F) \cap 1 .. (count - 1)
    BY <1>7, <2>2
  <2> QED
    BY <1>1, <1>3, <2>3 DEF TreeOK, Inserted, PersistRoom
<1>21. Q[0].result = PENDING => 1 .. (count - 1) \subseteq Kids(Q, G, 0)
  <2>1. 1 .. (count - 1) \subseteq Kids(R, F, 0)
    <3>1. s.req[0].result = PENDING
      BY <1>1, ProperNames
    <3> QED
      BY <1>1, <1>2, <1>3, <3>1 DEF TreeOK
  <2> QED
    BY <1>8, <2>1
<1>24. \A k \in Nodes \ Live(G) : Q[k].pending = 0
  <2>1. \A k \in Nodes \ Live(F) : R[k].pending = 0
    BY <1>1, <1>2, <1>3 DEF TreeOK
  <2> QED
    BY <1>6, <1>7, <2>1
<1>22. TreeOK(w, rank, count, t)
  BY <1>4, <1>5, <1>8, <1>18, <1>19, <1>20, <1>21, <1>24 DEF TreeOK, Inserted
<1>23. Grown(s, t)
  BY <1>2, <1>3, <1>4, <1>5, <1>7, <1>10 DEF Grown
<1> QED
  BY <1>22, <1>23

\* The rounds of PopHints: the definition by recursion has a solution.
LEMMA HintRounds ==
  ASSUME NEW s, NEW hints, Len(hints) \in Nat
  PROVE  \E g : /\ g[0] = s
                /\ \A n \in 1 .. Len(hints) : g[n] = PopHint(g[n - 1], hints[n])
                /\ PopHints(s, hints) = g[Len(hints)]
<1> DEFINE L == Len(hints)
           after[n \in 0 .. Len(hints)] ==
             IF n = 0 THEN s ELSE PopHint(after[n - 1], hints[n])
           Body(g, m) == [n \in 0 .. m |-> IF n = 0 THEN s ELSE PopHint(g[n - 1], hints[n])]
           S == {m \in 0 .. L : \E g : g = Body(g, m)}
<1>0. L \in Nat
  OBVIOUS
<1>1. 0 \in S
  <2>1. [n \in 0 .. 0 |-> s] = Body([n \in 0 .. 0 |-> s], 0)
    OBVIOUS
  <2> HIDE DEF Body
  <2> QED
    BY <1>0, <2>1
<1>2. ASSUME NEW m \in 0 .. L, m \in S, m < L PROVE m + 1 \in S
  <2>1. PICK g : g = Body(g, m)
    BY <1>2
  <2> DEFINE h == [n \in 0 .. m + 1 |-> IF n <= m THEN g[n] ELSE PopHint(g[m], hints[m + 1])]
  <2>2. h = Body(h, m + 1)
    <3>1. ASSUME NEW n \in 0 .. m + 1 PROVE h[n] = Body(h, m + 1)[n]
      <4>1. CASE n = 0
        BY <2>1, <4>1
      <4>2. CASE n \in 1 .. m
        <5>1. n - 1 \in 0 .. m /\ h[n - 1] = g[n - 1] /\ h[n] = g[n]
          BY <4>2
        <5>2. n \in 0 .. m /\ n \in 0 .. m + 1 /\ n # 0
          BY <4>2
        <5>3. Body(g, m)[n] = PopHint(g[n - 1], hints[n])
          BY <5>2
        <5>4. Body(h, m + 1)[n] = PopHint(h[n - 1], hints[n])
          <6> HIDE DEF h
          <6> QED
            BY <5>2
        <5>5. g[n] = Body(g, m)[n]
          BY <2>1
        <5> HIDE DEF Body, h
        <5> QED
          BY <5>1, <5>3, <5>4, <5>5
      <4>3. CASE n = m + 1
        <5>1. h[n - 1] = g[m]
          BY <4>3
        <5> QED
          BY <4>3, <5>1
      <4> QED
        BY <4>1, <4>2, <4>3
    <3> QED
      BY <3>1
  <2> HIDE DEF Body, h
  <2>3. m + 1 \in 0 .. L /\ \E x : x = Body(x, m + 1)
    BY <1>0, <1>2, <2>2
  <2> QED
    BY <2>3
<1>3. 0 .. L \subseteq S
  <2> HIDE DEF S, L
  <2> QED
    BY <1>0, <1>1, <1>2, EveryRound
<1>4. \E g : g = Body(g, L)
  BY <1>0, <1>3
<1>5. after = Body(after, L)
  BY <1>4
<1>6. PopHints(s, hints) = after[Len(hints)]
  BY DEF PopHints
<1> HIDE DEF after
<1>7. after[0] = s
  BY <1>0, <1>5
<1>8. ASSUME NEW n \in 1 .. L PROVE after[n] = PopHint(after[n - 1], hints[n])
  <2>1. n \in 0 .. L /\ n # 0
    BY <1>0
  <2>2. Body(after, L)[n] = PopHint(after[n - 1], hints[n])
    <3> HIDE DEF L
    <3> QED
      BY <2>1
  <2> HIDE DEF Body
  <2> QED
    BY <1>5, <2>2
<1> QED
  BY <1>6, <1>7, <1>8

\* A child that is inserted leaves the reference counts exact.
LEMMA InsertSound ==
  ASSUME NEW w, NEW rank, NEW count, NEW s, NEW p, NEW name,
         MayInsert(w, rank, count, s, p, name), NEW ext, Sound(w, rank, count, s, ext)
  PROVE  LET t == PreloadPathDescriptor(s, p, name)
         IN  Sound(w, rank, count, t, ext) /\ Grown(s, t)
<1>1. PICK t : t = PreloadPathDescriptor(s, p, name)
  OBVIOUS
<1>2. CASE t = s
  BY <1>1, <1>2 DEF Grown, SameStatus
<1>3. CASE Inserted(s, t, p, Last(s.free), name)
  <2>1. PICK n : n = Last(s.free)
    OBVIOUS
  <2>2. Inserted(s, t, p, n, name)
    BY <1>3, <2>1
  <2>3. TreeOK(w, rank, count, t) /\ Grown(s, t)
    BY <2>2, InsertedTree
  <2>4. PICK F : F = s.free
    OBVIOUS
  <2>5. PICK G : G = t.free
    OBVIOUS
  <2>6. /\ Live(G) = Live(F) \cup {n} /\ n \notin Live(F) /\ ~t.req[n].resource
        /\ t.persisted = s.persisted /\ t.post = s.post /\ t.res = s.res /\ t.abort = s.abort
    BY <2>2, <2>4, <2>5 DEF Inserted
  <2>7. Live(F) = Live(G) \ {n}
    BY <2>6
  <2>8. Used(ext, t.req, G, t.persisted, t.post) = Used(ext, t.req, F, t.persisted, t.post)
    <3>1. PICK Q : Q = t.req
      OBVIOUS
    <3>2. ~Q[n].resource
      BY <2>6, <3>1
    <3>3. \A P, c : Used(ext, Q, G, P, c) = Used(ext, Q, F, P, c)
      BY <2>7, <3>2, UsedWithoutIdleNode
    <3> QED
      BY <3>1, <3>3
  <2>9. \A k \in Live(F) : t.req[k].name = s.req[k].name /\ t.req[k].resource = s.req[k].resource
    BY <2>3, <2>4 DEF Grown, SameStatus
  <2>10. Used(ext, t.req, F, s.persisted, s.post) = Used(ext, s.req, F, s.persisted, s.post)
    BY <2>9, UsedSameNodes
  <2>11. Factory(t) = Factory(s)
    BY <2>6, SameFactory
  <2>12. Accounts(t, ext, <<>>)
    BY <2>4, <2>5, <2>6, <2>8, <2>10, <2>11 DEF Accounts, Sound
  <2> QED
    BY <1>1, <2>3, <2>12 DEF Sound
<1> QED
  BY <1>1, <1>2, <1>3, InsertEffect

\* Growth after growth.
LEMMA GrownTransitive ==
  ASSUME NEW s, NEW t, NEW u, Grown(s, t), Grown(t, u)
  PROVE  Grown(s, u)
<1>1. Live(s.free) \subseteq Live(u.free)
  BY DEF Grown
<1>2. \A k \in Live(s.free) : /\ SameStatus(u.req[k], s.req[k]) /\ u.req[k].parent = s.req[k].parent
                              /\ u.req[k].next = s.req[k].next
  BY DEF Grown, SameStatus
<1>3. ASSUME NEW k \in Live(u.free) \ Live(s.free) PROVE ~u.req[k].loading
  BY DEF Grown, SameStatus
<1> QED
  BY <1>1, <1>2, <1>3 DEF Grown

\* The load queue has the same requests.
LEMMA GrownLoads ==
  ASSUME NEW s, NEW t, Grown(s, t)
  PROVE  HasLoads(s, t, Loaders(s.req, s.free))
BY DEF Grown, HasLoads, Loaders, SameStatus

\* A walk all of whose requests are in the tree.
LEMMA GrownWalk ==
  ASSUME NEW s, NEW t, Grown(s, t), NEW st, WalkOK(s.req, s.free, st),
         \A j \in 1 .. Len(st) : st[j] \in Live(s.free)
  PROVE  WalkOK(t.req, t.free, st)
<1>1. OnPath(s.req, st)
  BY DEF WalkOK
<1>2. Len(st) \in Nat \ {0}
  BY <1>1, StackFacts
<1>3. ASSUME NEW j \in 1 .. (Len(st) - 1)
      PROVE  t.req[st[j + 1]].parent = st[j] /\ t.req[st[j]].buffer
  <2>1. j + 1 \in 1 .. Len(st) /\ j \in 1 .. Len(st)
    BY <1>2
  <2>2. st[j + 1] \in Live(s.free) /\ st[j] \in Live(s.free)
    BY <2>1
  <2>3. s.req[st[j + 1]].parent = st[j] /\ s.req[st[j]].buffer
    BY <1>1, <2>2 DEF WalkOK, OnPath
  <2> QED
    BY <2>2, <2>3 DEF Grown, SameStatus
<1>4. OnPath(t.req, st)
  BY <1>1, <1>3 DEF OnPath
<1>5. Gone(t.req, t.free, {}) /\ \A j \in 1 .. Len(st) : st[j] \in Live(t.free) \cup {}
  BY DEF Gone, Grown
<1> QED
  BY <1>3, <1>4, <1>5 DEF WalkOK

-----------------------------------------------------------------------------
(* The hints. *)

\* A hint names a request that is being loaded, and a name of a lower rank.
HintOK(rank, R, F, h) ==
  /\ h.parent \in Loaders(R, F) /\ h.name \in Names \ Malformed
  /\ rank[CanonicalPath[h.name]] < rank[PathOf(R[h.parent])]

HintsOK(rank, R, F, hints) ==
  /\ hints \in Seq([parent : Nodes, name : Names])
  /\ \A k \in 1 .. Len(hints) : HintOK(rank, R, F, hints[k])

\* The requests that are being loaded may still get children.
LEMMA HintMayInsert ==
  ASSUME NEW w, NEW rank \in [Paths -> Nat], NEW count, NEW s, NEW h, TreeOK(w, rank, count, s),
         HintOK(rank, s.req, s.free, h)
  PROVE  MayInsert(w, rank, count, s, h.parent, h.name)
<1>1. PICK p : p = h.parent
  OBVIOUS
<1>2. p \in Live(s.free) /\ s.req[p].loading
  BY <1>1 DEF HintOK, Loaders
<1>3. NodeOK(w, rank, s.req, s.free, p)
  BY <1>2 DEF TreeOK
<1>4. s.req[p].result = PENDING /\ ~s.req[p].buffer
  BY <1>2, <1>3 DEF NodeOK
<1> QED
  BY <1>1, <1>2, <1>4 DEF MayInsert, HintOK

\* A hint stays valid while children are inserted.
LEMMA GrownHint ==
  ASSUME NEW rank, NEW s, NEW t, Grown(s, t), NEW h, HintOK(rank, s.req, s.free, h)
  PROVE  HintOK(rank, t.req, t.free, h)
<1>1. h.parent \in Loaders(t.req, t.free)
  BY DEF HintOK, Loaders, Grown, SameStatus
<1>2. PathOf(t.req[h.parent]) = PathOf(s.req[h.parent])
  BY DEF HintOK, Loaders, Grown, SameStatus, PathOf
<1> QED
  BY <1>1, <1>2 DEF HintOK

\* PopHints inserts the children the preload functions have asked for.
LEMMA PopHintsEffect ==
  ASSUME NEW w, NEW rank \in [Paths -> Nat], NEW count, NEW s, NEW ext, Sound(w, rank, count, s, ext),
         NEW hints, HintsOK(rank, s.req, s.free, hints)
  PROVE  Sound(w, rank, count, PopHints(s, hints), ext) /\ Grown(s, PopHints(s, hints))
<1>1. PICK L \in Nat : L = Len(hints)
  BY LenProperties DEF HintsOK
<1>2. PICK g : /\ g[0] = s
               /\ \A n \in 1 .. L : g[n] = PopHint(g[n - 1], hints[n])
               /\ PopHints(s, hints) = g[L]
  BY <1>1, HintRounds
<1> DEFINE S == {n \in 0 .. L : Sound(w, rank, count, g[n], ext) /\ Grown(s, g[n])}
<1>3. 0 \in S
  BY <1>2 DEF Grown, SameStatus
<1>4. ASSUME NEW n \in 0 .. L, n \in S, n < L PROVE n + 1 \in S
  <2>1. n + 1 \in 1 .. L /\ (n + 1) - 1 = n /\ n + 1 \in 0 .. L
    BY <1>4
  <2>2. PICK c : c = g[n]
    OBVIOUS
  <2>3. Sound(w, rank, count, c, ext) /\ Grown(s, c)
    BY <1>4, <2>2
  <2>4. PICK h : h = hints[n + 1]
    OBVIOUS
  <2>5. HintOK(rank, s.req, s.free, h)
    BY <1>1, <2>1, <2>4 DEF HintsOK
  <2>6. HintOK(rank, c.req, c.free, h)
    BY <2>3, <2>5, GrownHint
  <2>7. TreeOK(w, rank, count, c)
    BY <2>3 DEF Sound
  <2>8. MayInsert(w, rank, count, c, h.parent, h.name)
    BY <2>6, <2>7, HintMayInsert
  <2>9. PICK t : t = PreloadPathDescriptor(c, h.parent, h.name)
    OBVIOUS
  <2>10. Sound(w, rank, count, t, ext) /\ Grown(c, t)
    BY <2>3, <2>8, <2>9, InsertSound
  <2>11. Grown(s, t)
    BY <2>3, <2>10, GrownTransitive
  <2>12. g[n + 1] = t
    BY <1>2, <2>1, <2>2, <2>4, <2>9 DEF PopHint
  <2> QED
    BY <2>1, <2>10, <2>11, <2>12
<1>5. 0 .. L \subseteq S
  <2> HIDE DEF S
  <2> QED
    BY <1>3, <1>4, EveryRound
<1> QED
  BY <1>2, <1>5

-----------------------------------------------------------------------------
(* What a visit does to the tree, the walk and the loads. *)

\* The tree t after a visit that leaves the load queue the requests A.
Visited(w, rank, count, s, t, st, ext, A) ==
  Sound(w, rank, count, t, ext) /\ WalkOK(t.req, t.free, st) /\ HasLoads(s, t, A)

\* The walk is at the request i, which is not resolved.
At(w, rank, count, s, st, ext, i) ==
  /\ Sound(w, rank, count, s, ext) /\ WalkOK(s.req, s.free, st) /\ i = st[Len(st)]
  /\ s.req[i].result = PENDING

\* The request that is visited is in the tree, and with it those above it.
LEMMA AtLive ==
  ASSUME NEW w, NEW rank, NEW count, NEW s, NEW st, NEW ext, NEW i, At(w, rank, count, s, st, ext, i)
  PROVE  /\ TreeOK(w, rank, count, s) /\ i \in Live(s.free) /\ i \in Nodes
         /\ \A j \in 1 .. Len(st) : st[j] \in Live(s.free)
         /\ i # 0 => s.req[s.req[i].parent].buffer
<1>1. TreeOK(w, rank, count, s) /\ Shape(s.req, s.free)
  BY DEF At, Sound, TreeOK
<1>2. OnPath(s.req, st)
  BY DEF At, WalkOK
<1>3. Len(st) \in Nat \ {0} /\ \A j \in 1 .. Len(st) : st[j] \in Nodes
  BY <1>2, StackFacts
<1>4. i = st[Len(st)] /\ s.req[i].result = PENDING /\ i \in Nodes
  BY <1>3 DEF At
<1>5. i \in Live(s.free)
  <2>1. PICK D : Gone(s.req, s.free, D) /\ \A j \in 1 .. Len(st) : st[j] \in Live(s.free) \cup D
    BY DEF At, WalkOK
  <2>2. i \in Live(s.free) \cup D
    BY <1>3, <1>4, <2>1
  <2> QED
    BY <1>4, <2>1, <2>2 DEF Gone
<1>6. \A j \in 1 .. Len(st) : st[j] \in Live(s.free)
  BY <1>1, <1>2, <1>4, <1>5, WalkLive
<1>7. ASSUME i # 0 PROVE s.req[s.req[i].parent].buffer
  <2>1. Len(st) # 1
    BY <1>2, <1>4, <1>7 DEF OnPath
  <2>2. PICK m \in 1 .. (Len(st) - 1) : m + 1 = Len(st)
    <3>1. PICK n \in Nat \ {0} : n = Len(st)
      BY <1>3
    <3>2. n - 1 \in 1 .. (n - 1) /\ (n - 1) + 1 = n
      BY <2>1, <3>1
    <3> QED
      BY <3>1, <3>2
  <2>3. s.req[st[m + 1]].parent = st[m] /\ (st[m + 1] \in Live(s.free) => s.req[st[m]].buffer)
    BY <1>2 DEF At, WalkOK, OnPath
  <2> QED
    BY <1>4, <1>5, <2>2, <2>3
<1> QED
  BY <1>1, <1>4, <1>5, <1>6, <1>7

\* It may be resolved, if it does not wait for children.
LEMMA AtSolvable ==
  ASSUME NEW w, NEW rank, NEW count, NEW s, NEW st, NEW ext, NEW i,
         At(w, rank, count, s, st, ext, i), ~s.req[i].buffer
  PROVE  Solvable(s, i)
BY AtLive DEF At, Solvable

\* The visit resolves the request, and then the climb creates its parents.
LEMMA ResolveEffect ==
  ASSUME NEW rank, WorldOK(rank), NEW w, NEW s, NEW st, NEW ext, NEW i,
         At(w, rank, persistCount, s, st, ext, i), Solvable(s, i),
         NEW t, Solves(w, rank, persistCount, s, t, i, ext)
  PROVE  Visited(w, rank, persistCount, s, PreloaderTryPruneParent(t, i), st, ext,
                 Loaders(s.req, s.free) \ {i})
<1>1. /\ TreeOK(w, rank, persistCount, s) /\ Resolves(s, t, i) /\ Ends(s, t, i)
      /\ Sound(w, rank, persistCount, t, ext) /\ WalkOK(s.req, s.free, st) /\ st[Len(st)] = i
  BY DEF At, Sound, Solves
<1>2. WalkOK(t.req, t.free, st)
  BY <1>1, VisitKeepsWalk
<1>3. PICK A : A = Loaders(s.req, s.free) \ {i}
  OBVIOUS
<1>4. HasLoads(s, t, A)
  BY <1>1, <1>3, SolvedLoads
<1>5. i \in Live(t.free) /\ t.req[i].result # PENDING
  <2>1. i \in Live(s.free) /\ Shape(s.req, s.free)
    BY <1>1, SolvableFacts
  <2>2. i \notin Kids(s.req, s.free, i)
    BY <2>1, NoFirstChild
  <2> QED
    BY <1>1, <2>1, <2>2 DEF Resolves
<1>6. PICK u : u = PreloaderTryPruneParent(t, i)
  OBVIOUS
<1>7. /\ Sound(w, rank, persistCount, u, ext) /\ WalkOK(u.req, u.free, st)
      /\ HasLoads(t, u, Loaders(t.req, t.free))
  BY <1>1, <1>2, <1>5, <1>6, ClimbEffect
<1>8. HasLoads(s, u, A)
  BY <1>4, <1>7 DEF HasLoads
<1> QED
  BY <1>3, <1>6, <1>7, <1>8 DEF Visited

\* A request that begins to load or keeps its buffer stays where it is.
LEMMA BusyKeepsWalk ==
  ASSUME NEW s, NEW t, NEW i \in Nodes, GetsBusy(s, t, i), ~s.req[i].buffer,
         NEW st, WalkOK(s.req, s.free, st)
  PROVE  WalkOK(t.req, t.free, st)
<1>1. OnPath(s.req, st)
  BY DEF WalkOK
<1>2. Len(st) \in Nat \ {0} /\ \A j \in 1 .. Len(st) : st[j] \in Nodes
  BY <1>1, StackFacts
<1>3. /\ t.free = s.free
      /\ \A k \in Nodes : /\ t.req[k].parent = s.req[k].parent /\ t.req[k].next = s.req[k].next
                          /\ t.req[k].result = s.req[k].result
                          /\ s.req[k].buffer => t.req[k].buffer
  BY DEF GetsBusy, SameLinks
<1>4. PICK D : Gone(s.req, s.free, D) /\ \A j \in 1 .. Len(st) : st[j] \in Live(s.free) \cup D
  BY DEF WalkOK
<1>5. Gone(t.req, t.free, D)
  BY <1>3, <1>4 DEF Gone
<1>6. ASSUME NEW j \in 1 .. (Len(st) - 1)
      PROVE  /\ t.req[st[j + 1]].parent = st[j]
             /\ st[j + 1] \in Live(t.free) => t.req[st[j]].buffer
  <2>1. j + 1 \in 1 .. Len(st) /\ j \in 1 .. Len(st)
    BY <1>2
  <2>2. st[j + 1] \in Nodes /\ st[j] \in Nodes
    BY <1>2, <2>1
  <2> QED
    BY <1>1, <1>3, <2>2 DEF WalkOK, OnPath
<1>7. OnPath(t.req, st)
  BY <1>1, <1>6 DEF OnPath
<1> QED
  BY <1>3, <1>4, <1>5, <1>6, <1>7 DEF WalkOK

\* A load that has ended: the hints are popped, and the request is created, fails or waits
\* for its children.
LEMMA FinishEffect ==
  ASSUME NEW rank \in [Paths -> Nat], WorldOK(rank), NEW w, NEW s, NEW st, NEW ext, NEW i,
         At(w, rank, persistCount, s, st, ext, i), s.req[i].loading,
         NEW hints, HintsOK(rank, s.req, s.free, hints), NEW answer \in Results
  PROVE  Visited(w, rank, persistCount, s,
                 AfterRecordLoad(RecordLoad(PopHints(s, hints), i, answer), i), st, ext,
                 Loaders(s.req, s.free) \ {i})
<1>1. PICK c : c = PopHints(s, hints)
  OBVIOUS
<1>2. Sound(w, rank, persistCount, s, ext)
  BY DEF At
<1>3. Sound(w, rank, persistCount, c, ext) /\ Grown(s, c)
  BY <1>1, <1>2, PopHintsEffect
<1>4. /\ i \in Live(s.free) /\ \A j \in 1 .. Len(st) : st[j] \in Live(s.free)
  BY AtLive
<1>5. WalkOK(c.req, c.free, st)
  BY <1>3, <1>4, GrownWalk DEF At
<1>6. c.req[i].result = PENDING /\ c.req[i].loading /\ i \in Live(c.free)
  BY <1>3, <1>4 DEF At, Grown, SameStatus
<1>7. At(w, rank, persistCount, c, st, ext, i)
  BY <1>3, <1>5, <1>6 DEF At
<1>8. TreeOK(w, rank, persistCount, c) /\ i \in Live(c.free) /\ i \in Nodes
  BY <1>7, AtLive
<1>9. NodeOK(w, rank, c.req, c.free, i) /\ Shape(c.req, c.free)
  BY <1>8 DEF TreeOK
<1>10. ~c.req[i].buffer
  BY <1>6, <1>9 DEF NodeOK
<1>11. Solvable(c, i)
  BY <1>7, <1>10, AtSolvable
<1>12. PICK A : A = Loaders(s.req, s.free) \ {i}
  OBVIOUS
<1>13. Loaders(c.req, c.free) \ {i} = A
  BY <1>3, <1>12, GrownLoads DEF HasLoads
<1>14. PICK u : u = AfterRecordLoad(RecordLoad(c, i, answer), i)
  OBVIOUS
<1>15. Visited(w, rank, persistCount, c, u, st, ext, A)
  <2>1. CASE answer # OK
    <3>1. PICK d : d = RecordLoad(c, i, answer)
      OBVIOUS
    <3>2. PICK t : t = FreeLoad(UnmarkPathInProgress(d, i), i)
      OBVIOUS
    <3>3. d.req[i].first = None /\ d.req[i].result # PENDING /\ Solves(w, rank, persistCount, c, t, i, ext)
      BY <1>3, <1>6, <1>11, <2>1, <3>1, <3>2, FailedEffect
    <3>4. u = PreloaderTryPruneParent(t, i)
      BY <1>14, <3>1, <3>2, <3>3 DEF AfterRecordLoad, CreatesInPlace
    <3> QED
      BY <1>7, <1>11, <1>13, <3>3, <3>4, ResolveEffect
  <2>2. CASE answer = OK /\ c.req[i].first = None
    <3>1. RecordLoad(c, i, answer) = c
      BY <2>2 DEF RecordLoad, LoadFailed
    <3>2. c.req[i].pending = 0
      <4>1. Kids(c.req, c.free, i) = {}
        BY <1>8, <1>9, <2>2, NoFirstChild
      <4>2. PendingKids(c.req, c.free, i) = {}
        BY <4>1 DEF PendingKids
      <4> QED
        BY <1>9, <4>2, FS_EmptySet DEF NodeOK
    <3>3. PICK t : t = FreeLoad(UnmarkPathInProgress(CreateResource(c, i, TRUE), i), i)
      OBVIOUS
    <3>4. Solves(w, rank, persistCount, c, t, i, ext)
      BY <1>3, <1>6, <1>11, <3>2, <3>3, InPlaceEffect
    <3>5. u = PreloaderTryPruneParent(t, i)
      BY <1>6, <1>14, <2>2, <3>1, <3>3 DEF AfterRecordLoad, CreatesInPlace
    <3> QED
      BY <1>7, <1>11, <1>13, <3>4, <3>5, ResolveEffect
  <2>3. CASE answer = OK /\ c.req[i].first # None
    <3>1. RecordLoad(c, i, answer) = c
      BY <2>3 DEF RecordLoad, LoadFailed
    <3>2. u = FreeLoad([c EXCEPT !.req[i].buffer = TRUE], i)
      BY <1>14, <2>3, <3>1 DEF AfterRecordLoad
    <3>3. GetsBusy(c, u, i) /\ ~u.req[i].loading /\ Sound(w, rank, persistCount, u, ext)
      BY <1>3, <1>6, <1>11, <2>3, <3>2, BufferEffect
    <3>4. WalkOK(u.req, u.free, st)
      BY <1>5, <1>8, <1>10, <3>3, BusyKeepsWalk
    <3>5. HasLoads(c, u, A)
      <4>1. Loaders(u.req, u.free) = Loaders(c.req, c.free) \ {i}
        BY <3>3 DEF Loaders, GetsBusy, Live
      <4>2. \A k \in A : u.req[k].name = c.req[k].name
        BY <1>13, <3>3 DEF Loaders, GetsBusy, Live
      <4> QED
        BY <1>13, <4>1, <4>2 DEF HasLoads
    <3> QED
      BY <3>3, <3>4, <3>5 DEF Visited
  <2> QED
    BY <2>1, <2>2, <2>3
<1>16. \A k \in A : c.req[k].name = s.req[k].name
  BY <1>3, <1>12, GrownLoads DEF HasLoads
<1>17. Visited(w, rank, persistCount, s, u, st, ext, A)
  BY <1>15, <1>16 DEF Visited, HasLoads
<1> QED
  BY <1>1, <1>12, <1>14, <1>17

-----------------------------------------------------------------------------
(* The load queue.  The requests that it has and that are not freed are    *)
(* those of the set A, once each.                                          *)

QueueRequests == [name : Nodes \cup {None}, status : {"begun", "answered", "freed"},
                  answer : Results \cup {None}, data : Nodes \cup {None}]

QueueOK(A, q) ==
  /\ q \in Seq(QueueRequests)
  /\ \A k \in 1 .. Len(q) : q[k].status # "freed" => q[k].name \in A
  /\ \A j, k \in 1 .. Len(q) :
       q[j].status # "freed" /\ q[k].status # "freed" /\ q[j].name = q[k].name => j = k
  /\ \A i \in A : \E k \in 1 .. Len(q) : q[k].status # "freed" /\ q[k].name = i
  /\ \A k \in 1 .. Len(q) : q[k].status = "answered" => q[k].answer \in Results

\* A load is begun.
LEMMA QueueBegin ==
  ASSUME NEW A, NEW q, QueueOK(A, q), NEW n \in Nodes, n \notin A,
         NEW z, z = Append(q, [name |-> n, status |-> "begun", answer |-> None, data |-> None])
  PROVE  QueueOK(A \cup {n}, z)
<1>1. q \in Seq(QueueRequests)
  BY DEF QueueOK
<1>2. PICK L \in Nat : L = Len(q)
  BY <1>1, LenProperties
<1>3. PICK x : x = [name |-> n, status |-> "begun", answer |-> None, data |-> None]
  OBVIOUS
<1>4. x \in QueueRequests /\ x.name = n /\ x.status = "begun"
  BY <1>3 DEF QueueRequests
<1>5. /\ z \in Seq(QueueRequests) /\ Len(z) = L + 1 /\ z[L + 1] = x
      /\ \A k \in 1 .. L : z[k] = q[k]
  <2>1. /\ z \in Seq(QueueRequests) /\ Len(z) = Len(q) + 1 /\ z[Len(q) + 1] = x
        /\ \A k \in 1 .. Len(q) : z[k] = q[k]
    BY <1>1, <1>3, <1>4, AppendProperties
  <2> QED
    BY <1>2, <2>1
<1>6. 1 .. Len(z) = (1 .. L) \cup {L + 1} /\ \A k \in 1 .. L : k # L + 1
  BY <1>2, <1>5
<1>7. /\ \A k \in 1 .. L : q[k].status # "freed" => q[k].name \in A
      /\ \A j, k \in 1 .. L :
           q[j].status # "freed" /\ q[k].status # "freed" /\ q[j].name = q[k].name => j = k
      /\ \A i \in A : \E k \in 1 .. L : q[k].status # "freed" /\ q[k].name = i
      /\ \A k \in 1 .. L : q[k].status = "answered" => q[k].answer \in Results
  BY <1>2 DEF QueueOK
<1>8. \A k \in 1 .. Len(z) : z[k].status # "freed" => z[k].name \in A \cup {n}
  BY <1>4, <1>5, <1>6, <1>7
<1>9. ASSUME NEW j \in 1 .. Len(z), NEW k \in 1 .. Len(z), z[j].status # "freed",
             z[k].status # "freed", z[j].name = z[k].name
      PROVE  j = k
  BY <1>4, <1>5, <1>6, <1>7, <1>9
<1>10. ASSUME NEW i \in A \cup {n}
       PROVE  \E k \in 1 .. Len(z) : z[k].status # "freed" /\ z[k].name = i
  <2>1. CASE i = n
    BY <1>4, <1>5, <1>6, <2>1
  <2>2. CASE i \in A
    <3>1. PICK k \in 1 .. L : q[k].status # "freed" /\ q[k].name = i
      BY <1>7, <2>2
    <3> QED
      BY <1>5, <1>6, <3>1
  <2> QED
    BY <2>1, <2>2
<1>11. \A k \in 1 .. Len(z) : z[k].status = "answered" => z[k].answer \in Results
  BY <1>4, <1>5, <1>6, <1>7
<1> QED
  BY <1>5, <1>8, <1>9, <1>10, <1>11 DEF QueueOK

\* A load is answered.
LEMMA QueueAnswer ==
  ASSUME NEW A, NEW q, QueueOK(A, q), NEW k \in 1 .. Len(q), q[k].status = "begun",
         NEW a \in Results, NEW b \in Nodes \cup {None},
         NEW z, z = [q EXCEPT ![k].status = "answered", ![k].answer = a, ![k].data = b]
  PROVE  QueueOK(A, z)
<1>1. q \in Seq(QueueRequests)
  BY DEF QueueOK
<1>2. PICK L \in Nat : L = Len(q) /\ DOMAIN q = 1 .. L
  BY <1>1, LenProperties
<1>3. PICK r \in QueueRequests : r = q[k]
  BY <1>1, ElementOfSeq
<1>4. PICK x : x = [r EXCEPT !.status = "answered", !.answer = a, !.data = b]
  OBVIOUS
<1>5. x \in QueueRequests /\ x.name = r.name /\ x.status = "answered" /\ x.answer = a
  BY <1>4 DEF QueueRequests
<1>6. z = [q EXCEPT ![k] = x]
  BY <1>1, <1>2, <1>3, <1>4
<1>7. /\ z \in Seq(QueueRequests) /\ Len(z) = L /\ z[k] = x
      /\ \A j \in 1 .. L : j # k => z[j] = q[j]
  <2>1. PICK e \in QueueRequests : e = x
    BY <1>5
  <2>2. [q EXCEPT ![k] = e] \in Seq(QueueRequests) /\ Len([q EXCEPT ![k] = e]) = Len(q)
    BY <1>1, ExceptSeq
  <2>3. z = [q EXCEPT ![k] = e]
    BY <1>6, <2>1
  <2>4. z \in Seq(QueueRequests) /\ Len(z) = L
    BY <1>2, <2>2, <2>3
  <2>5. k \in DOMAIN q
    BY <1>2
  <2>6. z[k] = x /\ \A j \in 1 .. L : j # k => z[j] = q[j]
    BY <1>2, <1>6, <2>5
  <2> QED
    BY <2>4, <2>6
<1>8. \A j \in 1 .. L : z[j].name = q[j].name /\ (z[j].status # "freed" <=> q[j].status # "freed")
  BY <1>3, <1>5, <1>7
<1>9. /\ \A j \in 1 .. L : q[j].status # "freed" => q[j].name \in A
      /\ \A i, j \in 1 .. L :
           q[j].status # "freed" /\ q[i].status # "freed" /\ q[j].name = q[i].name => j = i
      /\ \A i \in A : \E j \in 1 .. L : q[j].status # "freed" /\ q[j].name = i
      /\ \A j \in 1 .. L : q[j].status = "answered" => q[j].answer \in Results
  BY <1>2 DEF QueueOK
<1>10. \A j \in 1 .. L : z[j].status = "answered" => z[j].answer \in Results
  BY <1>5, <1>7, <1>9
<1>11. /\ \A j \in 1 .. L : z[j].status # "freed" => z[j].name \in A
       /\ \A i, j \in 1 .. L :
            z[i].status # "freed" /\ z[j].status # "freed" /\ z[i].name = z[j].name => i = j
       /\ \A i \in A : \E j \in 1 .. L : z[j].status # "freed" /\ z[j].name = i
  BY ZenonT(60), <1>8, <1>9
<1> QED
  BY <1>7, <1>10, <1>11 DEF QueueOK

\* A load is freed, and what is freed leaves the head of the queue.
LEMMA QueueFree ==
  ASSUME NEW A, NEW q, QueueOK(A, q), NEW k \in 1 .. Len(q), q[k].status # "freed",
         NEW y, y = [q EXCEPT ![k] = [name |-> None, status |-> "freed", answer |-> None, data |-> None]],
         NEW h \in 0 .. Len(q), \A j \in 1 .. h : y[j].status = "freed",
         NEW z, z = SubSeq(y, h + 1, Len(y))
  PROVE  QueueOK(A \ {q[k].name}, z)
<1>1. q \in Seq(QueueRequests)
  BY DEF QueueOK
<1>2. PICK L \in Nat : L = Len(q) /\ DOMAIN q = 1 .. L
  BY <1>1, LenProperties
<1>3. PICK x : x = [name |-> None, status |-> "freed", answer |-> None, data |-> None]
  OBVIOUS
<1>4. x \in QueueRequests /\ x.status = "freed"
  BY <1>3 DEF QueueRequests
<1>5. /\ y \in Seq(QueueRequests) /\ Len(y) = L /\ y[k] = x
      /\ \A j \in 1 .. L : j # k => y[j] = q[j]
  <2>1. PICK e \in QueueRequests : e = x
    BY <1>4
  <2>2. [q EXCEPT ![k] = e] \in Seq(QueueRequests) /\ Len([q EXCEPT ![k] = e]) = Len(q)
    BY <1>1, ExceptSeq
  <2>3. y = [q EXCEPT ![k] = e]
    BY <1>3, <2>1
  <2>4. y \in Seq(QueueRequests) /\ Len(y) = L
    BY <1>2, <2>2, <2>3
  <2>5. k \in DOMAIN q
    BY <1>2
  <2>6. y[k] = x /\ \A j \in 1 .. L : j # k => y[j] = q[j]
    BY <1>2, <2>1, <2>3, <2>5
  <2> QED
    BY <2>4, <2>6
<1>0. PICK b \in 0 .. L : b = h
  BY <1>2
<1>6. h \in Nat /\ h <= L /\ \E m \in Nat : h + m = L
  <2>1. b \in Nat /\ b <= L /\ L - b \in Nat /\ b + (L - b) = L
    OBVIOUS
  <2> QED
    BY <1>0, <2>1
<1>61. PICK m \in Nat : h + m = L
  BY <1>6
<1>7. z \in Seq(QueueRequests) /\ Len(z) = m /\ \A j \in 1 .. m : z[j] = y[h + j]
  <2>1. \A j \in h + 1 .. L : y[j] \in QueueRequests
    <3>1. \A j \in h + 1 .. L : j \in 1 .. Len(y)
      BY <1>5, <1>6, <1>61
    <3> QED
      BY <1>5, <3>1, ElementOfSeq
  <2>2. PICK c \in Int : c = h + 1
    BY <1>6, <1>61
  <2>3. \A j \in c .. L : y[j] \in QueueRequests
    BY <2>1, <2>2
  <2>4. L \in Int
    OBVIOUS
  <2>5. z = SubSeq(y, c, L)
    BY <1>5, <2>2
  <2>60. PICK d \in Int : d = L
    OBVIOUS
  <2>61. \A j \in c .. d : y[j] \in QueueRequests
    BY <2>3, <2>60
  <2>62. /\ SubSeq(y, c, d) \in Seq(QueueRequests)
         /\ Len(SubSeq(y, c, d)) = (IF c <= d THEN d - c + 1 ELSE 0)
         /\ \A j \in 1 .. d - c + 1 : SubSeq(y, c, d)[j] = y[c + j - 1]
    BY <2>61, SubSeqProperties
  <2>6. /\ z \in Seq(QueueRequests) /\ Len(z) = (IF c <= L THEN L - c + 1 ELSE 0)
        /\ \A j \in 1 .. L - c + 1 : z[j] = y[c + j - 1]
    BY <2>5, <2>60, <2>62
  <2>7. Len(z) = m /\ L - c + 1 = m /\ \A j \in 1 .. m : c + j - 1 = h + j
    <3>1. (IF c <= L THEN L - c + 1 ELSE 0) = m
      BY <1>6, <1>61, <2>2
    <3>2. L - c + 1 = m /\ \A j \in 1 .. m : c + j - 1 = h + j
      BY <1>6, <1>61, <2>2
    <3> QED
      BY <2>6, <3>1, <3>2
  <2> QED
    BY <2>6, <2>7
<1>8. /\ \A j \in 1 .. L : q[j].status # "freed" => q[j].name \in A
      /\ \A i, j \in 1 .. L :
           q[j].status # "freed" /\ q[i].status # "freed" /\ q[j].name = q[i].name => j = i
      /\ \A i \in A : \E j \in 1 .. L : q[j].status # "freed" /\ q[j].name = i
      /\ \A j \in 1 .. L : q[j].status = "answered" => q[j].answer \in Results
  BY <1>2 DEF QueueOK
<1>9. k \in 1 .. L
  BY <1>2
<1>10. ASSUME NEW j \in 1 .. m, z[j].status # "freed"
       PROVE  h + j \in 1 .. L /\ h + j # k /\ z[j] = q[h + j]
  <2>1. h + j \in 1 .. L
    BY <1>6, <1>61
  <2>2. z[j] = y[h + j]
    BY <1>7
  <2>3. h + j # k
    BY <1>4, <1>5, <1>10, <2>2
  <2> QED
    BY <1>5, <2>1, <2>2, <2>3
<1>101. ASSUME NEW j \in 1 .. m, z[j].status # "freed"
        PROVE  \E a \in 1 .. L : a = h + j /\ a # k /\ z[j] = q[a]
  BY <1>10, <1>101
<1>11. ASSUME NEW j \in 1 .. m, z[j].status # "freed" PROVE z[j].name \in A \ {q[k].name}
  <2>1. PICK a \in 1 .. L : a = h + j /\ a # k /\ z[j] = q[a]
    BY <1>11, <1>101
  <2>2. q[a].status # "freed" /\ q[k].status # "freed"
    BY <1>11, <2>1
  <2>3. q[a].name \in A
    BY <1>8, <2>2
  <2>4. q[a].name # q[k].name
    BY <1>8, <1>9, <2>1, <2>2
  <2> QED
    BY <2>1, <2>3, <2>4
<1>12. ASSUME NEW i \in 1 .. m, NEW j \in 1 .. m, z[i].status # "freed", z[j].status # "freed",
              z[i].name = z[j].name
       PROVE  i = j
  <2>1. PICK a \in 1 .. L : a = h + i /\ z[i] = q[a]
    BY <1>12, <1>101
  <2>2. PICK b2 \in 1 .. L : b2 = h + j /\ z[j] = q[b2]
    BY <1>12, <1>101
  <2>3. q[a].status # "freed" /\ q[b2].status # "freed" /\ q[a].name = q[b2].name
    BY <1>12, <2>1, <2>2
  <2>4. a = b2
    BY <1>8, <2>3
  <2> QED
    BY <1>6, <2>1, <2>2, <2>4
<1>13. ASSUME NEW i \in A \ {q[k].name}
       PROVE  \E j \in 1 .. m : z[j].status # "freed" /\ z[j].name = i
  <2>1. PICK n \in 1 .. L : q[n].status # "freed" /\ q[n].name = i
    BY <1>8
  <2>2. n # k
    BY <2>1
  <2>3. y[n] = q[n]
    BY <1>5, <2>2
  <2>4. ~(n \in 1 .. h)
    BY <2>1, <2>3
  <2>5. PICK j \in 1 .. m : h + j = n
    <3>1. n - h \in 1 .. m /\ h + (n - h) = n
      BY <1>6, <1>61, <2>4
    <3> QED
      BY <3>1
  <2>6. z[j] = y[h + j]
    BY <1>7
  <2>7. z[j] = q[n]
    BY <2>3, <2>5, <2>6
  <2>8. z[j].status # "freed" /\ z[j].name = i
    BY <2>1, <2>7
  <2> QED
    BY <2>8
<1>14. \A j \in 1 .. m : z[j].status = "answered" => z[j].answer \in Results
  <2>1. ASSUME NEW j \in 1 .. m, z[j].status = "answered" PROVE z[j].answer \in Results
    <3>1. z[j].status # "freed"
      BY <2>1
    <3>2. PICK a \in 1 .. L : z[j] = q[a]
      BY <3>1, <1>101
    <3> QED
      <4>1. q[a].status = "answered"
        BY <2>1, <3>2
      <4>2. q[a].answer \in Results
        BY <1>8, <4>1
      <4> QED
        BY <3>2, <4>2
  <2> QED
    BY <2>1
<1>15. Len(z) = m /\ z \in Seq(QueueRequests)
  BY <1>7
<1>16. \A j \in 1 .. m : z[j].status # "freed" => z[j].name \in A \ {q[k].name}
  BY <1>11
<1>17. \A i, j \in 1 .. m :
         z[i].status # "freed" /\ z[j].status # "freed" /\ z[i].name = z[j].name => i = j
  BY <1>12
<1>18. \A i \in A \ {q[k].name} : \E j \in 1 .. m : z[j].status # "freed" /\ z[j].name = i
  BY <1>13
<1>19. PICK C : C = A \ {q[k].name}
  OBVIOUS
<1>20. QueueOK(C, z)
  <2>1. /\ \A j \in 1 .. m : z[j].status # "freed" => z[j].name \in C
        /\ \A i \in C : \E j \in 1 .. m : z[j].status # "freed" /\ z[j].name = i
    BY <1>16, <1>18, <1>19
  <2>2. \A j \in 1 .. Len(z) : z[j].status # "freed" => z[j].name \in C
    BY <1>15, <2>1
  <2>3. \A i, j \in 1 .. Len(z) :
          z[i].status # "freed" /\ z[j].status # "freed" /\ z[i].name = z[j].name => i = j
    BY ZenonT(60), <1>15, <1>17
  <2>4. \A i \in C : \E j \in 1 .. Len(z) : z[j].status # "freed" /\ z[j].name = i
    BY <1>15, <2>1
  <2>5. \A j \in 1 .. Len(z) : z[j].status = "answered" => z[j].answer \in Results
    BY <1>14, <1>15
  <2>6. z \in Seq(QueueRequests)
    BY <1>15
  <2> QED
    BY ONLY <2>2, <2>3, <2>4, <2>5, <2>6 DEF QueueOK
<1> QED
  BY <1>19, <1>20

-----------------------------------------------------------------------------
(* The invariant. *)

\* The main thread is at p with the stack st.
Walks(s, p, st) ==
  /\ p \in {"update", "walk", "hints"}
  /\ p = "walk" => WalkOK(s.req, s.free, st)
  /\ p # "walk" => st = <<>>

\* The tree, the load queue, the hints and the walk.
Core(w, rank, count, s, ext, q, hints, p, st) ==
  /\ Sound(w, rank, count, s, ext)
  /\ QueueOK(Loaders(s.req, s.free), q)
  /\ HintsOK(rank, s.req, s.free, hints)
  /\ Walks(s, p, st)

\* What is known of the other variables.
PlainOK ==
  /\ world \in Worlds /\ persistCount \in 1 .. Len(world.names) /\ hinted \in Nat
  /\ phase \in {"running", "deleting", "deleted"}
  /\ createComplete \in BOOLEAN /\ queueFull \in BOOLEAN /\ open \in BOOLEAN

\* The inductive invariant, for paths with the given ranks.
Inv(rank) ==
  /\ WorldOK(rank) /\ PlainOK
  /\ Core(world, rank, persistCount, Tree, external, requests, newHints, pc, stack)

\* The record of the tree's variables.
LEMMA TreeParts ==
  /\ Tree.req = req /\ Tree.free = freelist /\ Tree.inProgress = inProgress
  /\ Tree.persisted = persisted /\ Tree.post = post /\ Tree.res = res /\ Tree.abort = abort
BY DEF Tree

\* A step to the tree state t.
LEMMA BecomesTree ==
  ASSUME NEW t, t \in TreeStates, Becomes(t)
  PROVE  Tree' = t /\ world' = world
BY TreeFields DEF Tree, Becomes

\* A step that leaves the tree.
LEMMA SameTreeVars ==
  ASSUME UNCHANGED treeVars
  PROVE  Tree' = Tree /\ world' = world
BY DEF Tree, treeVars

\* The world does not change.
LEMMA WorldKept ==
  ASSUME NEW rank, WorldOK(rank), world' = world
  PROVE  WorldOK(rank)'
BY DEF WorldOK, TypedWorld, RefsDescend, Refs

\* The sound state of a tree, its parts.
LEMMA SoundFacts ==
  ASSUME NEW w, NEW rank, NEW count, NEW s, NEW ext, Sound(w, rank, count, s, ext)
  PROVE  /\ TreeOK(w, rank, count, s) /\ s \in TreeStates /\ s.req \in [Nodes -> Requests]
         /\ Shape(s.req, s.free) /\ Accounts(s, ext, <<>>) /\ ext \in SUBSET Names
         /\ s.abort = "none"
<1>1. TreeOK(w, rank, count, s) /\ Accounts(s, ext, <<>>) /\ ext \in SUBSET Names
  BY DEF Sound
<1>2. s \in TreeStates /\ Shape(s.req, s.free)
  BY <1>1 DEF TreeOK
<1>3. s.req \in [Nodes -> Requests]
  BY <1>2, TreeFields
<1>4. s.abort = "none"
  BY <1>1 DEF Accounts, Exact, Sane, Factory
<1> QED
  BY <1>1, <1>2, <1>3, <1>4

\* The hints are valid while the load queue has the same requests.
LEMMA HintsKept ==
  ASSUME NEW rank, NEW s, NEW t, NEW hints, HintsOK(rank, s.req, s.free, hints),
         HasLoads(s, t, Loaders(s.req, s.free))
  PROVE  HintsOK(rank, t.req, t.free, hints)
<1>1. ASSUME NEW k \in 1 .. Len(hints) PROVE HintOK(rank, t.req, t.free, hints[k])
  <2>1. HintOK(rank, s.req, s.free, hints[k])
    BY DEF HintsOK
  <2>2. PICK p : p = hints[k].parent
    OBVIOUS
  <2>3. p \in Loaders(s.req, s.free)
    BY <2>1, <2>2 DEF HintOK
  <2>4. p \in Loaders(t.req, t.free) /\ t.req[p].name = s.req[p].name
    BY <2>3 DEF HasLoads
  <2>5. PathOf(t.req[p]) = PathOf(s.req[p])
    BY <2>4 DEF PathOf
  <2> QED
    BY <2>1, <2>2, <2>4, <2>5 DEF HintOK
<1> QED
  BY <1>1 DEF HintsOK

\* There are no hints.
LEMMA NoHints ==
  ASSUME NEW rank, NEW R, NEW F
  PROVE  HintsOK(rank, R, F, <<>>)
BY DEF HintsOK

\* The walk returns, in the tree t.
LEMMA ReturnKeepsWalk ==
  ASSUME NEW t, t.req \in [Nodes -> Requests], Shape(t.req, t.free),
         WalkOK(t.req, t.free, stack), NEW b, Return(b, t)
  PROVE  Walks(t, pc', stack')
<1>1. CASE b
  BY <1>1 DEF Return, ReturnTrue, Walks
<1>2. CASE ~b
  <2>1. stack' = Advance(t, stack) /\ pc' = IF stack' = <<>> THEN "hints" ELSE "walk"
    BY <1>2 DEF Return, ReturnFalse
  <2>2. Advance(t, stack) = <<>> \/ WalkOK(t.req, t.free, Advance(t, stack))
    BY AdvanceKeepsWalk
  <2>3. stack' = <<>> => pc' = "hints"
    BY <2>1
  <2>4. stack' # <<>> => pc' = "walk" /\ WalkOK(t.req, t.free, stack')
    BY <2>1, <2>2
  <2> QED
    BY <2>3, <2>4 DEF Walks
<1> QED
  BY <1>1, <1>2

\* The parts of the invariant.
LEMMA InvFacts ==
  ASSUME NEW rank, Inv(rank)
  PROVE  /\ WorldOK(rank) /\ PlainOK /\ rank \in [Paths -> Nat]
         /\ Sound(world, rank, persistCount, Tree, external)
         /\ QueueOK(Loaders(req, freelist), requests)
         /\ HintsOK(rank, req, freelist, newHints)
         /\ Walks(Tree, pc, stack)
BY TreeParts DEF Inv, Core, WorldOK, RefsDescend

\* The references are accounted for in the same world.
LEMMA AccountsKept ==
  ASSUME world' = world, Accounts(Tree', external', <<>>)
  PROVE  Accounts(Tree, external, <<>>)'
BY DEF Accounts, Exact, Sane, PostCreateFails, Fate

\* The invariant after a step.
LEMMA InvAfter ==
  ASSUME NEW rank, WorldOK(rank), world' = world, persistCount' = persistCount, PlainOK',
         Core(world, rank, persistCount, Tree', external', requests', newHints', pc', stack')
  PROVE  Inv(rank)'
<1>1. WorldOK(rank)'
  BY WorldKept
<1>2. Accounts(Tree, external, <<>>)'
  BY AccountsKept DEF Core, Sound
<1> QED
  BY <1>1, <1>2 DEF Inv, Core, Sound

\* The walk is at a request that is not resolved.
LEMMA VisitAt ==
  ASSUME NEW rank, Inv(rank), Visiting(PENDING)
  PROVE  /\ At(world, rank, persistCount, Tree, stack, external, Node)
         /\ TreeOK(world, rank, persistCount, Tree) /\ Node \in Live(freelist) /\ Node \in Nodes
         /\ WalkOK(req, freelist, stack) /\ Node = stack[Len(stack)]
<1>1. WalkOK(req, freelist, stack)
  BY InvFacts, TreeParts DEF Visiting, Walks
<1>2. Node = stack[Len(stack)]
  BY <1>1, StackFacts DEF WalkOK, Node
<1>3. At(world, rank, persistCount, Tree, stack, external, Node)
  <2>1. req[Node].result = PENDING
    BY DEF Visiting
  <2>2. Sound(world, rank, persistCount, Tree, external)
    BY InvFacts
  <2> QED
    BY <1>1, <1>2, <2>1, <2>2, TreeParts DEF At
<1>4. TreeOK(world, rank, persistCount, Tree) /\ Node \in Live(freelist) /\ Node \in Nodes
  BY <1>3, AtLive, TreeParts
<1> QED
  BY <1>1, <1>2, <1>3, <1>4

\* A visit that changes the tree to u.
LEMMA VisitDone ==
  ASSUME NEW rank, Inv(rank), NEW u, NEW A,
         Visited(world, rank, persistCount, Tree, u, stack, external, A),
         QueueOK(A, requests'), HintsOK(rank, u.req, u.free, newHints'),
         external' = external, NEW b, ReturnPruned(b, u)
  PROVE  /\ world' = world
         /\ Core(world, rank, persistCount, Tree', external', requests', newHints', pc', stack')
<1>1. Sound(world, rank, persistCount, u, external) /\ WalkOK(u.req, u.free, stack)
  BY DEF Visited
<1>2. u \in TreeStates /\ u.req \in [Nodes -> Requests] /\ Shape(u.req, u.free)
  BY <1>1, SoundFacts
<1>3. Tree' = u /\ world' = world
  BY <1>2, BecomesTree DEF ReturnPruned
<1>4. Walks(u, pc', stack')
  BY <1>1, <1>2, ReturnKeepsWalk DEF ReturnPruned
<1>5. QueueOK(Loaders(u.req, u.free), requests')
  BY DEF Visited, HasLoads
<1> QED
  BY <1>1, <1>3, <1>4, <1>5 DEF Core

\* A visit that resolves a request which the load queue does not have.
LEMMA ResolvedVisit ==
  ASSUME NEW rank, Inv(rank), Visiting(PENDING), ~req[Node].loading,
         Solvable(Tree, Node),
         NEW t, Solves(world, rank, persistCount, Tree, t, Node, external), ResolveNode(t),
         UNCHANGED <<workerVars, queueFull, unchangedByVisit>>
  PROVE  Inv(rank)'
<1>1. PICK u : u = PreloaderTryPruneParent(t, Node)
  OBVIOUS
<1>2. Visited(world, rank, persistCount, Tree, u, stack, external,
              Loaders(Tree.req, Tree.free) \ {Node})
  BY <1>1, InvFacts, VisitAt, ResolveEffect
<1>3. PICK A : A = Loaders(Tree.req, Tree.free)
  OBVIOUS
<1>4. Loaders(Tree.req, Tree.free) \ {Node} = A
  BY <1>3, TreeParts DEF Loaders
<1>5. Visited(world, rank, persistCount, Tree, u, stack, external, A)
  BY <1>2, <1>4
<1>6. QueueOK(A, requests')
  BY <1>3, InvFacts, TreeParts DEF workerVars
<1>7. HintsOK(rank, u.req, u.free, newHints')
  <2>1. HasLoads(Tree, u, Loaders(Tree.req, Tree.free))
    BY <1>3, <1>5 DEF Visited
  <2>2. HintsOK(rank, Tree.req, Tree.free, newHints)
    BY InvFacts, TreeParts
  <2>3. HintsOK(rank, u.req, u.free, newHints)
    BY <2>1, <2>2, HintsKept
  <2> QED
    BY <2>3 DEF workerVars
<1>8. ReturnPruned(Prunes(t, Node), u)
  BY <1>1 DEF ResolveNode, Node
<1>9. external' = external
  BY DEF unchangedByVisit
<1>10. /\ world' = world
       /\ Core(world, rank, persistCount, Tree', external', requests', newHints', pc', stack')
  BY <1>5, <1>6, <1>7, <1>8, <1>9, VisitDone
<1>11. PlainOK'
  BY <1>10, InvFacts DEF PlainOK, workerVars, unchangedByVisit
<1>12. persistCount' = persistCount /\ WorldOK(rank)
  BY InvFacts DEF unchangedByVisit
<1> QED
  BY <1>10, <1>11, <1>12, InvAfter

\* A visit that changes nothing, and goes on.
LEMMA IdleVisit ==
  ASSUME NEW rank, Inv(rank), pc = "walk", ReturnFalse(Tree),
         UNCHANGED <<treeVars, workerVars, unchangedByVisit>>, queueFull' \in BOOLEAN
  PROVE  Inv(rank)'
<1>1. Sound(world, rank, persistCount, Tree, external) /\ WalkOK(req, freelist, stack)
  BY InvFacts, TreeParts DEF Walks
<1>2. Tree.req \in [Nodes -> Requests] /\ Shape(Tree.req, Tree.free)
  BY <1>1, SoundFacts
<1>3. Walks(Tree, pc', stack')
  <2>1. Return(FALSE, Tree)
    BY DEF Return
  <2> QED
    BY <1>1, <1>2, <2>1, ReturnKeepsWalk, TreeParts
<1>4. Tree' = Tree /\ world' = world
  BY SameTreeVars
<1>5. external' = external /\ requests' = requests /\ newHints' = newHints
      /\ persistCount' = persistCount
  BY DEF workerVars, unchangedByVisit
<1>6. Core(world, rank, persistCount, Tree', external', requests', newHints', pc', stack')
  BY <1>1, <1>3, <1>4, <1>5, InvFacts, TreeParts DEF Core
<1>7. PlainOK'
  BY <1>4, InvFacts DEF PlainOK, workerVars, unchangedByVisit
<1> QED
  BY <1>4, <1>5, <1>6, <1>7, InvFacts, InvAfter

-----------------------------------------------------------------------------
(* Each visit keeps the invariant. *)

\* A request that is resolved already.
LEMMA VisitResolvedKeeps ==
  ASSUME NEW rank, Inv(rank), VisitResolved
  PROVE  Inv(rank)'
<1>1. queueFull' \in BOOLEAN
  BY InvFacts DEF VisitResolved, PlainOK
<1> QED
  BY <1>1, IdleVisit DEF VisitResolved

\* No request that is visited was a recursive one: they have ranks.
LEMMA NoLoopVisited ==
  ASSUME NEW rank, Inv(rank), pc = "walk"
  PROVE  req[Node].result # LOOP
<1>1. WalkOK(req, freelist, stack) /\ TreeOK(world, rank, persistCount, Tree)
  BY InvFacts, SoundFacts, TreeParts DEF Walks
<1>2. Node = stack[Len(stack)] /\ Len(stack) \in Nat \ {0}
  BY <1>1, StackFacts DEF WalkOK, Node
<1>3. PICK D : Gone(req, freelist, D) /\ \A j \in 1 .. Len(stack) : stack[j] \in Live(freelist) \cup D
  BY <1>1 DEF WalkOK
<1>4. Len(stack) \in 1 .. Len(stack)
  BY <1>2
<1>5. Node \in Live(freelist) \cup D
  BY <1>2, <1>3, <1>4
<1>6. CASE Node \in D
  BY <1>3, <1>6 DEF Gone
<1>7. CASE Node \in Live(freelist)
  <2>1. NodeOK(world, rank, req, freelist, Node)
    BY <1>1, <1>7, TreeParts DEF TreeOK
  <2> QED
    BY <2>1 DEF NodeOK
<1> QED
  BY <1>5, <1>6, <1>7

\* A recursive request: there is none.
LEMMA VisitLoopKeeps ==
  ASSUME NEW rank, Inv(rank), VisitLoop
  PROVE  Inv(rank)'
BY NoLoopVisited DEF VisitLoop, Visiting

\* A resource of an unknown type.
LEMMA VisitUnknownTypeKeeps ==
  ASSUME NEW rank, Inv(rank), VisitUnknownType
  PROVE  Inv(rank)'
<1>1. Visiting(PENDING) /\ world.fate[PathOf(req[Node])] = "untyped"
  BY DEF VisitUnknownType, Fate
<1>2. PICK x : x = "RESULT_UNKNOWN_RESOURCE_TYPE"
  OBVIOUS
<1>3. x \in NodeResults \ {PENDING, LOOP}
  BY <1>2 DEF NodeResults, PENDING, LOOP
<1>4. PICK t : t = RemoveFromParentPendingCount([Tree EXCEPT !.req[Node].result = x], Node)
  OBVIOUS
<1>5. ~req[Node].loading /\ ~req[Node].buffer
  <2>1. NodeOK(world, rank, req, freelist, Node)
    BY <1>1, VisitAt, TreeParts DEF TreeOK
  <2> QED
    BY <1>1, <2>1 DEF NodeOK
<1>6. Solvable(Tree, Node)
  BY <1>1, <1>5, VisitAt, AtSolvable, TreeParts
<1>7. Solves(world, rank, persistCount, Tree, t, Node, external)
  BY <1>1, <1>3, <1>4, <1>6, InvFacts, UnknownEffect, TreeParts
<1>8. ResolveNode(t)
  BY <1>2, <1>4 DEF VisitUnknownType
<1>9. UNCHANGED <<workerVars, queueFull, unchangedByVisit>>
  BY DEF VisitUnknownType
<1> QED
  BY <1>1, <1>5, <1>6, <1>7, <1>8, <1>9, ResolvedVisit

\* A load that has not ended.
LEMMA VisitPendingLoadKeeps ==
  ASSUME NEW rank, Inv(rank), VisitPendingLoad
  PROVE  Inv(rank)'
<1>1. queueFull' \in BOOLEAN
  BY InvFacts DEF VisitPendingLoad, PlainOK
<1> QED
  BY <1>1, IdleVisit DEF VisitPendingLoad, Visiting

\* A request that is being loaded is in the load queue.
LEMMA LoadOfNode ==
  ASSUME NEW A, QueueOK(A, requests), NEW i \in A
  PROVE  /\ LoadOf(i) \in 1 .. Len(requests) /\ requests[LoadOf(i)].name = i
         /\ requests[LoadOf(i)].status # "freed" /\ DOMAIN requests = 1 .. Len(requests)
         /\ requests \in Seq(QueueRequests)
<1>1. requests \in Seq(QueueRequests)
  BY DEF QueueOK
<1>2. DOMAIN requests = 1 .. Len(requests)
  BY <1>1, LenProperties
<1>3. PICK k \in 1 .. Len(requests) : requests[k].status # "freed" /\ requests[k].name = i
  BY DEF QueueOK
<1>4. \E n \in DOMAIN requests : requests[n].name = i /\ requests[n].status # "freed"
  BY <1>2, <1>3
<1>5. LoadOf(i) \in DOMAIN requests /\ requests[LoadOf(i)].name = i
      /\ requests[LoadOf(i)].status # "freed"
  BY <1>4 DEF LoadOf
<1> QED
  BY <1>1, <1>2, <1>5

\* A load that has ended.
LEMMA VisitFinishedLoadKeeps ==
  ASSUME NEW rank, Inv(rank), VisitFinishedLoad
  PROVE  Inv(rank)'
<1>1. Visiting(PENDING) /\ req[Node].loading
  BY DEF VisitFinishedLoad
<1>2. PICK A : A = Loaders(req, freelist)
  OBVIOUS
<1>3. Node \in A
  BY <1>1, <1>2, VisitAt DEF Loaders
<1>4. PICK k : k = LoadOf(Node)
  OBVIOUS
<1>5. QueueOK(A, requests)
  BY <1>2, InvFacts
<1>6. /\ k \in 1 .. Len(requests) /\ requests[k].name = Node /\ requests[k].status # "freed"
      /\ requests[k].status = "answered"
  BY <1>3, <1>4, <1>5, LoadOfNode DEF VisitFinishedLoad
<1>7. PICK answer \in Results : answer = requests[k].answer
  BY <1>5, <1>6 DEF QueueOK
<1>8. PICK s : s = RecordLoad(PopHints(Tree, newHints), Node, answer)
  OBVIOUS
<1>9. PICK u : u = AfterRecordLoad(s, Node)
  OBVIOUS
<1>10. Visited(world, rank, persistCount, Tree, u, stack, external,
               Loaders(Tree.req, Tree.free) \ {Node})
  <2>1. HintsOK(rank, Tree.req, Tree.free, newHints)
    BY InvFacts, TreeParts
  <2>2. Tree.req[Node].loading
    BY <1>1, TreeParts
  <2>3. WorldOK(rank) /\ rank \in [Paths -> Nat]
    BY InvFacts
  <2>4. At(world, rank, persistCount, Tree, stack, external, Node)
    BY <1>1, VisitAt
  <2> QED
    BY <1>8, <1>9, <2>1, <2>2, <2>3, <2>4, FinishEffect
<1>11. Visited(world, rank, persistCount, Tree, u, stack, external, A \ {Node})
  BY <1>2, <1>10, TreeParts
<1>12. ReturnPruned(CreatesInPlace(s, Node), u)
  BY <1>4, <1>7, <1>8, <1>9 DEF VisitFinishedLoad, FinishLoad
<1>13. QueueOK(A \ {Node}, requests') /\ open' = open
  <2>1. Queue!Free(k)
    BY <1>4 DEF VisitFinishedLoad
  <2>2. PICK y : y = [requests EXCEPT ![k] = [name |-> None, status |-> "freed",
                                              answer |-> None, data |-> None]]
    OBVIOUS
  <2>3. PICK h \in 0 .. Len(requests) : /\ \A j \in 1 .. h : y[j].status = "freed"
                                        /\ requests' = SubSeq(y, h + 1, Len(y))
    BY <2>1, <2>2 DEF Queue!Free, Queue!Tombstone
  <2>4. QueueOK(A \ {requests[k].name}, requests')
    BY <1>5, <1>6, <2>2, <2>3, QueueFree
  <2> QED
    BY <1>6, <2>1, <2>4 DEF Queue!Free
<1>14. newHints' = <<>> /\ external' = external /\ queueFull' = FALSE
  BY DEF VisitFinishedLoad, unchangedByVisit, ResetQueueFull
<1>15. HintsOK(rank, u.req, u.free, newHints')
  BY <1>14, NoHints
<1>16. /\ world' = world
       /\ Core(world, rank, persistCount, Tree', external', requests', newHints', pc', stack')
  BY <1>11, <1>12, <1>13, <1>14, <1>15, VisitDone
<1>17. PlainOK' /\ persistCount' = persistCount
  BY <1>13, <1>14, <1>16, InvFacts DEF PlainOK, unchangedByVisit, VisitFinishedLoad
<1> QED
  BY <1>16, <1>17, InvFacts, InvAfter

\* The walk goes down to the children.
LEMMA VisitChildrenKeeps ==
  ASSUME NEW rank, Inv(rank), VisitChildren
  PROVE  Inv(rank)'
<1>1. Visiting(PENDING) /\ req[Node].buffer /\ pc = "walk"
  BY DEF VisitChildren, Visiting
<1>2. stack' = Append(stack, req[Node].first) /\ pc' = pc
  BY DEF VisitChildren
<1>3. WalkOK(req, freelist, stack')
  <2>1. WalkOK(Tree.req, Tree.free, Append(stack, Tree.req[Node].first))
    BY <1>1, VisitAt, PushKeepsWalk, TreeParts
  <2> QED
    BY <1>2, <2>1, TreeParts
<1>4. Tree' = Tree /\ world' = world
  BY SameTreeVars DEF VisitChildren
<1>5. external' = external /\ requests' = requests /\ newHints' = newHints
      /\ persistCount' = persistCount
  BY DEF VisitChildren, workerVars, unchangedByVisit
<1>6. Walks(Tree, pc', stack')
  BY <1>1, <1>2, <1>3, TreeParts DEF Walks
<1>7. Core(world, rank, persistCount, Tree', external', requests', newHints', pc', stack')
  BY <1>4, <1>5, <1>6, InvFacts, TreeParts DEF Core
<1>8. PlainOK'
  BY <1>4, InvFacts DEF PlainOK, workerVars, unchangedByVisit, VisitChildren
<1> QED
  BY <1>4, <1>5, <1>7, <1>8, InvFacts, InvAfter

\* A resource that is in the table already.
LEMMA VisitAlreadyLoadedKeeps ==
  ASSUME NEW rank, Inv(rank), VisitAlreadyLoaded
  PROVE  Inv(rank)'
<1>1. /\ Visiting(PENDING) /\ ~req[Node].loading /\ ~req[Node].buffer
      /\ Loaded(Tree, PathOf(req[Node]))
  BY DEF VisitAlreadyLoaded, NotLoading
<1>2. Solvable(Tree, Node)
  BY <1>1, VisitAt, AtSolvable, TreeParts
<1>3. PICK t : t = RemoveFromParentPendingCount(RemoveChildren(Found(Tree, Node), Node), Node)
  OBVIOUS
<1>4. Solves(world, rank, persistCount, Tree, t, Node, external)
  BY <1>1, <1>2, <1>3, InvFacts, FoundEffect, TreeParts
<1>5. ResolveNode(t)
  BY <1>3 DEF VisitAlreadyLoaded
<1>6. UNCHANGED <<workerVars, queueFull, unchangedByVisit>>
  BY DEF VisitAlreadyLoaded
<1> QED
  BY <1>1, <1>2, <1>4, <1>5, <1>6, ResolvedVisit

\* A request that must wait.
LEMMA VisitWaitKeeps ==
  ASSUME NEW rank, Inv(rank), VisitWait
  PROVE  Inv(rank)'
<1>1. queueFull' \in BOOLEAN
  BY InvFacts DEF VisitWait, PlainOK
<1> QED
  BY <1>1, IdleVisit DEF VisitWait, Visiting

\* The load queue is full.
LEMMA VisitRefusedKeeps ==
  ASSUME NEW rank, Inv(rank), VisitRefused
  PROVE  Inv(rank)'
<1>1. queueFull' \in BOOLEAN
  BY DEF VisitRefused
<1> QED
  BY <1>1, IdleVisit DEF VisitRefused, Visiting

\* A request that begins to load joins those the load queue has.
LEMMA BusyLoads ==
  ASSUME NEW s, NEW t, NEW i \in Live(s.free), GetsBusy(s, t, i), t.req[i].loading
  PROVE  /\ Loaders(t.req, t.free) = Loaders(s.req, s.free) \cup {i}
         /\ \A k \in Nodes : t.req[k].name = s.req[k].name
<1>1. t.free = s.free /\ \A k \in Nodes : k # i => t.req[k] = s.req[k]
  BY DEF GetsBusy
<1>2. \A k \in Live(s.free) : k # i => t.req[k].loading = s.req[k].loading
  BY <1>1 DEF Live
<1> QED
  BY <1>1, <1>2 DEF GetsBusy, Loaders

\* A load is begun.
LEMMA VisitBeginLoadKeeps ==
  ASSUME NEW rank, Inv(rank), VisitBeginLoad
  PROVE  Inv(rank)'
<1>1. /\ Visiting(PENDING) /\ ~req[Node].loading /\ ~req[Node].buffer
      /\ world.fate[PathOf(req[Node])] # "untyped" /\ PathOf(req[Node]) \notin inProgress
  BY DEF VisitBeginLoad, Waits, NotLoading, MustWait, Fate
<1>2. Solvable(Tree, Node)
  BY <1>1, VisitAt, AtSolvable, TreeParts
<1>3. PICK t : t = MarkPathInProgress([Tree EXCEPT !.req[Node].loading = TRUE], Node)
  OBVIOUS
<1>4. /\ GetsBusy(Tree, t, Node) /\ t.req[Node].loading
      /\ Sound(world, rank, persistCount, t, external)
  BY <1>1, <1>2, <1>3, InvFacts, BeginEffect, TreeParts
<1>5. Tree' = t /\ world' = world
  <2>1. t \in TreeStates
    BY <1>4, SoundFacts
  <2> QED
    BY <1>3, <2>1, BecomesTree DEF VisitBeginLoad
<1>6. PICK A : A = Loaders(req, freelist)
  OBVIOUS
<1>7. /\ Loaders(t.req, t.free) = A \cup {Node} /\ \A k \in Nodes : t.req[k].name = req[k].name
  BY <1>1, <1>4, <1>6, VisitAt, BusyLoads, TreeParts
<1>8. QueueOK(A \cup {Node}, requests') /\ open' = open
  <2>1. Queue!Begin(Node)
    BY DEF VisitBeginLoad
  <2>2. requests' = Append(requests, [name |-> Node, status |-> "begun", answer |-> None,
                                      data |-> None])
    BY <2>1 DEF Queue!Begin, Queue!Begun
  <2>3. QueueOK(A, requests)
    BY <1>6, InvFacts
  <2>4. Node \notin A /\ Node \in Nodes
    BY <1>1, <1>6, VisitAt DEF Loaders
  <2>5. QueueOK(A \cup {Node}, requests')
    BY <2>2, <2>3, <2>4, QueueBegin
  <2> QED
    BY <2>1, <2>5 DEF Queue!Begin
<1>9. external' = external /\ newHints' = newHints /\ persistCount' = persistCount
  BY DEF VisitBeginLoad, unchangedByVisit
<1>10. HintsOK(rank, t.req, t.free, newHints)
  <2>1. HintsOK(rank, req, freelist, newHints)
    BY InvFacts
  <2>2. ASSUME NEW k \in 1 .. Len(newHints) PROVE HintOK(rank, t.req, t.free, newHints[k])
    <3>1. HintOK(rank, req, freelist, newHints[k])
      BY <2>1 DEF HintsOK
    <3>2. PICK p : p = newHints[k].parent
      OBVIOUS
    <3>3. p \in A /\ p \in Nodes
      BY <1>6, <3>1, <3>2 DEF HintOK, Loaders, Live
    <3>4. p \in Loaders(t.req, t.free) /\ PathOf(t.req[p]) = PathOf(req[p])
      BY <1>7, <3>3 DEF PathOf
    <3> QED
      BY <3>1, <3>2, <3>4 DEF HintOK
  <2> QED
    BY <2>1, <2>2 DEF HintsOK
<1>11. Walks(t, pc', stack')
  BY DEF VisitBeginLoad, ReturnTrue, Walks
<1>12. Core(world, rank, persistCount, Tree', external', requests', newHints', pc', stack')
  BY <1>4, <1>5, <1>7, <1>8, <1>9, <1>10, <1>11 DEF Core
<1>13. PlainOK'
  BY <1>5, <1>8, <1>9, InvFacts DEF PlainOK, unchangedByVisit, VisitBeginLoad
<1> QED
  BY <1>5, <1>9, <1>12, <1>13, InvFacts, InvAfter

\* Every visit keeps the invariant.
LEMMA VisitKeeps ==
  ASSUME NEW rank, Inv(rank), Visit
  PROVE  Inv(rank)'
BY VisitResolvedKeeps, VisitLoopKeeps, VisitUnknownTypeKeeps, VisitPendingLoadKeeps,
   VisitFinishedLoadKeeps, VisitChildrenKeeps, VisitAlreadyLoadedKeeps, VisitWaitKeeps,
   VisitBeginLoadKeeps, VisitRefusedKeeps DEF Visit

-----------------------------------------------------------------------------
(* The other steps of the main thread that leave the tree, and the worker. *)

\* A step that changes neither the tree nor the load queue nor the hints.
LEMMA FrameKeeps ==
  ASSUME NEW rank, Inv(rank), UNCHANGED treeVars,
         external' = external, requests' = requests, newHints' = newHints,
         persistCount' = persistCount, PlainOK', Walks(Tree, pc', stack')
  PROVE  Inv(rank)'
<1>1. Tree' = Tree /\ world' = world
  BY SameTreeVars
<1>2. Core(world, rank, persistCount, Tree', external', requests', newHints', pc', stack')
  BY <1>1, InvFacts, TreeParts DEF Core
<1> QED
  BY <1>1, <1>2, InvFacts, InvAfter

\* UpdatePreloader begins a walk at the root.
LEMMA StartWalkKeeps ==
  ASSUME NEW rank, Inv(rank), StartWalk
  PROVE  Inv(rank)'
<1>1. TreeOK(world, rank, persistCount, Tree) /\ freelist \in Seq(Nodes \ {0})
  BY InvFacts, SoundFacts, TreeFields, TreeParts
<1>2. 0 \in Live(freelist)
  BY <1>1, RootLive
<1>3. PICK st : st = <<0>>
  OBVIOUS
<1>4. st \in Seq(Nodes) /\ st # <<>> /\ st[1] = 0 /\ Len(st) = 1
  BY <1>3, NodesFinite
<1>5. OnPath(req, st)
  BY <1>4 DEF OnPath
<1>6. Gone(req, freelist, {})
  BY DEF Gone
<1>7. \A j \in 1 .. Len(st) : st[j] \in Live(freelist) \cup {}
  BY <1>2, <1>4
<1>8. \A j \in 1 .. (Len(st) - 1) : st[j + 1] \in Live(freelist) => req[st[j]].buffer
  BY <1>4
<1>9. WalkOK(req, freelist, st)
  BY <1>5, <1>6, <1>7, <1>8 DEF WalkOK
<1>10. Walks(Tree, pc', stack')
  BY <1>3, <1>9, TreeParts DEF Walks, StartWalk
<1>11. PlainOK'
  BY InvFacts DEF PlainOK, StartWalk, unchangedByVisit, workerVars, treeVars
<1> QED
  BY <1>10, <1>11, FrameKeeps DEF StartWalk, unchangedByVisit, workerVars

\* The main thread is not in a walk.
LEMMA NotWalking ==
  ASSUME NEW rank, Inv(rank), pc # "walk"
  PROVE  stack = <<>> /\ pc \in {"update", "walk", "hints"}
         /\ \A t : \A p \in {"update", "hints"} : Walks(t, p, stack)
BY InvFacts DEF Walks

\* The main thread waits for a PostCreate function.
LEMMA AwaitPostCreateKeeps ==
  ASSUME NEW rank, Inv(rank), AwaitPostCreate
  PROVE  Inv(rank)'
<1>1. pc = "update" /\ pc' = "hints" /\ stack' = stack
  BY DEF AwaitPostCreate, AtLoopHead
<1>2. Walks(Tree, pc', stack')
  BY <1>1, NotWalking
<1>3. PlainOK'
  BY InvFacts DEF PlainOK, AwaitPostCreate, unchangedByVisit, workerVars, treeVars
<1> QED
  BY <1>2, <1>3, FrameKeeps DEF AwaitPostCreate, unchangedByVisit, workerVars

\* DeletePreloader is called.
LEMMA DeletePreloaderKeeps ==
  ASSUME NEW rank, Inv(rank), DeletePreloader
  PROVE  Inv(rank)'
<1>1. Walks(Tree, pc', stack')
  BY InvFacts DEF DeletePreloader
<1>2. PlainOK'
  BY InvFacts DEF PlainOK, DeletePreloader, workerVars, treeVars
<1> QED
  BY <1>1, <1>2, FrameKeeps DEF DeletePreloader, workerVars

\* The hints are popped after a walk.
LEMMA PopHintsKeeps ==
  ASSUME NEW rank, Inv(rank), PopHintsAfterWalk
  PROVE  Inv(rank)'
<1>1. pc = "hints" /\ pc' = "update" /\ stack' = stack /\ newHints' = <<>>
      /\ requests' = requests /\ external' = external /\ persistCount' = persistCount
  BY DEF PopHintsAfterWalk, unchangedByVisit
<1>2. PICK t : t = PopHints(Tree, newHints)
  OBVIOUS
<1>3. HintsOK(rank, Tree.req, Tree.free, newHints)
  BY InvFacts, TreeParts
<1>4. Sound(world, rank, persistCount, t, external) /\ Grown(Tree, t)
  BY <1>2, <1>3, InvFacts, PopHintsEffect
<1>5. Tree' = t /\ world' = world
  <2>1. t \in TreeStates
    BY <1>4, SoundFacts
  <2> QED
    BY <1>2, <2>1, BecomesTree DEF PopHintsAfterWalk
<1>6. Loaders(t.req, t.free) = Loaders(req, freelist)
  BY <1>4, GrownLoads, TreeParts DEF HasLoads
<1>7. QueueOK(Loaders(t.req, t.free), requests')
  BY <1>1, <1>6, InvFacts
<1>8. HintsOK(rank, t.req, t.free, newHints')
  BY <1>1, NoHints
<1>9. Walks(t, pc', stack')
  BY <1>1, NotWalking
<1>10. Core(world, rank, persistCount, Tree', external', requests', newHints', pc', stack')
  BY <1>1, <1>4, <1>5, <1>7, <1>8, <1>9 DEF Core
<1>11. PlainOK'
  BY <1>5, InvFacts DEF PlainOK, PopHintsAfterWalk, unchangedByVisit
<1> QED
  BY <1>1, <1>5, <1>10, <1>11, InvFacts, InvAfter

\* The request that the worker loads, and its path.
LEMMA LoadedRequest ==
  ASSUME NEW rank, Inv(rank), NEW k \in DOMAIN requests, requests[k].status = "begun"
  PROVE  /\ requests \in Seq(QueueRequests) /\ k \in 1 .. Len(requests)
         /\ requests[k].name \in Loaders(req, freelist) /\ requests[k].name \in Nodes
         /\ PathOfLoad(k) \in Paths
<1>1. QueueOK(Loaders(req, freelist), requests)
  BY InvFacts
<1>2. requests \in Seq(QueueRequests) /\ DOMAIN requests = 1 .. Len(requests)
  BY <1>1, LenProperties DEF QueueOK
<1>3. PICK i : i = requests[k].name
  OBVIOUS
<1>4. i \in Loaders(req, freelist)
  BY <1>1, <1>2, <1>3 DEF QueueOK
<1>5. i \in Live(freelist) /\ i \in Nodes /\ req[i].loading
  BY <1>4 DEF Loaders, Live
<1>6. NodeOK(world, rank, req, freelist, i)
  BY <1>5, InvFacts, SoundFacts, TreeParts DEF TreeOK
<1>7. req[i].name \notin Malformed
  BY <1>5, <1>6 DEF NodeOK
<1>8. req[i].name \in Names
  <2>1. req \in [Nodes -> Requests]
    BY InvFacts, SoundFacts, TreeParts
  <2> QED
    BY <1>5, <2>1 DEF Requests
<1>9. PathOf(req[i]) \in Paths
  BY <1>7, <1>8, NamesAssumption DEF PathOf
<1> QED
  BY <1>2, <1>3, <1>4, <1>5, <1>9 DEF PathOfLoad

\* The worker's preload function gives a hint.
LEMMA PreloadHintKeeps ==
  ASSUME NEW rank, Inv(rank), NEW k \in DOMAIN requests, PreloadHint(k)
  PROVE  Inv(rank)'
<1>1. requests[k].status = "begun" /\ hinted \in Nat
  BY InvFacts DEF PreloadHint, Loading, PlainOK
<1>2. PICK i : i = requests[k].name
  OBVIOUS
<1>3. PICK p \in Paths : p = PathOf(req[i])
  BY <1>1, <1>2, LoadedRequest DEF PathOfLoad
<1>4. i \in Loaders(req, freelist) /\ i \in Nodes
  BY <1>1, <1>2, LoadedRequest
<1>5. Refs(p) \in Seq(Names)
  BY InvFacts DEF WorldOK, TypedWorld, Refs
<1>6. hinted < Len(Refs(p))
  BY <1>2, <1>3 DEF PreloadHint, PathOfLoad
<1>7. PICK n \in 1 .. Len(Refs(p)) : n = hinted + 1
  <2>1. Len(Refs(p)) \in Nat
    BY <1>5, LenProperties
  <2> QED
    BY <1>1, <1>6, <2>1
<1>8. PICK name \in Names : name = Refs(p)[n]
  BY <1>5, ElementOfSeq
<1>9. name \in ToSet(Refs(p))
  <2>1. DOMAIN Refs(p) = 1 .. Len(Refs(p))
    BY <1>5, LenProperties
  <2> QED
    BY <1>8, <2>1 DEF ToSet
<1>10. newHints' = IF name \in Malformed THEN newHints
                   ELSE Append(newHints, [parent |-> i, name |-> name])
  BY <1>2, <1>3, <1>7, <1>8 DEF PreloadHint, PathOfLoad
<1>11. HintsOK(rank, req, freelist, newHints)
  BY InvFacts
<1>12. HintsOK(rank, req, freelist, newHints')
  <2>1. CASE name \in Malformed
    BY <1>10, <1>11, <2>1
  <2>2. CASE name \notin Malformed
    <3>1. rank[CanonicalPath[name]] < rank[p]
      BY <1>9, <2>2, InvFacts DEF WorldOK, RefsDescend
    <3>2. PICK h : h = [parent |-> i, name |-> name]
      OBVIOUS
    <3>3. h \in [parent : Nodes, name : Names] /\ h.parent = i /\ h.name = name
      BY <1>4, <3>2
    <3>4. HintOK(rank, req, freelist, h)
      BY <1>3, <1>4, <2>2, <3>1, <3>3 DEF HintOK
    <3>5. newHints \in Seq([parent : Nodes, name : Names])
      BY <1>11 DEF HintsOK
    <3>6. PICK z : z = Append(newHints, h)
      OBVIOUS
    <3>7. /\ z \in Seq([parent : Nodes, name : Names]) /\ Len(z) = Len(newHints) + 1
          /\ \A j \in 1 .. Len(newHints) : z[j] = newHints[j]
          /\ z[Len(newHints) + 1] = h
      BY <3>3, <3>5, <3>6, AppendProperties
    <3>8. Len(newHints) \in Nat
      BY <3>5, LenProperties
    <3>9. ASSUME NEW j \in 1 .. Len(z) PROVE HintOK(rank, req, freelist, z[j])
      <4>1. j \in 1 .. Len(newHints) \/ j = Len(newHints) + 1
        BY <3>7, <3>8
      <4>2. \A m \in 1 .. Len(newHints) : HintOK(rank, req, freelist, newHints[m])
        BY <1>11 DEF HintsOK
      <4> QED
        BY <3>4, <3>7, <4>1, <4>2
    <3>10. HintsOK(rank, req, freelist, z)
      BY <3>7, <3>9 DEF HintsOK
    <3> QED
      BY <1>10, <2>2, <3>2, <3>6, <3>10
  <2> QED
    BY <2>1, <2>2
<1>13. Tree' = Tree /\ world' = world
  BY SameTreeVars DEF PreloadHint
<1>14. UNCHANGED <<pc, stack, requests, external, persistCount>>
  BY DEF PreloadHint, loopVars
<1>15. Core(world, rank, persistCount, Tree', external', requests', newHints', pc', stack')
  BY <1>12, <1>13, <1>14, InvFacts, TreeParts DEF Core
<1>16. PlainOK'
  <2>1. hinted' \in Nat
    BY <1>1 DEF PreloadHint
  <2> QED
    BY <1>13, <2>1, InvFacts DEF PlainOK, PreloadHint, loopVars
<1> QED
  BY <1>13, <1>14, <1>15, <1>16, InvFacts, InvAfter

\* The worker answers a load.
LEMMA WorkerAnswerKeeps ==
  ASSUME NEW rank, Inv(rank), NEW k \in DOMAIN requests, WorkerAnswer(k)
  PROVE  Inv(rank)'
<1>1. requests[k].status = "begun"
  BY DEF WorkerAnswer, Loading
<1>2. k \in 1 .. Len(requests) /\ requests[k].name \in Nodes
  BY <1>1, LoadedRequest
<1>3. PICK a \in AnswerOf(PathOfLoad(k), hinted) : Queue!Answer(k, a)
  BY DEF WorkerAnswer
<1>4. a \in Results
  <2>1. PICK path : path = PathOfLoad(k)
    OBVIOUS
  <2>2. AnswerOf(path, hinted) \subseteq Results
    BY DEF AnswerOf, Results
  <2> QED
    BY <1>3, <2>1, <2>2
<1>5. PICK b \in Nodes \cup {None} : b = IF a = "RESULT_OK" THEN requests[k].name ELSE None
  BY <1>2
<1>6. /\ requests' = [requests EXCEPT ![k].status = "answered", ![k].answer = a, ![k].data = b]
      /\ open' = open
  BY <1>3, <1>5 DEF Queue!Answer
<1>7. PICK A : A = Loaders(req, freelist)
  OBVIOUS
<1>8. QueueOK(A, requests)
  BY <1>7, InvFacts
<1>9. QueueOK(A, requests')
  BY <1>1, <1>2, <1>4, <1>6, <1>8, QueueAnswer
<1>10. Tree' = Tree /\ world' = world
  BY SameTreeVars DEF WorkerAnswer
<1>11. UNCHANGED <<pc, stack, newHints, external, persistCount>>
  BY DEF WorkerAnswer, loopVars
<1>12. Core(world, rank, persistCount, Tree', external', requests', newHints', pc', stack')
  BY <1>7, <1>9, <1>10, <1>11, InvFacts, TreeParts DEF Core
<1>13. PlainOK'
  <2>1. hinted' \in Nat
    BY DEF WorkerAnswer
  <2> QED
    BY <1>6, <1>10, <2>1, InvFacts DEF PlainOK, WorkerAnswer, loopVars
<1> QED
  BY <1>10, <1>11, <1>12, <1>13, InvFacts, InvAfter

-----------------------------------------------------------------------------
(* Steps of the factory: references are taken and given back. *)

\* What is known of a tree does not depend on the factory.
LEMMA SameTreeOK ==
  ASSUME NEW w, NEW rank, NEW count, NEW s, TreeOK(w, rank, count, s), NEW t, SameTree(s, t)
  PROVE  TreeOK(w, rank, count, t)
BY DEF TreeOK, SameTree

\* Some references are no longer counted: they are in hand.
LEMMA TakenInHand ==
  ASSUME NEW s \in TreeStates, NEW c \in TreeStates, NEW ext \in SUBSET Names,
         NEW left \in SUBSET Names, NEW more \in Seq(Paths), Accounts(s, ext, <<>>),
         c.res = s.res, c.abort = s.abort,
         \A p \in Paths : UsedAt(ext, s.req, s.free, s.persisted, s.post, p) =
                            UsedAt(left, c.req, c.free, c.persisted, c.post, p) + Times(p, more)
  PROVE  Accounts(c, left, more)
<1>1. /\ s.persisted \in Seq(Paths) /\ s.post \in Seq(Callbacks)
      /\ c.persisted \in Seq(Paths) /\ c.post \in Seq(Callbacks)
  BY TreeFields
<1>2. Used(ext, s.req, s.free, s.persisted, s.post) =
        Plus(Used(left, c.req, c.free, c.persisted, c.post), more)
  <2>1. PICK R, F, P, C : R = s.req /\ F = s.free /\ P = s.persisted /\ C = s.post
    OBVIOUS
  <2>2. PICK R1, F1, P1, C1 : R1 = c.req /\ F1 = c.free /\ P1 = c.persisted /\ C1 = c.post
    OBVIOUS
  <2>3. P \in Seq(Paths) /\ C \in Seq(Callbacks) /\ P1 \in Seq(Paths) /\ C1 \in Seq(Callbacks)
    BY <1>1, <2>1, <2>2
  <2>4. \A p \in Paths : UsedAt(ext, R, F, P, C, p) = UsedAt(left, R1, F1, P1, C1, p) + Times(p, more)
    BY <2>1, <2>2
  <2>5. Used(ext, R, F, P, C) = Plus(Used(left, R1, F1, P1, C1), more)
    BY <2>3, <2>4, UsedMore
  <2> QED
    BY <2>1, <2>2, <2>5
<1>3. Exact(Factory(s), Plus(Used(left, c.req, c.free, c.persisted, c.post), more))
  BY <1>2, AccountsNothing
<1>4. Factory(c) \in FactoryStates /\ Factory(c).res = Factory(s).res /\ Factory(c).abort = Factory(s).abort
  BY FactoryOf
<1>5. Exact(Factory(c), Plus(Used(left, c.req, c.free, c.persisted, c.post), more))
  BY <1>3, <1>4, ExactOtherPost
<1> QED
  BY <1>5 DEF Accounts

\* What is in hand is given back.
LEMMA GivenBack ==
  ASSUME NEW c \in TreeStates, NEW ext \in SUBSET Names, NEW paths \in Seq(Paths),
         Accounts(c, ext, paths)
  PROVE  SameTree(c, ReleaseAll(c, paths)) /\ Accounts(ReleaseAll(c, paths), ext, <<>>)
<1>1. PICK u : u = Used(ext, c.req, c.free, c.persisted, c.post)
  OBVIOUS
<1>2. u \in Users
  BY <1>1, AccountsNothing
<1>3. Exact(Factory(c), Plus(u, paths))
  BY <1>1 DEF Accounts
<1>4. PICK t : t = ReleaseAll(c, paths)
  OBVIOUS
<1>5. /\ t \in TreeStates /\ Exact(Factory(t), u) /\ SameCallbacks(c.post, t.post)
      /\ t.req = c.req /\ t.free = c.free /\ t.inProgress = c.inProgress
      /\ t.persisted = c.persisted
  BY <1>2, <1>3, <1>4, ReleaseAllExact
<1>6. c.post \in Seq(Callbacks) /\ t.post \in Seq(Callbacks)
  BY <1>5, TreeFields
<1>7. Used(ext, t.req, t.free, t.persisted, t.post) = u
  <2>1. Used(ext, c.req, c.free, c.persisted, c.post) = Used(ext, c.req, c.free, c.persisted, t.post)
    BY <1>5, <1>6, UsedSameCallbacks
  <2> QED
    BY <1>1, <1>5, <2>1
<1>8. Accounts(t, ext, <<>>)
  BY <1>5, <1>7, AccountsNothing
<1> QED
  BY <1>4, <1>5, <1>8 DEF SameTree

\* One user of a name more.
LEMMA OneMoreUser ==
  ASSUME NEW ext \in SUBSET Names, NEW name \in Names, name \notin ext,
         NEW R, NEW F, NEW P \in Seq(Paths), NEW c \in Seq(Callbacks)
  PROVE  \A p \in Paths : UsedAt(ext \cup {name}, R, F, P, c, p) =
                            UsedAt(ext, R, F, P, c, p) + Times(p, <<CanonicalPath[name]>>)
<1> SUFFICES ASSUME NEW p \in Paths
             PROVE  UsedAt(ext \cup {name}, R, F, P, c, p) =
                      UsedAt(ext, R, F, P, c, p) + Times(p, <<CanonicalPath[name]>>)
  OBVIOUS
<1>1. PICK x \in Paths : x = CanonicalPath[name]
  BY NamesAssumption
<1>2. Times(p, <<x>>) = IF x = p THEN 1 ELSE 0
  BY TimesSingle
<1>3. IsFiniteSet(ExternalAt(ext, p)) /\ Cardinality(ExternalAt(ext, p)) \in Nat
  BY UsedType
<1>4. Cardinality(ExternalAt(ext \cup {name}, p)) =
        Cardinality(ExternalAt(ext, p)) + (IF x = p THEN 1 ELSE 0)
  <2>1. CASE x = p
    <3>1. ExternalAt(ext \cup {name}, p) = ExternalAt(ext, p) \cup {name} /\ name \notin ExternalAt(ext, p)
      BY <1>1, <2>1 DEF ExternalAt
    <3>2. Cardinality(ExternalAt(ext, p) \cup {name}) = Cardinality(ExternalAt(ext, p)) + 1
      BY <1>3, <3>1, FS_AddElement
    <3> QED
      BY <2>1, <3>1, <3>2
  <2>2. CASE x # p
    <3>1. ExternalAt(ext \cup {name}, p) = ExternalAt(ext, p)
      BY <1>1, <2>2 DEF ExternalAt
    <3> QED
      BY <1>3, <2>2, <3>1
  <2> QED
    BY <2>1, <2>2
<1>5. PICK d \in Nat : d = IF x = p THEN 1 ELSE 0
  OBVIOUS
<1>6. PICK n1 \in Nat : n1 = Cardinality(NodesAt(R, F, p))
  BY UsedType
<1>7. PICK n2 \in Nat : n2 = Times(p, P)
  BY UsedType
<1>8. PICK n3 \in Nat : n3 = Cardinality(DoomedHoldersOf(c, p))
  BY UsedType
<1>9. PICK n0 \in Nat : n0 = Cardinality(ExternalAt(ext, p))
  BY <1>3
<1>10. UsedAt(ext \cup {name}, R, F, P, c, p) = (n0 + d) + n1 + n2 + n3
  BY <1>4, <1>5, <1>6, <1>7, <1>8, <1>9 DEF UsedAt
<1>11. UsedAt(ext, R, F, P, c, p) = n0 + n1 + n2 + n3
  BY <1>6, <1>7, <1>8, <1>9 DEF UsedAt
<1>12. Times(p, <<CanonicalPath[name]>>) = d
  BY <1>1, <1>2, <1>5
<1> QED
  BY <1>10, <1>11, <1>12

\* A step outside the walk that leaves every request where it is and what it is for.
LEMMA QuietKeeps ==
  ASSUME NEW rank, Inv(rank), pc # "walk", NEW t, Becomes(t),
         TreeOK(world, rank, persistCount, t), Accounts(t, external', <<>>),
         external' \in SUBSET Names, t.free = freelist,
         \A k \in Nodes : t.req[k].name = req[k].name /\ t.req[k].loading = req[k].loading,
         UNCHANGED <<pc, stack, requests, newHints, persistCount>>, PlainOK'
  PROVE  Inv(rank)'
<1>1. Sound(world, rank, persistCount, t, external')
  BY DEF Sound
<1>2. Tree' = t /\ world' = world
  BY <1>1, SoundFacts, BecomesTree
<1>3. HasLoads(Tree, t, Loaders(Tree.req, Tree.free))
  BY TreeParts DEF HasLoads, Loaders, Live
<1>4. QueueOK(Loaders(t.req, t.free), requests')
  BY <1>3, InvFacts, TreeParts DEF HasLoads
<1>5. HintsOK(rank, t.req, t.free, newHints')
  <2>1. HintsOK(rank, Tree.req, Tree.free, newHints)
    BY InvFacts, TreeParts
  <2>2. HintsOK(rank, t.req, t.free, newHints)
    BY <1>3, <2>1, HintsKept
  <2> QED
    BY <2>2
<1>6. Walks(t, pc', stack')
  BY InvFacts DEF Walks
<1>7. Core(world, rank, persistCount, Tree', external', requests', newHints', pc', stack')
  BY <1>1, <1>2, <1>4, <1>5, <1>6 DEF Core
<1> QED
  BY <1>2, <1>7, InvFacts, InvAfter

\* Another user gets a resource.
LEMMA ExternalGetKeeps ==
  ASSUME NEW rank, Inv(rank), NEW name \in ExternalNames, ExternalGet(name)
  PROVE  Inv(rank)'
<1>1. pc = "update" /\ name \notin external /\ name \in Names
  BY PreloaderAssumption DEF ExternalGet, BetweenUpdates
<1>2. /\ TreeOK(world, rank, persistCount, Tree) /\ Tree \in TreeStates
      /\ Accounts(Tree, external, <<>>) /\ external \in SUBSET Names
  BY InvFacts, SoundFacts
<1>3. PICK ext \in SUBSET Names : ext = external
  BY <1>2
<1>4. PICK R, F, P, C : R = req /\ F = freelist /\ P = persisted /\ C = post
  OBVIOUS
<1>5. P \in Seq(Paths) /\ C \in Seq(Callbacks)
  BY <1>2, <1>4, TreeFields, TreeParts
<1>6. PICK u \in Users : u = Used(ext, R, F, P, C)
  BY <1>5, UsedType
<1>7. Exact(Factory(Tree), u)
  BY <1>2, <1>3, <1>4, <1>6, AccountsNothing, TreeParts
<1>8. PICK got : got = Get(Factory(Tree), name, <<>>)
  OBVIOUS
<1>9. Gets(rank, got, Factory(Tree), u, name)
  <2>1. TypedWorld /\ RefsDescend(rank)
    BY InvFacts DEF WorldOK
  <2>2. <<>> \in Seq(Names)
    OBVIOUS
  <2> QED
    BY <1>1, <1>7, <1>8, <2>1, <2>2, GetExact
<1>10. /\ got.ok => Exact(got.f, Plus(u, <<CanonicalPath[name]>>))
       /\ ~got.ok => Exact(got.f, u)
       /\ SameCallbacks(C, got.f.post)
  BY <1>2, <1>4, <1>9, FactoryOf, TreeParts DEF Gets
<1>11. got.f \in FactoryStates
  BY <1>10 DEF Exact, Sane
<1>12. PICK t : t = WithFactory(Tree, got.f)
  OBVIOUS
<1>13. /\ t \in TreeStates /\ Factory(t) = got.f /\ t.req = R /\ t.free = F
       /\ t.inProgress = inProgress /\ t.persisted = P /\ t.post = got.f.post
  BY <1>2, <1>4, <1>11, <1>12, WithFactoryFields, TreeParts
<1>14. SameTree(Tree, t)
  BY <1>4, <1>13, TreeParts DEF SameTree
<1>15. TreeOK(world, rank, persistCount, t)
  BY <1>2, <1>14, SameTreeOK
<1>16. PICK c \in Seq(Callbacks) : c = t.post
  BY <1>13, TreeFields
<1>17. SameCallbacks(C, c)
  BY <1>10, <1>13, <1>16
<1>18. external' = (IF got.ok THEN ext \cup {name} ELSE ext) /\ Becomes(t)
  BY <1>3, <1>8, <1>12 DEF ExternalGet, Gotten
<1>19. external' \in SUBSET Names
  BY <1>1, <1>18
<1>20. Exact(Factory(t), Used(external', R, F, P, c))
  <2>1. PICK more \in SUBSET Names : more = external'
    BY <1>19
  <2>2. Used(more, R, F, P, c) = Used(more, R, F, P, C)
    BY <1>5, <1>17, UsedSameCallbacks
  <2>3. CASE got.ok
    <3>1. more = ext \cup {name}
      BY <1>18, <2>1, <2>3
    <3>2. <<CanonicalPath[name]>> \in Seq(Paths)
      BY <1>1, NamesAssumption
    <3>3. PICK one \in Seq(Paths) : one = <<CanonicalPath[name]>>
      BY <3>2
    <3>4. \A p \in Paths : UsedAt(more, R, F, P, C, p) = UsedAt(ext, R, F, P, C, p) + Times(p, one)
      <4>1. name \notin ext
        BY <1>1, <1>3
      <4>2. \A p \in Paths : UsedAt(ext \cup {name}, R, F, P, C, p) =
                               UsedAt(ext, R, F, P, C, p) + Times(p, <<CanonicalPath[name]>>)
        BY <1>1, <1>5, <4>1, OneMoreUser
      <4> QED
        BY <3>1, <3>3, <4>2
    <3>5. Used(more, R, F, P, C) = Plus(Used(ext, R, F, P, C), one)
      BY <1>5, <3>4, UsedMore
    <3> QED
      BY <1>6, <1>10, <1>13, <2>1, <2>2, <2>3, <3>3, <3>5
  <2>4. CASE ~got.ok
    BY <1>6, <1>10, <1>13, <1>18, <2>1, <2>2, <2>4
  <2> QED
    BY <2>3, <2>4
<1>21. Accounts(t, external', <<>>)
  BY <1>13, <1>16, <1>19, <1>20, AccountsNothing
<1>22. UNCHANGED <<pc, stack, requests, newHints, persistCount>>
  BY DEF ExternalGet, loopVars, workerVars
<1>23. PlainOK'
  BY <1>18, InvFacts DEF PlainOK, ExternalGet, loopVars, workerVars, Becomes
<1>24. t.free = freelist /\ t.req = req
  BY <1>4, <1>13
<1> QED
  BY <1>1, <1>15, <1>18, <1>19, <1>21, <1>22, <1>23, <1>24, QuietKeeps

\* Another user releases a resource.
LEMMA ExternalReleaseKeeps ==
  ASSUME NEW rank, Inv(rank), NEW name \in ExternalNames, ExternalRelease(name)
  PROVE  Inv(rank)'
<1>1. pc = "update" /\ name \in external /\ name \in Names
  BY PreloaderAssumption DEF ExternalRelease, BetweenUpdates
<1>2. /\ TreeOK(world, rank, persistCount, Tree) /\ Tree \in TreeStates
      /\ Accounts(Tree, external, <<>>) /\ external \in SUBSET Names
  BY InvFacts, SoundFacts
<1>3. PICK left \in SUBSET Names : left = external \ {name}
  BY <1>2
<1>4. PICK one \in Seq(Paths) : one = <<CanonicalPath[name]>>
  <2>1. <<CanonicalPath[name]>> \in Seq(Paths)
    BY <1>1, NamesAssumption
  <2> QED
    BY <2>1
<1>5. \A p \in Paths : UsedAt(external, Tree.req, Tree.free, Tree.persisted, Tree.post, p) =
                         UsedAt(left, Tree.req, Tree.free, Tree.persisted, Tree.post, p)
                         + Times(p, one)
  <2>1. Tree.persisted \in Seq(Paths) /\ Tree.post \in Seq(Callbacks)
    BY <1>2, TreeFields
  <2>2. name \notin left /\ left \cup {name} = external
    BY <1>1, <1>3
  <2>3. PICK R, F, P, C : R = Tree.req /\ F = Tree.free /\ P = Tree.persisted /\ C = Tree.post
    OBVIOUS
  <2>4. P \in Seq(Paths) /\ C \in Seq(Callbacks)
    BY <2>1, <2>3
  <2>5. \A p \in Paths : UsedAt(left \cup {name}, R, F, P, C, p) =
                           UsedAt(left, R, F, P, C, p) + Times(p, <<CanonicalPath[name]>>)
    BY <1>1, <2>2, <2>4, OneMoreUser
  <2> QED
    BY <1>4, <2>2, <2>3, <2>5
<1>6. Accounts(Tree, left, one)
  BY <1>2, <1>5, TakenInHand
<1>7. PICK t : t = ReleaseAll(Tree, one)
  OBVIOUS
<1>8. SameTree(Tree, t) /\ Accounts(t, left, <<>>)
  BY <1>2, <1>6, <1>7, GivenBack
<1>9. TreeOK(world, rank, persistCount, t)
  BY <1>2, <1>8, SameTreeOK
<1>10. external' = left /\ Becomes(t)
  BY <1>3, <1>4, <1>7 DEF ExternalRelease
<1>11. UNCHANGED <<pc, stack, requests, newHints, persistCount>>
  BY DEF ExternalRelease, loopVars, workerVars
<1>12. PlainOK'
  BY <1>10, InvFacts DEF PlainOK, ExternalRelease, loopVars, workerVars, Becomes
<1>13. t.free = freelist /\ t.req = req
  BY <1>8, TreeParts DEF SameTree
<1> QED
  BY <1>1, <1>8, <1>9, <1>10, <1>11, <1>12, <1>13, QuietKeeps

-----------------------------------------------------------------------------
(* Steps that change the result of the root. *)

\* The root has another result, or gives up its resource; it was resolved before, and is now,
\* or nothing has changed.
RootChanges(s, c) ==
  /\ c \in TreeStates /\ \A k \in Nodes : k # 0 => c.req[k] = s.req[k]
  /\ SameLinks(c.req[0], s.req[0]) /\ c.req[0].name = s.req[0].name
  /\ c.req[0].pending = s.req[0].pending
  /\ c.req[0].loading = s.req[0].loading /\ c.req[0].buffer = s.req[0].buffer
  /\ c.req[0].result = PENDING <=> s.req[0].result = PENDING
  /\ c.req[0].result # LOOP
  /\ c.req[0].resource => s.req[0].resource
  /\ c.free = s.free /\ c.inProgress = s.inProgress

\* The tree stays as it must be.
LEMMA RootChangesTree ==
  ASSUME NEW w, NEW rank, NEW count, NEW s, TreeOK(w, rank, count, s), NEW c, RootChanges(s, c),
         PersistRoom(count, c.free, c.persisted)
  PROVE  TreeOK(w, rank, count, c)
<1>1. PICK R, F, Q : R = s.req /\ F = s.free /\ Q = c.req
  OBVIOUS
<1>2. Shape(R, F) /\ 0 \in Nodes /\ \A j \in Live(F) : NodeOK(w, rank, R, F, j)
  BY <1>1, NodesFinite DEF TreeOK
<1>3. /\ \A k \in Nodes : k # 0 => Q[k] = R[k]
      /\ SameLinks(Q[0], R[0]) /\ Q[0].name = R[0].name /\ Q[0].pending = R[0].pending
      /\ Q[0].loading = R[0].loading /\ Q[0].buffer = R[0].buffer
      /\ Q[0].result = PENDING <=> R[0].result = PENDING
      /\ Q[0].result # LOOP /\ (Q[0].resource => R[0].resource) /\ c.free = F
  BY <1>1 DEF RootChanges
<1>4. Shape(Q, F) /\ \A i : Kids(Q, F, i) = Kids(R, F, i)
  <2>1. \A k \in Nodes : SameLinks(Q[k], R[k])
    BY <1>3 DEF SameLinks
  <2> QED
    BY <1>2, <2>1, SameShape
<1>5. \A k \in Nodes : /\ Q[k].name = R[k].name /\ Q[k].parent = R[k].parent /\ PathOf(Q[k]) = PathOf(R[k])
                       /\ Q[k].pending = R[k].pending /\ Q[k].loading = R[k].loading
                       /\ Q[k].buffer = R[k].buffer /\ (Q[k].resource => R[k].resource)
                       /\ (Q[k].result = PENDING <=> R[k].result = PENDING)
  BY <1>3 DEF PathOf, SameLinks
<1>6. \A i : PendingKids(Q, F, i) = PendingKids(R, F, i)
  <2>1. \A k \in Live(F) : Q[k].result = PENDING <=> R[k].result = PENDING
    BY <1>5 DEF Live
  <2> QED
    BY <1>4, <2>1 DEF PendingKids, Kids
<1>7. ASSUME NEW j \in Live(F) PROVE NodeOK(w, rank, Q, F, j)
  <2>0. j \in Nodes
    BY DEF Live
  <2>1. NodeOK(w, rank, R, F, j)
    BY <1>2
  <2>2. Q[j].pending = Cardinality(PendingKids(Q, F, j))
    BY <1>5, <1>6, <2>0, <2>1 DEF NodeOK
  <2>3. j # 0 => Descends(rank, Q, j)
    <3>1. SUFFICES ASSUME j # 0 PROVE Descends(rank, Q, j)
      OBVIOUS
    <3>2. Descends(rank, R, j)
      BY <2>1, <3>1 DEF NodeOK
    <3>3. R[j].parent \in Nodes
      BY <1>2, <3>1, ParentLive DEF Live
    <3> QED
      BY <1>5, <2>0, <3>2, <3>3 DEF Descends
  <2>4. ~Q[j].buffer => \A k \in Kids(Q, F, j) : Pristine(Q, F, k)
    <3>1. SUFFICES ASSUME ~R[j].buffer, NEW k \in Kids(R, F, j) PROVE Pristine(Q, F, k)
      BY <1>4, <1>5, <2>0
    <3>2. Pristine(R, F, k) /\ k \in Nodes
      BY <2>1, <3>1 DEF NodeOK, Kids, Live
    <3> QED
      BY <1>4, <1>5, <3>2 DEF Pristine
  <2>5. Q[j].result # LOOP
    <3>1. R[j].result # LOOP
      BY <2>1 DEF NodeOK
    <3> QED
      BY <1>3, <2>0, <3>1
  <2>6. PICK q, r, kids : q = Q[j] /\ r = R[j] /\ kids = Kids(R, F, j)
    OBVIOUS
  <2>7. /\ r.result # PENDING => kids = {} /\ ~r.loading /\ ~r.buffer
        /\ r.result = PENDING => ~r.resource /\ r.name \notin Malformed
        /\ r.resource => r.name \notin Malformed
        /\ r.loading => ~r.buffer
        /\ r.buffer => kids # {}
        /\ r.loading \/ r.buffer => w.fate[PathOf(r)] # "untyped"
        /\ kids # {} =>
             r.loading \/ r.buffer \/ (j = 0 /\ w.fate[PathOf(r)] # "untyped")
    BY <2>1, <2>6 DEF NodeOK
  <2>8. /\ q.name = r.name /\ PathOf(q) = PathOf(r) /\ q.loading = r.loading
        /\ q.buffer = r.buffer /\ (q.resource => r.resource)
        /\ (q.result = PENDING <=> r.result = PENDING)
    BY <1>5, <2>0, <2>6
  <2>9. /\ q.result # PENDING => kids = {} /\ ~q.loading /\ ~q.buffer
        /\ q.result = PENDING => ~q.resource /\ q.name \notin Malformed
        /\ q.resource => q.name \notin Malformed
        /\ q.loading => ~q.buffer
        /\ q.buffer => kids # {}
        /\ q.loading \/ q.buffer => w.fate[PathOf(q)] # "untyped"
        /\ kids # {} =>
             q.loading \/ q.buffer \/ (j = 0 /\ w.fate[PathOf(q)] # "untyped")
    BY <2>7, <2>8
  <2> QED
    BY <1>4, <2>2, <2>3, <2>4, <2>5, <2>6, <2>9 DEF NodeOK
<1>8. ProgressOK(Q, F, c.inProgress)
  <2>1. PICK I : I = s.inProgress
    OBVIOUS
  <2>2. /\ I = {PathOf(R[k]) : k \in Busy(R, F)}
        /\ \A k, j \in Busy(R, F) : PathOf(R[k]) = PathOf(R[j]) => k = j
    BY <1>1, <2>1 DEF TreeOK, ProgressOK
  <2>3. Busy(Q, F) = Busy(R, F)
    BY <1>5 DEF Busy, Live
  <2>4. \A k \in Busy(R, F) : PathOf(Q[k]) = PathOf(R[k])
    BY <1>5 DEF Busy, Live
  <2>5. c.inProgress = I
    BY <2>1 DEF RootChanges
  <2> QED
    BY <2>2, <2>3, <2>4, <2>5 DEF ProgressOK
<1>9. Q[0].result = PENDING => 1 .. (count - 1) \subseteq Kids(Q, F, 0)
  BY <1>1, <1>3, <1>4 DEF TreeOK
<1>10. \A k \in Nodes \ Live(F) : Q[k].pending = 0
  <2>1. \A k \in Nodes \ Live(F) : R[k].pending = 0
    BY <1>1 DEF TreeOK
  <2> QED
    BY <1>5, <2>1
<1>11. c \in TreeStates
  BY DEF RootChanges
<1>12. \A j \in Live(F) : NodeOK(w, rank, Q, F, j)
  BY <1>7
<1> QED
  BY <1>1, <1>3, <1>4, <1>8, <1>9, <1>10, <1>11, <1>12 DEF TreeOK

\* The root is given another result, the callbacks and the persisted resources are replaced.
WithRoot(s, x, b, P, C) ==
  [s EXCEPT !.req = [s.req EXCEPT ![0] = [s.req[0] EXCEPT !.result = x, !.resource = b]],
            !.persisted = P, !.post = C]

\* What that changes.
LEMMA RootSet ==
  ASSUME NEW s \in TreeStates, NEW x \in NodeResults, NEW b \in BOOLEAN,
         NEW P \in Seq(Paths), NEW C \in Seq(Callbacks),
         x = PENDING <=> s.req[0].result = PENDING, x # LOOP, b => s.req[0].resource,
         NEW c, c = WithRoot(s, x, b, P, C)
  PROVE  /\ RootChanges(s, c) /\ c.persisted = P /\ c.post = C /\ c.res = s.res /\ c.abort = s.abort
         /\ c.req[0].resource = b /\ c.req[0].result = x
         /\ \A k \in Nodes : c.req[k].name = s.req[k].name /\ c.req[k].loading = s.req[k].loading
<1>1. s.req \in [Nodes -> Requests] /\ 0 \in Nodes
  BY TreeFields, NodesFinite
<1>2. PICK v \in Requests : v = s.req[0]
  BY <1>1
<1>3. PICK r : r = [v EXCEPT !.result = x, !.resource = b]
  OBVIOUS
<1>5. PICK Q : Q = [s.req EXCEPT ![0] = r]
  OBVIOUS
<1>7. c = [s EXCEPT !.req = Q, !.persisted = P, !.post = C]
  BY <1>2, <1>3, <1>5 DEF WithRoot
<1>4. /\ r \in Requests /\ r.result = x /\ r.resource = b /\ r.name = v.name /\ r.parent = v.parent
      /\ r.first = v.first /\ r.next = v.next /\ r.pending = v.pending
      /\ r.loading = v.loading /\ r.buffer = v.buffer
  BY <1>3 DEF Requests
<1>6. Q \in [Nodes -> Requests] /\ Q[0] = r /\ \A k \in Nodes : k # 0 => Q[k] = s.req[k]
  BY <1>1, <1>4, <1>5
<1>8. /\ c \in TreeStates /\ c.req = Q /\ c.persisted = P /\ c.post = C /\ c.res = s.res
      /\ c.abort = s.abort /\ c.free = s.free /\ c.inProgress = s.inProgress
  BY <1>6, <1>7 DEF TreeStates
<1>9. RootChanges(s, c)
  BY <1>2, <1>4, <1>6, <1>8 DEF RootChanges, SameLinks
<1> QED
  BY <1>2, <1>4, <1>6, <1>8, <1>9

\* The result of the root is one of those a request may have, and not a loop.
LEMMA RootResult ==
  ASSUME NEW w, NEW rank, NEW count, NEW s, TreeOK(w, rank, count, s)
  PROVE  /\ s.req[0].result \in NodeResults \ {LOOP} /\ s.req[0].resource \in BOOLEAN
         /\ 0 \in Nodes /\ 0 \in Live(s.free)
         /\ s.req[0].resource => s.req[0].name \notin Malformed /\ PathOf(s.req[0]) \in Paths
<1>1. s \in TreeStates
  BY DEF TreeOK
<1>2. s.req \in [Nodes -> Requests] /\ s.free \in Seq(Nodes \ {0}) /\ 0 \in Nodes
  BY <1>1, TreeFields, NodesFinite
<1>3. 0 \in Live(s.free)
  BY <1>2, RootLive
<1>4. NodeOK(w, rank, s.req, s.free, 0)
  BY <1>3 DEF TreeOK
<1>5. PICK r \in Requests : r = s.req[0]
  BY <1>2
<1>6. r.result \in NodeResults /\ r.resource \in BOOLEAN /\ r.name \in Names
  BY DEF Requests
<1>7. r.result # LOOP /\ (r.resource => r.name \notin Malformed)
  BY <1>4, <1>5 DEF NodeOK
<1>8. r.resource => PathOf(r) \in Paths
  BY <1>6, <1>7, NamesAssumption DEF PathOf
<1> QED
  BY <1>2, <1>3, <1>5, <1>6, <1>7, <1>8

\* The first callback is taken off the queue; "refs" are the references to give back.
TakesCallback(s, c, refs) ==
  /\ RootChanges(s, c) /\ s \in TreeStates /\ c.persisted = s.persisted
  /\ c.req[0].resource = s.req[0].resource /\ s.post # <<>> /\ c.post = Tail(s.post)
  /\ refs = IF Head(s.post).destroy THEN Head(s.post).refs ELSE <<>>

\* They were those of the instance that is to be destroyed; now they are in hand.
LEMMA CallbackInHand ==
  ASSUME NEW s, NEW c, NEW refs, TakesCallback(s, c, refs), NEW ext \in SUBSET Names,
         Accounts(s, ext, <<>>), c.res = s.res, c.abort = s.abort
  PROVE  refs \in Seq(Paths) /\ Accounts(c, ext, refs)
<1>1. PICK R, F, P, C : R = s.req /\ F = s.free /\ P = s.persisted /\ C = s.post
  OBVIOUS
<1>2. P \in Seq(Paths) /\ C \in Seq(Callbacks) /\ C # <<>>
  BY <1>1, TreeFields DEF TakesCallback
<1>3. PICK Q, D : Q = c.req /\ D = c.post
  OBVIOUS
<1>4. D = Tail(C) /\ c.free = F /\ c.persisted = P
  BY <1>1, <1>3 DEF RootChanges, TakesCallback
<1>5. D \in Seq(Callbacks) /\ Head(C).refs \in Seq(Paths)
  <2>1. Tail(C) \in Seq(Callbacks) /\ Head(C) \in Callbacks
    BY <1>2, HeadTailProperties
  <2> QED
    BY <1>4, <2>1 DEF Callbacks
<1>6. refs = (IF Head(C).destroy THEN Head(C).refs ELSE <<>>) /\ refs \in Seq(Paths)
  <2>1. <<>> \in Seq(Paths)
    OBVIOUS
  <2> QED
    BY <1>1, <1>5, <2>1 DEF TakesCallback
<1>7. ASSUME NEW p \in Paths
      PROVE  UsedAt(ext, R, F, P, C, p) = UsedAt(ext, Q, F, P, D, p) + Times(p, refs)
  <2>1. Cardinality(DoomedHoldersOf(C, p)) =
          Cardinality(DoomedHoldersOf(Tail(C), p))
          + Times(p, IF Head(C).destroy THEN Head(C).refs ELSE <<>>)
    BY <1>2, DoomedTail
  <2>2. NodesAt(Q, F, p) = NodesAt(R, F, p)
    <3>1. \A k \in Nodes : Q[k].resource = R[k].resource /\ PathOf(Q[k]) = PathOf(R[k])
      BY <1>1, <1>3 DEF RootChanges, PathOf, TakesCallback
    <3> QED
      BY <3>1 DEF NodesAt, Live
  <2>3. PICK a \in Nat, b \in Nat, e \in Nat, m \in Nat :
          /\ a = Cardinality(ExternalAt(ext, p)) /\ b = Cardinality(NodesAt(R, F, p))
          /\ e = Times(p, P) /\ m = Cardinality(DoomedHoldersOf(D, p))
    BY <1>2, <1>5, UsedType
  <2>4. PICK x \in Nat : x = Times(p, refs)
    BY <1>6, TimesType
  <2>5. Cardinality(DoomedHoldersOf(C, p)) = m + x
    BY <1>4, <1>6, <2>1, <2>3, <2>4
  <2>6. a + b + e + (m + x) = (a + b + e + m) + x
    OBVIOUS
  <2>7. UsedAt(ext, R, F, P, C, p) = a + b + e + (m + x)
    BY <2>3, <2>5 DEF UsedAt
  <2>8. UsedAt(ext, Q, F, P, D, p) = a + b + e + m
    BY <2>2, <2>3 DEF UsedAt
  <2> QED
    BY <2>4, <2>6, <2>7, <2>8
<1>8. \A p \in Paths : UsedAt(ext, s.req, s.free, s.persisted, s.post, p) =
                         UsedAt(ext, c.req, c.free, c.persisted, c.post, p) + Times(p, refs)
  BY <1>1, <1>3, <1>4, <1>7
<1>9. s \in TreeStates /\ c \in TreeStates
  BY DEF TakesCallback, RootChanges
<1> QED
  BY <1>6, <1>8, <1>9, TakenInHand

\* The first callback is taken off the queue, and its result counts.
AfterCallback(s, result) ==
  [s EXCEPT !.post = Tail(@), !.req[0].result = IF @ = OK THEN result ELSE @]

\* Only the root and the callbacks change.
LEMMA AfterCallbackIs ==
  ASSUME NEW s \in TreeStates, NEW result, NEW x, x = IF s.req[0].result = OK THEN result ELSE s.req[0].result
  PROVE  AfterCallback(s, result) = WithRoot(s, x, s.req[0].resource, s.persisted, Tail(s.post))
<1>1. s.req \in [Nodes -> Requests] /\ 0 \in Nodes
  BY TreeFields, NodesFinite
<1>2. PICK v \in Requests : v = s.req[0]
  BY <1>1
<1>3. PICK r : r = [v EXCEPT !.result = x]
  OBVIOUS
<1>4. r = [v EXCEPT !.result = x, !.resource = v.resource]
  BY <1>3 DEF Requests
<1>5. PICK Q : Q = [s.req EXCEPT ![0] = r]
  OBVIOUS
<1>6. AfterCallback(s, result) = [s EXCEPT !.req = Q, !.post = Tail(s.post)]
  BY <1>1, <1>2, <1>3, <1>5 DEF AfterCallback, TreeStates
<1>7. WithRoot(s, x, s.req[0].resource, s.persisted, Tail(s.post))
        = [s EXCEPT !.req = Q, !.persisted = s.persisted, !.post = Tail(s.post)]
  BY <1>2, <1>4, <1>5 DEF WithRoot
<1>8. [s EXCEPT !.req = Q, !.post = Tail(s.post)]
        = [s EXCEPT !.req = Q, !.persisted = s.persisted, !.post = Tail(s.post)]
  BY DEF TreeStates
<1> QED
  BY <1>6, <1>7, <1>8

\* A PostCreate function is called, and the instance destroyed if it is not needed.
LEMMA PostCreateKeeps ==
  ASSUME NEW rank, Inv(rank), PostCreateUpdateOneItem
  PROVE  Inv(rank)'
<1>0. PICK result \in {OK, "RESULT_FORMAT_ERROR"} : result = PostCreateResult(Head(Tree.post).path)
  BY DEF PostCreateResult
<1>1. pc = "update" /\ post # <<>>
  BY DEF PostCreateUpdateOneItem, PostCreateDue, AtLoopHead
<1>2. /\ TreeOK(world, rank, persistCount, Tree) /\ Tree \in TreeStates
      /\ Accounts(Tree, external, <<>>) /\ external \in SUBSET Names
  BY InvFacts, SoundFacts
<1>3. /\ Tree.req[0].result \in NodeResults \ {LOOP} /\ Tree.req[0].resource \in BOOLEAN
      /\ 0 \in Nodes
  BY <1>2, RootResult
<1>4. PICK x : x = IF Tree.req[0].result = OK THEN result ELSE Tree.req[0].result
  OBVIOUS
<1>5. x \in NodeResults /\ x # LOOP /\ (x = PENDING <=> Tree.req[0].result = PENDING)
  BY <1>3, <1>4 DEF NodeResults, Results, OK, LOOP, PENDING
<1>6. PICK b \in BOOLEAN : b = Tree.req[0].resource
  BY <1>3
<1>8. Tree.persisted \in Seq(Paths) /\ Tree.post \in Seq(Callbacks) /\ Tail(Tree.post) \in Seq(Callbacks)
      /\ Tree.req \in [Nodes -> Requests]
  <2>1. Tree.persisted \in Seq(Paths) /\ Tree.post \in Seq(Callbacks) /\ Tree.req \in [Nodes -> Requests]
    BY <1>2, TreeFields
  <2> QED
    BY <1>1, <2>1, HeadTailProperties, TreeParts
<1>90. PICK P \in Seq(Paths) : P = Tree.persisted
  BY <1>8
<1>91. PICK C \in Seq(Callbacks) : C = Tail(Tree.post)
  BY <1>8
<1>9. PICK c : c = WithRoot(Tree, x, b, P, C)
  OBVIOUS
<1>10. /\ RootChanges(Tree, c) /\ c.persisted = Tree.persisted /\ c.post = Tail(Tree.post)
       /\ c.res = Tree.res /\ c.abort = Tree.abort /\ c.req[0].resource = b
       /\ \A k \in Nodes : c.req[k].name = Tree.req[k].name /\ c.req[k].loading = Tree.req[k].loading
  <2>1. /\ RootChanges(Tree, c) /\ c.persisted = P /\ c.post = C
        /\ c.res = Tree.res /\ c.abort = Tree.abort /\ c.req[0].resource = b
        /\ \A k \in Nodes : c.req[k].name = Tree.req[k].name /\ c.req[k].loading = Tree.req[k].loading
    <3>1. PICK s \in TreeStates : s = Tree
      BY <1>2
    <3>2. /\ x = PENDING <=> s.req[0].result = PENDING
          /\ x # LOOP /\ (b => s.req[0].resource)
      BY <1>5, <1>6, <3>1
    <3>3. c = WithRoot(s, x, b, P, C)
      BY <1>9, <3>1
    <3>4. x \in NodeResults
      BY <1>5
    <3>5. /\ RootChanges(s, c) /\ c.persisted = P /\ c.post = C
          /\ c.res = s.res /\ c.abort = s.abort /\ c.req[0].resource = b
          /\ \A k \in Nodes : c.req[k].name = s.req[k].name /\ c.req[k].loading = s.req[k].loading
      BY <3>2, <3>3, <3>4, RootSet
    <3> QED
      BY <3>1, <3>5
  <2> QED
    BY <1>90, <1>91, <2>1
<1>11. c = AfterCallback(Tree, result)
  BY <1>2, <1>4, <1>6, <1>9, <1>90, <1>91, AfterCallbackIs
<1>12. PICK refs : refs = IF Head(Tree.post).destroy THEN Head(Tree.post).refs ELSE <<>>
  OBVIOUS
<1>13. refs \in Seq(Paths) /\ Accounts(c, external, refs)
  <2>1. PICK ext \in SUBSET Names : ext = external
    BY <1>2
  <2>2. c.req[0].resource = Tree.req[0].resource /\ Tree.post # <<>>
    BY <1>1, <1>6, <1>10, TreeParts
  <2>3. RootChanges(Tree, c) /\ c.persisted = Tree.persisted /\ c.post = Tail(Tree.post)
    BY <1>10
  <2>4. PICK s : s = Tree
    OBVIOUS
  <2>5. /\ RootChanges(s, c) /\ s \in TreeStates /\ c.persisted = s.persisted
        /\ c.req[0].resource = s.req[0].resource /\ s.post # <<>> /\ c.post = Tail(s.post)
    BY <1>2, <2>2, <2>3, <2>4
  <2>6. TakesCallback(s, c, refs)
    BY <1>12, <2>4, <2>5 DEF TakesCallback
  <2>7. Accounts(s, ext, <<>>) /\ c.res = s.res /\ c.abort = s.abort
    BY <1>2, <1>10, <2>1, <2>4
  <2>8. refs \in Seq(Paths) /\ Accounts(c, ext, refs)
    BY <2>6, <2>7, CallbackInHand
  <2> QED
    BY <2>1, <2>8
<1>14. c \in TreeStates /\ c.free = freelist
  BY <1>10, TreeParts DEF RootChanges
<1>16. TreeOK(world, rank, persistCount, c)
  <2>1. PersistRoom(persistCount, c.free, c.persisted)
    BY <1>2, <1>10, <1>14, TreeParts DEF TreeOK
  <2> QED
    BY <1>2, <1>10, <2>1, RootChangesTree
<1>17. PICK t : t = ReleaseAll(c, refs)
  OBVIOUS
<1>18. SameTree(c, t) /\ Accounts(t, external, <<>>)
  BY <1>2, <1>13, <1>14, <1>17, GivenBack
<1>19. TreeOK(world, rank, persistCount, t)
  BY <1>16, <1>18, SameTreeOK
<1>20. Becomes(t) /\ external' = external
  BY <1>0, <1>11, <1>12, <1>17, TreeParts DEF PostCreateUpdateOneItem, AfterCallback
<1>21. UNCHANGED <<pc, stack, requests, newHints, persistCount>>
  BY DEF PostCreateUpdateOneItem, loopVars, workerVars
<1>22. PlainOK'
  BY <1>20, InvFacts DEF PlainOK, PostCreateUpdateOneItem, loopVars, workerVars, Becomes
<1>23. t.free = freelist /\ \A k \in Nodes : t.req[k].name = req[k].name /\ t.req[k].loading = req[k].loading
  BY SMTT(60), <1>10, <1>14, <1>18, TreeParts DEF SameTree
<1> QED
  BY <1>1, <1>2, <1>18, <1>19, <1>20, <1>21, <1>22, <1>23, QuietKeeps

\* The root is given another result, and nothing else changes.
LEMMA ResultSet ==
  ASSUME NEW s \in TreeStates, NEW x \in NodeResults,
         x = PENDING <=> s.req[0].result = PENDING, x # LOOP
  PROVE  LET c == WithRoot(s, x, s.req[0].resource, s.persisted, s.post)
         IN  /\ RootChanges(s, c) /\ c.persisted = s.persisted /\ c.post = s.post
             /\ c.res = s.res /\ c.abort = s.abort
             /\ c.req = [s.req EXCEPT ![0].result = x]
             /\ \A k \in Nodes : /\ c.req[k].name = s.req[k].name
                                 /\ c.req[k].loading = s.req[k].loading
                                 /\ c.req[k].resource = s.req[k].resource
<1>1. s.req \in [Nodes -> Requests] /\ 0 \in Nodes /\ s.persisted \in Seq(Paths) /\ s.post \in Seq(Callbacks)
  BY TreeFields, NodesFinite
<1>2. PICK v \in Requests : v = s.req[0]
  BY <1>1
<1>3. PICK b \in BOOLEAN : b = s.req[0].resource
  BY <1>2 DEF Requests
<1>4. PICK P \in Seq(Paths) : P = s.persisted
  BY <1>1
<1>5. PICK C \in Seq(Callbacks) : C = s.post
  BY <1>1
<1>6. PICK c : c = WithRoot(s, x, b, P, C)
  OBVIOUS
<1>7. b => s.req[0].resource
  BY <1>3
<1>8. /\ RootChanges(s, c) /\ c.persisted = P /\ c.post = C /\ c.res = s.res /\ c.abort = s.abort
      /\ c.req[0].resource = b
      /\ \A k \in Nodes : c.req[k].name = s.req[k].name /\ c.req[k].loading = s.req[k].loading
  BY <1>6, <1>7, RootSet
<1>9. \A k \in Nodes : c.req[k].resource = s.req[k].resource
  BY <1>3, <1>8 DEF RootChanges
<1>10. c.req = [s.req EXCEPT ![0].result = x]
  <2>1. PICK r : r = [v EXCEPT !.result = x]
    OBVIOUS
  <2>2. r = [v EXCEPT !.result = x, !.resource = b]
    BY <1>2, <1>3, <2>1 DEF Requests
  <2>3. PICK Q : Q = [s.req EXCEPT ![0] = r]
    OBVIOUS
  <2>4. [s.req EXCEPT ![0].result = x] = Q
    BY <1>1, <1>2, <2>1, <2>3
  <2>5. c = [s EXCEPT !.req = Q, !.persisted = P, !.post = C]
    BY <1>2, <1>6, <2>2, <2>3 DEF WithRoot
  <2>6. c.req = Q
    BY <2>5 DEF TreeStates
  <2> QED
    BY <2>4, <2>6
<1>11. c = WithRoot(s, x, s.req[0].resource, s.persisted, s.post)
  BY <1>3, <1>4, <1>5, <1>6
<1> QED
  BY <1>4, <1>5, <1>8, <1>9, <1>10, <1>11

\* The complete callback is called, and its result counts.
LEMMA CompleteCallbackKeeps ==
  ASSUME NEW rank, Inv(rank), NEW succeeds \in BOOLEAN, CompleteCallback(succeeds)
  PROVE  Inv(rank)'
<1>1. /\ pc = "update" /\ createComplete' = TRUE
      /\ UNCHANGED <<world, freelist, inProgress, persisted, post, res, abort, pc, stack, phase,
                     queueFull, persistCount, workerVars, external>>
  BY DEF CompleteCallback, AtLoopHead
<1>2. /\ TreeOK(world, rank, persistCount, Tree) /\ Tree \in TreeStates
      /\ Accounts(Tree, external, <<>>) /\ external \in SUBSET Names
  BY InvFacts, SoundFacts
<1>3. /\ Tree.req[0].result \in NodeResults \ {LOOP} /\ 0 \in Nodes
  BY <1>2, RootResult
<1>4. PICK x : x = IF Tree.req[0].result = OK /\ phase = "running" /\ ~succeeds
                   THEN "RESULT_NOT_LOADED" ELSE Tree.req[0].result
  OBVIOUS
<1>5. x \in NodeResults /\ x # LOOP /\ (x = PENDING <=> Tree.req[0].result = PENDING)
  BY <1>3, <1>4 DEF NodeResults, Results, OK, LOOP, PENDING
<1>6. PICK c : c = WithRoot(Tree, x, Tree.req[0].resource, Tree.persisted, Tree.post)
  OBVIOUS
<1>7. /\ RootChanges(Tree, c) /\ c.persisted = Tree.persisted /\ c.post = Tree.post
      /\ c.res = Tree.res /\ c.abort = Tree.abort
      /\ c.req = [Tree.req EXCEPT ![0].result = x]
      /\ \A k \in Nodes : /\ c.req[k].name = Tree.req[k].name
                          /\ c.req[k].loading = Tree.req[k].loading
                          /\ c.req[k].resource = Tree.req[k].resource
  <2>1. PICK s \in TreeStates : s = Tree
    BY <1>2
  <2>2. x \in NodeResults
    BY <1>5
  <2>3. x # LOOP /\ (x = PENDING <=> s.req[0].result = PENDING)
    BY <1>5, <2>1
  <2>4. c = WithRoot(s, x, s.req[0].resource, s.persisted, s.post)
    BY <1>6, <2>1
  <2>5. /\ RootChanges(s, c) /\ c.persisted = s.persisted /\ c.post = s.post
        /\ c.res = s.res /\ c.abort = s.abort
        /\ c.req = [s.req EXCEPT ![0].result = x]
        /\ \A k \in Nodes : /\ c.req[k].name = s.req[k].name
                            /\ c.req[k].loading = s.req[k].loading
                            /\ c.req[k].resource = s.req[k].resource
    BY <2>2, <2>3, <2>4, ResultSet
  <2> QED
    BY <2>1, <2>5
<1>8. req' = c.req
  <2>1. req' = [req EXCEPT ![0].result = x]
    BY <1>4, TreeParts DEF CompleteCallback
  <2> QED
    BY <1>7, <2>1, TreeParts
<1>9. c.free = freelist /\ c.inProgress = inProgress /\ c.free = Tree.free
  BY <1>7, TreeParts DEF RootChanges
<1>10. Becomes(c)
  BY <1>1, <1>7, <1>8, <1>9, TreeParts DEF Becomes
<1>11. TreeOK(world, rank, persistCount, c)
  <2>1. PersistRoom(persistCount, c.free, c.persisted)
    BY <1>2, <1>7, <1>9 DEF TreeOK
  <2> QED
    BY <1>2, <1>7, <2>1, RootChangesTree
<1>12. Accounts(c, external', <<>>) /\ external' \in SUBSET Names
  <2>1. \A k \in Live(Tree.free) : c.req[k].name = Tree.req[k].name /\ c.req[k].resource = Tree.req[k].resource
    BY <1>7 DEF Live
  <2>2. Accounts(c, external, <<>>)
    BY <1>2, <1>7, <1>9, <2>1, AccountsSame
  <2> QED
    BY <1>1, <1>2, <2>2
<1>13. UNCHANGED <<pc, stack, requests, newHints, persistCount>>
  BY <1>1 DEF workerVars
<1>14. PlainOK'
  BY <1>1, InvFacts DEF PlainOK, workerVars
<1>15. \A k \in Nodes : c.req[k].name = req[k].name /\ c.req[k].loading = req[k].loading
  BY <1>7, TreeParts
<1> QED
  BY <1>1, <1>9, <1>10, <1>11, <1>12, <1>13, <1>14, <1>15, QuietKeeps

\* What the root and the list of persisted resources hold.
RootAndPersisted(s) ==
  IF s.req[0].resource THEN Append(s.persisted, PathOf(s.req[0])) ELSE s.persisted

\* The root gives up its resource, and the list of persisted resources is emptied.
GivesUpAll(s, c) ==
  /\ s \in TreeStates /\ RootChanges(s, c) /\ ~c.req[0].resource
  /\ c.persisted = <<>> /\ c.post = s.post /\ c.res = s.res /\ c.abort = s.abort

\* Then their references are in hand.
LEMMA AllInHand ==
  ASSUME NEW s, NEW c, GivesUpAll(s, c), s.req[0].resource => PathOf(s.req[0]) \in Paths,
         0 \in Live(s.free), NEW ext \in SUBSET Names, Accounts(s, ext, <<>>)
  PROVE  RootAndPersisted(s) \in Seq(Paths) /\ Accounts(c, ext, RootAndPersisted(s))
<1>1. PICK R, F, P, C : R = s.req /\ F = s.free /\ P = s.persisted /\ C = s.post
  OBVIOUS
<1>2. P \in Seq(Paths) /\ C \in Seq(Callbacks) /\ 0 \in Live(F)
  BY <1>1, TreeFields DEF GivesUpAll
<1>3. PICK Q : Q = c.req
  OBVIOUS
<1>4. c.free = F /\ c.post = C /\ c.persisted = <<>>
  BY <1>1 DEF GivesUpAll, RootChanges
<1>5. /\ \A k \in Live(F) : PathOf(Q[k]) = PathOf(R[k])
      /\ \A k \in Live(F) \ {0} : Q[k].resource = R[k].resource
      /\ ~Q[0].resource
  <2>1. \A k \in Nodes : k # 0 => Q[k] = R[k]
    BY <1>1, <1>3 DEF GivesUpAll, RootChanges
  <2>2. Q[0].name = R[0].name /\ ~Q[0].resource
    BY <1>1, <1>3 DEF GivesUpAll, RootChanges
  <2> QED
    BY <2>1, <2>2 DEF PathOf, Live
<1>6. PICK more : more = RootAndPersisted(s)
  OBVIOUS
<1>7. /\ R[0].resource => PathOf(R[0]) \in Paths /\ more = Append(P, PathOf(R[0]))
      /\ ~R[0].resource => more = P
  BY <1>1, <1>6 DEF RootAndPersisted
<1>8. more \in Seq(Paths)
  <2>1. CASE R[0].resource
    <3>1. PICK q \in Paths : q = PathOf(R[0])
      BY <1>7, <2>1
    <3>2. Append(P, q) \in Seq(Paths)
      BY <1>2, AppendProperties
    <3> QED
      BY <1>7, <2>1, <3>1, <3>2
  <2> QED
    BY <1>2, <1>7, <2>1
<1>9. <<>> \in Seq(Paths)
  OBVIOUS
<1>10. ASSUME NEW p \in Paths
       PROVE  UsedAt(ext, R, F, P, C, p) = UsedAt(ext, Q, F, <<>>, C, p) + Times(p, more)
  <2>1. PICK e \in Nat, t \in Nat, d \in Nat, n \in Nat :
          /\ e = Cardinality(ExternalAt(ext, p)) /\ t = Times(p, P)
          /\ d = Cardinality(DoomedHoldersOf(C, p)) /\ n = Cardinality(NodesAt(Q, F, p))
    BY <1>2, UsedType
  <2>2. IsFiniteSet(NodesAt(Q, F, p))
    BY <1>2, UsedType
  <2>3. UsedAt(ext, Q, F, <<>>, C, p) = e + n + 0 + d
    BY <2>1, TimesEmpty DEF UsedAt
  <2>4. CASE R[0].resource /\ PathOf(R[0]) = p
    <3>1. NodesAt(R, F, p) = NodesAt(Q, F, p) \cup {0} /\ 0 \notin NodesAt(Q, F, p)
      BY <1>2, <1>5, <2>4 DEF NodesAt
    <3>2. Cardinality(NodesAt(R, F, p)) = n + 1
      BY <2>1, <2>2, <3>1, FS_AddElement
    <3>3. Times(p, more) = t + 1
      BY <1>2, <1>7, <2>1, <2>4, TimesAppend
    <3>4. e + (n + 1) + t + d = (e + n + 0 + d) + (t + 1)
      OBVIOUS
    <3> QED
      BY <2>1, <2>3, <3>2, <3>3, <3>4 DEF UsedAt
  <2>5. CASE ~(R[0].resource /\ PathOf(R[0]) = p)
    <3>1. NodesAt(R, F, p) = NodesAt(Q, F, p)
      BY <1>2, <1>5, <2>5 DEF NodesAt
    <3>2. Times(p, more) = t
      <4>1. CASE R[0].resource
        <5>1. PICK q \in Paths : q = PathOf(R[0])
          BY <1>7, <4>1
        <5>2. Times(p, Append(P, q)) = Times(p, P) + 0
          BY <1>2, <2>5, <4>1, <5>1, TimesAppend
        <5>3. more = Append(P, q)
          BY <1>7, <4>1, <5>1
        <5>4. t + 0 = t
          OBVIOUS
        <5> QED
          BY <2>1, <5>2, <5>3, <5>4
      <4>2. CASE ~R[0].resource
        BY <1>7, <2>1, <4>2
      <4> QED
        BY <4>1, <4>2
    <3>3. e + n + t + d = (e + n + 0 + d) + t
      OBVIOUS
    <3> QED
      BY <2>1, <2>3, <3>1, <3>2, <3>3 DEF UsedAt
  <2> QED
    BY <2>4, <2>5
<1>11. \A p \in Paths : UsedAt(ext, s.req, s.free, s.persisted, s.post, p) =
                          UsedAt(ext, c.req, c.free, c.persisted, c.post, p) + Times(p, more)
  BY <1>1, <1>3, <1>4, <1>10
<1>12. s \in TreeStates /\ c \in TreeStates /\ c.res = s.res /\ c.abort = s.abort
  BY DEF GivesUpAll, RootChanges
<1>13. Accounts(c, ext, more)
  BY <1>8, <1>11, <1>12, TakenInHand
<1> QED
  BY <1>6, <1>8, <1>13

\* DeletePreloader's change of the tree.
Stripped(s) == [s EXCEPT !.persisted = <<>>, !.req[0].resource = FALSE]

\* The root and the list hold nothing any more.
LEMMA StrippedGivesUp ==
  ASSUME NEW s \in TreeStates, s.req[0].result # LOOP
  PROVE  /\ GivesUpAll(s, Stripped(s))
         /\ \A k \in Nodes : /\ Stripped(s).req[k].name = s.req[k].name
                             /\ Stripped(s).req[k].loading = s.req[k].loading
<1>1. s.req \in [Nodes -> Requests] /\ 0 \in Nodes
  BY TreeFields, NodesFinite
<1>2. PICK v \in Requests : v = s.req[0]
  BY <1>1
<1>3. PICK r : r = [v EXCEPT !.resource = FALSE]
  OBVIOUS
<1>4. PICK Q : Q = [s.req EXCEPT ![0] = r]
  OBVIOUS
<1>5. PICK c : c = Stripped(s)
  OBVIOUS
<1>6. c = [s EXCEPT !.persisted = <<>>, !.req = Q]
  BY <1>1, <1>2, <1>3, <1>4, <1>5 DEF Stripped, TreeStates
<1>7. /\ r \in Requests /\ r.result = v.result /\ ~r.resource /\ r.name = v.name /\ r.parent = v.parent
      /\ r.first = v.first /\ r.next = v.next /\ r.pending = v.pending
      /\ r.loading = v.loading /\ r.buffer = v.buffer
  BY <1>3 DEF Requests
<1>8. Q \in [Nodes -> Requests] /\ Q[0] = r /\ \A k \in Nodes : k # 0 => Q[k] = s.req[k]
  BY <1>1, <1>4, <1>7
<1>9. <<>> \in Seq(Paths)
  OBVIOUS
<1>10. /\ c \in TreeStates /\ c.req = Q /\ c.persisted = <<>> /\ c.post = s.post /\ c.res = s.res
       /\ c.abort = s.abort /\ c.free = s.free /\ c.inProgress = s.inProgress
  BY <1>6, <1>8, <1>9 DEF TreeStates
<1>11. RootChanges(s, c)
  BY <1>2, <1>7, <1>8, <1>10 DEF RootChanges, SameLinks
<1>12. GivesUpAll(s, c)
  BY <1>7, <1>8, <1>10, <1>11 DEF GivesUpAll
<1> QED
  BY <1>2, <1>5, <1>7, <1>8, <1>10, <1>12

\* When the root is resolved every other request is free.
LEMMA AllFree ==
  ASSUME NEW w, NEW rank, NEW count, NEW s, TreeOK(w, rank, count, s), s.req[0].result # PENDING
  PROVE  Live(s.free) = {0} /\ Len(s.free) = MAX_PRELOADER_REQUESTS - 1
<1>1. NodeOK(w, rank, s.req, s.free, 0)
  BY RootResult DEF TreeOK
<1>2. Kids(s.req, s.free, 0) = {}
  BY <1>1 DEF NodeOK
<1>3. Shape(s.req, s.free) /\ FreeOK(s.free)
  BY DEF TreeOK, Shape
<1>4. Live(s.free) = {0}
  BY <1>2, <1>3, RootAlone
<1>5. Cardinality(Live(s.free)) + Len(s.free) = MAX_PRELOADER_REQUESTS /\ Len(s.free) \in Nat
  BY <1>3, FreeCount
<1>6. Cardinality({0}) = 1
  BY FS_Singleton
<1> QED
  BY <1>4, <1>5, <1>6, PreloaderAssumption

\* DeletePreloader releases what the preloader holds; its assert holds.
LEMMA ReleaseRootKeeps ==
  ASSUME NEW rank, Inv(rank), ReleaseRootAndPersisted
  PROVE  Inv(rank)'
<1>1. /\ pc = "update" /\ Resolved /\ phase' = "deleted" /\ open' = FALSE /\ requests' = requests
      /\ UNCHANGED <<pc, stack, createComplete, queueFull, persistCount, hinted, newHints, external>>
  BY DEF ReleaseRootAndPersisted, AllDone, AtLoopHead, Queue!Close
<1>2. /\ TreeOK(world, rank, persistCount, Tree) /\ Tree \in TreeStates
      /\ Accounts(Tree, external, <<>>) /\ external \in SUBSET Names
  BY InvFacts, SoundFacts
<1>3. /\ Tree.req[0].result # LOOP /\ 0 \in Live(Tree.free)
      /\ (Tree.req[0].resource => PathOf(Tree.req[0]) \in Paths)
  BY <1>2, RootResult
<1>4. Tree.req[0].result # PENDING
  BY <1>1, TreeParts DEF Resolved
<1>5. PICK c : c = Stripped(Tree)
  OBVIOUS
<1>6. /\ GivesUpAll(Tree, c)
      /\ \A k \in Nodes : c.req[k].name = Tree.req[k].name /\ c.req[k].loading = Tree.req[k].loading
  BY <1>2, <1>3, <1>5, StrippedGivesUp
<1>7. RootAndPersisted(Tree) \in Seq(Paths) /\ Accounts(c, external, RootAndPersisted(Tree))
  BY <1>2, <1>3, <1>6, AllInHand
<1>8. RootChanges(Tree, c) /\ c \in TreeStates /\ c.free = Tree.free /\ c.persisted = <<>>
  BY <1>6 DEF GivesUpAll, RootChanges
<1>9. Live(Tree.free) = {0} /\ Len(Tree.free) = MAX_PRELOADER_REQUESTS - 1
  BY <1>2, <1>4, AllFree
<1>10. PersistRoom(persistCount, c.free, c.persisted)
  <2>1. persistCount \in Nat \ {0}
    BY <1>2 DEF TreeOK, PersistRoom
  <2>2. Live(c.free) \cap 1 .. (persistCount - 1) = {}
    BY <1>8, <1>9
  <2>3. Len(<<>>) = 0 /\ Cardinality({}) = 0
    BY FS_EmptySet
  <2>4. PICK m \in Nat \ {0} : m = persistCount
    BY <2>1
  <2>5. 0 + 0 <= m - 1
    OBVIOUS
  <2>6. Len(c.persisted) + Cardinality(Live(c.free) \cap 1 .. (persistCount - 1)) = 0 + 0
    BY <1>8, <2>2, <2>3
  <2> QED
    BY <2>1, <2>4, <2>5, <2>6 DEF PersistRoom
<1>11. TreeOK(world, rank, persistCount, c)
  BY <1>2, <1>8, <1>10, RootChangesTree
<1>12. PICK t : t = ReleaseAll(c, RootAndPersisted(Tree))
  OBVIOUS
<1>13. SameTree(c, t) /\ Accounts(t, external, <<>>)
  BY <1>2, <1>7, <1>8, <1>12, GivenBack
<1>14. TreeOK(world, rank, persistCount, t)
  BY <1>11, <1>13, SameTreeOK
<1>15. Becomes(t)
  <2>1. Becomes(Require(t, Len(freelist) = MAX_PRELOADER_REQUESTS - 1, "DeletePreloader"))
    BY <1>5, <1>12, TreeParts DEF ReleaseRootAndPersisted, Stripped, RootAndPersisted
  <2>2. Require(t, Len(freelist) = MAX_PRELOADER_REQUESTS - 1, "DeletePreloader") = t
    BY <1>9, TreeParts DEF Require
  <2> QED
    BY <2>1, <2>2
<1>16. UNCHANGED <<pc, stack, requests, newHints, persistCount>>
  BY <1>1
<1>17. PlainOK'
  BY <1>1, <1>15, InvFacts DEF PlainOK, Becomes
<1>18. t.free = freelist /\ \A k \in Nodes : t.req[k].name = req[k].name /\ t.req[k].loading = req[k].loading
  BY <1>6, <1>8, <1>13, TreeParts DEF SameTree
<1> QED
  BY <1>1, <1>2, <1>13, <1>14, <1>15, <1>16, <1>17, <1>18, QuietKeeps

\* Nothing changes.
LEMMA StutterKeeps ==
  ASSUME NEW rank, Inv(rank), UNCHANGED vars
  PROVE  Inv(rank)'
<1>1. /\ UNCHANGED treeVars /\ world' = world
      /\ UNCHANGED <<pc, stack, phase, createComplete, queueFull, persistCount>>
      /\ UNCHANGED <<requests, open, hinted, newHints, external>>
  BY DEF vars, treeVars, loopVars, workerVars
<1>2. PlainOK'
  BY <1>1, InvFacts DEF PlainOK
<1>3. Walks(Tree, pc', stack')
  BY <1>1, InvFacts
<1> QED
  BY <1>1, <1>2, <1>3, FrameKeeps

\* Every step keeps the invariant.
LEMMA NextKeeps ==
  ASSUME NEW rank, Inv(rank), [Next]_vars
  PROVE  Inv(rank)'
<1>1. CASE Main
  BY <1>1, StartWalkKeeps, VisitKeeps, PopHintsKeeps, AwaitPostCreateKeeps,
     CompleteCallbackKeeps, ReleaseRootKeeps DEF Main
<1>2. CASE PostCreate
  BY <1>2, PostCreateKeeps DEF PostCreate
<1>3. CASE DeletePreloader
  BY <1>3, DeletePreloaderKeeps
<1>4. CASE Worker
  BY <1>4, PreloadHintKeeps, WorkerAnswerKeeps DEF Worker
<1>5. CASE External
  BY <1>5, ExternalGetKeeps, ExternalReleaseKeeps DEF External
<1>6. CASE UNCHANGED vars
  BY <1>6, StutterKeeps
<1> QED
  BY <1>1, <1>2, <1>3, <1>4, <1>5, <1>6 DEF Next, Rest

-----------------------------------------------------------------------------
(* NewPreloader. *)

\* The rounds of NewPreloader: the definition by recursion has a solution.
LEMMA NewRounds ==
  ASSUME NEW names, Len(names) - 1 \in Nat
  PROVE  \E g : /\ g[0] = RootOnly(names[1])
                /\ \A n \in 1 .. (Len(names) - 1) : g[n] = PreloadHintInternal(g[n - 1], 0, names[n + 1])
                /\ NewPreloader(names) = g[Len(names) - 1]
<1> DEFINE L == (Len(names) - 1)
           after[n \in 0 .. (Len(names) - 1)] ==
             IF n = 0 THEN RootOnly(names[1]) ELSE PreloadHintInternal(after[n - 1], 0, names[n + 1])
           Body(g, m) == [n \in 0 .. m |-> IF n = 0 THEN RootOnly(names[1]) ELSE PreloadHintInternal(g[n - 1], 0, names[n + 1])]
           S == {m \in 0 .. L : \E g : g = Body(g, m)}
<1>0. L \in Nat
  OBVIOUS
<1>1. 0 \in S
  <2>1. [n \in 0 .. 0 |-> RootOnly(names[1])] = Body([n \in 0 .. 0 |-> RootOnly(names[1])], 0)
    OBVIOUS
  <2> HIDE DEF Body
  <2> QED
    BY <1>0, <2>1
<1>2. ASSUME NEW m \in 0 .. L, m \in S, m < L PROVE m + 1 \in S
  <2>1. PICK g : g = Body(g, m)
    BY <1>2
  <2> DEFINE h == [n \in 0 .. m + 1 |-> IF n <= m THEN g[n] ELSE PreloadHintInternal(g[m], 0, names[m + 1 + 1])]
  <2>2. h = Body(h, m + 1)
    <3>1. ASSUME NEW n \in 0 .. m + 1 PROVE h[n] = Body(h, m + 1)[n]
      <4>1. CASE n = 0
        BY <2>1, <4>1
      <4>2. CASE n \in 1 .. m
        <5>1. n - 1 \in 0 .. m /\ h[n - 1] = g[n - 1] /\ h[n] = g[n]
          BY <4>2
        <5>2. n \in 0 .. m /\ n \in 0 .. m + 1 /\ n # 0
          BY <4>2
        <5>3. Body(g, m)[n] = PreloadHintInternal(g[n - 1], 0, names[n + 1])
          BY <5>2
        <5>4. Body(h, m + 1)[n] = PreloadHintInternal(h[n - 1], 0, names[n + 1])
          <6> HIDE DEF h
          <6> QED
            BY <5>2
        <5>5. g[n] = Body(g, m)[n]
          BY <2>1
        <5> HIDE DEF Body, h
        <5> QED
          BY <5>1, <5>3, <5>4, <5>5
      <4>3. CASE n = m + 1
        <5>1. h[n - 1] = g[m]
          BY <4>3
        <5> QED
          BY <4>3, <5>1
      <4> QED
        BY <4>1, <4>2, <4>3
    <3> QED
      BY <3>1
  <2> HIDE DEF Body, h
  <2>3. m + 1 \in 0 .. L /\ \E x : x = Body(x, m + 1)
    BY <1>0, <1>2, <2>2
  <2> QED
    BY <2>3
<1>3. 0 .. L \subseteq S
  <2> HIDE DEF S, L
  <2> QED
    BY <1>0, <1>1, <1>2, EveryRound
<1>4. \E g : g = Body(g, L)
  <2> HIDE DEF L, Body
  <2>1. L \in S
    <3> HIDE DEF S
    <3> QED
      BY <1>0, <1>3
  <2> QED
    BY <2>1
<1>5. after = Body(after, L)
  BY <1>4
<1>6. NewPreloader(names) = after[Len(names) - 1]
  BY DEF NewPreloader
<1> HIDE DEF after
<1>7. after[0] = RootOnly(names[1])
  BY <1>0, <1>5
<1>8. ASSUME NEW n \in 1 .. L PROVE after[n] = PreloadHintInternal(after[n - 1], 0, names[n + 1])
  <2>1. n \in 0 .. L /\ n # 0
    BY <1>0
  <2>2. Body(after, L)[n] = PreloadHintInternal(after[n - 1], 0, names[n + 1])
    <3> HIDE DEF L
    <3> QED
      BY <2>1
  <2> HIDE DEF Body
  <2> QED
    BY <1>5, <2>2
<1> QED
  BY <1>6, <1>7, <1>8

\* Before the first insertion the free list has all the requests but the root, in order.
Initially(k) == MAX_PRELOADER_REQUESTS - k

FreshList(F) ==
  /\ F \in Seq(Nodes \ {0}) /\ Len(F) \in 0 .. (MAX_PRELOADER_REQUESTS - 1)
  /\ \A k \in 1 .. Len(F) : F[k] = Initially(k)

\* Such a list has every request once.
LEMMA FreshListFree ==
  ASSUME NEW F, FreshList(F)
  PROVE  FreeOK(F)
<1>1. PICK m \in Nat : m = Len(F)
  BY PreloaderAssumption DEF FreshList
<1>2. ASSUME NEW a \in 1 .. m, NEW b \in 1 .. m, F[a] = F[b] PROVE a = b
  <2>1. F[a] = MAX_PRELOADER_REQUESTS - a /\ F[b] = MAX_PRELOADER_REQUESTS - b
    BY <1>1 DEF FreshList, Initially
  <2>2. PICK M \in Nat : M = MAX_PRELOADER_REQUESTS
    BY PreloaderAssumption
  <2>3. M - a = M - b
    BY <1>2, <2>1, <2>2
  <2> QED
    BY <2>3
<1> QED
  BY <1>1, <1>2 DEF FreeOK, FreshList

\* The state before any name but the first is inserted: a root, and nothing is loaded.
LEMMA RootOnlyState ==
  ASSUME NEW name \in Names
  PROVE  LET s == RootOnly(name)
         IN  /\ s \in TreeStates /\ FreshList(s.free) /\ Len(s.free) = MAX_PRELOADER_REQUESTS - 1
             /\ s.inProgress = {} /\ s.persisted = <<>> /\ s.post = <<>> /\ s.abort = "none"
             /\ s.res = [p \in Paths |-> Unloaded]
             /\ \A k \in Nodes : /\ s.req[k].name = name /\ s.req[k].pending = 0
                                 /\ s.req[k].parent = None /\ s.req[k].first = None
                                 /\ s.req[k].next = None /\ ~s.req[k].loading
                                 /\ ~s.req[k].buffer /\ ~s.req[k].resource
             /\ name \notin Malformed => s.req[0].result = PENDING
             /\ name \in Malformed => s.req[0].result = "RESULT_INVALID_DATA"
<1>1. PICK q : q = NewRequest(name)
  OBVIOUS
<1>2. /\ q \in Requests /\ q.name = name /\ q.pending = 0 /\ q.parent = None /\ q.first = None
      /\ q.next = None /\ ~q.loading /\ ~q.buffer /\ ~q.resource /\ q.result = PENDING
  BY <1>1 DEF NewRequest, Requests, NodeResults
<1>3. PICK x : x = IF name \in Malformed THEN "RESULT_INVALID_DATA" ELSE PENDING
  OBVIOUS
<1>4. PICK r : r = [q EXCEPT !.result = x]
  OBVIOUS
<1>5. x \in NodeResults
  BY <1>3 DEF NodeResults
<1>6. /\ r \in Requests /\ r.name = name /\ r.pending = 0 /\ r.parent = None /\ r.first = None
      /\ r.next = None /\ ~r.loading /\ ~r.buffer /\ ~r.resource /\ r.result = x
  BY <1>2, <1>4, <1>5 DEF Requests
<1>7. PICK R : R = [i \in Nodes |-> IF i = 0 THEN r ELSE q]
  OBVIOUS
<1>8. R \in [Nodes -> Requests] /\ R[0] = r /\ \A k \in Nodes : R[k] = r \/ R[k] = q
  BY <1>2, <1>6, <1>7, NodesFinite
<1>9. PICK F : F = [k \in 1 .. (MAX_PRELOADER_REQUESTS - 1) |-> MAX_PRELOADER_REQUESTS - k]
  OBVIOUS
<1>10. /\ F \in Seq(Nodes \ {0}) /\ Len(F) = MAX_PRELOADER_REQUESTS - 1
       /\ \A k \in 1 .. Len(F) : F[k] = MAX_PRELOADER_REQUESTS - k
  <2>1. PICK M \in Nat \ {0} : M = MAX_PRELOADER_REQUESTS
    BY PreloaderAssumption
  <2>2. \A k \in 1 .. (M - 1) : M - k \in Nodes \ {0}
    BY <2>1 DEF Nodes
  <2>3. M - 1 \in Nat
    BY <2>1
  <2>4. PICK m \in Nat : m = M - 1
    BY <2>3
  <2>5. F = [k \in 1 .. m |-> M - k]
    BY <1>9, <2>1, <2>4
  <2>6. \A k \in 1 .. m : F[k] \in Nodes \ {0} /\ F[k] = M - k
    BY <2>2, <2>4, <2>5
  <2>7. DOMAIN F = 1 .. m
    BY <2>5
  <2>8. F \in Seq(Nodes \ {0}) /\ Len(F) = m
    BY <2>5, <2>6, <2>7
  <2> QED
    BY <2>1, <2>4, <2>6, <2>8
<1>11. FreshList(F)
  <2>1. MAX_PRELOADER_REQUESTS - 1 \in 0 .. (MAX_PRELOADER_REQUESTS - 1)
    BY PreloaderAssumption
  <2> QED
    BY <1>10, <2>1 DEF FreshList, Initially
<1>12. PICK V : V = [p \in Paths |-> Unloaded]
  OBVIOUS
<1>13. V \in [Paths -> Resources]
  <2>1. Unloaded \in Resources
    BY DEF Unloaded, Resources
  <2> QED
    BY <1>12, <2>1
<1>14. PICK s : s = [req |-> R, free |-> F, inProgress |-> {}, persisted |-> <<>>, post |-> <<>>,
                     res |-> V, abort |-> "none"]
  OBVIOUS
<1>15. s = RootOnly(name)
  BY <1>1, <1>3, <1>4, <1>7, <1>9, <1>12, <1>14 DEF RootOnly
<1>16. s \in TreeStates
  <2>1. <<>> \in Seq(Paths) /\ <<>> \in Seq(Callbacks)
    OBVIOUS
  <2>2. {} \in SUBSET Paths /\ "none" \in Aborts
    BY DEF Aborts
  <2> QED
    BY <1>8, <1>10, <1>13, <1>14, <2>1, <2>2 DEF TreeStates
<1>17. /\ s.req = R /\ s.free = F /\ s.inProgress = {} /\ s.persisted = <<>> /\ s.post = <<>>
       /\ s.res = V /\ s.abort = "none"
  BY <1>14
<1>18. \A k \in Nodes : /\ R[k].name = name /\ R[k].pending = 0
                        /\ R[k].parent = None /\ R[k].first = None
                        /\ R[k].next = None /\ ~R[k].loading
                        /\ ~R[k].buffer /\ ~R[k].resource
  BY <1>2, <1>6, <1>8
<1> QED
  BY <1>3, <1>6, <1>8, <1>10, <1>11, <1>12, <1>15, <1>16, <1>17, <1>18

\* Where nothing is loaded no reference is held.
LEMMA NoHolders ==
  ASSUME NEW V, \A p \in Paths : V[p] = Unloaded, NEW p
  PROVE  Cardinality(HoldersOf(V, p)) = 0
<1>1. ASSUME NEW x \in HoldersOf(V, p) PROVE FALSE
  <2>1. PICK q \in Paths : x \in {q} \X PlacesOf(p, Held(V[q]))
    BY DEF HoldersOf
  <2>2. Held(V[q]) = <<>>
    BY DEF Unloaded, Held
  <2>3. PlacesOf(p, <<>>) = {}
    BY DEF PlacesOf
  <2>4. x \in {q} \X {}
    BY <2>1, <2>2, <2>3
  <2> QED
    BY <2>4
<1>2. HoldersOf(V, p) = {}
  BY <1>1
<1> QED
  BY <1>2, FS_EmptySet

\* The root alone is a sound tree.
LEMMA RootOnlySound ==
  ASSUME NEW w, NEW rank, NEW name \in Names, NEW s, s = RootOnly(name)
  PROVE  Sound(w, rank, 1, s, {}) /\ Loaders(s.req, s.free) = {}
<1>1. PICK R, F : R = s.req /\ F = s.free
  OBVIOUS
<1>2. /\ s \in TreeStates /\ FreshList(F) /\ Len(F) = MAX_PRELOADER_REQUESTS - 1
      /\ s.inProgress = {} /\ s.persisted = <<>> /\ s.post = <<>> /\ s.abort = "none"
      /\ s.res = [p \in Paths |-> Unloaded]
      /\ \A k \in Nodes : /\ R[k].name = name /\ R[k].pending = 0
                          /\ R[k].parent = None /\ R[k].first = None
                          /\ R[k].next = None /\ ~R[k].loading
                          /\ ~R[k].buffer /\ ~R[k].resource
      /\ name \notin Malformed => R[0].result = PENDING
      /\ name \in Malformed => R[0].result = "RESULT_INVALID_DATA"
  BY <1>1, RootOnlyState
<1>3. FreeOK(F) /\ F \in Seq(Nodes \ {0})
  BY <1>2, FreshListFree DEF FreeOK
<1>4. 0 \in Live(F) /\ Live(F) \subseteq Nodes
  BY <1>3, RootLive
<1>5. Live(F) = {0}
  <2>1. Cardinality(Live(F)) + Len(F) = MAX_PRELOADER_REQUESTS /\ Cardinality(Live(F)) \in Nat
    BY <1>3, FreeCount
  <2>2. PICK c \in Nat : c = Cardinality(Live(F))
    BY <2>1
  <2>3. c = 1
    BY <1>2, <2>1, <2>2, PreloaderAssumption
  <2>4. IsFiniteSet(Live(F))
    BY <1>4, LiveFinite
  <2>5. IsFiniteSet({0}) /\ Cardinality({0}) = 1
    BY FS_Singleton
  <2> QED
    BY <1>4, <2>2, <2>3, <2>4, <2>5, FS_Subset
<1>6. \A i \in Nodes : Kids(R, F, i) = {}
  <2>1. \A k \in Live(F) : R[k].parent = None
    BY <1>2, <1>4
  <2>2. None \notin Nodes
    BY NodesFinite
  <2> QED
    BY <2>1, <2>2 DEF Kids
<1>7. Shape(R, F)
  <2>1. PICK T : T = [k \in Nodes |-> 0]
    OBVIOUS
  <2>2. Stamped(F, T, 1)
    BY <1>5, <2>1 DEF Stamped
  <2>3. 0 \in Nodes
    BY NodesFinite
  <2>4. FirstOK(R, F, T, 0)
    BY <1>2, <1>6, <2>3 DEF FirstOK
  <2>5. Linked(R, F, T)
    BY <1>2, <1>5, <2>3, <2>4 DEF Linked
  <2> QED
    BY <1>3, <2>2, <2>5 DEF Shape
<1>8. NodeOK(w, rank, R, F, 0)
  <2>1. PendingKids(R, F, 0) = {} /\ Kids(R, F, 0) = {} /\ 0 \in Nodes
    BY <1>6, NodesFinite DEF PendingKids
  <2>2. Cardinality({}) = 0
    BY FS_EmptySet
  <2>3. R[0].result # LOOP
    BY <1>2 DEF LOOP, PENDING
  <2>4. R[0].result = PENDING => name \notin Malformed
    BY <1>2 DEF PENDING
  <2> QED
    BY <1>2, <2>1, <2>2, <2>3, <2>4 DEF NodeOK
<1>9. Busy(R, F) = {} /\ Loaders(R, F) = {}
  BY <1>2, <1>4 DEF Busy, Loaders
<1>10. ProgressOK(R, F, s.inProgress)
  BY <1>2, <1>9 DEF ProgressOK
<1>11. PersistRoom(1, F, s.persisted)
  <2>1. Live(F) \cap 1 .. (1 - 1) = {}
    OBVIOUS
  <2>2. Cardinality({}) = 0 /\ Len(<<>>) = 0
    BY FS_EmptySet
  <2> QED
    BY <1>2, <2>1, <2>2 DEF PersistRoom
<1>12. 1 .. (1 - 1) = {}
  OBVIOUS
<1>13. TreeOK(w, rank, 1, s)
  BY <1>1, <1>2, <1>5, <1>7, <1>8, <1>10, <1>11, <1>12 DEF TreeOK
<1>14. Accounts(s, {}, <<>>)
  <2>1. {} \in SUBSET Names /\ <<>> \in Seq(Paths) /\ <<>> \in Seq(Callbacks)
    OBVIOUS
  <2>2. \A p \in Paths : UsedAt({}, R, F, <<>>, <<>>, p) = 0
    <3> SUFFICES ASSUME NEW p \in Paths PROVE UsedAt({}, R, F, <<>>, <<>>, p) = 0
      OBVIOUS
    <3>1. ExternalAt({}, p) = {}
      BY DEF ExternalAt
    <3>2. NodesAt(R, F, p) = {}
      BY <1>2, <1>4 DEF NodesAt
    <3>3. DoomedHoldersOf(<<>>, p) = {}
      BY DEF DoomedHoldersOf
    <3>4. Times(p, <<>>) = 0 /\ Cardinality({}) = 0
      BY TimesEmpty, FS_EmptySet
    <3>5. UsedAt({}, R, F, <<>>, <<>>, p) = 0 + 0 + 0 + 0
      BY <3>1, <3>2, <3>3, <3>4, Zenon DEF UsedAt
    <3>6. 0 + 0 + 0 + 0 = 0
      OBVIOUS
    <3> QED
      BY <3>5, <3>6, Zenon
  <2>3. PICK u : u = Used({}, R, F, <<>>, <<>>)
    OBVIOUS
  <2>4. u \in Users /\ \A p \in Paths : u[p] = 0
    BY <2>2, <2>3 DEF Used, Users
  <2>5. PICK f : f = Factory(s)
    OBVIOUS
  <2>6. f \in FactoryStates /\ f.res = [p \in Paths |-> Unloaded] /\ f.abort = "none"
    BY <1>2, <2>5, FactoryOf
  <2>7. \A p \in Paths : f.res[p] = Unloaded
    BY <2>6
  <2>8. \A p \in Paths : f.res[p].count = 0 /\ f.res[p].refs = <<>> /\ f.res[p].lost = <<>>
    BY <2>7 DEF Unloaded
  <2>9. \A p \in Paths : Cardinality(HoldersOf(f.res, p)) = 0
    BY <2>7, NoHolders
  <2>10. Exact(f, u)
    <3>1. Sane(f)
      BY <2>6, <2>8 DEF Sane
    <3>2. \A p \in Paths : f.res[p].count = u[p] + Cardinality(HoldersOf(f.res, p))
      BY <2>4, <2>8, <2>9
    <3> QED
      BY <3>1, <3>2 DEF Exact
  <2> QED
    BY <1>1, <1>2, <2>1, <2>3, <2>5, <2>10, AccountsNothing
<1> QED
  BY <1>1, <1>9, <1>13, <1>14 DEF Sound

\* The children of the root that have been inserted so far.
Planted(s) == 1 .. (MAX_PRELOADER_REQUESTS - 1 - Len(s.free))

\* The tree after n rounds of NewPreloader.
Growing(w, rank, first, s, n) ==
  /\ Sound(w, rank, 1, s, {}) /\ s.persisted = <<>> /\ Loaders(s.req, s.free) = {}
  /\ SameStatus(s.req[0], RootOnly(first).req[0]) /\ FreshList(s.free)
  /\ MAX_PRELOADER_REQUESTS - 1 - Len(s.free) <= n
  /\ Planted(s) \subseteq Kids(s.req, s.free, 0)

\* Names that are given together with others: the first is one that may be loaded, and the
\* others are of a lower rank.
FirstLoads(w, first) == first \notin Malformed /\ w.fate[CanonicalPath[first]] # "untyped"
Below(rank, first, name) ==
  name \notin Malformed => rank[CanonicalPath[name]] < rank[CanonicalPath[first]]

\* The last request of a fresh list is the lowest.
LEMMA FreshFront ==
  ASSUME NEW F, FreshList(F), F # <<>>
  PROVE  /\ FreshList(Front(F)) /\ Len(Front(F)) = Len(F) - 1
         /\ Last(F) = MAX_PRELOADER_REQUESTS - Len(F)
<1>1. PICK m \in Nat : m = Len(F)
  BY PreloaderAssumption DEF FreshList
<1>2. m # 0 /\ F \in Seq(Nodes \ {0})
  BY <1>1, EmptySeq DEF FreshList
<1>3. FreeOK(Front(F))
  BY FreeFront, FreshListFree
<1>4. /\ Len(Front(F)) = m - 1 /\ \A k \in 1 .. (m - 1) : Front(F)[k] = F[k]
      /\ Last(F) = F[m]
  BY <1>1, <1>2 DEF Front, Last
<1>5. m \in 1 .. m /\ \A k \in 1 .. m : F[k] = MAX_PRELOADER_REQUESTS - k
  BY <1>1, <1>2 DEF FreshList, Initially
<1>6. m - 1 \in 0 .. (MAX_PRELOADER_REQUESTS - 1)
  BY <1>1, <1>2, PreloaderAssumption DEF FreshList
<1>7. \A k \in 1 .. (m - 1) : Front(F)[k] = MAX_PRELOADER_REQUESTS - k
  BY <1>4, <1>5
<1> QED
  BY <1>1, <1>3, <1>4, <1>5, <1>6, <1>7 DEF FreshList, FreeOK, Initially

\* One round inserts a name, or does not.
LEMMA GrowingRound ==
  ASSUME NEW w, NEW rank \in [Paths -> Nat], NEW first \in Names, NEW s, NEW n \in Nat,
         Growing(w, rank, first, s, n),
         FirstLoads(w, first), NEW name \in Names, Below(rank, first, name)
  PROVE  Growing(w, rank, first, PreloadHintInternal(s, 0, name), n + 1)
<1>1. PICK M \in Nat, m \in Nat : M = MAX_PRELOADER_REQUESTS /\ m = Len(s.free)
  <2>1. MAX_PRELOADER_REQUESTS \in Nat
    BY PreloaderAssumption
  <2>2. Len(s.free) \in 0 .. (MAX_PRELOADER_REQUESTS - 1)
    BY DEF Growing, FreshList
  <2> QED
    BY SMTT(60), <2>1, <2>2
<1>2. M - 1 - m <= n /\ Planted(s) = 1 .. (M - 1 - m)
  BY <1>1 DEF Growing, Planted
<1>3. PICK t : t = PreloadHintInternal(s, 0, name)
  OBVIOUS
<1>4. CASE t = s
  <2>1. M - 1 - m <= n + 1
    BY <1>2
  <2> QED
    BY <1>1, <1>3, <1>4, <2>1 DEF Growing
<1>5. CASE t # s
  <2>1. name \notin Malformed /\ t = PreloadPathDescriptor(s, 0, name)
    BY <1>3, <1>5 DEF PreloadHintInternal
  <2>2. MayInsert(w, rank, 1, s, 0, name)
    <3>1. Sound(w, rank, 1, s, {})
      BY DEF Growing
    <3>2. TreeOK(w, rank, 1, s) /\ 0 \in Live(s.free)
      BY <3>1, SoundFacts, RootResult
    <3>3. PICK q : q = RootOnly(first)
      OBVIOUS
    <3>4. q.req[0].result = PENDING /\ ~q.req[0].buffer /\ q.req[0].name = first
      BY <3>3, RootOnlyState, NodesFinite DEF FirstLoads
    <3>5. s.req[0].result = PENDING /\ ~s.req[0].buffer /\ s.req[0].name = first
      BY <3>3, <3>4 DEF Growing, SameStatus
    <3>6. PathOf(s.req[0]) = CanonicalPath[first]
      BY <3>5 DEF PathOf, FirstLoads
    <3> QED
      BY <2>1, <3>2, <3>5, <3>6 DEF MayInsert, FirstLoads, Below
  <2>3. Sound(w, rank, 1, t, {}) /\ Grown(s, t)
    BY <2>1, <2>2, InsertSound DEF Growing
  <2>4. /\ s.free # <<>> /\ t.free = Front(s.free) /\ Inserted(s, t, 0, Last(s.free), name)
    BY <1>5, <2>1, <2>2, InsertEffect
  <2>5. FreshList(s.free)
    BY DEF Growing
  <2>6. /\ FreshList(t.free) /\ Len(t.free) = m - 1 /\ Last(s.free) = M - m
    BY <1>1, <2>4, <2>5, FreshFront
  <2>7. HasLoads(s, t, Loaders(s.req, s.free))
    BY <2>3, GrownLoads
  <2>8. Loaders(t.req, t.free) = {}
    BY <2>7 DEF HasLoads, Growing
  <2>9. SameStatus(t.req[0], RootOnly(first).req[0])
    <3>1. SameStatus(t.req[0], s.req[0])
      BY <2>4 DEF Inserted
    <3> QED
      BY <3>1 DEF SameStatus, Growing
  <2>10. t.persisted = <<>>
    BY <2>4 DEF Inserted, Growing
  <2>11. M - 1 - (m - 1) <= n + 1 /\ M - 1 - (m - 1) = M - m
    BY <1>2
  <2>12. Planted(t) = 1 .. (M - m)
    BY <1>1, <2>6, <2>11 DEF Planted
  <2>13. Planted(t) \subseteq Kids(t.req, t.free, 0)
    <3>1. ASSUME NEW k \in 1 .. (M - m) PROVE k \in Kids(t.req, t.free, 0)
      <4>1. CASE k = M - m
        <5>1. k \in Live(t.free) /\ t.req[k].parent = 0
          BY <2>4, <2>6, <4>1 DEF Inserted
        <5> QED
          BY <5>1 DEF Kids
      <4>2. CASE k # M - m
        <5>1. k \in 1 .. (M - 1 - m)
          BY <4>2
        <5>2. k \in Kids(s.req, s.free, 0)
          BY <1>2, <5>1 DEF Growing
        <5>3. k \in Live(t.free) /\ t.req[k].parent = s.req[k].parent
          BY <2>3, <5>2 DEF Grown, Kids
        <5> QED
          BY <5>2, <5>3 DEF Kids
      <4> QED
        BY <4>1, <4>2
    <3> QED
      BY <2>12, <3>1
  <2> QED
    BY <1>1, <1>3, <2>3, <2>6, <2>8, <2>9, <2>10, <2>11, <2>13 DEF Growing
<1> QED
  BY <1>4, <1>5

\* What is given is one name, or a first one that may be loaded and others of a lower rank.
NamesDescend(w, rank, names) ==
  \/ Len(names) = 1
  \/ /\ FirstLoads(w, names[1])
     /\ \A n \in 2 .. Len(names) : Below(rank, names[1], names[n])

\* NewPreloader makes a sound tree, whose given names are the children of the root.
LEMMA NewPreloaderGrown ==
  ASSUME NEW w, NEW rank \in [Paths -> Nat], NEW names \in Seq(Names), names # <<>>,
         NamesDescend(w, rank, names)
  PROVE  Growing(w, rank, names[1], NewPreloader(names), Len(names) - 1)
<1>1. PICK L \in Nat : L = Len(names) - 1 /\ Len(names) = L + 1
  <2>1. Len(names) \in Nat /\ Len(names) # 0
    BY EmptySeq, LenProperties
  <2>2. PICK m \in Nat : m = Len(names) /\ m # 0
    BY <2>1
  <2>3. m - 1 \in Nat /\ m = (m - 1) + 1
    BY <2>2
  <2> QED
    BY <2>2, <2>3
<1>2. \A n \in 1 .. (L + 1) : names[n] \in Names
  BY <1>1
<1>3. names[1] \in Names
  BY <1>1, <1>2
<1>4. PICK g : /\ g[0] = RootOnly(names[1])
               /\ \A n \in 1 .. L : g[n] = PreloadHintInternal(g[n - 1], 0, names[n + 1])
               /\ NewPreloader(names) = g[L]
  BY <1>1, NewRounds
<1> DEFINE S == {n \in 0 .. L : Growing(w, rank, names[1], g[n], n)}
<1>5. 0 \in S
  <2>1. PICK s : s = RootOnly(names[1])
    OBVIOUS
  <2>2. Sound(w, rank, 1, s, {}) /\ Loaders(s.req, s.free) = {}
    BY <1>3, <2>1, RootOnlySound
  <2>3. s.persisted = <<>> /\ FreshList(s.free) /\ Len(s.free) = MAX_PRELOADER_REQUESTS - 1
    BY <1>3, <2>1, RootOnlyState
  <2>4. SameStatus(s.req[0], RootOnly(names[1]).req[0])
    BY <2>1 DEF SameStatus
  <2>5. MAX_PRELOADER_REQUESTS - 1 - Len(s.free) = 0
    BY <2>3, PreloaderAssumption
  <2>6. Planted(s) = {}
    BY <2>5 DEF Planted
  <2>7. Growing(w, rank, names[1], s, 0)
    BY <2>2, <2>3, <2>4, <2>5, <2>6 DEF Growing
  <2> QED
    BY <1>4, <2>1, <2>7
<1>6. ASSUME NEW n \in 0 .. L, n \in S, n < L PROVE n + 1 \in S
  <2>1. n + 1 \in 1 .. L /\ (n + 1) - 1 = n /\ n + 1 \in 0 .. L /\ n \in Nat /\ L # 0
        /\ (n + 1) + 1 \in 2 .. (L + 1) /\ (n + 1) + 1 \in 1 .. (L + 1)
    BY <1>6
  <2>2. PICK s : s = g[n]
    OBVIOUS
  <2>3. Growing(w, rank, names[1], s, n)
    BY <1>6, <2>2
  <2>4. Len(names) # 1
    BY <1>1, <2>1
  <2>5. PICK name \in Names : name = names[(n + 1) + 1]
    BY <1>2, <2>1
  <2>6. FirstLoads(w, names[1]) /\ Below(rank, names[1], name)
    BY <1>1, <2>1, <2>4, <2>5 DEF NamesDescend
  <2>7. PICK first \in Names : first = names[1]
    BY <1>3
  <2>8. Growing(w, rank, first, PreloadHintInternal(s, 0, name), n + 1)
    BY <2>1, <2>3, <2>6, <2>7, GrowingRound
  <2>9. g[n + 1] = PreloadHintInternal(g[n], 0, names[(n + 1) + 1])
    BY <1>4, <2>1
  <2>10. Growing(w, rank, names[1], g[n + 1], n + 1)
    BY <2>2, <2>5, <2>7, <2>8, <2>9
  <2> QED
    BY <2>1, <2>10
<1>7. 0 .. L \subseteq S
  <2> HIDE DEF S
  <2> QED
    BY <1>5, <1>6, EveryRound
<1>8. L \in S
  <2> HIDE DEF S
  <2>1. L \in 0 .. L
    OBVIOUS
  <2> QED
    BY <1>7, <2>1
<1> QED
  BY <1>1, <1>4, <1>8

\* persistCount is then the number of the requests that are in use.
LEMMA NewPreloaderSound ==
  ASSUME NEW w, NEW rank \in [Paths -> Nat], NEW names \in Seq(Names), names # <<>>,
         NamesDescend(w, rank, names), NEW s, s = NewPreloader(names),
         NEW count, count = MAX_PRELOADER_REQUESTS - Len(s.free)
  PROVE  /\ Sound(w, rank, count, s, {}) /\ Loaders(s.req, s.free) = {}
         /\ count \in 1 .. Len(names)
<1>1. Growing(w, rank, names[1], s, Len(names) - 1)
  BY NewPreloaderGrown
<1>2. PICK M \in Nat, m \in Nat, k \in Nat :
        M = MAX_PRELOADER_REQUESTS /\ m = Len(s.free) /\ k = Len(names)
  BY <1>1, PreloaderAssumption, LenProperties DEF Growing, FreshList
<1>3. M - 1 - m <= k - 1 /\ m \in 0 .. (M - 1) /\ count = M - m
  BY <1>1, <1>2 DEF Growing, FreshList
<1>4. count \in Nat \ {0} /\ count \in 1 .. k /\ count - 1 = M - 1 - m
  BY <1>3
<1>5. TreeOK(w, rank, 1, s) /\ Accounts(s, {}, <<>>) /\ {} \in SUBSET Names
  BY <1>1, SoundFacts DEF Growing
<1>6. 1 .. (count - 1) \subseteq Kids(s.req, s.free, 0)
  BY <1>1, <1>2, <1>4 DEF Growing, Planted
<1>7. PersistRoom(count, s.free, s.persisted)
  <2>1. PICK c \in Nat : c = count - 1
    BY <1>4
  <2>2. IsFiniteSet(1 .. c) /\ Cardinality(1 .. c) = c
    BY FS_Interval
  <2>3. PICK x \in Nat : x = Cardinality(Live(s.free) \cap 1 .. c) /\ x <= c
    BY <2>2, FS_Subset, FS_CardinalityType
  <2>4. Len(s.persisted) = 0
    BY <1>1 DEF Growing
  <2>5. 0 + x <= c
    BY <2>3
  <2> QED
    BY <1>4, <2>1, <2>3, <2>4, <2>5 DEF PersistRoom
<1>8. TreeOK(w, rank, count, s)
  BY <1>5, <1>6, <1>7 DEF TreeOK
<1> QED
  BY <1>1, <1>2, <1>4, <1>5, <1>8 DEF Sound, Growing

\* The initial state satisfies the invariant.
LEMMA InitInv ==
  ASSUME NEW rank, Init, RefsDescend(rank), NamesDescend(world, rank, world.names)
  PROVE  Inv(rank)
<1>1. world \in Worlds
  BY DEF Init
<1>2. /\ world.names \in Seq(Names) /\ world.names # <<>> /\ TypedWorld
  BY <1>1, PreloaderAssumption DEF TypedWorld
<1>3. WorldOK(rank) /\ rank \in [Paths -> Nat]
  BY <1>2 DEF WorldOK, RefsDescend
<1>4. PICK names \in Seq(Names) : names = world.names
  BY <1>2
<1>5. PICK s : s = NewPreloader(names)
  OBVIOUS
<1>6. PICK count : count = MAX_PRELOADER_REQUESTS - Len(s.free)
  OBVIOUS
<1>7. /\ Sound(world, rank, count, s, {}) /\ Loaders(s.req, s.free) = {}
      /\ count \in 1 .. Len(names)
  BY <1>2, <1>3, <1>4, <1>5, <1>6, NewPreloaderSound
<1>8. /\ req = s.req /\ freelist = s.free /\ inProgress = s.inProgress /\ persisted = s.persisted
      /\ post = s.post /\ res = s.res /\ abort = s.abort /\ persistCount = count
  BY <1>4, <1>5, <1>6 DEF Init
<1>9. Tree = s
  BY <1>7, <1>8, SoundFacts, TreeFields DEF Tree
<1>10. /\ newHints = <<>> /\ queueFull = FALSE /\ createComplete = FALSE /\ external = {}
       /\ requests = <<>> /\ open = TRUE /\ hinted = 0
       /\ pc = "update" /\ stack = <<>> /\ phase = "running"
  BY DEF Init, Queue!AbsInit
<1>11. PlainOK
  BY <1>1, <1>4, <1>7, <1>8, <1>10 DEF PlainOK
<1>12. QueueOK(Loaders(Tree.req, Tree.free), requests)
  <2>1. <<>> \in Seq(QueueRequests) /\ Len(<<>>) = 0
    OBVIOUS
  <2>2. QueueOK({}, <<>>)
    BY <2>1 DEF QueueOK
  <2> QED
    BY <1>7, <1>9, <1>10, <2>2
<1>13. HintsOK(rank, Tree.req, Tree.free, newHints)
  BY <1>10, NoHints
<1>14. Walks(Tree, pc, stack)
  BY <1>10 DEF Walks
<1>15. Sound(world, rank, persistCount, Tree, external)
  BY <1>7, <1>8, <1>9, <1>10
<1> QED
  BY <1>3, <1>11, <1>12, <1>13, <1>14, <1>15 DEF Inv, Core

-----------------------------------------------------------------------------
(* What the invariant says of the properties. *)

\* As many values as there are elements, if no two have the same.
LEMMA ImageCount ==
  ASSUME NEW S, IsFiniteSet(S), NEW f, DOMAIN f = S, \A x, y \in S : f[x] = f[y] => x = y
  PROVE  Cardinality({f[x] : x \in S}) = Cardinality(S)
<1>1. PICK T : T = {f[x] : x \in S}
  OBVIOUS
<1>2. PICK g : g = [x \in S |-> f[x]]
  OBVIOUS
<1>3. g \in [S -> T] /\ (\A t \in T : \E x \in S : g[x] = t) /\ \A x, y \in S : g[x] = g[y] => x = y
  BY <1>1, <1>2
<1>4. g \in Bijection(S, T)
  BY <1>3, Fun_IsBij
<1>5. ExistsBijection(S, T)
  BY <1>4 DEF ExistsBijection
<1> QED
  BY <1>1, <1>5, FS_Bijection

\* The parts of the invariant that the properties are about.
LEMMA InvParts ==
  ASSUME NEW rank, Inv(rank)
  PROVE  /\ req \in [Nodes -> Requests] /\ freelist \in Seq(Nodes \ {0})
         /\ inProgress \in SUBSET Paths /\ persisted \in Seq(Paths) /\ post \in Seq(Callbacks)
         /\ res \in [Paths -> Resources] /\ abort = "none"
         /\ Shape(req, freelist) /\ LiveNodes = Live(freelist)
         /\ \A i \in Live(freelist) : NodeOK(world, rank, req, freelist, i)
         /\ ProgressOK(req, freelist, inProgress)
         /\ PersistRoom(persistCount, freelist, persisted)
         /\ \A k \in Nodes \ Live(freelist) : req[k].pending = 0
         /\ Accounts(Tree, external, <<>>) /\ external \in SUBSET Names
<1>1. /\ TreeOK(world, rank, persistCount, Tree) /\ Tree \in TreeStates
      /\ Accounts(Tree, external, <<>>) /\ external \in SUBSET Names /\ Tree.abort = "none"
  BY InvFacts, SoundFacts
<1>2. /\ req \in [Nodes -> Requests] /\ freelist \in Seq(Nodes \ {0})
      /\ inProgress \in SUBSET Paths /\ persisted \in Seq(Paths) /\ post \in Seq(Callbacks)
      /\ res \in [Paths -> Resources]
  BY <1>1, TreeFields, TreeParts
<1>3. Shape(req, freelist)
  BY <1>1, TreeParts DEF TreeOK
<1>4. LiveNodes = Live(freelist)
  BY <1>2, <1>3, ReachedAreLive
<1> QED
  BY <1>1, <1>2, <1>3, <1>4, TreeParts DEF TreeOK

\* A request waits for fewer children than there are requests.
LEMMA PendingBounded ==
  ASSUME NEW rank, Inv(rank), NEW k \in Nodes
  PROVE  req[k].pending \in Nodes
<1>1. CASE k \in Live(freelist)
  <2>1. req[k].pending = Cardinality(PendingKids(req, freelist, k))
    BY <1>1, InvParts DEF NodeOK
  <2>2. k \notin Kids(req, freelist, k)
    BY <1>1, InvParts, NoFirstChild
  <2>3. PendingKids(req, freelist, k) \subseteq Nodes \ {k}
    BY <2>2 DEF PendingKids, Kids, Live
  <2>4. PICK M \in Nat \ {0} : M = MAX_PRELOADER_REQUESTS
    BY PreloaderAssumption
  <2>5. IsFiniteSet(Nodes \ {k}) /\ Cardinality(Nodes \ {k}) = M - 1
    BY <2>4, NodesFinite, FS_RemoveElement
  <2>6. PICK c \in Nat : c = Cardinality(PendingKids(req, freelist, k)) /\ c <= M - 1
    BY <2>3, <2>5, FS_Subset, FS_CardinalityType
  <2> QED
    BY <2>1, <2>4, <2>6 DEF Nodes
<1>2. CASE k \notin Live(freelist)
  BY <1>2, InvParts, NodesFinite
<1> QED
  BY <1>1, <1>2

\* The variables have their types.
LEMMA InvTypes ==
  ASSUME NEW rank, Inv(rank)
  PROVE  TypeOK
<1>1. PICK Typed : Typed = [name : Names, parent : Nodes \cup {None}, first : Nodes \cup {None},
                            next : Nodes \cup {None}, pending : Nodes, loading : BOOLEAN,
                            buffer : BOOLEAN, result : NodeResults, resource : BOOLEAN]
  OBVIOUS
<1>2. req \in [Nodes -> Typed]
  <2>1. req \in [Nodes -> Requests]
    BY InvParts
  <2>2. ASSUME NEW k \in Nodes PROVE req[k] \in Typed
    <3>1. PICK r \in Requests : r = req[k]
      BY <2>1
    <3>2. r.pending \in Nodes
      BY <3>1, PendingBounded
    <3>3. r \in Typed
      BY <1>1, <3>2 DEF Requests
    <3> QED
      BY <3>1, <3>3
  <2> QED
    BY <2>1, <2>2
<1>3. Len(persisted) < Len(world.names) /\ persistCount \in 1 .. Len(world.names)
  <2>1. persistCount \in 1 .. Len(world.names) /\ world \in Worlds
    BY InvFacts DEF PlainOK
  <2>2. world.names \in Seq(Names)
    BY <2>1, PreloaderAssumption
  <2>3. PICK L \in Nat : L = Len(world.names)
    BY <2>2, LenProperties
  <2>31. PICK c \in 1 .. L : c = persistCount
    BY <2>1, <2>3
  <2>4. persisted \in Seq(Paths) /\ PersistRoom(persistCount, freelist, persisted)
    BY InvParts
  <2>5. PICK m \in Nat : m = Len(persisted)
    BY <2>4, LenProperties
  <2>6. Live(freelist) \cap 1 .. (persistCount - 1) \subseteq Nodes
    BY DEF Live
  <2>7. PICK x \in Nat : x = Cardinality(Live(freelist) \cap 1 .. (persistCount - 1))
    BY <2>6, LiveFinite
  <2>8. m + x <= c - 1
    BY <2>31, <2>4, <2>5, <2>7 DEF PersistRoom
  <2>9. m < L
    BY <2>8
  <2> QED
    BY <2>1, <2>3, <2>5, <2>9
<1>4. res \in [Paths -> Resources]
  BY InvParts
<1>5. stack \in Seq(Nodes) /\ pc \in {"update", "walk", "hints"}
  <2>1. Walks(Tree, pc, stack)
    BY InvFacts
  <2>2. CASE pc = "walk"
    BY <2>1, <2>2 DEF Walks, WalkOK, OnPath
  <2>3. CASE pc # "walk"
    BY <2>1, <2>3 DEF Walks
  <2> QED
    BY <2>1, <2>2, <2>3 DEF Walks
<1>6. /\ hinted \in Nat /\ phase \in {"running", "deleting", "deleted"}
      /\ createComplete \in BOOLEAN /\ queueFull \in BOOLEAN /\ open \in BOOLEAN
  BY InvFacts DEF PlainOK
<1>7. /\ freelist \in Seq(Nodes \ {0}) /\ inProgress \subseteq Paths /\ persisted \in Seq(Paths)
      /\ external \subseteq Names
  BY InvParts
<1> QED
  BY <1>1, <1>2, <1>3, <1>4, <1>5, <1>6, <1>7 DEF TypeOK

\* Every request is in the tree or free, and the pending counts are right.
LEMMA InvTree ==
  ASSUME NEW rank, Inv(rank)
  PROVE  TreeIsSound
<1>1. FreeOK(freelist)
  BY InvParts DEF Shape
<1>2. /\ LiveNodes \cap ToSet(freelist) = {}
      /\ Cardinality(LiveNodes) + Len(freelist) = MAX_PRELOADER_REQUESTS
  BY <1>1, InvParts, FreeCount
<1>3. ASSUME NEW i \in LiveNodes
      PROVE  /\ \A k \in ChildrenOf(i) : req[k].parent = i
             /\ req[i].pending = Cardinality({k \in ChildrenOf(i) : req[k].result = PENDING})
  <2>1. i \in Live(freelist)
    BY InvParts
  <2>2. ChildrenOf(i) = Kids(req, freelist, i)
    <3>1. PICK s : s = Tree
      OBVIOUS
    <3>2. s.req = req /\ s.free = freelist
      BY <3>1, TreeParts
    <3>3. s.req \in [Nodes -> Requests] /\ Shape(s.req, s.free) /\ i \in Live(s.free)
      BY <2>1, <3>2, InvParts
    <3>4. Children(s, i) = Kids(s.req, s.free, i)
      BY <3>3, ChildrenAreKids
    <3> QED
      BY <3>1, <3>2, <3>4 DEF ChildrenOf
  <2>3. req[i].pending = Cardinality(PendingKids(req, freelist, i))
    BY <2>1, InvParts DEF NodeOK
  <2> QED
    BY <2>2, <2>3 DEF PendingKids, Kids
<1> QED
  BY <1>2, <1>3, InvTypes DEF TreeIsSound

\* The load queue and the hints name requests that are being loaded.
LEMMA InvWorker ==
  ASSUME NEW rank, Inv(rank)
  PROVE  WorkerNamesLiveRequests
<1>1. LiveNodes = Live(freelist) /\ ProgressOK(req, freelist, inProgress)
  BY InvParts
<1>2. OneLoadPerPath
  <2>1. PICK busy : busy = {i \in LiveNodes : req[i].loading \/ req[i].buffer}
    OBVIOUS
  <2>2. busy = Busy(req, freelist)
    BY <1>1, <2>1 DEF Busy
  <2>3. IsFiniteSet(busy)
    BY <2>2, LiveFinite DEF Busy, Live
  <2>4. inProgress = {PathOf(req[i]) : i \in busy}
    BY <1>1, <2>2 DEF ProgressOK
  <2>5. PICK f : f = [i \in busy |-> PathOf(req[i])]
    OBVIOUS
  <2>6. DOMAIN f = busy /\ \A i \in busy : f[i] = PathOf(req[i])
    BY <2>5
  <2>7. \A x, y \in busy : f[x] = f[y] => x = y
    BY <1>1, <2>2, <2>6 DEF ProgressOK
  <2>8. Cardinality({f[i] : i \in busy}) = Cardinality(busy)
    BY <2>3, <2>6, <2>7, ImageCount
  <2>9. {f[i] : i \in busy} = inProgress
    BY <2>4, <2>6
  <2> QED
    BY <2>1, <2>4, <2>8, <2>9 DEF OneLoadPerPath
<1>3. LoadingNodes = Loaders(req, freelist)
  BY <1>1 DEF LoadingNodes, Loaders
<1>4. QueueOK(LoadingNodes, requests)
  BY <1>3, InvFacts
<1>5. /\ DOMAIN requests = 1 .. Len(requests) /\ Len(requests) \in Nat
  BY <1>4, LenProperties DEF QueueOK
<1>6. {requests[k].name : k \in Outstanding} = LoadingNodes
  <2>1. \A k \in Outstanding : requests[k].name \in LoadingNodes
    BY <1>4, <1>5 DEF QueueOK, Outstanding
  <2>2. \A i \in LoadingNodes : \E k \in Outstanding : requests[k].name = i
    BY <1>4, <1>5 DEF QueueOK, Outstanding
  <2> QED
    BY <2>1, <2>2
<1>7. Cardinality(Outstanding) = Cardinality(LoadingNodes)
  <2>1. IsFiniteSet(Outstanding)
    <3>1. IsFiniteSet(1 .. Len(requests)) /\ Outstanding \subseteq 1 .. Len(requests)
      BY <1>5, FS_Interval DEF Outstanding
    <3> QED
      BY <3>1, FS_Subset
  <2>2. PICK f : f = [k \in Outstanding |-> requests[k].name]
    OBVIOUS
  <2>3. DOMAIN f = Outstanding /\ \A k \in Outstanding : f[k] = requests[k].name
    BY <2>2
  <2>4. \A x, y \in Outstanding : f[x] = f[y] => x = y
    BY <1>4, <1>5, <2>3 DEF QueueOK, Outstanding
  <2>5. Cardinality({f[k] : k \in Outstanding}) = Cardinality(Outstanding)
    BY <2>1, <2>3, <2>4, ImageCount
  <2>6. {f[k] : k \in Outstanding} = LoadingNodes
    BY <1>6, <2>3
  <2> QED
    BY <2>5, <2>6
<1>8. \A k \in DOMAIN newHints : newHints[k].parent \in LoadingNodes
  <2>1. HintsOK(rank, req, freelist, newHints)
    BY InvFacts
  <2>2. DOMAIN newHints = 1 .. Len(newHints)
    BY <2>1, LenProperties DEF HintsOK
  <2> QED
    BY <1>3, <2>1, <2>2 DEF HintsOK, HintOK
<1> QED
  BY <1>2, <1>6, <1>7, <1>8 DEF WorkerNamesLiveRequests

\* The reference counts are exact.
LEMMA InvCounts ==
  ASSUME NEW rank, Inv(rank)
  PROVE  ReferenceCountsExact
<1>1. /\ LiveNodes = Live(freelist) /\ Accounts(Tree, external, <<>>) /\ external \in SUBSET Names
      /\ persisted \in Seq(Paths) /\ post \in Seq(Callbacks)
  BY InvParts
<1>2. Tree \in TreeStates
  BY InvFacts, SoundFacts
<1>3. PICK u : u = Used(external, req, freelist, persisted, post)
  OBVIOUS
<1>4. Exact(Factory(Tree), u)
  BY <1>1, <1>2, <1>3, AccountsNothing, TreeParts
<1>5. Factory(Tree).res = res
  BY <1>2, FactoryOf, TreeParts
<1>6. ASSUME NEW p \in Paths PROVE res[p].count = ReferencesTo(p)
  <2>1. res[p].count = u[p] + Cardinality(HoldersOf(res, p))
    BY <1>4, <1>5 DEF Exact
  <2>2. PICK e \in Nat, n \in Nat, t \in Nat, d \in Nat :
          /\ e = Cardinality(ExternalAt(external, p)) /\ n = Cardinality(NodesAt(req, freelist, p))
          /\ t = Times(p, persisted) /\ d = Cardinality(DoomedHoldersOf(post, p))
    BY <1>1, UsedType
  <2>3. u[p] = e + n + t + d
    BY <1>3, <2>2 DEF Used, UsedAt
  <2>4. PICK h \in Nat : h = Cardinality(HoldersOf(res, p))
    <3>1. res \in [Paths -> Resources]
      BY InvParts
    <3> QED
      BY <3>1, HoldersHeld
  <2>5. (e + n + t + d) + h = e + n + t + h + d
    OBVIOUS
  <2>6. ExternalAt(external, p) = {m \in external : CanonicalPath[m] = p}
    BY DEF ExternalAt
  <2>7. NodesAt(req, freelist, p) = {i \in LiveNodes : req[i].resource /\ PathOf(req[i]) = p}
    BY <1>1 DEF NodesAt
  <2>8. ReferencesTo(p) = e + n + t + h + d
    BY <2>2, <2>4, <2>6, <2>7 DEF ReferencesTo
  <2> QED
    BY <2>1, <2>3, <2>4, <2>5, <2>8
<1>7. \A p \in Paths : res[p].lost # <<>> => PostCreateFails(p)
  BY <1>4, <1>5 DEF Exact, Sane
<1> QED
  BY <1>6, <1>7 DEF ReferenceCountsExact

-----------------------------------------------------------------------------
(* The theorems. *)

\* No resource of the world depends on itself: the paths have ranks, and what a resource
\* refers to has a lower one.  When several names are given, the first is of a known type and
\* stands above the others, which are inserted as its children.
AcyclicWorld == \E rank : RefsDescend(rank) /\ NamesDescend(world, rank, world.names)

IInv == \E rank : Inv(rank)

\* The inductive invariant holds in every state a preloader reaches.
LEMMA Invariance == Spec /\ AcyclicWorld => []IInv
<1>1. Init /\ AcyclicWorld => IInv
  BY InitInv DEF AcyclicWorld, IInv
<1>2. ASSUME IInv, [Next]_vars PROVE IInv'
  <2>1. PICK rank : Inv(rank)
    BY <1>2 DEF IInv
  <2>2. Inv(rank)'
    BY <1>2, <2>1, NextKeeps
  <2> QED
    BY <2>2 DEF IInv
<1> QED
  BY <1>1, <1>2, PTL DEF Spec

\* The tree of requests stays sound (UpdatePreloader, PreloaderTreeInsert, RemoveChildren and
\* the rest of resource_preloader.cpp), however the worker's answers and hints interleave with
\* the walk: every request is in the tree or free, once, and m_PendingChildCount is exact.
THEOREM TreeStaysSound == Spec /\ AcyclicWorld => []TreeIsSound
<1>1. IInv => TreeIsSound
  BY InvTree DEF IInv
<1> QED
  BY <1>1, Invariance, PTL

\* No request is freed, and its index used again, while the load queue or a hint names it, and
\* no two requests load one path (MarkPathInProgress, BeginLoad, FreeLoad).
THEOREM WorkerStaysInTree == Spec /\ AcyclicWorld => []WorkerNamesLiveRequests
<1>1. IInv => WorkerNamesLiveRequests
  BY InvWorker DEF IInv
<1> QED
  BY <1>1, Invariance, PTL

\* None of the asserts of the preloader and of Release ever fails.
THEOREM AssertsHold == Spec /\ AcyclicWorld => []NoAssertFails
<1>1. IInv => NoAssertFails
  BY InvParts DEF IInv, NoAssertFails
<1> QED
  BY <1>1, Invariance, PTL

\* Every reference count of the factory is the number of references that the preloader, other
\* users, loaded resources and abandoned instances hold (CreateResource, PreloaderRemoveLeaf,
\* DeletePreloader), and an instance is abandoned only when its PostCreate fails inside Get
\* (DoCreateResource): that is the one way a resource outlives its users.
THEOREM CountsStayExact == Spec /\ AcyclicWorld => []ReferenceCountsExact
<1>1. IInv => ReferenceCountsExact
  BY InvCounts DEF IInv
<1> QED
  BY <1>1, Invariance, PTL

=============================================================================
