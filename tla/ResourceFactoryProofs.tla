----------------------- MODULE ResourceFactoryProofs -----------------------
(***************************************************************************)
(* Proofs about ResourceFactory: what Release, Get and the create function *)
(* do to the reference counts, for every set of names and paths and every  *)
(* world in which no resource refers to itself, through others or not.     *)
(***************************************************************************)
EXTENDS ResourceFactory, SequenceTheorems, FunctionTheorems, FiniteSetTheorems,
        NaturalsInduction, TLAPS

-----------------------------------------------------------------------------
(* Induction over the rounds of a loop. *)

\* A set of numbers that is not empty has a least element.
LEMMA LeastOf ==
  ASSUME NEW T, T \subseteq Nat, T # {}
  PROVE  \E x \in T : \A y \in T : x <= y
<1> DEFINE R == OpToRel(<, Nat)
<1>1. IsWellFoundedOn(R, Nat)
  BY NatLessThanWellFounded
<1>2. \A x, y \in Nat : ~(<<y, x>> \in R) => x <= y
  BY DEF OpToRel
<1> HIDE DEF R
<1>3. PICK x \in T : \A y \in T : ~ (<<y, x>> \in R)
  BY <1>1, WFMin
<1>4. x \in Nat /\ \A y \in T : y \in Nat
  OBVIOUS
<1> QED
  BY <1>2, <1>3, <1>4

\* What holds before the first round, and after a round if it held before it, holds
\* after every round.
LEMMA EveryRound ==
  ASSUME NEW L \in Nat, NEW S, 0 \in S,
         \A n \in 0 .. L : n \in S /\ n < L => n + 1 \in S
  PROVE  0 .. L \subseteq S
<1> SUFFICES ASSUME ~(0 .. L \subseteq S) PROVE FALSE
  OBVIOUS
<1> DEFINE T == {n \in 0 .. L : n \notin S}
<1>1. T \subseteq Nat /\ T # {}
  OBVIOUS
<1>2. PICK x \in T : \A y \in T : x <= y
  BY <1>1, LeastOf
<1>3. x # 0 /\ x \in 1 .. L
  BY <1>2
<1>4. x - 1 \in 0 .. L /\ x - 1 < L /\ (x - 1) + 1 = x
  BY <1>3
<1>5. x - 1 \notin T
  BY <1>2, <1>3
<1> QED
  BY <1>2, <1>4, <1>5

-----------------------------------------------------------------------------
(* Counting references in sequences of paths. *)

\* The places of a path in a sequence are finitely many.
LEMMA TimesType ==
  ASSUME NEW s \in Seq(Paths), NEW p
  PROVE  /\ IsFiniteSet(PlacesOf(p, s))
         /\ Times(p, s) \in Nat
<1>1. Len(s) \in Nat /\ DOMAIN s = 1 .. Len(s)
  BY LenProperties
<1>2. IsFiniteSet(1 .. Len(s))
  BY <1>1, FS_Interval
<1>3. PlacesOf(p, s) \in SUBSET (1 .. Len(s))
  BY <1>1 DEF PlacesOf
<1>4. IsFiniteSet(PlacesOf(p, s))
  BY <1>2, <1>3, FS_Subset
<1> QED
  BY <1>4, FS_CardinalityType DEF Times

\* The empty sequence holds nothing.
LEMMA TimesEmpty == \A p : Times(p, <<>>) = 0
<1> SUFFICES ASSUME NEW p PROVE Times(p, <<>>) = 0
  OBVIOUS
<1>1. PlacesOf(p, <<>>) = {}
  BY DEF PlacesOf
<1> QED
  BY <1>1, FS_EmptySet DEF Times

\* Two sequences one after the other hold what both hold.
LEMMA TimesConcat ==
  ASSUME NEW s \in Seq(Paths), NEW t \in Seq(Paths), NEW p
  PROVE  Times(p, s \o t) = Times(p, s) + Times(p, t)
<1>1. PICK m \in Nat : m = Len(s) /\ DOMAIN s = 1 .. m
  BY LenProperties
<1>2. PICK n \in Nat : n = Len(t) /\ DOMAIN t = 1 .. n
  BY LenProperties
<1>3. /\ DOMAIN (s \o t) = 1 .. (m + n)
      /\ \A i \in 1 .. (m + n) : (s \o t)[i] = IF i <= m THEN s[i] ELSE t[i - m]
  <2>1. /\ s \o t \in Seq(Paths) /\ Len(s \o t) = m + n
        /\ \A i \in 1 .. (m + n) : (s \o t)[i] = IF i <= m THEN s[i] ELSE t[i - m]
    BY <1>1, <1>2, ConcatProperties
  <2> QED
    BY <2>1, LenProperties
<1>4. PICK A : A = {k \in 1 .. m : s[k] = p}
  OBVIOUS
<1>5. PICK B : B = {k \in 1 .. n : t[k] = p}
  OBVIOUS
<1>6. PICK C : C = {k \in (m + 1) .. (m + n) : t[k - m] = p}
  OBVIOUS
<1>7. PlacesOf(p, s \o t) = A \cup C /\ A \cap C = {}
  BY SMTT(60), <1>3, <1>4, <1>6 DEF PlacesOf
<1>8. IsFiniteSet(A) /\ IsFiniteSet(B) /\ Times(p, s) = Cardinality(A)
      /\ Times(p, t) = Cardinality(B) /\ Cardinality(A) \in Nat /\ Cardinality(B) \in Nat
  BY <1>1, <1>2, <1>4, <1>5, TimesType DEF Times, PlacesOf
<1>9. IsFiniteSet(C) /\ Cardinality(C) = Cardinality(B)
  <2>1. PICK f : f = [k \in B |-> k + m]
    OBVIOUS
  <2>2. f \in Bijection(B, C)
    <3>1. f \in [B -> C]
      BY <1>5, <1>6, <2>1
    <3>2. \A k, l \in B : f[k] = f[l] => k = l
      BY <1>5, <2>1
    <3>3. \A c \in C : \E k \in B : f[k] = c
      <4> SUFFICES ASSUME NEW c \in C PROVE \E k \in B : f[k] = c
        OBVIOUS
      <4>1. c - m \in B /\ f[c - m] = c
        BY <1>5, <1>6, <2>1
      <4> QED
        BY <4>1
    <3> QED
      BY <3>1, <3>2, <3>3, Fun_IsBij
  <2>3. ExistsBijection(B, C)
    BY <2>2 DEF ExistsBijection
  <2> QED
    BY <1>8, <2>3, FS_Bijection
<1>10. Cardinality(A \cup C) = Cardinality(A) + Cardinality(C) - Cardinality(A \cap C)
  BY <1>8, <1>9, FS_Union
<1>11. Cardinality(A \cap C) = 0
  BY <1>7, FS_EmptySet
<1>12. Times(p, s \o t) = Cardinality(A \cup C)
  BY <1>7 DEF Times
<1> QED
  BY <1>8, <1>9, <1>10, <1>11, <1>12

\* One reference.
LEMMA TimesSingle ==
  ASSUME NEW x \in Paths, NEW p
  PROVE  Times(p, <<x>>) = IF x = p THEN 1 ELSE 0
<1>1. CASE x = p
  <2>1. PlacesOf(p, <<x>>) = {1}
    BY <1>1 DEF PlacesOf
  <2> QED
    BY <1>1, <2>1, FS_Singleton DEF Times
<1>2. CASE x # p
  <2>1. PlacesOf(p, <<x>>) = {}
    BY <1>2 DEF PlacesOf
  <2> QED
    BY <1>2, <2>1, FS_EmptySet DEF Times
<1> QED
  BY <1>1, <1>2

\* One more reference at the end.
LEMMA TimesAppend ==
  ASSUME NEW s \in Seq(Paths), NEW x \in Paths, NEW p
  PROVE  Times(p, Append(s, x)) = Times(p, s) + (IF x = p THEN 1 ELSE 0)
<1>1. Append(s, x) = s \o <<x>> /\ <<x>> \in Seq(Paths)
  BY AppendIsConcat
<1>2. Times(p, s \o <<x>>) = Times(p, s) + Times(p, <<x>>)
  BY <1>1, TimesConcat
<1> QED
  BY <1>1, <1>2, TimesSingle

\* The first reference and the others.
LEMMA TimesTail ==
  ASSUME NEW s \in Seq(Paths), s # <<>>, NEW p
  PROVE  /\ Head(s) \in Paths /\ Tail(s) \in Seq(Paths)
         /\ Times(p, s) = (IF Head(s) = p THEN 1 ELSE 0) + Times(p, Tail(s))
<1>1. Head(s) \in Paths /\ Tail(s) \in Seq(Paths)
  BY HeadTailProperties
<1>2. s = <<Head(s)>> \o Tail(s)
  OBVIOUS
<1>3. <<Head(s)>> \in Seq(Paths)
  BY <1>1
<1>4. Times(p, <<Head(s)>> \o Tail(s)) = Times(p, <<Head(s)>>) + Times(p, Tail(s))
  BY <1>1, <1>3, TimesConcat
<1> QED
  BY <1>1, <1>2, <1>4, TimesSingle

-----------------------------------------------------------------------------
(***************************************************************************)
(* References held by many: "refs" gives the sequence of references of     *)
(* each member of S, and a reference is a member and a place.              *)
(***************************************************************************)
HeldBy(S, refs, p) == UNION {{q} \X PlacesOf(p, refs[q]) : q \in S}

\* The references a member holds are as many as the places in its sequence.
LEMMA HeldByOne ==
  ASSUME NEW s \in Seq(Paths), NEW q, NEW p
  PROVE  /\ IsFiniteSet({q} \X PlacesOf(p, s))
         /\ Cardinality({q} \X PlacesOf(p, s)) = Times(p, s)
<1>1. PICK A : A = PlacesOf(p, s)
  OBVIOUS
<1>2. IsFiniteSet(A) /\ Cardinality(A) = Times(p, s) /\ Times(p, s) \in Nat
  BY <1>1, TimesType DEF Times
<1>3. IsFiniteSet({q}) /\ Cardinality({q}) = 1
  BY FS_Singleton
<1>4. IsFiniteSet({q} \X A) /\ Cardinality({q} \X A) = Cardinality({q}) * Cardinality(A)
  BY <1>2, <1>3, FS_Product
<1>5. Cardinality({q} \X A) = Times(p, s)
  BY <1>2, <1>3, <1>4
<1> QED
  BY <1>1, <1>4, <1>5

\* Finitely many members hold finitely many references.
LEMMA HeldByFinite ==
  ASSUME NEW S, IsFiniteSet(S), NEW refs, \A q \in S : refs[q] \in Seq(Paths), NEW p
  PROVE  IsFiniteSet(HeldBy(S, refs, p)) /\ Cardinality(HeldBy(S, refs, p)) \in Nat
<1>1. PICK f : f = [q \in S |-> {q} \X PlacesOf(p, refs[q])]
  OBVIOUS
<1>2. PICK T : T = {{q} \X PlacesOf(p, refs[q]) : q \in S}
  OBVIOUS
<1>3. f \in Surjection(S, T)
  <2>1. f \in [S -> T] /\ \A t \in T : \E q \in S : f[q] = t
    BY <1>1, <1>2
  <2> QED
    BY <2>1, Fun_IsSurj
<1>4. IsFiniteSet(T)
  BY <1>3, FS_Surjection
<1>5. \A t \in T : IsFiniteSet(t)
  <2> SUFFICES ASSUME NEW q \in S
               PROVE  IsFiniteSet({q} \X PlacesOf(p, refs[q]))
    BY <1>2
  <2>1. refs[q] \in Seq(Paths)
    OBVIOUS
  <2> QED
    BY <2>1, HeldByOne
<1>6. IsFiniteSet(UNION T)
  BY <1>4, <1>5, FS_UNION
<1>7. HeldBy(S, refs, p) = UNION T
  BY <1>2 DEF HeldBy
<1> QED
  BY <1>6, <1>7, FS_CardinalityType

\* A reference is a member and a place in its sequence.
LEMMA HeldByMember ==
  ASSUME NEW S, NEW refs, NEW p, NEW x
  PROVE  x \in HeldBy(S, refs, p) <=>
           \E q \in S : x \in {q} \X PlacesOf(p, refs[q])
BY Zenon DEF HeldBy

\* One member less.
LEMMA HeldByWithout ==
  ASSUME NEW S, IsFiniteSet(S), NEW refs, \A q \in S : refs[q] \in Seq(Paths), NEW p,
         NEW m \in S
  PROVE  Cardinality(HeldBy(S, refs, p)) =
           Cardinality(HeldBy(S \ {m}, refs, p)) + Times(p, refs[m])
<1>1. PICK A : A = HeldBy(S \ {m}, refs, p)
  OBVIOUS
<1>2. PICK B : B = {m} \X PlacesOf(p, refs[m])
  OBVIOUS
<1>3. IsFiniteSet(S \ {m})
  BY FS_RemoveElement
<1>4. IsFiniteSet(A) /\ Cardinality(A) \in Nat
  BY <1>1, <1>3, HeldByFinite
<1>5. IsFiniteSet(B) /\ Cardinality(B) = Times(p, refs[m]) /\ Times(p, refs[m]) \in Nat
  <2>1. refs[m] \in Seq(Paths)
    OBVIOUS
  <2> QED
    BY <1>2, <2>1, HeldByOne, TimesType
<1>6. HeldBy(S, refs, p) = A \cup B
  <2>1. \A x : x \in HeldBy(S, refs, p) <=> x \in A \/ x \in B
    BY <1>1, <1>2, Zenon DEF HeldBy
  <2> QED
    BY <2>1
<1>7. A \cap B = {}
  <2> SUFFICES ASSUME NEW x \in A, x \in B PROVE FALSE
    OBVIOUS
  <2>1. PICK q \in S \ {m} : x \in {q} \X PlacesOf(p, refs[q])
    BY <1>1, HeldByMember
  <2>2. x[1] = q /\ x[1] = m
    BY <1>2, <2>1
  <2> QED
    BY <2>1, <2>2
<1>8. Cardinality(A \cup B) = Cardinality(A) + Cardinality(B) - Cardinality(A \cap B)
  BY <1>4, <1>5, FS_Union
<1>9. Cardinality(A \cap B) = 0
  BY <1>7, FS_EmptySet
<1> QED
  BY <1>1, <1>4, <1>5, <1>6, <1>8, <1>9

\* Only the sequences of the members count.
LEMMA HeldBySame ==
  ASSUME NEW S, NEW r1, NEW r2, \A q \in S : r1[q] = r2[q], NEW p
  PROVE  HeldBy(S, r1, p) = HeldBy(S, r2, p)
<1>1. \A x : x \in HeldBy(S, r1, p) <=> x \in HeldBy(S, r2, p)
  BY Zenon DEF HeldBy
<1> QED
  BY <1>1

\* Giving the members other names changes nothing.
LEMMA HeldByRenamed ==
  ASSUME NEW S, IsFiniteSet(S), NEW r1, \A q \in S : r1[q] \in Seq(Paths), NEW p,
         NEW T, NEW r2, NEW b \in Bijection(S, T), \A q \in S : r2[b[q]] = r1[q]
  PROVE  Cardinality(HeldBy(T, r2, p)) = Cardinality(HeldBy(S, r1, p))
<1>0. /\ b \in [S -> T] /\ \A x, y \in S : b[x] = b[y] => x = y
      /\ \A t \in T : \E x \in S : b[x] = t
  BY Zenon DEF Bijection, Injection, Surjection, IsInjective
<1>1. PICK A : A = HeldBy(S, r1, p)
  OBVIOUS
<1>2. PICK B : B = HeldBy(T, r2, p)
  OBVIOUS
<1>3. \A x : x \in A <=> \E q \in S : x \in {q} \X PlacesOf(p, r1[q])
  BY <1>1, Zenon DEF HeldBy
<1>4. \A x : x \in B <=> \E q \in T : x \in {q} \X PlacesOf(p, r2[q])
  BY <1>2, Zenon DEF HeldBy
<1>5. PICK f : f = [x \in A |-> <<b[x[1]], x[2]>>]
  OBVIOUS
<1>6. ASSUME NEW x \in A
      PROVE  x[1] \in S /\ x = <<x[1], x[2]>> /\ x[2] \in PlacesOf(p, r1[x[1]])
  BY <1>3
<1>7. f \in [A -> B]
  <2> SUFFICES ASSUME NEW x \in A PROVE <<b[x[1]], x[2]>> \in B
    BY <1>5
  <2>1. b[x[1]] \in T /\ r2[b[x[1]]] = r1[x[1]]
    BY <1>0, <1>6
  <2> QED
    BY <1>4, <1>6, <2>1
<1>8. \A x, y \in A : f[x] = f[y] => x = y
  <2> SUFFICES ASSUME NEW x \in A, NEW y \in A, f[x] = f[y] PROVE x = y
    OBVIOUS
  <2>1. b[x[1]] = b[y[1]] /\ x[2] = y[2]
    BY <1>5
  <2> QED
    BY <1>0, <1>6, <2>1
<1>9. \A y \in B : \E x \in A : f[x] = y
  <2> SUFFICES ASSUME NEW y \in B PROVE \E x \in A : f[x] = y
    OBVIOUS
  <2>1. PICK t \in T : y \in {t} \X PlacesOf(p, r2[t])
    BY <1>4
  <2>2. PICK q \in S : b[q] = t
    BY <1>0
  <2>3. y = <<t, y[2]>> /\ y[2] \in PlacesOf(p, r1[q])
    BY <2>1, <2>2
  <2>4. <<q, y[2]>> \in A
    BY <1>3, <2>3
  <2>5. f[<<q, y[2]>>] = y
    BY <1>5, <2>2, <2>3, <2>4
  <2> QED
    BY <2>4, <2>5
<1>10. f \in Bijection(A, B)
  BY <1>7, <1>8, <1>9, Fun_IsBij
<1>11. ExistsBijection(A, B)
  BY <1>10 DEF ExistsBijection
<1>12. IsFiniteSet(A)
  BY <1>1, HeldByFinite
<1> QED
  BY <1>1, <1>2, <1>11, <1>12, FS_Bijection

-----------------------------------------------------------------------------
(***************************************************************************)
(* The table of resources.  "users" gives, for every path, the references  *)
(* to it that are not held by resources; a sequence of paths adds to it.   *)
(***************************************************************************)
Users == [Paths -> Nat]
Plus(users, paths) == [p \in Paths |-> users[p] + Times(p, paths)]

\* A table whose unloaded resources hold nothing, in which references are lost only where a
\* PostCreate function fails; and no assert has failed.
Sane(f) ==
  /\ f \in FactoryStates /\ f.abort = "none"
  /\ \A p \in Paths : f.res[p].count = 0 => f.res[p].refs = <<>>
  /\ \A p \in Paths : f.res[p].lost # <<>> => PostCreateFails(p)

\* Every reference count is the number of references that are held, by the users, by the
\* resources of the table and by the instances that were abandoned.
Exact(f, users) ==
  /\ Sane(f)
  /\ \A p \in Paths : f.res[p].count = users[p] + Cardinality(HoldersOf(f.res, p))

\* Callbacks that differ in whether their resource is still there, and in nothing else.
SameCallbacks(a, b) ==
  /\ Len(a) = Len(b)
  /\ \A k \in 1 .. Len(a) : a[k].path = b[k].path /\ a[k].destroy = b[k].destroy
                            /\ a[k].refs = b[k].refs

\* Adding references gives numbers.
LEMMA PlusType ==
  ASSUME NEW users \in Users, NEW s \in Seq(Paths)
  PROVE  /\ Plus(users, s) \in Users
         /\ \A p \in Paths : Plus(users, s)[p] = users[p] + Times(p, s)
<1>1. \A p \in Paths : Times(p, s) \in Nat
  BY TimesType
<1> QED
  BY <1>1 DEF Plus, Users

\* One more user of a path.
LEMMA PlusOne ==
  ASSUME NEW users \in Users, NEW x \in Paths
  PROVE  /\ Plus(users, <<x>>)[x] = users[x] + 1
         /\ \A q \in Paths : q # x => Plus(users, <<x>>)[q] = users[q]
<1>1. <<x>> \in Seq(Paths)
  OBVIOUS
<1>2. \A q \in Paths : Plus(users, <<x>>)[q] = users[q] + Times(q, <<x>>)
  BY <1>1, PlusType
<1>3. Times(x, <<x>>) = 1 /\ \A q : q # x => Times(q, <<x>>) = 0
  BY TimesSingle
<1> QED
  BY <1>2, <1>3 DEF Users

\* Users are determined by their numbers.
LEMMA UsersEqual ==
  ASSUME NEW u \in Users, NEW v \in Users, \A p \in Paths : u[p] = v[p]
  PROVE  u = v
BY DEF Users

\* The fields of a state of the factory.
LEMMA FactoryFields ==
  ASSUME NEW f \in FactoryStates
  PROVE  /\ f = [res |-> f.res, post |-> f.post, abort |-> f.abort]
         /\ f.res \in [Paths -> Resources] /\ f.post \in Seq(Callbacks) /\ f.abort \in Aborts
         /\ \A p \in Paths : f.res[p].count \in Nat /\ f.res[p].refs \in Seq(Paths)
                              /\ f.res[p].lost \in Seq(Paths)
BY DEF FactoryStates, Resources

\* What a resource and its abandoned instances hold.
LEMMA HeldTimes ==
  ASSUME NEW r \in Resources
  PROVE  /\ r.refs \in Seq(Paths) /\ r.lost \in Seq(Paths) /\ Held(r) \in Seq(Paths)
         /\ \A p : /\ Times(p, Held(r)) = Times(p, r.refs) + Times(p, r.lost)
                  /\ Times(p, r.refs) \in Nat /\ Times(p, r.lost) \in Nat
                  /\ Times(p, Held(r)) \in Nat
<1>1. r.refs \in Seq(Paths) /\ r.lost \in Seq(Paths)
  BY DEF Resources
<1>2. Held(r) \in Seq(Paths)
  BY <1>1 DEF Held
<1>3. \A p : Times(p, Held(r)) = Times(p, r.refs) + Times(p, r.lost)
  BY <1>1, TimesConcat DEF Held
<1>4. \A p : Times(p, r.refs) \in Nat /\ Times(p, r.lost) \in Nat /\ Times(p, Held(r)) \in Nat
  BY <1>1, <1>2, TimesType
<1> QED
  BY <1>1, <1>2, <1>3, <1>4

\* The references that a table's resources hold, as references held by many.
LEMMA HoldersHeld ==
  ASSUME NEW table \in [Paths -> Resources], NEW p
  PROVE  /\ HoldersOf(table, p) = HeldBy(Paths, [q \in Paths |-> Held(table[q])], p)
         /\ IsFiniteSet(HoldersOf(table, p)) /\ Cardinality(HoldersOf(table, p)) \in Nat
<1>1. PICK r : r = [q \in Paths |-> Held(table[q])]
  OBVIOUS
<1>2. \A q \in Paths : r[q] = Held(table[q]) /\ r[q] \in Seq(Paths)
  BY <1>1, HeldTimes
<1>3. HoldersOf(table, p) = HeldBy(Paths, r, p)
  <2>1. \A x : x \in HoldersOf(table, p) <=> \E q \in Paths : x \in {q} \X PlacesOf(p, Held(table[q]))
    BY Zenon DEF HoldersOf
  <2>2. \A x : x \in HeldBy(Paths, r, p) <=> \E q \in Paths : x \in {q} \X PlacesOf(p, r[q])
    BY HeldByMember
  <2>3. \A x : x \in HoldersOf(table, p) <=> x \in HeldBy(Paths, r, p)
    BY <1>2, <2>1, <2>2
  <2> QED
    BY <2>3
<1>4. IsFiniteSet(Paths)
  BY NamesAssumption
<1>5. IsFiniteSet(HeldBy(Paths, r, p)) /\ Cardinality(HeldBy(Paths, r, p)) \in Nat
  BY <1>2, <1>4, HeldByFinite
<1> QED
  BY <1>1, <1>3, <1>5

\* Sequences of references that differ for one member.
LEMMA HeldByReplaced ==
  ASSUME NEW r, NEW s, \A q \in Paths : r[q] \in Seq(Paths) /\ s[q] \in Seq(Paths),
         NEW x \in Paths, \A q \in Paths \ {x} : r[q] = s[q], NEW p
  PROVE  Cardinality(HeldBy(Paths, r, p)) + Times(p, s[x]) =
           Cardinality(HeldBy(Paths, s, p)) + Times(p, r[x])
<1>1. IsFiniteSet(Paths) /\ IsFiniteSet(Paths \ {x})
  BY NamesAssumption, FS_RemoveElement
<1>2. Cardinality(HeldBy(Paths, r, p)) = Cardinality(HeldBy(Paths \ {x}, r, p)) + Times(p, r[x])
  BY <1>1, HeldByWithout
<1>3. Cardinality(HeldBy(Paths, s, p)) = Cardinality(HeldBy(Paths \ {x}, s, p)) + Times(p, s[x])
  BY <1>1, HeldByWithout
<1>4. HeldBy(Paths \ {x}, r, p) = HeldBy(Paths \ {x}, s, p)
  BY HeldBySame
<1>5. Cardinality(HeldBy(Paths \ {x}, r, p)) \in Nat
  BY <1>1, HeldByFinite
<1>6. Times(p, r[x]) \in Nat /\ Times(p, s[x]) \in Nat
  BY TimesType
<1> QED
  BY <1>2, <1>3, <1>4, <1>5, <1>6

\* Two tables that differ at most in what one resource holds.
AlikeBut(x, a, b) == \A q \in Paths : q # x => Held(a[q]) = Held(b[q])

\* A table that differs in what one resource holds.
LEMMA HoldersReplaced ==
  ASSUME NEW a \in [Paths -> Resources], NEW b \in [Paths -> Resources], NEW x \in Paths,
         AlikeBut(x, a, b), NEW p
  PROVE  Cardinality(HoldersOf(a, p)) + Times(p, Held(b[x])) =
           Cardinality(HoldersOf(b, p)) + Times(p, Held(a[x]))
<1>1. PICK r : r = [q \in Paths |-> Held(a[q])]
  OBVIOUS
<1>2. PICK s : s = [q \in Paths |-> Held(b[q])]
  OBVIOUS
<1>3. /\ \A q \in Paths : r[q] \in Seq(Paths) /\ s[q] \in Seq(Paths)
      /\ r[x] = Held(a[x]) /\ s[x] = Held(b[x])
      /\ \A q \in Paths \ {x} : r[q] = s[q]
  BY <1>1, <1>2, HeldTimes DEF AlikeBut
<1>4. Cardinality(HeldBy(Paths, r, p)) + Times(p, s[x]) =
        Cardinality(HeldBy(Paths, s, p)) + Times(p, r[x])
  <2>1. \A q \in Paths : r[q] \in Seq(Paths) /\ s[q] \in Seq(Paths)
    BY <1>3
  <2>2. \A q \in Paths \ {x} : r[q] = s[q]
    BY <1>3
  <2> QED
    BY <2>1, <2>2, HeldByReplaced
<1>5. HoldersOf(a, p) = HeldBy(Paths, r, p) /\ HoldersOf(b, p) = HeldBy(Paths, s, p)
  BY <1>1, <1>2, HoldersHeld
<1> QED
  BY <1>3, <1>4, <1>5

\* A table in which the resources hold the same.
LEMMA HoldersSame ==
  ASSUME NEW a \in [Paths -> Resources], NEW b \in [Paths -> Resources],
         \A q \in Paths : Held(a[q]) = Held(b[q]), NEW p
  PROVE  HoldersOf(a, p) = HoldersOf(b, p)
<1>1. PICK r : r = [q \in Paths |-> Held(a[q])]
  OBVIOUS
<1>2. [q \in Paths |-> Held(b[q])] = r
  BY <1>1
<1> QED
  BY <1>1, <1>2, HoldersHeld

-----------------------------------------------------------------------------
(* One operation on the table. *)

\* A new reference to a resource is one more of its users.
LEMMA IncRefExact ==
  ASSUME NEW f, NEW users \in Users, Exact(f, users), NEW x \in Paths, Loaded(f, x)
  PROVE  /\ Exact(IncRef(f, x), Plus(users, <<x>>))
         /\ IncRef(f, x).post = f.post
         /\ \A q \in Paths : Loaded(IncRef(f, x), q) => Loaded(f, q)
<1>1. f \in FactoryStates /\ f.abort = "none" /\ Sane(f)
  BY DEF Exact, Sane
<1>2. PICK n \in Nat : n = f.res[x].count
  BY <1>1, FactoryFields
<1>3. PICK g : g = IncRef(f, x)
  OBVIOUS
<1>4. /\ g \in FactoryStates /\ g.abort = "none" /\ g.post = f.post
      /\ g.res \in [Paths -> Resources]
      /\ \A q \in Paths : g.res[q].refs = f.res[q].refs /\ g.res[q].lost = f.res[q].lost
      /\ g.res[x].count = n + 1
      /\ \A q \in Paths : q # x => g.res[q].count = f.res[q].count
  <2>1. f.res \in [Paths -> Resources] /\ f.res[x] \in Resources
    BY <1>1, FactoryFields
  <2>0. PICK r0 \in Resources : r0 = f.res[x]
    BY <2>1
  <2>2. PICK r : r = [r0 EXCEPT !.count = n + 1]
    OBVIOUS
  <2>3. r \in Resources /\ r.refs = r0.refs /\ r.lost = r0.lost /\ r.count = n + 1
    BY <2>2 DEF Resources
  <2>4. PICK T : T = [f.res EXCEPT ![x] = r]
    OBVIOUS
  <2>5. T \in [Paths -> Resources] /\ T[x] = r /\ \A q \in Paths : q # x => T[q] = f.res[q]
    BY <2>1, <2>3, <2>4
  <2>6. g = [f EXCEPT !.res = T]
    BY <1>2, <1>3, <2>0, <2>2, <2>4 DEF IncRef
  <2>7. g \in FactoryStates /\ g.abort = "none" /\ g.post = f.post /\ g.res = T
    BY <1>1, <2>5, <2>6 DEF FactoryStates
  <2>8. \A q \in Paths : f.res[q].count \in Nat
    BY <1>1, FactoryFields
  <2> QED
    BY <1>2, <2>0, <2>3, <2>5, <2>7, <2>8
<1>6. /\ Plus(users, <<x>>)[x] = users[x] + 1
      /\ \A q \in Paths : q # x => Plus(users, <<x>>)[q] = users[q]
  BY PlusOne
<1>7. \A q \in Paths : HoldersOf(g.res, q) = HoldersOf(f.res, q)
  BY <1>1, <1>4, FactoryFields, HoldersSame DEF Held
<1>8. \A q \in Paths : f.res[q].count = users[q] + Cardinality(HoldersOf(f.res, q))
  BY DEF Exact
<1>9. \A q \in Paths : /\ users[q] \in Nat /\ Cardinality(HoldersOf(f.res, q)) \in Nat
                      /\ f.res[q].count \in Nat
  BY <1>1, FactoryFields, HoldersHeld DEF Users
<1>10. Sane(g)
  BY SMTT(60), <1>1, <1>2, <1>4, <1>9 DEF Sane
<1>11. ASSUME NEW q \in Paths
       PROVE  g.res[q].count = Plus(users, <<x>>)[q] + Cardinality(HoldersOf(g.res, q))
  <2>1. PICK c \in Nat : c = Cardinality(HoldersOf(f.res, q)) /\ c = Cardinality(HoldersOf(g.res, q))
    BY <1>7, <1>9
  <2>2. PICK u \in Nat : u = users[q] /\ f.res[q].count = u + c
    BY <1>8, <1>9, <2>1
  <2>3. CASE q = x
    BY <1>2, <1>4, <1>6, <2>1, <2>2, <2>3
  <2>4. CASE q # x
    BY <1>4, <1>6, <2>1, <2>2, <2>4
  <2> QED
    BY <2>3, <2>4
<1>13. Exact(g, Plus(users, <<x>>))
  BY <1>10, <1>11 DEF Exact
<1>12. \A q \in Paths : Loaded(g, q) => Loaded(f, q)
  BY <1>2, <1>4, <1>9 DEF Loaded
<1> QED
  BY <1>3, <1>4, <1>12, <1>13

\* A resource that is inserted takes over the references it was created with.
LEMMA InsertExact ==
  ASSUME NEW f, NEW users \in Users, NEW refs \in Seq(Paths), Exact(f, Plus(users, refs)),
         NEW x \in Paths, ~Loaded(f, x)
  PROVE  /\ Exact(InsertResource(f, x, refs), Plus(users, <<x>>))
         /\ InsertResource(f, x, refs).post = f.post
         /\ \A q \in Paths : q # x /\ Loaded(InsertResource(f, x, refs), q) => Loaded(f, q)
<1>1. f \in FactoryStates /\ f.abort = "none" /\ Sane(f)
  BY DEF Exact, Sane
<1>2. f.res[x].count = 0 /\ f.res[x].refs = <<>>
  <2>1. f.res[x].count \in Nat
    BY <1>1, FactoryFields
  <2> QED
    BY <1>1, <2>1 DEF Sane, Loaded
<1>3. PICK g : g = InsertResource(f, x, refs)
  OBVIOUS
<1>4. /\ g \in FactoryStates /\ g.abort = "none" /\ g.post = f.post
      /\ g.res \in [Paths -> Resources]
      /\ g.res[x].refs = refs /\ g.res[x].count = 1 /\ g.res[x].lost = f.res[x].lost
      /\ \A q \in Paths : q # x => g.res[q] = f.res[q]
  <2>1. f.res \in [Paths -> Resources] /\ f.res[x].lost \in Seq(Paths)
    BY <1>1, FactoryFields
  <2>2. PICK r : r = [count |-> 1, refs |-> refs, lost |-> f.res[x].lost]
    OBVIOUS
  <2>3. r \in Resources /\ r.refs = refs /\ r.count = 1 /\ r.lost = f.res[x].lost
    BY <2>1, <2>2 DEF Resources
  <2>4. PICK T : T = [f.res EXCEPT ![x] = r]
    OBVIOUS
  <2>5. T \in [Paths -> Resources] /\ T[x] = r /\ \A q \in Paths : q # x => T[q] = f.res[q]
    BY <2>1, <2>3, <2>4
  <2>6. g = [f EXCEPT !.res = T]
    BY <1>3, <2>2, <2>4 DEF InsertResource
  <2>7. g \in FactoryStates /\ g.abort = "none" /\ g.post = f.post /\ g.res = T
    BY <1>1, <2>5, <2>6 DEF FactoryStates
  <2> QED
    BY <2>3, <2>5, <2>7
<1>6. /\ Plus(users, <<x>>)[x] = users[x] + 1
      /\ \A q \in Paths : q # x => Plus(users, <<x>>)[q] = users[q]
      /\ \A q \in Paths : Plus(users, refs)[q] = users[q] + Times(q, refs)
  BY PlusOne, PlusType
<1>7. \A q \in Paths : Cardinality(HoldersOf(f.res, q)) + Times(q, refs) =
                        Cardinality(HoldersOf(g.res, q)) + Times(q, <<>>)
  <2>1. f.res \in [Paths -> Resources] /\ AlikeBut(x, f.res, g.res)
    BY <1>1, <1>4, FactoryFields DEF AlikeBut
  <2>2. \A q \in Paths : Cardinality(HoldersOf(f.res, q)) + Times(q, Held(g.res[x])) =
                        Cardinality(HoldersOf(g.res, q)) + Times(q, Held(f.res[x]))
    BY <1>4, <2>1, HoldersReplaced
  <2> SUFFICES ASSUME NEW q \in Paths
               PROVE  Cardinality(HoldersOf(f.res, q)) + Times(q, refs) =
                        Cardinality(HoldersOf(g.res, q)) + Times(q, <<>>)
    OBVIOUS
  <2>3. /\ Cardinality(HoldersOf(f.res, q)) \in Nat /\ Cardinality(HoldersOf(g.res, q)) \in Nat
        /\ Times(q, refs) \in Nat /\ Times(q, f.res[x].lost) \in Nat /\ Times(q, <<>>) = 0
    BY <1>4, <2>1, HoldersHeld, HeldTimes, TimesType, TimesEmpty
  <2>4. PICK c \in Nat, d \in Nat, m \in Nat, l \in Nat :
          /\ c = Cardinality(HoldersOf(f.res, q)) /\ d = Cardinality(HoldersOf(g.res, q))
          /\ m = Times(q, refs) /\ l = Times(q, f.res[x].lost)
    BY <2>3
  <2>5. Times(q, Held(g.res[x])) = m + l /\ Times(q, Held(f.res[x])) = 0 + l
    BY ZenonT(60), <1>2, <1>4, <2>1, <2>3, <2>4, HeldTimes
  <2>6. c + (m + l) = d + (0 + l)
    BY <2>2, <2>4, <2>5
  <2>7. c + m = d + 0
    BY <2>6
  <2> QED
    BY <2>3, <2>4, <2>7
<1>8. \A q \in Paths : f.res[q].count = Plus(users, refs)[q] + Cardinality(HoldersOf(f.res, q))
  BY DEF Exact
<1>9. \A q \in Paths : /\ users[q] \in Nat /\ Times(q, refs) \in Nat /\ Times(q, <<>>) = 0
                      /\ Cardinality(HoldersOf(f.res, q)) \in Nat
                      /\ Cardinality(HoldersOf(g.res, q)) \in Nat
  BY <1>1, <1>4, FactoryFields, HoldersHeld, TimesType, TimesEmpty DEF Users
<1>10. Sane(g)
  BY <1>1, <1>4 DEF Sane
<1>11. ASSUME NEW q \in Paths
       PROVE  g.res[q].count = Plus(users, <<x>>)[q] + Cardinality(HoldersOf(g.res, q))
  <2>1. PICK c \in Nat, d \in Nat, m \in Nat, u \in Nat :
          /\ c = Cardinality(HoldersOf(f.res, q)) /\ d = Cardinality(HoldersOf(g.res, q))
          /\ m = Times(q, refs) /\ u = users[q] /\ Times(q, <<>>) = 0
    BY <1>9
  <2>2. d = c + m /\ f.res[q].count = u + m + c
    BY <1>6, <1>7, <1>8, <2>1
  <2>3. CASE q = x
    <3>1. u = 0 /\ m = 0 /\ c = 0 /\ g.res[q].count = 1
      BY <1>2, <1>4, <2>2, <2>3
    <3>2. Plus(users, <<x>>)[q] = 1
      BY <1>6, <2>1, <2>3, <3>1
    <3> QED
      BY <2>1, <2>2, <3>1, <3>2
  <2>4. CASE q # x
    <3>1. g.res[q].count = u + m + c /\ Plus(users, <<x>>)[q] = u
      BY <1>4, <1>6, <2>1, <2>2, <2>4
    <3> QED
      BY <2>1, <2>2, <3>1
  <2> QED
    BY <2>3, <2>4
<1>12. Exact(g, Plus(users, <<x>>))
  BY <1>10, <1>11 DEF Exact
<1>13. \A q \in Paths : q # x /\ Loaded(g, q) => Loaded(f, q)
  BY <1>4 DEF Loaded
<1> QED
  BY <1>3, <1>4, <1>12, <1>13

\* An instance whose PostCreate fails keeps the references it was created with.
LEMMA AbandonExact ==
  ASSUME NEW f, NEW users \in Users, NEW refs \in Seq(Paths), Exact(f, Plus(users, refs)),
         NEW x \in Paths, PostCreateFails(x)
  PROVE  /\ Exact(Abandon(f, x, refs), users)
         /\ Abandon(f, x, refs).post = f.post
         /\ \A q \in Paths : Loaded(Abandon(f, x, refs), q) => Loaded(f, q)
<1>1. f \in FactoryStates /\ f.abort = "none" /\ Sane(f)
  BY DEF Exact, Sane
<1>2. PICK r0 \in Resources : r0 = f.res[x]
  BY <1>1, FactoryFields
<1>3. PICK g : g = Abandon(f, x, refs)
  OBVIOUS
<1>4. PICK r : r = [count |-> r0.count, refs |-> r0.refs, lost |-> r0.lost \o refs]
  OBVIOUS
<1>5. r0.count \in Nat /\ r0.refs \in Seq(Paths) /\ r0.lost \in Seq(Paths)
  BY DEF Resources
<1>6. r \in Resources /\ r.refs = r0.refs /\ r.count = r0.count /\ r.lost = r0.lost \o refs
  <2>1. r0.lost \o refs \in Seq(Paths)
    BY <1>5
  <2> QED
    BY <1>4, <1>5, <2>1 DEF Resources
<1>7. /\ g \in FactoryStates /\ g.abort = "none" /\ g.post = f.post
      /\ g.res \in [Paths -> Resources] /\ g.res[x] = r
      /\ \A q \in Paths : q # x => g.res[q] = f.res[q]
  <2>1. f.res \in [Paths -> Resources]
    BY <1>1, FactoryFields
  <2>2. PICK T : T = [f.res EXCEPT ![x] = r]
    OBVIOUS
  <2>3. T \in [Paths -> Resources] /\ T[x] = r /\ \A q \in Paths : q # x => T[q] = f.res[q]
    BY <1>6, <2>1, <2>2
  <2>4. g = [f EXCEPT !.res = T]
    BY <1>2, <1>3, <1>4, <2>2 DEF Abandon
  <2>5. g \in FactoryStates /\ g.abort = "none" /\ g.post = f.post /\ g.res = T
    BY <1>1, <2>3, <2>4 DEF FactoryStates
  <2> QED
    BY <2>3, <2>5
<1>8. \A q \in Paths : g.res[q].count = f.res[q].count /\ g.res[q].refs = f.res[q].refs
  BY <1>2, <1>6, <1>7
<1>9. Sane(g)
  <2>1. \A q \in Paths : g.res[q].lost # <<>> => PostCreateFails(q)
    BY <1>1, <1>7 DEF Sane
  <2> QED
    BY <1>1, <1>7, <1>8, <2>1 DEF Sane
<1>10. ASSUME NEW q \in Paths
       PROVE  g.res[q].count = users[q] + Cardinality(HoldersOf(g.res, q))
  <2>1. f.res \in [Paths -> Resources] /\ AlikeBut(x, f.res, g.res)
    BY <1>1, <1>7, FactoryFields DEF AlikeBut
  <2>2. Cardinality(HoldersOf(f.res, q)) + Times(q, Held(r)) =
          Cardinality(HoldersOf(g.res, q)) + Times(q, Held(r0))
    BY <1>2, <1>7, <2>1, HoldersReplaced
  <2>3. PICK c \in Nat, d \in Nat, k \in Nat, l \in Nat, m \in Nat, u \in Nat :
          /\ c = Cardinality(HoldersOf(f.res, q)) /\ d = Cardinality(HoldersOf(g.res, q))
          /\ k = Times(q, r0.refs) /\ l = Times(q, r0.lost) /\ m = Times(q, refs)
          /\ u = users[q]
    BY <1>5, <1>7, <2>1, HoldersHeld, TimesType DEF Users
  <2>4. Times(q, Held(r0)) = k + l
    BY <2>3, HeldTimes
  <2>5. Times(q, r.lost) = l + m
    BY SMTT(60), <1>5, <1>6, <2>3, TimesConcat
  <2>6. Times(q, Held(r)) = k + (l + m)
    BY <1>6, <2>3, <2>5, HeldTimes
  <2>7. d = c + m
    <3>1. c + (k + (l + m)) = d + (k + l)
      BY <2>2, <2>3, <2>4, <2>6
    <3> QED
      BY <3>1
  <2>8. f.res[q].count = (u + m) + c
    BY <2>3, PlusType DEF Exact
  <2> QED
    BY <1>8, <2>3, <2>7, <2>8
<1>11. Exact(g, users)
  BY <1>9, <1>10 DEF Exact
<1>12. \A q \in Paths : Loaded(g, q) => Loaded(f, q)
  BY <1>8 DEF Loaded
<1> QED
  BY <1>3, <1>7, <1>11, <1>12

\* The references of a table are finitely many.
LEMMA ReferencesFinite ==
  ASSUME NEW f \in FactoryStates
  PROVE  IsFiniteSet(References(f)) /\ Cardinality(References(f)) \in Nat
<1>1. PICK F : F = [p \in Paths |-> {p} \X (1 .. f.res[p].count)]
  OBVIOUS
<1>2. PICK T : T = {{p} \X (1 .. f.res[p].count) : p \in Paths}
  OBVIOUS
<1>3. F \in Surjection(Paths, T)
  <2>1. F \in [Paths -> T] /\ \A t \in T : \E p \in Paths : F[p] = t
    BY <1>1, <1>2
  <2> QED
    BY <2>1, Fun_IsSurj
<1>4. IsFiniteSet(T)
  BY <1>3, FS_Surjection, NamesAssumption
<1>5. \A t \in T : IsFiniteSet(t)
  <2> SUFFICES ASSUME NEW p \in Paths PROVE IsFiniteSet({p} \X (1 .. f.res[p].count))
    BY <1>2
  <2>1. f.res[p].count \in Nat
    BY FactoryFields
  <2>2. IsFiniteSet(1 .. f.res[p].count)
    BY SMTT(60), <2>1, FS_Interval
  <2>3. IsFiniteSet({p})
    BY FS_Singleton
  <2> QED
    BY <2>2, <2>3, FS_Product
<1>6. IsFiniteSet(UNION T)
  BY <1>4, <1>5, FS_UNION
<1>7. References(f) = UNION T
  BY <1>2 DEF References
<1> QED
  BY <1>6, <1>7, FS_CardinalityType

\* A table in which one count is lower by one.
LEMMA ReferencesFewer ==
  ASSUME NEW f \in FactoryStates, NEW g \in FactoryStates, NEW x \in Paths, f.res[x].count > 0,
         g.res[x].count = f.res[x].count - 1,
         \A q \in Paths : q # x => g.res[q].count = f.res[q].count
  PROVE  Cardinality(References(g)) = Cardinality(References(f)) - 1
<1>1. PICK n \in Nat \ {0} : n = f.res[x].count
  BY FactoryFields
<1>2. ASSUME NEW h \in FactoryStates, NEW y
      PROVE  y \in References(h) <=> \E q \in Paths : y \in {q} \X (1 .. h.res[q].count)
  BY Zenon DEF References
<1>3. ASSUME NEW y PROVE y \in References(g) <=> y \in References(f) /\ y # <<x, n>>
  <2>1. ASSUME NEW q \in Paths
        PROVE  y \in {q} \X (1 .. g.res[q].count) <=>
                 y \in {q} \X (1 .. f.res[q].count) /\ y # <<x, n>>
    <3>1. CASE q # x
      BY <3>1
    <3>2. CASE q = x
      <4>1. \A j : j \in 1 .. (n - 1) <=> j \in 1 .. n /\ j # n
        OBVIOUS
      <4>2. y \in {x} \X (1 .. (n - 1)) <=> y \in {x} \X (1 .. n) /\ y # <<x, n>>
        BY <4>1
      <4> QED
        BY <1>1, <3>2, <4>2
    <3> QED
      BY <3>1, <3>2
  <2> QED
    BY <1>2, <2>1
<1>4. References(g) = References(f) \ {<<x, n>>}
  BY <1>3
<1>5. <<x, n>> \in References(f)
  <2>1. <<x, n>> \in {x} \X (1 .. f.res[x].count)
    BY <1>1
  <2> QED
    BY <1>2, <2>1
<1> QED
  BY <1>4, <1>5, ReferencesFinite, FS_RemoveElement

\* Callbacks whose resource is destroyed differ in nothing else.
LEMMA OrphanedSame ==
  ASSUME NEW a \in Seq(Callbacks), NEW x
  PROVE  Orphaned(a, x) \in Seq(Callbacks) /\ SameCallbacks(a, Orphaned(a, x))
<1>1. PICK n \in Nat : n = Len(a) /\ DOMAIN a = 1 .. n
  BY LenProperties
<1>2. PICK b : b = Orphaned(a, x)
  OBVIOUS
<1>3. b = [k \in 1 .. n |-> [a[k] EXCEPT !.dead = a[k].dead \/ (a[k].path = x /\ ~a[k].destroy)]]
  BY <1>1, <1>2 DEF Orphaned
<1>4. ASSUME NEW k \in 1 .. n
      PROVE  b[k] \in Callbacks /\ a[k].path = b[k].path /\ a[k].destroy = b[k].destroy
             /\ a[k].refs = b[k].refs
  <2>1. PICK c \in Callbacks : c = a[k]
    BY <1>1, ElementOfSeq
  <2>2. PICK d \in BOOLEAN : d = (c.dead \/ (c.path = x /\ ~c.destroy))
    OBVIOUS
  <2>3. b[k] = [c EXCEPT !.dead = d]
    BY <1>3, <2>1, <2>2
  <2>4. [c EXCEPT !.dead = d] = [path |-> c.path, destroy |-> c.destroy, refs |-> c.refs, dead |-> d]
    BY DEF Callbacks
  <2> QED
    BY <2>1, <2>3, <2>4 DEF Callbacks
<1>5. b \in [1 .. n -> Callbacks]
  BY <1>3, <1>4
<1>6. b \in Seq(Callbacks) /\ Len(b) = n
  BY <1>5
<1> QED
  BY <1>1, <1>2, <1>4, <1>6 DEF SameCallbacks

\* The relation is transitive.
LEMMA SameCallbacksTransitive ==
  ASSUME NEW a, NEW b, NEW c, SameCallbacks(a, b), SameCallbacks(b, c)
  PROVE  SameCallbacks(a, c)
BY DEF SameCallbacks

-----------------------------------------------------------------------------
(* Release. *)

\* What one round of Release does.
Progressed(f, g) ==
  /\ SameCallbacks(f.post, g.post)
  /\ \A q \in Paths : Loaded(g, q) => Loaded(f, q)

\* A round of Release turns one of the references to give back into what the destroyed
\* resource held, or into nothing, and never fails its assert.
LEMMA ReleaseHeadExact ==
  ASSUME NEW f, NEW users \in Users, NEW work \in Seq(Paths), work # <<>>,
         Exact(f, Plus(users, work))
  PROVE  LET r == ReleaseHead(f, work)
         IN  /\ r = [f |-> r.f, work |-> r.work]
             /\ r.work \in Seq(Paths) /\ Exact(r.f, Plus(users, r.work)) /\ Progressed(f, r.f)
             /\ Cardinality(References(r.f)) = Cardinality(References(f)) - 1
<1>1. f \in FactoryStates /\ f.abort = "none" /\ Sane(f)
  BY DEF Exact, Sane
<1>2. PICK x \in Paths : x = Head(work)
  BY TimesTail
<1>3. PICK rest \in Seq(Paths) : rest = Tail(work)
  BY TimesTail
<1>4. PICK n \in Nat : n = f.res[x].count
  BY <1>1, FactoryFields
<1>5. PICK refs \in Seq(Paths) : refs = f.res[x].refs
  BY <1>1, FactoryFields
<1>6. ASSUME NEW q \in Paths
      PROVE  /\ users[q] \in Nat /\ Times(q, rest) \in Nat /\ Times(q, refs) \in Nat
             /\ Cardinality(HoldersOf(f.res, q)) \in Nat
             /\ q = x => f.res[q].count = users[q] + 1 + Times(q, rest) + Cardinality(HoldersOf(f.res, q))
             /\ q # x => f.res[q].count = users[q] + Times(q, rest) + Cardinality(HoldersOf(f.res, q))
             /\ Plus(users, rest)[q] = users[q] + Times(q, rest)
             /\ Plus(users, refs \o rest)[q] = users[q] + (Times(q, refs) + Times(q, rest))
  <2>1. users[q] \in Nat /\ Times(q, rest) \in Nat /\ Times(q, refs) \in Nat
    BY TimesType DEF Users
  <2>2. Cardinality(HoldersOf(f.res, q)) \in Nat
    BY <1>1, FactoryFields, HoldersHeld
  <2>3. Times(q, work) = (IF x = q THEN 1 ELSE 0) + Times(q, rest)
    BY <1>2, <1>3, TimesTail
  <2>4. f.res[q].count = (users[q] + Times(q, work)) + Cardinality(HoldersOf(f.res, q))
    BY PlusType DEF Exact
  <2>5. Plus(users, rest)[q] = users[q] + Times(q, rest)
    BY PlusType
  <2>6. refs \o rest \in Seq(Paths)
    OBVIOUS
  <2>7. Plus(users, refs \o rest)[q] = users[q] + Times(q, refs \o rest)
    BY <2>6, PlusType
  <2>8. Times(q, refs \o rest) = Times(q, refs) + Times(q, rest)
    BY TimesConcat
  <2>9. PICK u \in Nat, m \in Nat, c \in Nat :
          u = users[q] /\ m = Times(q, rest) /\ c = Cardinality(HoldersOf(f.res, q))
    BY <2>1, <2>2
  <2>10. q = x => f.res[q].count = u + 1 + m + c
    <3> SUFFICES ASSUME q = x PROVE f.res[q].count = u + 1 + m + c
      OBVIOUS
    <3>1. Times(q, work) = 1 + m
      BY <2>3, <2>9
    <3>2. f.res[q].count = (u + (1 + m)) + c
      BY <2>4, <2>9, <3>1
    <3>3. (u + (1 + m)) + c = u + 1 + m + c
      OBVIOUS
    <3> QED
      BY <3>2, <3>3
  <2>11. q # x => f.res[q].count = u + m + c
    <3> SUFFICES ASSUME q # x PROVE f.res[q].count = u + m + c
      OBVIOUS
    <3>1. Times(q, work) = m
      BY <2>3, <2>9
    <3> QED
      BY <2>4, <2>9, <3>1
  <2> QED
    BY <2>1, <2>2, <2>5, <2>7, <2>8, <2>9, <2>10, <2>11
<1>7. n > 0
  <2>1. PICK u \in Nat, m \in Nat, c \in Nat : n = u + 1 + m + c
    BY ZenonT(60), <1>4, <1>6
  <2> QED
    BY <2>1
<1>8. Loaded(f, x)
  BY <1>4, <1>7 DEF Loaded
<1>9. CASE n > 1
  <2>1. PICK g : g = [f EXCEPT !.res[x].count = @ - 1]
    OBVIOUS
  <2>2. ReleaseHead(f, work) = [f |-> g, work |-> rest]
    BY <1>2, <1>3, <1>4, <1>8, <1>9, <2>1 DEF ReleaseHead
  <2>3. /\ g \in FactoryStates /\ g.abort = "none" /\ g.post = f.post
        /\ g.res[x].count = n - 1 /\ g.res \in [Paths -> Resources]
        /\ \A q \in Paths : q # x => g.res[q].count = f.res[q].count
        /\ \A q \in Paths : g.res[q].refs = f.res[q].refs /\ g.res[q].lost = f.res[q].lost
    <3>1. f.res \in [Paths -> Resources] /\ f.res[x] \in Resources
      BY <1>1, FactoryFields
    <3>2. PICK r0 \in Resources : r0 = f.res[x]
      BY <3>1
    <3>3. PICK r : r = [r0 EXCEPT !.count = n - 1]
      OBVIOUS
    <3>4. n - 1 \in Nat
      BY <1>7
    <3>5. r \in Resources /\ r.refs = r0.refs /\ r.lost = r0.lost /\ r.count = n - 1
      BY <3>3, <3>4 DEF Resources
    <3>6. PICK T : T = [f.res EXCEPT ![x] = r]
      OBVIOUS
    <3>7. T \in [Paths -> Resources] /\ T[x] = r /\ \A q \in Paths : q # x => T[q] = f.res[q]
      BY <3>1, <3>5, <3>6
    <3>8. g = [f EXCEPT !.res = T]
      BY <1>4, <2>1, <3>2, <3>3, <3>6
    <3>9. g \in FactoryStates /\ g.abort = "none" /\ g.post = f.post /\ g.res = T
      BY <1>1, <3>7, <3>8 DEF FactoryStates
    <3> QED
      BY <3>2, <3>5, <3>7, <3>9
  <2>4. Sane(g)
    <3>1. \A q \in Paths : g.res[q].count = 0 => g.res[q].refs = <<>>
      <4> SUFFICES ASSUME NEW q \in Paths, g.res[q].count = 0 PROVE g.res[q].refs = <<>>
        OBVIOUS
      <4>1. q # x
        BY <1>9, <2>3
      <4>2. f.res[q].count = 0
        BY <2>3, <4>1
      <4> QED
        BY <1>1, <2>3, <4>2 DEF Sane
    <3>2. \A q \in Paths : g.res[q].lost # <<>> => PostCreateFails(q)
      BY <1>1, <2>3 DEF Sane
    <3> QED
      BY <2>3, <3>1, <3>2 DEF Sane
  <2>5. \A q \in Paths : HoldersOf(g.res, q) = HoldersOf(f.res, q)
    BY <1>1, <2>3, FactoryFields, HoldersSame DEF Held
  <2>6. ASSUME NEW q \in Paths
        PROVE  g.res[q].count = Plus(users, rest)[q] + Cardinality(HoldersOf(g.res, q))
    <3>1. PICK c \in Nat, u \in Nat, m \in Nat :
            /\ c = Cardinality(HoldersOf(f.res, q)) /\ u = users[q] /\ m = Times(q, rest)
            /\ c = Cardinality(HoldersOf(g.res, q)) /\ Plus(users, rest)[q] = u + m
      BY ZenonT(60), <1>6, <2>5
    <3>2. CASE q = x
      <4>1. n = u + 1 + m + c /\ g.res[q].count = n - 1
        BY <1>4, <1>6, <2>3, <3>1, <3>2
      <4> QED
        BY SMTT(60), <3>1, <4>1
    <3>3. CASE q # x
      <4>1. g.res[q].count = u + m + c
        BY <1>6, <2>3, <3>1, <3>3
      <4> QED
        BY <3>1, <4>1
    <3> QED
      BY <3>2, <3>3
  <2>7. Exact(g, Plus(users, rest))
    BY <2>4, <2>6 DEF Exact
  <2>8. Progressed(f, g)
    BY <1>4, <1>7, <2>3 DEF Progressed, SameCallbacks, Loaded
  <2>9. Cardinality(References(g)) = Cardinality(References(f)) - 1
    BY <1>1, <1>4, <1>7, <2>3, ReferencesFewer
  <2> QED
    BY <2>2, <2>7, <2>8, <2>9
<1>10. CASE n = 1
  <2>1. PICK g : g = [EraseResource(f, x) EXCEPT !.post = Orphaned(@, x)]
    OBVIOUS
  <2>2. ReleaseHead(f, work) = [f |-> g, work |-> refs \o rest]
    BY <1>2, <1>3, <1>4, <1>5, <1>8, <1>10, <2>1 DEF ReleaseHead
  <2>3. /\ g \in FactoryStates /\ g.abort = "none" /\ g.post = Orphaned(f.post, x)
        /\ g.res \in [Paths -> Resources] /\ g.res[x].count = 0 /\ g.res[x].refs = <<>>
        /\ g.res[x].lost = f.res[x].lost
        /\ \A q \in Paths : q # x => g.res[q] = f.res[q]
    <3>1. /\ f.res \in [Paths -> Resources] /\ f.post \in Seq(Callbacks)
          /\ f.res[x].lost \in Seq(Paths)
      BY <1>1, FactoryFields
    <3>2. PICK r : r = [count |-> 0, refs |-> <<>>, lost |-> f.res[x].lost]
      OBVIOUS
    <3>3. r \in Resources /\ r.count = 0 /\ r.refs = <<>> /\ r.lost = f.res[x].lost
      BY <3>1, <3>2 DEF Resources
    <3>4. PICK T : T = [f.res EXCEPT ![x] = r]
      OBVIOUS
    <3>5. T \in [Paths -> Resources] /\ T[x] = r /\ \A q \in Paths : q # x => T[q] = f.res[q]
      BY <3>1, <3>3, <3>4
    <3>6. PICK P \in Seq(Callbacks) : P = Orphaned(f.post, x)
      BY <3>1, OrphanedSame
    <3>7. PICK e : e = EraseResource(f, x)
      OBVIOUS
    <3>8. e = [f EXCEPT !.res = T]
      BY <3>2, <3>4, <3>7 DEF EraseResource
    <3>9. e \in FactoryStates /\ e.abort = "none" /\ e.post = f.post /\ e.res = T
      BY <1>1, <3>5, <3>8 DEF FactoryStates
    <3>10. g = [e EXCEPT !.post = P]
      BY <2>1, <3>6, <3>7, <3>9
    <3>11. g \in FactoryStates /\ g.abort = "none" /\ g.post = P /\ g.res = T
      BY <3>9, <3>10 DEF FactoryStates
    <3> QED
      BY <3>3, <3>5, <3>6, <3>11
  <2>4. Sane(g)
    BY <1>1, <2>3 DEF Sane
  <2>5. \A q \in Paths : Cardinality(HoldersOf(g.res, q)) + Times(q, refs) =
                          Cardinality(HoldersOf(f.res, q)) + Times(q, <<>>)
    <3>1. f.res \in [Paths -> Resources] /\ AlikeBut(x, g.res, f.res)
      BY <1>1, <2>3, FactoryFields DEF AlikeBut
    <3>2. \A q \in Paths : Cardinality(HoldersOf(g.res, q)) + Times(q, Held(f.res[x])) =
                          Cardinality(HoldersOf(f.res, q)) + Times(q, Held(g.res[x]))
      BY <2>3, <3>1, HoldersReplaced
    <3> SUFFICES ASSUME NEW q \in Paths
                 PROVE  Cardinality(HoldersOf(g.res, q)) + Times(q, refs) =
                          Cardinality(HoldersOf(f.res, q)) + Times(q, <<>>)
      OBVIOUS
    <3>3. /\ Cardinality(HoldersOf(f.res, q)) \in Nat /\ Cardinality(HoldersOf(g.res, q)) \in Nat
          /\ Times(q, refs) \in Nat /\ Times(q, f.res[x].lost) \in Nat /\ Times(q, <<>>) = 0
      BY <2>3, <3>1, HoldersHeld, HeldTimes, TimesType, TimesEmpty
    <3>4. PICK c \in Nat, d \in Nat, k \in Nat, l \in Nat :
            /\ c = Cardinality(HoldersOf(f.res, q)) /\ d = Cardinality(HoldersOf(g.res, q))
            /\ k = Times(q, refs) /\ l = Times(q, f.res[x].lost)
      BY <3>3
    <3>5. Times(q, Held(f.res[x])) = k + l /\ Times(q, Held(g.res[x])) = 0 + l
      BY ZenonT(60), <1>5, <2>3, <3>1, <3>3, <3>4, HeldTimes
    <3>6. d + (k + l) = c + (0 + l)
      BY <3>2, <3>4, <3>5
    <3>7. d + k = c + 0
      BY <3>6
    <3> QED
      BY <3>3, <3>4, <3>7
  <2>6. ASSUME NEW q \in Paths
        PROVE  g.res[q].count = Plus(users, refs \o rest)[q] + Cardinality(HoldersOf(g.res, q))
    <3>1. PICK c \in Nat, d \in Nat, u \in Nat, m \in Nat, k \in Nat :
            /\ c = Cardinality(HoldersOf(f.res, q)) /\ u = users[q] /\ m = Times(q, rest)
            /\ d = Cardinality(HoldersOf(g.res, q)) /\ k = Times(q, refs)
            /\ Plus(users, refs \o rest)[q] = u + (k + m)
      <4>1. Cardinality(HoldersOf(g.res, q)) \in Nat
        BY <2>3, HoldersHeld
      <4>2. /\ users[q] \in Nat /\ Times(q, rest) \in Nat /\ Times(q, refs) \in Nat
            /\ Cardinality(HoldersOf(f.res, q)) \in Nat
            /\ Plus(users, refs \o rest)[q] = users[q] + (Times(q, refs) + Times(q, rest))
        BY <1>6
      <4> QED
        BY <4>1, <4>2
    <3>2. d + k = c
      <4>1. d + k = c + 0
        BY <2>5, <3>1, TimesEmpty
      <4> QED
        BY <4>1
    <3>3. CASE q = x
      <4>1. 1 = u + 1 + m + c /\ g.res[q].count = 0
        BY <1>4, <1>6, <1>10, <2>3, <3>1, <3>3
      <4>2. u = 0 /\ m = 0 /\ c = 0
        BY <4>1
      <4>3. d = 0 /\ k = 0
        BY <3>2, <4>2
      <4> QED
        BY <3>1, <4>1, <4>2, <4>3
    <3>4. CASE q # x
      <4>1. g.res[q].count = u + m + c
        BY <1>6, <2>3, <3>1, <3>4
      <4> QED
        BY SMTT(60), <3>1, <3>2, <4>1
    <3> QED
      BY <3>3, <3>4
  <2>7. Exact(g, Plus(users, refs \o rest))
    BY <2>4, <2>6 DEF Exact
  <2>8. Progressed(f, g)
    <3>1. SameCallbacks(f.post, g.post)
      BY <1>1, <2>3, FactoryFields, OrphanedSame
    <3> QED
      BY <1>8, <2>3, <3>1 DEF Progressed, Loaded
  <2>9. Cardinality(References(g)) = Cardinality(References(f)) - 1
    <3>1. /\ f.res[x].count > 0 /\ g.res[x].count = f.res[x].count - 1
          /\ \A q \in Paths : q # x => g.res[q].count = f.res[q].count
      BY <1>4, <1>10, <2>3
    <3> QED
      BY <1>1, <2>3, <3>1, ReferencesFewer
  <2>10. refs \o rest \in Seq(Paths)
    OBVIOUS
  <2> QED
    BY <2>2, <2>7, <2>8, <2>9, <2>10
<1> QED
  BY <1>7, <1>9, <1>10

\* The rounds of Release as a function: the definition by recursion has a solution.
LEMMA ReleaseRounds ==
  ASSUME NEW f \in FactoryStates, NEW paths
  PROVE  \E g : /\ g[0] = [f |-> f, work |-> paths]
                /\ \A n \in 1 .. (Cardinality(References(f)) + 1) : g[n] = ReleaseRound(g[n - 1])
                /\ Release(f, paths) = g[Cardinality(References(f)) + 1].f
<1> DEFINE L == Cardinality(References(f)) + 1
           First == [f |-> f, work |-> paths]
           after[n \in 0 .. (Cardinality(References(f)) + 1)] ==
             IF n = 0 THEN [f |-> f, work |-> paths] ELSE ReleaseRound(after[n - 1])
           Body(g, m) == [n \in 0 .. m |-> IF n = 0 THEN [f |-> f, work |-> paths]
                                           ELSE ReleaseRound(g[n - 1])]
           S == {m \in 0 .. L : \E g : g = Body(g, m)}
<1>0. L \in Nat
  BY ReferencesFinite
<1>1. 0 \in S
  <2>1. [n \in 0 .. 0 |-> First] = Body([n \in 0 .. 0 |-> First], 0)
    OBVIOUS
  <2> HIDE DEF Body
  <2> QED
    BY <1>0, <2>1
<1>2. ASSUME NEW m \in 0 .. L, m \in S, m < L PROVE m + 1 \in S
  <2>1. PICK g : g = Body(g, m)
    BY <1>2
  <2> DEFINE h == [n \in 0 .. m + 1 |-> IF n <= m THEN g[n] ELSE ReleaseRound(g[m])]
  <2>2. h = Body(h, m + 1)
    <3>1. ASSUME NEW n \in 0 .. m + 1 PROVE h[n] = Body(h, m + 1)[n]
      <4>1. CASE n = 0
        BY <2>1, <4>1
      <4>2. CASE n \in 1 .. m
        <5>1. n - 1 \in 0 .. m /\ h[n - 1] = g[n - 1] /\ h[n] = g[n]
          BY <4>2
        <5> QED
          BY <2>1, <4>2, <5>1
      <4>3. CASE n = m + 1
        <5>1. h[n - 1] = g[m]
          BY <4>3
        <5> QED
          BY <4>3, <5>1
      <4> QED
        BY <4>1, <4>2, <4>3
    <3> QED
      BY <3>1
  <2> HIDE DEF Body, h
  <2>3. m + 1 \in 0 .. L /\ \E x : x = Body(x, m + 1)
    BY <1>0, <1>2, <2>2
  <2> QED
    BY <2>3
<1>3. 0 .. L \subseteq S
  <2> HIDE DEF S, L
  <2> QED
    BY <1>0, <1>1, <1>2, EveryRound
<1>4. \E g : g = Body(g, L)
  BY <1>0, <1>3
<1>5. after = Body(after, L)
  BY <1>4
<1>6. Release(f, paths) = after[L].f
  BY DEF Release
<1> HIDE DEF after
<1>7. after[0] = [f |-> f, work |-> paths]
  BY <1>0, <1>5
<1>8. ASSUME NEW n \in 1 .. L PROVE after[n] = ReleaseRound(after[n - 1])
  BY <1>0, <1>5
<1> QED
  BY <1>6, <1>7, <1>8

\* Release gives back exactly the references it is given, with what depends on them, and its
\* assert does not fail.
LEMMA ReleaseExact ==
  ASSUME NEW f, NEW users \in Users, NEW paths \in Seq(Paths), Exact(f, Plus(users, paths))
  PROVE  /\ Exact(Release(f, paths), users) /\ Progressed(f, Release(f, paths))
<1>1. f \in FactoryStates
  BY DEF Exact, Sane
<1>2. PICK T \in Nat : T = Cardinality(References(f))
  BY <1>1, ReferencesFinite
<1>3. PICK g : /\ g[0] = [f |-> f, work |-> paths]
               /\ \A n \in 1 .. (T + 1) : g[n] = ReleaseRound(g[n - 1])
               /\ Release(f, paths) = g[T + 1].f
  BY <1>1, <1>2, ReleaseRounds
<1> DEFINE Good(r, n) == /\ r.work \in Seq(Paths) /\ Exact(r.f, Plus(users, r.work))
                         /\ Progressed(f, r.f)
                         /\ r.work = <<>> \/ Cardinality(References(r.f)) + n = T
           S == {n \in 0 .. (T + 1) : Good(g[n], n)}
<1>4. 0 \in S
  <2>1. Progressed(f, f)
    BY DEF Progressed, SameCallbacks
  <2> QED
    BY <1>2, <1>3, <2>1
<1>5. ASSUME NEW n \in 0 .. (T + 1), n \in S, n < T + 1 PROVE n + 1 \in S
  <2>1. PICK r : r = g[n]
    OBVIOUS
  <2>2. g[n + 1] = ReleaseRound(r)
    <3>1. n + 1 \in 1 .. (T + 1) /\ (n + 1) - 1 = n
      BY <1>5
    <3> QED
      BY <1>3, <2>1, <3>1
  <2>3. Good(r, n)
    BY <1>5, <2>1
  <2>4. CASE r.work = <<>>
    <3>1. g[n + 1] = r
      BY <2>2, <2>4 DEF ReleaseRound
    <3>2. Good(r, n + 1)
      BY <2>3, <2>4
    <3> HIDE DEF Good
    <3> QED
      BY <1>5, <3>1, <3>2
  <2>5. CASE r.work # <<>>
    <3>1. r.f.abort = "none"
      BY <2>3 DEF Exact, Sane
    <3>2. PICK h : h = ReleaseHead(r.f, r.work)
      OBVIOUS
    <3>3. g[n + 1] = h
      BY <2>2, <2>5, <3>1, <3>2 DEF ReleaseRound
    <3>4. /\ h.work \in Seq(Paths) /\ Exact(h.f, Plus(users, h.work)) /\ Progressed(r.f, h.f)
          /\ Cardinality(References(h.f)) = Cardinality(References(r.f)) - 1
      <4> HIDE DEF Good
      <4>1. r.work \in Seq(Paths) /\ Exact(r.f, Plus(users, r.work))
        BY <2>3 DEF Good
      <4> QED
        BY <2>5, <3>2, <4>1, ReleaseHeadExact
    <3>5. Progressed(f, h.f)
      BY <2>3, <3>4, SameCallbacksTransitive DEF Progressed
    <3>6. Cardinality(References(h.f)) + (n + 1) = T
      <4>1. PICK a \in Nat : a = Cardinality(References(r.f))
        <5>1. r.f \in FactoryStates
          BY <2>3 DEF Exact, Sane
        <5> QED
          BY <5>1, ReferencesFinite
      <4>2. a + n = T /\ Cardinality(References(h.f)) = a - 1
        BY <2>3, <2>5, <3>4, <4>1
      <4> QED
        BY <4>2
    <3>7. Good(h, n + 1)
      BY <3>4, <3>5, <3>6
    <3> HIDE DEF Good
    <3> QED
      BY <1>5, <3>3, <3>7
  <2> QED
    BY <2>4, <2>5
<1>6. 0 .. (T + 1) \subseteq S
  <2> HIDE DEF S
  <2>1. T + 1 \in Nat
    OBVIOUS
  <2> QED
    BY <1>4, <1>5, <2>1, EveryRound
<1>7. Good(g[T + 1], T + 1)
  BY <1>6
<1>8. PICK r : r = g[T + 1]
  OBVIOUS
<1>9. r.work = <<>>
  <2>1. r.f \in FactoryStates
    BY <1>7, <1>8 DEF Exact, Sane
  <2>2. PICK a \in Nat : a = Cardinality(References(r.f))
    BY <2>1, ReferencesFinite
  <2>3. a + (T + 1) # T
    OBVIOUS
  <2> QED
    BY <1>7, <1>8, <2>2, <2>3
<1>10. Plus(users, r.work) = users
  <2>1. <<>> \in Seq(Paths)
    OBVIOUS
  <2>2. Plus(users, <<>>) \in Users /\ \A p \in Paths : Plus(users, <<>>)[p] = users[p] + 0
    <3>1. Plus(users, <<>>) \in Users /\ \A p \in Paths : Plus(users, <<>>)[p] = users[p] + Times(p, <<>>)
      BY <2>1, PlusType
    <3> QED
      BY <3>1, TimesEmpty
  <2>3. \A p \in Paths : users[p] \in Nat
    BY DEF Users
  <2>4. \A p \in Paths : Plus(users, <<>>)[p] = users[p]
    BY <2>2, <2>3
  <2> QED
    BY <1>9, <2>2, <2>4, UsersEqual
<1> QED
  BY <1>3, <1>7, <1>8, <1>10

-----------------------------------------------------------------------------
(***************************************************************************)
(* Get and the create functions, in a world in which the paths have ranks  *)
(* and a resource refers to resources of a lower rank only.                *)
(***************************************************************************)
TypedWorld ==
  /\ world.refs \in [Paths -> Seq(Names)] /\ world.fate \in [Paths -> Fates]
  /\ world.post \subseteq Paths

RefsDescend(rank) ==
  /\ rank \in [Paths -> Nat]
  /\ \A p \in Paths : \A n \in ToSet(Refs(p)) \ Malformed : rank[CanonicalPath[n]] < rank[p]

\* The shape of what Get and a create function return.
Answered(got) == got = [f |-> got.f, ok |-> got.ok, refs |-> got.refs] /\ got.ok \in BOOLEAN

\* What Get may return: the caller has one more reference if and only if it succeeds.
Gets(rank, got, f, users, name) ==
  /\ Answered(got)
  /\ got.ok => Exact(got.f, Plus(users, <<CanonicalPath[name]>>))
  /\ ~got.ok => Exact(got.f, users)
  /\ SameCallbacks(f.post, got.f.post)
  /\ \A q \in Paths : Loaded(got.f, q) =>
       Loaded(f, q) \/ (name \notin Malformed /\ rank[q] <= rank[CanonicalPath[name]])

\* What a create function may return: the new instance has the references in "refs" if
\* and only if it succeeds.
Creates(rank, got, f, users, path) ==
  /\ Answered(got)
  /\ got.ok => got.refs \in Seq(Paths) /\ Exact(got.f, Plus(users, got.refs))
  /\ ~got.ok => Exact(got.f, users)
  /\ SameCallbacks(f.post, got.f.post)
  /\ \A q \in Paths : Loaded(got.f, q) => Loaded(f, q) \/ rank[q] < rank[path]

\* A function that does what Get may do.
GetsAll(rank, get) ==
  \A x \in Calls : \A users \in Users :
    Exact(x.f, users) => Gets(rank, get[x], x.f, users, x.name)

\* Before the first reference nothing has been taken.
LEMMA PlusNothing ==
  ASSUME NEW users \in Users
  PROVE  Plus(users, <<>>) = users
<1>1. <<>> \in Seq(Paths)
  OBVIOUS
<1>2. Plus(users, <<>>) \in Users /\ \A p \in Paths : Plus(users, <<>>)[p] = users[p] + Times(p, <<>>)
  BY <1>1, PlusType
<1>3. \A p \in Paths : users[p] \in Nat
  BY DEF Users
<1>4. \A p \in Paths : Plus(users, <<>>)[p] = users[p]
  BY <1>2, <1>3, TimesEmpty
<1> QED
  BY <1>2, <1>4, UsersEqual

\* References taken one after the other.
LEMMA PlusConcat ==
  ASSUME NEW users \in Users, NEW s \in Seq(Paths), NEW t \in Seq(Paths)
  PROVE  Plus(Plus(users, s), t) = Plus(users, s \o t)
<1>1. s \o t \in Seq(Paths)
  OBVIOUS
<1>2. Plus(users, s) \in Users /\ \A p \in Paths : Plus(users, s)[p] = users[p] + Times(p, s)
  BY PlusType
<1>3. /\ Plus(Plus(users, s), t) \in Users
      /\ \A p \in Paths : Plus(Plus(users, s), t)[p] = Plus(users, s)[p] + Times(p, t)
  BY <1>2, PlusType
<1>4. /\ Plus(users, s \o t) \in Users
      /\ \A p \in Paths : Plus(users, s \o t)[p] = users[p] + Times(p, s \o t)
  BY <1>1, PlusType
<1>5. ASSUME NEW p \in Paths PROVE Plus(Plus(users, s), t)[p] = Plus(users, s \o t)[p]
  <2>1. PICK u \in Nat, a \in Nat, b \in Nat : u = users[p] /\ a = Times(p, s) /\ b = Times(p, t)
    BY TimesType DEF Users
  <2>2. Times(p, s \o t) = a + b
    BY <2>1, TimesConcat
  <2>3. Plus(Plus(users, s), t)[p] = (u + a) + b /\ Plus(users, s \o t)[p] = u + (a + b)
    BY <1>2, <1>3, <1>4, <2>1, <2>2
  <2> QED
    BY <2>3
<1> QED
  BY <1>3, <1>4, <1>5, UsersEqual

\* The callbacks are the same as themselves.
LEMMA SameCallbacksReflexive == \A a : SameCallbacks(a, a)
BY DEF SameCallbacks

\* The gets of a create function as a function: the definition by recursion has a solution.
LEMMA GetAllRounds ==
  ASSUME NEW get, NEW f, NEW names \in Seq(Names), NEW chain
  PROVE  \E g : /\ g[0] = [Failed(f) EXCEPT !.ok = TRUE]
                /\ \A n \in 1 .. Len(names) : g[n] = GetNext(get, g[n - 1], names[n], chain)
                /\ GetAll(get, f, names, chain) = g[Len(names)]
<1> DEFINE L == Len(names)
           First == [Failed(f) EXCEPT !.ok = TRUE]
           after[n \in 0 .. Len(names)] ==
             IF n = 0 THEN [Failed(f) EXCEPT !.ok = TRUE]
             ELSE GetNext(get, after[n - 1], names[n], chain)
           Body(g, m) == [n \in 0 .. m |-> IF n = 0 THEN [Failed(f) EXCEPT !.ok = TRUE]
                                           ELSE GetNext(get, g[n - 1], names[n], chain)]
           S == {m \in 0 .. L : \E g : g = Body(g, m)}
<1>0. L \in Nat
  BY LenProperties
<1>1. 0 \in S
  <2>1. [n \in 0 .. 0 |-> First] = Body([n \in 0 .. 0 |-> First], 0)
    OBVIOUS
  <2> HIDE DEF Body
  <2> QED
    BY <1>0, <2>1
<1>2. ASSUME NEW m \in 0 .. L, m \in S, m < L PROVE m + 1 \in S
  <2>1. PICK g : g = Body(g, m)
    BY <1>2
  <2> DEFINE h == [n \in 0 .. m + 1 |-> IF n <= m THEN g[n]
                                        ELSE GetNext(get, g[m], names[m + 1], chain)]
  <2>2. h = Body(h, m + 1)
    <3>1. ASSUME NEW n \in 0 .. m + 1 PROVE h[n] = Body(h, m + 1)[n]
      <4>1. CASE n = 0
        BY <2>1, <4>1
      <4>2. CASE n \in 1 .. m
        <5>1. n - 1 \in 0 .. m /\ h[n - 1] = g[n - 1] /\ h[n] = g[n]
          BY <4>2
        <5>2. n \in 0 .. m /\ n \in 0 .. m + 1 /\ n # 0
          BY <4>2
        <5>3. Body(g, m)[n] = GetNext(get, g[n - 1], names[n], chain)
          BY <5>2
        <5>4. Body(h, m + 1)[n] = GetNext(get, h[n - 1], names[n], chain)
          <6> HIDE DEF h
          <6> QED
            BY <5>2
        <5>5. g[n] = Body(g, m)[n]
          BY <2>1
        <5> HIDE DEF Body, h
        <5> QED
          BY <5>1, <5>3, <5>4, <5>5
      <4>3. CASE n = m + 1
        <5>1. h[n - 1] = g[m]
          BY <4>3
        <5> QED
          BY <4>3, <5>1
      <4> QED
        BY <4>1, <4>2, <4>3
    <3> QED
      BY <3>1
  <2> HIDE DEF Body, h
  <2>3. m + 1 \in 0 .. L /\ \E x : x = Body(x, m + 1)
    BY <1>0, <1>2, <2>2
  <2> QED
    BY <2>3
<1>3. 0 .. L \subseteq S
  <2> HIDE DEF S, L
  <2> QED
    BY <1>0, <1>1, <1>2, EveryRound
<1>4. \E g : g = Body(g, L)
  BY <1>0, <1>3
<1>5. after = Body(after, L)
  BY <1>4
<1>6. GetAll(get, f, names, chain) = after[L]
  BY DEF GetAll
<1> HIDE DEF after
<1>7. after[0] = [Failed(f) EXCEPT !.ok = TRUE]
  BY <1>0, <1>5
<1>8. ASSUME NEW n \in 1 .. L PROVE after[n] = GetNext(get, after[n - 1], names[n], chain)
  <2>1. n \in 0 .. L /\ n # 0
    BY <1>0
  <2>2. Body(after, L)[n] = GetNext(get, after[n - 1], names[n], chain)
    <3> HIDE DEF L
    <3> QED
      BY <2>1
  <2> HIDE DEF Body
  <2> QED
    BY <1>5, <2>2
<1> QED
  BY <1>6, <1>7, <1>8

\* What a create function has after some of its gets: the references it took, one each.
Holding(rank, t, f, users, path) ==
  /\ Answered(t)
  /\ t.refs \in Seq(Paths) /\ Exact(t.f, Plus(users, t.refs))
  /\ SameCallbacks(f.post, t.f.post)
  /\ \A q \in Paths : Loaded(t.f, q) => Loaded(f, q) \/ rank[q] < rank[path]

\* One more get.
LEMMA GetNextExact ==
  ASSUME NEW rank \in [Paths -> Nat], NEW get, GetsAll(rank, get), NEW f, NEW users \in Users,
         NEW path \in Paths, NEW t, Holding(rank, t, f, users, path), NEW name \in Names,
         name \notin Malformed => rank[CanonicalPath[name]] < rank[path],
         NEW chain \in Seq(Names)
  PROVE  Holding(rank, GetNext(get, t, name, chain), f, users, path)
<1>1. CASE ~t.ok
  BY <1>1 DEF GetNext
<1>2. CASE t.ok
  <2>1. PICK p \in Paths : p = CanonicalPath[name]
    BY NamesAssumption
  <2>2. PICK x : x = Call(t.f, name, chain)
    OBVIOUS
  <2>3. x \in Calls /\ x.f = t.f /\ x.name = name
    <3>1. t.f \in FactoryStates
      BY DEF Holding, Exact, Sane
    <3> QED
      BY <2>2, <3>1 DEF Call, Calls
  <2>4. PICK refs \in Seq(Paths) : refs = t.refs
    BY DEF Holding
  <2>5. PICK u \in Users : u = Plus(users, refs)
    BY PlusType
  <2>6. Exact(t.f, u)
    BY <2>4, <2>5 DEF Holding
  <2>7. PICK got : got = get[x]
    OBVIOUS
  <2>8. Gets(rank, got, t.f, u, name)
    BY <2>3, <2>6, <2>7 DEF GetsAll
  <2>9. PICK r : r = GetNext(get, t, name, chain)
    OBVIOUS
  <2>10. r = Took(refs, got, name)
    BY <1>2, <2>2, <2>4, <2>7, <2>9 DEF GetNext
  <2>11. got = [f |-> got.f, ok |-> got.ok, refs |-> got.refs] /\ got.ok \in BOOLEAN
    BY <2>8 DEF Gets, Answered
  <2>12. /\ Answered(r) /\ r.f = got.f /\ r.ok = got.ok
         /\ r.refs = IF got.ok THEN Append(refs, p) ELSE refs
    <3>1. PICK a, b, c : got = [f |-> a, ok |-> b, refs |-> c] /\ b \in BOOLEAN
      BY <2>11
    <3>2. r = [f |-> a, ok |-> b, refs |-> IF b THEN Append(refs, p) ELSE refs]
      BY <2>1, <2>10, <3>1 DEF Took
    <3> QED
      BY <3>1, <3>2 DEF Answered
  <2>13. r.refs \in Seq(Paths) /\ Exact(r.f, Plus(users, r.refs))
    <3>1. CASE got.ok
      <4>1. Exact(got.f, Plus(u, <<p>>))
        BY <2>1, <2>8, <3>1 DEF Gets
      <4>2. <<p>> \in Seq(Paths) /\ Append(refs, p) \in Seq(Paths) /\ refs \o <<p>> = Append(refs, p)
        OBVIOUS
      <4>3. Plus(u, <<p>>) = Plus(users, Append(refs, p))
        <5>1. Plus(Plus(users, refs), <<p>>) = Plus(users, refs \o <<p>>)
          BY <4>2, PlusConcat
        <5> QED
          BY <2>5, <4>2, <5>1
      <4> QED
        BY <2>12, <3>1, <4>1, <4>2, <4>3
    <3>2. CASE ~got.ok
      BY <2>5, <2>8, <2>12, <3>2 DEF Gets
    <3> QED
      BY <3>1, <3>2
  <2>14. SameCallbacks(f.post, r.f.post)
    BY <2>8, <2>12, SameCallbacksTransitive DEF Gets, Holding
  <2>15. ASSUME NEW q \in Paths, Loaded(r.f, q) PROVE Loaded(f, q) \/ rank[q] < rank[path]
    <3>1. Loaded(t.f, q) \/ (name \notin Malformed /\ rank[q] <= rank[p])
      BY <2>1, <2>8, <2>12, <2>15 DEF Gets
    <3>2. CASE Loaded(t.f, q)
      BY <3>2 DEF Holding
    <3>3. CASE name \notin Malformed /\ rank[q] <= rank[p]
      <4>1. rank[p] < rank[path]
        BY <2>1, <3>3
      <4> QED
        BY <3>3, <4>1
    <3> QED
      BY <3>1, <3>2, <3>3
  <2> QED
    BY <2>9, <2>12, <2>13, <2>14, <2>15 DEF Holding
<1> QED
  BY <1>1, <1>2

\* All the gets of a create function.
LEMMA GetAllExact ==
  ASSUME NEW rank \in [Paths -> Nat], NEW get, GetsAll(rank, get), NEW f, NEW users \in Users,
         Exact(f, users), NEW path \in Paths, NEW names \in Seq(Names),
         \A n \in ToSet(names) \ Malformed : rank[CanonicalPath[n]] < rank[path],
         NEW chain \in Seq(Names)
  PROVE  Holding(rank, GetAll(get, f, names, chain), f, users, path)
<1>1. PICK L \in Nat : L = Len(names)
  BY LenProperties
<1>2. PICK g : /\ g[0] = [Failed(f) EXCEPT !.ok = TRUE]
               /\ \A n \in 1 .. L : g[n] = GetNext(get, g[n - 1], names[n], chain)
               /\ GetAll(get, f, names, chain) = g[L]
  <2>1. \E h : /\ h[0] = [Failed(f) EXCEPT !.ok = TRUE]
               /\ \A n \in 1 .. Len(names) : h[n] = GetNext(get, h[n - 1], names[n], chain)
               /\ GetAll(get, f, names, chain) = h[Len(names)]
    BY SMTT(60), GetAllRounds
  <2> QED
    BY <1>1, <2>1
<1> DEFINE S == {n \in 0 .. L : Holding(rank, g[n], f, users, path)}
<1>3. 0 \in S
  <2>1. g[0] = [f |-> f, ok |-> TRUE, refs |-> <<>>]
    BY <1>2 DEF Failed
  <2>2. Exact(f, Plus(users, <<>>))
    BY PlusNothing
  <2>3. Holding(rank, g[0], f, users, path)
    BY <2>1, <2>2, SameCallbacksReflexive DEF Holding, Answered
  <2> QED
    BY <2>3
<1>4. ASSUME NEW n \in 0 .. L, n \in S, n < L PROVE n + 1 \in S
  <2>1. n + 1 \in 1 .. L /\ (n + 1) - 1 = n
    BY <1>4
  <2>2. PICK name \in Names : name = names[n + 1]
    BY <1>1, <2>1
  <2>3. name \in ToSet(names)
    BY <1>1, <2>1, <2>2 DEF ToSet
  <2>4. name \notin Malformed => rank[CanonicalPath[name]] < rank[path]
    BY <2>3
  <2>5. g[n + 1] = GetNext(get, g[n], name, chain)
    BY <1>2, <2>1, <2>2
  <2>6. Holding(rank, g[n], f, users, path)
    BY <1>4
  <2>7. Holding(rank, g[n + 1], f, users, path)
    BY <2>4, <2>5, <2>6, GetNextExact
  <2> QED
    BY <2>1, <2>7
<1>5. 0 .. L \subseteq S
  <2> HIDE DEF S
  <2> QED
    BY <1>3, <1>4, EveryRound
<1>6. L \in S
  <2> HIDE DEF S
  <2> QED
    BY <1>5
<1> QED
  BY <1>2, <1>6

\* A create function keeps what it took if it succeeds, and gives all of it back if not.
LEMMA CreateWithExact ==
  ASSUME TypedWorld, NEW rank, RefsDescend(rank), NEW get, GetsAll(rank, get), NEW f,
         NEW users \in Users, Exact(f, users), NEW path \in Paths, NEW chain \in Seq(Names)
  PROVE  Creates(rank, CreateWith(get, f, path, chain), f, users, path)
<1>1. rank \in [Paths -> Nat]
  BY DEF RefsDescend
<1>2. PICK names \in Seq(Names) : names = Refs(path)
  BY DEF TypedWorld, Refs
<1>3. \A n \in ToSet(names) \ Malformed : rank[CanonicalPath[n]] < rank[path]
  BY <1>2 DEF RefsDescend
<1>4. PICK t : t = GetAll(get, f, names, chain)
  OBVIOUS
<1>5. Holding(rank, t, f, users, path)
  BY <1>1, <1>3, <1>4, GetAllExact
<1>6. PICK c : c = CreateWith(get, f, path, chain)
  OBVIOUS
<1>7. CASE t.ok /\ Fate(path) # "create_error"
  <2>1. c = t
    BY <1>2, <1>4, <1>6, <1>7 DEF CreateWith, CreateAfterGets, GiveBackUnless
  <2> QED
    BY <1>5, <1>6, <1>7, <2>1 DEF Creates, Holding
<1>8. CASE ~(t.ok /\ Fate(path) # "create_error")
  <2>1. c = Failed(Release(t.f, t.refs))
    BY <1>2, <1>4, <1>6, <1>8 DEF CreateWith, CreateAfterGets, GiveBackUnless
  <2>2. PICK g : g = Release(t.f, t.refs)
    OBVIOUS
  <2>3. Exact(g, users) /\ Progressed(t.f, g)
    BY <1>5, <2>2, ReleaseExact DEF Holding
  <2>4. c = [f |-> g, ok |-> FALSE, refs |-> <<>>]
    BY <2>1, <2>2 DEF Failed
  <2>5. SameCallbacks(f.post, g.post)
    BY <1>5, <2>3, SameCallbacksTransitive DEF Holding, Progressed
  <2>6. \A q \in Paths : Loaded(g, q) => Loaded(f, q) \/ rank[q] < rank[path]
    BY <1>5, <2>3 DEF Holding, Progressed
  <2> QED
    BY <1>6, <2>3, <2>4, <2>5, <2>6 DEF Creates, Answered
<1> QED
  BY <1>7, <1>8

\* What was made is abandoned if its PostCreate fails, and else inserted, or destroyed if there
\* is no room; it was not there before.
LEMMA InsertCreatedExact ==
  ASSUME NEW rank \in [Paths -> Nat], NEW f, NEW users \in Users, NEW name \in Names,
         name \notin Malformed, ~Loaded(f, CanonicalPath[name]),
         NEW c, Creates(rank, c, f, users, CanonicalPath[name])
  PROVE  Gets(rank, InsertCreated(c, CanonicalPath[name]), f, users, name)
<1>1. PICK p \in Paths : p = CanonicalPath[name]
  BY NamesAssumption
<1>2. PICK r : r = InsertCreated(c, p)
  OBVIOUS
<1>3. /\ c = [f |-> c.f, ok |-> c.ok, refs |-> c.refs] /\ c.ok \in BOOLEAN
      /\ SameCallbacks(f.post, c.f.post)
      /\ \A q \in Paths : Loaded(c.f, q) => Loaded(f, q) \/ rank[q] < rank[p]
  BY <1>1 DEF Creates, Answered
<1>4. \A q \in Paths : rank[q] < rank[p] => rank[q] <= rank[p]
  OBVIOUS
<1>5. \A q \in Paths : Loaded(c.f, q) => Loaded(f, q) \/ rank[q] <= rank[p]
  BY <1>3, <1>4
<1>6. CASE ~c.ok
  <2>1. r = c
    BY <1>2, <1>6 DEF InsertCreated
  <2>2. Exact(c.f, users)
    BY <1>6 DEF Creates
  <2> QED
    BY <1>1, <1>2, <1>3, <1>5, <1>6, <2>1, <2>2 DEF Gets, Answered
<1>7. CASE c.ok
  <2>1. PICK refs \in Seq(Paths) : refs = c.refs
    BY <1>7 DEF Creates
  <2>2. Exact(c.f, Plus(users, refs))
    BY <1>7, <2>1 DEF Creates
  <2>0. CASE PostCreateFails(p)
    <3>1. PICK g : g = Abandon(c.f, p, refs)
      OBVIOUS
    <3>2. r = [f |-> g, ok |-> FALSE, refs |-> <<>>]
      BY <1>2, <1>7, <2>0, <2>1, <3>1 DEF InsertCreated, Failed
    <3>3. /\ Exact(g, users) /\ g.post = c.f.post
          /\ \A q \in Paths : Loaded(g, q) => Loaded(c.f, q)
      BY <2>0, <2>2, <3>1, AbandonExact
    <3>4. SameCallbacks(f.post, g.post)
      BY <1>3, <3>3
    <3>5. \A q \in Paths : Loaded(g, q) => Loaded(f, q) \/ rank[q] <= rank[p]
      BY <1>5, <3>3
    <3> QED
      BY <1>1, <1>2, <3>2, <3>3, <3>4, <3>5 DEF Gets, Answered
  <2>3. CASE Full(c.f) /\ ~PostCreateFails(p)
    <3>1. PICK g : g = Release(c.f, refs)
      OBVIOUS
    <3>2. r = [f |-> g, ok |-> FALSE, refs |-> <<>>]
      BY <1>2, <1>7, <2>1, <2>3, <3>1 DEF InsertCreated, Failed
    <3>3. Exact(g, users) /\ Progressed(c.f, g)
      BY <2>2, <3>1, ReleaseExact
    <3>4. SameCallbacks(f.post, g.post)
      BY <1>3, <3>3, SameCallbacksTransitive DEF Progressed
    <3>5. \A q \in Paths : Loaded(g, q) => Loaded(f, q) \/ rank[q] <= rank[p]
      BY <1>5, <3>3 DEF Progressed
    <3> QED
      BY <1>1, <1>2, <3>2, <3>3, <3>4, <3>5 DEF Gets, Answered
  <2>4. CASE ~Full(c.f) /\ ~PostCreateFails(p)
    <3>1. PICK g : g = InsertResource(c.f, p, refs)
      OBVIOUS
    <3>2. PICK a, b, d : c = [f |-> a, ok |-> b, refs |-> d]
      BY <1>3
    <3>3. r = [f |-> g, ok |-> TRUE, refs |-> refs]
      <4>1. b = TRUE /\ a = c.f /\ d = refs
        BY <1>3, <1>7, <2>1, <3>2
      <4>2. r = [c EXCEPT !.f = InsertResource(@, p, c.refs)]
        BY <1>2, <1>7, <2>4 DEF InsertCreated
      <4>3. r = [f |-> InsertResource(a, p, c.refs), ok |-> b, refs |-> d]
        BY <3>2, <4>2
      <4> QED
        BY <2>1, <3>1, <4>1, <4>3
    <3>4. ~Loaded(c.f, p)
      <4>1. ~(rank[p] < rank[p])
        OBVIOUS
      <4> QED
        BY <1>1, <1>3, <4>1
    <3>5. /\ Exact(g, Plus(users, <<p>>)) /\ g.post = c.f.post
          /\ \A q \in Paths : q # p /\ Loaded(g, q) => Loaded(c.f, q)
      BY <2>2, <3>1, <3>4, InsertExact
    <3>6. SameCallbacks(f.post, g.post)
      BY <1>3, <3>5
    <3>7. \A q \in Paths : Loaded(g, q) => Loaded(f, q) \/ rank[q] <= rank[p]
      <4>1. rank[p] <= rank[p]
        OBVIOUS
      <4> QED
        BY <1>5, <3>5, <4>1
    <3> QED
      BY <1>1, <1>2, <3>3, <3>5, <3>6, <3>7 DEF Gets, Answered
  <2> QED
    BY <2>0, <2>3, <2>4
<1> QED
  BY <1>6, <1>7

\* A get that fails before it does anything.
LEMMA FailedGets ==
  ASSUME NEW rank, NEW f, NEW users, Exact(f, users), NEW name
  PROVE  Gets(rank, Failed(f), f, users, name)
<1>1. Failed(f) = [f |-> f, ok |-> FALSE, refs |-> <<>>]
  BY DEF Failed
<1> QED
  BY <1>1, SameCallbacksReflexive DEF Gets, Answered

\* One level of Get does what Get may do, if the level below does.
LEMMA GetWithExact ==
  ASSUME TypedWorld, NEW rank, RefsDescend(rank), NEW get, GetsAll(rank, get), NEW f,
         NEW users \in Users, Exact(f, users), NEW name \in Names, NEW chain \in Seq(Names)
  PROVE  Gets(rank, GetWith(get, f, name, chain), f, users, name)
<1>1. PICK p \in Paths : p = CanonicalPath[name]
  BY NamesAssumption
<1>2. rank \in [Paths -> Nat]
  BY DEF RefsDescend
<1>3. PICK r : r = GetWith(get, f, name, chain)
  OBVIOUS
<1>4. CASE r = Failed(f)
  BY <1>3, <1>4, FailedGets
<1>5. CASE name \notin Malformed /\ Loaded(f, p) /\ r # Failed(f)
  <2>1. PICK g : g = IncRef(f, p)
    OBVIOUS
  <2>2. r = [f |-> g, ok |-> TRUE, refs |-> <<>>]
    BY <1>1, <1>3, <1>5, <2>1 DEF GetWith, Failed
  <2>3. /\ Exact(g, Plus(users, <<p>>)) /\ g.post = f.post
        /\ \A q \in Paths : Loaded(g, q) => Loaded(f, q)
    BY <1>5, <2>1, IncRefExact
  <2> QED
    BY <1>1, <1>3, <2>2, <2>3, SameCallbacksReflexive DEF Gets, Answered
<1>6. CASE name \notin Malformed /\ ~Loaded(f, p) /\ r # Failed(f)
  <2>1. PICK longer \in Seq(Names) : longer = Append(chain, name)
    BY AppendProperties
  <2>2. PICK c : c = CreateWith(get, f, p, longer)
    OBVIOUS
  <2>3. r = InsertCreated(c, p)
    BY <1>1, <1>3, <1>6, <2>1, <2>2 DEF GetWith, DoCreateResource
  <2>4. Creates(rank, c, f, users, p)
    BY <2>2, CreateWithExact
  <2> QED
    BY <1>1, <1>2, <1>3, <1>6, <2>3, <2>4, InsertCreatedExact
<1>7. name \in Malformed => r = Failed(f)
  BY <1>3 DEF GetWith
<1> QED
  BY <1>4, <1>5, <1>6, <1>7

\* The depths that Get may reach are a number.
LEMMA MaxDepthType == MaxDepth \in Nat
BY NamesAssumption, FS_CardinalityType DEF MaxDepth

\* The levels of Get: the definition by recursion has a solution.
LEMMA GetLevels ==
  /\ \A x \in Calls : GetWithin[0][x] = Failed(x.f)
  /\ \A n \in 1 .. MaxDepth : \A x \in Calls :
       GetWithin[n][x] = GetWith(GetWithin[n - 1], x.f, x.name, x.chain)
<1> DEFINE L == MaxDepth
           Level(g, n) == [x \in Calls |-> IF n = 0 THEN Failed(x.f)
                                           ELSE GetWith(g[n - 1], x.f, x.name, x.chain)]
           Body(g, m) == [n \in 0 .. m |-> Level(g, n)]
           S == {m \in 0 .. L : \E g : g = Body(g, m)}
           GW == CHOOSE g : g = Body(g, L)
<1>0. L \in Nat
  BY MaxDepthType
<1>a. \A g, h, n, k : (n # 0 /\ k = n /\ g[n - 1] = h[n - 1]) => Level(g, n) = Level(h, k)
  OBVIOUS
<1>b. \A g, h : Level(g, 0) = Level(h, 0)
  OBVIOUS
<1>c. \A g, n, x : n # 0 /\ x \in Calls => Level(g, n)[x] = GetWith(g[n - 1], x.f, x.name, x.chain)
  OBVIOUS
<1>d. \A g, x : x \in Calls => Level(g, 0)[x] = Failed(x.f)
  OBVIOUS
<1>e. GetWithin = GW
  BY DEF GetWithin
<1> HIDE DEF Level
<1>1. 0 \in S
  <2> DEFINE z == [n \in 0 .. 0 |-> Level(0, 0)]
  <2>1. z = Body(z, 0)
    <3>1. ASSUME NEW n \in 0 .. 0 PROVE z[n] = Level(z, n)
      <4>1. n = 0 /\ z[n] = Level(0, 0)
        OBVIOUS
      <4> HIDE DEF z
      <4> QED
        BY <1>b, <4>1
    <3>2. z = [n \in 0 .. 0 |-> z[n]]
      OBVIOUS
    <3> HIDE DEF z
    <3> QED
      BY <3>1, <3>2
  <2> HIDE DEF Body, z
  <2> QED
    BY <1>0, <2>1
<1>2. ASSUME NEW m \in 0 .. L, m \in S, m < L PROVE m + 1 \in S
  <2>1. PICK g : g = Body(g, m)
    BY <1>2
  <2> DEFINE h == [n \in 0 .. m + 1 |-> IF n <= m THEN g[n] ELSE Level(g, m + 1)]
  <2>2. h = Body(h, m + 1)
    <3>1. ASSUME NEW n \in 0 .. m + 1 PROVE h[n] = Level(h, n)
      <4>1. CASE n = 0
        <5>1. h[0] = g[0] /\ g[0] = Level(g, 0)
          BY <2>1
        <5> HIDE DEF h
        <5> QED
          BY <1>b, <4>1, <5>1
      <4>2. CASE n \in 1 .. m
        <5>1. n - 1 \in 0 .. m /\ h[n - 1] = g[n - 1] /\ h[n] = g[n]
          BY <4>2
        <5>2. g[n] = Level(g, n)
          BY <2>1, <4>2
        <5>3. n # 0
          BY <4>2
        <5> HIDE DEF h
        <5> QED
          BY <1>a, <5>1, <5>2, <5>3
      <4>3. CASE n = m + 1
        <5>1. h[n - 1] = g[n - 1] /\ h[n] = Level(g, n) /\ n # 0
          BY <4>3
        <5> HIDE DEF h
        <5> QED
          BY <1>a, <5>1
      <4> QED
        BY <4>1, <4>2, <4>3
    <3>2. h = [n \in 0 .. m + 1 |-> h[n]]
      OBVIOUS
    <3> HIDE DEF h
    <3> QED
      BY <3>1, <3>2
  <2> HIDE DEF Body, h
  <2>3. m + 1 \in 0 .. L /\ \E x : x = Body(x, m + 1)
    BY <1>0, <1>2, <2>2
  <2> QED
    BY <2>3
<1>3. 0 .. L \subseteq S
  <2> HIDE DEF S, L
  <2> QED
    BY <1>0, <1>1, <1>2, EveryRound
<1>4. \E g : g = Body(g, L)
  BY <1>0, <1>3
<1>5. GetWithin = Body(GetWithin, L)
  BY <1>4, <1>e
<1>6. \A n \in 0 .. L : GetWithin[n] = Level(GetWithin, n)
  BY <1>5
<1>7. \A n \in 1 .. L : n \in 0 .. L /\ n # 0
  BY <1>0
<1>8. 0 \in 0 .. L
  BY <1>0
<1> HIDE DEF L
<1>9. \A x \in Calls : GetWithin[0][x] = Failed(x.f)
  BY <1>6, <1>8, <1>d
<1>10. ASSUME NEW n \in 1 .. L, NEW x \in Calls
       PROVE GetWithin[n][x] = GetWith(GetWithin[n - 1], x.f, x.name, x.chain)
  BY <1>6, <1>7, <1>c
<1> QED
  BY <1>9, <1>10 DEF L

\* Every level of Get does what Get may do.
LEMMA GetWithinExact ==
  ASSUME TypedWorld, NEW rank, RefsDescend(rank)
  PROVE  GetsAll(rank, GetWithin[MaxDepth])
<1> DEFINE S == {n \in 0 .. MaxDepth : GetsAll(rank, GetWithin[n])}
<1>0. MaxDepth \in Nat
  BY MaxDepthType
<1>1. 0 \in S
  <2>1. GetsAll(rank, GetWithin[0])
    BY GetLevels, FailedGets DEF GetsAll
  <2> QED
    BY <1>0, <2>1
<1>2. ASSUME NEW n \in 0 .. MaxDepth, n \in S, n < MaxDepth PROVE n + 1 \in S
  <2>1. n + 1 \in 1 .. MaxDepth /\ n + 1 \in 0 .. MaxDepth /\ (n + 1) - 1 = n
    BY <1>0, <1>2
  <2>2. GetsAll(rank, GetWithin[n])
    BY <1>2
  <2>3. ASSUME NEW x \in Calls, NEW users \in Users, Exact(x.f, users)
        PROVE Gets(rank, GetWithin[n + 1][x], x.f, users, x.name)
    <3>1. GetWithin[n + 1][x] = GetWith(GetWithin[n], x.f, x.name, x.chain)
      BY <2>1, GetLevels
    <3>2. x.name \in Names /\ x.chain \in Seq(Names)
      BY DEF Calls
    <3>3. Gets(rank, GetWith(GetWithin[n], x.f, x.name, x.chain), x.f, users, x.name)
      BY <2>2, <2>3, <3>2, GetWithExact
    <3> QED
      BY <3>1, <3>3
  <2>4. GetsAll(rank, GetWithin[n + 1])
    BY <2>3 DEF GetsAll
  <2> QED
    BY <2>1, <2>4
<1>3. 0 .. MaxDepth \subseteq S
  <2> HIDE DEF S
  <2> QED
    BY <1>0, <1>1, <1>2, EveryRound
<1>4. MaxDepth \in S
  <2> HIDE DEF S
  <2> QED
    BY <1>0, <1>3
<1> QED
  BY <1>4

\* Get of resource.cpp gives its caller one reference to the resource if it succeeds and none
\* if it fails, and every count stays what its holders add up to.  What Get took on the way is
\* given back when it fails, except where the PostCreate function of an instance below it
\* failed: DoCreateResource abandons that instance, and its references stay (Sane).
THEOREM GetExact ==
  ASSUME TypedWorld, NEW rank, RefsDescend(rank), NEW f, NEW users \in Users, Exact(f, users),
         NEW name \in Names, NEW chain \in Seq(Names)
  PROVE  Gets(rank, Get(f, name, chain), f, users, name)
<1>1. PICK x : x = Call(f, name, chain)
  OBVIOUS
<1>2. x \in Calls /\ x.f = f /\ x.name = name
  <2>1. f \in FactoryStates
    BY DEF Exact, Sane
  <2> QED
    BY <1>1, <2>1 DEF Call, Calls
<1>3. Get(f, name, chain) = GetWithin[MaxDepth][x]
  BY <1>1 DEF Get
<1> QED
  BY <1>2, <1>3, GetWithinExact DEF GetsAll

\* A create function holds one reference to each of the resources it refers to if it
\* succeeds and none if it fails; what instances below it keep that were abandoned after a
\* failed PostCreate is counted as theirs.
THEOREM CreateFunctionExact ==
  ASSUME TypedWorld, NEW rank, RefsDescend(rank), NEW f, NEW users \in Users, Exact(f, users),
         NEW path \in Paths, NEW chain \in Seq(Names)
  PROVE  Creates(rank, CreateFunction(f, path, chain), f, users, path)
BY GetWithinExact, CreateWithExact DEF CreateFunction

-----------------------------------------------------------------------------
(* What is reached: the least set with the elements of "from" that is closed *)
(* under "next".                                                             *)

Grow(A, next) == UNION {{x} \cup next[x] : x \in A}

\* One step further.
LEMMA GrowMember ==
  ASSUME NEW A, NEW next, NEW y
  PROVE  y \in Grow(A, next) <=> \E x \in A : y = x \/ y \in next[x]
<1>1. y \in Grow(A, next) <=> \E x \in A : y \in {x} \cup next[x]
  BY Zenon DEF Grow
<1> QED
  BY <1>1

\* The rounds of Reach as a function: the definition by recursion has a solution.
LEMMA ReachRounds ==
  ASSUME NEW universe, IsFiniteSet(universe), NEW from, NEW next
  PROVE  \E g : /\ g[0] = from
                /\ \A n \in 1 .. Cardinality(universe) : g[n] = Grow(g[n - 1], next)
                /\ Reach(universe, from, next) = g[Cardinality(universe)]
<1> DEFINE L == Cardinality(universe)
           reached[n \in 0 .. Cardinality(universe)] ==
             IF n = 0 THEN from ELSE UNION {{x} \cup next[x] : x \in reached[n - 1]}
           Body(g, m) == [n \in 0 .. m |-> IF n = 0 THEN from ELSE Grow(g[n - 1], next)]
           S == {m \in 0 .. L : \E g : g = Body(g, m)}
<1>0. L \in Nat
  BY FS_CardinalityType
<1>1. 0 \in S
  <2>1. [n \in 0 .. 0 |-> from] = Body([n \in 0 .. 0 |-> from], 0)
    OBVIOUS
  <2> HIDE DEF Body
  <2> QED
    BY <1>0, <2>1
<1>2. ASSUME NEW m \in 0 .. L, m \in S, m < L PROVE m + 1 \in S
  <2>1. PICK g : g = Body(g, m)
    BY <1>2
  <2> DEFINE h == [n \in 0 .. m + 1 |-> IF n <= m THEN g[n] ELSE Grow(g[m], next)]
  <2>2. h = Body(h, m + 1)
    <3>1. ASSUME NEW n \in 0 .. m + 1 PROVE h[n] = Body(h, m + 1)[n]
      <4>1. CASE n = 0
        BY <2>1, <4>1
      <4>2. CASE n \in 1 .. m
        <5>1. n - 1 \in 0 .. m /\ h[n - 1] = g[n - 1] /\ h[n] = g[n]
          BY <4>2
        <5>2. n \in 0 .. m /\ n \in 0 .. m + 1 /\ n # 0
          BY <4>2
        <5>3. Body(g, m)[n] = Grow(g[n - 1], next)
          BY <5>2
        <5>4. Body(h, m + 1)[n] = Grow(h[n - 1], next)
          <6> HIDE DEF h
          <6> QED
            BY <5>2
        <5>5. g[n] = Body(g, m)[n]
          BY <2>1
        <5> HIDE DEF Body, h
        <5> QED
          BY <5>1, <5>3, <5>4, <5>5
      <4>3. CASE n = m + 1
        <5>1. h[n - 1] = g[m]
          BY <4>3
        <5> QED
          BY <4>3, <5>1
      <4> QED
        BY <4>1, <4>2, <4>3
    <3> QED
      BY <3>1
  <2> HIDE DEF Body, h
  <2>3. m + 1 \in 0 .. L /\ \E x : x = Body(x, m + 1)
    BY <1>0, <1>2, <2>2
  <2> QED
    BY <2>3
<1>3. 0 .. L \subseteq S
  <2> HIDE DEF S, L
  <2> QED
    BY <1>0, <1>1, <1>2, EveryRound
<1>4. \E g : g = Body(g, L)
  BY <1>0, <1>3
<1>5. reached = Body(reached, L)
  BY <1>4 DEF Grow
<1>6. Reach(universe, from, next) = reached[L]
  BY DEF Reach
<1> HIDE DEF reached
<1>7. reached[0] = from
  BY <1>0, <1>5
<1>8. ASSUME NEW n \in 1 .. L PROVE reached[n] = Grow(reached[n - 1], next)
  <2>1. n \in 0 .. L /\ n # 0
    BY <1>0
  <2>2. Body(reached, L)[n] = Grow(reached[n - 1], next)
    <3> HIDE DEF L
    <3> QED
      BY <2>1
  <2> HIDE DEF Body
  <2> QED
    BY <1>5, <2>2
<1> QED
  BY <1>6, <1>7, <1>8

\* Nothing outside a closed set is reached from inside it.
LEMMA ReachWithin ==
  ASSUME NEW universe, IsFiniteSet(universe), NEW from, NEW next, NEW Z,
         from \subseteq Z, \A x \in Z : next[x] \subseteq Z
  PROVE  Reach(universe, from, next) \subseteq Z
<1>1. PICK L \in Nat : L = Cardinality(universe)
  BY FS_CardinalityType
<1>2. PICK g : /\ g[0] = from /\ \A n \in 1 .. L : g[n] = Grow(g[n - 1], next)
               /\ Reach(universe, from, next) = g[L]
  BY <1>1, ReachRounds
<1> DEFINE S == {n \in 0 .. L : g[n] \subseteq Z}
<1>3. 0 \in S
  BY <1>2
<1>4. ASSUME NEW n \in 0 .. L, n \in S, n < L PROVE n + 1 \in S
  <2>1. n + 1 \in 1 .. L /\ n + 1 \in 0 .. L /\ (n + 1) - 1 = n
    BY <1>4
  <2>2. g[n + 1] = Grow(g[n], next)
    BY <1>2, <2>1
  <2>3. g[n] \subseteq Z
    BY <1>4
  <2>4. ASSUME NEW y \in g[n + 1] PROVE y \in Z
    <3>1. PICK x \in g[n] : y = x \/ y \in next[x]
      BY <2>2, <2>4, GrowMember
    <3> QED
      BY <2>3, <3>1
  <2> QED
    BY <2>1, <2>4
<1>5. 0 .. L \subseteq S
  <2> HIDE DEF S
  <2> QED
    BY <1>3, <1>4, EveryRound
<1> QED
  BY <1>2, <1>5

\* What is reached is closed: there are enough rounds, because a round that does not end
\* the search finds an element.
LEMMA ReachClosed ==
  ASSUME NEW universe, IsFiniteSet(universe), NEW from, NEW next,
         from \subseteq universe, \A x \in universe : next[x] \subseteq universe
  PROVE  /\ from \subseteq Reach(universe, from, next)
         /\ Reach(universe, from, next) \subseteq universe
         /\ \A x \in Reach(universe, from, next) : next[x] \subseteq Reach(universe, from, next)
<1>1. PICK L \in Nat : L = Cardinality(universe)
  BY FS_CardinalityType
<1>2. PICK g : /\ g[0] = from /\ \A n \in 1 .. L : g[n] = Grow(g[n - 1], next)
               /\ Reach(universe, from, next) = g[L]
  BY <1>1, ReachRounds
<1> DEFINE Closed(A) == \A x \in A : next[x] \subseteq A
           Good(A, n) == /\ from \subseteq A /\ A \subseteq universe
                         /\ Closed(A) \/ Cardinality(A) >= n
           S == {n \in 0 .. L : Good(g[n], n)}
<1>3. 0 \in S
  <2>1. IsFiniteSet(from)
    BY FS_Subset
  <2>2. Cardinality(from) \in Nat
    BY <2>1, FS_CardinalityType
  <2>3. Cardinality(from) >= 0
    BY <2>2
  <2> QED
    BY <1>2, <2>3
<1>4. ASSUME NEW n \in 0 .. L, n \in S, n < L PROVE n + 1 \in S
  <2>1. n + 1 \in 1 .. L /\ n + 1 \in 0 .. L /\ (n + 1) - 1 = n
    BY <1>4
  <2>2. PICK A : A = g[n]
    OBVIOUS
  <2>3. PICK B : B = Grow(A, next)
    OBVIOUS
  <2>4. g[n + 1] = B
    BY <1>2, <2>1, <2>2, <2>3
  <2>5. Good(A, n)
    BY <1>4, <2>2
  <2>6. \A y : y \in B <=> \E x \in A : y = x \/ y \in next[x]
    BY <2>3, GrowMember
  <2>7. A \subseteq B /\ B \subseteq universe
    BY <2>5, <2>6
  <2>8. CASE Closed(A)
    <3>1. B = A
      BY <2>6, <2>8
    <3>2. Good(B, n + 1)
      BY <2>5, <2>8, <3>1
    <3> HIDE DEF Good
    <3> QED
      BY <2>1, <2>4, <3>2
  <2>9. CASE ~Closed(A)
    <3>1. PICK x \in A : ~(next[x] \subseteq A)
      BY <2>9
    <3>a. PICK y \in next[x] : y \notin A
      BY <3>1
    <3>2. y \in B
      BY <2>6, <3>1, <3>a
    <3>3. IsFiniteSet(B) /\ IsFiniteSet(A) /\ IsFiniteSet(A \cup {y})
      BY <2>5, <2>7, FS_Subset, FS_AddElement
    <3>4. Cardinality(A \cup {y}) = Cardinality(A) + 1
      BY <3>a, <3>3, FS_AddElement
    <3>5. Cardinality(A \cup {y}) <= Cardinality(B)
      BY <2>7, <3>2, <3>3, FS_Subset
    <3>6. PICK a \in Nat, b \in Nat : a = Cardinality(A) /\ b = Cardinality(B)
      BY <3>3, FS_CardinalityType
    <3>7. a >= n /\ a + 1 <= b
      BY <2>5, <2>9, <3>4, <3>5, <3>6
    <3>8. b >= n + 1
      BY <3>7
    <3>9. Good(B, n + 1)
      BY <2>5, <2>7, <3>6, <3>8
    <3> HIDE DEF Good
    <3> QED
      BY <2>1, <2>4, <3>9
  <2> QED
    BY <2>8, <2>9
<1>5. 0 .. L \subseteq S
  <2> HIDE DEF S
  <2> QED
    BY <1>3, <1>4, EveryRound
<1>6. Good(g[L], L)
  BY <1>5
<1>7. PICK A : A = g[L]
  OBVIOUS
<1>8. CASE ~Closed(A)
  <2>1. Cardinality(A) >= L /\ A \subseteq universe
    BY <1>6, <1>7, <1>8
  <2>2. IsFiniteSet(A) /\ Cardinality(A) <= L /\ (Cardinality(A) = L => A = universe)
    BY <1>1, <2>1, FS_Subset
  <2>3. PICK a \in Nat : a = Cardinality(A)
    BY <2>2, FS_CardinalityType
  <2>4. A = universe
    BY <2>1, <2>2, <2>3
  <2> QED
    BY <1>8, <2>4
<1> QED
  BY <1>2, <1>6, <1>7, <1>8

=============================================================================
