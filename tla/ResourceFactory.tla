-------------------------- MODULE ResourceFactory --------------------------
(***************************************************************************)
(* The resource factory's table of reference-counted resources             *)
(* (engine/resource/src/resource.cpp) as its users call it on the main     *)
(* thread: Get, which loads a resource and what it refers to when it is    *)
(* not there, and Release, which destroys it with its last reference.      *)
(*                                                                         *)
(* The operators map a state f of the factory to the next one:             *)
(*   f.res    for every path its reference count, the paths it holds a     *)
(*            reference to while it is loaded ("refs"), and the paths that *)
(*            instances of it hold which Get abandoned ("lost"), one per   *)
(*            reference;                                                   *)
(*   f.post   PostCreate callbacks a preloader has queued;                 *)
(*   f.abort  the first assert() that failed, or "none".                   *)
(* The code's recursions are loops here, with the number of their rounds   *)
(* bounded by what the recursion consumes.                                 *)
(***************************************************************************)
EXTENDS Integers, Sequences, FiniteSets, SequencesExt

CONSTANTS Names,         \* resource names as they are written
          Malformed,     \* names CheckSuppliedResourcePath refuses
          Paths,         \* canonical paths
          CanonicalPath  \* GetCanonicalPath: [Names -> Paths]

NoPath == "no path"

ASSUME NamesAssumption == /\ IsFiniteSet(Names) /\ IsFiniteSet(Paths) /\ NoPath \notin Paths
                          /\ CanonicalPath \in [Names -> Paths]
                          /\ Malformed \subseteq Names

\* What the factory is used on, which never changes: for every path the names
\* the resource refers to ("refs"), how its load ends ("fate") and whether its
\* type has a PostCreate function ("post"); and the table's capacity.
VARIABLE world

Fates == {"ok", "missing", "untyped", "preload_error", "create_error", "post_error"}
OK == "RESULT_OK"
PENDING == "RESULT_PENDING"
Results == {OK, "RESULT_RESOURCE_NOT_FOUND", "RESULT_FORMAT_ERROR"}

Refs(path) == world.refs[path]
Fate(path) == world.fate[path]
HasPostCreate(path) == path \in world.post
PostCreateFails(path) == Fate(path) = "post_error"

Resources == [count : Nat, refs : Seq(Paths), lost : Seq(Paths)]
Callbacks == [path : Paths, destroy : BOOLEAN, refs : Seq(Paths), dead : BOOLEAN]
Aborts == {"none", "Release", "MarkPathInProgress", "UnmarkPathInProgress",
           "RemoveFromParentPendingCount", "PreloaderRemoveLeaf", "RemoveChildren",
           "CreateResource", "DeletePreloader"}
FactoryStates == [res : [Paths -> Resources], post : Seq(Callbacks), abort : Aborts]

\* What is reached from the elements of "from" in steps from x to an element of next[x].
Reach(universe, from, next) ==
  LET reached[n \in 0 .. Cardinality(universe)] ==
        IF n = 0 THEN from ELSE UNION {{x} \cup next[x] : x \in reached[n - 1]}
  IN  reached[Cardinality(universe)]

\* The C assert(): the first one that fails stops the program.
Require(s, condition, name) ==
  IF condition \/ s.abort # "none" THEN s ELSE [s EXCEPT !.abort = name]

Unloaded == [count |-> 0, refs |-> <<>>, lost |-> <<>>]
Loaded(f, path) == f.res[path].count > 0
Full(f) == Cardinality({p \in Paths : Loaded(f, p)}) >= world.capacity

IncRef(f, path) == [f EXCEPT !.res[path].count = @ + 1]

InsertResource(f, path, refs) ==
  [f EXCEPT !.res[path] = [count |-> 1, refs |-> refs, lost |-> f.res[path].lost]]

EraseResource(f, path) ==
  [f EXCEPT !.res[path] = [count |-> 0, refs |-> <<>>, lost |-> f.res[path].lost]]

\* An instance nobody destroys: it is not in the table and keeps its references.
Abandon(f, path, refs) ==
  [f EXCEPT !.res[path] = [count |-> f.res[path].count, refs |-> f.res[path].refs,
                           lost |-> f.res[path].lost \o refs]]

\* A PostCreate callback queued for a resource that is destroyed is left with
\* a dead resource, unless it is for a second instance, not in the table.
Orphaned(callbacks, path) ==
  [k \in DOMAIN callbacks |->
     [callbacks[k] EXCEPT !.dead = @ \/ (callbacks[k].path = path /\ ~callbacks[k].destroy)]]

(***************************************************************************)
(* Release takes the references to the paths of a sequence back, one after *)
(* the other; what a destroyed resource refers to is released, before the  *)
(* rest, by its DestroyFunction.  No reference is taken back twice.        *)
(***************************************************************************)
ReleaseHead(f, work) ==
  LET p == Head(work)
  IN  IF ~Loaded(f, p) THEN [f |-> Require(f, FALSE, "Release"), work |-> work]
      ELSE IF f.res[p].count > 1
      THEN [f |-> [f EXCEPT !.res[p].count = @ - 1], work |-> Tail(work)]
      ELSE [f |-> [EraseResource(f, p) EXCEPT !.post = Orphaned(@, p)],
            work |-> f.res[p].refs \o Tail(work)]

ReleaseRound(r) ==
  IF r.work = <<>> \/ r.f.abort # "none" THEN r ELSE ReleaseHead(r.f, r.work)

References(f) == UNION {{p} \X (1 .. f.res[p].count) : p \in Paths}

Release(f, paths) ==
  LET rounds == Cardinality(References(f)) + 1
      after[n \in 0 .. rounds] ==
        IF n = 0 THEN [f |-> f, work |-> paths] ELSE ReleaseRound(after[n - 1])
  IN  after[rounds].f

(***************************************************************************)
(* Get(f, name, chain) is [f, ok, refs]; "chain" is m_GetResourceStack,    *)
(* the names being loaded.  CreateFunction(f, path, chain) is a type's     *)
(* create function: it gets what the resource refers to, in order, and     *)
(* gives it back when one of them fails.  The two call each other: "get"   *)
(* is the Get for what is one reference further away, and a chain never    *)
(* has a name twice.                                                       *)
(***************************************************************************)
PrepareResourceCreation(f, path) == ~Full(f) /\ Fate(path) # "untyped"
LoadResource(path) == Fate(path) # "missing"

Failed(f) == [f |-> f, ok |-> FALSE, refs |-> <<>>]
Call(f, name, chain) == [f |-> f, name |-> name, chain |-> chain]
Calls == [f : FactoryStates, name : Names, chain : Seq(Names)]

Took(refs, got, name) ==
  [got EXCEPT !.refs = IF got.ok THEN Append(refs, CanonicalPath[name]) ELSE refs]

GetNext(get, t, name, chain) ==
  IF t.ok THEN Took(t.refs, get[Call(t.f, name, chain)], name) ELSE t

GetAll(get, f, names, chain) ==
  LET after[n \in 0 .. Len(names)] ==
        IF n = 0 THEN [Failed(f) EXCEPT !.ok = TRUE] ELSE GetNext(get, after[n - 1], names[n], chain)
  IN  after[Len(names)]

GiveBackUnless(complete, got) == IF complete THEN got ELSE Failed(Release(got.f, got.refs))

CreateAfterGets(got, path) == GiveBackUnless(got.ok /\ Fate(path) # "create_error", got)
CreateWith(get, f, path, chain) == CreateAfterGets(GetAll(get, f, Refs(path), chain), path)

\* PostCreate is called on what CreateFunction made.  If it fails the instance
\* is left to itself, with what it refers to; else it is inserted, or destroyed
\* if there is no room.
InsertCreated(created, path) ==
  IF ~created.ok THEN created
  ELSE IF PostCreateFails(path) THEN Failed(Abandon(created.f, path, created.refs))
  ELSE IF Full(created.f) THEN Failed(Release(created.f, created.refs))
  ELSE [created EXCEPT !.f = InsertResource(@, path, created.refs)]

DoCreateResource(get, f, path, chain) ==
  IF Fate(path) = "preload_error" THEN Failed(f)
  ELSE InsertCreated(CreateWith(get, f, path, chain), path)

GetWith(get, f, name, chain) ==
  IF name \in Malformed \/ name \in ToSet(chain) THEN Failed(f)
  ELSE IF Loaded(f, CanonicalPath[name])
  THEN [Failed(IncRef(f, CanonicalPath[name])) EXCEPT !.ok = TRUE]
  ELSE IF PrepareResourceCreation(f, CanonicalPath[name]) /\ LoadResource(CanonicalPath[name])
  THEN DoCreateResource(get, f, CanonicalPath[name], Append(chain, name))
  ELSE Failed(f)

MaxDepth == Cardinality(Names) + 1
GetWithin[n \in 0 .. MaxDepth] ==
  [x \in Calls |-> IF n = 0 THEN Failed(x.f)
                   ELSE GetWith(GetWithin[n - 1], x.f, x.name, x.chain)]

Get(f, name, chain) == GetWithin[MaxDepth][Call(f, name, chain)]
CreateFunction(f, path, chain) == CreateWith(GetWithin[MaxDepth], f, path, chain)

-----------------------------------------------------------------------------
(* Reference definitions.                                                  *)

\* The paths a load of one of "paths" needs, itself included.
Closure(paths) ==
  Reach(Paths, paths, [p \in Paths |-> {CanonicalPath[n] : n \in ToSet(Refs(p))}])

\* A path refers to itself, through others or not.
Cyclic(p) == p \in Closure({CanonicalPath[n] : n \in ToSet(Refs(p))})

\* Everything below a resource is there, sound, and ends in one of "fates".
SoundBelow(name, fates) ==
  /\ name \notin Malformed
  /\ \A p \in Closure({CanonicalPath[name]}) :
       Fate(p) \in fates /\ ~Cyclic(p) /\ ToSet(Refs(p)) \cap Malformed = {}

\* Get succeeds with it; every CreateFunction below it succeeds.
Loadable(name) == SoundBelow(name, {"ok"})
Creatable(name) == SoundBelow(name, {"ok", "post_error"})

\* How many references to "path" a sequence of paths holds.
PlacesOf(path, paths) == {k \in DOMAIN paths : paths[k] = path}
Times(path, paths) == Cardinality(PlacesOf(path, paths))

\* The references to "path" that the resources of a table hold, and the instances
\* that were abandoned.
Held(r) == r.refs \o r.lost
HoldersOf(table, path) ==
  UNION {{q} \X PlacesOf(path, Held(table[q])) : q \in Paths}

=============================================================================
