---------------------------- MODULE MCPreloader ----------------------------
(* The worlds the preloader is model checked in: four paths, one of them   *)
(* with a second name, that refer to each other in different ways.         *)
EXTENDS Preloader

MCPaths == {"a", "b", "c", "d"}
MCNames == {"a", "b", "b2", "c", "d", "bad"}
MCCanonicalPath == [n \in MCNames |-> IF n \in {"b2", "bad"} THEN "b" ELSE n]

AllOk == [p \in MCPaths |-> "ok"]
OneFails == {[AllOk EXCEPT ![p] = f] : p \in {"a", "b", "c"}, f \in Fates \ {"post_error"}}
Refer(a, b, c) == [p \in MCPaths |-> IF p = "a" THEN a ELSE IF p = "b" THEN b
                                       ELSE IF p = "c" THEN c ELSE <<>>]

World(names, refs, fates, posts, capacities) ==
  [names : names, refs : refs, fate : fates, post : posts, capacity : capacities]

\* Shared dependencies, a path with two names, more than one name to load.
Dags == {Refer(a, b, <<>>) : a \in {<<"b">>, <<"b", "c">>, <<"c", "b">>, <<"b2", "b">>,
                                    <<"b", "c", "d">>},
                             b \in {<<>>, <<"c">>}}
DagWorlds ==
  World({<<"a">>, <<"a", "b">>, <<"a", "bad", "b", "c">>}, Dags, {AllOk}, {{}, {"b"}, {"c"}}, {4})

\* One load fails, or the table is full.  A first name of unknown type is loaded
\* alone: with a second name, DeletePreloader's assert fails.
FailingWorlds ==
  {w \in World({<<"a">>, <<"a", "b">>}, Dags, OneFails, {{}}, {4}) :
     w.fate["a"] = "untyped" => Len(w.names) = 1}
  \cup World({<<"a">>}, Dags, {AllOk}, {{}}, {1, 2})

\* A PostCreate function fails, of the root or of a resource that others may get.
PostErrorWorlds ==
  UNION {World({<<"a">>, <<"a", "b">>}, Dags, {[AllOk EXCEPT ![p] = "post_error"]}, {{p}}, {4}) :
           p \in {"a", "b"}}

\* A child has a PostCreate function, and its parent or another child fails.
FailingParentWorlds ==
  World({<<"a">>}, Dags, {[AllOk EXCEPT ![p] = f] : p \in {"a", "c"}, f \in {"missing", "create_error"}},
        {{"b"}}, {4})

\* Resources that refer to themselves.
LoopWorlds ==
  World({<<"a">>, <<"a", "c">>},
        {Refer(<<"a", "b">>, <<>>, <<>>), Refer(<<"b">>, <<"a">>, <<>>),
         Refer(<<"b", "c">>, <<"c", "b">>, <<>>)},
        {AllOk}, {{}}, {4})

\* Two siblings refer to each other.
CrossCycleWorlds ==
  World({<<"a">>}, {Refer(<<"b", "c">>, <<"c">>, <<"b">>)}, {AllOk}, {{}}, {4})

\* The proofs are about worlds without cycles.  The worlds of the first four kinds are
\* such: a stands above b, b above c, c above d.
Rank == [p \in MCPaths |-> CASE p = "a" -> 3 [] p = "b" -> 2 [] p = "c" -> 1 [] OTHER -> 0]
Lower(name, path) == name \notin Malformed => Rank[CanonicalPath[name]] < Rank[path]
Acyclic(w) ==
  /\ \A p \in Paths : \A k \in DOMAIN w.refs[p] : Lower(w.refs[p][k], p)
  /\ Len(w.names) > 1 =>
       LET top == CanonicalPath[w.names[1]]
       IN  /\ w.names[1] \notin Malformed /\ w.fate[top] # "untyped"
           /\ \A k \in 2 .. Len(w.names) : Lower(w.names[k], top)
ASSUME WorldsAreAcyclic ==
  \A w \in DagWorlds \cup FailingWorlds \cup PostErrorWorlds \cup FailingParentWorlds : Acyclic(w)

SafetyWorlds ==
  DagWorlds \cup FailingWorlds \cup PostErrorWorlds \cup FailingParentWorlds \cup LoopWorlds

=============================================================================
