---------------------------- MODULE MCLoadQueue ----------------------------
(* Model checking of LoadQueue. *)
EXTENDS LoadQueue, TLC

\* The resources are interchangeable.
NamesSymmetry == Permutations(Names)

=============================================================================
