----------------------------- MODULE MCMessage -----------------------------
(* Model checking of Message: the threads of one kind are interchangeable. *)
EXTENDS Message

PostersSymmetry == Permutations(Posters)

=============================================================================
