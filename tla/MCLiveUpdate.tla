----------------------------- MODULE MCLiveUpdate -----------------------------
(* Model checking of LiveUpdate.                                              *)
EXTENDS LiveUpdate

=============================================================================
