------------------------------ MODULE MCTimers ------------------------------
(* Model checking of Timers.                                               *)
EXTENDS Timers

=============================================================================
