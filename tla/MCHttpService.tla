---------------------------- MODULE MCHttpService ----------------------------
(* Model checking of HttpService.                                           *)
EXTENDS HttpService

=============================================================================
