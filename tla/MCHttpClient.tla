---------------------------- MODULE MCHttpClient ----------------------------
(* Model checking of HttpClient: the clients are interchangeable.          *)
EXTENDS HttpClient, TLC

DualStack == [x \in Hosts |-> Families]
OnlyIPv6 == [x \in Hosts |-> {"ipv6"}]

ThreadsSymmetry == Permutations(Threads)

=============================================================================
