----------------------------- MODULE MCRequests ------------------------------
(***************************************************************************)
(* Two goroutines on the connections of one principal, for TLC.            *)
(***************************************************************************)
EXTENDS Requests, TLC

Symmetry == Permutations(Clients) \cup Permutations(Goroutines) \cup Permutations(Txns)
=============================================================================
