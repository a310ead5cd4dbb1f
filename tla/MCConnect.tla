------------------------------ MODULE MCConnect ------------------------------
(***************************************************************************)
(* Connect has no constants: every combination of options is an initial    *)
(* state.                                                                  *)
(***************************************************************************)
EXTENDS Connect
=============================================================================
