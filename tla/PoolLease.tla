----------------------------- MODULE PoolLease ------------------------------
(* Pool implements Lease.                                                  *)
EXTENDS Pool

PhaseOf(place) ==
  CASE place = "out" -> "away"
    [] place = "waiting" -> "asking"
    [] place \in {"slot", "dialing"} -> "admitted"
    [] place = "release" -> "leaving"
    [] OTHER -> "using"

phaseBar == [k \in Callers |-> PhaseOf(pc[k])]
dirtyBar == {c \in Conns : blocks[c] > 0}

L == INSTANCE Lease WITH phase <- phaseBar, lent <- held, dirty <- dirtyBar

\* The pool keeps the promise of Lease, provided callbacks control
\* transactions through Begin, Commit and Rollback (no "raw" habit) and report
\* an answer to them that could not be decoded (no "swallow"): Pool.Use lends
\* each connection to one caller at a time and mid-block to none.
ImplementsLease == L!Spec
=============================================================================
