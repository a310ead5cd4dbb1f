------------------------------- MODULE MCPool -------------------------------
(* Small instances of Pool.                                                *)
EXTENDS PoolLease

CONSTANTS k1, k2, k3, c1, c2, c3

TwoCallers == {k1, k2}
ThreeCallers == {k1, k2, k3}
TwoConns == {c1, c2}
ThreeConns == {c1, c2, c3}

NoHabits == {}
AllHabits == {"swallow", "raw"}
=============================================================================
