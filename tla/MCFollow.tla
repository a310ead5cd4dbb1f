------------------------------ MODULE MCFollow ------------------------------
(* Small instances of Follow.                                              *)
EXTENDS FollowOnce, TLC

CONSTANTS a, b, c, k1, k2

Cluster == {a, b, c}

OneCaller == {k1}

TwoCallers == {k1, k2}

Features == {"SESSION_TXN", "SERVER_PARAMS"}

\* Node c is a sharded or forwarding one, or an old one.
WithoutTxn == [n \in Cluster |-> IF n = c THEN {"SERVER_PARAMS"} ELSE Features]

WithoutAny == [n \in Cluster |-> IF n = c THEN {} ELSE Features]

\* What the program asks.
Anything == {"write", "bind", "BEGIN", "COMMIT"}

Transactions == {"write", "BEGIN", "COMMIT"}

\* For safety alone: callers are alike, and so are the nodes that grant.
Symmetry == Permutations(TwoCallers) \cup Permutations({a, b})
=============================================================================
