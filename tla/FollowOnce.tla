----------------------------- MODULE FollowOnce ------------------------------
(* Follow implements Once.                                                 *)
EXTENDS Follow

askedBar == {k \in Callers : pc[k] # "idle"}

O == INSTANCE Once WITH asked <- askedBar, times <- applied, told <- result

\* requestIn keeps the promise of Once: through refusals, moves, pauses and lost
\* connections, and whatever other goroutines do to the connection meanwhile, a
\* request is carried out at most once and its result tells whether it was.
ImplementsOnce == O!Spec
=============================================================================
