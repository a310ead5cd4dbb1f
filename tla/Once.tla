-------------------------------- MODULE Once ---------------------------------
(***************************************************************************)
(* What a request promises to whoever makes it, without saying how: it is  *)
(* carried out once or not at all, at a moment between its call and its    *)
(* return, and its result says which, unless it says that nobody knows.    *)
(* Requests of others do not come into it.                                 *)
(***************************************************************************)
EXTENDS Naturals

CONSTANT Callers

VARIABLES asked,  \* the callers whose request has not returned
          times,  \* how often the latest request of each was carried out
          told    \* what it returned

vars == <<asked, times, told>>

Init ==
  /\ asked = {}
  /\ times = [k \in Callers |-> 0]
  /\ told = [k \in Callers |-> "none"]

Ask(k) ==
  /\ k \notin asked
  /\ asked' = asked \cup {k}
  /\ times' = [times EXCEPT ![k] = 0]
  /\ told' = [told EXCEPT ![k] = "none"]

CarryOut(k) ==
  /\ k \in asked /\ times[k] = 0
  /\ times' = [times EXCEPT ![k] = 1]
  /\ UNCHANGED <<asked, told>>

Tell(k, r) ==
  /\ k \in asked
  /\ asked' = asked \ {k}
  /\ told' = [told EXCEPT ![k] = r]

Confirm(k) == times[k] = 1 /\ Tell(k, "ok") /\ UNCHANGED times

Refuse(k) == times[k] = 0 /\ (Tell(k, "error") \/ Tell(k, "notLeader")) /\ UNCHANGED times

\* Nobody knows: it was carried out, it is now, or it never will be.
Doubt(k) ==
  /\ Tell(k, "unknown") \/ Tell(k, "lost")
  /\ \/ UNCHANGED times
     \/ times[k] = 0 /\ times' = [times EXCEPT ![k] = 1]

Next == \E k \in Callers : Ask(k) \/ CarryOut(k) \/ Confirm(k) \/ Refuse(k) \/ Doubt(k)

Spec == Init /\ [][Next]_vars
=============================================================================
