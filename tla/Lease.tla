-------------------------------- MODULE Lease --------------------------------
(***************************************************************************)
(* What a connection pool promises, without saying how: at most Size       *)
(* callers are admitted at once, each is lent a connection nobody else     *)
(* has, and a connection is lent and taken back with no transaction block  *)
(* open in its session.                                                    *)
(***************************************************************************)
EXTENDS Naturals, FiniteSets

CONSTANTS Callers, Conns, NoConn, Size

VARIABLES phase,  \* of each caller: away, asking, admitted, using, leaving
          lent,   \* the connection each caller has, or NoConn
          dirty   \* connections whose session has a transaction block open

vars == <<phase, lent, dirty>>

Phases == {"away", "asking", "admitted", "using", "leaving"}
Admitted == {k \in Callers : phase[k] \in {"admitted", "using", "leaving"}}

Init ==
  /\ phase = [k \in Callers |-> "away"]
  /\ lent = [k \in Callers |-> NoConn]
  /\ dirty = {}

Move(k, from, to) == phase[k] = from /\ phase' = [phase EXCEPT ![k] = to]

Ask(k) == Move(k, "away", "asking") /\ UNCHANGED <<lent, dirty>>

GiveUp(k) == Move(k, "asking", "away") /\ UNCHANGED <<lent, dirty>>

Admit(k) ==
  /\ Cardinality(Admitted) < Size
  /\ Move(k, "asking", "admitted")
  /\ UNCHANGED <<lent, dirty>>

Lend(k) ==
  /\ Move(k, "admitted", "using")
  /\ \E c \in Conns \ dirty :
       /\ \A j \in Callers : lent[j] # c
       /\ lent' = [lent EXCEPT ![k] = c]
  /\ UNCHANGED dirty

\* The borrower, and nobody else, opens blocks.
Use(k) ==
  /\ phase[k] = "using"
  /\ dirty' \in {dirty \cup {lent[k]}, dirty \ {lent[k]}}
  /\ UNCHANGED <<phase, lent>>

\* A session the server ends loses its block.
Clean(c) == dirty' = dirty \ {c} /\ UNCHANGED <<phase, lent>>

TakeBack(k) ==
  /\ Move(k, "using", "leaving")
  /\ dirty' = dirty \ {lent[k]}
  /\ lent' = [lent EXCEPT ![k] = NoConn]

Refuse(k) == Move(k, "admitted", "leaving") /\ UNCHANGED <<lent, dirty>>

Leave(k) == Move(k, "leaving", "away") /\ UNCHANGED <<lent, dirty>>

Next ==
  \/ \E k \in Callers :
       \/ Ask(k) \/ GiveUp(k) \/ Admit(k) \/ Lend(k) \/ Use(k)
       \/ TakeBack(k) \/ Refuse(k) \/ Leave(k)
  \/ \E c \in Conns : Clean(c)

Spec == Init /\ [][Next]_vars
=============================================================================
