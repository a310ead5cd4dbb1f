---------------------------- MODULE FollowProofs -----------------------------
(***************************************************************************)
(* Proofs about Follow, for any cluster, any number of callers and any     *)
(* number of retries.                                                      *)
(***************************************************************************)
EXTENDS FollowOnce, TLAPS

\* However often the loop sends a request, at most one sending is carried out:
\* only not_leader, which was applied nowhere, is sent again.
AppliedAtMostOnce == \A k \in Callers : applied[k] <= 1

\* What is written and read on a connection belongs to the one round trip under
\* way; only a request nobody has carried out is on its way, or has its own
\* answer waiting; one that is to be sent again has not used up its retries.
Inv ==
  /\ TypeOK
  /\ \A j, k \in Callers : pc[j] \in RoundTrip /\ pc[k] \in RoundTrip => j = k
  /\ \A k \in Callers :
       /\ uses[k] # {} => pc[k] \in RoundTrip
       /\ answer[k] # "none" => pc[k] \in RoundTrip
       /\ pc[k] # "idle" => result[k] = "none"
       /\ pc[k] # "idle" /\ answer[k] \notin {"ok", "unknown"} => applied[k] = 0
       /\ answer[k] = "ok" => applied[k] = 1
       /\ pc[k] \in {"move", "pause"} => retried[k] < LeaderRetries
       /\ pc[k] = "move" => hint[k] \in Nodes
  /\ AppliedAtMostOnce
  /\ ResultIsTrue

\* The flags are TRUE or FALSE.
Flags == block \in BOOLEAN /\ fault \in BOOLEAN /\ txnOpen \in BOOLEAN

\* No step gives a flag another value.
LEMMA FlagsKept == ASSUME TypeOK, [Next]_vars PROVE Flags'
<1>. USE DEF TypeOK, Flags
<1>1. ASSUME NEW k \in Callers, SendFails(k) \/ GuardRefuses(k) \/ Write(k) PROVE Flags'
  BY <1>1 DEF SendFails, GuardRefuses, Write, AfterError, client, cluster
<1>2. ASSUME NEW k \in Callers, NEW from, NEW part, NEW to, ArmOrRead(k, from, part, to) PROVE Flags'
  BY <1>2 DEF ArmOrRead, client, cluster
<1>3. ASSUME NEW k \in Callers, NEW j \in Callers,
             ReadReply(k, j) \/ ReadGarbled(k, j) \/ ReadRefusal(k, j)
      PROVE Flags'
  BY <1>3 DEF ReadReply, ReadGarbled, ReadRefusal, AfterError, client, cluster
<1>4. ASSUME NEW k \in Callers, Lost(k) PROVE Flags'
  BY <1>4 DEF Lost, AfterError
<1>5. ASSUME NEW k \in Callers, GiveUp(k) \/ Resend(k) \/ MoveTo(k) \/ MoveFails(k) \/ Pause(k)
      PROVE Flags'
  BY <1>5 DEF GiveUp, Resend, MoveTo, MoveFails, Pause, AfterError, client, cluster
<1>6. ASSUME NEW k \in Callers, Accepts(k) PROVE Flags'
  BY <1>6 DEF Accepts, client
<1>7. ASSUME NEW k \in Callers, Refuses(k) \/ LosesTrack(k) \/ RefersOn(k) PROVE Flags'
  BY <1>7 DEF Refuses, LosesTrack, RefersOn, client, cluster
<1>8. ASSUME NEW k \in Callers, NEW o \in Asks, Call(k, o) PROVE Flags'
  BY <1>8 DEF Call, client, cluster
<1>9. ASSUME NEW n \in Nodes \cup {NoNode}, Elect(n) PROVE Flags'
  BY <1>9 DEF Elect, client
<1>10. ASSUME NEW n \in Nodes, Connect(n) PROVE Flags'
  BY <1>10 DEF Connect
<1>11. CASE UNCHANGED vars
  BY <1>11 DEF vars, client, cluster
<1> QED
  BY <1>1, <1>2, <1>3, <1>4, <1>5, <1>6, <1>7, <1>8, <1>9, <1>10, <1>11
     DEF Next, Loop, Send, Node, ReadEnds, Leaves

\* A request is carried out at most once, and its result tells whether it was.
THEOREM InvHolds == Spec => []Inv
<1> USE FollowAssumption
<1>1. Init => Inv
  <2> SUFFICES ASSUME Init PROVE Inv
    OBVIOUS
  <2>1. Flags
    BY DEF Init, Flags
  <2>2. pc \in [Callers -> Steps] /\ op \in [Callers -> Ops] /\ retried \in [Callers -> 0..LeaderRetries]
    BY DEF Init, Steps, Ops
  <2>3. /\ hint \in [Callers -> Nodes \cup {NoNode}] /\ applied \in [Callers -> Nat]
        /\ result \in [Callers -> Results]
    BY DEF Init, Results, Answers
  <2>4. uses \in [Callers -> SUBSET Parts] /\ answer \in [Callers -> Answers]
    BY DEF Init, Answers
  <2>5. AppliedAtMostOnce /\ ResultIsTrue /\ \A k \in Callers : pc[k] = "idle" /\ uses[k] = {} /\ answer[k] = "none"
    BY DEF Init, AppliedAtMostOnce, ResultIsTrue
  <2> QED
    BY <2>1, <2>2, <2>3, <2>4, <2>5 DEF Init, Inv, TypeOK, Flags, RoundTrip
<1>2. Inv /\ [Next]_vars => Inv'
  <2> SUFFICES ASSUME Inv, [Next]_vars PROVE Inv'
    OBVIOUS
  <2>0. Flags'
    BY FlagsKept DEF Inv
  <2>. USE <2>0 DEF Flags, Inv, TypeOK, Steps, Ops, Answers, Results, RoundTrip, Parts,
                    AppliedAtMostOnce, ResultIsTrue
  <2>1. ASSUME NEW k \in Callers, NEW o \in Asks, Call(k, o) PROVE Inv'
    BY <2>1 DEF Call, Go, cluster, client, trip
  <2>2. ASSUME NEW k \in Callers, SendFails(k) PROVE Inv'
    <3>1. pc[k] = "send" /\ answer[k] = "none" /\ uses[k] = {} /\ applied[k] = 0
      BY <2>2 DEF SendFails, Go
    <3>2. /\ pc' = [pc EXCEPT ![k] = "idle"] /\ result' = [result EXCEPT ![k] = "error"]
          /\ UNCHANGED <<cluster, address, fault, op, retried, hint, trip, applied>>
      BY <2>2 DEF SendFails, Go, Returns
    <3> QED
      BY <3>1, <3>2 DEF cluster, trip
  <2>3. ASSUME NEW k \in Callers, GuardRefuses(k) PROVE Inv'
    BY <2>3 DEF GuardRefuses, Go, Returns, cluster, client, trip
  <2>4. ASSUME NEW k \in Callers, Write(k) PROVE Inv'
    BY <2>4 DEF Write, InFlight, Go, cluster, client
  <2>5. ASSUME NEW k \in Callers, ArmOrRead(k, "written", "arm", "armed") PROVE Inv'
    BY <2>5 DEF ArmOrRead, Go, cluster, client
  <2>6. ASSUME NEW k \in Callers, ArmOrRead(k, "armed", "read", "reading") PROVE Inv'
    BY <2>6 DEF ArmOrRead, Go, cluster, client
  <2>7. ASSUME NEW k \in Callers, NEW j \in Callers, Reads(k, j, "idle") \/ Reads(k, j, "refused")
        PROVE j = k
    BY <2>7 DEF Reads, Go
  <2>8. ASSUME NEW k \in Callers, NEW j \in Callers, ReadReply(k, j) PROVE Inv'
    <3>1. j = k
      BY <2>7, <2>8 DEF ReadReply
    <3>2. /\ pc[k] = "reading" /\ answer[k] \in {"ok", "error", "unknown"}
          /\ pc' = [pc EXCEPT ![k] = "idle"] /\ result' = [result EXCEPT ![k] = answer[k]]
          /\ uses' = [uses EXCEPT ![k] = {}] /\ answer' = [answer EXCEPT ![k] = "none"]
          /\ UNCHANGED <<leader, address, op, retried, hint, applied>>
      BY <2>8, <3>1 DEF ReadReply, Reads, Go, Returns, cluster
    <3>3. answer[k] = "error" => applied[k] = 0
      BY <3>2
    <3> QED
      BY <3>2, <3>3
  <2>23. ASSUME NEW k \in Callers, NEW j \in Callers, ReadGarbled(k, j) PROVE Inv'
    <3>1. j = k
      BY <2>7, <2>23 DEF ReadGarbled
    <3> QED
      BY <2>23, <3>1 DEF ReadGarbled, Reads, Go, Returns, cluster
  <2>9. ASSUME NEW k \in Callers, NEW j \in Callers, ReadRefusal(k, j) PROVE Inv'
    <3>1. j = k
      BY <2>7, <2>9 DEF ReadRefusal
    <3> QED
      BY <2>9, <3>1 DEF ReadRefusal, Reads, Go, cluster, client
  <2>10. ASSUME NEW k \in Callers, Lost(k) PROVE Inv'
    <3>1. /\ pc' = [pc EXCEPT ![k] = "idle"] /\ pc[k] = "reading"
          /\ result' = [result EXCEPT ![k] = "lost"]
          /\ uses' = [uses EXCEPT ![k] = {}] /\ answer' = [answer EXCEPT ![k] = "none"]
          /\ UNCHANGED <<leader, address, op, retried, hint>>
      BY <2>10 DEF Lost, Go, Returns
    <3>2. \/ applied' = [applied EXCEPT ![k] = applied[k] + 1] /\ applied[k] = 0
          \/ applied' = applied
      BY <2>10 DEF Lost, Unanswered, Carry, Go
    <3>3. applied' \in [Callers -> Nat] /\ applied'[k] <= 1
      BY <3>2
    <3>4. \A i \in Callers : i # k => /\ applied'[i] = applied[i] /\ result'[i] = result[i]
                                     /\ pc'[i] = pc[i] /\ uses'[i] = uses[i] /\ answer'[i] = answer[i]
      BY <3>1, <3>2
    <3>5. pc'[k] = "idle" /\ result'[k] = "lost" /\ uses'[k] = {} /\ answer'[k] = "none"
      BY <3>1
    <3>6. TypeOK'
      BY <3>1, <3>3
    <3>7. AppliedAtMostOnce' /\ ResultIsTrue'
      BY <3>3, <3>4, <3>5
    <3>8. \A i, j \in Callers : pc'[i] \in RoundTrip /\ pc'[j] \in RoundTrip => i = j
      BY <3>1
    <3>9. \A i \in Callers :
            /\ uses'[i] # {} => pc'[i] \in RoundTrip
            /\ answer'[i] # "none" => pc'[i] \in RoundTrip
            /\ pc'[i] # "idle" => result'[i] = "none"
            /\ pc'[i] # "idle" /\ answer'[i] \notin {"ok", "unknown"} => applied'[i] = 0
            /\ answer'[i] = "ok" => applied'[i] = 1
            /\ pc'[i] \in {"move", "pause"} => retried[i] < LeaderRetries
            /\ pc'[i] = "move" => hint[i] \in Nodes
      BY <3>4, <3>5
    <3> QED
      BY <3>1, <3>6, <3>7, <3>8, <3>9
  <2>11. ASSUME NEW k \in Callers, GiveUp(k) PROVE Inv'
    <3>1. pc[k] = "refused" /\ answer[k] = "none" /\ uses[k] = {} /\ applied[k] = 0
      BY <2>11 DEF GiveUp, Go
    <3>2. /\ pc' = [pc EXCEPT ![k] = "idle"] /\ result' = [result EXCEPT ![k] = "notLeader"]
          /\ UNCHANGED <<cluster, address, fault, op, retried, hint, trip, applied>>
      BY <2>11 DEF GiveUp, Go, Returns
    <3> QED
      BY <3>1, <3>2 DEF cluster, trip
  <2>12. ASSUME NEW k \in Callers, Resend(k) PROVE Inv'
    BY <2>12 DEF Resend, MayResend, Go, cluster, client, request, trip
  <2>13. ASSUME NEW k \in Callers, MoveTo(k) PROVE Inv'
    BY <2>13 DEF MoveTo, Go
  <2>14. ASSUME NEW k \in Callers, MoveFails(k) PROVE Inv'
    BY <2>14 DEF MoveFails, Go, cluster, client, request, trip
  <2>15. ASSUME NEW k \in Callers, Pause(k) PROVE Inv'
    BY <2>15 DEF Pause, Go, cluster, client, trip
  <2>16. ASSUME NEW k \in Callers, Accepts(k) PROVE Inv'
    <3>1. /\ applied' = [applied EXCEPT ![k] = @ + 1] /\ applied[k] = 0
          /\ answer' = [answer EXCEPT ![k] = "ok"] /\ pc[k] \in RoundTrip
          /\ UNCHANGED <<leader, address, pc, op, retried, hint, uses, result>>
      BY <2>16 DEF Accepts, Reply, Carry, client
    <3>2. applied' \in [Callers -> Nat] /\ applied'[k] = 1
      BY <3>1
    <3> QED
      BY <3>1, <3>2
  <2>17. ASSUME NEW k \in Callers, Refuses(k) PROVE Inv'
    BY <2>17 DEF Refuses, Reply, client
  <2>18. ASSUME NEW k \in Callers, LosesTrack(k) PROVE Inv'
    BY <2>18 DEF LosesTrack, Reply, Carry, cluster, client
  <2>19. ASSUME NEW k \in Callers, RefersOn(k) PROVE Inv'
    BY <2>19 DEF RefersOn, Reply, client
  <2>20. ASSUME NEW n \in Nodes \cup {NoNode}, Elect(n) PROVE Inv'
    BY <2>20 DEF Elect, client, request, trip
  <2>21. ASSUME NEW n \in Nodes, Connect(n) PROVE Inv'
    BY <2>21 DEF Connect, request, trip
  <2>22. CASE UNCHANGED vars
    BY <2>22 DEF vars, cluster, client, request, trip
  <2> QED
    BY <2>1, <2>2, <2>3, <2>4, <2>5, <2>6, <2>8, <2>9, <2>10, <2>11, <2>12, <2>13, <2>14, <2>15,
       <2>16, <2>17, <2>18, <2>19, <2>20, <2>21, <2>22, <2>23 DEF Next, Loop, Send, Node, ReadEnds, Leaves
<1> QED
  BY <1>1, <1>2, PTL DEF Spec

\* Every variable keeps its type; no request is sent again more than
\* LeaderRetries times.
THEOREM TypeCorrect == Spec => []TypeOK
<1>1. Inv => TypeOK
  BY DEF Inv
<1> QED
  BY <1>1, InvHolds, PTL

\* However often the loop sends a request, at most one sending is carried out.
THEOREM CarriedOutAtMostOnce == Spec => []AppliedAtMostOnce
<1>1. Inv => AppliedAtMostOnce
  BY DEF Inv
<1> QED
  BY <1>1, InvHolds, PTL

\* What a caller is told is what happened to its request, on any node it went to
\* and whoever moved the connection meanwhile.
THEOREM RequestsAreTrue == Spec => []ResultIsTrue
<1>1. Inv => ResultIsTrue
  BY DEF Inv
<1> QED
  BY <1>1, InvHolds, PTL

-----------------------------------------------------------------------------
(* Blocks.  Where goroutines share a Client that moves, one may move it    *)
(* away from the block of another (README, disagreements).  Any other      *)
(* client keeps its block: one that does not move, and one that one        *)
(* goroutine uses, whatever the nodes grant.                               *)

Unshared == ~FollowLeader \/ \A j, k \in Callers : j = k

\* A COMMIT that has been answered, and has yet to take the flag down.
Ending(k) == op[k] = "COMMIT" /\ (pc[k] = "refused" \/ answer[k] # "none")

\* A request that is to be sent again is outside any block, so that moving its
\* connection, which would end the block, ends none; where the node grants
\* SESSION_TXN, a BEGIN that is answered with ok has opened one.
BlockInv ==
  /\ txnOpen /\ ~fault /\ Grants("SESSION_TXN") /\ (\A k \in Callers : ~Ending(k)) => block
  /\ \A k \in Callers :
       /\ pc[k] \in {"move", "pause"} => FollowLeader /\ ~txnOpen
       /\ op[k] = "BEGIN" /\ answer[k] = "ok" /\ Grants("SESSION_TXN") => block

\* What is read on the connection is the reader's own reply.
LEMMA OwnReplies ==
  ASSUME Inv, NEW k \in Callers, NEW j \in Callers, NEW to, Reads(k, j, to)
  PROVE  j = k
BY DEF Reads, Go, Inv, RoundTrip

\* A step that leaves the block, the flags and the node alone, and brings the
\* request of its caller no further than to the reading of an answer.
LEMMA NothingDecided ==
  ASSUME Inv, BlockInv, NEW k \in Callers, NEW to \in RoundTrip \cup {"send"},
         UNCHANGED <<block, client, op, answer>>, pc[k] \notin {"idle", "refused"},
         pc' = [pc EXCEPT ![k] = to]
  PROVE  BlockInv'
BY DEF BlockInv, Grants, Ending, client, Inv, TypeOK, RoundTrip

\* Every step keeps the client's belief about its block.
LEMMA BlockStep ==
  ASSUME Unshared, Inv, BlockInv, [Next]_vars
  PROVE  BlockInv'
<1>0. /\ pc \in [Callers -> Steps] /\ op \in [Callers -> Ops] /\ answer \in [Callers -> Answers]
      /\ \A k \in Callers : pc[k] \notin RoundTrip => answer[k] = "none"
  BY DEF Inv, TypeOK
<1> USE DEF Grants
<1>1. ASSUME NEW k \in Callers, NEW o \in Asks, Call(k, o) PROVE BlockInv'
  BY <1>0, <1>1 DEF Call, Go, cluster, client, trip, BlockInv, Ending, RoundTrip
<1>2. ASSUME NEW k \in Callers, SendFails(k) PROVE BlockInv'
  BY <1>0, <1>2 DEF SendFails, Go, AfterError, cluster, trip, BlockInv, Ending, RoundTrip
<1>3. ASSUME NEW k \in Callers, GuardRefuses(k) PROVE BlockInv'
  BY <1>0, <1>3 DEF GuardRefuses, Go, cluster, client, trip, BlockInv, Ending, RoundTrip
<1>4. ASSUME NEW k \in Callers, Write(k) PROVE BlockInv'
  <2>1. pc[k] = "send" /\ answer' = answer /\ pc' = [pc EXCEPT ![k] = "written"]
    BY <1>0, <1>4 DEF Write, Go, RoundTrip
  <2> QED
    BY <1>4, <2>1, NothingDecided DEF Write, cluster, RoundTrip
<1>5. ASSUME NEW k \in Callers, ArmOrRead(k, "written", "arm", "armed") PROVE BlockInv'
  BY <1>5, NothingDecided DEF ArmOrRead, Go, cluster, RoundTrip
<1>6. ASSUME NEW k \in Callers, ArmOrRead(k, "armed", "read", "reading") PROVE BlockInv'
  BY <1>6, NothingDecided DEF ArmOrRead, Go, cluster, RoundTrip
<1>7. ASSUME NEW k \in Callers, NEW j \in Callers, ReadReply(k, j) PROVE BlockInv'
  <2>1. j = k
    BY <1>7, OwnReplies DEF ReadReply
  <2>2. /\ pc[k] = "reading" /\ answer[k] \in {"ok", "error", "unknown"}
        /\ pc' = [pc EXCEPT ![k] = "idle"] /\ answer' = [answer EXCEPT ![k] = "none"]
        /\ UNCHANGED <<block, address, fault, op>>
    BY <1>0, <1>7, <2>1 DEF ReadReply, Reads, Go, Answers, cluster
  <2>3. \A i \in Callers : i # k => pc'[i] = pc[i] /\ answer'[i] = answer[i]
    BY <1>0, <2>2
  <2>4. pc'[k] = "idle" /\ answer'[k] = "none"
    BY <1>0, <2>2
  <2>5. CASE op[k] \notin Controls
    <3>1. txnOpen' = txnOpen
      BY <1>7, <2>1, <2>5 DEF ReadReply, AfterError, Controls
    <3> QED
      BY <2>2, <2>3, <2>4, <2>5, <3>1 DEF BlockInv, Ending, Controls
  <2>6. CASE op[k] = "BEGIN" /\ answer[k] = "ok"
    <3>1. Grants("SESSION_TXN") => block
      BY <2>6 DEF BlockInv
    <3>2. \A i \in Callers : pc[i] \notin {"move", "pause"} \/ i = k
      <4> SUFFICES ASSUME NEW i \in Callers, pc[i] \in {"move", "pause"} PROVE i = k
        OBVIOUS
      <4> QED
        BY DEF BlockInv, Unshared
    <3> QED
      BY <2>2, <2>3, <2>4, <3>1, <3>2 DEF BlockInv, Ending
  <2>7. CASE op[k] = "BEGIN" /\ answer[k] # "ok"
    <3>1. txnOpen' = txnOpen
      BY <1>7, <2>1, <2>7 DEF ReadReply, AfterError
    <3> QED
      BY <2>2, <2>3, <2>4, <2>7, <3>1 DEF BlockInv, Ending
  <2>8. CASE op[k] = "COMMIT"
    <3>1. ~txnOpen'
      BY <1>7, <2>8 DEF ReadReply, AfterError, Controls
    <3> QED
      BY <2>2, <2>3, <2>4, <3>1 DEF BlockInv, Ending
  <2> QED
    BY <1>0, <2>5, <2>6, <2>7, <2>8 DEF Ops, Controls
<1>21. ASSUME NEW k \in Callers, NEW j \in Callers, ReadGarbled(k, j) PROVE BlockInv'
  <2>1. j = k
    BY <1>21, OwnReplies DEF ReadGarbled
  <2>2. /\ pc[k] = "reading"
        /\ pc' = [pc EXCEPT ![k] = "idle"] /\ answer' = [answer EXCEPT ![k] = "none"]
        /\ UNCHANGED <<block, address, fault, op>>
        /\ txnOpen' = AfterError(k) \/ (answer[k] = "ok" /\ op[k] = "BEGIN")
    BY <1>21, <2>1 DEF ReadGarbled, Reads, Go, cluster
  <2>3. \A i \in Callers : i # k => /\ pc'[i] = pc[i] /\ answer'[i] = answer[i]
                                   /\ answer[i] = "none"
    BY <1>0, <2>2 DEF Inv, RoundTrip
  <2>4. pc'[k] = "idle" /\ answer'[k] = "none"
    BY <1>0, <2>2
  <2>5. CASE answer[k] = "ok" /\ op[k] = "BEGIN"
    <3>1. Grants("SESSION_TXN") => block
      BY <2>5 DEF BlockInv
    <3>2. \A i \in Callers : pc[i] \notin {"move", "pause"} \/ i = k
      <4> SUFFICES ASSUME NEW i \in Callers, pc[i] \in {"move", "pause"} PROVE i = k
        OBVIOUS
      <4> QED
        BY DEF BlockInv, Unshared
    <3> QED
      BY <2>2, <2>3, <2>4, <3>1, <3>2 DEF BlockInv, Ending
  <2>6. CASE txnOpen' = AfterError(k) /\ op[k] # "COMMIT"
    <3>1. txnOpen' = txnOpen /\ \A i \in Callers : Ending(i)' <=> Ending(i)
      BY <2>2, <2>3, <2>4, <2>6 DEF AfterError, Ending
    <3> QED
      BY <2>2, <2>3, <2>4, <3>1 DEF BlockInv
  <2>7. CASE txnOpen' = AfterError(k) /\ op[k] = "COMMIT"
    <3>1. ~txnOpen'
      BY <2>7 DEF AfterError
    <3> QED
      BY <2>2, <2>3, <2>4, <3>1 DEF BlockInv
  <2> QED
    BY <2>2, <2>5, <2>6, <2>7
<1>8. ASSUME NEW k \in Callers, NEW j \in Callers, ReadRefusal(k, j) PROVE BlockInv'
  <2>1. j = k
    BY <1>8, OwnReplies DEF ReadRefusal
  <2>2. /\ pc[k] = "reading" /\ answer[k] = "notLeader"
        /\ pc' = [pc EXCEPT ![k] = "refused"] /\ answer' = [answer EXCEPT ![k] = "none"]
        /\ UNCHANGED <<block, client, op>>
    BY <1>8, <2>1 DEF ReadRefusal, Reads, Go, cluster
  <2> QED
    BY <1>0, <2>2 DEF client, BlockInv, Ending
<1>9. ASSUME NEW k \in Callers, Lost(k) PROVE BlockInv'
  <2>1. /\ pc' = [pc EXCEPT ![k] = "idle"] /\ answer' = [answer EXCEPT ![k] = "none"] /\ fault'
        /\ txnOpen' => txnOpen
        /\ UNCHANGED <<address, op>>
    BY <1>9 DEF Lost, Go, AfterError
  <2>2. pc[k] \in RoundTrip /\ \A i \in Callers : i # k => answer[i] = "none"
    BY <1>9 DEF Lost, Go, RoundTrip, Inv
  <2> QED
    BY <1>0, <2>1, <2>2 DEF BlockInv
<1>10. ASSUME NEW k \in Callers, GiveUp(k) PROVE BlockInv'
  <2>1. /\ pc[k] = "refused" /\ pc' = [pc EXCEPT ![k] = "idle"]
        /\ txnOpen' = AfterError(k)
        /\ UNCHANGED <<block, address, fault, op, answer>>
    BY <1>10 DEF GiveUp, Go, cluster, trip
  <2>2. answer[k] = "none"
    BY <1>0, <2>1 DEF RoundTrip
  <2> QED
    BY <1>0, <2>1, <2>2 DEF BlockInv, Ending, AfterError
<1>11. ASSUME NEW k \in Callers, Resend(k) PROVE BlockInv'
  <2>1. /\ FollowLeader /\ ~txnOpen /\ pc[k] = "refused"
        /\ \E to \in {"move", "pause"} : pc' = [pc EXCEPT ![k] = to]
        /\ UNCHANGED <<block, client, op, answer>>
    BY <1>11 DEF Resend, MayResend, Go, cluster, request, trip
  <2> QED
    BY <1>0, <2>1 DEF client, BlockInv, Ending
<1>12. ASSUME NEW k \in Callers, MoveTo(k) PROVE BlockInv'
  <2>1. /\ pc[k] = "move" /\ pc' = [pc EXCEPT ![k] = "send"] /\ address' = hint[k]
        /\ UNCHANGED <<fault, txnOpen, op, answer>>
    BY <1>12 DEF MoveTo, Go
  <2>2. FollowLeader /\ ~txnOpen
    BY <2>1 DEF BlockInv
  <2>3. \A i \in Callers : i = k
    BY <2>2 DEF Unshared
  <2>4. answer[k] = "none"
    BY <1>0, <2>1 DEF RoundTrip
  <2> QED
    BY <1>0, <2>1, <2>2, <2>3, <2>4 DEF BlockInv, Ending
<1>13. ASSUME NEW k \in Callers, MoveFails(k) PROVE BlockInv'
  BY <1>0, <1>13 DEF MoveFails, Go, cluster, client, request, trip, BlockInv, Ending
<1>14. ASSUME NEW k \in Callers, Pause(k) PROVE BlockInv'
  BY <1>0, <1>14 DEF Pause, Go, cluster, client, trip, BlockInv, Ending
<1>15. ASSUME NEW k \in Callers, Accepts(k) PROVE BlockInv'
  <2>1. /\ answer[k] = "none" /\ answer' = [answer EXCEPT ![k] = "ok"] /\ pc[k] \in RoundTrip
        /\ UNCHANGED <<client, pc, op>>
        /\ block' = IF op[k] \in Controls THEN op[k] = "BEGIN" /\ Grants("SESSION_TXN") ELSE block
    BY <1>15 DEF Accepts, Reply
  <2>2. \A i \in Callers : i # k => answer[i] = "none"
    BY <2>1 DEF Inv
  <2>3. CASE op[k] \notin Controls
    <3>1. \A i \in Callers : answer'[i] = "ok" /\ op[i] = "BEGIN" => FALSE
      BY <1>0, <2>1, <2>2, <2>3 DEF Controls
    <3>2. \A i \in Callers : Ending(i)' <=> Ending(i)
      BY <1>0, <2>1, <2>3 DEF Ending, Controls
    <3> QED
      BY <1>0, <2>1, <2>3, <3>1, <3>2 DEF client, BlockInv
  <2>4. CASE op[k] = "BEGIN"
    <3>1. block' <=> Grants("SESSION_TXN")
      BY <2>1, <2>4 DEF Controls
    <3> QED
      BY <1>0, <2>1, <3>1 DEF client, BlockInv
  <2>5. CASE op[k] = "COMMIT"
    <3>1. Ending(k)'
      BY <1>0, <2>1, <2>5 DEF Ending
    <3>2. \A i \in Callers : ~(answer'[i] = "ok" /\ op[i] = "BEGIN")
      BY <1>0, <2>1, <2>2, <2>5
    <3> QED
      BY <1>0, <2>1, <3>1, <3>2 DEF client, BlockInv
  <2> QED
    BY <1>0, <2>3, <2>4, <2>5 DEF Ops, Controls
<1>16. ASSUME NEW k \in Callers, Refuses(k) \/ RefersOn(k) PROVE BlockInv'
  <2>1. /\ answer[k] = "none" /\ pc[k] \in RoundTrip
        /\ \E a \in {"error", "notLeader"} : answer' = [answer EXCEPT ![k] = a]
        /\ block' = (block /\ op[k] # "COMMIT")
        /\ UNCHANGED <<client, pc, op>>
    BY <1>16 DEF Refuses, RefersOn, Reply
  <2>2. \A i \in Callers : i # k => answer[i] = "none"
    BY <2>1 DEF Inv
  <2>3. \A i \in Callers : answer'[i] # "ok"
    BY <1>0, <2>1, <2>2
  <2>4. CASE op[k] = "COMMIT"
    <3>1. Ending(k)'
      BY <1>0, <2>1, <2>4 DEF Ending
    <3> QED
      BY <1>0, <2>1, <2>3, <3>1 DEF client, BlockInv
  <2>5. CASE op[k] # "COMMIT"
    <3>1. \A i \in Callers : Ending(i)' <=> Ending(i)
      BY <1>0, <2>1, <2>5 DEF Ending
    <3>2. block' = block
      BY <2>1, <2>5 DEF Inv, TypeOK
    <3> QED
      BY <1>0, <2>1, <2>3, <3>1, <3>2 DEF client, BlockInv
  <2> QED
    BY <2>4, <2>5
<1>17. ASSUME NEW k \in Callers, LosesTrack(k) PROVE BlockInv'
  <2>1. /\ op[k] \notin Controls /\ answer' = [answer EXCEPT ![k] = "unknown"]
        /\ UNCHANGED <<block, client, pc, op>>
    BY <1>17 DEF LosesTrack, Reply, cluster
  <2>2. \A i \in Callers : Ending(i)' <=> Ending(i)
    BY <1>0, <2>1 DEF Ending, Controls
  <2> QED
    BY <1>0, <2>1, <2>2 DEF client, BlockInv, Controls
<1>18. ASSUME NEW n \in Nodes \cup {NoNode}, Elect(n) PROVE BlockInv'
  BY <1>18 DEF Elect, client, request, trip, BlockInv, Ending
<1>19. ASSUME NEW n \in Nodes, Connect(n) PROVE BlockInv'
  <2>1. /\ \A k \in Callers : pc[k] = "idle" /\ answer[k] = "none"
        /\ ~txnOpen' /\ UNCHANGED <<pc, op, answer>>
    BY <1>0, <1>19 DEF Connect, request, trip, RoundTrip
  <2> QED
    BY <2>1 DEF BlockInv
<1>20. CASE UNCHANGED vars
  BY <1>20 DEF vars, cluster, client, request, trip, BlockInv, Ending
<1> QED
  BY <1>1, <1>2, <1>3, <1>4, <1>5, <1>6, <1>7, <1>8, <1>9, <1>10, <1>11, <1>12, <1>13, <1>14, <1>15,
     <1>16, <1>17, <1>18, <1>19, <1>20, <1>21 DEF Next, Loop, Send, Node, ReadEnds, Leaves

\* Between requests, a client that believes it is in a block is in one, where the
\* node grants SESSION_TXN, if the client never moves or one goroutine uses it.
THEOREM GrantedBlocksAreReal == Unshared => (Spec => []GrantedBlockIsReal)
<1> SUFFICES ASSUME Unshared PROVE Spec => []GrantedBlockIsReal
  OBVIOUS
<1>1. Init => BlockInv
  BY DEF Init, BlockInv
<1>2. Inv /\ BlockInv /\ [Next]_vars => BlockInv'
  BY BlockStep
<1>3. Inv /\ BlockInv => GrantedBlockIsReal
  BY DEF Inv, BlockInv, Ending, GrantedBlockIsReal, AtRest, RoundTrip
<1> QED
  BY <1>1, <1>2, <1>3, InvHolds, PTL DEF Spec

\* Nor does such a client move away from its block: a request that is to be sent
\* again was refused outside any block, and nobody opens one meanwhile.
THEOREM BlocksStayPut == Unshared => (Spec => TxnStaysPut)
<1> SUFFICES ASSUME Unshared PROVE Spec => TxnStaysPut
  OBVIOUS
<1>1. Init => BlockInv
  BY DEF Init, BlockInv
<1>2. Inv /\ BlockInv /\ [Next]_vars => BlockInv'
  BY BlockStep
<1>3. BlockInv /\ [Next]_vars => [txnOpen /\ ~fault => address' = address]_vars
  <2> SUFFICES ASSUME BlockInv, Next, txnOpen, ~fault PROVE address' = address
    OBVIOUS
  <2>1. ASSUME NEW k \in Callers, Send(k) PROVE address' = address
    BY <2>1 DEF Send, SendFails, GuardRefuses, Write, ArmOrRead, ReadReply, ReadGarbled,
       ReadRefusal, ReadEnds, Lost, client
  <2>2. ASSUME NEW k \in Callers, GiveUp(k) \/ Resend(k) \/ MoveFails(k) \/ Pause(k)
        PROVE  address' = address
    BY <2>2 DEF GiveUp, Resend, MoveFails, Pause, client
  <2>3. ASSUME NEW k \in Callers, MoveTo(k) PROVE FALSE
    BY <2>3 DEF MoveTo, Go, BlockInv
  <2>4. ASSUME NEW k \in Callers, Node(k) PROVE address' = address
    BY <2>4 DEF Node, Accepts, Refuses, LosesTrack, RefersOn, Leaves, Lost, client
  <2>5. ASSUME NEW k \in Callers, NEW o \in Asks, Call(k, o) PROVE address' = address
    BY <2>5 DEF Call, client
  <2>6. ASSUME NEW n \in Nodes \cup {NoNode}, Elect(n) PROVE address' = address
    BY <2>6 DEF Elect, client
  <2>7. ASSUME NEW n \in Nodes, Connect(n) PROVE FALSE
    BY <2>7 DEF Connect
  <2> QED
    BY <2>1, <2>2, <2>3, <2>4, <2>5, <2>6, <2>7 DEF Next, Loop
<1> QED
  BY <1>1, <1>2, <1>3, InvHolds, PTL DEF Spec, TxnStaysPut

-----------------------------------------------------------------------------
(* Follow implements Once.                                                 *)

\* A step of the loop that neither returns the request nor carries it out is
\* invisible to Once.
LEMMA Invisible ==
  ASSUME NEW k \in Callers, NEW from, NEW to, Go(k, from, to), from # "idle", to # "idle",
         pc \in [Callers -> Steps], UNCHANGED <<applied, result>>
  PROVE  UNCHANGED O!vars
<1>1. askedBar' = askedBar
  BY DEF Go, askedBar
<1> QED
  BY <1>1 DEF O!vars

\* A step that leaves the places of all requests alone.
LEMMA NobodyReturns == ASSUME UNCHANGED pc PROVE askedBar' = askedBar
BY DEF askedBar

\* A step that returns the request with a result tells it.
LEMMA Told ==
  ASSUME NEW k \in Callers, NEW from, Go(k, from, "idle"), from # "idle",
         pc \in [Callers -> Steps], NEW r, Returns(k, r)
  PROVE  O!Tell(k, r)
<1>1. k \in askedBar /\ askedBar' = askedBar \ {k}
  BY DEF Go, askedBar
<1> QED
  BY <1>1 DEF O!Tell, Returns

\* Every step is one of Once, or invisible to it.
LEMMA OnceStep ==
  ASSUME Inv, [Next]_vars
  PROVE  [O!Next]_(O!vars)
<1>0. /\ pc \in [Callers -> Steps] /\ answer \in [Callers -> Answers] /\ applied \in [Callers -> Nat]
      /\ op \in [Callers -> Ops]
  BY DEF Inv, TypeOK
<1>1. ASSUME NEW k \in Callers, NEW o \in Asks, Call(k, o) PROVE [O!Next]_(O!vars)
  <2>1. k \notin askedBar /\ askedBar' = askedBar \cup {k}
    BY <1>0, <1>1 DEF Call, Go, askedBar
  <2>2. O!Ask(k)
    BY <1>1, <2>1 DEF Call, O!Ask
  <2> QED
    BY <2>2 DEF O!Next
<1>2. ASSUME NEW k \in Callers, SendFails(k) \/ GuardRefuses(k) PROVE [O!Next]_(O!vars)
  <2>1. Go(k, "send", "idle") /\ Returns(k, "error") /\ UNCHANGED applied
    BY <1>2 DEF SendFails, GuardRefuses
  <2>2. pc[k] = "send" /\ answer[k] = "none"
    BY <2>1 DEF Go, Inv, RoundTrip
  <2>3. applied[k] = 0
    BY <2>2 DEF Inv
  <2>4. O!Tell(k, "error")
    BY <1>0, <2>1, Told
  <2>5. O!Refuse(k)
    BY <2>1, <2>3, <2>4 DEF O!Refuse
  <2> QED
    BY <2>5 DEF O!Next
<1>3. ASSUME NEW k \in Callers, Write(k) PROVE [O!Next]_(O!vars)
  BY <1>0, <1>3, Invisible DEF Write
<1>4. ASSUME NEW k \in Callers,
             \/ ArmOrRead(k, "written", "arm", "armed")
             \/ ArmOrRead(k, "armed", "read", "reading")
      PROVE [O!Next]_(O!vars)
  BY <1>0, <1>4, Invisible DEF ArmOrRead
<1>5. ASSUME NEW k \in Callers, NEW j \in Callers, ReadReply(k, j) PROVE [O!Next]_(O!vars)
  <2>1. j = k
    BY <1>5, OwnReplies DEF ReadReply
  <2>2. Go(k, "reading", "idle") /\ Returns(k, answer[k]) /\ UNCHANGED applied
    BY <1>5, <2>1 DEF ReadReply, Reads
  <2>3. pc[k] = "reading" /\ answer[k] \in {"ok", "error", "unknown"}
    BY <1>0, <1>5, <2>1 DEF ReadReply, Reads, Go, Answers
  <2>4. O!Tell(k, answer[k])
    BY <1>0, <2>2, Told
  <2>5. CASE answer[k] = "ok"
    <3>1. applied[k] = 1
      BY <2>5 DEF Inv
    <3>2. O!Confirm(k)
      BY <2>2, <2>4, <2>5, <3>1 DEF O!Confirm
    <3> QED
      BY <3>2 DEF O!Next
  <2>6. CASE answer[k] = "error"
    <3>1. applied[k] = 0
      BY <2>3, <2>6 DEF Inv
    <3>2. O!Refuse(k)
      BY <2>2, <2>4, <2>6, <3>1 DEF O!Refuse
    <3> QED
      BY <3>2 DEF O!Next
  <2>7. CASE answer[k] = "unknown"
    <3>1. O!Doubt(k)
      BY <2>2, <2>4, <2>7 DEF O!Doubt
    <3> QED
      BY <3>1 DEF O!Next
  <2> QED
    BY <2>3, <2>5, <2>6, <2>7
<1>16. ASSUME NEW k \in Callers, NEW j \in Callers, ReadGarbled(k, j) PROVE [O!Next]_(O!vars)
  <2>1. Go(k, "reading", "idle") /\ Returns(k, "lost") /\ UNCHANGED applied
    BY <1>16 DEF ReadGarbled, Reads
  <2>2. O!Tell(k, "lost")
    BY <1>0, <2>1, Told
  <2>3. O!Doubt(k)
    BY <2>1, <2>2 DEF O!Doubt
  <2> QED
    BY <2>3 DEF O!Next
<1>6. ASSUME NEW k \in Callers, NEW j \in Callers, ReadRefusal(k, j) PROVE [O!Next]_(O!vars)
  BY <1>0, <1>6, Invisible DEF ReadRefusal, Reads
<1>7. ASSUME NEW k \in Callers, Lost(k) PROVE [O!Next]_(O!vars)
  <2>1. Go(k, "reading", "idle") /\ Returns(k, "lost") /\ Unanswered(k)
    BY <1>7 DEF Lost
  <2>2. O!Tell(k, "lost")
    BY <1>0, <2>1, Told
  <2>3. CASE UNCHANGED applied
    <3>1. O!Doubt(k)
      BY <2>2, <2>3 DEF O!Doubt
    <3> QED
      BY <3>1 DEF O!Next
  <2>4. CASE answer[k] = "none" /\ Carry(k)
    <3>1. applied[k] = 0
      BY <2>1, <2>4 DEF Go, Inv
    <3>2. applied' = [applied EXCEPT ![k] = 1]
      BY <2>4, <3>1 DEF Carry
    <3>3. O!Doubt(k)
      BY <2>2, <3>1, <3>2 DEF O!Doubt
    <3> QED
      BY <3>3 DEF O!Next
  <2> QED
    BY <2>1, <2>3, <2>4 DEF Unanswered
<1>8. ASSUME NEW k \in Callers, GiveUp(k) PROVE [O!Next]_(O!vars)
  <2>1. Go(k, "refused", "idle") /\ Returns(k, "notLeader") /\ UNCHANGED applied
    BY <1>8 DEF GiveUp
  <2>2. pc[k] = "refused" /\ answer[k] = "none"
    BY <2>1 DEF Go, Inv, RoundTrip
  <2>3. applied[k] = 0
    BY <2>2 DEF Inv
  <2>4. O!Tell(k, "notLeader")
    BY <1>0, <2>1, Told
  <2>5. O!Refuse(k)
    BY <2>1, <2>3, <2>4 DEF O!Refuse
  <2> QED
    BY <2>5 DEF O!Next
<1>9. ASSUME NEW k \in Callers, Resend(k) PROVE [O!Next]_(O!vars)
  <2>1. PICK to \in {"move", "pause"} : Go(k, "refused", to)
    BY <1>9 DEF Resend
  <2>2. UNCHANGED <<applied, result>>
    BY <1>9 DEF Resend, request
  <2> QED
    BY <1>0, <2>1, <2>2, Invisible
<1>10. ASSUME NEW k \in Callers, MoveTo(k) \/ MoveFails(k) \/ Pause(k) PROVE [O!Next]_(O!vars)
  <2>1. \E from \in {"move", "pause"}, to \in {"send", "pause"} : Go(k, from, to)
    BY <1>10 DEF MoveTo, MoveFails, Pause
  <2>2. UNCHANGED <<applied, result>>
    BY <1>10 DEF MoveTo, MoveFails, Pause, request
  <2> QED
    BY <1>0, <2>1, <2>2, Invisible
<1>11. ASSUME NEW k \in Callers, Accepts(k) \/ LosesTrack(k) PROVE [O!Next]_(O!vars)
  <2>1. /\ pc[k] \in RoundTrip /\ answer[k] = "none" /\ UNCHANGED <<pc, result>>
        /\ Carry(k) \/ UNCHANGED applied
    BY <1>11 DEF Accepts, LosesTrack, Reply
  <2>2. k \in askedBar /\ applied[k] = 0 /\ askedBar' = askedBar
    BY <2>1, NobodyReturns DEF Inv, askedBar, RoundTrip
  <2>3. CASE Carry(k)
    <3>1. applied' = [applied EXCEPT ![k] = 1]
      BY <2>2, <2>3 DEF Carry
    <3>2. O!CarryOut(k)
      BY <2>1, <2>2, <3>1 DEF O!CarryOut
    <3> QED
      BY <3>2 DEF O!Next
  <2>4. CASE UNCHANGED applied
    BY <2>1, <2>2, <2>4 DEF O!vars
  <2> QED
    BY <2>1, <2>3, <2>4
<1>12. ASSUME NEW k \in Callers, Refuses(k) \/ RefersOn(k) PROVE [O!Next]_(O!vars)
  <2>1. UNCHANGED <<pc, applied, result>>
    BY <1>12 DEF Refuses, RefersOn
  <2> QED
    BY <2>1, NobodyReturns DEF O!vars
<1>13. ASSUME NEW n \in Nodes \cup {NoNode}, Elect(n) PROVE [O!Next]_(O!vars)
  <2>1. UNCHANGED <<pc, applied, result>>
    BY <1>13 DEF Elect, request
  <2> QED
    BY <2>1, NobodyReturns DEF O!vars
<1>14. ASSUME NEW n \in Nodes, Connect(n) PROVE [O!Next]_(O!vars)
  <2>1. UNCHANGED <<pc, applied, result>>
    BY <1>14 DEF Connect, request
  <2> QED
    BY <2>1, NobodyReturns DEF O!vars
<1>15. CASE UNCHANGED vars
  <2>1. UNCHANGED <<pc, applied, result>>
    BY <1>15 DEF vars, request
  <2> QED
    BY <2>1, NobodyReturns DEF O!vars
<1> QED
  BY <1>1, <1>2, <1>3, <1>4, <1>5, <1>6, <1>7, <1>8, <1>9, <1>10, <1>11, <1>12, <1>13, <1>14, <1>15, <1>16
     DEF Next, Loop, Send, Node, ReadEnds, Leaves

\* requestIn keeps the promise of Once: a request is carried out at most once,
\* between its call and its return, and its result tells whether it was; moves
\* of the connection and requests of other goroutines change nothing of it.
THEOREM FollowImplementsOnce == Spec => ImplementsOnce
<1>1. Init => O!Init
  BY DEF Init, O!Init, askedBar
<1>2. Inv /\ [Next]_vars => [O!Next]_(O!vars)
  BY OnceStep
<1> QED
  BY <1>1, <1>2, InvHolds, PTL DEF Spec, ImplementsOnce, O!Spec
=============================================================================
