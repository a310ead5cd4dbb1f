--------------------------- MODULE ExchangeProofs ----------------------------
(***************************************************************************)
(* Proofs about Exchange, for any number of goroutines and calls: until    *)
(* Close is called, a caller gets the reply to its own request or none.    *)
(***************************************************************************)
EXTENDS Exchange, TLAPS, FiniteSetTheorems, SequenceTheorems

\* The guard is taken exactly while one goroutine is in an exchange.
GuardInv ==
  /\ \A j, k \in Callers : pc[j] \in Exchanging /\ pc[k] \in Exchanging => j = k
  /\ inFlight <=> \E k \in Callers : pc[k] \in Exchanging

\* Before Close, only poisoning closes the socket, and nobody waits for BYE.
OpenInv ==
  once = "new" => /\ open \/ fault
                  /\ \A k \in Callers : pc[k] \notin Closing

\* A call has a number; what it returned it got by reading it.
CallInv ==
  \A k \in Callers :
    /\ pc[k] \in {"cas"} \cup Exchanging => mine[k] \in 1..MaxCalls
    /\ pc[k] \in {"cas", "write", "arm", "head", "body"} => answer[k] = NoAnswer

Quiet == toServer = <<>> /\ inbox = <<>> /\ owed = NoFrame

Piece(m, part) == [of |-> m, part |-> part]

\* Of the reply to m nothing has been read; if the peer had left before the
\* request, there will be none.
Awaited(m) ==
  \/ Quiet
  \/ toServer = <<m>> /\ inbox = <<>> /\ owed = NoFrame
  \/ toServer = <<>> /\ inbox = <<Piece(m, "head")>> /\ owed = m
  \/ toServer = <<>> /\ inbox = <<Piece(m, "head"), Piece(m, "body")>> /\ owed = NoFrame
  \/ toServer = <<>> /\ inbox = <<Piece(m, "alone")>> /\ owed = NoFrame
  \/ toServer = <<>> /\ inbox = <<Piece(m, "bad")>> /\ owed = NoFrame

\* The header has been read and the body has not.
HalfRead(m) ==
  /\ toServer = <<>>
  /\ \/ inbox = <<>> /\ owed = m
     \/ inbox = <<Piece(m, "body")>> /\ owed = NoFrame

Waiting == {"arm", "head", "body", "finish"}

\* Nothing is on the wire but the request of the goroutine that has the guard
\* and the reply to it.
StreamInv ==
  once = "new" /\ open =>
    /\ (\A k \in Callers : pc[k] \notin Waiting) => Quiet
    /\ \A k \in Callers :
         /\ pc[k] \in {"arm", "head"} => Awaited(mine[k])
         /\ pc[k] = "body" => head[k] = mine[k] /\ HalfRead(mine[k])
         /\ pc[k] = "finish" /\ answer[k] # NoAnswer => Quiet

AnswerInv ==
  once = "new" => \A k \in Callers : answer[k] # NoAnswer => answer[k] = <<mine[k], mine[k]>>

Inv == TypeOK /\ GuardInv /\ OpenInv /\ CallInv /\ StreamInv /\ AnswerInv

-----------------------------------------------------------------------------
\* The next piece of a stream is one, and so are those after it.
LEMMA PieceTyped ==
  ASSUME inbox \in Seq(Pieces), inbox # <<>>
  PROVE  inbox[1] \in Pieces /\ inbox[1].of \in Frames /\ Tail(inbox) \in Seq(Pieces)
<1>1. Head(inbox) \in Pieces /\ Tail(inbox) \in Seq(Pieces)
  BY HeadTailProperties
<1>2. Head(inbox) = inbox[1]
  OBVIOUS
<1> QED
  BY <1>1, <1>2 DEF Pieces

\* A frame that is written joins the others.
LEMMA FrameTyped ==
  ASSUME toServer \in Seq(Frames), NEW f \in Frames
  PROVE  Append(toServer, f) \in Seq(Frames)
BY AppendProperties

\* The body of a reply goes behind its header.
LEMMA AppendOne == ASSUME NEW a, NEW b PROVE Append(<<a>>, b) = <<a, b>>
<1>1. <<a>> \in Seq({a, b}) /\ <<a, b>> \in Seq({a, b})
  OBVIOUS
<1>2. Append(<<a>>, b) \in Seq({a, b}) /\ Len(Append(<<a>>, b)) = 2
      /\ Append(<<a>>, b)[1] = a /\ Append(<<a>>, b)[2] = b
  BY <1>1, AppendProperties
<1>3. Len(<<a, b>>) = 2 /\ \A i \in 1..2 : Append(<<a>>, b)[i] = <<a, b>>[i]
  BY <1>2
<1>4. Len(Append(<<a>>, b)) = Len(<<a, b>>)
  BY <1>2, <1>3
<1>5. \A i \in 1..Len(Append(<<a>>, b)) : Append(<<a>>, b)[i] = <<a, b>>[i]
  BY <1>2, <1>3
<1> QED
  BY <1>1, <1>2, <1>4, <1>5, SeqEqual

\* No step gives a variable a value of another type, or a poisoned connection a
\* socket.
LEMMA TypeKept == ASSUME TypeOK, CallInv, [Next]_vars PROVE TypeOK'
<1> USE ExchangeAssumption DEF TypeOK, Exchanging, Closing, Frames, NoFrame, NoAnswer, Pieces
<1>1. ASSUME NEW k \in Callers, Call(k) PROVE TypeOK'
  BY <1>1 DEF Call, Go, wire
<1>2. ASSUME NEW k \in Callers, TakeGuard(k) PROVE TypeOK'
  BY <1>2 DEF TakeGuard, Go, wire
<1>3. ASSUME NEW k \in Callers, GuardRefuses(k) PROVE TypeOK'
  BY <1>3 DEF GuardRefuses, Go, conn, wire
<1>4. ASSUME NEW k \in Callers, RefuseFrame(k) PROVE TypeOK'
  BY <1>4 DEF RefuseFrame, Go, wire
<1>5. ASSUME NEW k \in Callers, EncodeFails(k) PROVE TypeOK'
  BY <1>5 DEF EncodeFails, Go, Poison, wire
<1>6. ASSUME NEW k \in Callers, Write(k) PROVE TypeOK'
  <2>1. mine[k] \in Frames
    BY <1>6 DEF Write, Go, CallInv
  <2>2. toServer' \in Seq(Frames)
    BY <1>6, <2>1, FrameTyped DEF Write
  <2>3. pc' \in [Callers -> {"idle", "cas"} \cup Exchanging \cup Closing]
    BY <1>6 DEF Write, Go
  <2> QED
    BY <1>6, <2>2, <2>3 DEF Write, conn
<1>7. ASSUME NEW k \in Callers, WriteFails(k) PROVE TypeOK'
  BY <1>7 DEF WriteFails, Go, Poison, wire
<1>8. ASSUME NEW k \in Callers, Arm(k) PROVE TypeOK'
  BY <1>8 DEF Arm, Go, wire
<1>9. ASSUME NEW k \in Callers, ArmFails(k) PROVE TypeOK'
  BY <1>9 DEF ArmFails, Go, Poison, wire
<1>10. ASSUME NEW k \in Callers, ReadHead(k, "head", "body", "finish") PROVE TypeOK'
  <2>1. inbox[1] \in Pieces /\ inbox[1].of \in Frames /\ Tail(inbox) \in Seq(Pieces)
    BY <1>10, PieceTyped DEF ReadHead, Arrived
  <2>2. head' \in [Callers -> Frames \cup {NoFrame}]
    BY <1>10, <2>1 DEF ReadHead
  <2>3. answer' \in [Callers -> (Frames \cup {NoFrame}) \X (Frames \cup {NoFrame})]
    BY <1>10, <2>1 DEF ReadHead
  <2>4. pc' \in [Callers -> {"idle", "cas"} \cup Exchanging \cup Closing]
    BY <1>10 DEF ReadHead, Go
  <2> QED
    BY <1>10, <2>1, <2>2, <2>3, <2>4 DEF ReadHead, conn
<1>11. ASSUME NEW k \in Callers, ReadBody(k, "body", "finish") PROVE TypeOK'
  <2>1. inbox[1] \in Pieces /\ inbox[1].of \in Frames /\ Tail(inbox) \in Seq(Pieces)
    BY <1>11, PieceTyped DEF ReadBody, Arrived
  <2>2. answer' \in [Callers -> (Frames \cup {NoFrame}) \X (Frames \cup {NoFrame})]
    BY <1>11, <2>1 DEF ReadBody
  <2> QED
    BY <1>11, <2>1, <2>2 DEF ReadBody, Go, conn
<1>12. ASSUME NEW k \in Callers, NEW place \in {"head", "body"}, ReadFails(k, place, "finish") PROVE TypeOK'
  BY <1>12 DEF ReadFails, Go, conn, wire
<1>13. ASSUME NEW k \in Callers, Finish(k) PROVE TypeOK'
  BY <1>13 DEF Finish, Go, Poison, wire
<1>14. ASSUME NEW k \in Callers, CloseStart(k) PROVE TypeOK'
  BY <1>14 DEF CloseStart, Go, wire
<1>15. ASSUME NEW k \in Callers, SayClose(k) PROVE TypeOK'
  <2>1. 0 \in Frames
    OBVIOUS
  <2>2. toServer' \in Seq(Frames)
    BY <1>15, <2>1, FrameTyped DEF SayClose
  <2> QED
    BY <1>15, <2>2 DEF SayClose, Go, conn
<1>16. ASSUME NEW k \in Callers, ReadHead(k, "byeHead", "byeBody", "drop") PROVE TypeOK'
  <2>1. inbox[1] \in Pieces /\ inbox[1].of \in Frames /\ Tail(inbox) \in Seq(Pieces)
    BY <1>16, PieceTyped DEF ReadHead, Arrived
  <2>2. head' \in [Callers -> Frames \cup {NoFrame}]
    BY <1>16, <2>1 DEF ReadHead
  <2>3. answer' \in [Callers -> (Frames \cup {NoFrame}) \X (Frames \cup {NoFrame})]
    BY <1>16, <2>1 DEF ReadHead
  <2>4. pc' \in [Callers -> {"idle", "cas"} \cup Exchanging \cup Closing]
    BY <1>16 DEF ReadHead, Go
  <2> QED
    BY <1>16, <2>1, <2>2, <2>3, <2>4 DEF ReadHead, conn
<1>17. ASSUME NEW k \in Callers, ReadBody(k, "byeBody", "drop") PROVE TypeOK'
  <2>1. inbox[1] \in Pieces /\ inbox[1].of \in Frames /\ Tail(inbox) \in Seq(Pieces)
    BY <1>17, PieceTyped DEF ReadBody, Arrived
  <2>2. answer' \in [Callers -> (Frames \cup {NoFrame}) \X (Frames \cup {NoFrame})]
    BY <1>17, <2>1 DEF ReadBody
  <2> QED
    BY <1>17, <2>1, <2>2 DEF ReadBody, Go, conn
<1>18. ASSUME NEW k \in Callers, NEW place \in {"byeHead", "byeBody"}, ReadFails(k, place, "drop") PROVE TypeOK'
  BY <1>18 DEF ReadFails, Go, conn, wire
<1>19. ASSUME NEW k \in Callers, CloseDrop(k) PROVE TypeOK'
  BY <1>19 DEF CloseDrop, Go, wire
<1>20. ASSUME NEW part \in {"head", "alone", "bad"}, ServerAnswers(part) PROVE TypeOK'
  BY <1>20 DEF ServerAnswers, local, conn
<1>21. CASE ServerSendsBody
  BY <1>21 DEF ServerSendsBody, local, conn
<1>22. CASE ServerLeaves
  BY <1>22 DEF ServerLeaves, local, conn
<1>23. CASE SetReadTimeout
  BY <1>23 DEF SetReadTimeout, local, wire
<1>24. CASE UNCHANGED vars
  BY <1>24 DEF vars, local, conn, wire
<1> QED
  BY <1>1, <1>2, <1>3, <1>4, <1>5, <1>6, <1>7, <1>8, <1>9, <1>10, <1>11, <1>12, <1>13,
     <1>14, <1>15, <1>16, <1>17, <1>18, <1>19, <1>20, <1>21, <1>22, <1>23, <1>24
     DEF Next, ExchangeStep, ExchangeRead, CloseStep, ByeRead, Server

\* No step lets a second goroutine in, or leaves the guard taken.
LEMMA GuardKept == ASSUME TypeOK, GuardInv, [Next]_vars PROVE GuardInv'
<1> USE DEF TypeOK, GuardInv, Exchanging, Closing
<1>1. ASSUME NEW k \in Callers, Call(k) PROVE GuardInv'
  BY <1>1 DEF Call, Go, wire
<1>2. ASSUME NEW k \in Callers, TakeGuard(k) PROVE GuardInv'
  BY <1>2 DEF TakeGuard, Go, wire
<1>3. ASSUME NEW k \in Callers, GuardRefuses(k) PROVE GuardInv'
  BY <1>3 DEF GuardRefuses, Go, conn, wire
<1>4. ASSUME NEW k \in Callers, RefuseFrame(k) PROVE GuardInv'
  BY <1>4 DEF RefuseFrame, Go, wire
<1>5. ASSUME NEW k \in Callers, EncodeFails(k) PROVE GuardInv'
  BY <1>5 DEF EncodeFails, Go, Poison, wire
<1>6. ASSUME NEW k \in Callers, Write(k) PROVE GuardInv'
  BY <1>6 DEF Write, Go, conn
<1>7. ASSUME NEW k \in Callers, WriteFails(k) PROVE GuardInv'
  BY <1>7 DEF WriteFails, Go, Poison, wire
<1>8. ASSUME NEW k \in Callers, Arm(k) PROVE GuardInv'
  BY <1>8 DEF Arm, Go, wire
<1>9. ASSUME NEW k \in Callers, ArmFails(k) PROVE GuardInv'
  BY <1>9 DEF ArmFails, Go, Poison, wire
<1>10. ASSUME NEW k \in Callers, ReadHead(k, "head", "body", "finish") PROVE GuardInv'
  BY <1>10 DEF ReadHead, Arrived, Go, conn
<1>11. ASSUME NEW k \in Callers, ReadBody(k, "body", "finish") PROVE GuardInv'
  BY <1>11 DEF ReadBody, Arrived, Go, conn
<1>12. ASSUME NEW k \in Callers, NEW place \in {"head", "body"}, ReadFails(k, place, "finish") PROVE GuardInv'
  BY <1>12 DEF ReadFails, Go, conn, wire
<1>13. ASSUME NEW k \in Callers, Finish(k) PROVE GuardInv'
  BY <1>13 DEF Finish, Go, Poison, wire
<1>14. ASSUME NEW k \in Callers, CloseStart(k) PROVE GuardInv'
  BY <1>14 DEF CloseStart, Go, wire
<1>15. ASSUME NEW k \in Callers, SayClose(k) PROVE GuardInv'
  BY <1>15 DEF SayClose, Go, conn
<1>16. ASSUME NEW k \in Callers, ReadHead(k, "byeHead", "byeBody", "drop") PROVE GuardInv'
  BY <1>16 DEF ReadHead, Arrived, Go, conn
<1>17. ASSUME NEW k \in Callers, ReadBody(k, "byeBody", "drop") PROVE GuardInv'
  BY <1>17 DEF ReadBody, Arrived, Go, conn
<1>18. ASSUME NEW k \in Callers, NEW place \in {"byeHead", "byeBody"}, ReadFails(k, place, "drop") PROVE GuardInv'
  BY <1>18 DEF ReadFails, Go, conn, wire
<1>19. ASSUME NEW k \in Callers, CloseDrop(k) PROVE GuardInv'
  BY <1>19 DEF CloseDrop, Go, wire
<1>20. ASSUME NEW part \in {"head", "alone", "bad"}, ServerAnswers(part) PROVE GuardInv'
  BY <1>20 DEF ServerAnswers, local, conn
<1>21. CASE ServerSendsBody
  BY <1>21 DEF ServerSendsBody, local, conn
<1>22. CASE ServerLeaves
  BY <1>22 DEF ServerLeaves, local, conn
<1>23. CASE SetReadTimeout
  BY <1>23 DEF SetReadTimeout, local, wire
<1>24. CASE UNCHANGED vars
  BY <1>24 DEF vars, local, conn, wire
<1> QED
  BY <1>1, <1>2, <1>3, <1>4, <1>5, <1>6, <1>7, <1>8, <1>9, <1>10, <1>11, <1>12, <1>13,
     <1>14, <1>15, <1>16, <1>17, <1>18, <1>19, <1>20, <1>21, <1>22, <1>23, <1>24
     DEF Next, ExchangeStep, ExchangeRead, CloseStep, ByeRead, Server

\* Before Close nothing but poison closes the socket.
LEMMA OpenKept == ASSUME TypeOK, OpenInv, [Next]_vars PROVE OpenInv'
<1> USE DEF TypeOK, OpenInv, Exchanging, Closing
<1>1. ASSUME NEW k \in Callers, Call(k) PROVE OpenInv'
  BY <1>1 DEF Call, Go, wire
<1>2. ASSUME NEW k \in Callers, TakeGuard(k) PROVE OpenInv'
  BY <1>2 DEF TakeGuard, Go, wire
<1>3. ASSUME NEW k \in Callers, GuardRefuses(k) PROVE OpenInv'
  BY <1>3 DEF GuardRefuses, Go, conn, wire
<1>4. ASSUME NEW k \in Callers, RefuseFrame(k) PROVE OpenInv'
  BY <1>4 DEF RefuseFrame, Go, wire
<1>5. ASSUME NEW k \in Callers, EncodeFails(k) PROVE OpenInv'
  BY <1>5 DEF EncodeFails, Go, Poison, wire
<1>6. ASSUME NEW k \in Callers, Write(k) PROVE OpenInv'
  BY <1>6 DEF Write, Go, conn
<1>7. ASSUME NEW k \in Callers, WriteFails(k) PROVE OpenInv'
  BY <1>7 DEF WriteFails, Go, Poison, wire
<1>8. ASSUME NEW k \in Callers, Arm(k) PROVE OpenInv'
  BY <1>8 DEF Arm, Go, wire
<1>9. ASSUME NEW k \in Callers, ArmFails(k) PROVE OpenInv'
  BY <1>9 DEF ArmFails, Go, Poison, wire
<1>10. ASSUME NEW k \in Callers, ReadHead(k, "head", "body", "finish") PROVE OpenInv'
  BY <1>10 DEF ReadHead, Arrived, Go, conn
<1>11. ASSUME NEW k \in Callers, ReadBody(k, "body", "finish") PROVE OpenInv'
  BY <1>11 DEF ReadBody, Arrived, Go, conn
<1>12. ASSUME NEW k \in Callers, NEW place \in {"head", "body"}, ReadFails(k, place, "finish") PROVE OpenInv'
  BY <1>12 DEF ReadFails, Go, conn, wire
<1>13. ASSUME NEW k \in Callers, Finish(k) PROVE OpenInv'
  BY <1>13 DEF Finish, Go, Poison, wire
<1>14. ASSUME NEW k \in Callers, CloseStart(k) PROVE OpenInv'
  BY <1>14 DEF CloseStart, Go, wire
<1>15. ASSUME NEW k \in Callers, SayClose(k) PROVE OpenInv'
  BY <1>15 DEF SayClose, Go, conn
<1>16. ASSUME NEW k \in Callers, ReadHead(k, "byeHead", "byeBody", "drop") PROVE OpenInv'
  BY <1>16 DEF ReadHead, Arrived, Go, conn
<1>17. ASSUME NEW k \in Callers, ReadBody(k, "byeBody", "drop") PROVE OpenInv'
  BY <1>17 DEF ReadBody, Arrived, Go, conn
<1>18. ASSUME NEW k \in Callers, NEW place \in {"byeHead", "byeBody"}, ReadFails(k, place, "drop") PROVE OpenInv'
  BY <1>18 DEF ReadFails, Go, conn, wire
<1>19. ASSUME NEW k \in Callers, CloseDrop(k) PROVE OpenInv'
  BY <1>19 DEF CloseDrop, Go, wire
<1>20. ASSUME NEW part \in {"head", "alone", "bad"}, ServerAnswers(part) PROVE OpenInv'
  BY <1>20 DEF ServerAnswers, local, conn
<1>21. CASE ServerSendsBody
  BY <1>21 DEF ServerSendsBody, local, conn
<1>22. CASE ServerLeaves
  BY <1>22 DEF ServerLeaves, local, conn
<1>23. CASE SetReadTimeout
  BY <1>23 DEF SetReadTimeout, local, wire
<1>24. CASE UNCHANGED vars
  BY <1>24 DEF vars, local, conn, wire
<1> QED
  BY <1>1, <1>2, <1>3, <1>4, <1>5, <1>6, <1>7, <1>8, <1>9, <1>10, <1>11, <1>12, <1>13,
     <1>14, <1>15, <1>16, <1>17, <1>18, <1>19, <1>20, <1>21, <1>22, <1>23, <1>24
     DEF Next, ExchangeStep, ExchangeRead, CloseStep, ByeRead, Server

\* A call keeps its number, and has no answer before it has read one.
LEMMA CallKept == ASSUME TypeOK, CallInv, [Next]_vars PROVE CallInv'
<1> USE ExchangeAssumption DEF TypeOK, CallInv, Exchanging, Closing
<1>1. ASSUME NEW k \in Callers, Call(k) PROVE CallInv'
  BY <1>1 DEF Call, Go, wire
<1>2. ASSUME NEW k \in Callers, TakeGuard(k) PROVE CallInv'
  BY <1>2 DEF TakeGuard, Go, wire
<1>3. ASSUME NEW k \in Callers, GuardRefuses(k) PROVE CallInv'
  BY <1>3 DEF GuardRefuses, Go, conn, wire
<1>4. ASSUME NEW k \in Callers, RefuseFrame(k) PROVE CallInv'
  BY <1>4 DEF RefuseFrame, Go, wire
<1>5. ASSUME NEW k \in Callers, EncodeFails(k) PROVE CallInv'
  BY <1>5 DEF EncodeFails, Go, Poison, wire
<1>6. ASSUME NEW k \in Callers, Write(k) PROVE CallInv'
  BY <1>6 DEF Write, Go, conn
<1>7. ASSUME NEW k \in Callers, WriteFails(k) PROVE CallInv'
  BY <1>7 DEF WriteFails, Go, Poison, wire
<1>8. ASSUME NEW k \in Callers, Arm(k) PROVE CallInv'
  BY <1>8 DEF Arm, Go, wire
<1>9. ASSUME NEW k \in Callers, ArmFails(k) PROVE CallInv'
  BY <1>9 DEF ArmFails, Go, Poison, wire
<1>10. ASSUME NEW k \in Callers, ReadHead(k, "head", "body", "finish") PROVE CallInv'
  BY <1>10 DEF ReadHead, Arrived, Go, conn
<1>11. ASSUME NEW k \in Callers, ReadBody(k, "body", "finish") PROVE CallInv'
  BY <1>11 DEF ReadBody, Arrived, Go, conn
<1>12. ASSUME NEW k \in Callers, NEW place \in {"head", "body"}, ReadFails(k, place, "finish") PROVE CallInv'
  BY <1>12 DEF ReadFails, Go, conn, wire
<1>13. ASSUME NEW k \in Callers, Finish(k) PROVE CallInv'
  BY <1>13 DEF Finish, Go, Poison, wire
<1>14. ASSUME NEW k \in Callers, CloseStart(k) PROVE CallInv'
  BY <1>14 DEF CloseStart, Go, wire
<1>15. ASSUME NEW k \in Callers, SayClose(k) PROVE CallInv'
  BY <1>15 DEF SayClose, Go, conn
<1>16. ASSUME NEW k \in Callers, ReadHead(k, "byeHead", "byeBody", "drop") PROVE CallInv'
  BY <1>16 DEF ReadHead, Arrived, Go, conn
<1>17. ASSUME NEW k \in Callers, ReadBody(k, "byeBody", "drop") PROVE CallInv'
  BY <1>17 DEF ReadBody, Arrived, Go, conn
<1>18. ASSUME NEW k \in Callers, NEW place \in {"byeHead", "byeBody"}, ReadFails(k, place, "drop") PROVE CallInv'
  BY <1>18 DEF ReadFails, Go, conn, wire
<1>19. ASSUME NEW k \in Callers, CloseDrop(k) PROVE CallInv'
  BY <1>19 DEF CloseDrop, Go, wire
<1>20. ASSUME NEW part \in {"head", "alone", "bad"}, ServerAnswers(part) PROVE CallInv'
  BY <1>20 DEF ServerAnswers, local, conn
<1>21. CASE ServerSendsBody
  BY <1>21 DEF ServerSendsBody, local, conn
<1>22. CASE ServerLeaves
  BY <1>22 DEF ServerLeaves, local, conn
<1>23. CASE SetReadTimeout
  BY <1>23 DEF SetReadTimeout, local, wire
<1>24. CASE UNCHANGED vars
  BY <1>24 DEF vars, local, conn, wire
<1> QED
  BY <1>1, <1>2, <1>3, <1>4, <1>5, <1>6, <1>7, <1>8, <1>9, <1>10, <1>11, <1>12, <1>13,
     <1>14, <1>15, <1>16, <1>17, <1>18, <1>19, <1>20, <1>21, <1>22, <1>23, <1>24
     DEF Next, ExchangeStep, ExchangeRead, CloseStep, ByeRead, Server

\* The wire carries nothing but one request and its reply.
LEMMA StreamKept == ASSUME TypeOK, GuardInv, OpenInv, CallInv, StreamInv, [Next]_vars PROVE StreamInv'
<1> USE ExchangeAssumption DEF TypeOK, GuardInv, OpenInv, CallInv, StreamInv, Quiet, Awaited, HalfRead, Waiting, Exchanging, Closing
<1>1. ASSUME NEW k \in Callers, Call(k) PROVE StreamInv'
  BY <1>1 DEF Call, Go, wire
<1>2. ASSUME NEW k \in Callers, TakeGuard(k) PROVE StreamInv'
  BY <1>2 DEF TakeGuard, Go, wire
<1>3. ASSUME NEW k \in Callers, GuardRefuses(k) PROVE StreamInv'
  BY <1>3 DEF GuardRefuses, Go, conn, wire
<1>4. ASSUME NEW k \in Callers, RefuseFrame(k) PROVE StreamInv'
  BY <1>4 DEF RefuseFrame, Go, wire
<1>5. ASSUME NEW k \in Callers, EncodeFails(k) PROVE StreamInv'
  BY <1>5 DEF EncodeFails, Go, Poison, wire
<1>6. ASSUME NEW k \in Callers, Write(k) PROVE StreamInv'
  <2> SUFFICES ASSUME once = "new" PROVE StreamInv'
    BY <1>6 DEF Write, conn
  <2>1. \A j \in Callers : j # k => pc[j] \notin Waiting /\ pc'[j] = pc[j]
    BY <1>6 DEF Write, Go
  <2>2. Quiet
    BY <1>6, <2>1 DEF Write, Go
  <2>3. toServer' \in {<<>>, <<mine[k]>>} /\ UNCHANGED <<inbox, owed>>
    BY <1>6, <2>2 DEF Write
  <2>4. Awaited(mine[k])'
    BY <1>6, <2>2, <2>3 DEF Write
  <2>5. pc'[k] \in {"arm", "head"}
    BY <1>6 DEF Write, Go
  <2> QED
    BY <1>6, <2>1, <2>4, <2>5 DEF Write
<1>7. ASSUME NEW k \in Callers, WriteFails(k) PROVE StreamInv'
  BY <1>7 DEF WriteFails, Go, Poison, wire
<1>8. ASSUME NEW k \in Callers, Arm(k) PROVE StreamInv'
  BY <1>8 DEF Arm, Go, wire
<1>9. ASSUME NEW k \in Callers, ArmFails(k) PROVE StreamInv'
  BY <1>9 DEF ArmFails, Go, Poison, wire
<1>10. ASSUME NEW k \in Callers, ReadHead(k, "head", "body", "finish") PROVE StreamInv'
  <2> SUFFICES ASSUME once = "new" PROVE StreamInv'
    BY <1>10 DEF ReadHead, conn
  <2>1. \A j \in Callers : j # k => pc[j] \notin Waiting /\ pc'[j] = pc[j]
    BY <1>10 DEF ReadHead, Go
  <2>2. Awaited(mine[k]) /\ inbox # <<>> /\ pc[k] = "head"
    BY <1>10 DEF ReadHead, Arrived, Go
  <2>3. /\ inbox' = Tail(inbox) /\ UNCHANGED <<mine, conn, toServer, owed>>
        /\ pc'[k] = IF inbox[1].part = "head" THEN "body" ELSE "finish"
    BY <1>10 DEF ReadHead, Go
  <2>4. head'[k] = IF inbox[1].part = "head" THEN inbox[1].of ELSE NoFrame
    BY <1>10 DEF ReadHead
  <2>5. answer'[k] # NoAnswer => inbox[1].part = "alone"
    BY <1>10 DEF ReadHead
  <2>6. CASE inbox[1].part = "head"
    <3>1. \/ inbox = <<Piece(mine[k], "head")>> /\ owed = mine[k]
          \/ inbox = <<Piece(mine[k], "head"), Piece(mine[k], "body")>> /\ owed = NoFrame
      BY <2>2, <2>6 DEF Piece
    <3>2. toServer = <<>>
      BY <2>2, <3>1
    <3>3. inbox[1].of = mine[k]
      BY <3>1 DEF Piece
    <3>4. ASSUME inbox = <<Piece(mine[k], "head")>>, owed = mine[k]
          PROVE  HalfRead(mine[k])'
      <4>1. Tail(inbox) = <<>>
        BY <3>4
      <4> QED
        BY <2>3, <3>2, <3>4, <4>1
    <3>5. ASSUME inbox = <<Piece(mine[k], "head"), Piece(mine[k], "body")>>, owed = NoFrame
          PROVE  HalfRead(mine[k])'
      <4>1. Tail(inbox) = <<Piece(mine[k], "body")>>
        BY <3>5
      <4> QED
        BY <2>3, <3>2, <3>5, <4>1
    <3>6. HalfRead(mine[k])'
      BY <3>1, <3>4, <3>5
    <3>7. head'[k] = mine'[k] /\ pc'[k] = "body"
      BY <2>3, <2>4, <2>6, <3>3
    <3> QED
      BY <2>1, <2>3, <3>6, <3>7 DEF conn
  <2>7. CASE inbox[1].part = "alone"
    <3>1. inbox = <<Piece(mine[k], "alone")>> /\ toServer = <<>> /\ owed = NoFrame
      BY <2>2, <2>7 DEF Piece
    <3>2. Quiet'
      BY <2>3, <3>1
    <3> QED
      BY <2>1, <2>3, <2>7, <3>2 DEF conn
  <2>8. CASE inbox[1].part \notin {"head", "alone"}
    BY <2>1, <2>3, <2>5, <2>8 DEF conn
  <2> QED
    BY <2>6, <2>7, <2>8
<1>11. ASSUME NEW k \in Callers, ReadBody(k, "body", "finish") PROVE StreamInv'
  BY <1>11 DEF ReadBody, Arrived, Go, conn
<1>12. ASSUME NEW k \in Callers, NEW place \in {"head", "body"}, ReadFails(k, place, "finish") PROVE StreamInv'
  BY <1>12 DEF ReadFails, Go, conn, wire
<1>13. ASSUME NEW k \in Callers, Finish(k) PROVE StreamInv'
  BY <1>13 DEF Finish, Go, Poison, wire
<1>14. ASSUME NEW k \in Callers, CloseStart(k) PROVE StreamInv'
  BY <1>14 DEF CloseStart, Go, wire
<1>15. ASSUME NEW k \in Callers, SayClose(k) PROVE StreamInv'
  BY <1>15 DEF SayClose, Go, conn
<1>16. ASSUME NEW k \in Callers, ReadHead(k, "byeHead", "byeBody", "drop") PROVE StreamInv'
  BY <1>16 DEF ReadHead, Arrived, Go, conn
<1>17. ASSUME NEW k \in Callers, ReadBody(k, "byeBody", "drop") PROVE StreamInv'
  BY <1>17 DEF ReadBody, Arrived, Go, conn
<1>18. ASSUME NEW k \in Callers, NEW place \in {"byeHead", "byeBody"}, ReadFails(k, place, "drop") PROVE StreamInv'
  BY <1>18 DEF ReadFails, Go, conn, wire
<1>19. ASSUME NEW k \in Callers, CloseDrop(k) PROVE StreamInv'
  BY <1>19 DEF CloseDrop, Go, wire
<1>20. ASSUME NEW part \in {"head", "alone", "bad"}, ServerAnswers(part) PROVE StreamInv'
  <2> SUFFICES ASSUME once = "new", open PROVE StreamInv'
    BY <1>20 DEF ServerAnswers, conn
  <2>1. UNCHANGED <<local, conn>> /\ toServer # <<>> /\ owed = NoFrame
    BY <1>20 DEF ServerAnswers
  <2>2. PICK k \in Callers : pc[k] \in Waiting
    BY <2>1
  <2>3. \A j \in Callers : j # k => pc[j] \notin Waiting
    BY <2>2
  <2>4. CASE pc[k] \in {"arm", "head"}
    <3>1. toServer = <<mine[k]>> /\ inbox = <<>>
      BY <2>1, <2>4
    <3>2. /\ toServer' = <<>> /\ inbox' = <<Piece(mine[k], part)>>
          /\ owed' = IF part = "head" THEN mine[k] ELSE NoFrame
      BY <1>20, <3>1 DEF ServerAnswers, Piece
    <3>3. Awaited(mine[k])'
      BY <2>1, <3>2 DEF local
    <3> QED
      BY <2>1, <2>3, <2>4, <3>3 DEF local, conn
  <2>5. pc[k] # "body" /\ ~(pc[k] = "finish" /\ answer[k] # NoAnswer)
    BY <2>1
  <2>6. CASE pc[k] = "finish" /\ answer[k] = NoAnswer
    BY <2>1, <2>3, <2>6 DEF local, conn
  <2> QED
    BY <2>2, <2>4, <2>5, <2>6
<1>21. CASE ServerSendsBody
  <2> SUFFICES ASSUME once = "new", open PROVE StreamInv'
    BY <1>21 DEF ServerSendsBody, conn
  <2>1. /\ UNCHANGED <<local, conn, toServer>> /\ owed # NoFrame /\ owed' = NoFrame
        /\ inbox' = Append(inbox, Piece(owed, "body"))
    BY <1>21 DEF ServerSendsBody, Piece
  <2>2. PICK k \in Callers : pc[k] \in Waiting
    BY <2>1
  <2>3. \A j \in Callers : j # k => pc[j] \notin Waiting
    BY <2>2
  <2>4. CASE pc[k] \in {"arm", "head"}
    <3>1. toServer = <<>> /\ inbox = <<Piece(mine[k], "head")>> /\ owed = mine[k]
      BY <2>1, <2>4
    <3>2. inbox' = <<Piece(mine[k], "head"), Piece(mine[k], "body")>>
      <4> DEFINE first == Piece(mine[k], "head")
                 second == Piece(mine[k], "body")
      <4>1. inbox = <<first>> /\ inbox' = Append(inbox, second)
        BY <2>1, <3>1
      <4> HIDE DEF first, second
      <4>2. Append(<<first>>, second) = <<first, second>>
        BY AppendOne
      <4>3. inbox' = <<first, second>>
        BY <4>1, <4>2
      <4> QED
        BY <4>3 DEF first, second
    <3>3. Awaited(mine[k])'
      BY <2>1, <3>1, <3>2 DEF local
    <3> QED
      BY <2>1, <2>3, <2>4, <3>3 DEF local, conn
  <2>5. CASE pc[k] = "body"
    <3>1. toServer = <<>> /\ inbox = <<>> /\ owed = mine[k] /\ head[k] = mine[k]
      BY <2>1, <2>5
    <3>2. inbox' = <<Piece(mine[k], "body")>>
      BY <2>1, <3>1
    <3>3. HalfRead(mine[k])'
      BY <2>1, <3>1, <3>2 DEF local
    <3> QED
      BY <2>1, <2>3, <2>5, <3>1, <3>3 DEF local, conn
  <2>6. ~(pc[k] = "finish" /\ answer[k] # NoAnswer)
    BY <2>1
  <2>7. CASE pc[k] = "finish" /\ answer[k] = NoAnswer
    BY <2>1, <2>3, <2>7 DEF local, conn
  <2> QED
    BY <2>2, <2>4, <2>5, <2>6, <2>7
<1>22. CASE ServerLeaves
  BY <1>22 DEF ServerLeaves, local, conn
<1>23. CASE SetReadTimeout
  BY <1>23 DEF SetReadTimeout, local, wire
<1>24. CASE UNCHANGED vars
  BY <1>24 DEF vars, local, conn, wire
<1> QED
  BY <1>1, <1>2, <1>3, <1>4, <1>5, <1>6, <1>7, <1>8, <1>9, <1>10, <1>11, <1>12, <1>13,
     <1>14, <1>15, <1>16, <1>17, <1>18, <1>19, <1>20, <1>21, <1>22, <1>23, <1>24
     DEF Next, ExchangeStep, ExchangeRead, CloseStep, ByeRead, Server

\* What a goroutine reads is the reply to its own request.
LEMMA AnswerKept == ASSUME TypeOK, GuardInv, OpenInv, CallInv, StreamInv, AnswerInv, [Next]_vars PROVE AnswerInv'
<1> USE ExchangeAssumption DEF TypeOK, GuardInv, OpenInv, CallInv, AnswerInv, Waiting, Exchanging, Closing
<1>1. ASSUME NEW k \in Callers, Call(k) PROVE AnswerInv'
  BY <1>1 DEF Call, Go, wire
<1>2. ASSUME NEW k \in Callers, TakeGuard(k) PROVE AnswerInv'
  BY <1>2 DEF TakeGuard, Go, wire
<1>3. ASSUME NEW k \in Callers, GuardRefuses(k) PROVE AnswerInv'
  BY <1>3 DEF GuardRefuses, Go, conn, wire
<1>4. ASSUME NEW k \in Callers, RefuseFrame(k) PROVE AnswerInv'
  BY <1>4 DEF RefuseFrame, Go, wire
<1>5. ASSUME NEW k \in Callers, EncodeFails(k) PROVE AnswerInv'
  BY <1>5 DEF EncodeFails, Go, Poison, wire
<1>6. ASSUME NEW k \in Callers, Write(k) PROVE AnswerInv'
  BY <1>6 DEF Write, Go, conn
<1>7. ASSUME NEW k \in Callers, WriteFails(k) PROVE AnswerInv'
  BY <1>7 DEF WriteFails, Go, Poison, wire
<1>8. ASSUME NEW k \in Callers, Arm(k) PROVE AnswerInv'
  BY <1>8 DEF Arm, Go, wire
<1>9. ASSUME NEW k \in Callers, ArmFails(k) PROVE AnswerInv'
  BY <1>9 DEF ArmFails, Go, Poison, wire
<1>10. ASSUME NEW k \in Callers, ReadHead(k, "head", "body", "finish") PROVE AnswerInv'
  <2> SUFFICES ASSUME once = "new" PROVE AnswerInv'
    BY <1>10 DEF ReadHead, conn
  <2>1. Awaited(mine[k]) /\ inbox # <<>>
    BY <1>10 DEF ReadHead, Arrived, Go, StreamInv
  <2>2. inbox[1].part = "alone" => inbox[1].of = mine[k]
    BY <2>1 DEF Awaited, Quiet, Piece
  <2>3. answer' = [answer EXCEPT ![k] = IF inbox[1].part = "alone" THEN <<inbox[1].of, inbox[1].of>> ELSE NoAnswer]
    BY <1>10 DEF ReadHead
  <2> QED
    BY <1>10, <2>2, <2>3 DEF ReadHead
<1>11. ASSUME NEW k \in Callers, ReadBody(k, "body", "finish") PROVE AnswerInv'
  <2> SUFFICES ASSUME once = "new" PROVE AnswerInv'
    BY <1>11 DEF ReadBody, conn
  <2>1. head[k] = mine[k] /\ HalfRead(mine[k]) /\ inbox # <<>>
    BY <1>11 DEF ReadBody, Arrived, Go, StreamInv
  <2>2. inbox[1].of = mine[k]
    BY <2>1 DEF HalfRead, Piece
  <2>3. answer' = [answer EXCEPT ![k] = <<mine[k], mine[k]>>]
    BY <1>11, <2>1, <2>2 DEF ReadBody
  <2> QED
    BY <1>11, <2>3 DEF ReadBody
<1>12. ASSUME NEW k \in Callers, NEW place \in {"head", "body"}, ReadFails(k, place, "finish") PROVE AnswerInv'
  BY <1>12 DEF ReadFails, Go, conn, wire
<1>13. ASSUME NEW k \in Callers, Finish(k) PROVE AnswerInv'
  BY <1>13 DEF Finish, Go, Poison, wire
<1>14. ASSUME NEW k \in Callers, CloseStart(k) PROVE AnswerInv'
  BY <1>14 DEF CloseStart, Go, wire
<1>15. ASSUME NEW k \in Callers, SayClose(k) PROVE AnswerInv'
  BY <1>15 DEF SayClose, Go, conn
<1>16. ASSUME NEW k \in Callers, ReadHead(k, "byeHead", "byeBody", "drop") PROVE AnswerInv'
  BY <1>16 DEF ReadHead, Arrived, Go, conn
<1>17. ASSUME NEW k \in Callers, ReadBody(k, "byeBody", "drop") PROVE AnswerInv'
  BY <1>17 DEF ReadBody, Arrived, Go, conn
<1>18. ASSUME NEW k \in Callers, NEW place \in {"byeHead", "byeBody"}, ReadFails(k, place, "drop") PROVE AnswerInv'
  BY <1>18 DEF ReadFails, Go, conn, wire
<1>19. ASSUME NEW k \in Callers, CloseDrop(k) PROVE AnswerInv'
  BY <1>19 DEF CloseDrop, Go, wire
<1>20. ASSUME NEW part \in {"head", "alone", "bad"}, ServerAnswers(part) PROVE AnswerInv'
  BY <1>20 DEF ServerAnswers, local, conn
<1>21. CASE ServerSendsBody
  BY <1>21 DEF ServerSendsBody, local, conn
<1>22. CASE ServerLeaves
  BY <1>22 DEF ServerLeaves, local, conn
<1>23. CASE SetReadTimeout
  BY <1>23 DEF SetReadTimeout, local, wire
<1>24. CASE UNCHANGED vars
  BY <1>24 DEF vars, local, conn, wire
<1> QED
  BY <1>1, <1>2, <1>3, <1>4, <1>5, <1>6, <1>7, <1>8, <1>9, <1>10, <1>11, <1>12, <1>13,
     <1>14, <1>15, <1>16, <1>17, <1>18, <1>19, <1>20, <1>21, <1>22, <1>23, <1>24
     DEF Next, ExchangeStep, ExchangeRead, CloseStep, ByeRead, Server

-----------------------------------------------------------------------------
\* The parts together are inductive.
THEOREM InvHolds == Spec => []Inv
<1>1. Init => Inv
  <2> SUFFICES ASSUME Init PROVE Inv
    OBVIOUS
  <2> USE ExchangeAssumption DEF Init
  <2>1. pc \in [Callers -> {"idle", "cas"} \cup Exchanging \cup Closing]
    OBVIOUS
  <2>2. NoFrame \in Frames \cup {NoFrame} /\ 0 \in 0..MaxCalls
    OBVIOUS
  <2>3. /\ mine \in [Callers -> Frames \cup {NoFrame}]
        /\ head \in [Callers -> Frames \cup {NoFrame}]
        /\ owed \in Frames \cup {NoFrame}
    BY <2>2
  <2>4. answer \in [Callers -> (Frames \cup {NoFrame}) \X (Frames \cup {NoFrame})]
    BY <2>2 DEF NoAnswer
  <2>5. toServer \in Seq(Frames) /\ inbox \in Seq(Pieces)
    BY EmptySeq
  <2>6. TypeOK
    BY <2>1, <2>2, <2>3, <2>4, <2>5 DEF TypeOK
  <2> QED
    BY <2>6 DEF Inv, GuardInv, OpenInv, CallInv, StreamInv, AnswerInv, Quiet, Exchanging, Closing
<1>2. Inv /\ [Next]_vars => Inv'
  BY TypeKept, GuardKept, OpenKept, CallKept, StreamKept, AnswerKept DEF Inv
<1> QED
  BY <1>1, <1>2, PTL DEF Spec

\* Every variable keeps its type; a poisoned connection has no socket.
THEOREM TypeCorrect == Spec => []TypeOK
<1>1. Inv => TypeOK
  BY DEF Inv
<1> QED
  BY <1>1, InvHolds, PTL

\* At most one exchange is under way, and the guard is free when there is none.
THEOREM GuardIsExact == Spec => []GuardExact
<1>1. Inv => GuardExact
  <2> SUFFICES ASSUME Inv PROVE GuardExact
    OBVIOUS
  <2> DEFINE Inside == {k \in Callers : pc[k] \in Exchanging}
  <2>1. CASE inFlight
    <3>1. PICK k \in Callers : pc[k] \in Exchanging
      BY <2>1 DEF Inv, GuardInv
    <3>2. Inside = {k}
      BY <3>1 DEF Inv, GuardInv
    <3> QED
      BY <2>1, <3>2, FS_Singleton DEF GuardExact
  <2>2. CASE ~inFlight
    <3>1. Inside = {}
      BY <2>2 DEF Inv, GuardInv
    <3> QED
      BY <2>2, <3>1, FS_EmptySet DEF GuardExact
  <2> QED
    BY <2>1, <2>2
<1> QED
  BY <1>1, InvHolds, PTL

\* Until Close is called, what exchange returns is the reply to the frame it
\* wrote.
THEOREM RepliesAreOwn == Spec => []OwnReply
<1>1. Inv => OwnReply
  BY DEF Inv, AnswerInv, OwnReply, OwnReplyAlways
<1> QED
  BY <1>1, InvHolds, PTL

\* Between exchanges, and until Close is called, a connection that is not poisoned
\* has nothing on the wire: the next reply to be read is that of the next request.
THEOREM StreamIsAligned == Spec => []AlignedAtRest
<1>1. Inv => AlignedAtRest
  BY DEF Inv, StreamInv, OpenInv, GuardInv, AlignedAtRest, Quiet, Waiting, Exchanging
<1> QED
  BY <1>1, InvHolds, PTL

\* A poisoned connection stays so, and nothing more is written to it.
THEOREM PoisonHolds == Spec => PoisonIsFinal
<1> DEFINE Stays == fault => fault' /\ Len(toServer') <= Len(toServer)
<1>1. TypeOK /\ [Next]_vars => [Stays]_vars
  <2> SUFFICES ASSUME TypeOK, [Next]_vars, fault PROVE fault' /\ Len(toServer') <= Len(toServer)
    OBVIOUS
  <2> USE DEF TypeOK
  <2>1. ASSUME NEW k \in Callers, Call(k) PROVE fault' /\ Len(toServer') <= Len(toServer)
    BY <2>1 DEF Call, Go, wire
  <2>2. ASSUME NEW k \in Callers, TakeGuard(k) PROVE fault' /\ Len(toServer') <= Len(toServer)
    BY <2>2 DEF TakeGuard, Go, wire
  <2>3. ASSUME NEW k \in Callers, GuardRefuses(k) PROVE fault' /\ Len(toServer') <= Len(toServer)
    BY <2>3 DEF GuardRefuses, Go, conn, wire
  <2>4. ASSUME NEW k \in Callers, RefuseFrame(k) PROVE fault' /\ Len(toServer') <= Len(toServer)
    BY <2>4 DEF RefuseFrame, Go, wire
  <2>5. ASSUME NEW k \in Callers, EncodeFails(k) PROVE fault' /\ Len(toServer') <= Len(toServer)
    BY <2>5 DEF EncodeFails, Go, Poison, wire
  <2>6. ASSUME NEW k \in Callers, Write(k) PROVE fault' /\ Len(toServer') <= Len(toServer)
    BY <2>6 DEF Write, Go, conn
  <2>7. ASSUME NEW k \in Callers, WriteFails(k) PROVE fault' /\ Len(toServer') <= Len(toServer)
    BY <2>7 DEF WriteFails, Go, Poison, wire
  <2>8. ASSUME NEW k \in Callers, Arm(k) PROVE fault' /\ Len(toServer') <= Len(toServer)
    BY <2>8 DEF Arm, Go, wire
  <2>9. ASSUME NEW k \in Callers, ArmFails(k) PROVE fault' /\ Len(toServer') <= Len(toServer)
    BY <2>9 DEF ArmFails, Go, Poison, wire
  <2>10. ASSUME NEW k \in Callers, ReadHead(k, "head", "body", "finish") PROVE fault' /\ Len(toServer') <= Len(toServer)
    BY <2>10 DEF ReadHead, Arrived, Go, conn
  <2>11. ASSUME NEW k \in Callers, ReadBody(k, "body", "finish") PROVE fault' /\ Len(toServer') <= Len(toServer)
    BY <2>11 DEF ReadBody, Arrived, Go, conn
  <2>12. ASSUME NEW k \in Callers, NEW place \in {"head", "body"}, ReadFails(k, place, "finish") PROVE fault' /\ Len(toServer') <= Len(toServer)
    BY <2>12 DEF ReadFails, Go, conn, wire
  <2>13. ASSUME NEW k \in Callers, Finish(k) PROVE fault' /\ Len(toServer') <= Len(toServer)
    <3>1. CASE answer[k] = NoAnswer
      BY <2>13, <3>1 DEF Finish, Poison, wire
    <3>2. CASE answer[k] # NoAnswer
      <4>1. fault' = fault /\ toServer' = toServer
        BY <2>13, <3>2 DEF Finish, wire
      <4> QED
        BY <4>1
    <3> QED
      BY <3>1, <3>2
  <2>14. ASSUME NEW k \in Callers, CloseStart(k) PROVE fault' /\ Len(toServer') <= Len(toServer)
    BY <2>14 DEF CloseStart, Go, wire
  <2>15. ASSUME NEW k \in Callers, SayClose(k) PROVE fault' /\ Len(toServer') <= Len(toServer)
    BY <2>15 DEF SayClose, Go, conn
  <2>16. ASSUME NEW k \in Callers, ReadHead(k, "byeHead", "byeBody", "drop") PROVE fault' /\ Len(toServer') <= Len(toServer)
    BY <2>16 DEF ReadHead, Arrived, Go, conn
  <2>17. ASSUME NEW k \in Callers, ReadBody(k, "byeBody", "drop") PROVE fault' /\ Len(toServer') <= Len(toServer)
    BY <2>17 DEF ReadBody, Arrived, Go, conn
  <2>18. ASSUME NEW k \in Callers, NEW place \in {"byeHead", "byeBody"}, ReadFails(k, place, "drop") PROVE fault' /\ Len(toServer') <= Len(toServer)
    BY <2>18 DEF ReadFails, Go, conn, wire
  <2>19. ASSUME NEW k \in Callers, CloseDrop(k) PROVE fault' /\ Len(toServer') <= Len(toServer)
    BY <2>19 DEF CloseDrop, Go, wire
  <2>20. ASSUME NEW part \in {"head", "alone", "bad"}, ServerAnswers(part) PROVE fault' /\ Len(toServer') <= Len(toServer)
    BY <2>20 DEF ServerAnswers, local, conn
  <2>21. CASE ServerSendsBody
    BY <2>21 DEF ServerSendsBody, local, conn
  <2>22. CASE ServerLeaves
    BY <2>22 DEF ServerLeaves, local, conn
  <2>23. CASE SetReadTimeout
    BY <2>23 DEF SetReadTimeout, local, wire
  <2>24. CASE UNCHANGED vars
    BY <2>24 DEF vars, local, conn, wire
  <2> QED
    BY <2>1, <2>2, <2>3, <2>4, <2>5, <2>6, <2>7, <2>8, <2>9, <2>10, <2>11, <2>12, <2>13,
       <2>14, <2>15, <2>16, <2>17, <2>18, <2>19, <2>20, <2>21, <2>22, <2>23, <2>24
       DEF Next, ExchangeStep, ExchangeRead, CloseStep, ByeRead, Server
<1> QED
  BY <1>1, TypeCorrect, PTL DEF Spec, PoisonIsFinal
=============================================================================
