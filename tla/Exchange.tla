------------------------------ MODULE Exchange ------------------------------
(***************************************************************************)
(* One connection and the goroutines that share it (Client.exchange and    *)
(* Client.Close in src/tricoredb.go, writeFrame and readFrame in           *)
(* src/wire.go).  A frame is read in two pieces, header then body, from a  *)
(* stream that does not mark where frames begin; the only thing that keeps *)
(* a reply with its request is that nobody reads out of turn.              *)
(*                                                                         *)
(* Frames are numbered by the call that sent them; 0 is CLOSE and its BYE. *)
(* The server may answer late, stop in the middle of a reply, answer with  *)
(* a header the driver refuses, hang up, or never answer.                  *)
(***************************************************************************)
EXTENDS Naturals, Sequences, FiniteSets

CONSTANTS Callers,        \* goroutines that share the client
          MaxCalls        \* bound: exchanges attempted on a usable connection

ASSUME ExchangeAssumption ==
  /\ Callers # {}
  /\ MaxCalls \in Nat

VARIABLES pc,        \* where each goroutine is
          mine,      \* the number of each goroutine's current call
          head,      \* the frame whose header it has read
          answer,    \* what its last exchange returned: NoAnswer, or the
                     \* frames its reply's header and body came from
          inFlight,  \* Client.inFlight
          fault,     \* Client.fault is set
          open,      \* the socket has not been closed on this side
          deadline,  \* a read deadline is set on the socket
          timeout,   \* Client.readTimeout is not 0
          budget,    \* of each exchange: the readTimeout it loaded is not 0
          once,      \* Client.closeOnce: new, running, done
          calls,     \* number of calls so far
          toServer,  \* frames written and not yet answered
          inbox,     \* pieces of replies that have arrived
          owed,      \* the reply whose body the server has yet to send
          peer       \* the server still serves this connection

local == <<pc, mine, head, answer, budget>>
conn == <<inFlight, fault, open, deadline, timeout, once, calls>>
wire == <<toServer, inbox, owed, peer>>
vars == <<pc, mine, head, answer, budget, inFlight, fault, open, deadline,
          timeout, once, calls, toServer, inbox, owed, peer>>

Frames == 0..MaxCalls
NoFrame == MaxCalls + 1
NoAnswer == <<NoFrame, NoFrame>>

\* "alone": a header that announces no body (PONG, BYE); "bad": one that
\* readFrame refuses (version or length).
Pieces == [of : Frames, part : {"head", "body", "alone", "bad"}]

Exchanging == {"write", "arm", "head", "body", "finish"}
Closing == {"bye", "byeHead", "byeBody", "drop"}

Init ==
  /\ pc = [k \in Callers |-> "idle"]
  /\ mine = [k \in Callers |-> NoFrame]
  /\ head = [k \in Callers |-> NoFrame]
  /\ answer = [k \in Callers |-> NoAnswer]
  /\ inFlight = FALSE /\ fault = FALSE /\ open = TRUE /\ deadline = FALSE
  /\ timeout \in BOOLEAN /\ budget = [k \in Callers |-> FALSE]
  /\ once = "new" /\ calls = 0
  /\ toServer = <<>> /\ inbox = <<>> /\ owed = NoFrame /\ peer = TRUE

Go(k, from, to) == pc[k] = from /\ pc' = [pc EXCEPT ![k] = to]

PoisonNoClose ==  \* faulty: records the fault, keeps the socket
  /\ fault' = TRUE
  /\ open' = open

\* Client.poison: the first fault is recorded and the socket dropped.
Poison ==
  /\ fault' = TRUE
  /\ open' = IF fault THEN open ELSE FALSE

-----------------------------------------------------------------------------
(* exchange.                                                               *)

\* usable() passes; the connection may be poisoned before the next step.  On a
\* poisoned connection it refuses, which changes nothing.
Call(k) ==
  /\ calls < MaxCalls /\ ~fault
  /\ Go(k, "idle", "cas")
  /\ calls' = calls + 1
  /\ mine' = [mine EXCEPT ![k] = calls + 1]
  /\ answer' = [answer EXCEPT ![k] = NoAnswer]
  /\ UNCHANGED <<head, budget, inFlight, fault, open, deadline, timeout, once, wire>>

TakeGuardBlindly(k) ==  \* faulty: stores TRUE without looking
  /\ Go(k, "cas", "write")
  /\ inFlight' = TRUE
  /\ UNCHANGED <<mine, head, answer, budget, fault, open, deadline, timeout, once, calls, wire>>

\* inFlight.CompareAndSwap(false, true), or the refusal of the second caller.
TakeGuard(k) ==
  /\ ~inFlight
  /\ Go(k, "cas", "write")
  /\ inFlight' = TRUE
  /\ UNCHANGED <<mine, head, answer, budget, fault, open, deadline, timeout, once, calls, wire>>

GuardRefuses(k) ==
  /\ inFlight
  /\ Go(k, "cas", "idle")
  /\ UNCHANGED <<mine, head, answer, budget, conn, wire>>

RefuseFrameLeaks(k) ==  \* faulty: the early return skips the release
  /\ Go(k, "write", "idle")
  /\ UNCHANGED <<mine, head, answer, budget, conn, wire>>

\* An oversized control frame is refused before a byte is written.
RefuseFrame(k) ==
  /\ Go(k, "write", "idle")
  /\ inFlight' = FALSE
  /\ UNCHANGED <<mine, head, answer, budget, fault, open, deadline, timeout, once, calls, wire>>

\* json.Marshal fails before a byte is written; the error is not ErrProtocol.
EncodeFails(k) ==
  /\ Go(k, "write", "idle")
  /\ inFlight' = FALSE
  /\ Poison
  /\ UNCHANGED <<mine, head, answer, budget, deadline, timeout, once, calls, wire>>

\* One Write of header and body together.  A write to a peer that has gone may
\* still succeed into the socket's buffer.
Write(k) ==
  /\ open
  /\ Go(k, "write", IF timeout THEN "arm" ELSE "head")
  /\ budget' = [budget EXCEPT ![k] = timeout]
  /\ toServer' = IF peer THEN Append(toServer, mine[k]) ELSE toServer
  /\ UNCHANGED <<mine, head, answer, conn, inbox, owed, peer>>

WriteFails(k) ==
  /\ ~open \/ ~peer
  /\ Go(k, "write", "idle")
  /\ inFlight' = FALSE
  /\ Poison
  /\ UNCHANGED <<mine, head, answer, budget, deadline, timeout, once, calls, wire>>

ArmSkipped(k) ==  \* faulty: the read goes without its deadline
  /\ open
  /\ Go(k, "arm", "head")
  /\ UNCHANGED <<mine, head, answer, budget, conn, wire>>

\* SetReadDeadline, which fails on a socket that Close has closed.
Arm(k) ==
  /\ open
  /\ Go(k, "arm", "head")
  /\ deadline' = TRUE
  /\ UNCHANGED <<mine, head, answer, budget, inFlight, fault, open, timeout, once, calls, wire>>

ArmFails(k) ==
  /\ ~open
  /\ Go(k, "arm", "idle")
  /\ inFlight' = FALSE
  /\ Poison
  /\ UNCHANGED <<mine, head, answer, budget, deadline, timeout, once, calls, wire>>

\* readFrame, called by exchange and by Close.  Whatever piece comes next is
\* taken for the one expected: a body read as a header starts with a byte no
\* version has, and is refused like a bad header.
Arrived(k, place) == pc[k] = place /\ open /\ inbox # <<>>

ReadHead(k, from, body, end) ==
  LET piece == inbox[1] IN
  /\ Arrived(k, from)
  /\ Go(k, from, IF piece.part = "head" THEN body ELSE end)
  /\ inbox' = Tail(inbox)
  /\ head' = [head EXCEPT ![k] = IF piece.part = "head" THEN piece.of ELSE NoFrame]
  /\ answer' = [answer EXCEPT ![k] =
                  IF piece.part = "alone" THEN <<piece.of, piece.of>> ELSE NoAnswer]
  /\ UNCHANGED <<mine, budget, conn, toServer, owed, peer>>

ReadBody(k, from, end) ==
  /\ Arrived(k, from)
  /\ Go(k, from, end)
  /\ inbox' = Tail(inbox)
  /\ head' = [head EXCEPT ![k] = NoFrame]
  /\ answer' = [answer EXCEPT ![k] = <<head[k], inbox[1].of>>]
  /\ UNCHANGED <<mine, budget, conn, toServer, owed, peer>>

\* A deadline that passes, a socket closed on this side, or a peer that left.
ReadFails(k, from, end) ==
  /\ deadline \/ ~open \/ ~peer
  /\ Go(k, from, end)
  /\ head' = [head EXCEPT ![k] = NoFrame]
  /\ answer' = [answer EXCEPT ![k] = NoAnswer]
  /\ UNCHANGED <<mine, budget, conn, wire>>

FinishForgiving(k) ==  \* faulty: a timeout is treated as retryable
  /\ Go(k, "finish", "idle")
  /\ deadline' = (deadline /\ ~budget[k])
  /\ inFlight' = FALSE
  /\ UNCHANGED <<mine, head, answer, budget, fault, open, timeout, once, calls, wire>>

\* The deadline is cleared, a failed read poisons the connection, and the
\* deferred release of the guard runs.
Finish(k) ==
  /\ Go(k, "finish", "idle")
  /\ deadline' = (deadline /\ ~budget[k])
  /\ IF answer[k] = NoAnswer THEN Poison ELSE UNCHANGED <<fault, open>>
  /\ inFlight' = FALSE
  /\ UNCHANGED <<mine, head, answer, budget, timeout, once, calls, wire>>

-----------------------------------------------------------------------------
(* Close: it takes closeOnce, and not the in-flight guard, so it may run   *)
(* beside an exchange.                                                     *)

CloseStartUnbounded(k) ==  \* faulty: waits for BYE without a deadline
  /\ once = "new"
  /\ Go(k, "idle", IF fault THEN "drop" ELSE "bye")
  /\ once' = "running"
  /\ mine' = [mine EXCEPT ![k] = 0]
  /\ answer' = [answer EXCEPT ![k] = NoAnswer]
  /\ UNCHANGED <<head, budget, inFlight, fault, open, deadline, timeout, calls, wire>>

CloseStart(k) ==
  /\ once = "new"
  /\ Go(k, "idle", IF fault THEN "drop" ELSE "bye")
  /\ once' = "running"
  /\ mine' = [mine EXCEPT ![k] = 0]
  /\ answer' = [answer EXCEPT ![k] = NoAnswer]
  /\ deadline' = (deadline \/ ~fault)
  /\ UNCHANGED <<head, budget, inFlight, fault, open, timeout, calls, wire>>

\* The CLOSE frame; an error is ignored.
SayClose(k) ==
  /\ Go(k, "bye", "byeHead")
  /\ toServer' = IF open /\ peer THEN Append(toServer, 0) ELSE toServer
  /\ UNCHANGED <<mine, head, answer, budget, conn, inbox, owed, peer>>

CloseDrop(k) ==
  /\ Go(k, "drop", "idle")
  /\ open' = FALSE
  /\ once' = "done"
  /\ UNCHANGED <<mine, head, answer, budget, inFlight, fault, deadline, timeout, calls, wire>>

-----------------------------------------------------------------------------
(* The server, as the driver meets it: replies in the order of requests,   *)
(* header and body at different moments.                                   *)

ServerAnswers(part) ==
  /\ peer /\ owed = NoFrame /\ toServer # <<>>
  /\ LET f == Head(toServer) IN
       /\ f = 0 => part = "alone"
       /\ inbox' = Append(inbox, [of |-> f, part |-> part])
       /\ owed' = IF part = "head" THEN f ELSE NoFrame
  /\ toServer' = Tail(toServer)
  /\ UNCHANGED <<local, conn, peer>>

ServerSendsBody ==
  /\ peer /\ owed # NoFrame
  /\ inbox' = Append(inbox, [of |-> owed, part |-> "body"])
  /\ owed' = NoFrame
  /\ UNCHANGED <<local, conn, toServer, peer>>

ServerLeaves ==
  /\ peer
  /\ peer' = FALSE
  /\ UNCHANGED <<local, conn, toServer, inbox, owed>>

-----------------------------------------------------------------------------
ExchangeRead(k) ==
  \/ ReadHead(k, "head", "body", "finish")
  \/ ReadBody(k, "body", "finish")
  \/ \E place \in {"head", "body"} : ReadFails(k, place, "finish")

ByeRead(k) ==
  \/ ReadHead(k, "byeHead", "byeBody", "drop")
  \/ ReadBody(k, "byeBody", "drop")
  \/ \E place \in {"byeHead", "byeBody"} : ReadFails(k, place, "drop")

ExchangeStep(k) ==
  \/ TakeGuard(k) \/ GuardRefuses(k)
  \/ RefuseFrame(k) \/ EncodeFails(k) \/ Write(k) \/ WriteFails(k)
  \/ Arm(k) \/ ArmFails(k) \/ ExchangeRead(k) \/ Finish(k)

CloseStep(k) == SayClose(k) \/ ByeRead(k) \/ CloseDrop(k)

Server ==
  \/ \E part \in {"head", "alone", "bad"} : ServerAnswers(part)
  \/ ServerSendsBody \/ ServerLeaves

SetReadTimeout ==
  /\ timeout' = ~timeout
  /\ UNCHANGED <<local, inFlight, fault, open, deadline, once, calls, wire>>

Next ==
  \/ \E k \in Callers : Call(k) \/ ExchangeStep(k)
                        \/ CloseStart(k) \/ CloseStep(k)
  \/ Server \/ SetReadTimeout

Spec == Init /\ [][Next]_vars

(***************************************************************************)
(* Fairness: a goroutine that can take a step takes one, and a deadline    *)
(* that is set passes (both are ReadFails being enabled).  The server owes *)
(* nothing.                                                                *)
(***************************************************************************)
Fairness ==
  \A k \in Callers : WF_vars(ExchangeStep(k)) /\ WF_vars(CloseStep(k))

FairSpec == Spec /\ Fairness

-----------------------------------------------------------------------------
(* Properties.                                                             *)

TypeOK ==
  /\ pc \in [Callers -> {"idle", "cas"} \cup Exchanging \cup Closing]
  /\ mine \in [Callers -> Frames \cup {NoFrame}]
  /\ head \in [Callers -> Frames \cup {NoFrame}]
  /\ answer \in [Callers -> (Frames \cup {NoFrame}) \X (Frames \cup {NoFrame})]
  /\ inFlight \in BOOLEAN /\ fault \in BOOLEAN /\ open \in BOOLEAN
  /\ deadline \in BOOLEAN /\ timeout \in BOOLEAN /\ budget \in [Callers -> BOOLEAN]
  /\ once \in {"new", "running", "done"}
  /\ calls \in 0..MaxCalls
  /\ toServer \in Seq(Frames) /\ inbox \in Seq(Pieces)
  /\ owed \in Frames \cup {NoFrame} /\ peer \in BOOLEAN
  /\ fault => ~open

\* A caller never gets somebody else's reply, nor a late one of its own past:
\* what exchange returns is the whole reply to the frame it wrote.  "overlapping
\* calls on the same client are refused instead of mixing their frames" (README).
OwnReplyAlways ==
  \A k \in Callers :
    answer[k] # NoAnswer /\ mine[k] # 0 => answer[k] = <<mine[k], mine[k]>>

\* The same until Close is called, which reads from the stream out of turn.
OwnReply == once = "new" => OwnReplyAlways

\* A connection that will be used again is in step: nothing is on the wire.
\* "reusing the socket would read it as the answer to the *next* request"
\* (ErrTimeout).
AlignedAtRest ==
  ~inFlight /\ ~fault /\ once = "new"
    => toServer = <<>> /\ inbox = <<>> /\ owed = NoFrame

\* The guard is held exactly while one exchange is under way: no two run, and
\* no way out of exchange leaves the connection refusing everybody.
GuardExact ==
  Cardinality({k \in Callers : pc[k] \in Exchanging}) = IF inFlight THEN 1 ELSE 0

\* Once poisoned, always poisoned, and not a frame more is written, not even by
\* a caller that passed usable() before the poisoning.
PoisonIsFinal ==
  [][fault => fault' /\ Len(toServer') <= Len(toServer)]_vars

\* An exchange that wrote its request under a ReadTimeout returns, whatever the
\* server does and whatever becomes of the setting meanwhile.
ExchangeReturns == \A k \in Callers : pc[k] = "arm" ~> pc[k] = "idle"

\* "Bounded: the goodbye is optional, the teardown is not" (Client.Close):
\* whatever the server does, Close returns.
CloseReturns == once = "running" ~> once = "done"

\* The same of a program in which Close meets no exchange.
CloseReturnsAlone == [](once = "running" => ~inFlight) => CloseReturns
=============================================================================
