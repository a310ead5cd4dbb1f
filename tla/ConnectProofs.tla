---------------------------- MODULE ConnectProofs -----------------------------
(***************************************************************************)
(* Proofs about Connect: whatever the peer and the context do, it ends     *)
(* with all or with nothing, and nothing travels before its time.          *)
(***************************************************************************)
EXTENDS Connect, TLAPS

-----------------------------------------------------------------------------
(* The inductive invariant.                                                *)

OptsOK ==
  opts \in [tls : {"off", "good", "bad"}, user : BOOLEAN, readTimeout : BOOLEAN, hasDeadline : BOOLEAN]

\* Before HELLO, or waiting to write, Connect has nothing to read; and what
\* it finds accepted the peer has accepted.
RepliesFit ==
  /\ pc \in {"dial", "config", "hello", "auth", "arm", "ready"} => reply = "none"
  /\ pc \in {"handshake", "helloOK", "authOK"} /\ reply = "ok" => pc \in said

\* The socket and the error at each place.
SocketFits ==
  /\ pc = "dial" => sock = "none"
  /\ pc \notin {"dial", "failed"} => sock = "open"
  /\ pc = "failed" => sock # "open"
  /\ pc = "failed" <=> err # "nil"

\* What has been agreed with the peer by the time a place is reached.
AgreedSoFar ==
  /\ pc \in {"config", "handshake"} => opts.tls # "off"
  /\ pc = "handshake" => opts.tls = "good"
  /\ pc \in {"hello", "helloOK", "auth", "authOK", "arm", "ready", "reading"} =>
       opts.tls = "off" \/ (tls /\ "handshake" \in said)
  /\ pc \in {"auth", "authOK", "arm", "ready", "reading"} => "helloOK" \in said
  /\ pc \in {"arm", "ready", "reading"} /\ opts.user => "authOK" \in said /\ client.session

\* The deadline of the context is gone from a client that has come out.
DeadlineFits ==
  /\ pc \in {"ready", "reading"} => client.readTimeout = opts.readTimeout
  /\ pc = "ready" => deadline = "none"
  /\ pc = "reading" => deadline # "context" /\ (deadline = "passed" => client.readTimeout)
  /\ deadline = "read" => pc = "reading" /\ client.readTimeout

Inv == OptsOK /\ TypeOK /\ RepliesFit /\ SocketFits /\ AgreedSoFar /\ DeadlineFits /\ SecretInside
-----------------------------------------------------------------------------
(* It holds of every combination of options, and every step keeps it.      *)

\* No socket, no frame, no reply to begin with.
LEMMA InitInv == Init => Inv
<1> SUFFICES ASSUME Init PROVE Inv
  OBVIOUS
<1>1. OptsOK /\ TypeOK
  BY DEF Init, OptsOK, TypeOK, Places, Replies, Errors
<1>2. RepliesFit /\ SocketFits /\ AgreedSoFar
  BY DEF Init, RepliesFit, SocketFits, AgreedSoFar
<1>3. DeadlineFits /\ SecretInside
  BY DEF Init, DeadlineFits, SecretInside
<1> QED
  BY <1>1, <1>2, <1>3 DEF Inv

\* Every failure of Connect closes the socket, with an error, and touches nothing else.
LEMMA FailKeeps ==
  ASSUME Inv, NEW e \in Errors \ {"nil"}, Fail(e), pc # "reading"
  PROVE  Inv'
<1>1. OptsOK' /\ TypeOK'
  BY DEF Inv, OptsOK, TypeOK, Places, Replies, Errors, Fail, Go, peer
<1>2. RepliesFit' /\ SocketFits' /\ AgreedSoFar'
  BY DEF Inv, RepliesFit, SocketFits, AgreedSoFar, Errors, Fail, Go, peer
<1>3. DeadlineFits'
  BY DEF Inv, SocketFits, DeadlineFits, Fail, Go, peer
<1>4. SecretInside'
  BY DEF Inv, SecretInside, Fail, Go, peer
<1> QED
  BY <1>1, <1>2, <1>3, <1>4 DEF Inv

\* A frame written inside TLS, or with TLS not asked for, adds nothing to
\* what SecretInside forbids, if its kind is due.
LEMMA FrameIsDue ==
  ASSUME TypeOK, SecretInside, NEW frame \in {"HELLO", "AUTH", "REQUEST"},
         sent' = sent \cup {[frame |-> frame, inside |-> tls]},
         opts' = opts, said' = said,
         opts.tls = "off" \/ (tls /\ "handshake" \in said),
         frame = "AUTH" => "helloOK" \in said,
         frame = "REQUEST" /\ opts.user => "authOK" \in said
  PROVE  /\ SecretInside'
         /\ sent' \subseteq [frame : {"HELLO", "AUTH", "REQUEST"}, inside : BOOLEAN]
  BY DEF TypeOK, SecretInside

\* What the surroundings do: the context ends, time passes, the peer answers.
LEMMA SurroundingsKeep ==
  ASSUME Inv, Surroundings
  PROVE  Inv'
<1>1. ASSUME Expire PROVE Inv'
  BY <1>1 DEF Inv, OptsOK, TypeOK, RepliesFit, SocketFits, AgreedSoFar, DeadlineFits, SecretInside,
         Places, Replies, Errors, Go, peer, Expire
<1>2. ASSUME Cancel PROVE Inv'
  BY <1>2 DEF Inv, OptsOK, TypeOK, RepliesFit, SocketFits, AgreedSoFar, DeadlineFits, SecretInside,
         Places, Replies, Errors, Go, peer, Cancel
<1>3. ASSUME TimePasses PROVE Inv'
  BY <1>3 DEF Inv, OptsOK, TypeOK, RepliesFit, SocketFits, AgreedSoFar, DeadlineFits, SecretInside,
         Places, Replies, Errors, Go, peer, TimePasses
<1>4. ASSUME Answer PROVE Inv'
  BY <1>4 DEF Inv, OptsOK, TypeOK, RepliesFit, SocketFits, AgreedSoFar, DeadlineFits, SecretInside,
         Places, Replies, Errors, Go, peer, Answer
<1> QED
  BY <1>1, <1>2, <1>3, <1>4 DEF Surroundings

\* What Connect does on its way to a client.
LEMMA StepsKeep ==
  ASSUME Inv, Steps
  PROVE  Inv'
<1>1. ASSUME DialFails PROVE Inv'
  BY <1>1 DEF Inv, OptsOK, TypeOK, RepliesFit, SocketFits, AgreedSoFar, DeadlineFits, SecretInside,
         Places, Replies, Errors, Go, peer, DialFails
<1>2. ASSUME DialOk PROVE Inv'
  BY <1>2 DEF Inv, OptsOK, TypeOK, RepliesFit, SocketFits, AgreedSoFar, DeadlineFits, SecretInside,
         Places, Replies, Errors, Go, peer, DialOk
<1>3. ASSUME ConfigRefused PROVE Inv'
  BY <1>3, FailKeeps DEF ConfigRefused, Errors
<1>4. ASSUME ConfigOk PROVE Inv'
  BY <1>4 DEF Inv, OptsOK, TypeOK, RepliesFit, SocketFits, AgreedSoFar, DeadlineFits, SecretInside,
         Places, Replies, Errors, Go, peer, ConfigOk
<1>5. ASSUME HandshakeFails PROVE Inv'
  BY <1>5, FailKeeps DEF HandshakeFails, Errors
<1>6. ASSUME HandshakeOk PROVE Inv'
  BY <1>6 DEF Inv, OptsOK, TypeOK, RepliesFit, SocketFits, AgreedSoFar, DeadlineFits, SecretInside,
         Places, Replies, Errors, Go, peer, HandshakeOk
<1>7. ASSUME Hello PROVE Inv'
  <2>1. SecretInside' /\ sent' \subseteq [frame : {"HELLO", "AUTH", "REQUEST"}, inside : BOOLEAN]
    BY <1>7, FrameIsDue DEF Inv, AgreedSoFar, Hello, Write, peer
  <2> QED
    BY <1>7, <2>1 DEF Inv, OptsOK, TypeOK, RepliesFit, SocketFits, AgreedSoFar, DeadlineFits, 
           Places, Replies, Errors, Go, peer, Hello, Write
<1>8. ASSUME Auth PROVE Inv'
  <2>1. SecretInside' /\ sent' \subseteq [frame : {"HELLO", "AUTH", "REQUEST"}, inside : BOOLEAN]
    BY <1>8, FrameIsDue DEF Inv, AgreedSoFar, Auth, Write, peer
  <2> QED
    BY <1>8, <2>1 DEF Inv, OptsOK, TypeOK, RepliesFit, SocketFits, AgreedSoFar, DeadlineFits, 
           Places, Replies, Errors, Go, peer, Auth, Write
<1>9. ASSUME WriteFails PROVE Inv'
  BY <1>9, FailKeeps DEF WriteFails, Errors
<1>10. ASSUME ReplyRefused PROVE Inv'
  BY <1>10, FailKeeps DEF ReplyRefused, Errors, Refused
<1>11. ASSUME ReplyMisfits PROVE Inv'
  BY <1>11, FailKeeps DEF ReplyMisfits, Errors
<1>12. ASSUME ReadFails PROVE Inv'
  BY <1>12, FailKeeps DEF ReadFails, Errors
<1>13. ASSUME HelloOk PROVE Inv'
  BY <1>13 DEF Inv, OptsOK, TypeOK, RepliesFit, SocketFits, AgreedSoFar, DeadlineFits, SecretInside,
         Places, Replies, Errors, Go, peer, HelloOk
<1>14. ASSUME AuthOk PROVE Inv'
  <2>0. client' \in [session : BOOLEAN, readTimeout : BOOLEAN]
    BY <1>14 DEF Inv, TypeOK, AuthOk
  <2>1. OptsOK' /\ TypeOK'
    BY <1>14, <2>0 DEF Inv, OptsOK, TypeOK, Places, Replies, Errors, Go, AuthOk
  <2>2. RepliesFit' /\ SocketFits' /\ AgreedSoFar'
    BY <1>14 DEF Inv, TypeOK, RepliesFit, SocketFits, AgreedSoFar, Go, AuthOk
  <2>3. DeadlineFits' /\ SecretInside'
    BY <1>14 DEF Inv, TypeOK, DeadlineFits, SecretInside, Go, AuthOk
  <2> QED
    BY <2>1, <2>2, <2>3 DEF Inv
<1>15. ASSUME Arm PROVE Inv'
  BY <1>15 DEF Inv, OptsOK, TypeOK, RepliesFit, SocketFits, AgreedSoFar, DeadlineFits, SecretInside,
         Places, Replies, Errors, Go, peer, Arm
<1> QED
  BY <1>1, <1>2, <1>3, <1>4, <1>5, <1>6, <1>7, <1>8, <1>9, <1>10, <1>11, <1>12, <1>13, <1>14, <1>15 DEF Steps

\* Every step keeps the invariant: the first exchange is one like any other.
LEMMA InvStep == Inv /\ [Next]_vars => Inv'
<1> SUFFICES ASSUME Inv, [Next]_vars PROVE Inv'
  OBVIOUS
<1>1. CASE Use
  <2>1. SecretInside' /\ sent' \subseteq [frame : {"HELLO", "AUTH", "REQUEST"}, inside : BOOLEAN]
    BY <1>1, FrameIsDue DEF Inv, AgreedSoFar, Use, peer
  <2> QED
    BY <1>1, <2>1 DEF Inv, OptsOK, TypeOK, RepliesFit, SocketFits, AgreedSoFar, DeadlineFits, 
           Places, Replies, Errors, Go, peer, Use
<1>2. CASE UNCHANGED vars
  BY <1>2 DEF Inv, OptsOK, TypeOK, RepliesFit, SocketFits, AgreedSoFar, DeadlineFits, SecretInside,
         Places, Replies, Errors, Go, peer, vars
<1> QED
  BY <1>1, <1>2, StepsKeep, SurroundingsKeep DEF Next

\* The invariant holds of everything Connect does.
THEOREM InvHolds == Spec => []Inv
  BY InitInv, InvStep, PTL DEF Spec

-----------------------------------------------------------------------------
(* What follows.                                                           *)

\* Every variable of Connect keeps its type, for every combination of
\* options, every peer and every context.
THEOREM TypeCorrect == Spec => []TypeOK
<1>1. Inv => TypeOK
  BY DEF Inv
<1> QED
  BY <1>1, InvHolds, PTL

\* Connect returns an error and leaves no socket behind, or a client whose
\* peer has accepted HELLO, and AUTH where there is a user, and whose reads
\* are under no deadline of the context that made it.
THEOREM ConnectIsAllOrNothing == Spec => []AllOrNothing
<1>1. Inv => AllOrNothing
  BY DEF Inv, TypeOK, SocketFits, AgreedSoFar, DeadlineFits, AllOrNothing
<1> QED
  BY <1>1, InvHolds, PTL

\* With TLS asked for no frame travels outside it, the secret goes only to a
\* peer that has accepted HELLO, and no request before AUTH is accepted.
THEOREM SecretsTravelInside == Spec => []SecretInside
<1>1. Inv => SecretInside
  BY DEF Inv
<1> QED
  BY <1>1, InvHolds, PTL
=============================================================================
