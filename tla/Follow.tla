------------------------------- MODULE Follow -------------------------------
(***************************************************************************)
(* Following the leader (src/tricoredb.go, requestIn and moveTo): a        *)
(* request a node refuses with not_leader is sent again, to the leader the *)
(* refusal names over a connection that replaces this one, or to the same  *)
(* node after a pause.  A request is a write, a write with parameters for  *)
(* the server to bind, or one of the two controls that txnControl wraps    *)
(* around the same loop.                                                   *)
(*                                                                         *)
(* The cluster is modelled from what the client sees of it: at most one    *)
(* node leads at a time, a refusal may name any node (its view may be      *)
(* stale) or none, and a lost connection says nothing of what was done.    *)
(* The goroutines of the program may share the Client.  Only the round     *)
(* trip is guarded (Exchange has its details): one moves the connection    *)
(* while another is in the middle of a round trip, whose writing, deadline *)
(* and reading each take Client.conn as they find it.  A node may hold one *)
(* block for the connection (Session models what happens inside it).       *)
(***************************************************************************)
EXTENDS Naturals

CONSTANTS Callers,        \* goroutines that use the one Client
          Nodes,          \* host:port of the cluster's nodes
          NoNode,         \* no leader, or a refusal without leader_hint
          Granted,        \* what each node grants: a sharded or forwarding node
                          \* withholds SESSION_TXN, an old one both features
          Asks,           \* kinds of request the program makes
          FollowLeader,   \* ~Options.DisableFollowLeader
          LeaderRetries   \* Options.LeaderRetries

ASSUME FollowAssumption ==
  /\ NoNode \notin Nodes /\ Asks \subseteq {"write", "bind", "BEGIN", "COMMIT"}
  /\ Granted \in [Nodes -> SUBSET {"SESSION_TXN", "SERVER_PARAMS"}]
  /\ FollowLeader \in BOOLEAN /\ LeaderRetries \in Nat

VARIABLES leader,   \* the cluster: the node that accepts writes
          block,    \* the cluster: a block is open for the client's connection
          address,  \* Client.address, the node of Client.conn
          fault,    \* Client.fault is set
          txnOpen,  \* Client.txnOpen
          pc, op,   \* per caller: where its request is, and what it asks
          retried,  \* per caller: requestIn's counter
          hint,     \* per caller: LeaderHint of the refusal in hand
          uses,     \* per caller: the parts of its round trip made on Client.conn
                    \* as it is now
          answer,   \* per caller: what the node answered and nobody has read
          applied,  \* per caller, history: times its request was carried out
          result    \* per caller: what the request returned

cluster == <<leader, block>>
client  == <<address, fault, txnOpen>>
trip    == <<uses, answer>>
request == <<op, retried, hint, trip, applied, result>>
vars    == <<cluster, client, pc, request>>

RoundTrip == {"written", "armed", "reading"}

Steps == {"idle", "send", "refused", "move", "pause"} \cup RoundTrip

Parts == {"write", "arm", "read"}

Ops == {"write", "bind", "BEGIN", "COMMIT"}

Controls == {"BEGIN", "COMMIT"}

\* grantedFeatures of the connection the client has now.
Grants(feature) == feature \in Granted[address]

Answers == {"none", "ok", "error", "unknown", "notLeader"}

Results == Answers \cup {"lost"}

Init ==
  /\ leader \in Nodes \cup {NoNode} /\ block = FALSE
  /\ address \in Nodes /\ fault = FALSE /\ txnOpen = FALSE
  /\ pc = [k \in Callers |-> "idle"] /\ op = [k \in Callers |-> "write"]
  /\ retried = [k \in Callers |-> 0] /\ hint = [k \in Callers |-> NoNode]
  /\ uses = [k \in Callers |-> {}] /\ answer = [k \in Callers |-> "none"]
  /\ applied = [k \in Callers |-> 0] /\ result = [k \in Callers |-> "none"]

Go(k, from, to) == pc[k] = from /\ pc' = [pc EXCEPT ![k] = to]

Returns(k, r) == result' = [result EXCEPT ![k] = r]

Carry(k) == applied' = [applied EXCEPT ![k] = @ + 1]

\* Client.inFlight, held for a round trip.
InFlight == \E k \in Callers : pc[k] \in RoundTrip

AfterErrorKeeps(k) == txnOpen  \* faulty: a refused COMMIT leaves the flag up

\* txnControl: what an error makes of txnOpen.
AfterError(k) == IF op[k] = "COMMIT" THEN FALSE ELSE txnOpen

-----------------------------------------------------------------------------
(* The request loop.                                                       *)

\* Begin asks SessionTxnGranted, and ExecuteParams ServerParamsGranted, of the
\* connection the client has now.
Call(k, o) ==
  /\ o = "BEGIN" => Grants("SESSION_TXN")
  /\ o = "bind" => Grants("SERVER_PARAMS")
  /\ Go(k, "idle", "send")
  /\ op' = [op EXCEPT ![k] = o]
  /\ retried' = [retried EXCEPT ![k] = 0]
  /\ hint' = [hint EXCEPT ![k] = NoNode]
  /\ applied' = [applied EXCEPT ![k] = 0]
  /\ result' = [result EXCEPT ![k] = "none"]
  /\ UNCHANGED <<cluster, client, trip>>

\* usable refuses a poisoned connection.
SendFails(k) ==
  /\ fault
  /\ Go(k, "send", "idle")
  /\ Returns(k, "error")
  /\ txnOpen' = AfterError(k)
  /\ UNCHANGED <<cluster, address, fault, op, retried, hint, trip, applied>>

\* The guard refuses a second round trip; txnControl keeps its flag.
GuardRefuses(k) ==
  /\ ~fault /\ InFlight
  /\ Go(k, "send", "idle")
  /\ Returns(k, "error")
  /\ UNCHANGED <<cluster, client, op, retried, hint, trip, applied>>

WriteUnguarded(k) ==  \* faulty: beside a round trip under way
  /\ ~fault
  /\ Go(k, "send", "written")
  /\ uses' = [uses EXCEPT ![k] = {"write"}]
  /\ answer' = [answer EXCEPT ![k] = "none"]
  /\ UNCHANGED <<cluster, client, op, retried, hint, applied, result>>

\* One frame to Client.conn, nobody else being in a round trip.
Write(k) ==
  /\ ~fault /\ ~InFlight
  /\ Go(k, "send", "written")
  /\ uses' = [uses EXCEPT ![k] = {"write"}]
  /\ answer' = [answer EXCEPT ![k] = "none"]
  /\ UNCHANGED <<cluster, client, op, retried, hint, applied, result>>

\* SetReadDeadline and readFrame, each on Client.conn.
ArmOrRead(k, from, part, to) ==
  /\ Go(k, from, to)
  /\ uses' = [uses EXCEPT ![k] = @ \cup {part}]
  /\ UNCHANGED <<cluster, client, op, retried, hint, answer, applied, result>>

\* The next frame on the connection is taken for the reply, whosever it is.
Reads(k, j, to) ==
  /\ "read" \in uses[k]
  /\ "write" \in uses[j] /\ answer[j] # "none"
  /\ Go(k, "reading", to)
  /\ uses' = [uses EXCEPT ![k] = {}]
  /\ answer' = [answer EXCEPT ![j] = "none"]

ReadReply(k, j) ==
  /\ answer[j] # "notLeader"
  /\ Reads(k, j, "idle")
  /\ Returns(k, answer[j])
  /\ txnOpen' = IF answer[j] = "ok" /\ op[k] \in Controls THEN op[k] = "BEGIN"
                                                         ELSE AfterError(k)
  /\ UNCHANGED <<cluster, address, fault, op, retried, hint, applied>>

\* A reply that is read whole and cannot be decoded poisons nothing, and says
\* nothing of what was done.  txnControl takes a payload it cannot decode, in a
\* RESPONSE that says ok, for a granted one.
ReadGarbled(k, j) ==
  /\ Reads(k, j, "idle")
  /\ Returns(k, "lost")
  /\ \/ txnOpen' = AfterError(k)
     \/ answer[j] = "ok" /\ op[k] = "BEGIN" /\ txnOpen' = TRUE
  /\ UNCHANGED <<cluster, address, fault, op, retried, hint, applied>>

ReadRefusal(k, j) ==
  /\ answer[j] = "notLeader"
  /\ Reads(k, j, "refused")
  /\ hint' = [hint EXCEPT ![k] = hint[j]]
  /\ UNCHANGED <<cluster, client, op, retried, applied, result>>

\* A request without an answer may yet be carried out.
Unanswered(k) == (answer[k] = "none" /\ Carry(k)) \/ UNCHANGED applied

LostAgain(k) ==  \* faulty: a lost reply is asked again
  /\ Go(k, "reading", "refused")
  /\ Unanswered(k)
  /\ block' = FALSE
  /\ uses' = [uses EXCEPT ![k] = {}]
  /\ answer' = [answer EXCEPT ![k] = "none"]
  /\ UNCHANGED <<leader, client, op, retried, hint, result>>

\* The read fails; poison closes Client.conn, be it the one read from or not.
Lost(k) ==
  /\ Go(k, "reading", "idle")
  /\ Unanswered(k)
  /\ Returns(k, "lost")
  /\ fault' = TRUE /\ block' = FALSE
  /\ txnOpen' = AfterError(k)
  /\ uses' = [uses EXCEPT ![k] = {}]
  /\ answer' = [answer EXCEPT ![k] = "none"]
  /\ UNCHANGED <<leader, address, op, retried, hint>>

\* A deadline that passes (the program has set ReadTimeout), or a connection
\* that moveTo has closed.
ReadEnds(k) == ("arm" \in uses[k] \/ "read" \notin uses[k]) /\ Lost(k)

MayResendAnyway(k) == FollowLeader /\ retried[k] < LeaderRetries  \* faulty

MayResendForever(k) == FollowLeader /\ ~txnOpen  \* faulty: no bound

\* A session transaction belongs to this connection and cannot move.
MayResend(k) == FollowLeader /\ ~txnOpen /\ retried[k] < LeaderRetries

GiveUp(k) ==
  /\ ~MayResend(k)
  /\ Go(k, "refused", "idle")
  /\ Returns(k, "notLeader")
  /\ txnOpen' = AfterError(k)
  /\ UNCHANGED <<cluster, address, fault, op, retried, hint, trip, applied>>

Resend(k) ==
  /\ MayResend(k)
  /\ Go(k, "refused", IF hint[k] \notin {NoNode, address} THEN "move" ELSE "pause")
  /\ UNCHANGED <<cluster, client, request>>

MoveToUncounted(k) ==  \* faulty: a move is not counted as a retry
  /\ Go(k, "move", "send")
  /\ address' = hint[k]
  /\ block' = FALSE
  /\ uses' = [j \in Callers |-> {}]
  /\ UNCHANGED <<leader, fault, txnOpen, op, retried, hint, answer, applied, result>>

\* moveTo: the fresh connection takes over, and closing the old one ends the
\* block it had and cuts off whoever reads from it.
MoveTo(k) ==
  /\ Go(k, "move", "send")
  /\ address' = hint[k]
  /\ block' = FALSE
  /\ uses' = [j \in Callers |-> {}]
  /\ retried' = [retried EXCEPT ![k] = @ + 1]
  /\ UNCHANGED <<leader, fault, txnOpen, op, hint, answer, applied, result>>

\* A malformed hint, or a node that cannot be reached.
MoveFails(k) ==
  /\ Go(k, "move", "pause")
  /\ UNCHANGED <<cluster, client, request>>

Pause(k) ==
  /\ Go(k, "pause", "send")
  /\ retried' = [retried EXCEPT ![k] = @ + 1]
  /\ UNCHANGED <<cluster, client, op, hint, trip, applied, result>>

-----------------------------------------------------------------------------
(* The node the request was written to.                                    *)

Reply(k, a) ==
  /\ pc[k] \in RoundTrip /\ "write" \in uses[k] /\ answer[k] = "none"
  /\ answer' = [answer EXCEPT ![k] = a]

\* The leader carries the request out.  A BEGIN on a connection without
\* SESSION_TXN is a one-statement script.
Accepts(k) ==
  /\ address = leader
  /\ op[k] = "BEGIN" => ~block
  /\ op[k] = "COMMIT" => block
  /\ Reply(k, "ok") /\ Carry(k)
  /\ block' = IF op[k] \in Controls THEN op[k] = "BEGIN" /\ Grants("SESSION_TXN") ELSE block
  /\ UNCHANGED <<leader, client, pc, op, retried, hint, uses, result>>

\* Refused for any other reason: nothing done, and a refused COMMIT ends the
\* block.
Refuses(k) ==
  /\ Reply(k, "error")
  /\ block' = (block /\ op[k] # "COMMIT")
  /\ UNCHANGED <<leader, client, pc, op, retried, hint, uses, applied, result>>

\* outcome_unknown: the follower handed it to the leader and lost the answer.
LosesTrack(k) ==
  /\ address # leader /\ op[k] \notin Controls
  /\ Reply(k, "unknown")
  /\ Carry(k) \/ UNCHANGED applied
  /\ UNCHANGED <<cluster, client, pc, op, retried, hint, uses, result>>

RefersOn(k) ==
  /\ address # leader
  /\ Reply(k, "notLeader")
  /\ \E h \in Nodes \cup {NoNode} : hint' = [hint EXCEPT ![k] = h]
  /\ block' = (block /\ op[k] # "COMMIT")
  /\ UNCHANGED <<leader, client, pc, op, retried, uses, applied, result>>

\* The connection is lost, whether or not it has a deadline.
Leaves(k) == Lost(k)

-----------------------------------------------------------------------------
(* Around it.                                                              *)

Elect(n) ==
  /\ leader # n
  /\ leader' = n
  /\ UNCHANGED <<block, client, pc, request>>

\* The program connects again, to any node, once this Client is of no use.
Connect(n) ==
  /\ fault /\ \A k \in Callers : pc[k] = "idle"
  /\ address' = n /\ fault' = FALSE /\ txnOpen' = FALSE /\ block' = FALSE
  /\ UNCHANGED <<leader, pc, request>>

Send(k) ==
  \/ SendFails(k) \/ GuardRefuses(k) \/ Write(k)
  \/ ArmOrRead(k, "written", "arm", "armed") \/ ArmOrRead(k, "armed", "read", "reading")
  \/ \E j \in Callers : ReadReply(k, j) \/ ReadGarbled(k, j) \/ ReadRefusal(k, j)
  \/ ReadEnds(k)

Node(k) == Accepts(k) \/ Refuses(k) \/ LosesTrack(k) \/ RefersOn(k) \/ Leaves(k)

Loop(k) == Send(k) \/ GiveUp(k) \/ Resend(k) \/ MoveTo(k) \/ MoveFails(k) \/ Pause(k)

Next ==
  \/ \E k \in Callers : Loop(k) \/ Node(k) \/ \E o \in Asks : Call(k, o)
  \/ \E n \in Nodes \cup {NoNode} : Elect(n)
  \/ \E n \in Nodes : Connect(n)

Spec == Init /\ [][Next]_vars

\* A request in progress goes on: a deadline that is set passes, pauses end, and
\* moveTo gives up after followConnectTimeout.  The cluster owes nothing.
FairSpec == Spec /\ \A k \in Callers : WF_vars(Loop(k))

-----------------------------------------------------------------------------
(* Properties.                                                             *)

TypeOK ==
  /\ leader \in Nodes \cup {NoNode} /\ block \in BOOLEAN
  /\ address \in Nodes /\ fault \in BOOLEAN /\ txnOpen \in BOOLEAN
  /\ pc \in [Callers -> Steps] /\ op \in [Callers -> Ops]
  /\ retried \in [Callers -> 0..LeaderRetries]
  /\ hint \in [Callers -> Nodes \cup {NoNode}]
  /\ uses \in [Callers -> SUBSET Parts] /\ answer \in [Callers -> Answers]
  /\ applied \in [Callers -> Nat] /\ result \in [Callers -> Results]

\* What the caller is told is what happened: ok was carried out, and a refusal
\* was not, on any of the nodes the request visited.
ResultIsTrue ==
  \A k \in Callers :
    /\ result[k] = "ok" => applied[k] = 1
    /\ result[k] \in {"notLeader", "error"} => applied[k] = 0

\* The program is between requests, on a connection that is of use.
AtRest == ~fault /\ \A k \in Callers : pc[k] = "idle"

\* Between requests, a client that believes it is in a block on a node that
\* grants SESSION_TXN is in one: a COMMIT that is refused, by a node that has
\* lost the lead too, takes the flag down with the block, and no retry moves the
\* client away from an open one.
GrantedBlockIsReal == txnOpen /\ AtRest /\ Grants("SESSION_TXN") => block

\* "A session transaction belongs to this connection and cannot move."
TxnStaysPut == [][txnOpen /\ ~fault => address' = address]_vars

\* A request that needs a feature is written only on a connection that has been
\* granted it: without it Begin and ExecuteParams "fail by name before writing
\* anything".  (A BEGIN written elsewhere opens no block, yet txnOpen is set.)
WrittenWhereGranted ==
  \A k \in Callers : "write" \in uses[k] =>
    /\ op[k] = "BEGIN" => Grants("SESSION_TXN")
    /\ op[k] = "bind" => Grants("SERVER_PARAMS")

\* Every request returns, whatever the cluster does: the loop is bounded.
RequestReturns == \A k \in Callers : pc[k] # "idle" ~> pc[k] = "idle"
=============================================================================
