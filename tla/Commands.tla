------------------------------ MODULE Commands -------------------------------
(***************************************************************************)
(* What a caller of the typed commands may conclude from what they return. *)
(* One caller sends the commands of Catalog, one at a time, about one      *)
(* item.  A request can be refused by the driver, by the server or by      *)
(* json.Marshal, be carried out with an answer nobody gets, or be carried  *)
(* out after this side has given up on it.  `believed` is what the caller  *)
(* knows from results alone: the items the server may hold.  Believing     *)
(* wrongly is how a refusal that was carried out, a miss that was an empty *)
(* value, or an answer decoded as another one would show.                  *)
(*                                                                         *)
(* An item may stand for many; a command that need not reach all of them   *)
(* is a "try" or a "trim".  Commands inside a transaction are not here.    *)
(*                                                                         *)
(* The round trip is Exchange's; here the reply comes or does not.         *)
(***************************************************************************)
EXTENDS Answers

CONSTANTS Catalog,  \* the commands; CacheCatalog and its like
          Exact     \* whether servers send no body but what they promised

ASSUME CommandsAssumption == (\A c \in Catalog : IsCommand(c)) /\ Exact \in BOOLEAN

VARIABLES conn,      \* ready, or poisoned
          stored,    \* the item, on the server
          loose,     \* what requests given up on may still make of it
          pc,        \* idle, sent, or answered
          cmd,       \* the command under way, or the last one
          value,     \* what it would write
          fact,      \* what carrying it out told the server
          reply,     \* the reply on its way
          result,    \* [err, view] of the last command, between commands
          believed   \* the items the caller takes for possible

server == <<stored, loose>>
request == <<cmd, value>>
vars == <<conn, stored, loose, pc, cmd, value, fact, reply, result, believed>>

\* Commands that differ in name only behave alike.
Shapes == {[does |-> c.does, answer |-> c.answer] : c \in Catalog}

\* ... and so do those that can have the same argument at fault.
Risks == UNION {{[does |-> c.does, fault |-> f] : f \in c.args} : c \in Catalog}

Nothing == [does |-> "read", answer |-> Ack]

NoResult == [err |-> "nil", view |-> Facts]

(***************************************************************************)
(* What else can come back: an ERROR frame; a response that says "failed"; *)
(* one whose code is outcome_unknown; a frame with another tag; one that   *)
(* does not parse; a response with another kind of data.                   *)
(***************************************************************************)
Refusals == {"error", "failed"}
Misfits == {"tag", "garbled", "kind"}
Replies == Bodies \cup Refusals \cup Misfits \cup {"unknown", "none"}

Errors == {"nil", "argument", "server", "unknown", "protocol", "lost"}

Init ==
  /\ conn = "ready" /\ stored \in Items /\ loose = {} /\ pc = "idle"
  /\ cmd = Nothing /\ value = "full" /\ fact = "done" /\ reply = "none"
  /\ result = NoResult
  /\ believed = Items

-----------------------------------------------------------------------------
(* The server.                                                             *)

\* Items that carrying out c, writing v, can leave.
Leaves(c, v) ==
  CASE c.does \in {"write", "swap", "try"}    -> {v}
    [] c.does \in {"take", "remove", "trim"}  -> {"absent"}
    [] OTHER                                  -> {}

\* Carrying out c on the item s: what is left of it and what is told.
Deed(c, v, s) ==
  CASE c.does = "read"               -> {<<s, s>>}
    [] c.does = "write"              -> {<<v, "done">>}
    [] c.does = "try"                -> {<<v, "done">>, <<s, "no">>}
    [] c.does = "swap"               -> {<<v, s>>}
    [] c.does \in {"take", "remove"} -> {<<"absent", s>>}
    [] c.does = "trim"               -> {<<s, s>>, <<"absent", s>>}

CarryOut ==
  /\ pc = "sent"
  /\ \E d \in Deed(cmd, value, stored) :
       /\ stored' = d[1] /\ fact' = d[2]
       /\ reply' \in {Promised(cmd.answer, d[2]), "unknown"} \cup Strange(cmd.answer)
                       \cup (IF cmd.answer.form = "ack" THEN Misfits \ {"kind"} ELSE Misfits)
                       \cup (IF Exact THEN {} ELSE cmd.answer.blind)
  /\ pc' = "answered"
  /\ UNCHANGED <<conn, loose, request, result, believed>>

Refuse ==
  /\ pc = "sent"
  /\ reply' \in Refusals \cup {"unknown", "tag", "garbled"}
  /\ loose' = IF reply' = "unknown" THEN loose \cup Leaves(cmd, value) ELSE loose
  /\ pc' = "answered"
  /\ UNCHANGED <<conn, stored, request, fact, result, believed>>

\* A request this side has given up on, or a follower has lost sight of, is
\* carried out late, or never.  Since the caller cannot know that it has
\* been, nothing leaves `loose`.
CarryOutLate ==
  /\ stored' \in loose
  /\ UNCHANGED <<conn, loose, pc, request, fact, reply, result, believed>>

-----------------------------------------------------------------------------
(* What the caller concludes.                                              *)

\* From a result without an error: the view it was given.
Concludes(c, v, view) ==
  CASE c.does = "read"                                 -> believed \cap view
    [] c.does = "trim"                                 -> (believed \cap view) \cup {"absent"}
    [] c.does = "try" /\ "done" \notin view            -> believed
    [] c.does = "try" /\ {"done", "no"} \subseteq view -> believed \cup {v}
    [] OTHER                                           -> Leaves(c, v)

\* An argument refused here and a refusal of the server mean that nothing
\* was done; of any other error the caller cannot tell.
Learn(c, v, err, view) ==
  /\ result' = [err |-> err, view |-> view]
  /\ believed' =
       CASE err = "nil"                   -> Concludes(c, v, view) \cup loose
         [] err \in {"argument", "server"} -> believed
         [] OTHER                         -> believed \cup Leaves(c, v)

-----------------------------------------------------------------------------
(* The client.                                                             *)

Refused(fault) == fault \in Checked

RefuseArgument ==
  /\ pc = "idle" /\ conn = "ready"
  /\ \E c \in Risks : Refused(c.fault) /\ Learn(c, "full", "argument", {})
  /\ UNCHANGED <<conn, server, pc, request, fact, reply>>

\* json.Marshal fails, and exchange takes it for a broken connection.
EncodeFails ==
  /\ pc = "idle" /\ conn = "ready"
  /\ \E c \in Risks, v \in {"empty", "full"} : ~Refused(c.fault) /\ Learn(c, v, "lost", {})
  /\ conn' = "poisoned"
  /\ UNCHANGED <<server, pc, request, fact, reply>>

Send ==
  /\ pc = "idle" /\ conn = "ready"
  /\ pc' = "sent"
  /\ cmd' \in Shapes /\ value' \in {"empty", "full"}
  /\ fact' = "done" /\ result' = NoResult
  /\ UNCHANGED <<conn, server, reply, believed>>

\* Faulty: an error frame is passed on as it came.
ErrorOfRaw(c, r) ==
  CASE r = "failed"                   -> "server"
    [] r \in DOMAIN c.answer.reads    -> "nil"
    [] r \in {"error", "unknown"}     -> r
    [] OTHER                          -> "protocol"

\* Faulty: outcome_unknown is a refusal like others.
ErrorOfCertain(c, r) ==
  CASE r \in Refusals \cup {"unknown"} -> "server"
    [] r \in DOMAIN c.answer.reads     -> "nil"
    [] OTHER                           -> "protocol"

\* What send and the decoder make of a reply.
ErrorOf(c, r) ==
  CASE r \in Refusals                 -> "server"
    [] r = "unknown"                  -> "unknown"
    [] r \in DOMAIN c.answer.reads    -> "nil"
    [] OTHER                          -> "protocol"

ViewOf(c, r) == IF r \in DOMAIN c.answer.reads THEN c.answer.reads[r] ELSE {}

Return == pc' = "idle" /\ cmd' = Nothing /\ value' = "full" /\ reply' = "none"

Receive ==
  /\ pc = "answered"
  /\ Return
  /\ Learn(cmd, value, ErrorOf(cmd, reply), ViewOf(cmd, reply))
  /\ UNCHANGED <<conn, server, fact>>

\* A read deadline, or a connection that ends, before the request is carried
\* out or after.
Lose ==
  /\ pc \in {"sent", "answered"}
  /\ Return
  /\ conn' = "poisoned"
  /\ loose' = IF pc = "sent" THEN loose \cup Leaves(cmd, value) ELSE loose
  /\ Learn(cmd, value, "lost", {})
  /\ UNCHANGED <<stored, fact>>

Reconnect ==
  /\ conn = "poisoned"
  /\ conn' = "ready"
  /\ UNCHANGED <<server, pc, request, fact, reply, result, believed>>

Server == CarryOut \/ Refuse \/ CarryOutLate
Client == RefuseArgument \/ EncodeFails \/ Send \/ Receive \/ Lose \/ Reconnect

Next == Server \/ Client

Spec == Init /\ [][Next]_vars

-----------------------------------------------------------------------------
\* Every variable has its type; no item is given up on that nothing wrote.
TypeOK ==
  /\ conn \in {"ready", "poisoned"} /\ stored \in Items /\ loose \subseteq Items
  /\ pc \in {"idle", "sent", "answered"}
  /\ cmd \in Shapes \cup {Nothing} /\ value \in {"empty", "full"}
  /\ fact \in Facts /\ reply \in Replies
  /\ result \in [err : Errors, view : SUBSET Facts]
  /\ believed \subseteq Items

\* Between commands, what the server holds is among what the caller, who saw
\* nothing but results, takes for possible: an argument or server error means
\* that nothing was done, a result without one that a write was done in full
\* and a "try" perhaps, and no request carried out late surprises a caller who
\* was told it was lost.
BeliefIsTrue == pc = "idle" => stored \in believed

\* A command that returns without an error tells what it met when it was
\* carried out: above all, a miss is told apart from an empty value, and an
\* answer that is not the promised one is not taken for it.
ViewIsTrue == pc = "idle" /\ result.err = "nil" => fact \in result.view
=============================================================================
