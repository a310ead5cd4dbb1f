------------------------------ MODULE Session -------------------------------
(***************************************************************************)
(* Session transactions (src/sql.go): Begin, Commit and Rollback through   *)
(* txnControl, the txnOpen flag that follows the server's answers, and     *)
(* WithTransaction with its error, panic and deferred paths.  One round    *)
(* trip is one step; what can become of it is the result r of the step     *)
(* (Exchange models the round trip itself).                                *)
(*                                                                         *)
(* The server, which is not in this repository, is modelled from what the  *)
(* client and its comments say of it: a BEGIN inside a block opens a nested*)
(* one, a granted COMMIT or ROLLBACK ends the innermost block, a failed    *)
(* statement aborts the block, a refused COMMIT or ROLLBACK ends the       *)
(* transaction, and a lost connection rolls it back.                       *)
(***************************************************************************)
EXTENDS Naturals

CONSTANT MaxDepth  \* bound: blocks inside one another

ASSUME SessionAssumption == MaxDepth \in Nat \ {0}

VARIABLES pc,       \* where WithTransaction is
          result,   \* what it returned, and why
          txnOpen,  \* Client.txnOpen
          sock,     \* open; severed by the server; dropped by poison
          granted,  \* SESSION_TXN was granted in the handshake
          depth,    \* blocks the server holds open
          aborted,  \* a statement of the innermost block has failed
          work,     \* a write made in WithTransaction's own block
          lapses    \* history: what went wrong outside this code, see Lapses

server == <<depth, aborted, work>>
vars == <<pc, result, txnOpen, sock, granted, depth, aborted, work, lapses>>

Places == {"idle", "begin", "fn", "commit", "failed", "deferred", "panicked", "returned"}

(***************************************************************************)
(* What the driver has no hold on:                                         *)
(*   "garbled"   a reply did not decode, and nobody knows what was done;   *)
(*   "busy"      another goroutine held the guard when control was sent;   *)
(*   "careless"  fn left a block it began open, ended the one it was       *)
(*               given, or began another after that one had ended.         *)
(***************************************************************************)
Lapses == {"garbled", "busy", "careless"}

Results == {"none", "nil", "fnError", "panic", "refused", "lost"}

InTransaction == txnOpen /\ sock # "dropped"

Init ==
  /\ pc = "idle" /\ result = "none" /\ txnOpen = FALSE /\ sock = "open"
  /\ granted \in BOOLEAN
  /\ depth = 0 /\ aborted = FALSE /\ work = "none" /\ lapses = {}

-----------------------------------------------------------------------------
(* The server.                                                             *)

\* The work of the outermost block shares its fate.
Settle(fate) == work' = IF work = "pending" THEN fate ELSE work

Grants(keyword) ==
  \/ /\ keyword = "BEGIN" /\ ~aborted /\ depth < MaxDepth
     /\ depth' = depth + 1
     /\ UNCHANGED <<aborted, work>>
  \/ /\ keyword = "COMMIT" /\ ~aborted /\ depth > 0
     /\ depth' = depth - 1
     /\ IF depth = 1 THEN Settle("durable") ELSE UNCHANGED work
     /\ UNCHANGED aborted
  \/ /\ keyword = "ROLLBACK" /\ depth > 0
     /\ depth' = depth - 1
     /\ IF depth = 1 THEN Settle("gone") ELSE UNCHANGED work
     /\ aborted' = FALSE

RollsBack == depth' = 0 /\ aborted' = FALSE /\ Settle("gone")

Refuses(keyword) == IF keyword = "BEGIN" THEN UNCHANGED server ELSE RollsBack

\* A COMMIT whose answer is lost may have been done.
Loses(keyword) ==
  \/ RollsBack
  \/ /\ keyword = "COMMIT" /\ sock = "open" /\ ~aborted /\ depth = 1
     /\ depth' = 0 /\ aborted' = FALSE /\ Settle("durable")

-----------------------------------------------------------------------------
(* txnControl.  r is what became of the request: "ok"; "refused" by the    *)
(* server; "body", a reply decodeJSON rejects; "frame", a reply send       *)
(* rejects; "lost", no reply and a poisoned connection; "argument", refused *)
(* by this driver with nothing sent.                                       *)

Outcomes == {"ok", "refused", "lost", "body", "frame", "argument"}

LapsesOf(keyword, r) ==
  {l \in Lapses :
     \/ l = "garbled" /\ r \in {"body", "frame"}
     \/ l = "busy" /\ r = "argument"
     \/ l = "careless" /\ pc = "fn" /\ IF keyword = "BEGIN" THEN ~InTransaction
                                                           ELSE depth < 2}

FlagForgetsNesting(keyword, r) ==  \* faulty: one COMMIT closes everything
  IF r \in {"ok", "body"} THEN keyword = "BEGIN"
                         ELSE (keyword = "BEGIN" \/ r = "argument") /\ txnOpen

\* The flag after the answer; depth' > 0 is the nested_depth of a granted end.
Flag(keyword, r) ==
  IF r \in {"ok", "body"} THEN keyword = "BEGIN" \/ (r = "ok" /\ depth' > 0)
                         ELSE (keyword = "BEGIN" \/ r = "argument") /\ txnOpen

Control(keyword, r) ==
  /\ \/ r \in {"ok", "body", "frame"} /\ sock = "open" /\ Grants(keyword) /\ UNCHANGED sock
     \/ r = "refused" /\ sock = "open" /\ Refuses(keyword) /\ UNCHANGED sock
     \/ r = "lost" /\ Loses(keyword) /\ sock' = "dropped"
     \/ r = "argument" /\ UNCHANGED <<server, sock>>
  /\ txnOpen' = Flag(keyword, r)
  /\ lapses' = lapses \cup LapsesOf(keyword, r)
  /\ UNCHANGED granted

\* abandonBlock: one best-effort ROLLBACK if a block is open.
AbandonBlock ==
  \/ InTransaction /\ \E r \in Outcomes : Control("ROLLBACK", r)
  \/ ~InTransaction /\ UNCHANGED <<txnOpen, sock, granted, server, lapses>>

Go(from, to) == pc = from /\ pc' = to

\* How an error reads to the caller.
ErrorOf(r) == IF r = "lost" THEN "lost" ELSE "refused"

-----------------------------------------------------------------------------
(* WithTransaction.                                                        *)

WithTransaction ==
  /\ Go("idle", "begin")
  /\ UNCHANGED <<result, txnOpen, sock, granted, server, lapses>>

\* Begin without SESSION_TXN fails before anything is written.
BeginNotGranted ==
  /\ ~granted
  /\ Go("begin", "returned")
  /\ result' = "refused"
  /\ UNCHANGED <<txnOpen, sock, granted, server, lapses>>

BeginOk ==
  /\ granted
  /\ Go("begin", "fn")
  /\ Control("BEGIN", "ok")
  /\ UNCHANGED result

BeginFails ==
  /\ granted
  /\ Go("begin", "returned")
  /\ \E r \in Outcomes \ {"ok"} : Control("BEGIN", r) /\ result' = ErrorOf(r)

\* fn: statements that succeed, fail or lose the connection...
Exec ==
  /\ pc = "fn" /\ sock = "open" /\ ~aborted /\ depth > 0
  /\ work' = IF depth = 1 THEN "pending" ELSE work
  /\ UNCHANGED <<pc, result, txnOpen, sock, granted, depth, aborted, lapses>>

ExecFails ==
  /\ pc = "fn" /\ sock = "open" /\ depth > 0
  /\ aborted' = TRUE
  /\ UNCHANGED <<pc, result, txnOpen, sock, granted, depth, work, lapses>>

ExecLost ==
  /\ pc = "fn" /\ sock # "dropped"
  /\ sock' = "dropped"
  /\ RollsBack
  /\ UNCHANGED <<pc, result, txnOpen, granted, lapses>>

\* ... and blocks of its own, which should lie inside WithTransaction's.
FnBegins ==
  /\ pc = "fn"
  /\ \E r \in Outcomes : Control("BEGIN", r)
  /\ UNCHANGED <<pc, result>>

FnEnds ==
  /\ pc = "fn"
  /\ \E keyword \in {"COMMIT", "ROLLBACK"}, r \in Outcomes : Control(keyword, r)
  /\ UNCHANGED <<pc, result>>

FnExits(to) ==
  /\ Go("fn", to)
  /\ lapses' = IF depth > 1 THEN lapses \cup {"careless"} ELSE lapses
  /\ UNCHANGED <<txnOpen, sock, granted, server>>

FnReturnsNil ==
  /\ FnExits("commit")
  /\ UNCHANGED result

\* "The caller's error is the one to report."
FnReturnsError ==
  /\ FnExits("failed")
  /\ result' = "fnError"

\* runtime.Goexit: only the deferred function runs, and recover() is nil.
FnGoexits ==
  /\ FnExits("deferred")
  /\ result' = "panic"

FnPanics ==
  /\ FnExits("panicked")
  /\ result' = "panic"

CommitOk ==
  /\ Go("commit", "returned")
  /\ Control("COMMIT", "ok")
  /\ result' = "nil"

CommitFailsQuietly ==  \* faulty: the error of Commit is not returned
  /\ Go("commit", "deferred")
  /\ \E r \in Outcomes \ {"ok"} : Control("COMMIT", r)
  /\ result' = "nil"

CommitFails ==
  /\ Go("commit", "deferred")
  /\ \E r \in Outcomes \ {"ok"} : Control("COMMIT", r) /\ result' = ErrorOf(r)

FailedCommits ==  \* faulty: keeps what fn did before its error
  /\ Go("failed", "deferred")
  /\ \E r \in Outcomes : Control("COMMIT", r)
  /\ UNCHANGED result

\* The error path rolls back once itself...
Failed ==
  /\ Go("failed", "deferred")
  /\ AbandonBlock
  /\ UNCHANGED result

\* ... and the deferred function once more if a block is still open.
Deferred ==
  /\ Go("deferred", "returned")
  /\ AbandonBlock
  /\ UNCHANGED result

PanickedForgets ==  \* faulty: re-panics without rolling back
  /\ Go("panicked", "returned")
  /\ UNCHANGED <<result, txnOpen, sock, granted, server, lapses>>

Panicked ==
  /\ Go("panicked", "returned")
  /\ AbandonBlock
  /\ UNCHANGED result

-----------------------------------------------------------------------------
(* Around it.                                                              *)

\* The idle-in-transaction window passes, or the server stops: it rolls the
\* block back and closes the connection.
Sever ==
  /\ sock = "open"
  /\ sock' = "severed"
  /\ RollsBack
  /\ UNCHANGED <<pc, result, txnOpen, granted, lapses>>

\* The next WithTransaction, on this connection if it can still be used...
Again ==
  /\ Go("returned", "idle")
  /\ sock # "dropped" /\ ~InTransaction
  /\ result' = "none" /\ work' = "none"
  /\ UNCHANGED <<txnOpen, sock, granted, depth, aborted, lapses>>

\* ... or on a new one: Close ends the session and every block in it.
Reconnect ==
  /\ Go("returned", "idle")
  /\ result' = "none" /\ work' = "none" /\ txnOpen' = FALSE /\ sock' = "open"
  /\ granted' \in BOOLEAN
  /\ depth' = 0 /\ aborted' = FALSE /\ lapses' = {}

Next ==
  \/ WithTransaction \/ BeginNotGranted \/ BeginOk \/ BeginFails
  \/ Exec \/ ExecFails \/ ExecLost \/ FnBegins \/ FnEnds
  \/ FnReturnsNil \/ FnReturnsError \/ FnGoexits \/ FnPanics
  \/ CommitOk \/ CommitFails \/ Failed \/ Deferred \/ Panicked
  \/ Sever \/ Again \/ Reconnect

Spec == Init /\ [][Next]_vars

-----------------------------------------------------------------------------
(* Properties.                                                             *)

TypeOK ==
  /\ pc \in Places /\ result \in Results
  /\ txnOpen \in BOOLEAN /\ sock \in {"open", "severed", "dropped"}
  /\ granted \in BOOLEAN /\ depth \in 0..MaxDepth /\ aborted \in BOOLEAN
  /\ work \in {"none", "pending", "durable", "gone"} /\ lapses \subseteq Lapses
  /\ aborted => depth > 0
  /\ result = "nil" => pc = "returned"

\* While the connection stands, InTransaction tells the truth, through nested
\* blocks, refusals, failed statements and controls that were never sent: the
\* pool and WithTransaction decide by it.
TxnTracking ==
  sock = "open" /\ "garbled" \notin lapses => (txnOpen <=> depth > 0)

\* What fn wrote is durable when WithTransaction returns nil, also when fn has
\* swallowed a failed statement.
NilMeansCommitted ==
  result = "nil" /\ lapses \subseteq {"busy"} => work \in {"none", "durable"}

\* An error or a panic of fn, and a refusal of COMMIT, mean nothing was kept.
\* Only a lost COMMIT leaves it open.
FailureMeansDiscarded ==
  pc = "returned" /\ result \in {"fnError", "panic", "refused"} /\ lapses = {}
    => work \in {"none", "gone"}

\* "so no path leaves a block open" (WithTransaction).
NoBlockLeft == pc = "returned" /\ sock = "open" /\ lapses = {} => depth = 0

\* "WithTransaction commits when the function returns nil" (README), whatever
\* blocks fn has opened inside.
NilAlwaysMeansCommitted ==
  result = "nil" /\ "garbled" \notin lapses => work \in {"none", "durable"}
=============================================================================
