-------------------------------- MODULE Pool --------------------------------
(***************************************************************************)
(* The connection pool (src/pool.go).  Goroutines ("callers") run          *)
(* Pool.Use; each Use takes a token from a buffered channel, takes an idle *)
(* connection under the mutex or dials one, runs the callback on it, rolls *)
(* back what the callback left open, and either idles the connection or    *)
(* retires it before giving the token back.  Pool.Close races with all of  *)
(* it.                                                                     *)
(*                                                                         *)
(* What a connection is to the pool is the state of its socket, the txnOpen*)
(* flag the client keeps, whether an answer on it could not be decoded, and*)
(* the number of blocks the SERVER holds open for the session.  A slot of  *)
(* Conns in state "none" is a connection that does not exist; the next     *)
(* dial may reuse the slot.                                                *)
(***************************************************************************)
EXTENDS Integers, FiniteSets, Sequences, Functions

CONSTANTS Callers,        \* goroutines that call Pool.Use
          Conns,          \* slots for connections
          NoConn,         \* "c == nil"
          Size,           \* Pool.size
          MaxOpenBlocks,  \* maxOpenBlocks (64 in the code)
          MaxDepth,       \* bound: blocks a callback opens inside one another
          Habits          \* what callbacks of this program may do, see below

(***************************************************************************)
(* Habits of a callback that the pool cannot forbid:                       *)
(*   "swallow"  it ends without reporting that its connection faulted, or  *)
(*              that the answer to a BEGIN, COMMIT or ROLLBACK could not be*)
(*              decoded;                                                   *)
(*   "raw"      it sends BEGIN or COMMIT as plain Execute text.            *)
(***************************************************************************)
ASSUME PoolAssumption ==
  /\ Size \in Nat \ {0}
  /\ MaxOpenBlocks \in Nat
  /\ MaxDepth \in Nat
  /\ NoConn \notin Conns
  /\ Habits \subseteq {"swallow", "raw"}

VARIABLES tokens,   \* len(p.tokens)
          idle,     \* p.idle, a stack: its last element is taken first
          closed,   \* p.closed
          closing,  \* connections Pool.Close took out of p.idle, not yet closed
          pc,       \* where each caller is in Use
          held,     \* the variable c of each caller's Use
          broken,   \* the variable broken of each caller's Use
          tries,    \* the loop counter of abandonBlock
          sock,     \* the socket of each connection, see Sockets
          txnOpen,  \* Client.txnOpen
          misread,  \* history: connections on which the answer to a BEGIN, COMMIT
                    \* or ROLLBACK could not be decoded
          blocks    \* blocks the server holds open for each connection

pool == <<tokens, idle, closed, closing>>
client == <<sock, txnOpen, misread, blocks>>
vars == <<tokens, idle, closed, closing, pc, held, broken, tries,
          sock, txnOpen, misread, blocks>>

Places == {"out", "waiting", "slot", "dialing", "callback", "abandon", "put",
           "retire", "release"}

\* The places in which a caller has taken a token and not given it back.
Leased == Places \ {"out", "waiting"}

\* "severed": the server ended the session and the driver has not noticed.
\* "dropped": the driver poisoned the connection (and closed the socket).
Sockets == {"none", "open", "severed", "dropped"}

\* Client.Poisoned and Client.InTransaction.
Poisoned(c) == sock[c] = "dropped"
InTransaction(c) == txnOpen[c] /\ ~Poisoned(c)

\* Callers with a token; callers dialling; connections that exist.
Holders == {k \in Callers : pc[k] \in Leased}
Dialing == {k \in Callers : pc[k] = "dialing"}
Live == {c \in Conns : sock[c] # "none"}

Init ==
  /\ tokens = Size
  /\ idle = <<>>
  /\ closed = FALSE
  /\ closing = {}
  /\ pc = [k \in Callers |-> "out"]
  /\ held = [k \in Callers |-> NoConn]
  /\ broken = [k \in Callers |-> FALSE]
  /\ tries = [k \in Callers |-> 0]
  /\ sock = [c \in Conns |-> "none"]
  /\ txnOpen = [c \in Conns |-> FALSE]
  /\ misread = {}
  /\ blocks = [c \in Conns |-> 0]

-----------------------------------------------------------------------------
(* Taking a slot and a connection.                                         *)

Go(k, from, to) == pc[k] = from /\ pc' = [pc EXCEPT ![k] = to]

Call(k) ==
  /\ Go(k, "out", "waiting")
  /\ UNCHANGED <<pool, held, broken, tries, client>>

\* case <-ctx.Done(): ErrPoolTimeout.
GiveUp(k) ==
  /\ Go(k, "waiting", "out")
  /\ UNCHANGED <<pool, held, broken, tries, client>>

\* case <-p.tokens.
TakeToken(k) ==
  /\ Go(k, "waiting", "slot")
  /\ tokens > 0
  /\ tokens' = tokens - 1
  /\ UNCHANGED <<idle, closed, closing, held, broken, tries, client>>

\* The section under p.mu: a closed pool refuses, otherwise the last idle
\* connection is taken, otherwise one is to be dialled.
CheckOutRefusedLeaks(k) ==  \* faulty: returns without its token
  /\ Go(k, "slot", "out")
  /\ closed
  /\ UNCHANGED <<pool, held, broken, tries, client>>

CheckOutRefused(k) ==
  /\ Go(k, "slot", "release")
  /\ closed
  /\ UNCHANGED <<pool, held, broken, tries, client>>

CheckOutIdlePeeks(k) ==  \* faulty: the connection stays in p.idle
  /\ Go(k, "slot", "callback")
  /\ ~closed
  /\ idle # <<>>
  /\ held' = [held EXCEPT ![k] = idle[Len(idle)]]
  /\ UNCHANGED <<pool, broken, tries, client>>

CheckOutIdle(k) ==
  /\ Go(k, "slot", "callback")
  /\ ~closed
  /\ idle # <<>>
  /\ held' = [held EXCEPT ![k] = idle[Len(idle)]]
  /\ idle' = SubSeq(idle, 1, Len(idle) - 1)
  /\ UNCHANGED <<tokens, closed, closing, broken, tries, client>>

CheckOutDialEagerly(k) ==  \* faulty: dials past the idle connections
  /\ Go(k, "slot", "dialing")
  /\ ~closed
  /\ UNCHANGED <<pool, held, broken, tries, client>>

CheckOutDial(k) ==
  /\ Go(k, "slot", "dialing")
  /\ ~closed
  /\ idle = <<>>
  /\ UNCHANGED <<pool, held, broken, tries, client>>

\* Connect, outside the mutex: Pool.Close may run meanwhile.
DialOk(k) ==
  /\ Go(k, "dialing", "callback")
  /\ \E c \in Conns :
       /\ sock[c] = "none"
       /\ sock' = [sock EXCEPT ![c] = "open"]
       /\ held' = [held EXCEPT ![k] = c]
  /\ UNCHANGED <<pool, broken, tries, txnOpen, misread, blocks>>

DialFailLeaks(k) ==  \* faulty: "the pool shrinks"
  /\ Go(k, "dialing", "out")
  /\ UNCHANGED <<pool, held, broken, tries, client>>

DialFail(k) ==
  /\ Go(k, "dialing", "release")
  /\ UNCHANGED <<pool, held, broken, tries, client>>

-----------------------------------------------------------------------------
(* What a callback does to its connection.  A request on a poisoned        *)
(* connection is refused by usable() and changes nothing.                  *)

\* The server ends a session (idle-in-transaction window, restart, network).
Sever(c) ==
  /\ sock[c] = "open"
  /\ sock' = [sock EXCEPT ![c] = "severed"]
  /\ blocks' = [blocks EXCEPT ![c] = 0]
  /\ UNCHANGED <<pool, pc, held, broken, tries, txnOpen, misread>>

\* One COMMIT or ROLLBACK that is granted ends the innermost block, and txnOpen
\* follows the nested_depth of the answer; one that is refused ends them all.
EndInnermost(c) ==
  /\ blocks' = [blocks EXCEPT ![c] = @ - 1]
  /\ txnOpen' = [txnOpen EXCEPT ![c] = blocks[c] > 1]

EndAll(c) ==
  /\ blocks' = [blocks EXCEPT ![c] = 0]
  /\ txnOpen' = [txnOpen EXCEPT ![c] = FALSE]

Running(k, state) == pc[k] = "callback" /\ sock[held[k]] = state

\* Begin.  Inside a block it opens a nested one.
Begin(k) ==
  /\ Running(k, "open")
  /\ blocks[held[k]] < MaxDepth
  /\ blocks' = [blocks EXCEPT ![held[k]] = @ + 1]
  /\ txnOpen' = [txnOpen EXCEPT ![held[k]] = TRUE]
  /\ UNCHANGED <<pool, pc, held, broken, tries, sock, misread>>

\* Commit or Rollback that the server grants.
EndBlock(k) ==
  /\ Running(k, "open")
  /\ blocks[held[k]] > 0
  /\ EndInnermost(held[k])
  /\ UNCHANGED <<pool, pc, held, broken, tries, sock, misread>>

\* Commit or Rollback that the server refuses.
EndRefused(k) ==
  /\ Running(k, "open")
  /\ EndAll(held[k])
  /\ UNCHANGED <<pool, pc, held, broken, tries, sock, misread>>

\* Any request that fails below the protocol poisons the connection, and the
\* server rolls back what the session had open.
Fault(k) ==
  /\ Running(k, "open") \/ Running(k, "severed")
  /\ sock' = [sock EXCEPT ![held[k]] = "dropped"]
  /\ blocks' = [blocks EXCEPT ![held[k]] = 0]
  /\ UNCHANGED <<pool, pc, held, broken, tries, txnOpen, misread>>

\* The answer to a control statement cannot be decoded: a ProtocolError, which
\* does not poison the connection.
Misread(k, left, open) ==
  /\ blocks' = [blocks EXCEPT ![held[k]] = left]
  /\ txnOpen' = [txnOpen EXCEPT ![held[k]] = open]
  /\ misread' = misread \cup {held[k]}
  /\ UNCHANGED <<pool, pc, held, broken, tries, sock>>

\* BEGIN sets the flag if all but the payload of the answer is read (so that it
\* was granted), and otherwise leaves it, granted or not.
BeginMisread(k) ==
  LET n == blocks[held[k]] IN
  /\ Running(k, "open")
  /\ n < MaxDepth
  /\ Misread(k, n + 1, TRUE) \/ \E left \in {n, n + 1} : Misread(k, left, txnOpen[held[k]])

\* What a COMMIT or ROLLBACK leaves of n blocks, granted or refused.
Left(n) == {0, n - 1} \cap Nat

\* COMMIT and ROLLBACK clear the flag, granted or refused.
EndMisread(k) ==
  /\ Running(k, "open")
  /\ \E left \in Left(blocks[held[k]]) : Misread(k, left, FALSE)

\* Execute("BEGIN") and Execute("COMMIT"): the server obeys, txnOpen does not
\* follow.
RawControl(k, change) ==
  /\ "raw" \in Habits
  /\ Running(k, "open")
  /\ blocks[held[k]] + change \in 0..MaxDepth
  /\ blocks' = [blocks EXCEPT ![held[k]] = @ + change]
  /\ UNCHANGED <<pool, pc, held, broken, tries, sock, txnOpen, misread>>

\* The callback may end now without reporting a fault.
Quiet(k) ==
  /\ pc[k] = "callback"
  /\ Poisoned(held[k]) \/ held[k] \in misread => "swallow" \in Habits

-----------------------------------------------------------------------------
(* The end of Use.                                                         *)

\* A faulty variant that asks only the error, not Client.Poisoned.
ReturnErrorBySentinel(k, sentinel) ==
  /\ Go(k, "callback", IF ~sentinel /\ InTransaction(held[k]) THEN "abandon" ELSE "put")
  /\ held[k] \in misread => sentinel \/ "swallow" \in Habits
  /\ broken' = [broken EXCEPT ![k] = sentinel]
  /\ UNCHANGED <<pool, held, tries, client>>

\* fn returned an error; sentinel: it unwraps to ErrProtocol or ErrTimeout.
ReturnError(k, sentinel) ==
  LET bad == sentinel \/ Poisoned(held[k]) IN
  /\ Go(k, "callback", IF ~bad /\ InTransaction(held[k]) THEN "abandon" ELSE "put")
  /\ held[k] \in misread => sentinel \/ "swallow" \in Habits
  /\ broken' = [broken EXCEPT ![k] = bad]
  /\ UNCHANGED <<pool, held, tries, client>>

\* fn returned nil.
ReturnNil(k) ==
  /\ Quiet(k)
  /\ Go(k, "callback", IF InTransaction(held[k]) THEN "abandon" ELSE "put")
  /\ UNCHANGED <<pool, held, broken, tries, client>>

\* fn panicked: the deferred function puts the connection back as broken.
Panic(k) ==
  /\ Go(k, "callback", "put")
  /\ broken' = [broken EXCEPT ![k] = TRUE]
  /\ UNCHANGED <<pool, held, tries, client>>

\* fn ended its goroutine (runtime.Goexit): recover() returns nil, so the
\* deferred function reaches put with broken still FALSE.
Goexit(k) ==
  /\ Quiet(k)
  /\ Go(k, "callback", "put")
  /\ UNCHANGED <<pool, held, broken, tries, client>>

AbandonStepUncapped(k) ==  \* faulty: goes on past maxOpenBlocks
  /\ pc[k] = "abandon"
  /\ InTransaction(held[k])
  /\ sock[held[k]] = "open"
  /\ blocks[held[k]] > 0
  /\ EndInnermost(held[k])
  /\ tries' = [tries EXCEPT ![k] = @ + 1]
  /\ UNCHANGED <<pool, pc, held, broken, sock, misread>>

\* abandonBlock: one ROLLBACK per iteration.  The server may refuse one that
\* it has no block for.
AbandonStep(k) ==
  /\ pc[k] = "abandon"
  /\ tries[k] < MaxOpenBlocks
  /\ InTransaction(held[k])
  /\ sock[held[k]] = "open"
  /\ blocks[held[k]] > 0
  /\ EndInnermost(held[k])
  /\ tries' = [tries EXCEPT ![k] = @ + 1]
  /\ UNCHANGED <<pool, pc, held, broken, sock, misread>>

\* A ROLLBACK that is refused, or whose answer cannot be decoded or is lost.
AbandonFails(k) ==
  /\ Go(k, "abandon", "put")
  /\ tries[k] < MaxOpenBlocks
  /\ InTransaction(held[k])
  /\ broken' = [broken EXCEPT ![k] = TRUE]
  /\ tries' = [tries EXCEPT ![k] = 0]
  /\ \/ sock[held[k]] = "open" /\ EndAll(held[k]) /\ UNCHANGED <<sock, misread>>
     \/ /\ sock[held[k]] = "open"
        /\ \E left \in Left(blocks[held[k]]) : blocks' = [blocks EXCEPT ![held[k]] = left]
        /\ txnOpen' = [txnOpen EXCEPT ![held[k]] = FALSE]
        /\ misread' = misread \cup {held[k]}
        /\ UNCHANGED sock
     \/ EndAll(held[k]) /\ sock' = [sock EXCEPT ![held[k]] = "dropped"] /\ UNCHANGED misread
  /\ UNCHANGED <<pool, held>>

\* The loop is over: the transaction is gone, or the iterations are.
AbandonDone(k) ==
  /\ Go(k, "abandon", "put")
  /\ tries[k] = MaxOpenBlocks \/ ~InTransaction(held[k])
  /\ broken' = [broken EXCEPT ![k] = InTransaction(held[k])]
  /\ tries' = [tries EXCEPT ![k] = 0]
  /\ UNCHANGED <<pool, held, client>>

PutIdleTrusting(k) ==  \* faulty: relies on broken alone
  /\ Go(k, "put", "release")
  /\ ~broken[k] /\ ~closed
  /\ idle' = Append(idle, held[k])
  /\ held' = [held EXCEPT ![k] = NoConn]
  /\ UNCHANGED <<tokens, closed, closing, broken, tries, client>>

PutIdleLate(k) ==  \* faulty: does not look at p.closed again
  /\ Go(k, "put", "release")
  /\ ~broken[k] /\ ~InTransaction(held[k])
  /\ idle' = Append(idle, held[k])
  /\ held' = [held EXCEPT ![k] = NoConn]
  /\ UNCHANGED <<tokens, closed, closing, broken, tries, client>>

\* put, up to the end of its section under p.mu.
PutIdle(k) ==
  /\ Go(k, "put", "release")
  /\ ~broken[k] /\ ~InTransaction(held[k]) /\ ~closed
  /\ idle' = Append(idle, held[k])
  /\ held' = [held EXCEPT ![k] = NoConn]
  /\ UNCHANGED <<tokens, closed, closing, broken, tries, client>>

PutRetire(k) ==
  /\ Go(k, "put", "retire")
  /\ broken[k] \/ InTransaction(held[k]) \/ closed
  /\ broken' = [broken EXCEPT ![k] = FALSE]
  /\ UNCHANGED <<pool, held, tries, client>>

\* Client.Close, outside the mutex, for at most closeTimeout: the socket goes,
\* and with it whatever the session had open.
Discard(c) ==
  /\ sock' = [sock EXCEPT ![c] = "none"]
  /\ txnOpen' = [txnOpen EXCEPT ![c] = FALSE]
  /\ misread' = misread \ {c}
  /\ blocks' = [blocks EXCEPT ![c] = 0]

Retire(k) ==
  /\ Go(k, "retire", "release")
  /\ Discard(held[k])
  /\ held' = [held EXCEPT ![k] = NoConn]
  /\ UNCHANGED <<pool, broken, tries>>

\* p.tokens <- struct{}{} on a channel of capacity size.
Release(k) ==
  /\ Go(k, "release", "out")
  /\ tokens < Size
  /\ tokens' = tokens + 1
  /\ UNCHANGED <<idle, closed, closing, held, broken, tries, client>>

-----------------------------------------------------------------------------
(* Pool.Close: take every idle connection under the mutex, then close them *)
(* one after the other.                                                    *)

CloseForgets ==  \* faulty: drops the idle connections without closing them
  /\ closed' = TRUE
  /\ idle' = <<>>
  /\ UNCHANGED <<tokens, closing, pc, held, broken, tries, client>>

Close ==
  /\ closed' = TRUE
  /\ closing' = closing \cup Range(idle)
  /\ idle' = <<>>
  /\ UNCHANGED <<tokens, pc, held, broken, tries, client>>

CloseIdle(c) ==
  /\ c \in closing
  /\ closing' = closing \ {c}
  /\ Discard(c)
  /\ UNCHANGED <<tokens, idle, closed, pc, held, broken, tries>>

-----------------------------------------------------------------------------
\* What a caller does of its own accord, and what its Use then does.
CallbackStep(k) ==
  \/ Begin(k) \/ EndBlock(k) \/ EndRefused(k) \/ Fault(k)
  \/ BeginMisread(k) \/ EndMisread(k)
  \/ \E change \in {-1, 1} : RawControl(k, change)

CheckOut(k) == CheckOutRefused(k) \/ CheckOutIdle(k) \/ CheckOutDial(k)

Dial(k) == DialOk(k) \/ DialFail(k)

Return(k) ==
  \/ ReturnNil(k)
  \/ \E sentinel \in BOOLEAN : ReturnError(k, sentinel)
  \/ Panic(k) \/ Goexit(k)

Abandon(k) == AbandonStep(k) \/ AbandonFails(k) \/ AbandonDone(k)

Put(k) == PutIdle(k) \/ PutRetire(k) \/ Retire(k)

Step(k) ==
  \/ Call(k) \/ GiveUp(k) \/ TakeToken(k) \/ CheckOut(k) \/ Dial(k)
  \/ CallbackStep(k) \/ Return(k) \/ Abandon(k) \/ Put(k) \/ Release(k)

Next ==
  \/ \E k \in Callers : Step(k)
  \/ Close
  \/ \E c \in Conns : Sever(c) \/ CloseIdle(c)

Spec == Init /\ [][Next]_vars

(***************************************************************************)
(* Fairness.  Every step of Use after the token is taken is a bounded      *)
(* computation, a dial bounded by DialTimeout, a callback that returns, or *)
(* a Close bounded by closeTimeout: weak fairness.  Goroutines blocked on  *)
(* the token channel are served first come first served, so one that keeps *)
(* waiting is not overtaken for ever: strong fairness of TakeToken.  None  *)
(* is assumed of Call, GiveUp, of the callback's own requests, of Sever or *)
(* of Pool.Close being called.                                             *)
(***************************************************************************)
Fairness ==
  /\ \A k \in Callers :
       /\ SF_vars(TakeToken(k))
       /\ WF_vars(CheckOut(k)) /\ WF_vars(Dial(k)) /\ WF_vars(Return(k))
       /\ WF_vars(Abandon(k)) /\ WF_vars(Put(k)) /\ WF_vars(Release(k))
  /\ \A c \in Conns : WF_vars(CloseIdle(c))

FairSpec == Spec /\ Fairness

-----------------------------------------------------------------------------
(* Properties.                                                             *)

TypeOK ==
  /\ tokens \in 0..Size
  /\ idle \in Seq(Conns)
  /\ closed \in BOOLEAN
  /\ closing \in SUBSET Conns
  /\ pc \in [Callers -> Places]
  /\ held \in [Callers -> Conns \cup {NoConn}]
  /\ broken \in [Callers -> BOOLEAN]
  /\ tries \in [Callers -> 0..MaxOpenBlocks]
  /\ sock \in [Conns -> Sockets]
  /\ txnOpen \in [Conns -> BOOLEAN]
  /\ misread \in SUBSET Conns
  /\ blocks \in [Conns -> Nat]
  /\ \A k \in Callers :
       (held[k] # NoConn) <=> pc[k] \in {"callback", "abandon", "put", "retire"}

\* Every path through Use gives back exactly the token it took: "give the slot
\* back or the pool shrinks" (Pool.Use).
TokenConservation == tokens + Cardinality(Holders) = Size

HeldOnce == \A j, k \in Callers : held[j] = held[k] /\ held[j] # NoConn => j = k

IdleOnce == \A i, j \in DOMAIN idle : idle[i] = idle[j] => i = j

PlacesApart ==
  /\ \A i \in DOMAIN idle : idle[i] \notin closing
  /\ \A k \in Callers : held[k] \notin closing
  /\ \A i \in DOMAIN idle, k \in Callers : idle[i] # held[k]

Placed(c) ==
  \/ c \in closing
  \/ \E k \in Callers : held[k] = c
  \/ \E i \in DOMAIN idle : idle[i] = c

NoneLost == \A c \in Conns : sock[c] # "none" <=> Placed(c)

\* A connection that exists is in exactly one place: lent to one Use, idle
\* once, or about to be closed by Pool.Close.  So no two callers write to one
\* stream, and none is lost with its socket open.
OneOwner == HeldOnce /\ IdleOnce /\ PlacesApart /\ NoneLost

\* "the pool cannot exceed `size`" (the comment on Pool.tokens), counting the
\* connections being dialled and those a racing Close has yet to close.
PoolBound == Cardinality(Live) + Cardinality(Dialing) <= Size

\* "one must never go back to the pool mid-block" (Pool.Use): neither the flag
\* nor, what matters to the next borrower, the server has a block open, whatever
\* the callback begins and ends, also when its last COMMIT or ROLLBACK is refused
\* or its answer unreadable, or when the pool's own ROLLBACK fails.
IdleHasNoBlock ==
  \A i \in DOMAIN idle : ~InTransaction(idle[i]) /\ blocks[idle[i]] = 0

\* A connection that comes back while Close runs is not parked in a pool
\* nobody will ever take it from.
ClosedPoolIsEmpty == closed => idle = <<>>

\* "A timed-out connection is poisoned, and a Pool retires it" (TimeoutError).
NoPoisonedIdle == \A i \in DOMAIN idle : ~Poisoned(idle[i])

\* A Use that waits for a slot gets one, or its context ends: the slots of
\* faulted, panicking and abandoned callbacks all come back.
UseReturns == \A k \in Callers : pc[k] = "waiting" ~> pc[k] = "out"

\* After Close every socket of the pool goes and none comes back:
\* "Connections currently in use are closed when their Use returns."
CloseCompletes == closed ~> [](\A c \in Conns : sock[c] = "none")
=============================================================================
