# Verification of the TriCoreDB Go driver

TLA+ models of the driver in `src/` (package `tricoredb`), checked with TLC on
small instances, and proofs checked with TLAPS. The reference is the Go code;
where a comment or the documentation says something else, a run or the section
*Disagreements* shows it.

## The system

| Component | State it keeps | Operations | Hard part |
| --- | --- | --- | --- |
| Pool (`pool.go`) | token channel, idle stack, `closed` | `Use`, `put`, `abandonBlock`, `Close`, `Stats` | many goroutines; panics; `Close` racing with dials and callbacks; what a callback leaves behind |
| Exchange (`tricoredb.go`, `wire.go`) | socket, `inFlight`, `fault`, read deadline, `closeOnce` | `exchange`, `Ping`, `poison`, `Close` | a stream without frame boundaries; late and partial replies; two goroutines |
| Session transactions (`sql.go`) | `txnOpen`, `grantedFeatures` | `Begin`, `Commit`, `Rollback`, `WithTransaction` | nested blocks; refused, lost and unreadable answers; panics |
| Following the leader (`tricoredb.go`) | `conn`, `address`, retry counter | `requestIn`, `moveTo` | stale hints, elections, retries; moving while something is bound to the connection |
| Connect (`tricoredb.go`) | deadline, granted features, session id | `Connect`, `hello`, `auth`, TLS `config` | one deadline over dial, TLS, HELLO and AUTH; errors |
| Request ids and named transactions | `rid`, `lastRequestID`, `requestTxn` | `Cancel`, `SetRequestTxn`, document and graph transactions | names that outlive what they name |
| SQL text (`sql.go`, `decimal.go`) | none | `BindParams`, `SQLLiteral`, `BuildTransactionScript` | quoting |
| Frame codec (`wire.go`) | none | `writeFrame`, `readFrame`, byte lists | widths, ceilings |
| Typed commands (`cache.go`, `document.go`, `graph.go`, `vector.go`, `llm.go`) | none | one request each | decoding; a few that wait |
| Conformance runner | none | drives the client | a test program, not modelled |

How they interact: every typed command goes through `requestIn`, which calls
`send`, which calls `exchange`. `Begin`, `Commit` and `Rollback` are plain
statements to `requestIn` and set `txnOpen` from the answer; `requestIn` reads
`txnOpen` before it moves; `Pool.Use` reads `txnOpen` and `fault` to decide
whether a connection may be lent again. `moveTo` calls `Connect`, and so does
the pool. The components share the `Client` and no messages but those of the
server.

What makes each correct:

* **Pool**: a token is given back exactly once; a connection has one owner; a
  session goes back to `idle` with nothing open in it; the bound holds; every
  `Use` ends, and a closed pool holds no socket.
* **Exchange**: a caller gets the reply to its own request or an error; a
  connection that may still carry an old reply is never used again; the guard
  is released; exchanges and `Close` end.
* **Session transactions**: the flag tells the truth; `nil` means durable; an
  error means discarded; no path leaves a block open.
* **Following**: a request is applied at most once; its result tells whether it
  was; the connection does not move inside a transaction; the loop ends.
* **Connect**: no socket is left behind by a failure; no deadline outlives the
  handshake; nothing travels before TLS.
* **Request ids**: a cancel stops the statement it names and no other; requests
  join the transaction that was named and no other.
* **SQL text and frames**: what the server reads is what the program meant; what
  is read from the wire is what was written, or an error.
* **Typed commands**: what a caller concludes from a result is true of the
  server, whatever was refused, lost or carried out late.

## Modules

| Module | Models |
| --- | --- |
| `Pool` | `Pool` and the part of `Client` it looks at |
| `Lease` | what a pool promises, abstractly: at most `Size` borrowers, each with a clean connection nobody else has |
| `PoolLease` | the refinement mapping from `Pool` to `Lease` |
| `PoolProofs` | theorems about `Pool` |
| `Exchange` | one connection, the goroutines on it, the stream and the server |
| `Session` | `WithTransaction` and `txnControl` against a server with nested blocks |
| `Follow` | the request loop over a cluster whose leader changes |
| `Once` | what a request promises its caller, abstractly: carried out once or not at all between call and return, with a result that tells which or that nobody knows |
| `FollowOnce` | the refinement mapping from `Follow` to `Once` |
| `Connect` | dial, TLS, HELLO, AUTH and the deadline of the context |
| `Requests` | request ids, CANCEL, `SetRequestTxn`, document and graph transactions |
| `Answers` | how the body of an answer is decoded, one operator for each decoder |
| `CacheCommands`, `DocumentCommands`, `GraphCommands`, `VectorCommands`, `OtherCommands` | the catalogue: what each command does, which arguments can be at fault, how its answer is decoded |
| `Commands` | a caller of the catalogue, and what it may conclude |
| `SqlText` | `BindParams`, `SQLLiteral`, `SQLParam`, `Decimal`, transaction scripts |
| `Codec` | frames and byte lists |
| `Text` | the inputs `SqlText` and `Codec` are checked on |
| `ExchangeProofs`, `SessionProofs`, `FollowProofs`, `ConnectProofs`, `RequestsProofs`, `CommandsProofs` | theorems about the module they are named after |
| `TextProofs` | theorems about `Codec`, `SqlText` and `Text` |
| `MC...` | constants of the small instances |

Each level takes the one below as a step. `Exchange` models a round trip in
detail; in `Session` a round trip is one step with an outcome, in `Follow` the
three uses it makes of `Client.conn`, in `Commands` a request and a reply; in
`Pool` the whole callback is a loop of steps that change `txnOpen`, the
server's blocks and the socket. The properties of `Exchange` justify the step:
an exchange that `Close` does not disturb ends with its own reply or with the
connection poisoned, never with another's reply. `Follow` repeats that argument
for a connection that is replaced in the middle of an exchange.

### Pool

`pc[k]` is where caller `k` is in `Use`: `waiting` (the select), `slot` (token
taken), `dialing`, `callback`, `abandon` (the loop of `abandonBlock`), `put`,
`retire` (in `Client.Close`, outside the mutex), `release` (before the channel
send). `held` is `c`, `broken` is `broken`, `tries` the loop counter. A section
under `p.mu` is one action. `Pool.Close` is two: `Close` empties `idle` under
the mutex, `CloseIdle` closes one connection. Connections are slots of `Conns`;
a closed one becomes a free slot. `blocks[c]` is what the server has open for
the session, `txnOpen[c]` what the client believes. The server may sever a
session at any time. An answer to BEGIN, COMMIT or ROLLBACK that is read whole
and cannot be decoded is an error that poisons nothing: `BeginMisread`,
`EndMisread` and one outcome of `AbandonFails` take every combination of what the
server did and what `txnControl` makes of the flag, and the history variable
`misread` says on which connections it happened.

`Habits` says what callbacks may do that the pool cannot forbid: `swallow`, end
without reporting a fault or an answer they could not read, and `raw`, send
`BEGIN` or `COMMIT` as plain text.
Safety is checked without habits and liveness with all of them.

### Exchange

`toServer` holds frames written and not yet answered, `inbox` the pieces
(header, body) of replies that arrived; a reader takes whatever piece comes
next for the one it expects, as `io.ReadFull` does on a stream. `answer[k]`
records which frames the header and the body of `k`'s reply came from. A body
read as a header begins with `{`, which is no version this driver reads, and is
refused. `ReadFails` covers a deadline, a socket closed on this side and a peer
that left.

`timeout` is `Client.readTimeout` (set or 0), which `SetReadTimeout` may change
at any moment; `budget[k]` is what `k`'s exchange loaded of it, and decides
whether the exchange arms and later clears the deadline. The deadline itself
belongs to the socket, so there is one.

### Session

`depth` is the number of blocks the server holds, `aborted` that a statement
failed in the innermost one, `work` the fate of a write made in the block
`WithTransaction` began. `Control(keyword, r)` is `txnControl` with the outcome
`r` of its request; `Flag` is what it stores. `granted` is `SESSION_TXN`. The
server's side is taken from what the comments of `sql.go`, `tricoredb.go` and
`nested_test.go` say of it: a granted COMMIT or ROLLBACK ends the innermost
block, a refused one the whole transaction.

`lapses` is a history variable: what has gone wrong on this connection outside
the code under study. `garbled`: a reply failed to decode, after which nobody
can know what was done. `busy`: another goroutine held the guard, which is how a
control statement is refused with `ErrArgument` and nothing sent. `careless`:
the callback left a nested block open, ended the block it was given, or began a
block outside it. All three always may happen; each property says which of them
it tolerates.

### Follow

`pc[k]` is where caller `k`'s `requestIn` is: `send`; `written`, `armed`,
`reading` (in `exchange`); `refused` (a `not_leader` refusal in hand), `move` (in
`moveTo`), `pause`. Writing the frame, setting the deadline and reading the reply
each take `Client.conn` as they find it; `uses[k]` says which of them were made
on the connection that stands, and `MoveTo` empties it for everybody. A reader
whose part `read` is gone reads from a closed socket; one that began to read
after the move waits on the fresh connection, with a deadline only if it set
one there. A reader takes the next reply on the connection for its own,
whosever it is: that it is its own is what the guard has to bring about.

`op[k]` is what is asked: a write, a write with parameters for the server to bind
(`bind`), or one of the controls, whose answers set `txnOpen` as `txnControl` does.
`Granted` gives each node what its handshake grants. `Call` asks it of the
connection the client has, as `Begin` and `sqlBody` do; nobody asks again after a
move, and a BEGIN that reaches a node without `SESSION_TXN` runs as a script of one
statement. A reply that is read whole and cannot be decoded (`ReadGarbled`) is
lost without a poisoned connection.

The refusal names any node or none. `applied[k]` counts how often the current
request was carried out; a request that was written and not answered may be
carried out after its caller has given up. `block` is a block open on the
connection of `address`. A fresh `Connect` happens only when the client is
poisoned. `moveTo` is also a data race on four fields of the client; only the
connection and the address are told apart, and they change together.

### Connect

One call of `Connect` and one read of the client it returns. Every combination
of TLS (off, good, bad), user, `ReadTimeout` and deadline is an initial state.
`sock` is the socket of the attempt, `deadline` what it is under: the context's,
a read deadline, or none. The context may be cancelled, which only the dial and
the TLS handshake notice, or expire. `sent` and `said` are history: which frames
were written, inside TLS or not, and what the peer accepted.

### Requests

Goroutines share the connections of one principal and the steps of `requestIn`
interleave: the number (`rid`), the store into `lastRequestID`, the exchange with
its guard. `Second` is the connection `Cancel` is called on. The server keeps
running statements by id and transactions by name; a client that gives up leaves
its statement running. `intent` is what the program means (the last name it set
or ended), `asked` the commits it asked for, `stopped` whose statement a cancel was
for and whose it stopped. Document and graph transactions behave alike and are
one kind here.

### Commands

The server holds one item: absent, an empty value, or a full one. It stands for
whatever the command is about, several keys or matches included. A command
reads it, writes it, tries to write it, swaps, takes, removes or trims it. A
write that a nil error does not vouch for is a `try` (a warm-up that leaves live
values alone, a pipeline or script one operation of which may fail, a filter that
matches nothing, a SQL statement whose rows are not counted here), and a removal of
that kind a `trim`.

The answer has one of the bodies the server promises for it, or a strange one
(another kind of data, a tag or a status this driver does not know, bytes that
do not parse), or none. `reads` of a decoder says which bodies it takes, and for
what: the *view*, the set of facts the caller is left with. `blind` are those
among them that nobody promised: `encoding/json` leaves the zero value where a
field is null or missing, so that an object without its entries reads as an
empty list and an operation without a reply as one that did not fail. The
constant `Exact` says that servers send no such body; it is the assumption under
which views and beliefs are true, in the run and in the theorems (*Disagreements* has what
happens without it).

`believed` is what the caller takes for possible from results alone: an argument
or server error means that nothing was done, `nil` that a write was done and a
`try` or `trim` perhaps, any other error that it may have been. `loose` is what
requests that were given up on may still do, later, and is never emptied, because
nobody can know when it is. Commands that differ only in name and in the fields
of their request are one shape. What a command does inside a transaction is that
transaction's affair (`Session`, `Requests`) and not modelled here.

### SqlText, Codec and Text

Pure functions. A text is a sequence of characters: quote, placeholder,
semicolon, space, a letter, a word of transaction control, or the digits of a
number. `Lexemes` is the server's reader, the reference for `Bind` and
`BuildTransactionScript`. Two literals next to each other without a space
(`'a'?` bound to a string) merge into one literal for any reader; `StandApart`
leaves such texts out, and the code does not refuse them. `Lexemes` steps
through a text one character at a time (`Lex`) and knows at any moment what it
has read so far (`Read`).

What the inputs are assumed to be (`TextAssumption`, evaluated by TLC for those of
the runs): elements are elements of JSON arrays, white space included
(`JsonElement`); a value is one of Go (`IsGoValue`), and the denominator of a
rational number in lowest terms divides a power of ten exactly where
`FiniteDecimalScale` finds its scale; a statement that is not `Barred` from a
script closes its literals and has no further word of control (`IsStatement`; the
code does not check this, see *Disagreements*). Sizes in `Codec` are
scaled: a byte has 2 values, the length 3 of them, the ceilings are 5 and 2.
Bodies fit the length field (`Fits`: shifted by the width of the length nothing
is left of it). The elements of a byte list are the real ones. What recurs over
a number or a sequence (`Shifted`, `Number`, `Scanned`, `ReadFrames`) is a
recursive function over `0..n`, so that it can be reasoned about.

## Runs

| Run | Instance | Shows |
| --- | --- | --- |
| `pool` | 3 callers, 3 connections, size 2, no habits | `TypeOK`, `OneOwner`, `TokenConservation`, `PoolBound`, `ClosedPoolIsEmpty`, `IdleHasNoBlock`, `NoPoisonedIdle`, and that `Pool` implements `Lease` |
| `pool_live` | 2 callers, 2 connections, size 1, all habits, fair | `UseReturns`, `CloseCompletes`, whatever callbacks do |
| `exchange` | 2 goroutines, 3 exchanges, fair | `TypeOK`, `OwnReply`, `AlignedAtRest`, `GuardExact`, `PoisonIsFinal`, `ExchangeReturns`, `CloseReturnsAlone`; `Close` may come at any moment, and `OwnReply` speaks of the time before it, `CloseReturnsAlone` of a `Close` that meets no exchange |
| `session` | blocks three deep, every outcome, every lapse | `TypeOK`, `TxnTracking`, `NilMeansCommitted`, `FailureMeansDiscarded`, `NoBlockLeft` |
| `follow` | 3 nodes (one grants nothing), 1 goroutine, 3 retries, every kind of request, fair | `GrantedBlockIsReal`, `TxnStaysPut`, `RequestReturns` |
| `follow_shared` | 3 nodes (one withholds `SESSION_TXN`), 2 goroutines, 2 retries, symmetry | `TypeOK`, `ResultIsTrue`, and that `Follow` implements `Once`, with moves in the middle of round trips |
| `commands` | the whole catalogue, servers that keep to the promised bodies (`Exact`) | `TypeOK`, `BeliefIsTrue`, `ViewIsTrue` |
| `connect` | every option, fair | `TypeOK`, `AllOrNothing` (a client that is ready was accepted, on an open socket with no deadline left; any other end closes the socket), `SecretInside`, `ConnectReturns` |
| `requests` | 2 clients and the second connection, 2 goroutines, 2 transactions, 2 requests, symmetry | `TypeOK`, `CancelHitsItsOwn`, `NamedTxnIsAtomic` |
| `text` | texts of 6 characters with up to 2 values, scripts of 3 statements, 3 frames, arrays of 4 | `BindsFaithfully`, `WireIsFaithful` |

The runs `session_nil` and `follow_ungranted` end with a counterexample (see
*Disagreements*).

Bounds. Two slots and three callers make someone wait, someone dial while
another returns, and `Close` arrive in any state; a third connection slot shows
that the bound is the tokens' doing and not the model's. `MaxOpenBlocks` is 1
instead of 64 so that a callback with two open blocks runs out of iterations.
Three calls let a late reply meet two later requests, on two goroutines that
contend for the guard. Depth 3 has a block inside a block inside
`WithTransaction`'s. Three retries over three nodes allow a circle of hints and a
pause between. Two goroutines with two retries each let one round trip meet two
moves, or a move and the retry of another request. In `requests` the bound is on
all requests together: two statements on two clients (or an end of a transaction
on one and a write on the other), while cancels, names and give-ups are
unbounded; transactions may be open from the start, so that a run need not spend
a request on beginning one. In `text`, three frames are one that is read, one that
is refused and what follows; six characters hold a literal, a placeholder outside
it and one inside; scripts of three statements have one between others.

In `follow_shared` goroutines are symmetric and so are the nodes that grant
`SESSION_TXN`; in `requests` clients, goroutines and transactions. Both check
safety only: invariants, and in `follow_shared` the steps of `Once`, which names no
caller and no node.

Deadlock is checked except in `exchange`, where the goroutines run out of
`MaxCalls` and stop, `connect`, which ends with the read, `requests`, where the
numbers run out, and `text`, where inputs stop growing.

Fairness. In `Pool`, what follows the token (dial, callback, rollback, close,
release) ends: dials have a timeout and `Close` a deadline, and a callback that
never returns is the application's. Receivers on a Go channel are served in
order of arrival, so `TakeToken` is strongly fair. Nothing is assumed of the
callback's own requests, of the server, or of `Close` being called. In
`Exchange`, a goroutine that can step does, and a deadline that is set passes;
the server owes nothing. An exchange that loaded a `readTimeout` of 0, which is
the default, may wait for ever, so `ExchangeReturns` speaks of those that have
one. In `Follow`, a request in progress takes its next step: pauses end, dials
end after `followConnectTimeout`, and a read whose deadline was set on its
connection ends, the program having set `ReadTimeout`. The cluster owes nothing
and may stay without a leader. In `Connect`, its own steps are taken and the
context, where it has a deadline, expires; the peer owes nothing. Without a
deadline a silent peer keeps `Connect` waiting, and `ConnectReturns` leaves that
case out.

Faulty variants. Beside some actions stands one marked *faulty*: the same
action with a plausible bug. No specification uses them; put in the place of
the action each makes TLC report the property that PROJECT.json pairs it with.

## Disagreements

Each is a run that TLC ends with a counterexample.

| Run | Property | What happens |
| --- | --- | --- |
| `session_nil` | `NilAlwaysMeansCommitted` | the COMMIT of `WithTransaction` ends a nested block only |
| `follow_ungranted` | `WrittenWhereGranted` | a BEGIN, or a statement with parameters, that was checked against one connection is written on another, which was not granted the feature: `txnOpen` is then set with no block open (`sql.go:33`, `sql.go:228-232`) |

Others show in the models and have no run of their own.

Of the pool:

* A callback that swallows a timeout and returns nil leaves a poisoned
  connection idle ("a Pool retires it", `errors.go:42`): `NoPoisonedIdle` fails
  with the habit `swallow`.
* A callback that carries on after an undecodable answer to its BEGIN, or to the
  COMMIT of a nested block, and returns nil idles a session inside a block that
  `txnOpen` does not know of ("one must never go back to the pool mid-block",
  `pool.go:95-96`): `IdleHasNoBlock` fails with the habit `swallow`.
* A name left by `SetRequestTxn` stays on the connection, and the next borrower's
  requests join that transaction. `put` does not look at it and no comment says
  that it does; the pool's side of it is not modelled.
* `Execute("BEGIN")` leaves `txnOpen` false, so such a connection goes back to
  the pool inside its block (habit `raw`).

Of a connection:

* `Close` beside an exchange reads its reply (`OwnReplyAlways` fails), and the
  exchange clears the deadline of `Close`, which may then wait for ever
  (`CloseReturns`), where `Close` calls itself bounded.
* A payload that cannot be encoded (a NaN) poisons the connection although
  nothing was written (`EncodeFails`; `cache.go:659-660`).
* `moveTo` between `SetReadDeadline` and `readFrame` of another goroutine leaves it
  reading without a deadline, though `ReadTimeout` is set (`RequestReturns` fails
  with two goroutines).
* A uint32 holds the length of a body: one of 4 GiB or more is written with
  another length.

Of transactions:

* `requestIn` holds the guard for one exchange only, so while a refused request
  pauses or dials, another goroutine may `Begin` on the old connection; `moveTo`
  then drops that block and `txnOpen` stays true (`TxnStaysPut` and
  `GrantedBlockIsReal` fail with two goroutines; "cannot move",
  `tricoredb.go:842-843`). A `Client` is not for concurrent use
  (`tricoredb.go:202`), but an overlapping call is otherwise refused
  (`README.md:145-146`).
* A nested block that the callback leaves open is still open after
  `WithTransaction` (`careless`), where `sql.go:271-272` says that no path
  leaves one.
* `forgetTxn` runs also when the COMMIT was refused locally: the transaction stays
  open and nobody names it (`ForgottenIsOver`; `document.go:1036-1037`).
* `LastRequestID` may name a request that was refused locally or one that is yet
  to be sent (`LastIsSent`).
* `COMMIT;;` and `x; COMMIT` pass the search for transaction control in a script
  (`sql.go:357-360`), and so does a statement that leaves a literal open, whose
  text then runs into the next one; `text` has no such statement, and
  `TextAssumption` excludes them.
* Nothing ties the arguments of a script to its statements: two statements that
  are miscounted in opposite ways take each other's (`ScriptKeepsArgs` fails;
  `sql.go:164` has "Args are the values bound to SQL's placeholders"). The counts
  are left to the server (`sql.go:66-69`), which sees their sum.

Of results:

* The package documentation (`doc.go:48-49`) says that the driver follows no
  redirect; `requestIn` follows `leader_hint`.
* A cancelled context without a deadline does not end the reads of HELLO and AUTH
  (`tricoredb.go:373-374`); a timeout in them is a raw `net.Error` and not
  `ErrTimeout` (`errors.go:36-37`).
* `DocumentDeleteMany` (`document.go:1061`) sends its filter without `check`; the
  errors of `DocumentFilter.check` and of an empty pipeline are no
  `ArgumentError`.
* A field that is null or missing in an answer reads as its zero value, without
  an error: a hash whose entries are null as an empty one, a script whose results
  are missing as one in which no operation failed (`ViewIsTrue` and `BeliefIsTrue`
  fail with `Exact = FALSE`). A body that does not have the promised shape is otherwise a
  `ProtocolError` (`errors.go:155-157`).
* A blocking pop takes whatever is not two values, null or a list of one included,
  for "not found"; `toBytes` masks numbers above 255 that `decodeByteList` refuses
  (`cache.go:572-577`).
* `SQLParam` takes a `json.Number`, `SQLLiteral` refuses it.

## Proofs

`PoolProofs` proves, for every set of callers and connections and every `Size`,
`MaxOpenBlocks` and `MaxDepth` that satisfy `PoolAssumption`:

* `TypeCorrect`: `Spec => []TypeOK`. It includes that `held[k]` is a connection
  exactly in the places where `Use` has one.
* `Ownership` (`OneOwner`) and `NothingIdlesAfterClose` (`ClosedPoolIsEmpty`). The
  invariant of both (`OwnershipInv`) adds `ClosingMeansClosed`: only a closed
  pool has connections that `Close` has yet to close. One lemma for each step
  that moves a connection (check out, dial, put back, retire, close), and
  `NothingMoves` for the rest.
* `TokensConserved`: `Spec => []TokenConservation`, with the lemmas that a step
  adds a token holder, removes one, or leaves them alone (`HolderComes`,
  `HolderGoes`, `SameHolders`).
* `BoundHolds`: `Spec => []PoolBound`. The bound is not inductive: a dial is
  safe because `idle` was empty when it was decided and the dialler has a
  token. `LiveAreHeld` counts: with `idle` empty and the pool open every
  connection is held by another token holder.
* `NoFaultIdles` (`NoPoisonedIdle`), if callbacks return the faults they meet
  (`"swallow" \notin Habits`). `CleanInv` follows a connection from the end of the
  callback through `abandonBlock` and `put` to `idle`.
* `NoBlockIdles` (`IdleHasNoBlock`), if callbacks also report the answers they could
  not read and send no raw control statement (`Habits = {}`). The invariant
  `BlocksInv` says that the server has a block only where the flag says so or an
  answer was misread, on an open socket.
* `PoolImplementsLease`: under the same condition `Spec => ImplementsLease`, each
  action of `Pool` mapped to an action of `Lease` or a stutter.

The conditions on callbacks are needed: without them the code fails
(*Disagreements*).

`ExchangeProofs`, for any goroutines and calls:

* `TypeCorrect`, `GuardIsExact` (`GuardExact`), `RepliesAreOwn` (`OwnReply`),
  `StreamIsAligned` (`AlignedAtRest`) and `PoisonHolds` (`PoisonIsFinal`).
  `StreamInv` names every state the stream can be in before `Close` is called:
  nothing is on the wire but the request of the goroutine that has the guard
  and what is left of the reply to it. `OpenInv` is why that is enough: before
  `Close` a socket that is not open is poisoned, so a reply that came too late
  is never read.

`SessionProofs`, for nested blocks of any depth (`MaxDepth`):

* `TypeCorrect`, `FlagTellsTheTruth` (`TxnTracking`), `NilIsCommitted`
  (`NilMeansCommitted`), `FailuresDiscard` (`FailureMeansDiscarded`) and
  `NoBlockIsLeft` (`NoBlockLeft`). None of them is
  inductive. `Inv` adds where a block can be open (only on a socket that stands),
  how deep it is at each place of `WithTransaction`, and when the work can be
  pending or durable, each as far as the lapses so far allow. What `txnControl`
  and the best-effort rollback do to depth and work are lemmas, used at every
  place that calls them.

`FollowProofs`, for any nodes, goroutines and retries:

* `TypeCorrect`, `CarriedOutAtMostOnce` and `RequestsAreTrue`
  (`ResultIsTrue`). `Inv` says that at most one round trip is under way, that
  nothing else is written on the connection or waits in it, and that a request
  on its way has been carried out only if an answer says so. So the reply a
  reader takes is its own (`OwnReplies`), however the connection moved.
* `FollowImplementsOnce`: `Spec => ImplementsOnce`, each step mapped to a step of
  `Once` or a stutter. A move, a pause and a refusal that is followed change
  nothing a caller can see; what is a single step of `Once` (a result and the
  truth of it) is spread over several nodes here.
* `GrantedBlocksAreReal` (`GrantedBlockIsReal`) and `BlocksStayPut` (`TxnStaysPut`),
  in any cluster, whatever its nodes grant, for a client that is `Unshared`: it does
  not follow the leader, or one goroutine uses it. A shared client that moves breaks
  both (*Disagreements*). `BlockInv` adds why a move loses no block: a request that
  waits to be sent again is outside one; and why the flag is right: where the node
  grants `SESSION_TXN`, a BEGIN that was answered with ok has opened a block, and a
  COMMIT that was answered is about to take the flag down.

`ConnectProofs`, for every combination of options and every peer:

* `TypeCorrect`, `ConnectIsAllOrNothing` (`AllOrNothing`) and `SecretsTravelInside`
  (`SecretInside`). `Inv` says for each place of `Connect` what the socket is,
  whether there is an error (`SocketFits`), what the peer has accepted by then
  (`AgreedSoFar`), that a reply that is read was sent (`RepliesFit`), and that the
  deadline of the context ends with the handshake (`DeadlineFits`).

`RequestsProofs`, for any clients (finitely many), goroutines and transactions:

* `TypeCorrect`. The bound of the model is on all the numbers given together
  (`NumbersLeft`); `NumberInBound` counts that the next one of a client is within
  it, and `RequestKeepsTypes` and `ReturnKeepsWaiting` that what waits is a call
  that holds the guard (`GuardIsTaken`, `OneWaits`).
* `CancelsHitTheirOwn`: ids carry the prefix of their client's connection, in
  `lastRequestID`, in calls and in the server's registry (`IdsAreOwn`).
* `NamedTxnsAreAtomic`: the name a client holds is the one the program means,
  requests carry what their author means, and writes pend in the transaction
  that was meant (`NamesAreOwn`).

`CommandsProofs`:

* `SoundDecodersSuffice`: for any catalogue, if servers keep to the promised bodies
  (`Exact`) and each decoder takes the body promised for a fact for that fact
  (`Sound`, a condition on one command alone), then `BeliefIsTrue` and `ViewIsTrue`.
  `Inv` says that what may be is believed now, or will be when the answer that has
  arrived is read.
* `CommandsTellTheTruth`: the commands of the driver are sound, one lemma for
  each file, so against such servers both hold of the whole catalogue.

`TextProofs`, first for the wire, for any values of a byte, any width of the
length, any ceilings, and bodies and byte strings of any length:

* `LengthComesBack`: `Number(Bytes(n)) = n` if the length can hold `n` (`Fits`). So
  the assumption that it holds `MaxFrameSize` is what keeps the ceiling from
  being passed by a length that wraps.
* `FrameIsReadOrRefused`: of a stream that begins like a written frame,
  `readFrame` makes that frame and the rest, or refuses it; it refuses exactly
  the frames that are newer than the reader, above their ceiling or cut short.
* `WrittenFramesSurvive`: `WrittenSurvive`, what `FramesSurvive` says of the frames
  `writeFrame` accepts, for any number of frames whose lengths fit and for every
  place where the stream may be cut. The reader's state after `i` frames is the
  frames so far and the stream from the `i`-th boundary on, or the frames up to
  the first it refused. `FramesAreFaithful` adds that the frames `writeFrame`
  refuses leave no trace.
* `BytesComeBack`: `DecodeByteList(ByteList(b)) = Value(b)`.
* `ByteListsSurvive`: of any array, with white space anywhere, `decodeByteList`
  makes the bytes its elements spell, or refuses it if one of them is no byte.
  `ReadsOn` follows the decoder through one element, `ListedOn` from one element
  to the next.
* `WireStaysFaithful`: `Spec => []WireIsFaithful`. The invariant is the type of the
  input (`InputTyped`).

Then for SQL, for any text, any arguments and any statements:

* `EveryBindIsFaithful` and `EveryScriptIsFaithful`: what `BindIsFaithful` and
  `ScriptIsFaithful` say of one input, of all of them.
* `BindsStayFaithful`: `Spec => []BindsFaithfully`, with the same invariant.

The loop of `BindParams` looks one character ahead. It is shown to compute what a
machine without that does (`Bound`, `BindIsAWalk`), which can be run in step with
the server's lexer. Over the text so far, the binder is inside a literal where
the lexer of that text is, and has bound as many arguments as it has read
placeholders, or is stuck for a reason (`Follows`, `BindsOrRefuses`). The lexer of
what has been bound agrees with the lexer of the text, lexeme by lexeme, with a
value where there is a placeholder (`Aligned`, `Agree`); that needs `StandApart`,
and that a value is one lexeme wherever it starts on its own
(`QuotedIsOneLiteral`, `ValueIsOneLexeme`). Of a script less is needed, that no
value opens a literal or brings a word of control (`Keeps`, `ControlsAreKept`), and
that the binder behind other statements, with the arguments behind theirs, does
to a statement what it does to it alone (`LaterThrough`, `SeparatedIsBound`).
That a number is written exactly rests on what `TextAssumption` says of its
denominator: that no digit is rounded away follows from it (`RoundingIsExact`,
`RatIsExact`), but that factors 2 and 5 are what it takes is about powers, of
which the provers know next to nothing. TLC evaluates it for each value of the
runs.

The provers have no induction rule to offer here, so these proofs go by the
least number at which a claim fails (`LeastNatural`, `AllNaturals`) and by a set
that has the empty sequence and with each sequence the ones that continue it
(`AllSequences`). `RunExists` shows that a function defined by recursion over
`0..n` is what its definition says, `WalkOn` and `WalkThrough` what a machine
makes of one element more and of two sequences, `FlattenOn` the same of a fold.

Model-checked only: liveness, which the provers do not handle (`UseReturns`,
`CloseCompletes`, `ExchangeReturns`, `CloseReturnsAlone`, `RequestReturns`,
`ConnectReturns`). Every invariant and every safety property that a passing run
checks is proved.

## Not modelled, and the plan

Next:

1. A `Write` that blocks because the peer does not read, which no deadline ends.
2. The life cycle of a client that a callback closes and the pool idles.
3. An abstract specification of `WithTransaction` (a block that is applied at
   once, or not at all), and that `Session` implements it.

Left out, with the reason:

* the conformance runner: a test program that drives the client one request at
  a time;
* the text of messages and `Unwrap`: no behaviour of the client depends on them;
* what is in a certificate: a TLS handshake succeeds or fails;
* the growth of the pause between retries: a pause is a step, and nothing
  depends on its length;
* the fields of requests and answers that no decoder branches on;
* TCP itself below the order of bytes.
