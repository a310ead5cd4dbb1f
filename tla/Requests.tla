------------------------------ MODULE Requests -------------------------------
(***************************************************************************)
(* Names that requests carry: the request_id by which a statement can be   *)
(* cancelled from a second connection, and the document or graph           *)
(* transaction a request runs inside (src/tricoredb.go, src/document.go,   *)
(* src/graph.go).  Goroutines share the connections of one principal; the  *)
(* steps of requestIn interleave, and only the exchange has a guard.       *)
(*                                                                         *)
(* The server keeps running statements by id, scoped to the principal, and *)
(* transactions by name; a client that gives up leaves its statement       *)
(* running.                                                                *)
(***************************************************************************)
EXTENDS Naturals, FiniteSets

CONSTANTS Clients,     \* connections that requests are sent on
          Second,      \* the connection that cancels are sent on
          Goroutines, Txns,
          None,        \* the empty string: no transaction, no id
          MaxRequests  \* bound: requests numbered, by all clients together

ASSUME RequestsAssumption ==
  /\ IsFiniteSet(Clients)
  /\ MaxRequests \in Nat \ {0}
  /\ Second \notin Clients /\ None \notin Clients \cup {Second} \cup Goroutines \cup Txns
  /\ None \notin Clients \X Nat  \* no id is empty

VARIABLES rid,       \* Client.rid
          last,      \* Client.lastRequestID
          named,     \* Client.requestTxn
          busy,      \* Client.inFlight
          dead,      \* poisoned clients
          pc, job,   \* where a goroutine is in its call, and the call
          running,   \* the server's registry of statements
          txns,      \* the server's transactions
          pending,   \* what was written inside each of them
          durable,   \* what was written and is there to stay
          intent,    \* history: the transaction the program works in, per client
          asked,     \* history: transactions the program asked to commit
          stopped    \* history: whose statement a cancel was for, whose it stopped

client == <<rid, last, named, busy, dead>>
server == <<running, txns, pending, durable>>
history == <<intent, asked, stopped>>
vars == <<client, pc, job, server, history>>

Names == Txns \cup {None}

\* Faulty: ids are numbered from one on every connection.
PrefixShared(c) == None

\* A prefix per connection: pid, start of the process, sequence number.
Prefix(c) == c

Ids == {<<Prefix(c), n>> : c \in Clients, n \in 1..MaxRequests}

(***************************************************************************)
(* A call: on which client, what it is, the transaction it is about (the   *)
(* argument of a commit), the one its request carries, the one its author  *)
(* works in, and its id.  A cancel has the id it names and whose it is.    *)
(***************************************************************************)
Kinds == {"write", "begin", "commit", "rollback", "cancel"}

Numbered == {i \in Clients \X (1..MaxRequests) : i[2] <= rid[i[1]]}

NumbersLeft == Cardinality(Numbered) < MaxRequests

NoJob ==
  [on |-> None, kind |-> "write", txn |-> None, carries |-> None, meant |-> None,
   id |-> None, target |-> None]

\* Transactions may have been begun before, on connections that are gone.
Init ==
  /\ rid = [c \in Clients |-> 0] /\ last = [c \in Clients |-> None]
  /\ named = [c \in Clients |-> None] /\ busy = {} /\ dead = {}
  /\ pc = [g \in Goroutines |-> "idle"] /\ job = [g \in Goroutines |-> NoJob]
  /\ running = {} /\ txns \in [Txns -> {"none", "open"}] /\ pending = [t \in Txns |-> {}] /\ durable = {}
  /\ intent = [c \in Clients |-> None] /\ asked = {} /\ stopped = {}

Go(g, place) == pc' = [pc EXCEPT ![g] = place]

-----------------------------------------------------------------------------
(* The program.                                                            *)

\* SetRequestTxn, with an id the server has given, or with "".
SetRequestTxn(c, t) ==
  /\ t \in {None} \cup {u \in Txns : txns[u] # "none"}
  /\ t # named[c]
  /\ named' = [named EXCEPT ![c] = t]
  /\ intent' = [intent EXCEPT ![c] = t]
  /\ UNCHANGED <<rid, last, busy, dead, pc, job, server, asked, stopped>>

Start(g, place, j) ==
  /\ pc[g] = "idle" /\ j.on \notin dead
  /\ Go(g, place)
  /\ job' = [job EXCEPT ![g] = j]

\* requestIn takes its number by an atomic addition, ...
RequestIn(g, c, j) ==
  /\ NumbersLeft
  /\ rid' = [rid EXCEPT ![c] = @ + 1]
  /\ Start(g, "store", [j EXCEPT !.on = c, !.id = <<Prefix(c), rid'[c]>>])
  /\ UNCHANGED <<last, named, busy, dead, server, intent, stopped>>

\* request: the transaction that is named goes along.
Write(g, c) ==
  /\ RequestIn(g, c, [NoJob EXCEPT !.carries = named[c], !.meant = intent[c]])
  /\ UNCHANGED asked

\* requestIn with no transaction, whatever is named.
Begin(g, c) == RequestIn(g, c, [NoJob EXCEPT !.kind = "begin"]) /\ UNCHANGED asked

\* requestIn with the transaction that is to end.
End(g, c, kind, t) ==
  /\ txns[t] # "none"
  /\ RequestIn(g, c, [NoJob EXCEPT !.kind = kind, !.txn = t, !.carries = t, !.meant = t])
  /\ asked' = IF kind = "commit" THEN asked \cup {t} ELSE asked

\* second.Cancel(c.LastRequestID()).
Cancel(g, c) ==
  /\ last[c] # None
  /\ Start(g, "exchange", [NoJob EXCEPT !.on = Second, !.kind = "cancel", !.id = last[c], !.target = c])
  /\ UNCHANGED <<client, server, history>>

-----------------------------------------------------------------------------
(* requestIn and exchange.                                                 *)

\* ... and sets LastRequestID by a store of its own.
Store(g) ==
  /\ pc[g] = "store"
  /\ last' = [last EXCEPT ![job[g].on] = job[g].id]
  /\ Go(g, "exchange")
  /\ UNCHANGED <<rid, named, busy, dead, job, server, history>>

Send(g) ==
  LET c == job[g].on IN
  /\ pc[g] = "exchange" /\ c \notin busy \cup dead
  /\ busy' = busy \cup {c}
  /\ running' = running \cup {job[g]}
  /\ Go(g, "wait")
  /\ UNCHANGED <<rid, last, named, dead, job, txns, pending, durable, history>>

\* Faulty: whatever is named is cleared.
ForgetTxnBlindly(c, t) == named' = [named EXCEPT ![c] = None]

\* forgetTxn: only if it is still this transaction that is named.
ForgetTxn(c, t) == named' = IF named[c] = t THEN [named EXCEPT ![c] = None] ELSE named

\* A commit or rollback through this client ends the program's work in it.
Leave(c, t) == intent' = IF intent[c] = t THEN [intent EXCEPT ![c] = None] ELSE intent

\* The call returns, whatever came of it.
Return(g) ==
  LET j == job[g] IN
  /\ Go(g, "idle") /\ job' = [job EXCEPT ![g] = NoJob]
  /\ IF j.kind \in {"commit", "rollback"}
       THEN ForgetTxn(j.on, j.txn) /\ Leave(j.on, j.txn)
       ELSE UNCHANGED <<named, intent>>

\* Faulty: the guard is released on the way out, whoever has it.
RefuseHereReleasing(g) ==
  /\ pc[g] = "exchange" /\ job[g].on \in busy \cup dead
  /\ busy' = busy \ {job[g].on}
  /\ Return(g)
  /\ UNCHANGED <<rid, last, dead, server, asked, stopped>>

\* The guard is taken, or the client poisoned: nothing is sent.
RefuseHere(g) ==
  /\ pc[g] = "exchange" /\ job[g].on \in busy \cup dead
  /\ Return(g)
  /\ UNCHANGED <<rid, last, busy, dead, server, asked, stopped>>

Receive(g) ==
  /\ pc[g] = "wait" /\ job[g] \notin running
  /\ busy' = busy \ {job[g].on}
  /\ Return(g)
  /\ UNCHANGED <<rid, last, dead, server, asked, stopped>>

\* The read times out: the client is poisoned, the statement goes on.
Lose(g) ==
  /\ pc[g] = "wait"
  /\ busy' = busy \ {job[g].on} /\ dead' = dead \cup {job[g].on}
  /\ Return(g)
  /\ UNCHANGED <<rid, last, server, asked, stopped>>

-----------------------------------------------------------------------------
(* The server.                                                             *)

Ends(j) ==
  /\ running' = running \ {j}
  /\ UNCHANGED <<client, pc, job, history>>

Refuses(j) == Ends(j) /\ j.kind # "cancel" /\ UNCHANGED <<txns, pending, durable>>

Begins(j) ==
  /\ j.kind = "begin" /\ Ends(j)
  /\ \E t \in Txns : txns[t] = "none" /\ txns' = [txns EXCEPT ![t] = "open"]
  /\ UNCHANGED <<pending, durable>>

\* Outside a transaction a write stays at once; inside, when it commits.
Writes(j) ==
  /\ j.kind = "write" /\ Ends(j)
  /\ IF j.carries = None
       THEN durable' = durable \cup {j.meant} /\ UNCHANGED pending
       ELSE /\ txns[j.carries] = "open"
            /\ pending' = [pending EXCEPT ![j.carries] = @ \cup {j.meant}]
            /\ UNCHANGED durable
  /\ UNCHANGED txns

Commits(j) ==
  /\ j.kind = "commit" /\ Ends(j)
  /\ j.carries # None /\ txns[j.carries] = "open"
  /\ txns' = [txns EXCEPT ![j.carries] = "committed"]
  /\ durable' = durable \cup pending[j.carries]
  /\ UNCHANGED pending

\* A rollback, or a commit that meets a conflict.
RollsBack(j) ==
  /\ j.kind \in {"commit", "rollback"} /\ Ends(j)
  /\ j.carries # None /\ txns[j.carries] = "open"
  /\ txns' = [txns EXCEPT ![j.carries] = "over"]
  /\ UNCHANGED <<pending, durable>>

\* CANCEL stops every statement of that id, whoever sent it.
Stops(j) ==
  LET hit == {s \in running : s.kind # "cancel" /\ s.id = j.id} IN
  /\ j.kind = "cancel"
  /\ running' = running \ (hit \cup {j})
  /\ stopped' = stopped \cup {<<j.target, s.on>> : s \in hit}
  /\ UNCHANGED <<client, pc, job, txns, pending, durable, intent, asked>>

Server ==
  \E j \in running :
    Refuses(j) \/ Begins(j) \/ Writes(j) \/ Commits(j) \/ RollsBack(j) \/ Stops(j)

Program ==
  \/ \E c \in Clients, t \in Names : SetRequestTxn(c, t)
  \/ \E g \in Goroutines, c \in Clients :
       \/ Write(g, c) \/ Begin(g, c)
       \/ \E kind \in {"commit", "rollback"}, t \in Txns : End(g, c, kind, t)
       \/ Cancel(g, c)

Driver ==
  \E g \in Goroutines :
    Store(g) \/ Send(g) \/ RefuseHere(g) \/ Receive(g) \/ Lose(g)

Next == Program \/ Driver \/ Server

Spec == Init /\ [][Next]_vars

-----------------------------------------------------------------------------
Jobs ==
  [on : Clients \cup {Second, None}, kind : Kinds, txn : Names, carries : Names, meant : Names,
   id : Ids \cup {None}, target : Clients \cup {None}]

\* Every variable has its type; a client whose guard is taken has a goroutine
\* waiting on it.
TypeOK ==
  /\ rid \in [Clients -> 0..MaxRequests] /\ last \in [Clients -> Ids \cup {None}]
  /\ named \in [Clients -> Names] /\ dead \subseteq Clients \cup {Second}
  /\ pc \in [Goroutines -> {"idle", "store", "exchange", "wait"}]
  /\ \A g \in Goroutines : job[g] \in Jobs
  /\ busy = {job[g].on : g \in {h \in Goroutines : pc[h] = "wait"}}
  /\ \A j \in running : j \in Jobs
  /\ txns \in [Txns -> {"none", "open", "committed", "over"}]
  /\ pending \in [Txns -> SUBSET Names] /\ durable \subseteq Names
  /\ intent \in [Clients -> Names] /\ asked \subseteq Txns /\ stopped \subseteq Clients \X (Clients \cup {Second})

\* A cancel that names the LastRequestID of a client stops no statement of
\* another one, however many connections the principal has and however many
\* statements outlive the clients that sent them.
CancelHitsItsOwn == \A s \in stopped : s[1] = s[2]

\* What the program writes between naming a transaction and ending it stays
\* only if that transaction commits, and one commits only at the program's
\* request: neither another goroutine that ends its own transaction, nor one
\* that begins one, takes the name away or lends it to a stranger's request.
NamedTxnIsAtomic ==
  /\ \A t \in durable \ {None} : txns[t] = "committed"
  /\ \A t \in Txns : txns[t] = "committed" => t \in asked

\* Not so in the code (README, disagreements), and in no run: LastRequestID is
\* the id of the request that was sent last.
LastIsSent ==
  \A c \in Clients : \A g \in Goroutines :
    pc[g] = "wait" /\ job[g].on = c /\ job[g].kind # "cancel" => last[c] = job[g].id

\* Nor is this: a transaction its client no longer names after commit or
\* rollback is over.
ForgottenIsOver ==
  \A t \in asked :
    txns[t] = "open" =>
      \E g \in Goroutines : pc[g] # "idle" /\ job[g].kind \in {"commit", "rollback"} /\ job[g].txn = t
=============================================================================
