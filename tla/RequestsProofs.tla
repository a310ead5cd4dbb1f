--------------------------- MODULE RequestsProofs ----------------------------
(***************************************************************************)
(* Proofs about Requests, for any number of clients, goroutines,           *)
(* transactions and requests.                                              *)
(***************************************************************************)
EXTENDS Requests, FiniteSetTheorems, TLAPS

\* What the proofs need of the types.
JobTypes ==
  [on : Clients \cup {Second, None}, kind : Kinds, txn : Names, carries : Names, meant : Names,
   id : (Clients \X Nat) \cup {None}, target : Clients \cup {None}]

Types ==
  /\ rid \in [Clients -> Nat] /\ last \in [Clients -> (Clients \X Nat) \cup {None}]
  /\ named \in [Clients -> Names] /\ intent \in [Clients -> Names]
  /\ pc \in [Goroutines -> {"idle", "store", "exchange", "wait"}]
  /\ job \in [Goroutines -> JobTypes] /\ running \subseteq JobTypes
  /\ txns \in [Txns -> {"none", "open", "committed", "over"}]
  /\ pending \in [Txns -> SUBSET Names] /\ durable \subseteq Names

\* A request has an id of its own client; a cancel has one of its target.
OwnId(j) ==
  j.id # None =>
    IF j.kind = "cancel" THEN j.target \in Clients /\ j.id[1] = j.target
                         ELSE j.on \in Clients /\ j.id[1] = j.on

\* A request carries the transaction its author works in, and a commit one
\* that the program asked to commit.
OwnTxn(j) == j.carries = j.meant /\ (j.kind = "commit" => j.carries \in asked)

IdsAreOwn ==
  /\ \A c \in Clients : last[c] # None => last[c][1] = c
  /\ \A g \in Goroutines : OwnId(job[g]) /\ (pc[g] # "idle" => job[g].id # None)
                           /\ (pc[g] = "store" => job[g].kind # "cancel")
  /\ \A j \in running : OwnId(j) /\ j.id # None

NamesAreOwn ==
  /\ named = intent
  /\ \A g \in Goroutines : pc[g] # "idle" => OwnTxn(job[g])
  /\ \A j \in running : OwnTxn(j)
  /\ \A t \in Txns : pending[t] \subseteq {t}

Inv == Types /\ IdsAreOwn /\ NamesAreOwn /\ CancelHitsItsOwn /\ NamedTxnIsAtomic

-----------------------------------------------------------------------------
\* The id of a request carries the prefix of its client's connection.
LEMMA IdIsOwn ==
  ASSUME Types, NEW c \in Clients
  PROVE  <<Prefix(c), rid[c] + 1>> \in Clients \X Nat /\ <<Prefix(c), rid[c] + 1>>[1] = c
BY DEF Types, Prefix

\* A call numbers a request of its own client.
LEMMA RequestKeepsInv ==
  ASSUME Inv, NEW g \in Goroutines, NEW c \in Clients, NEW j \in JobTypes,
         RequestIn(g, c, j), j.kind # "cancel", j.carries = j.meant,
         asked \subseteq asked', j.kind = "commit" => j.carries \in asked'
  PROVE  Inv'
<1> DEFINE new == [j EXCEPT !.on = c, !.id = <<Prefix(c), rid[c] + 1>>]
<1>1. new \in JobTypes
  BY IdIsOwn DEF Inv, JobTypes
<1>2. /\ rid' = [rid EXCEPT ![c] = @ + 1]
      /\ pc' = [pc EXCEPT ![g] = "store"] /\ job' = [job EXCEPT ![g] = new]
      /\ UNCHANGED <<last, named, busy, dead, running, txns, pending, durable, intent, stopped>>
  <2>1. rid' = [rid EXCEPT ![c] = @ + 1] /\ rid'[c] = rid[c] + 1
    BY DEF RequestIn, Inv, Types
  <2> QED
    BY <2>1 DEF RequestIn, Start, Go, server
<1>3. /\ new.on = c /\ new.id = <<Prefix(c), rid[c] + 1>> /\ new.kind = j.kind
      /\ new.carries = j.carries /\ new.meant = j.meant
  BY DEF JobTypes
<1>4. Types'
  BY <1>1, <1>2 DEF Inv, Types
<1>5. IdsAreOwn'
  <2>1. OwnId(new) /\ new.kind # "cancel" /\ new.id # None
    BY <1>3, IdIsOwn, RequestsAssumption DEF OwnId, Inv
  <2> QED
    BY <1>2, <2>1 DEF IdsAreOwn, Inv, Types
<1>6. NamesAreOwn'
  <2>1. OwnTxn(new)'
    BY <1>3 DEF OwnTxn
  <2> QED
    BY <1>2, <2>1 DEF NamesAreOwn, OwnTxn, Inv, Types
<1>7. CancelHitsItsOwn' /\ NamedTxnIsAtomic'
  BY <1>2 DEF Inv, CancelHitsItsOwn, NamedTxnIsAtomic
<1> QED
  BY <1>4, <1>5, <1>6, <1>7 DEF Inv

\* A call that returns takes at most its own transaction away.
LEMMA ReturnKeepsInv ==
  ASSUME Inv, NEW g \in Goroutines, pc[g] # "idle", Return(g),
         UNCHANGED <<rid, last, server, asked, stopped>>
  PROVE  Inv'
<1>1. job[g] \in JobTypes /\ pc' = [pc EXCEPT ![g] = "idle"] /\ job' = [job EXCEPT ![g] = NoJob]
  BY DEF Return, Go, Inv, Types
<1>2. NoJob \in JobTypes /\ NoJob.id = None
  BY DEF NoJob, JobTypes, Kinds, Names
<1>3. /\ named' = intent' /\ named' \in [Clients -> Names]
  <2>1. CASE job[g].kind \in {"commit", "rollback"}
    BY <2>1 DEF Return, ForgetTxn, Leave, Inv, NamesAreOwn, Types, Names
  <2>2. CASE job[g].kind \notin {"commit", "rollback"}
    BY <2>2 DEF Return, Inv, NamesAreOwn, Types
  <2> QED
    BY <2>1, <2>2
<1>4. Types'
  BY <1>1, <1>2, <1>3 DEF server, Inv, Types
<1>5. IdsAreOwn'
  BY <1>1, <1>2 DEF server, Inv, Types, IdsAreOwn, OwnId
<1>6. NamesAreOwn'
  BY <1>1, <1>2, <1>3 DEF server, Inv, Types, NamesAreOwn, OwnTxn
<1>7. CancelHitsItsOwn' /\ NamedTxnIsAtomic'
  BY DEF server, Inv, CancelHitsItsOwn, NamedTxnIsAtomic
<1> QED
  BY <1>4, <1>5, <1>6, <1>7 DEF Inv

\* A write of the server lands where its author works.
LEMMA ServerKeepsInv ==
  ASSUME Inv, NEW j \in running,
         Refuses(j) \/ Begins(j) \/ Writes(j) \/ Commits(j) \/ RollsBack(j)
  PROVE  Inv'
<1>1. Ends(j) /\ j \in JobTypes /\ OwnTxn(j)
  BY DEF Refuses, Begins, Writes, Commits, RollsBack, Inv, Types, NamesAreOwn
<1>2. UNCHANGED <<rid, last, named, pc, job, intent, asked, stopped>> /\ running' \subseteq running
  BY <1>1 DEF Ends, client, history
<1>3. IdsAreOwn' /\ CancelHitsItsOwn'
  BY <1>2 DEF Inv, IdsAreOwn, OwnId, CancelHitsItsOwn
<1>4. CASE Refuses(j)
  BY <1>2, <1>3, <1>4 DEF Refuses, Inv, Types, NamesAreOwn, OwnTxn, NamedTxnIsAtomic
<1>5. CASE Begins(j)
  BY <1>2, <1>3, <1>5 DEF Begins, Inv, Types, NamesAreOwn, OwnTxn, NamedTxnIsAtomic
<1>6. CASE Writes(j)
  <2>1. CASE j.carries = None
    <3>1. durable' = durable \cup {None} /\ UNCHANGED <<txns, pending>>
      BY <1>1, <1>6, <2>1 DEF Writes, OwnTxn
    <3> QED
      BY <1>2, <1>3, <3>1 DEF Inv, Types, NamesAreOwn, OwnTxn, NamedTxnIsAtomic, Names
  <2>2. CASE j.carries # None
    <3>1. /\ pending' = [pending EXCEPT ![j.carries] = @ \cup {j.carries}]
          /\ j.carries \in Txns /\ UNCHANGED <<txns, durable>>
      BY <1>1, <1>6, <2>2 DEF Writes, OwnTxn, JobTypes, Names
    <3> QED
      BY <1>2, <1>3, <3>1 DEF Inv, Types, NamesAreOwn, OwnTxn, NamedTxnIsAtomic, Names
  <2> QED
    BY <2>1, <2>2
<1>7. CASE Commits(j)
  <2>1. /\ j.carries \in Txns /\ j.carries \in asked /\ txns' = [txns EXCEPT ![j.carries] = "committed"]
        /\ durable' \subseteq durable \cup {j.carries} /\ durable' \subseteq Names /\ UNCHANGED pending
    BY <1>1, <1>7 DEF Commits, OwnTxn, JobTypes, Names, Inv, NamesAreOwn, Types
  <2> QED
    BY <1>2, <1>3, <2>1 DEF Inv, Types, NamesAreOwn, OwnTxn, NamedTxnIsAtomic, Names
<1>8. CASE RollsBack(j)
  <2>1. /\ j.carries \in Txns /\ txns[j.carries] = "open" /\ txns' = [txns EXCEPT ![j.carries] = "over"]
        /\ UNCHANGED <<pending, durable>>
    BY <1>1, <1>8 DEF RollsBack, JobTypes, Names
  <2> QED
    BY <1>2, <1>3, <2>1 DEF Inv, Types, NamesAreOwn, OwnTxn, NamedTxnIsAtomic, Names
<1> QED
  BY <1>4, <1>5, <1>6, <1>7, <1>8

\* What a cancel hits has the prefix of the client it was meant for.
LEMMA StopsKeepsInv ==
  ASSUME Inv, NEW j \in running, Stops(j)
  PROVE  Inv'
<1>1. UNCHANGED <<rid, last, named, pc, job, txns, pending, durable, intent, asked>> /\ running' \subseteq running
  BY DEF Stops, client
<1>2. j.kind = "cancel" /\ j.target = j.id[1]
  BY DEF Stops, Inv, IdsAreOwn, OwnId
<1>3. \A s \in running : s.kind # "cancel" /\ s.id = j.id => s.on = j.target
  BY <1>2 DEF Inv, IdsAreOwn, OwnId
<1>4. CancelHitsItsOwn'
  <2> SUFFICES ASSUME NEW p \in stopped' \ stopped PROVE p[1] = p[2]
    BY DEF CancelHitsItsOwn, Inv
  <2>1. PICK s \in running : s.kind # "cancel" /\ s.id = j.id /\ p = <<j.target, s.on>>
    BY DEF Stops
  <2> QED
    BY <1>3, <2>1
<1> QED
  BY <1>1, <1>4 DEF Inv, Types, IdsAreOwn, OwnId, NamesAreOwn, OwnTxn, NamedTxnIsAtomic

\* Ids and names stay with those they belong to.
THEOREM InvHolds == Spec => []Inv
<1>1. Init => Inv
  <2> SUFFICES ASSUME Init PROVE Inv
    OBVIOUS
  <2>1. NoJob \in JobTypes /\ NoJob.id = None
    BY DEF NoJob, JobTypes, Kinds, Names
  <2>2. Types
    BY <2>1 DEF Init, Types, Names
  <2>3. IdsAreOwn /\ NamesAreOwn /\ CancelHitsItsOwn
    BY <2>1 DEF Init, IdsAreOwn, OwnId, NamesAreOwn, CancelHitsItsOwn
  <2>4. NamedTxnIsAtomic
    BY DEF Init, NamedTxnIsAtomic
  <2> QED
    BY <2>2, <2>3, <2>4 DEF Inv
<1>2. Inv /\ [Next]_vars => Inv'
  <2> SUFFICES ASSUME Inv, [Next]_vars PROVE Inv'
    OBVIOUS
  <2>1. ASSUME NEW c \in Clients, NEW t \in Names, SetRequestTxn(c, t) PROVE Inv'
    BY <2>1 DEF SetRequestTxn, server, Inv, Types, IdsAreOwn, OwnId, NamesAreOwn, OwnTxn,
                CancelHitsItsOwn, NamedTxnIsAtomic, Names
  <2>2. ASSUME NEW g \in Goroutines, NEW c \in Clients, Write(g, c) PROVE Inv'
    <3> DEFINE j == [NoJob EXCEPT !.carries = named[c], !.meant = intent[c]]
    <3>1. j \in JobTypes /\ j.kind = "write" /\ j.carries = named[c] /\ j.meant = intent[c]
      BY DEF NoJob, JobTypes, Kinds, Inv, Types, Names
    <3>2. j.carries = j.meant
      BY <3>1 DEF Inv, NamesAreOwn
    <3> QED
      BY <2>2, <3>1, <3>2, RequestKeepsInv DEF Write
  <2>3. ASSUME NEW g \in Goroutines, NEW c \in Clients, Begin(g, c) PROVE Inv'
    <3> DEFINE j == [NoJob EXCEPT !.kind = "begin"]
    <3>1. j \in JobTypes /\ j.kind = "begin" /\ j.carries = j.meant
      BY DEF NoJob, JobTypes, Kinds, Names
    <3> QED
      BY <2>3, <3>1, RequestKeepsInv DEF Begin
  <2>4. ASSUME NEW g \in Goroutines, NEW c \in Clients, NEW kind \in {"commit", "rollback"}, NEW t \in Txns,
               End(g, c, kind, t)
        PROVE  Inv'
    <3> DEFINE j == [NoJob EXCEPT !.kind = kind, !.txn = t, !.carries = t, !.meant = t]
    <3>1. j \in JobTypes /\ j.kind = kind /\ j.carries = t /\ j.meant = t
      BY DEF NoJob, JobTypes, Kinds, Names
    <3>2. asked \subseteq asked' /\ (kind = "commit" => t \in asked')
      BY <2>4 DEF End
    <3> QED
      BY <2>4, <3>1, <3>2, RequestKeepsInv DEF End
  <2>5. ASSUME NEW g \in Goroutines, NEW c \in Clients, Cancel(g, c) PROVE Inv'
    <3> DEFINE j == [NoJob EXCEPT !.on = Second, !.kind = "cancel", !.id = last[c], !.target = c]
    <3>1. j \in JobTypes /\ j.kind = "cancel" /\ j.id = last[c] /\ j.target = c /\ j.carries = None /\ j.meant = None
      BY <2>5 DEF Cancel, NoJob, JobTypes, Kinds, Names, Inv, Types
    <3>2. /\ job' = [job EXCEPT ![g] = j] /\ pc' = [pc EXCEPT ![g] = "exchange"]
          /\ last[c] # None /\ last[c][1] = c /\ UNCHANGED <<client, server, history>>
      BY <2>5 DEF Cancel, Start, Go, Inv, IdsAreOwn
    <3> QED
      BY <3>1, <3>2 DEF client, server, history, Inv, Types, IdsAreOwn, OwnId, NamesAreOwn, OwnTxn,
                CancelHitsItsOwn, NamedTxnIsAtomic
  <2>6. ASSUME NEW g \in Goroutines, Store(g) PROVE Inv'
    <3>1. /\ last' = [last EXCEPT ![job[g].on] = job[g].id] /\ pc' = [pc EXCEPT ![g] = "exchange"]
          /\ UNCHANGED <<rid, named, job, server, history>>
      BY <2>6 DEF Store, Go
    <3>2. /\ job[g].id # None /\ job[g].on \in Clients /\ job[g].id[1] = job[g].on
          /\ job[g].id \in Clients \X Nat
      BY <2>6 DEF Store, Inv, Types, JobTypes, IdsAreOwn, OwnId
    <3>3. Types' /\ IdsAreOwn'
      BY <3>1, <3>2 DEF server, history, Inv, Types, IdsAreOwn, OwnId
    <3>4. NamesAreOwn' /\ CancelHitsItsOwn' /\ NamedTxnIsAtomic'
      <4>1. \A h \in Goroutines : pc'[h] # "idle" => pc[h] # "idle"
        BY <2>6, <3>1 DEF Store, Inv, Types
      <4> QED
        BY <3>1, <4>1 DEF server, history, Inv, NamesAreOwn, OwnTxn, CancelHitsItsOwn, NamedTxnIsAtomic
    <3> QED
      BY <3>3, <3>4 DEF Inv
  <2>7. ASSUME NEW g \in Goroutines, Send(g) PROVE Inv'
    <3>1. /\ running' = running \cup {job[g]} /\ pc' = [pc EXCEPT ![g] = "wait"] /\ pc[g] # "idle"
          /\ UNCHANGED <<rid, last, named, job, txns, pending, durable, history>>
      BY <2>7 DEF Send, Go
    <3> QED
      BY <3>1 DEF history, Inv, Types, IdsAreOwn, OwnId, NamesAreOwn, OwnTxn,
                CancelHitsItsOwn, NamedTxnIsAtomic
  <2>8. ASSUME NEW g \in Goroutines, RefuseHere(g) \/ Receive(g) \/ Lose(g) PROVE Inv'
    BY <2>8, ReturnKeepsInv DEF RefuseHere, Receive, Lose
  <2>9. ASSUME NEW j \in running, Refuses(j) \/ Begins(j) \/ Writes(j) \/ Commits(j) \/ RollsBack(j) \/ Stops(j)
        PROVE  Inv'
    BY <2>9, ServerKeepsInv, StopsKeepsInv
  <2>10. CASE UNCHANGED vars
    BY <2>10 DEF vars, client, server, history, Inv, Types, IdsAreOwn, OwnId, NamesAreOwn, OwnTxn,
                CancelHitsItsOwn, NamedTxnIsAtomic
  <2> QED
    BY <2>1, <2>2, <2>3, <2>4, <2>5, <2>6, <2>7, <2>8, <2>9, <2>10 DEF Next, Program, Driver, Server
<1> QED
  BY <1>1, <1>2, PTL DEF Spec

\* A cancel that names the LastRequestID of one client never stops a statement
\* of another.
THEOREM CancelsHitTheirOwn == Spec => []CancelHitsItsOwn
<1>1. Inv => CancelHitsItsOwn
  BY DEF Inv
<1> QED
  BY <1>1, InvHolds, PTL

\* What is written between naming a transaction and ending it stays only if
\* that transaction commits, and none commits unasked.
THEOREM NamedTxnsAreAtomic == Spec => []NamedTxnIsAtomic
<1>1. Inv => NamedTxnIsAtomic
  BY DEF Inv
<1> QED
  BY <1>1, InvHolds, PTL
-----------------------------------------------------------------------------
(* The types, and the guard.                                               *)

\* Goroutines that have taken the guard of a client.
Waiting == {g \in Goroutines : pc[g] = "wait"}

\* A call is on a client, and no two wait on the same one: the guard is free
\* only if nobody waits.
OneWaits ==
  /\ \A g \in Goroutines : pc[g] # "idle" => job[g].on # None
  /\ \A g, h \in Waiting : job[g].on = job[h].on => g = h

\* TypeOK in two parts.
GuardIsTaken == busy = {job[g].on : g \in Waiting}

DataTypes ==
  /\ rid \in [Clients -> 0..MaxRequests] /\ last \in [Clients -> Ids \cup {None}]
  /\ dead \subseteq Clients \cup {Second}
  /\ \A g \in Goroutines : job[g] \in Jobs
  /\ \A j \in running : j \in Jobs
  /\ asked \subseteq Txns /\ stopped \subseteq Clients \X (Clients \cup {Second})

TypeInv == DataTypes /\ GuardIsTaken /\ OneWaits

\* With a number left, the client that takes it has not used up the bound: its
\* numbers are among all those given.
LEMMA NumberInBound ==
  ASSUME DataTypes, NumbersLeft, NEW c \in Clients
  PROVE  rid[c] + 1 \in 1..MaxRequests
<1> DEFINE own == {c} \X (1..rid[c])
<1>1. /\ rid[c] \in 0..MaxRequests /\ MaxRequests \in Nat
      /\ 1 \in Int /\ rid[c] \in Int /\ MaxRequests \in Int
  BY RequestsAssumption DEF DataTypes
<1>2. IsFiniteSet(Clients \X (1..MaxRequests))
  <2>1. IsFiniteSet(1..MaxRequests)
    BY <1>1, FS_Interval
  <2> QED
    BY <2>1, FS_Product, RequestsAssumption
<1>3. IsFiniteSet(Numbered) /\ Cardinality(Numbered) \in Nat
  BY <1>2, FS_Subset, FS_CardinalityType DEF Numbered
<1>4. own \subseteq Numbered
  BY <1>1 DEF Numbered
<1>5. Cardinality(own) = rid[c]
  <2>1. IsFiniteSet({c}) /\ Cardinality({c}) = 1
    BY FS_Singleton
  <2>2. IsFiniteSet(1..rid[c]) /\ Cardinality(1..rid[c]) = IF 1 > rid[c] THEN 0 ELSE rid[c] - 1 + 1
    BY <1>1, FS_Interval
  <2>3. Cardinality({c} \X (1..rid[c])) = 1 * Cardinality(1..rid[c])
    BY <2>1, <2>2, FS_Product
  <2> QED
    BY <1>1, <2>2, <2>3
<1>6. Cardinality(own) <= Cardinality(Numbered)
  BY <1>3, <1>4, FS_Subset
<1> QED
  BY <1>1, <1>3, <1>5, <1>6 DEF NumbersLeft

\* A call numbers its request within the bound, and takes no guard yet.
LEMMA RequestKeepsTypes ==
  ASSUME Inv, TypeInv, NEW g \in Goroutines, NEW c \in Clients, NEW j \in Jobs, RequestIn(g, c, j),
         asked' \subseteq Txns
  PROVE  TypeInv'
<1> DEFINE new == [j EXCEPT !.on = c, !.id = <<Prefix(c), rid[c] + 1>>]
<1>1. /\ rid' = [rid EXCEPT ![c] = @ + 1] /\ pc[g] = "idle"
      /\ pc' = [pc EXCEPT ![g] = "store"] /\ job' = [job EXCEPT ![g] = new]
      /\ UNCHANGED <<last, busy, dead, running, stopped>>
  <2>1. rid' = [rid EXCEPT ![c] = @ + 1] /\ rid'[c] = rid[c] + 1
    BY DEF RequestIn, Inv, Types
  <2> QED
    BY <2>1 DEF RequestIn, Start, Go, server
<1>2. rid[c] + 1 \in 1..MaxRequests
  BY NumberInBound DEF RequestIn, TypeInv
<1>3. new \in Jobs /\ new.on = c
  <2>1. <<Prefix(c), rid[c] + 1>> \in Ids
    BY <1>2 DEF Ids
  <2> QED
    BY <2>1 DEF Jobs
<1> HIDE DEF new
<1>4. DataTypes'
  BY <1>1, <1>2, <1>3, RequestsAssumption DEF TypeInv, DataTypes, Inv, Types, Ids
<1>5. Waiting' = Waiting /\ \A h \in Waiting : job'[h] = job[h]
  BY <1>1 DEF Waiting, Inv, Types
<1>6. GuardIsTaken'
  BY <1>1, <1>5 DEF TypeInv, GuardIsTaken
<1>7. OneWaits'
  <2>1. \A h \in Goroutines : h # g => pc'[h] = pc[h] /\ job'[h] = job[h]
    BY <1>1 DEF Inv, Types
  <2>2. job'[g].on = c /\ c # None
    BY <1>1, <1>3, RequestsAssumption DEF Inv, Types
  <2> QED
    BY <1>5, <2>1, <2>2 DEF TypeInv, OneWaits
<1> QED
  BY <1>4, <1>6, <1>7 DEF TypeInv

\* A call that returns leaves the guards of the others as they are.
LEMMA ReturnKeepsWaiting ==
  ASSUME Inv, TypeInv, NEW g \in Goroutines, Return(g), UNCHANGED <<rid, last, server, asked, stopped>>,
         dead' \subseteq Clients \cup {Second},
         IF pc[g] = "wait" THEN busy' = busy \ {job[g].on} ELSE busy' = busy
  PROVE  TypeInv'
<1>1. /\ pc' = [pc EXCEPT ![g] = "idle"] /\ job' = [job EXCEPT ![g] = NoJob]
      /\ UNCHANGED <<rid, last, running, asked, stopped>>
  BY DEF Return, Go, server
<1>2. NoJob \in Jobs
  BY DEF NoJob, Jobs, Kinds, Names
<1>3. DataTypes'
  BY <1>1, <1>2 DEF TypeInv, DataTypes, Inv, Types, Ids
<1>4. Waiting' = Waiting \ {g} /\ \A h \in Goroutines : h # g => job'[h] = job[h] /\ pc'[h] = pc[h]
  BY <1>1 DEF Waiting, Inv, Types
<1>5. pc'[g] = "idle"
  BY <1>1 DEF Inv, Types
<1>6. OneWaits'
  BY <1>4, <1>5 DEF TypeInv, OneWaits, Waiting
<1>7. GuardIsTaken'
  <2>1. CASE pc[g] = "wait"
    <3>1. g \in Waiting /\ \A h \in Waiting : h # g => job[h].on # job[g].on
      BY <2>1 DEF Waiting, TypeInv, OneWaits
    <3>2. \A h \in Waiting' : h \in Waiting /\ h # g /\ job'[h] = job[h]
      BY <1>4 DEF Waiting
    <3>3. \A x : x \in busy' <=> \E h \in Waiting' : x = job'[h].on
      BY <1>4, <2>1, <3>1, <3>2 DEF TypeInv, GuardIsTaken
    <3>4. busy' = {job'[h].on : h \in Waiting'}
      BY <2>1, <3>3 DEF TypeInv, GuardIsTaken
    <3> QED
      BY <3>4 DEF GuardIsTaken
  <2>2. CASE pc[g] # "wait"
    <3>1. Waiting' = Waiting /\ \A h \in Waiting : job'[h] = job[h]
      BY <1>4, <2>2 DEF Waiting
    <3> QED
      BY <2>2, <3>1 DEF TypeInv, GuardIsTaken
  <2> QED
    BY <2>1, <2>2
<1> QED
  BY <1>3, <1>6, <1>7 DEF TypeInv

\* A step that touches neither calls nor guards.
LEMMA CallsUntouched ==
  ASSUME TypeInv, UNCHANGED <<pc, job, busy>>, DataTypes'
  PROVE  TypeInv'
BY DEF TypeInv, GuardIsTaken, OneWaits, Waiting

\* Every step keeps the types, and one waiting goroutine for each guard taken.
LEMMA TypeStep ==
  ASSUME Inv, TypeInv, [Next]_vars
  PROVE  TypeInv'
<1>1. ASSUME NEW c \in Clients, NEW t \in Names, SetRequestTxn(c, t) PROVE TypeInv'
  BY <1>1, CallsUntouched DEF SetRequestTxn, server, TypeInv, DataTypes
<1>2. ASSUME NEW g \in Goroutines, NEW c \in Clients, Write(g, c) PROVE TypeInv'
  <2>1. [NoJob EXCEPT !.carries = named[c], !.meant = intent[c]] \in Jobs
    BY DEF NoJob, Jobs, Kinds, Names, Inv, Types
  <2> QED
    BY <1>2, <2>1, RequestKeepsTypes DEF Write, TypeInv, DataTypes
<1>3. ASSUME NEW g \in Goroutines, NEW c \in Clients, Begin(g, c) PROVE TypeInv'
  <2>1. [NoJob EXCEPT !.kind = "begin"] \in Jobs
    BY DEF NoJob, Jobs, Kinds, Names
  <2> QED
    BY <1>3, <2>1, RequestKeepsTypes DEF Begin, TypeInv, DataTypes
<1>4. ASSUME NEW g \in Goroutines, NEW c \in Clients, NEW kind \in {"commit", "rollback"}, NEW t \in Txns,
             End(g, c, kind, t)
      PROVE  TypeInv'
  <2>1. [NoJob EXCEPT !.kind = kind, !.txn = t, !.carries = t, !.meant = t] \in Jobs
    BY DEF NoJob, Jobs, Kinds, Names
  <2>2. asked' \subseteq Txns
    BY <1>4 DEF End, TypeInv, DataTypes
  <2> QED
    BY <1>4, <2>1, <2>2, RequestKeepsTypes DEF End
<1>5. ASSUME NEW g \in Goroutines, NEW c \in Clients, Cancel(g, c) PROVE TypeInv'
  <2> DEFINE j == [NoJob EXCEPT !.on = Second, !.kind = "cancel", !.id = last[c], !.target = c]
  <2>1. j \in Jobs /\ j.on = Second /\ Second # None
    BY RequestsAssumption DEF NoJob, Jobs, Kinds, Names, TypeInv, DataTypes
  <2>2. /\ pc[g] = "idle" /\ pc' = [pc EXCEPT ![g] = "exchange"] /\ job' = [job EXCEPT ![g] = j]
        /\ UNCHANGED <<client, server, history>>
    BY <1>5 DEF Cancel, Start, Go
  <2> HIDE DEF j
  <2>3. DataTypes'
    BY <2>1, <2>2 DEF TypeInv, DataTypes, Inv, Types, client, server, history
  <2>4. Waiting' = Waiting /\ \A h \in Goroutines : h # g => job'[h] = job[h] /\ pc'[h] = pc[h]
    BY <2>2 DEF Waiting, Inv, Types
  <2>5. job'[g].on # None /\ g \notin Waiting
    BY <2>1, <2>2 DEF Inv, Types, Waiting
  <2>6. \A h \in Waiting : job'[h] = job[h]
    BY <2>4, <2>5 DEF Waiting
  <2>7. OneWaits' /\ GuardIsTaken'
    BY <2>2, <2>4, <2>5, <2>6 DEF TypeInv, OneWaits, GuardIsTaken, client
  <2> QED
    BY <2>3, <2>7 DEF TypeInv
<1>6. ASSUME NEW g \in Goroutines, Store(g) PROVE TypeInv'
  <2>1. /\ last' = [last EXCEPT ![job[g].on] = job[g].id] /\ pc[g] = "store"
        /\ pc' = [pc EXCEPT ![g] = "exchange"]
        /\ UNCHANGED <<rid, busy, dead, job, running, asked, stopped>>
    BY <1>6 DEF Store, Go, server, history
  <2>2. job[g].id \in Ids \cup {None}
    BY DEF TypeInv, DataTypes, Jobs
  <2>3. last' \in [Clients -> Ids \cup {None}]
    BY <2>1, <2>2 DEF TypeInv, DataTypes
  <2>4. DataTypes'
    BY <2>1, <2>3 DEF TypeInv, DataTypes
  <2>5. Waiting' = Waiting /\ \A h \in Goroutines : pc'[h] # "idle" => pc[h] # "idle"
    BY <2>1 DEF Waiting, Inv, Types
  <2> QED
    BY <2>1, <2>4, <2>5 DEF TypeInv, OneWaits, GuardIsTaken
<1>7. ASSUME NEW g \in Goroutines, Send(g) PROVE TypeInv'
  <2>1. /\ pc[g] = "exchange" /\ job[g].on \notin busy /\ busy' = busy \cup {job[g].on}
        /\ pc' = [pc EXCEPT ![g] = "wait"] /\ running' = running \cup {job[g]}
        /\ UNCHANGED <<rid, last, dead, job, asked, stopped>>
    BY <1>7 DEF Send, Go, history
  <2>2. DataTypes'
    BY <2>1 DEF TypeInv, DataTypes, Ids
  <2>3. Waiting' = Waiting \cup {g} /\ \A h \in Goroutines : pc'[h] # "idle" => pc[h] # "idle"
    BY <2>1 DEF Waiting, Inv, Types
  <2>4. \A h \in Waiting : job[h].on # job[g].on
    BY <2>1 DEF TypeInv, GuardIsTaken
  <2>5. OneWaits'
    BY <2>1, <2>3, <2>4 DEF TypeInv, OneWaits
  <2>6. GuardIsTaken'
    BY <2>1, <2>3 DEF TypeInv, GuardIsTaken
  <2> QED
    BY <2>2, <2>5, <2>6 DEF TypeInv
<1>8. ASSUME NEW g \in Goroutines, RefuseHere(g) PROVE TypeInv'
  BY <1>8, ReturnKeepsWaiting DEF RefuseHere, TypeInv, DataTypes
<1>9. ASSUME NEW g \in Goroutines, Receive(g) PROVE TypeInv'
  BY <1>9, ReturnKeepsWaiting DEF Receive, TypeInv, DataTypes
<1>10. ASSUME NEW g \in Goroutines, Lose(g) PROVE TypeInv'
  <2>1. job[g].on \in Clients \cup {Second}
    BY <1>10 DEF Lose, TypeInv, DataTypes, OneWaits, Jobs
  <2> QED
    BY <1>10, <2>1, ReturnKeepsWaiting DEF Lose, TypeInv, DataTypes
<1>11. ASSUME NEW j \in running, Refuses(j) \/ Begins(j) \/ Writes(j) \/ Commits(j) \/ RollsBack(j)
       PROVE  TypeInv'
  <2>1. UNCHANGED <<client, pc, job, history>> /\ running' \subseteq running
    BY <1>11 DEF Refuses, Begins, Writes, Commits, RollsBack, Ends
  <2> QED
    BY <2>1, CallsUntouched DEF client, history, TypeInv, DataTypes
<1>12. ASSUME NEW j \in running, Stops(j) PROVE TypeInv'
  <2>1. /\ UNCHANGED <<rid, last, busy, dead, pc, job, asked>> /\ running' \subseteq running
    BY <1>12 DEF Stops, client
  <2>2. j.target \in Clients
    BY <1>12 DEF Stops, Inv, IdsAreOwn, OwnId
  <2>3. \A s \in running : s.kind # "cancel" => s.on \in Clients
    BY DEF Inv, IdsAreOwn, OwnId
  <2>4. stopped' \subseteq Clients \X (Clients \cup {Second})
    BY <1>12, <2>2, <2>3 DEF Stops, TypeInv, DataTypes
  <2> QED
    BY <2>1, <2>4, CallsUntouched DEF TypeInv, DataTypes
<1>13. CASE UNCHANGED vars
  BY <1>13, CallsUntouched DEF vars, client, server, history, TypeInv, DataTypes
<1> QED
  BY <1>1, <1>2, <1>3, <1>4, <1>5, <1>6, <1>7, <1>8, <1>9, <1>10, <1>11, <1>12, <1>13
  DEF Next, Program, Driver, Server

\* Every variable keeps its type: ids stay within their numbers, and a guard is
\* taken exactly while one goroutine waits for the answer on that client.
THEOREM TypeCorrect == Spec => []TypeOK
<1>1. Init => TypeInv
  <2> SUFFICES ASSUME Init PROVE TypeInv
    OBVIOUS
  <2>1. NoJob \in Jobs
    BY DEF NoJob, Jobs, Kinds, Names
  <2>2. DataTypes
    BY <2>1, RequestsAssumption DEF Init, DataTypes
  <2>3. Waiting = {} /\ \A g \in Goroutines : pc[g] = "idle"
    BY DEF Init, Waiting
  <2> QED
    BY <2>2, <2>3 DEF Init, TypeInv, GuardIsTaken, OneWaits
<1>2. Inv /\ TypeInv => TypeOK
  BY DEF Inv, Types, TypeInv, DataTypes, GuardIsTaken, Waiting, TypeOK
<1> QED
  BY <1>1, <1>2, TypeStep, InvHolds, PTL DEF Spec
=============================================================================
