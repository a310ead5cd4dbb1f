----------------------------- MODULE PoolProofs -----------------------------
(***************************************************************************)
(* Proofs about Pool, for every number of callers, connections and slots   *)
(* and every habit of the callbacks, unless a theorem says otherwise.      *)
(***************************************************************************)
EXTENDS PoolLease, TLAPS, FiniteSetTheorems

\* What an answer that cannot be decoded does to the connection of its caller.
LEMMA MisreadSteps ==
  ASSUME TypeOK, NEW k \in Callers, BeginMisread(k) \/ EndMisread(k)
  PROVE  /\ UNCHANGED <<pool, pc, held, broken, tries, sock>>
         /\ pc[k] = "callback" /\ sock[held[k]] = "open" /\ held[k] \in Conns
         /\ misread' = misread \cup {held[k]}
         /\ \E left \in Nat : blocks' = [blocks EXCEPT ![held[k]] = left]
         /\ \E open \in BOOLEAN : txnOpen' = [txnOpen EXCEPT ![held[k]] = open]
<1>1. Running(k, "open") /\ held[k] \in Conns
  BY DEF BeginMisread, EndMisread, Running, TypeOK
<1>2. blocks[held[k]] \in Nat /\ txnOpen[held[k]] \in BOOLEAN
  BY <1>1 DEF TypeOK
<1>3. /\ UNCHANGED <<pool, pc, held, broken, tries, sock>>
      /\ misread' = misread \cup {held[k]}
  BY DEF BeginMisread, EndMisread, Misread
<1>4. \E left \in Nat : blocks' = [blocks EXCEPT ![held[k]] = left]
  <2>1. CASE BeginMisread(k)
    <3>1. PICK left \in {blocks[held[k]], blocks[held[k]] + 1} :
            blocks' = [blocks EXCEPT ![held[k]] = left]
      BY <2>1 DEF BeginMisread, Misread
    <3>2. left \in Nat
      BY <1>2
    <3> QED
      BY <3>1, <3>2
  <2>2. CASE EndMisread(k)
    <3>1. \E left \in Left(blocks[held[k]]) : blocks' = [blocks EXCEPT ![held[k]] = left]
      BY <2>2 DEF EndMisread, Misread
    <3> QED
      BY <3>1 DEF Left
  <2> QED
    BY <2>1, <2>2
<1>5. \E open \in BOOLEAN : txnOpen' = [txnOpen EXCEPT ![held[k]] = open]
  BY <1>2 DEF BeginMisread, EndMisread, Misread
<1> QED
  BY <1>1, <1>3, <1>4, <1>5 DEF Running

\* The server holds left blocks for k's connection, and more than none only where
\* the answer could not be decoded.
LeavesBlocks(k, left) ==
  /\ blocks' = [blocks EXCEPT ![held[k]] = left]
  /\ left # 0 => sock' = sock /\ sock[held[k]] = "open" /\ held[k] \in misread'

\* What abandonBlock's failure does to the connection of its caller.
LEMMA AbandonFailsSteps ==
  ASSUME TypeOK, NEW k \in Callers, AbandonFails(k)
  PROVE  /\ Go(k, "abandon", "put") /\ held[k] \in Conns /\ sock[held[k]] # "dropped"
         /\ UNCHANGED <<pool, held>>
         /\ broken' = [broken EXCEPT ![k] = TRUE]
         /\ tries' = [tries EXCEPT ![k] = 0]
         /\ txnOpen' = [txnOpen EXCEPT ![held[k]] = FALSE]
         /\ \E left \in Nat : LeavesBlocks(k, left)
         /\ misread' \in {misread, misread \cup {held[k]}}
         /\ sock' \in {sock, [sock EXCEPT ![held[k]] = "dropped"]}
<1>1. Go(k, "abandon", "put") /\ held[k] \in Conns /\ sock[held[k]] # "dropped"
  BY DEF AbandonFails, Go, TypeOK, InTransaction, Poisoned
<1>2. \A left \in Left(blocks[held[k]]) : left \in Nat
  BY DEF Left
<1>3. /\ UNCHANGED <<pool, held>>
      /\ broken' = [broken EXCEPT ![k] = TRUE]
      /\ tries' = [tries EXCEPT ![k] = 0]
      /\ txnOpen' = [txnOpen EXCEPT ![held[k]] = FALSE]
  BY DEF AbandonFails, EndAll
<1>4. misread' \in {misread, misread \cup {held[k]}}
  BY DEF AbandonFails
<1>5. sock' \in {sock, [sock EXCEPT ![held[k]] = "dropped"]}
  BY DEF AbandonFails
<1>6. \/ blocks' = [blocks EXCEPT ![held[k]] = 0]
      \/ /\ \E left \in Left(blocks[held[k]]) : blocks' = [blocks EXCEPT ![held[k]] = left]
         /\ sock' = sock /\ sock[held[k]] = "open"
         /\ misread' = misread \cup {held[k]}
  BY DEF AbandonFails, EndAll
<1>7. \E left \in Nat : LeavesBlocks(k, left)
  <2>1. CASE blocks' = [blocks EXCEPT ![held[k]] = 0]
    <3>1. LeavesBlocks(k, 0)
      BY <2>1 DEF LeavesBlocks
    <3> QED
      BY <3>1
  <2>2. CASE blocks' # [blocks EXCEPT ![held[k]] = 0]
    <3>1. PICK left \in Left(blocks[held[k]]) : blocks' = [blocks EXCEPT ![held[k]] = left]
      BY <1>6, <2>2
    <3>2. sock' = sock /\ sock[held[k]] = "open" /\ held[k] \in misread'
      BY <1>6, <2>2
    <3>3. LeavesBlocks(k, left)
      BY <3>1, <3>2 DEF LeavesBlocks
    <3> QED
      BY <1>2, <3>3
  <2> QED
    BY <2>1, <2>2
<1> QED
  BY <1>1, <1>3, <1>4, <1>5, <1>7

\* Every variable of the pool keeps its type: in particular the token channel
\* never holds more than its capacity, so giving a slot back never blocks.
THEOREM TypeCorrect == Spec => []TypeOK
<1> USE PoolAssumption DEF TypeOK, Places, Sockets
<1>1. Init => TypeOK
  <2> SUFFICES ASSUME Init PROVE TypeOK
    OBVIOUS
  <2>1. idle \in Seq(Conns) /\ tokens \in 0..Size
    BY DEF Init
  <2>2. tries \in [Callers -> 0..MaxOpenBlocks]
    BY DEF Init
  <2> QED
    BY <2>1, <2>2 DEF Init
<1>2. TypeOK /\ [Next]_vars => TypeOK'
  <2> SUFFICES ASSUME TypeOK, [Next]_vars PROVE TypeOK'
    OBVIOUS
  <2>1. ASSUME NEW k \in Callers, Call(k) PROVE TypeOK'
    BY <2>1 DEF Call, Go, pool, client
  <2>2. ASSUME NEW k \in Callers, GiveUp(k) PROVE TypeOK'
    BY <2>2 DEF GiveUp, Go, pool, client
  <2>3. ASSUME NEW k \in Callers, TakeToken(k) PROVE TypeOK'
    BY <2>3 DEF TakeToken, Go, client
  <2>4. ASSUME NEW k \in Callers, CheckOutRefused(k) PROVE TypeOK'
    BY <2>4 DEF CheckOutRefused, Go, pool, client
  <2>5. ASSUME NEW k \in Callers, CheckOutIdle(k) PROVE TypeOK'
    BY <2>5 DEF CheckOutIdle, Go, client
  <2>6. ASSUME NEW k \in Callers, CheckOutDial(k) PROVE TypeOK'
    BY <2>6 DEF CheckOutDial, Go, pool, client
  <2>7. ASSUME NEW k \in Callers, DialOk(k) PROVE TypeOK'
    BY <2>7 DEF DialOk, Go, pool
  <2>8. ASSUME NEW k \in Callers, DialFail(k) PROVE TypeOK'
    BY <2>8 DEF DialFail, Go, pool, client
  <2>9. ASSUME NEW k \in Callers, Begin(k) PROVE TypeOK'
    BY <2>9 DEF Begin, pool, Running
  <2>10. ASSUME NEW k \in Callers, EndBlock(k) PROVE TypeOK'
    BY <2>10 DEF EndBlock, pool, Running, EndInnermost
  <2>11. ASSUME NEW k \in Callers, EndRefused(k) PROVE TypeOK'
    BY <2>11 DEF EndRefused, pool, Running, EndAll
  <2>12. ASSUME NEW k \in Callers, Fault(k) PROVE TypeOK'
    BY <2>12 DEF Fault, pool, Running
  <2>13. ASSUME NEW k \in Callers, BeginMisread(k) \/ EndMisread(k) PROVE TypeOK'
    <3>1. /\ UNCHANGED <<pool, pc, held, broken, tries, sock>>
          /\ held[k] \in Conns
          /\ misread' = misread \cup {held[k]}
      BY <2>13, MisreadSteps
    <3>2. PICK left \in Nat : blocks' = [blocks EXCEPT ![held[k]] = left]
      BY <2>13, MisreadSteps
    <3>3. PICK open \in BOOLEAN : txnOpen' = [txnOpen EXCEPT ![held[k]] = open]
      BY <2>13, MisreadSteps
    <3> QED
      BY <3>1, <3>2, <3>3 DEF pool
  <2>14. ASSUME NEW k \in Callers, NEW change \in {-1, 1}, RawControl(k, change) PROVE TypeOK'
    BY <2>14 DEF RawControl, pool, Running
  <2>15. ASSUME NEW k \in Callers, NEW sentinel \in BOOLEAN, ReturnError(k, sentinel) PROVE TypeOK'
    BY <2>15 DEF ReturnError, Go, pool, client, Poisoned, InTransaction
  <2>16. ASSUME NEW k \in Callers, ReturnNil(k) PROVE TypeOK'
    BY <2>16 DEF ReturnNil, Go, pool, client, Poisoned, InTransaction, Quiet
  <2>17. ASSUME NEW k \in Callers, Panic(k) PROVE TypeOK'
    BY <2>17 DEF Panic, Go, pool, client
  <2>18. ASSUME NEW k \in Callers, Goexit(k) PROVE TypeOK'
    BY <2>18 DEF Goexit, Go, pool, client, Poisoned, Quiet
  <2>19. ASSUME NEW k \in Callers, AbandonStep(k) PROVE TypeOK'
    BY <2>19 DEF AbandonStep, pool, EndInnermost, Poisoned, InTransaction
  <2>20. ASSUME NEW k \in Callers, AbandonFails(k) PROVE TypeOK'
    <3>1. /\ Go(k, "abandon", "put") /\ held[k] \in Conns
          /\ UNCHANGED <<pool, held>>
          /\ broken' = [broken EXCEPT ![k] = TRUE]
          /\ tries' = [tries EXCEPT ![k] = 0]
          /\ txnOpen' = [txnOpen EXCEPT ![held[k]] = FALSE]
          /\ misread' \in {misread, misread \cup {held[k]}}
          /\ sock' \in {sock, [sock EXCEPT ![held[k]] = "dropped"]}
      BY <2>20, AbandonFailsSteps
    <3>2. PICK left \in Nat : blocks' = [blocks EXCEPT ![held[k]] = left]
      BY <2>20, AbandonFailsSteps DEF LeavesBlocks
    <3> QED
      BY <3>1, <3>2 DEF pool, Go
  <2>21. ASSUME NEW k \in Callers, AbandonDone(k) PROVE TypeOK'
    BY <2>21 DEF AbandonDone, Go, pool, client, Poisoned, InTransaction
  <2>22. ASSUME NEW k \in Callers, PutIdle(k) PROVE TypeOK'
    BY <2>22 DEF PutIdle, Go, client, Poisoned, InTransaction
  <2>23. ASSUME NEW k \in Callers, PutRetire(k) PROVE TypeOK'
    BY <2>23 DEF PutRetire, Go, pool, client, Poisoned, InTransaction
  <2>24. ASSUME NEW k \in Callers, Retire(k) PROVE TypeOK'
    BY <2>24 DEF Retire, Go, pool, Discard
  <2>25. ASSUME NEW k \in Callers, Release(k) PROVE TypeOK'
    BY <2>25 DEF Release, Go, client
  <2>26. ASSUME Close PROVE TypeOK'
    <3>1. idle' \in Seq(Conns) /\ closing' \in SUBSET Conns
      BY <2>26 DEF Close, Range
    <3> QED
      BY <2>26, <3>1 DEF Close, client
  <2>27. ASSUME NEW c \in Conns, Sever(c) PROVE TypeOK'
    BY <2>27 DEF Sever, pool
  <2>28. ASSUME NEW c \in Conns, CloseIdle(c) PROVE TypeOK'
    BY <2>28 DEF CloseIdle, Discard
  <2>29. ASSUME UNCHANGED vars PROVE TypeOK'
    BY <2>29 DEF vars
  <2> HIDE DEF TypeOK, Places, Sockets
  <2> QED
    BY <2>1, <2>2, <2>3, <2>4, <2>5, <2>6, <2>7, <2>8, <2>9, <2>10, <2>11,
       <2>12, <2>13, <2>14, <2>15, <2>16, <2>17, <2>18, <2>19, <2>20, <2>21,
       <2>22, <2>23, <2>24, <2>25, <2>26, <2>27, <2>28, <2>29 DEF Next, Step,
       CheckOut, Dial, CallbackStep, Return, Abandon, Put
<1>3. QED
  BY <1>1, <1>2, PTL DEF Spec

-----------------------------------------------------------------------------
\* Only Pool.Close puts connections in line to be closed.
ClosingMeansClosed == ~closed => closing = {}

OwnershipInv == OneOwner /\ ClosedPoolIsEmpty /\ ClosingMeansClosed

\* Taking the last idle connection moves it from idle to one caller.
LEMMA CheckOutIdleOwns ==
  ASSUME TypeOK, OwnershipInv, NEW k \in Callers, CheckOutIdle(k)
  PROVE  OwnershipInv'
<1> DEFINE n == Len(idle)
<1>1. n \in Nat \ {0} /\ idle[n] \in Conns /\ DOMAIN idle = 1..n
  BY DEF CheckOutIdle, TypeOK
<1>2. DOMAIN idle' = 1..n-1 /\ \A i \in 1..n-1 : idle'[i] = idle[i]
  BY <1>1 DEF CheckOutIdle, TypeOK
<1>3. held' = [held EXCEPT ![k] = idle[n]] /\ held[k] = NoConn
  BY DEF CheckOutIdle, Go, TypeOK
<1>4. UNCHANGED <<sock, closing, closed>> /\ ~closed
  BY DEF CheckOutIdle, client
<1>5. HeldOnce /\ IdleOnce /\ PlacesApart /\ NoneLost /\ ClosingMeansClosed
  BY DEF OwnershipInv, OneOwner
<1>6. n \in DOMAIN idle
  BY <1>1
<1> HIDE DEF n
<1>7. \A j \in Callers : held[j] # idle[n]
  BY <1>5, <1>6 DEF PlacesApart
<1>8. idle[n] \notin closing
  BY <1>5, <1>6 DEF PlacesApart
<1>9. \A i \in 1..n-1 : idle[i] # idle[n]
  BY <1>1, <1>5 DEF IdleOnce
<1>10. HeldOnce'
  BY <1>3, <1>5, <1>7, held \in [Callers -> Conns \cup {NoConn}] DEF HeldOnce, TypeOK
<1>11. IdleOnce'
  BY <1>1, <1>2, <1>5 DEF IdleOnce
<1>12. PlacesApart'
  <2>1. \A i \in DOMAIN idle' : i \in DOMAIN idle /\ idle'[i] = idle[i]
    BY <1>1, <1>2
  <2>2. \A i \in DOMAIN idle' : idle'[i] # idle[n]
    BY <1>2, <1>9
  <2>3. \A j \in Callers : held'[j] = held[j] \/ held'[j] = idle[n]
    BY <1>3 DEF TypeOK
  <2> QED
    BY <1>4, <1>5, <1>8, <2>1, <2>2, <2>3 DEF PlacesApart
<1>13. NoneLost'
  <2>1. \A c \in Conns : (\E i \in DOMAIN idle : idle[i] = c)
                           <=> c = idle[n] \/ \E i \in DOMAIN idle' : idle'[i] = c
    BY <1>1, <1>2
  <2>2. \A c \in Conns : (\E j \in Callers : held'[j] = c)
                           <=> c = idle[n] \/ \E j \in Callers : held[j] = c
    BY <1>1, <1>3, PoolAssumption DEF TypeOK
  <2> QED
    BY <1>4, <1>5, <2>1, <2>2 DEF NoneLost, Placed
<1> QED
  BY <1>4, <1>5, <1>10, <1>11, <1>12, <1>13
  DEF OwnershipInv, OneOwner, ClosedPoolIsEmpty, ClosingMeansClosed

\* Putting a connection back moves it from its caller to the end of idle.
LEMMA PutIdleOwns ==
  ASSUME TypeOK, OwnershipInv, NEW k \in Callers, PutIdle(k)
  PROVE  OwnershipInv'
<1> DEFINE n == Len(idle) + 1
<1>1. held[k] \in Conns /\ n \in Nat \ {0} /\ DOMAIN idle = 1..n-1
  BY DEF PutIdle, Go, TypeOK
<1>2. /\ DOMAIN idle' = 1..n
      /\ idle'[n] = held[k]
      /\ \A i \in 1..n-1 : idle'[i] = idle[i]
  BY <1>1 DEF PutIdle, TypeOK
<1>3. held' = [held EXCEPT ![k] = NoConn]
  BY DEF PutIdle
<1>4. UNCHANGED <<sock, closing, closed>> /\ ~closed
  BY DEF PutIdle, client
<1>5. HeldOnce /\ IdleOnce /\ PlacesApart /\ NoneLost /\ ClosingMeansClosed
  BY DEF OwnershipInv, OneOwner
<1> HIDE DEF n
<1>6. held[k] \notin closing /\ \A i \in 1..n-1 : idle[i] # held[k]
  BY <1>1, <1>5 DEF PlacesApart
<1>7. \A j \in Callers : j # k => held[j] # held[k]
  BY <1>1, <1>5, PoolAssumption DEF HeldOnce
<1>8. HeldOnce'
  BY <1>3, <1>5 DEF HeldOnce, TypeOK
<1>9. IdleOnce'
  BY <1>1, <1>2, <1>5, <1>6 DEF IdleOnce
<1>10. PlacesApart'
  <2>1. \A i \in DOMAIN idle' : idle'[i] \in Conns
    BY <1>1, <1>2 DEF TypeOK
  <2>2. \A i \in DOMAIN idle' : idle'[i] \notin closing'
    BY <1>1, <1>2, <1>4, <1>5, <1>6 DEF PlacesApart
  <2>3. \A j \in Callers : held'[j] \notin closing'
    BY <1>3, <1>4, <1>5, PoolAssumption DEF PlacesApart, TypeOK
  <2>4. \A i \in DOMAIN idle', j \in Callers : idle'[i] # held'[j]
    <3>1. \A j \in Callers : held'[j] = IF j = k THEN NoConn ELSE held[j]
      BY <1>3 DEF TypeOK
    <3>2. \A i \in DOMAIN idle', j \in Callers : j # k => idle'[i] # held[j]
      BY <1>1, <1>2, <1>5, <1>7 DEF PlacesApart
    <3> QED
      BY <2>1, <3>1, <3>2, PoolAssumption
  <2> QED
    BY <2>2, <2>3, <2>4 DEF PlacesApart
<1>11. NoneLost'
  <2>1. \A c \in Conns : (\E i \in DOMAIN idle' : idle'[i] = c)
                           <=> c = held[k] \/ \E i \in DOMAIN idle : idle[i] = c
    BY <1>1, <1>2
  <2>2. \A c \in Conns : (\E j \in Callers : held[j] = c)
                           <=> c = held[k] \/ \E j \in Callers : held'[j] = c
    BY <1>1, <1>3, PoolAssumption DEF TypeOK
  <2> QED
    BY <1>4, <1>5, <2>1, <2>2 DEF NoneLost, Placed
<1> QED
  BY <1>4, <1>5, <1>8, <1>9, <1>10, <1>11
  DEF OwnershipInv, OneOwner, ClosedPoolIsEmpty, ClosingMeansClosed

\* Pool.Close moves all of idle into the line of connections to be closed.
LEMMA CloseOwns ==
  ASSUME TypeOK, OwnershipInv, Close
  PROVE  OwnershipInv'
<1>1. DOMAIN idle' = {} /\ closed' /\ idle' = <<>>
  BY DEF Close
<1>2. \A c : c \in closing' <=> c \in closing \/ \E i \in DOMAIN idle : idle[i] = c
  BY DEF Close, Range
<1>3. UNCHANGED <<sock, held>>
  BY DEF Close, client
<1>4. HeldOnce /\ IdleOnce /\ PlacesApart /\ NoneLost
  BY DEF OwnershipInv, OneOwner
<1>5. HeldOnce' /\ IdleOnce'
  BY <1>1, <1>3, <1>4 DEF HeldOnce, IdleOnce
<1>6. PlacesApart'
  BY <1>1, <1>2, <1>3, <1>4 DEF PlacesApart
<1>7. NoneLost'
  <2> SUFFICES ASSUME NEW c \in Conns PROVE Placed(c)' <=> Placed(c)
    BY <1>3, <1>4 DEF NoneLost
  <2>1. c \in closing' <=> c \in closing \/ \E i \in DOMAIN idle : idle[i] = c
    BY <1>2
  <2>2. ~ \E i \in DOMAIN idle' : idle'[i] = c
    BY <1>1
  <2> QED
    BY <1>3, <2>1, <2>2 DEF Placed
<1> QED
  BY <1>1, <1>5, <1>6, <1>7 DEF OwnershipInv, OneOwner, ClosedPoolIsEmpty, ClosingMeansClosed

\* A step that moves no connection.
LEMMA NothingMoves ==
  ASSUME OwnershipInv, UNCHANGED <<idle, closed, closing, held>>,
         \A c \in Conns : sock'[c] = "none" <=> sock[c] = "none"
  PROVE  OwnershipInv'
BY DEF OwnershipInv, OneOwner, HeldOnce, IdleOnce, PlacesApart, NoneLost, Placed,
       ClosedPoolIsEmpty, ClosingMeansClosed

\* A dial gives a connection in no place to the caller that dialled it.
LEMMA DialOkOwns ==
  ASSUME TypeOK, OwnershipInv, NEW k \in Callers, DialOk(k)
  PROVE  OwnershipInv'
<1>1. PICK c \in Conns : /\ sock[c] = "none"
                         /\ sock' = [sock EXCEPT ![c] = "open"]
                         /\ held' = [held EXCEPT ![k] = c]
  BY DEF DialOk
<1>2. held[k] = NoConn /\ UNCHANGED <<idle, closed, closing>>
  BY DEF DialOk, Go, TypeOK, pool
<1>3. HeldOnce /\ IdleOnce /\ PlacesApart /\ NoneLost
  BY DEF OwnershipInv, OneOwner
<1>4. ~Placed(c)
  BY <1>1, <1>3 DEF NoneLost
<1>5. \A j \in Callers : held'[j] = IF j = k THEN c ELSE held[j]
  BY <1>1 DEF TypeOK
<1>6. HeldOnce' /\ IdleOnce' /\ PlacesApart'
  BY <1>2, <1>3, <1>4, <1>5 DEF HeldOnce, IdleOnce, PlacesApart, Placed
<1>7. NoneLost'
  <2> SUFFICES ASSUME NEW d \in Conns PROVE Placed(d)' <=> d = c \/ Placed(d)
    BY <1>1, <1>3 DEF NoneLost, TypeOK
  <2> QED
    BY <1>2, <1>5, PoolAssumption DEF Placed
<1> QED
  BY <1>2, <1>6, <1>7 DEF OwnershipInv, OneOwner, ClosedPoolIsEmpty, ClosingMeansClosed

\* A retired connection is nowhere: its caller held it, so idle does not.
LEMMA RetireOwns ==
  ASSUME TypeOK, OwnershipInv, NEW k \in Callers, Retire(k)
  PROVE  OwnershipInv'
<1>1. held[k] \in Conns /\ UNCHANGED <<idle, closed, closing>>
  BY DEF Retire, Go, TypeOK, pool
<1>2. HeldOnce /\ IdleOnce /\ PlacesApart /\ NoneLost
  BY DEF OwnershipInv, OneOwner
<1>3. \A j \in Callers : held'[j] = IF j = k THEN NoConn ELSE held[j]
  BY DEF Retire, TypeOK
<1>4. \A c \in Conns : sock'[c] = IF c = held[k] THEN "none" ELSE sock[c]
  BY <1>1 DEF Retire, Discard, TypeOK
<1>5. HeldOnce' /\ IdleOnce'
  BY <1>1, <1>2, <1>3 DEF HeldOnce, IdleOnce
<1>6. PlacesApart'
  <2>1. \A i \in DOMAIN idle : idle[i] # NoConn
    BY PoolAssumption DEF TypeOK
  <2>2. NoConn \notin closing
    BY PoolAssumption DEF TypeOK
  <2> QED
    BY <1>1, <1>2, <1>3, <2>1, <2>2 DEF PlacesApart
<1>7. NoneLost'
  <2> SUFFICES ASSUME NEW c \in Conns PROVE Placed(c)' <=> Placed(c) /\ c # held[k]
    BY <1>2, <1>4 DEF NoneLost
  <2>1. CASE c = held[k]
    BY <1>1, <1>2, <1>3, <2>1, PoolAssumption DEF Placed, HeldOnce, PlacesApart
  <2>2. CASE c # held[k]
    BY <1>1, <1>3, <2>2, PoolAssumption DEF Placed
  <2> QED
    BY <2>1, <2>2
<1> QED
  BY <1>1, <1>5, <1>6, <1>7 DEF OwnershipInv, OneOwner, ClosedPoolIsEmpty, ClosingMeansClosed

\* So is one that Pool.Close has closed.
LEMMA CloseIdleOwns ==
  ASSUME TypeOK, OwnershipInv, NEW c \in Conns, CloseIdle(c)
  PROVE  OwnershipInv'
<1>1. UNCHANGED <<idle, closed, held>> /\ c \in closing /\ closing' = closing \ {c}
  BY DEF CloseIdle
<1>2. HeldOnce /\ IdleOnce /\ PlacesApart /\ NoneLost
  BY DEF OwnershipInv, OneOwner
<1>3. \A d \in Conns : sock'[d] = IF d = c THEN "none" ELSE sock[d]
  BY DEF CloseIdle, Discard, TypeOK
<1>4. HeldOnce' /\ IdleOnce' /\ PlacesApart'
  BY <1>1, <1>2 DEF HeldOnce, IdleOnce, PlacesApart
<1>5. NoneLost'
  <2> SUFFICES ASSUME NEW d \in Conns PROVE Placed(d)' <=> Placed(d) /\ d # c
    BY <1>2, <1>3 DEF NoneLost
  <2> QED
    BY <1>1, <1>2 DEF Placed, PlacesApart
<1> QED
  BY <1>1, <1>4, <1>5 DEF OwnershipInv, OneOwner, ClosedPoolIsEmpty, ClosingMeansClosed

\* Every step of the pool keeps each connection in its one place.
LEMMA OwnershipStep == TypeOK /\ OwnershipInv /\ [Next]_vars => OwnershipInv'
<1> SUFFICES ASSUME TypeOK, OwnershipInv, [Next]_vars PROVE OwnershipInv'
  OBVIOUS
<1>1. ASSUME NEW k \in Callers, Call(k) PROVE OwnershipInv'
  BY <1>1, NothingMoves DEF Call, pool, client
<1>2. ASSUME NEW k \in Callers, GiveUp(k) PROVE OwnershipInv'
  BY <1>2, NothingMoves DEF GiveUp, pool, client
<1>3. ASSUME NEW k \in Callers, TakeToken(k) PROVE OwnershipInv'
  BY <1>3, NothingMoves DEF TakeToken, client
<1>4. ASSUME NEW k \in Callers, CheckOutRefused(k) PROVE OwnershipInv'
  BY <1>4, NothingMoves DEF CheckOutRefused, pool, client
<1>5. ASSUME NEW k \in Callers, CheckOutIdle(k) PROVE OwnershipInv'
  BY <1>5, CheckOutIdleOwns
<1>6. ASSUME NEW k \in Callers, CheckOutDial(k) PROVE OwnershipInv'
  BY <1>6, NothingMoves DEF CheckOutDial, pool, client
<1>7. ASSUME NEW k \in Callers, DialOk(k) PROVE OwnershipInv'
  BY <1>7, DialOkOwns
<1>8. ASSUME NEW k \in Callers, DialFail(k) PROVE OwnershipInv'
  BY <1>8, NothingMoves DEF DialFail, pool, client
<1>9. ASSUME NEW k \in Callers, Begin(k) PROVE OwnershipInv'
  BY <1>9, NothingMoves DEF Begin, pool
<1>10. ASSUME NEW k \in Callers, EndBlock(k) PROVE OwnershipInv'
  BY <1>10, NothingMoves DEF EndBlock, pool
<1>11. ASSUME NEW k \in Callers, EndRefused(k) PROVE OwnershipInv'
  BY <1>11, NothingMoves DEF EndRefused, pool
<1>12. ASSUME NEW k \in Callers, Fault(k) PROVE OwnershipInv'
  BY <1>12, NothingMoves DEF Fault, pool, Running, TypeOK
<1>13. ASSUME NEW k \in Callers, BeginMisread(k) \/ EndMisread(k) PROVE OwnershipInv'
  BY <1>13, MisreadSteps, NothingMoves DEF pool
<1>14. ASSUME NEW k \in Callers, NEW change \in {-1, 1}, RawControl(k, change) PROVE OwnershipInv'
  BY <1>14, NothingMoves DEF RawControl, pool
<1>15. ASSUME NEW k \in Callers, NEW sentinel \in BOOLEAN, ReturnError(k, sentinel) PROVE OwnershipInv'
  BY <1>15, NothingMoves DEF ReturnError, pool, client
<1>16. ASSUME NEW k \in Callers, ReturnNil(k) PROVE OwnershipInv'
  BY <1>16, NothingMoves DEF ReturnNil, pool, client
<1>17. ASSUME NEW k \in Callers, Panic(k) PROVE OwnershipInv'
  BY <1>17, NothingMoves DEF Panic, pool, client
<1>18. ASSUME NEW k \in Callers, Goexit(k) PROVE OwnershipInv'
  BY <1>18, NothingMoves DEF Goexit, pool, client
<1>19. ASSUME NEW k \in Callers, AbandonStep(k) PROVE OwnershipInv'
  BY <1>19, NothingMoves DEF AbandonStep, pool
<1>20. ASSUME NEW k \in Callers, AbandonFails(k) PROVE OwnershipInv'
  <2>1. held[k] \in Conns /\ Placed(held[k])
    BY <1>20 DEF AbandonFails, Go, TypeOK, Placed
  <2>2. sock[held[k]] # "none"
    BY <2>1 DEF OwnershipInv, OneOwner, NoneLost
  <2>3. \A c \in Conns : sock'[c] = "none" <=> sock[c] = "none"
    BY <1>20, <2>1, <2>2 DEF AbandonFails, TypeOK
  <2> QED
    BY <1>20, <2>3, NothingMoves DEF AbandonFails, pool
<1>21. ASSUME NEW k \in Callers, AbandonDone(k) PROVE OwnershipInv'
  BY <1>21, NothingMoves DEF AbandonDone, pool, client
<1>22. ASSUME NEW k \in Callers, PutIdle(k) PROVE OwnershipInv'
  BY <1>22, PutIdleOwns
<1>23. ASSUME NEW k \in Callers, PutRetire(k) PROVE OwnershipInv'
  BY <1>23, NothingMoves DEF PutRetire, pool, client
<1>24. ASSUME NEW k \in Callers, Retire(k) PROVE OwnershipInv'
  BY <1>24, RetireOwns
<1>25. ASSUME NEW k \in Callers, Release(k) PROVE OwnershipInv'
  BY <1>25, NothingMoves DEF Release, client
<1>26. ASSUME Close PROVE OwnershipInv'
  BY <1>26, CloseOwns
<1>27. ASSUME NEW c \in Conns, Sever(c) PROVE OwnershipInv'
  BY <1>27, NothingMoves DEF Sever, pool, TypeOK
<1>28. ASSUME NEW c \in Conns, CloseIdle(c) PROVE OwnershipInv'
  BY <1>28, CloseIdleOwns
<1>29. ASSUME UNCHANGED vars PROVE OwnershipInv'
  BY <1>29, NothingMoves DEF vars
<1> QED
  BY <1>1, <1>2, <1>3, <1>4, <1>5, <1>6, <1>7, <1>8, <1>9, <1>10, <1>11,
     <1>12, <1>13, <1>14, <1>15, <1>16, <1>17, <1>18, <1>19, <1>20, <1>21,
     <1>22, <1>23, <1>24, <1>25, <1>26, <1>27, <1>28, <1>29 DEF Next, Step,
     CheckOut, Dial, CallbackStep, Return, Abandon, Put

\* Every connection is in its one place, for any number of callers and of
\* connections.
LEMMA OwnershipHolds == Spec => []OwnershipInv
<1>1. Init => OwnershipInv
  BY PoolAssumption DEF Init, OwnershipInv, OneOwner, HeldOnce, IdleOnce,
     PlacesApart, NoneLost, Placed, ClosedPoolIsEmpty, ClosingMeansClosed
<1> QED
  BY <1>1, OwnershipStep, TypeCorrect, PTL DEF Spec

\* No two callers ever hold one connection, none is idle twice or idle while in
\* use, and none is lost with its socket open.
THEOREM Ownership == Spec => []OneOwner
<1>1. OwnershipInv => OneOwner
  BY DEF OwnershipInv
<1> QED
  BY <1>1, OwnershipHolds, PTL

\* A connection that comes back while Pool.Close runs, or after it, is retired:
\* put looks at p.closed under the mutex that Close takes.
THEOREM NothingIdlesAfterClose == Spec => []ClosedPoolIsEmpty
<1>1. OwnershipInv => ClosedPoolIsEmpty
  BY DEF OwnershipInv
<1> QED
  BY <1>1, OwnershipHolds, PTL

-----------------------------------------------------------------------------
\* Finitely many callers hold a token, and the tokens that are not in the
\* channel are theirs.
TokenInv == IsFiniteSet(Holders) /\ TokenConservation

\* A step of Use that neither takes nor gives back a token: the same callers have
\* one.
LEMMA SameHolders ==
  ASSUME NEW k \in Callers, NEW p, NEW q, TypeOK, Go(k, p, q),
         p \in Leased <=> q \in Leased
  PROVE  Holders' = Holders
BY DEF Go, Holders, TypeOK

\* The caller that takes a token is one more that has one.
LEMMA HolderComes ==
  ASSUME NEW k \in Callers, NEW p, NEW q, TypeOK, TokenInv, Go(k, p, q),
         p \notin Leased, q \in Leased
  PROVE  /\ IsFiniteSet(Holders')
         /\ Cardinality(Holders') = Cardinality(Holders) + 1
<1>1. Holders' = Holders \cup {k} /\ k \notin Holders
  BY DEF Go, Holders, TypeOK
<1> QED
  BY <1>1, FS_AddElement DEF TokenInv

\* The caller that gives its token back is one less.
LEMMA HolderGoes ==
  ASSUME NEW k \in Callers, NEW p, NEW q, TypeOK, TokenInv, Go(k, p, q),
         p \in Leased, q \notin Leased
  PROVE  /\ IsFiniteSet(Holders')
         /\ Cardinality(Holders') = Cardinality(Holders) - 1
<1>1. Holders' = Holders \ {k} /\ k \in Holders
  BY DEF Go, Holders, TypeOK
<1> QED
  BY <1>1, FS_RemoveElement DEF TokenInv

\* Every step keeps the tokens in the channel and the callers that have one
\* adding up to the size of the pool.
LEMMA TokenStep == TypeOK /\ TokenInv /\ [Next]_vars => TokenInv'
<1> SUFFICES ASSUME TypeOK, TokenInv, [Next]_vars PROVE TokenInv'
  OBVIOUS
<1> USE DEF Leased, Places
<1>1. ASSUME NEW k \in Callers, Call(k) PROVE TokenInv'
  <2>1. Go(k, "out", "waiting") /\ UNCHANGED tokens
    BY <1>1 DEF Call, pool
  <2> QED
    BY <2>1, SameHolders DEF TokenInv, TokenConservation
<1>2. ASSUME NEW k \in Callers, GiveUp(k) PROVE TokenInv'
  <2>1. Go(k, "waiting", "out") /\ UNCHANGED tokens
    BY <1>2 DEF GiveUp, pool
  <2> QED
    BY <2>1, SameHolders DEF TokenInv, TokenConservation
<1>3. ASSUME NEW k \in Callers, TakeToken(k) PROVE TokenInv'
  <2>1. Go(k, "waiting", "slot") /\ tokens' = tokens - 1 /\ tokens > 0
    BY <1>3 DEF TakeToken
  <2>2. IsFiniteSet(Holders') /\ Cardinality(Holders') = Cardinality(Holders) + 1
    BY <2>1, HolderComes
  <2>3. Cardinality(Holders) \in Nat /\ IsFiniteSet(Holders)
    BY FS_CardinalityType DEF TokenInv
  <2>4. tokens \in Int /\ Size \in Int /\ tokens + Cardinality(Holders) = Size
    BY PoolAssumption DEF TokenInv, TokenConservation, TypeOK
  <2> QED
    BY <2>1, <2>2, <2>3, <2>4 DEF TokenInv, TokenConservation
<1>4. ASSUME NEW k \in Callers, CheckOutRefused(k) PROVE TokenInv'
  <2>1. Go(k, "slot", "release") /\ UNCHANGED tokens
    BY <1>4 DEF CheckOutRefused, pool
  <2> QED
    BY <2>1, SameHolders DEF TokenInv, TokenConservation
<1>5. ASSUME NEW k \in Callers, CheckOutIdle(k) PROVE TokenInv'
  <2>1. Go(k, "slot", "callback") /\ UNCHANGED tokens
    BY <1>5 DEF CheckOutIdle, pool
  <2> QED
    BY <2>1, SameHolders DEF TokenInv, TokenConservation
<1>6. ASSUME NEW k \in Callers, CheckOutDial(k) PROVE TokenInv'
  <2>1. Go(k, "slot", "dialing") /\ UNCHANGED tokens
    BY <1>6 DEF CheckOutDial, pool
  <2> QED
    BY <2>1, SameHolders DEF TokenInv, TokenConservation
<1>7. ASSUME NEW k \in Callers, DialOk(k) PROVE TokenInv'
  <2>1. Go(k, "dialing", "callback") /\ UNCHANGED tokens
    BY <1>7 DEF DialOk, pool
  <2> QED
    BY <2>1, SameHolders DEF TokenInv, TokenConservation
<1>8. ASSUME NEW k \in Callers, DialFail(k) PROVE TokenInv'
  <2>1. Go(k, "dialing", "release") /\ UNCHANGED tokens
    BY <1>8 DEF DialFail, pool
  <2> QED
    BY <2>1, SameHolders DEF TokenInv, TokenConservation
<1>9. ASSUME NEW k \in Callers, Begin(k) PROVE TokenInv'
  BY <1>9 DEF Begin, pool, TokenInv, TokenConservation, Holders
<1>10. ASSUME NEW k \in Callers, EndBlock(k) PROVE TokenInv'
  BY <1>10 DEF EndBlock, pool, TokenInv, TokenConservation, Holders
<1>11. ASSUME NEW k \in Callers, EndRefused(k) PROVE TokenInv'
  BY <1>11 DEF EndRefused, pool, TokenInv, TokenConservation, Holders
<1>12. ASSUME NEW k \in Callers, Fault(k) PROVE TokenInv'
  BY <1>12 DEF Fault, pool, TokenInv, TokenConservation, Holders
<1>13. ASSUME NEW k \in Callers, BeginMisread(k) \/ EndMisread(k) PROVE TokenInv'
  BY <1>13, MisreadSteps DEF pool, TokenInv, TokenConservation, Holders
<1>14. ASSUME NEW k \in Callers, NEW change \in {-1, 1}, RawControl(k, change) PROVE TokenInv'
  BY <1>14 DEF RawControl, pool, TokenInv, TokenConservation, Holders
<1>15. ASSUME NEW k \in Callers, NEW sentinel \in BOOLEAN, ReturnError(k, sentinel) PROVE TokenInv'
  <2>1. PICK q \in {"abandon", "put"} : Go(k, "callback", q)
    BY <1>15 DEF ReturnError
  <2>2. UNCHANGED tokens
    BY <1>15 DEF ReturnError, pool
  <2> QED
    BY <2>1, <2>2, SameHolders DEF TokenInv, TokenConservation
<1>16. ASSUME NEW k \in Callers, ReturnNil(k) PROVE TokenInv'
  <2>1. PICK q \in {"abandon", "put"} : Go(k, "callback", q)
    BY <1>16 DEF ReturnNil
  <2>2. UNCHANGED tokens
    BY <1>16 DEF ReturnNil, pool
  <2> QED
    BY <2>1, <2>2, SameHolders DEF TokenInv, TokenConservation
<1>17. ASSUME NEW k \in Callers, Panic(k) PROVE TokenInv'
  <2>1. Go(k, "callback", "put") /\ UNCHANGED tokens
    BY <1>17 DEF Panic, pool
  <2> QED
    BY <2>1, SameHolders DEF TokenInv, TokenConservation
<1>18. ASSUME NEW k \in Callers, Goexit(k) PROVE TokenInv'
  <2>1. Go(k, "callback", "put") /\ UNCHANGED tokens
    BY <1>18 DEF Goexit, pool
  <2> QED
    BY <2>1, SameHolders DEF TokenInv, TokenConservation
<1>19. ASSUME NEW k \in Callers, AbandonStep(k) PROVE TokenInv'
  BY <1>19 DEF AbandonStep, pool, TokenInv, TokenConservation, Holders
<1>20. ASSUME NEW k \in Callers, AbandonFails(k) PROVE TokenInv'
  <2>1. Go(k, "abandon", "put") /\ UNCHANGED tokens
    BY <1>20 DEF AbandonFails, pool
  <2> QED
    BY <2>1, SameHolders DEF TokenInv, TokenConservation
<1>21. ASSUME NEW k \in Callers, AbandonDone(k) PROVE TokenInv'
  <2>1. Go(k, "abandon", "put") /\ UNCHANGED tokens
    BY <1>21 DEF AbandonDone, pool
  <2> QED
    BY <2>1, SameHolders DEF TokenInv, TokenConservation
<1>22. ASSUME NEW k \in Callers, PutIdle(k) PROVE TokenInv'
  <2>1. Go(k, "put", "release") /\ UNCHANGED tokens
    BY <1>22 DEF PutIdle, pool
  <2> QED
    BY <2>1, SameHolders DEF TokenInv, TokenConservation
<1>23. ASSUME NEW k \in Callers, PutRetire(k) PROVE TokenInv'
  <2>1. Go(k, "put", "retire") /\ UNCHANGED tokens
    BY <1>23 DEF PutRetire, pool
  <2> QED
    BY <2>1, SameHolders DEF TokenInv, TokenConservation
<1>24. ASSUME NEW k \in Callers, Retire(k) PROVE TokenInv'
  <2>1. Go(k, "retire", "release") /\ UNCHANGED tokens
    BY <1>24 DEF Retire, pool
  <2> QED
    BY <2>1, SameHolders DEF TokenInv, TokenConservation
<1>25. ASSUME NEW k \in Callers, Release(k) PROVE TokenInv'
  <2>1. Go(k, "release", "out") /\ tokens' = tokens + 1
    BY <1>25 DEF Release
  <2>2. IsFiniteSet(Holders') /\ Cardinality(Holders') = Cardinality(Holders) - 1
    BY <2>1, HolderGoes
  <2>3. Cardinality(Holders) \in Nat /\ IsFiniteSet(Holders)
    BY FS_CardinalityType DEF TokenInv
  <2>4. tokens \in Int /\ Size \in Int /\ tokens + Cardinality(Holders) = Size
    BY PoolAssumption DEF TokenInv, TokenConservation, TypeOK
  <2> QED
    BY <2>1, <2>2, <2>3, <2>4 DEF TokenInv, TokenConservation
<1>26. ASSUME Close PROVE TokenInv'
  BY <1>26 DEF Close, TokenInv, TokenConservation, Holders
<1>27. ASSUME NEW c \in Conns, Sever(c) PROVE TokenInv'
  BY <1>27 DEF Sever, pool, TokenInv, TokenConservation, Holders
<1>28. ASSUME NEW c \in Conns, CloseIdle(c) PROVE TokenInv'
  BY <1>28 DEF CloseIdle, TokenInv, TokenConservation, Holders
<1>29. ASSUME UNCHANGED vars PROVE TokenInv'
  BY <1>29 DEF vars, TokenInv, TokenConservation, Holders
<1> QED
  BY <1>1, <1>2, <1>3, <1>4, <1>5, <1>6, <1>7, <1>8, <1>9, <1>10, <1>11,
     <1>12, <1>13, <1>14, <1>15, <1>16, <1>17, <1>18, <1>19, <1>20, <1>21,
     <1>22, <1>23, <1>24, <1>25, <1>26, <1>27, <1>28, <1>29 DEF Next, Step,
     CheckOut, Dial, CallbackStep, Return, Abandon, Put

\* Every way out of Use gives back exactly the token that was taken.
THEOREM TokensConserved == Spec => []TokenConservation
<1>1. Init => TokenInv
  <2> SUFFICES ASSUME Init PROVE TokenInv
    OBVIOUS
  <2>1. Holders = {}
    BY DEF Init, Holders, Leased, Places
  <2> QED
    BY <2>1, FS_EmptySet, PoolAssumption DEF Init, TokenInv, TokenConservation
<1>2. TokenInv => TokenConservation
  BY DEF TokenInv
<1> QED
  BY <1>1, <1>2, TokenStep, TypeCorrect, PTL DEF Spec

-----------------------------------------------------------------------------
\* A caller on its way to idling its connection, unless put finds it in a block.
Returning(k) == pc[k] = "abandon" \/ (pc[k] = "put" /\ ~broken[k])

\* The driver has given the connection up, or is at odds with its server.
Doubtful(c) == Poisoned(c) \/ c \in misread

\* Between the callback and the idle list a connection is as clean as the
\* callback left it: the pool learns of every fault and of every answer that
\* could not be decoded, unless the callback swallows it.
CleanInv ==
  "swallow" \notin Habits =>
    /\ \A i \in DOMAIN idle : ~Doubtful(idle[i])
    /\ \A k \in Callers : Returning(k) => ~Doubtful(held[k])

\* Every step keeps what is idle, and what is about to be, clean.
LEMMA CleanStep ==
  ASSUME TypeOK, OwnershipInv, CleanInv, [Next]_vars
  PROVE  CleanInv'
<1>0. /\ \A i \in DOMAIN idle : idle[i] \in Conns
      /\ \A j, k \in Callers : held[j] = held[k] /\ held[j] # NoConn => j = k
      /\ \A k \in Callers, i \in DOMAIN idle : idle[i] # held[k]
      /\ \A i \in DOMAIN idle : idle[i] \notin closing
      /\ \A k \in Callers : held[k] \notin closing
      /\ \A c \in Conns : sock[c] = "none" =>
           /\ \A k \in Callers : held[k] # c
           /\ \A i \in DOMAIN idle : idle[i] # c
      /\ \A k \in Callers : pc[k] \in {"callback", "abandon", "put", "retire"}
                              => held[k] \in Conns
      /\ NoConn \notin Conns
  BY PoolAssumption
  DEF OwnershipInv, OneOwner, TypeOK, HeldOnce, PlacesApart, NoneLost, Placed
<1> USE DEF CleanInv, Returning, Doubtful, Poisoned
<1>1. ASSUME NEW k \in Callers, Call(k) PROVE CleanInv'
  BY <1>1, <1>0 DEF Call, Go, pool, client, TypeOK
<1>2. ASSUME NEW k \in Callers, GiveUp(k) PROVE CleanInv'
  BY <1>2, <1>0 DEF GiveUp, Go, pool, client, TypeOK
<1>3. ASSUME NEW k \in Callers, TakeToken(k) PROVE CleanInv'
  BY <1>3, <1>0 DEF TakeToken, Go, client, TypeOK
<1>4. ASSUME NEW k \in Callers, CheckOutRefused(k) PROVE CleanInv'
  BY <1>4, <1>0 DEF CheckOutRefused, Go, pool, client, TypeOK
<1>5. ASSUME NEW k \in Callers, CheckOutIdle(k) PROVE CleanInv'
  <2>1. /\ \A i \in DOMAIN idle' : i \in DOMAIN idle /\ idle'[i] = idle[i]
        /\ pc' = [pc EXCEPT ![k] = "callback"]
        /\ \A j \in Callers : j # k => held'[j] = held[j]
        /\ UNCHANGED <<broken, sock, misread>>
    BY <1>5 DEF CheckOutIdle, Go, client, TypeOK
  <2> QED
    BY <2>1 DEF TypeOK
<1>6. ASSUME NEW k \in Callers, CheckOutDial(k) PROVE CleanInv'
  BY <1>6, <1>0 DEF CheckOutDial, Go, pool, client, TypeOK
<1>7. ASSUME NEW k \in Callers, DialOk(k) PROVE CleanInv'
  <2>1. PICK c \in Conns : /\ sock[c] = "none"
                           /\ sock' = [sock EXCEPT ![c] = "open"]
                           /\ held' = [held EXCEPT ![k] = c]
    BY <1>7 DEF DialOk
  <2>2. UNCHANGED <<idle, broken, misread>> /\ pc' = [pc EXCEPT ![k] = "callback"]
    BY <1>7 DEF DialOk, Go, pool
  <2> QED
    BY <1>0, <2>1, <2>2 DEF TypeOK
<1>8. ASSUME NEW k \in Callers, DialFail(k) PROVE CleanInv'
  BY <1>8, <1>0 DEF DialFail, Go, pool, client, TypeOK
<1>9. ASSUME NEW k \in Callers, Begin(k) PROVE CleanInv'
  BY <1>9, <1>0 DEF Begin, Go, pool, TypeOK
<1>10. ASSUME NEW k \in Callers, EndBlock(k) PROVE CleanInv'
  BY <1>10, <1>0 DEF EndBlock, Go, pool, TypeOK
<1>11. ASSUME NEW k \in Callers, EndRefused(k) PROVE CleanInv'
  BY <1>11, <1>0 DEF EndRefused, Go, pool, TypeOK
<1>12. ASSUME NEW k \in Callers, Fault(k) PROVE CleanInv'
  BY <1>12, <1>0 DEF Fault, Go, pool, Running, TypeOK
<1>13. ASSUME NEW k \in Callers, BeginMisread(k) \/ EndMisread(k) PROVE CleanInv'
  BY <1>13, <1>0, MisreadSteps DEF pool, TypeOK
<1>14. ASSUME NEW k \in Callers, NEW change \in {-1, 1}, RawControl(k, change) PROVE CleanInv'
  BY <1>14, <1>0 DEF RawControl, Go, pool, TypeOK
<1>15. ASSUME NEW k \in Callers, NEW sentinel \in BOOLEAN, ReturnError(k, sentinel) PROVE CleanInv'
  BY <1>15, <1>0 DEF ReturnError, Go, pool, client, TypeOK
<1>16. ASSUME NEW k \in Callers, ReturnNil(k) PROVE CleanInv'
  BY <1>16, <1>0 DEF ReturnNil, Go, pool, client, Quiet, TypeOK
<1>17. ASSUME NEW k \in Callers, Panic(k) PROVE CleanInv'
  BY <1>17, <1>0 DEF Panic, Go, pool, client, TypeOK
<1>18. ASSUME NEW k \in Callers, Goexit(k) PROVE CleanInv'
  BY <1>18, <1>0 DEF Goexit, Go, pool, client, Quiet, TypeOK
<1>19. ASSUME NEW k \in Callers, AbandonStep(k) PROVE CleanInv'
  BY <1>19, <1>0 DEF AbandonStep, Go, pool, TypeOK
<1>20. ASSUME NEW k \in Callers, AbandonFails(k) PROVE CleanInv'
  BY <1>20, <1>0 DEF AbandonFails, Go, pool, TypeOK
<1>21. ASSUME NEW k \in Callers, AbandonDone(k) PROVE CleanInv'
  BY <1>21, <1>0 DEF AbandonDone, Go, pool, client, TypeOK
<1>22. ASSUME NEW k \in Callers, PutIdle(k) PROVE CleanInv'
  <2>1. /\ pc[k] = "put" /\ ~broken[k] /\ held[k] \in Conns
        /\ pc' = [pc EXCEPT ![k] = "release"]
        /\ held' = [held EXCEPT ![k] = NoConn]
        /\ UNCHANGED <<broken, sock, misread>>
    BY <1>22 DEF PutIdle, Go, client, TypeOK
  <2>2. \A i \in DOMAIN idle' : \/ i \in DOMAIN idle /\ idle'[i] = idle[i]
                                \/ idle'[i] = held[k]
    BY <1>22 DEF PutIdle, TypeOK
  <2> QED
    BY <2>1, <2>2 DEF TypeOK
<1>23. ASSUME NEW k \in Callers, PutRetire(k) PROVE CleanInv'
  BY <1>23, <1>0 DEF PutRetire, Go, pool, client, TypeOK
<1>24. ASSUME NEW k \in Callers, Retire(k) PROVE CleanInv'
  BY <1>24, <1>0 DEF Retire, Go, pool, Discard, TypeOK
<1>25. ASSUME NEW k \in Callers, Release(k) PROVE CleanInv'
  BY <1>25, <1>0 DEF Release, Go, client, TypeOK
<1>26. ASSUME Close PROVE CleanInv'
  <2>1. idle' = <<>> /\ UNCHANGED <<pc, held, broken, sock, misread>>
    BY <1>26 DEF Close, client
  <2> QED
    BY <2>1
<1>27. ASSUME NEW c \in Conns, Sever(c) PROVE CleanInv'
  BY <1>27, <1>0 DEF Sever, pool, TypeOK
<1>28. ASSUME NEW c \in Conns, CloseIdle(c) PROVE CleanInv'
  BY <1>28, <1>0 DEF CloseIdle, Discard, TypeOK
<1>29. ASSUME UNCHANGED vars PROVE CleanInv'
  BY <1>29 DEF vars
<1> QED
  BY <1>1, <1>2, <1>3, <1>4, <1>5, <1>6, <1>7, <1>8, <1>9, <1>10, <1>11,
     <1>12, <1>13, <1>14, <1>15, <1>16, <1>17, <1>18, <1>19, <1>20, <1>21,
     <1>22, <1>23, <1>24, <1>25, <1>26, <1>27, <1>28, <1>29 DEF Next, Step,
     CheckOut, Dial, CallbackStep, Return, Abandon, Put

\* A new pool has nothing idle and nobody returning.
LEMMA InitClean == Init => CleanInv
  BY DEF Init, CleanInv, Returning

\* What is idle stays clean as far as the callbacks let the pool know.
THEOREM StaysClean == Spec => []CleanInv
  BY InitClean, CleanStep, OwnershipHolds, TypeCorrect, PTL DEF Spec

\* "A timed-out connection is poisoned, and a Pool retires it": no borrower is
\* lent a connection the driver has given up, as long as callbacks report faults.
THEOREM NoFaultIdles == "swallow" \notin Habits => (Spec => []NoPoisonedIdle)
<1> SUFFICES ASSUME "swallow" \notin Habits PROVE Spec => []NoPoisonedIdle
  OBVIOUS
<1>1. CleanInv => NoPoisonedIdle
  BY DEF CleanInv, Doubtful, NoPoisonedIdle
<1> QED
  BY <1>1, StaysClean, PTL

-----------------------------------------------------------------------------
\* The server has a block open only for a session whose flag says so, or on whose
\* connection an answer could not be decoded.
BlocksInv ==
  \A c \in Conns : blocks[c] > 0 => sock[c] = "open" /\ (txnOpen[c] \/ c \in misread)

\* Every step keeps txnOpen telling of every block of the server, and blocks out
\* of idle.
LEMMA BlocksStep ==
  ASSUME Habits = {}, TypeOK, OwnershipInv, CleanInv, BlocksInv, IdleHasNoBlock, [Next]_vars
  PROVE  BlocksInv' /\ IdleHasNoBlock'
<1>0. /\ HeldOnce /\ IdleOnce /\ PlacesApart /\ NoneLost
      /\ \A i \in DOMAIN idle : idle[i] \in Conns
      /\ \A k \in Callers, i \in DOMAIN idle : idle[i] # held[k]
      /\ \A i \in DOMAIN idle : idle[i] \notin closing
      /\ \A k \in Callers : pc[k] \in {"callback", "abandon", "put", "retire"}
                              => held[k] \in Conns
  BY DEF OwnershipInv, OneOwner, TypeOK, PlacesApart
<1> USE DEF BlocksInv, IdleHasNoBlock, InTransaction, Poisoned
<1>1. ASSUME NEW k \in Callers, Call(k) PROVE BlocksInv' /\ IdleHasNoBlock'
  BY <1>1 DEF Call, pool, client
<1>2. ASSUME NEW k \in Callers, GiveUp(k) PROVE BlocksInv' /\ IdleHasNoBlock'
  BY <1>2 DEF GiveUp, pool, client
<1>3. ASSUME NEW k \in Callers, TakeToken(k) PROVE BlocksInv' /\ IdleHasNoBlock'
  BY <1>3 DEF TakeToken, client
<1>4. ASSUME NEW k \in Callers, CheckOutRefused(k) PROVE BlocksInv' /\ IdleHasNoBlock'
  BY <1>4 DEF CheckOutRefused, pool, client
<1>5. ASSUME NEW k \in Callers, CheckOutIdle(k) PROVE BlocksInv' /\ IdleHasNoBlock'
  <2>1. \A i \in DOMAIN idle' : i \in DOMAIN idle /\ idle'[i] = idle[i]
    BY <1>5 DEF CheckOutIdle, TypeOK
  <2>2. UNCHANGED <<sock, txnOpen, misread, blocks>>
    BY <1>5 DEF CheckOutIdle, client
  <2> QED
    BY <2>1, <2>2
<1>6. ASSUME NEW k \in Callers, CheckOutDial(k) PROVE BlocksInv' /\ IdleHasNoBlock'
  BY <1>6 DEF CheckOutDial, pool, client
<1>7. ASSUME NEW k \in Callers, DialOk(k) PROVE BlocksInv' /\ IdleHasNoBlock'
  <2>1. PICK c \in Conns : sock[c] = "none" /\ sock' = [sock EXCEPT ![c] = "open"]
    BY <1>7 DEF DialOk
  <2>2. UNCHANGED <<idle, txnOpen, misread, blocks>>
    BY <1>7 DEF DialOk, pool
  <2>3. \A i \in DOMAIN idle : idle[i] # c
    BY <1>0, <2>1 DEF NoneLost, Placed
  <2> QED
    BY <1>0, <2>1, <2>2, <2>3 DEF TypeOK
<1>8. ASSUME NEW k \in Callers, DialFail(k) PROVE BlocksInv' /\ IdleHasNoBlock'
  BY <1>8 DEF DialFail, pool, client
<1>9. ASSUME NEW k \in Callers, Begin(k) PROVE BlocksInv' /\ IdleHasNoBlock'
  BY <1>9, <1>0 DEF Begin, pool, Running, TypeOK
<1>10. ASSUME NEW k \in Callers, EndBlock(k) PROVE BlocksInv' /\ IdleHasNoBlock'
  BY <1>10, <1>0 DEF EndBlock, pool, Running, EndInnermost, TypeOK
<1>11. ASSUME NEW k \in Callers, EndRefused(k) PROVE BlocksInv' /\ IdleHasNoBlock'
  BY <1>11, <1>0 DEF EndRefused, pool, Running, EndAll, TypeOK
<1>12. ASSUME NEW k \in Callers, Fault(k) PROVE BlocksInv' /\ IdleHasNoBlock'
  BY <1>12, <1>0 DEF Fault, pool, Running, TypeOK
<1>13. ASSUME NEW k \in Callers, BeginMisread(k) \/ EndMisread(k) PROVE BlocksInv' /\ IdleHasNoBlock'
  BY <1>13, <1>0, MisreadSteps DEF pool, TypeOK
<1>14. ASSUME NEW k \in Callers, NEW change \in {-1, 1}, RawControl(k, change) PROVE BlocksInv' /\ IdleHasNoBlock'
  BY <1>14, <1>0 DEF RawControl, pool, Running, TypeOK
<1>15. ASSUME NEW k \in Callers, NEW sentinel \in BOOLEAN, ReturnError(k, sentinel) PROVE BlocksInv' /\ IdleHasNoBlock'
  BY <1>15 DEF ReturnError, pool, client
<1>16. ASSUME NEW k \in Callers, ReturnNil(k) PROVE BlocksInv' /\ IdleHasNoBlock'
  BY <1>16 DEF ReturnNil, pool, client
<1>17. ASSUME NEW k \in Callers, Panic(k) PROVE BlocksInv' /\ IdleHasNoBlock'
  BY <1>17 DEF Panic, pool, client
<1>18. ASSUME NEW k \in Callers, Goexit(k) PROVE BlocksInv' /\ IdleHasNoBlock'
  BY <1>18 DEF Goexit, pool, client
<1>19. ASSUME NEW k \in Callers, AbandonStep(k) PROVE BlocksInv' /\ IdleHasNoBlock'
  BY <1>19, <1>0 DEF AbandonStep, pool, EndInnermost, TypeOK
<1>20. ASSUME NEW k \in Callers, AbandonFails(k) PROVE BlocksInv' /\ IdleHasNoBlock'
  <2>1. /\ Go(k, "abandon", "put") /\ held[k] \in Conns /\ UNCHANGED <<pool, held>>
        /\ txnOpen' = [txnOpen EXCEPT ![held[k]] = FALSE]
        /\ misread' \in {misread, misread \cup {held[k]}}
        /\ sock' \in {sock, [sock EXCEPT ![held[k]] = "dropped"]}
    BY <1>20, AbandonFailsSteps
  <2>2. PICK left \in Nat :
           /\ blocks' = [blocks EXCEPT ![held[k]] = left]
           /\ left # 0 => sock' = sock /\ sock[held[k]] = "open" /\ held[k] \in misread'
    BY <1>20, AbandonFailsSteps DEF LeavesBlocks
  <2>3. /\ blocks'[held[k]] = left
        /\ \A c \in Conns \ {held[k]} :
             blocks'[c] = blocks[c] /\ sock'[c] = sock[c] /\ txnOpen'[c] = txnOpen[c]
    BY <2>1, <2>2 DEF TypeOK
  <2>4. ASSUME NEW c \in Conns, blocks'[c] > 0
        PROVE  sock'[c] = "open" /\ (txnOpen'[c] \/ c \in misread')
    <3>1. CASE c = held[k]
      BY <2>2, <2>3, <2>4, <3>1
    <3>2. CASE c # held[k]
      <4>1. blocks'[c] = blocks[c] /\ sock'[c] = sock[c] /\ txnOpen'[c] = txnOpen[c]
        BY <2>3, <3>2
      <4>2. c \in misread => c \in misread'
        BY <2>1
      <4> QED
        BY <2>4, <4>1, <4>2
    <3> QED
      BY <3>1, <3>2
  <2>5. UNCHANGED idle /\ \A i \in DOMAIN idle : idle[i] # held[k]
    BY <1>0, <2>1 DEF pool
  <2>6. IdleHasNoBlock'
    BY <1>0, <2>3, <2>5
  <2> QED
    BY <2>4, <2>6
<1>21. ASSUME NEW k \in Callers, AbandonDone(k) PROVE BlocksInv' /\ IdleHasNoBlock'
  BY <1>21 DEF AbandonDone, pool, client
<1>22. ASSUME NEW k \in Callers, PutIdle(k) PROVE BlocksInv' /\ IdleHasNoBlock'
  <2>1. held[k] \in Conns /\ ~InTransaction(held[k])
    BY <1>22 DEF PutIdle, Go, TypeOK
  <2>2. \A i \in DOMAIN idle' : \/ i \in DOMAIN idle /\ idle'[i] = idle[i]
                                \/ idle'[i] = held[k]
    BY <1>22 DEF PutIdle, TypeOK
  <2>3. UNCHANGED <<sock, txnOpen, misread, blocks>>
    BY <1>22 DEF PutIdle, client
  <2>4. held[k] \notin misread
    BY <1>22 DEF PutIdle, Go, CleanInv, Returning, Doubtful
  <2>5. blocks[held[k]] = 0
    BY <2>1, <2>4 DEF TypeOK
  <2> QED
    BY <2>1, <2>2, <2>3, <2>5
<1>23. ASSUME NEW k \in Callers, PutRetire(k) PROVE BlocksInv' /\ IdleHasNoBlock'
  BY <1>23 DEF PutRetire, pool, client
<1>24. ASSUME NEW k \in Callers, Retire(k) PROVE BlocksInv' /\ IdleHasNoBlock'
  BY <1>24, <1>0 DEF Retire, pool, Discard, Go, TypeOK
<1>25. ASSUME NEW k \in Callers, Release(k) PROVE BlocksInv' /\ IdleHasNoBlock'
  BY <1>25 DEF Release, client
<1>26. ASSUME Close PROVE BlocksInv' /\ IdleHasNoBlock'
  <2>1. idle' = <<>> /\ UNCHANGED <<sock, txnOpen, misread, blocks>>
    BY <1>26 DEF Close, client
  <2> QED
    BY <2>1
<1>27. ASSUME NEW c \in Conns, Sever(c) PROVE BlocksInv' /\ IdleHasNoBlock'
  BY <1>27, <1>0 DEF Sever, pool, TypeOK
<1>28. ASSUME NEW c \in Conns, CloseIdle(c) PROVE BlocksInv' /\ IdleHasNoBlock'
  BY <1>28, <1>0 DEF CloseIdle, Discard, TypeOK
<1>29. ASSUME UNCHANGED vars PROVE BlocksInv' /\ IdleHasNoBlock'
  BY <1>29 DEF vars
<1> QED
  BY <1>1, <1>2, <1>3, <1>4, <1>5, <1>6, <1>7, <1>8, <1>9, <1>10, <1>11,
     <1>12, <1>13, <1>14, <1>15, <1>16, <1>17, <1>18, <1>19, <1>20, <1>21,
     <1>22, <1>23, <1>24, <1>25, <1>26, <1>27, <1>28, <1>29 DEF Next, Step,
     CheckOut, Dial, CallbackStep, Return, Abandon, Put

\* No connection is idle with a block open in its session, as long as callbacks
\* begin and end transactions through the client and report answers that could
\* not be decoded; without that it fails (README, disagreements).
THEOREM NoBlockIdles == Habits = {} => (Spec => []IdleHasNoBlock)
<1> SUFFICES ASSUME Habits = {} PROVE Spec => []IdleHasNoBlock
  OBVIOUS
<1>1. Init => BlocksInv /\ IdleHasNoBlock
  BY DEF Init, BlocksInv, IdleHasNoBlock
<1>2. /\ TypeOK /\ OwnershipInv /\ CleanInv /\ BlocksInv /\ IdleHasNoBlock /\ [Next]_vars
      => BlocksInv' /\ IdleHasNoBlock'
  BY BlocksStep
<1> QED
  BY <1>1, <1>2, OwnershipHolds, StaysClean, TypeCorrect, PTL DEF Spec

-----------------------------------------------------------------------------
\* Connections and dials in progress, counted.  A dial starts when idle is
\* empty, so that every other connection is held by a caller with a token.
BoundInv == IsFiniteSet(Live) /\ IsFiniteSet(Dialing) /\ PoolBound

\* With idle empty and the pool open, every connection is held by a caller with a
\* token, so there is room for one more dial.
LEMMA LiveAreHeld ==
  ASSUME TypeOK, OwnershipInv, TokenInv, ~closed, idle = <<>>, IsFiniteSet(Live),
         NEW k \in Callers, pc[k] = "slot"
  PROVE  Cardinality(Live) + Cardinality(Dialing \cup {k}) <= Size
<1> DEFINE H == {j \in Callers : held[j] # NoConn}
<1> DEFINE D == Dialing \cup {k}
<1>1. H \subseteq Holders /\ D \subseteq Holders /\ H \cap D = {}
  BY DEF TypeOK, Holders, Dialing, Leased, Places
<1>2. IsFiniteSet(Holders) /\ Cardinality(Holders) <= Size
  <2>1. IsFiniteSet(Holders) /\ tokens + Cardinality(Holders) = Size
    BY DEF TokenInv, TokenConservation
  <2>2. Cardinality(Holders) \in Nat /\ tokens \in Nat /\ Size \in Nat
    BY <2>1, FS_CardinalityType, PoolAssumption DEF TypeOK
  <2> QED
    BY <2>1, <2>2
<1>3. /\ IsFiniteSet(H) /\ Cardinality(H) \in Nat
      /\ IsFiniteSet(D) /\ Cardinality(D) \in Nat
  BY <1>1, <1>2, FS_Subset, FS_CardinalityType
<1>4. Cardinality(Live) <= Cardinality(H)
  <2> DEFINE f == [j \in H |-> held[j]]
  <2>1. f \in [H -> Live]
    BY PoolAssumption DEF OwnershipInv, OneOwner, NoneLost, Placed, Live, TypeOK
  <2>2. \A c \in Live : \E j \in H : f[j] = c
    <3> SUFFICES ASSUME NEW c \in Live PROVE \E j \in H : held[j] = c
      OBVIOUS
    <3>1. Placed(c) /\ c \in Conns /\ closing = {}
      BY DEF OwnershipInv, OneOwner, NoneLost, ClosingMeansClosed, Live
    <3> QED
      BY <3>1, PoolAssumption DEF Placed
  <2>3. f \in Surjection(H, Live)
    BY <2>1, <2>2 DEF Surjection
  <2> QED
    BY <1>3, <2>3, FS_Surjection
<1>5. Cardinality(H) + Cardinality(D) <= Cardinality(Holders)
  <2>1. IsFiniteSet(H \cup D) /\ Cardinality(H \cup D) = Cardinality(H) + Cardinality(D) - Cardinality({})
    BY <1>1, <1>3, FS_Union
  <2>2. Cardinality(H \cup D) <= Cardinality(Holders)
    BY <1>1, <1>2, FS_Subset
  <2> QED
    BY <1>3, <2>1, <2>2, FS_EmptySet
<1> HIDE DEF H, D
<1>6. Cardinality(Live) \in Nat /\ Cardinality(Holders) \in Nat /\ Size \in Nat
  BY <1>2, FS_CardinalityType, PoolAssumption
<1>7. Cardinality(Live) + Cardinality(D) <= Size
  BY <1>2, <1>3, <1>4, <1>5, <1>6
<1> QED
  BY <1>7 DEF D

\* Closing a connection cannot break the bound.
LEMMA LiveShrinks ==
  ASSUME BoundInv, NEW c, Live' = Live \ {c}, Dialing' = Dialing
  PROVE  BoundInv'
<1>1. IsFiniteSet(Live') /\ Cardinality(Live') <= Cardinality(Live)
  BY FS_Subset DEF BoundInv
<1>2. /\ Cardinality(Live) \in Nat /\ Cardinality(Live') \in Nat
      /\ Cardinality(Dialing) \in Nat /\ Size \in Nat
  BY <1>1, FS_CardinalityType, PoolAssumption DEF BoundInv
<1> QED
  BY <1>1, <1>2 DEF BoundInv, PoolBound

\* Every step keeps connections and dials within the size of the pool.
LEMMA BoundStep ==
  ASSUME TypeOK, OwnershipInv, TokenInv, BoundInv, [Next]_vars
  PROVE  BoundInv'
<1>0. /\ Cardinality(Live) \in Nat /\ Cardinality(Dialing) \in Nat /\ Size \in Nat
      /\ IsFiniteSet(Live) /\ IsFiniteSet(Dialing)
      /\ Cardinality(Live) + Cardinality(Dialing) <= Size
  BY FS_CardinalityType, PoolAssumption DEF BoundInv, PoolBound
<1>1. ASSUME NEW k \in Callers, Call(k) PROVE BoundInv'
  <2>1. Live' = Live /\ Dialing' = Dialing
    BY <1>1 DEF Call, Go, pool, client, Live, Dialing, TypeOK
  <2> QED
    BY <2>1 DEF BoundInv, PoolBound
<1>2. ASSUME NEW k \in Callers, GiveUp(k) PROVE BoundInv'
  <2>1. Live' = Live /\ Dialing' = Dialing
    BY <1>2 DEF GiveUp, Go, pool, client, Live, Dialing, TypeOK
  <2> QED
    BY <2>1 DEF BoundInv, PoolBound
<1>3. ASSUME NEW k \in Callers, TakeToken(k) PROVE BoundInv'
  <2>1. Live' = Live /\ Dialing' = Dialing
    BY <1>3 DEF TakeToken, Go, client, Live, Dialing, TypeOK
  <2> QED
    BY <2>1 DEF BoundInv, PoolBound
<1>4. ASSUME NEW k \in Callers, CheckOutRefused(k) PROVE BoundInv'
  <2>1. Live' = Live /\ Dialing' = Dialing
    BY <1>4 DEF CheckOutRefused, Go, pool, client, Live, Dialing, TypeOK
  <2> QED
    BY <2>1 DEF BoundInv, PoolBound
<1>5. ASSUME NEW k \in Callers, CheckOutIdle(k) PROVE BoundInv'
  <2>1. Live' = Live /\ Dialing' = Dialing
    BY <1>5 DEF CheckOutIdle, Go, client, Live, Dialing, TypeOK
  <2> QED
    BY <2>1 DEF BoundInv, PoolBound
<1>6. ASSUME NEW k \in Callers, CheckOutDial(k) PROVE BoundInv'
  <2>1. Dialing' = Dialing \cup {k} /\ Live' = Live
    BY <1>6 DEF CheckOutDial, Go, Dialing, Live, client, TypeOK
  <2>2. Cardinality(Live) + Cardinality(Dialing \cup {k}) <= Size
    BY <1>6, <1>0, LiveAreHeld DEF CheckOutDial, Go
  <2>3. IsFiniteSet(Dialing \cup {k})
    BY <1>0, FS_AddElement
  <2> QED
    BY <1>0, <2>1, <2>2, <2>3 DEF BoundInv, PoolBound
<1>7. ASSUME NEW k \in Callers, DialOk(k) PROVE BoundInv'
  <2>1. PICK c \in Conns : sock[c] = "none" /\ sock' = [sock EXCEPT ![c] = "open"]
    BY <1>7 DEF DialOk
  <2>2. Live' = Live \cup {c} /\ c \notin Live
    BY <2>1 DEF Live, TypeOK
  <2>3. Dialing' = Dialing \ {k} /\ k \in Dialing
    BY <1>7 DEF DialOk, Go, Dialing, TypeOK
  <2>4. IsFiniteSet(Live') /\ Cardinality(Live') = Cardinality(Live) + 1
    BY <1>0, <2>2, FS_AddElement
  <2>5. IsFiniteSet(Dialing') /\ Cardinality(Dialing') = Cardinality(Dialing) - 1
    BY <1>0, <2>3, FS_RemoveElement
  <2> QED
    BY <1>0, <2>4, <2>5 DEF BoundInv, PoolBound
<1>8. ASSUME NEW k \in Callers, DialFail(k) PROVE BoundInv'
  <2>1. Dialing' = Dialing \ {k} /\ k \in Dialing /\ Live' = Live
    BY <1>8 DEF DialFail, Go, Dialing, Live, client, TypeOK
  <2>2. IsFiniteSet(Dialing') /\ Cardinality(Dialing') = Cardinality(Dialing) - 1
    BY <1>0, <2>1, FS_RemoveElement
  <2> QED
    BY <1>0, <2>1, <2>2 DEF BoundInv, PoolBound
<1>9. ASSUME NEW k \in Callers, Begin(k) PROVE BoundInv'
  <2>1. Live' = Live /\ Dialing' = Dialing
    BY <1>9 DEF Begin, pool, Running, Live, Dialing, TypeOK
  <2> QED
    BY <2>1 DEF BoundInv, PoolBound
<1>10. ASSUME NEW k \in Callers, EndBlock(k) PROVE BoundInv'
  <2>1. Live' = Live /\ Dialing' = Dialing
    BY <1>10 DEF EndBlock, pool, Running, Live, Dialing, TypeOK
  <2> QED
    BY <2>1 DEF BoundInv, PoolBound
<1>11. ASSUME NEW k \in Callers, EndRefused(k) PROVE BoundInv'
  <2>1. Live' = Live /\ Dialing' = Dialing
    BY <1>11 DEF EndRefused, pool, Running, Live, Dialing, TypeOK
  <2> QED
    BY <2>1 DEF BoundInv, PoolBound
<1>12. ASSUME NEW k \in Callers, Fault(k) PROVE BoundInv'
  <2>1. Live' = Live /\ Dialing' = Dialing
    BY <1>12 DEF Fault, pool, Running, Live, Dialing, TypeOK
  <2> QED
    BY <2>1 DEF BoundInv, PoolBound
<1>13. ASSUME NEW k \in Callers, BeginMisread(k) \/ EndMisread(k) PROVE BoundInv'
  <2>1. Live' = Live /\ Dialing' = Dialing
    BY <1>13, MisreadSteps DEF pool, Live, Dialing, TypeOK
  <2> QED
    BY <2>1 DEF BoundInv, PoolBound
<1>14. ASSUME NEW k \in Callers, NEW change \in {-1, 1}, RawControl(k, change) PROVE BoundInv'
  <2>1. Live' = Live /\ Dialing' = Dialing
    BY <1>14 DEF RawControl, pool, Running, Live, Dialing, TypeOK
  <2> QED
    BY <2>1 DEF BoundInv, PoolBound
<1>15. ASSUME NEW k \in Callers, NEW sentinel \in BOOLEAN, ReturnError(k, sentinel) PROVE BoundInv'
  <2>1. Live' = Live /\ Dialing' = Dialing
    BY <1>15 DEF ReturnError, Go, pool, client, Live, Dialing, TypeOK
  <2> QED
    BY <2>1 DEF BoundInv, PoolBound
<1>16. ASSUME NEW k \in Callers, ReturnNil(k) PROVE BoundInv'
  <2>1. Live' = Live /\ Dialing' = Dialing
    BY <1>16 DEF ReturnNil, Go, pool, client, Live, Dialing, TypeOK
  <2> QED
    BY <2>1 DEF BoundInv, PoolBound
<1>17. ASSUME NEW k \in Callers, Panic(k) PROVE BoundInv'
  <2>1. Live' = Live /\ Dialing' = Dialing
    BY <1>17 DEF Panic, Go, pool, client, Live, Dialing, TypeOK
  <2> QED
    BY <2>1 DEF BoundInv, PoolBound
<1>18. ASSUME NEW k \in Callers, Goexit(k) PROVE BoundInv'
  <2>1. Live' = Live /\ Dialing' = Dialing
    BY <1>18 DEF Goexit, Go, pool, client, Live, Dialing, TypeOK
  <2> QED
    BY <2>1 DEF BoundInv, PoolBound
<1>19. ASSUME NEW k \in Callers, AbandonStep(k) PROVE BoundInv'
  <2>1. Live' = Live /\ Dialing' = Dialing
    BY <1>19 DEF AbandonStep, pool, Live, Dialing, TypeOK
  <2> QED
    BY <2>1 DEF BoundInv, PoolBound
<1>20. ASSUME NEW k \in Callers, AbandonFails(k) PROVE BoundInv'
  <2>1. held[k] \in Conns /\ Placed(held[k])
    BY <1>20 DEF AbandonFails, Go, TypeOK, Placed
  <2>2. sock[held[k]] # "none"
    BY <2>1 DEF OwnershipInv, OneOwner, NoneLost
  <2>3. Live' = Live /\ Dialing' = Dialing
    BY <1>20, <2>1, <2>2 DEF AbandonFails, Go, Live, Dialing, TypeOK
  <2> QED
    BY <2>3 DEF BoundInv, PoolBound
<1>21. ASSUME NEW k \in Callers, AbandonDone(k) PROVE BoundInv'
  <2>1. Live' = Live /\ Dialing' = Dialing
    BY <1>21 DEF AbandonDone, Go, pool, client, Live, Dialing, TypeOK
  <2> QED
    BY <2>1 DEF BoundInv, PoolBound
<1>22. ASSUME NEW k \in Callers, PutIdle(k) PROVE BoundInv'
  <2>1. Live' = Live /\ Dialing' = Dialing
    BY <1>22 DEF PutIdle, Go, client, Live, Dialing, TypeOK
  <2> QED
    BY <2>1 DEF BoundInv, PoolBound
<1>23. ASSUME NEW k \in Callers, PutRetire(k) PROVE BoundInv'
  <2>1. Live' = Live /\ Dialing' = Dialing
    BY <1>23 DEF PutRetire, Go, pool, client, Live, Dialing, TypeOK
  <2> QED
    BY <2>1 DEF BoundInv, PoolBound
<1>24. ASSUME NEW k \in Callers, Retire(k) PROVE BoundInv'
  <2>1. held[k] \in Conns /\ Live' = Live \ {held[k]} /\ Dialing' = Dialing
    BY <1>24 DEF Retire, Go, Discard, Live, Dialing, TypeOK
  <2> QED
    BY <1>0, <2>1, LiveShrinks
<1>25. ASSUME NEW k \in Callers, Release(k) PROVE BoundInv'
  <2>1. Live' = Live /\ Dialing' = Dialing
    BY <1>25 DEF Release, Go, client, Live, Dialing, TypeOK
  <2> QED
    BY <2>1 DEF BoundInv, PoolBound
<1>26. ASSUME Close PROVE BoundInv'
  <2>1. Live' = Live /\ Dialing' = Dialing
    BY <1>26 DEF Close, client, Live, Dialing, TypeOK
  <2> QED
    BY <2>1 DEF BoundInv, PoolBound
<1>27. ASSUME NEW c \in Conns, Sever(c) PROVE BoundInv'
  <2>1. Live' = Live /\ Dialing' = Dialing
    BY <1>27 DEF Sever, pool, Live, Dialing, TypeOK
  <2> QED
    BY <2>1 DEF BoundInv, PoolBound
<1>28. ASSUME NEW c \in Conns, CloseIdle(c) PROVE BoundInv'
  <2>1. Live' = Live \ {c} /\ Dialing' = Dialing
    BY <1>28 DEF CloseIdle, Discard, Live, Dialing, TypeOK
  <2> QED
    BY <1>0, <2>1, LiveShrinks
<1>29. ASSUME UNCHANGED vars PROVE BoundInv'
  <2>1. Live' = Live /\ Dialing' = Dialing
    BY <1>29 DEF vars, Live, Dialing, TypeOK
  <2> QED
    BY <2>1 DEF BoundInv, PoolBound
<1> QED
  BY <1>1, <1>2, <1>3, <1>4, <1>5, <1>6, <1>7, <1>8, <1>9, <1>10, <1>11,
     <1>12, <1>13, <1>14, <1>15, <1>16, <1>17, <1>18, <1>19, <1>20, <1>21,
     <1>22, <1>23, <1>24, <1>25, <1>26, <1>27, <1>28, <1>29 DEF Next, Step,
     CheckOut, Dial, CallbackStep, Return, Abandon, Put

\* "the pool cannot exceed `size`": connections and dials together, whatever
\* the interleaving of Use and Close.
THEOREM BoundHolds == Spec => []PoolBound
<1>1. Init => OwnershipInv /\ TokenInv /\ BoundInv
  <2> SUFFICES ASSUME Init PROVE OwnershipInv /\ TokenInv /\ BoundInv
    OBVIOUS
  <2>1. OwnershipInv
    BY PoolAssumption DEF Init, OwnershipInv, OneOwner, HeldOnce, IdleOnce, PlacesApart,
       NoneLost, Placed, ClosedPoolIsEmpty, ClosingMeansClosed
  <2>2. Holders = {} /\ Live = {} /\ Dialing = {} /\ tokens = Size
    BY DEF Init, Holders, Leased, Places, Live, Dialing
  <2> QED
    BY <2>1, <2>2, FS_EmptySet, PoolAssumption
    DEF TokenInv, TokenConservation, BoundInv, PoolBound
<1>2. TypeOK /\ OwnershipInv /\ TokenInv /\ BoundInv /\ [Next]_vars
      => OwnershipInv' /\ TokenInv' /\ BoundInv'
  BY OwnershipStep, TokenStep, BoundStep
<1>3. BoundInv => PoolBound
  BY DEF BoundInv
<1> QED
  BY <1>1, <1>2, <1>3, TypeCorrect, PTL DEF Spec

-----------------------------------------------------------------------------
(* The pool implements Lease.                                              *)

\* A step of Use moves the caller between the phases of Lease.
LEMMA MoveBar ==
  ASSUME TypeOK, NEW k \in Callers, NEW p \in Places, NEW q \in Places, Go(k, p, q)
  PROVE  /\ phaseBar[k] = PhaseOf(p)
         /\ phaseBar' = [phaseBar EXCEPT ![k] = PhaseOf(q)]
BY DEF TypeOK, Go, phaseBar

\* A step within one phase of Lease is no step of Lease.
LEMMA StayBar ==
  ASSUME TypeOK, NEW k \in Callers, NEW p \in Places, NEW q \in Places, Go(k, p, q),
         PhaseOf(p) = PhaseOf(q)
  PROVE  phaseBar' = phaseBar
<1>1. phaseBar' = [phaseBar EXCEPT ![k] = phaseBar[k]]
  BY MoveBar
<1> QED
  BY <1>1 DEF phaseBar

\* Every step of the pool is a step of Lease or none.
LEMMA LeaseStep ==
  ASSUME Habits = {}, TypeOK, OwnershipInv, TokenInv, CleanInv, BlocksInv, IdleHasNoBlock,
         [Next]_vars
  PROVE  [L!Next]_(L!vars)
<1> USE DEF L!vars
<1>0. /\ HeldOnce /\ IdleOnce /\ PlacesApart /\ NoneLost
      /\ \A k \in Callers : pc[k] \in {"callback", "abandon", "put", "retire"}
                              => held[k] \in Conns
  BY DEF OwnershipInv, OneOwner, TypeOK
<1>1. ASSUME NEW k \in Callers, Call(k) PROVE [L!Next]_(L!vars)
  <2>1. Go(k, "out", "waiting")
    BY <1>1 DEF Call
  <2>2. UNCHANGED <<held, dirtyBar>>
    BY <1>1 DEF Call, pool, client, dirtyBar
  <2>3. L!Ask(k)
    BY <2>1, <2>2, MoveBar DEF L!Ask, L!Move, Places, PhaseOf
  <2> QED
    BY <2>3 DEF L!Next
<1>2. ASSUME NEW k \in Callers, GiveUp(k) PROVE [L!Next]_(L!vars)
  <2>1. Go(k, "waiting", "out")
    BY <1>2 DEF GiveUp
  <2>2. UNCHANGED <<held, dirtyBar>>
    BY <1>2 DEF GiveUp, pool, client, dirtyBar
  <2>3. L!GiveUp(k)
    BY <2>1, <2>2, MoveBar DEF L!GiveUp, L!Move, Places, PhaseOf
  <2> QED
    BY <2>3 DEF L!Next
<1>3. ASSUME NEW k \in Callers, TakeToken(k) PROVE [L!Next]_(L!vars)
  <2>1. Go(k, "waiting", "slot") /\ UNCHANGED <<held, dirtyBar>> /\ tokens > 0
    BY <1>3 DEF TakeToken, client, dirtyBar
  <2>2. L!Admitted = Holders
    BY DEF L!Admitted, Holders, Leased, Places, phaseBar, PhaseOf, TypeOK
  <2>3. Cardinality(Holders) \in Nat /\ tokens \in Nat /\ Size \in Nat
    BY FS_CardinalityType, PoolAssumption DEF TokenInv, TypeOK
  <2>4. Cardinality(L!Admitted) < Size
    BY <2>1, <2>2, <2>3 DEF TokenInv, TokenConservation
  <2>5. L!Move(k, "asking", "admitted")
    BY <2>1, MoveBar DEF L!Move, Places, PhaseOf
  <2>6. L!Cardinality(L!Admitted) = Cardinality(L!Admitted)
    BY DEF L!Cardinality, Cardinality
  <2>7. L!Admit(k)
    BY <2>1, <2>4, <2>5, <2>6 DEF L!Admit
  <2> QED
    BY <2>7 DEF L!Next
<1>4. ASSUME NEW k \in Callers, CheckOutRefused(k) PROVE [L!Next]_(L!vars)
  <2>1. Go(k, "slot", "release")
    BY <1>4 DEF CheckOutRefused
  <2>2. UNCHANGED <<held, dirtyBar>>
    BY <1>4 DEF CheckOutRefused, pool, client, dirtyBar
  <2>3. L!Refuse(k)
    BY <2>1, <2>2, MoveBar DEF L!Refuse, L!Move, Places, PhaseOf
  <2> QED
    BY <2>3 DEF L!Next
<1>5. ASSUME NEW k \in Callers, CheckOutIdle(k) PROVE [L!Next]_(L!vars)
  <2> DEFINE c == idle[Len(idle)]
  <2>1. Go(k, "slot", "callback") /\ UNCHANGED dirtyBar /\ held' = [held EXCEPT ![k] = c]
    BY <1>5 DEF CheckOutIdle, client, dirtyBar
  <2>2. Len(idle) \in DOMAIN idle /\ c \in Conns
    BY <1>5 DEF CheckOutIdle, TypeOK
  <2>3. c \in Conns \ dirtyBar
    BY <2>2 DEF IdleHasNoBlock, dirtyBar
  <2>4. \A j \in Callers : held[j] # c
    BY <1>0, <2>2 DEF PlacesApart
  <2> HIDE DEF c
  <2>5. L!Lend(k)
    BY <2>1, <2>3, <2>4, MoveBar DEF L!Lend, L!Move, Places, PhaseOf
  <2> QED
    BY <2>5 DEF L!Next
<1>6. ASSUME NEW k \in Callers, CheckOutDial(k) PROVE [L!Next]_(L!vars)
  <2>1. Go(k, "slot", "dialing")
    BY <1>6 DEF CheckOutDial
  <2>2. phaseBar' = phaseBar
    BY <2>1, StayBar DEF Places, PhaseOf
  <2> QED
    BY <1>6, <2>2 DEF CheckOutDial, pool, client, dirtyBar
<1>7. ASSUME NEW k \in Callers, DialOk(k) PROVE [L!Next]_(L!vars)
  <2>1. PICK c \in Conns : sock[c] = "none" /\ held' = [held EXCEPT ![k] = c]
    BY <1>7 DEF DialOk
  <2>2. Go(k, "dialing", "callback") /\ UNCHANGED dirtyBar
    BY <1>7 DEF DialOk, dirtyBar
  <2>3. c \notin dirtyBar
    BY <2>1 DEF BlocksInv, dirtyBar
  <2>4. \A j \in Callers : held[j] # c
    BY <1>0, <2>1 DEF NoneLost, Placed
  <2>5. L!Lend(k)
    BY <2>1, <2>2, <2>3, <2>4, MoveBar DEF L!Lend, L!Move, Places, PhaseOf
  <2> QED
    BY <2>5 DEF L!Next
<1>8. ASSUME NEW k \in Callers, DialFail(k) PROVE [L!Next]_(L!vars)
  <2>1. Go(k, "dialing", "release")
    BY <1>8 DEF DialFail
  <2>2. UNCHANGED <<held, dirtyBar>>
    BY <1>8 DEF DialFail, pool, client, dirtyBar
  <2>3. L!Refuse(k)
    BY <2>1, <2>2, MoveBar DEF L!Refuse, L!Move, Places, PhaseOf
  <2> QED
    BY <2>3 DEF L!Next
<1>9. ASSUME NEW k \in Callers, Begin(k) PROVE [L!Next]_(L!vars)
  <2>1. held[k] \in Conns /\ phaseBar[k] = "using" /\ phaseBar' = phaseBar /\ held' = held
    BY <1>9, <1>0 DEF Begin, pool, Running, TypeOK, Places, phaseBar, PhaseOf
  <2>2. \/ dirtyBar' = dirtyBar \cup {held[k]}
        \/ dirtyBar' = dirtyBar \ {held[k]}
    BY <1>9, <2>1 DEF Begin, pool, Running, TypeOK, dirtyBar
  <2>3. L!Use(k)
    BY <2>1, <2>2 DEF L!Use
  <2> QED
    BY <2>3 DEF L!Next
<1>10. ASSUME NEW k \in Callers, EndBlock(k) PROVE [L!Next]_(L!vars)
  <2>1. held[k] \in Conns /\ phaseBar[k] = "using" /\ phaseBar' = phaseBar /\ held' = held
    BY <1>10, <1>0 DEF EndBlock, pool, Running, EndInnermost, TypeOK, Places,
       phaseBar, PhaseOf
  <2>2. \/ dirtyBar' = dirtyBar \cup {held[k]}
        \/ dirtyBar' = dirtyBar \ {held[k]}
    BY <1>10, <2>1 DEF EndBlock, pool, Running, EndInnermost, TypeOK, dirtyBar
  <2>3. L!Use(k)
    BY <2>1, <2>2 DEF L!Use
  <2> QED
    BY <2>3 DEF L!Next
<1>11. ASSUME NEW k \in Callers, EndRefused(k) PROVE [L!Next]_(L!vars)
  <2>1. held[k] \in Conns /\ phaseBar[k] = "using" /\ phaseBar' = phaseBar /\ held' = held
    BY <1>11, <1>0 DEF EndRefused, pool, Running, EndAll, TypeOK, Places,
       phaseBar, PhaseOf
  <2>2. \/ dirtyBar' = dirtyBar \cup {held[k]}
        \/ dirtyBar' = dirtyBar \ {held[k]}
    BY <1>11, <2>1 DEF EndRefused, pool, Running, EndAll, TypeOK, dirtyBar
  <2>3. L!Use(k)
    BY <2>1, <2>2 DEF L!Use
  <2> QED
    BY <2>3 DEF L!Next
<1>12. ASSUME NEW k \in Callers, Fault(k) PROVE [L!Next]_(L!vars)
  <2>1. held[k] \in Conns /\ phaseBar[k] = "using" /\ phaseBar' = phaseBar /\ held' = held
    BY <1>12, <1>0 DEF Fault, pool, Running, TypeOK, Places, phaseBar, PhaseOf
  <2>2. \/ dirtyBar' = dirtyBar \cup {held[k]}
        \/ dirtyBar' = dirtyBar \ {held[k]}
    BY <1>12, <2>1 DEF Fault, pool, Running, TypeOK, dirtyBar
  <2>3. L!Use(k)
    BY <2>1, <2>2 DEF L!Use
  <2> QED
    BY <2>3 DEF L!Next
<1>13. ASSUME NEW k \in Callers, BeginMisread(k) \/ EndMisread(k) PROVE [L!Next]_(L!vars)
  <2>1. held[k] \in Conns /\ phaseBar[k] = "using" /\ phaseBar' = phaseBar /\ held' = held
    BY <1>13, MisreadSteps DEF TypeOK, Places, phaseBar, PhaseOf
  <2>2. \/ dirtyBar' = dirtyBar \cup {held[k]}
        \/ dirtyBar' = dirtyBar \ {held[k]}
    BY <1>13, <2>1, MisreadSteps DEF TypeOK, dirtyBar
  <2>3. L!Use(k)
    BY <2>1, <2>2 DEF L!Use
  <2> QED
    BY <2>3 DEF L!Next
<1>14. ASSUME NEW k \in Callers, NEW change \in {-1, 1}, RawControl(k, change) PROVE [L!Next]_(L!vars)
  BY <1>14 DEF RawControl
<1>15. ASSUME NEW k \in Callers, NEW sentinel \in BOOLEAN, ReturnError(k, sentinel) PROVE [L!Next]_(L!vars)
  <2>1. PICK q \in {"abandon", "put"} : Go(k, "callback", q)
    BY <1>15 DEF ReturnError
  <2>2. phaseBar' = phaseBar
    BY <2>1, StayBar DEF Places, PhaseOf
  <2> QED
    BY <1>15, <2>2 DEF ReturnError, client, dirtyBar
<1>16. ASSUME NEW k \in Callers, ReturnNil(k) PROVE [L!Next]_(L!vars)
  <2>1. PICK q \in {"abandon", "put"} : Go(k, "callback", q)
    BY <1>16 DEF ReturnNil
  <2>2. phaseBar' = phaseBar
    BY <2>1, StayBar DEF Places, PhaseOf
  <2> QED
    BY <1>16, <2>2 DEF ReturnNil, client, dirtyBar
<1>17. ASSUME NEW k \in Callers, Panic(k) PROVE [L!Next]_(L!vars)
  <2>1. Go(k, "callback", "put")
    BY <1>17 DEF Panic
  <2>2. phaseBar' = phaseBar
    BY <2>1, StayBar DEF Places, PhaseOf
  <2> QED
    BY <1>17, <2>2 DEF Panic, pool, client, dirtyBar
<1>18. ASSUME NEW k \in Callers, Goexit(k) PROVE [L!Next]_(L!vars)
  <2>1. Go(k, "callback", "put")
    BY <1>18 DEF Goexit
  <2>2. phaseBar' = phaseBar
    BY <2>1, StayBar DEF Places, PhaseOf
  <2> QED
    BY <1>18, <2>2 DEF Goexit, pool, client, dirtyBar
<1>19. ASSUME NEW k \in Callers, AbandonStep(k) PROVE [L!Next]_(L!vars)
  <2>1. held[k] \in Conns /\ phaseBar[k] = "using" /\ phaseBar' = phaseBar /\ held' = held
    BY <1>19, <1>0 DEF AbandonStep, pool, EndInnermost, TypeOK, Places,
       phaseBar, PhaseOf
  <2>2. \/ dirtyBar' = dirtyBar \cup {held[k]}
        \/ dirtyBar' = dirtyBar \ {held[k]}
    BY <1>19, <2>1 DEF AbandonStep, pool, EndInnermost, TypeOK, dirtyBar
  <2>3. L!Use(k)
    BY <2>1, <2>2 DEF L!Use
  <2> QED
    BY <2>3 DEF L!Next
<1>20. ASSUME NEW k \in Callers, AbandonFails(k) PROVE [L!Next]_(L!vars)
  <2>1. held[k] \in Conns /\ phaseBar[k] = "using" /\ phaseBar' = phaseBar /\ held' = held
    BY <1>20, <1>0 DEF AbandonFails, Go, pool, EndAll, TypeOK, Places,
       phaseBar, PhaseOf
  <2>2. \/ dirtyBar' = dirtyBar \cup {held[k]}
        \/ dirtyBar' = dirtyBar \ {held[k]}
    BY <1>20, <2>1 DEF AbandonFails, Go, pool, EndAll, Left, TypeOK, dirtyBar
  <2>3. L!Use(k)
    BY <2>1, <2>2 DEF L!Use
  <2> QED
    BY <2>3 DEF L!Next
<1>21. ASSUME NEW k \in Callers, AbandonDone(k) PROVE [L!Next]_(L!vars)
  <2>1. Go(k, "abandon", "put")
    BY <1>21 DEF AbandonDone
  <2>2. phaseBar' = phaseBar
    BY <2>1, StayBar DEF Places, PhaseOf
  <2> QED
    BY <1>21, <2>2 DEF AbandonDone, pool, client, dirtyBar
<1>22. ASSUME NEW k \in Callers, PutIdle(k) PROVE [L!Next]_(L!vars)
  <2>1. Go(k, "put", "release") /\ UNCHANGED dirtyBar /\ held' = [held EXCEPT ![k] = NoConn]
    BY <1>22 DEF PutIdle, client, dirtyBar
  <2>2. held[k] \notin dirtyBar
    BY <1>22 DEF PutIdle, Go, BlocksInv, CleanInv, Returning, Doubtful, InTransaction, Poisoned, dirtyBar
  <2>3. L!TakeBack(k)
    BY <2>1, <2>2, MoveBar DEF L!TakeBack, L!Move, Places, PhaseOf
  <2> QED
    BY <2>3 DEF L!Next
<1>23. ASSUME NEW k \in Callers, PutRetire(k) PROVE [L!Next]_(L!vars)
  <2>1. Go(k, "put", "retire")
    BY <1>23 DEF PutRetire
  <2>2. phaseBar' = phaseBar
    BY <2>1, StayBar DEF Places, PhaseOf
  <2> QED
    BY <1>23, <2>2 DEF PutRetire, pool, client, dirtyBar
<1>24. ASSUME NEW k \in Callers, Retire(k) PROVE [L!Next]_(L!vars)
  <2>1. Go(k, "retire", "release") /\ held' = [held EXCEPT ![k] = NoConn]
    BY <1>24 DEF Retire
  <2>2. held[k] \in Conns
    BY <1>0, <2>1 DEF Go
  <2>3. dirtyBar' = dirtyBar \ {held[k]}
    BY <1>24, <2>2 DEF Retire, Discard, dirtyBar, TypeOK
  <2>4. L!TakeBack(k)
    BY <2>1, <2>3, MoveBar DEF L!TakeBack, L!Move, Places, PhaseOf
  <2> QED
    BY <2>4 DEF L!Next
<1>25. ASSUME NEW k \in Callers, Release(k) PROVE [L!Next]_(L!vars)
  <2>1. Go(k, "release", "out")
    BY <1>25 DEF Release
  <2>2. UNCHANGED <<held, dirtyBar>>
    BY <1>25 DEF Release, client, dirtyBar
  <2>3. L!Leave(k)
    BY <2>1, <2>2, MoveBar DEF L!Leave, L!Move, Places, PhaseOf
  <2> QED
    BY <2>3 DEF L!Next
<1>26. ASSUME Close PROVE [L!Next]_(L!vars)
  BY <1>26 DEF Close, client, dirtyBar, phaseBar
<1>27. ASSUME NEW c \in Conns, Sever(c) PROVE [L!Next]_(L!vars)
  <2>1. dirtyBar' = dirtyBar \ {c} /\ UNCHANGED <<phaseBar, held>>
    BY <1>27 DEF Sever, dirtyBar, phaseBar, TypeOK
  <2>2. L!Clean(c)
    BY <2>1 DEF L!Clean
  <2> QED
    BY <2>2 DEF L!Next
<1>28. ASSUME NEW c \in Conns, CloseIdle(c) PROVE [L!Next]_(L!vars)
  <2>1. dirtyBar' = dirtyBar \ {c} /\ UNCHANGED <<phaseBar, held>>
    BY <1>28 DEF CloseIdle, Discard, dirtyBar, phaseBar, TypeOK
  <2>2. L!Clean(c)
    BY <2>1 DEF L!Clean
  <2> QED
    BY <2>2 DEF L!Next
<1>29. ASSUME UNCHANGED vars PROVE [L!Next]_(L!vars)
  BY <1>29 DEF vars, dirtyBar, phaseBar
<1> QED
  BY <1>1, <1>2, <1>3, <1>4, <1>5, <1>6, <1>7, <1>8, <1>9, <1>10, <1>11,
     <1>12, <1>13, <1>14, <1>15, <1>16, <1>17, <1>18, <1>19, <1>20, <1>21,
     <1>22, <1>23, <1>24, <1>25, <1>26, <1>27, <1>28, <1>29 DEF Next, Step,
     CheckOut, Dial, CallbackStep, Return, Abandon, Put

\* Pool.Use keeps the promise of Lease: callers get exclusive, clean connections,
\* at most Size at once, as long as callbacks have none of the bad habits.
THEOREM PoolImplementsLease == Habits = {} => (Spec => ImplementsLease)
<1> SUFFICES ASSUME Habits = {} PROVE Spec => ImplementsLease
  OBVIOUS
<1> DEFINE Inv == OwnershipInv /\ TokenInv /\ BlocksInv /\ IdleHasNoBlock
<1>1. Init => Inv /\ L!Init
  <2> SUFFICES ASSUME Init PROVE Inv /\ L!Init
    OBVIOUS
  <2>1. OwnershipInv /\ BlocksInv /\ IdleHasNoBlock
    BY PoolAssumption DEF Init, OwnershipInv, OneOwner, HeldOnce, IdleOnce, PlacesApart,
       NoneLost, Placed, ClosedPoolIsEmpty, ClosingMeansClosed, BlocksInv, IdleHasNoBlock
  <2>2. Holders = {} /\ tokens = Size
    BY DEF Init, Holders, Leased, Places
  <2>3. TokenInv
    BY <2>2, FS_EmptySet, PoolAssumption DEF TokenInv, TokenConservation
  <2>4. L!Init
    BY DEF Init, L!Init, phaseBar, PhaseOf, dirtyBar
  <2> QED
    BY <2>1, <2>3, <2>4
<1>2. TypeOK /\ CleanInv /\ Inv /\ [Next]_vars => Inv' /\ [L!Next]_(L!vars)
  BY OwnershipStep, TokenStep, BlocksStep, LeaseStep
<1> QED
  BY <1>1, <1>2, StaysClean, TypeCorrect, PTL DEF Spec, ImplementsLease, L!Spec
=============================================================================
