---------------------------- MODULE SessionProofs ----------------------------
(***************************************************************************)
(* Proofs about Session, for blocks of any depth.                          *)
(***************************************************************************)
EXTENDS Session, TLAPS

Keywords == {"BEGIN", "COMMIT", "ROLLBACK"}

\* What Control may change, typed.
ServerTypes ==
  /\ txnOpen \in BOOLEAN /\ sock \in {"open", "severed", "dropped"} /\ granted \in BOOLEAN
  /\ depth \in 0..MaxDepth /\ aborted \in BOOLEAN /\ (aborted => depth > 0)
  /\ work \in {"none", "pending", "durable", "gone"} /\ lapses \subseteq Lapses

\* A control statement the server grants keeps the types of its side.
LEMMA GrantTyped ==
  ASSUME TypeOK, NEW keyword \in Keywords, Grants(keyword)
  PROVE  /\ depth' \in 0..MaxDepth /\ work' \in {"none", "pending", "durable", "gone"}
         /\ aborted' \in BOOLEAN /\ (aborted' => depth' > 0)
<1> USE SessionAssumption DEF TypeOK
<1>1. CASE keyword = "BEGIN"
  BY <1>1 DEF Grants
<1>2. CASE keyword = "COMMIT"
  BY <1>2 DEF Grants, Settle
<1>3. CASE keyword = "ROLLBACK"
  <2>1. depth > 0 /\ depth' = depth - 1
    BY <1>3 DEF Grants
  <2>3. aborted' \in BOOLEAN /\ ~aborted'
    BY <1>3 DEF Grants
  <2>2. work' \in {"none", "pending", "durable", "gone"}
    BY <1>3 DEF Grants, Settle
  <2> QED
    BY <2>1, <2>2, <2>3
<1> QED
  BY <1>1, <1>2, <1>3 DEF Keywords

\* So does the rollback of the whole transaction.
LEMMA RollBackTyped ==
  ASSUME TypeOK, RollsBack
  PROVE  /\ depth' = 0 /\ aborted' = FALSE /\ work' \in {"none", "durable", "gone"}
         /\ depth' \in 0..MaxDepth
<1>1. depth' = 0 /\ aborted' = FALSE
  BY DEF RollsBack
<1>2. work' \in {"none", "durable", "gone"}
  BY DEF RollsBack, Settle, TypeOK
<1> QED
  BY <1>1, <1>2, SessionAssumption

\* The flag is TRUE or FALSE whatever the answer.
LEMMA FlagTyped ==
  ASSUME NEW keyword, NEW r, txnOpen' = Flag(keyword, r)
  PROVE  txnOpen' \in BOOLEAN
<1> DEFINE nested == depth' > 0
<1>1. txnOpen' = IF r \in {"ok", "body"} THEN keyword = "BEGIN" \/ (r = "ok" /\ nested)
                                         ELSE (keyword = "BEGIN" \/ r = "argument") /\ txnOpen
  BY DEF Flag
<1> HIDE DEF nested
<1> QED
  BY <1>1

\* A control statement keeps every type but that of pc, which it leaves to its
\* caller.
LEMMA ControlTyped ==
  ASSUME TypeOK, NEW keyword \in Keywords, NEW r \in Outcomes, Control(keyword, r)
  PROVE  ServerTypes'
<1>1. txnOpen' \in BOOLEAN
  BY FlagTyped DEF Control
<1>2. granted' \in BOOLEAN
  BY DEF Control, TypeOK
<1>3. lapses' \subseteq Lapses
  BY DEF Control, TypeOK, LapsesOf
<1>4. /\ depth' \in 0..MaxDepth /\ aborted' \in BOOLEAN /\ (aborted' => depth' > 0)
      /\ work' \in {"none", "pending", "durable", "gone"} /\ sock' \in {"open", "severed", "dropped"}
  <2>1. CASE r \in {"ok", "body", "frame"}
    BY <2>1, GrantTyped DEF Control, TypeOK
  <2>2. CASE r = "refused"
    BY <2>2, RollBackTyped DEF Control, Refuses, server, TypeOK
  <2>3. CASE r = "lost"
    <3>1. Loses(keyword) /\ sock' = "dropped"
      BY <2>3 DEF Control
    <3>2. CASE RollsBack
      BY <3>1, <3>2, RollBackTyped
    <3>3. CASE ~RollsBack
      <4>1. depth' = 0 /\ aborted' \in BOOLEAN /\ ~aborted'
        BY <3>1, <3>3 DEF Loses
      <4>2. work' \in {"none", "pending", "durable", "gone"}
        BY <3>1, <3>3 DEF Loses, Settle, TypeOK
      <4> QED
        BY <3>1, <4>1, <4>2, SessionAssumption
    <3> QED
      BY <3>2, <3>3
  <2>4. CASE r = "argument"
    BY <2>4 DEF Control, server, TypeOK
  <2> QED
    BY <2>1, <2>2, <2>3, <2>4 DEF Outcomes
<1> QED
  BY <1>1, <1>2, <1>3, <1>4 DEF ServerTypes

\* So does the best-effort rollback.
LEMMA AbandonTyped ==
  ASSUME TypeOK, AbandonBlock
  PROVE  ServerTypes'
<1>1. CASE InTransaction
  BY <1>1, ControlTyped DEF AbandonBlock, Keywords
<1>2. CASE ~InTransaction
  BY <1>2 DEF AbandonBlock, server, TypeOK, ServerTypes
<1> QED
  BY <1>1, <1>2

\* A fresh connection has the right types.
LEMMA InitTyped == Init => TypeOK
<1> SUFFICES ASSUME Init PROVE TypeOK
  OBVIOUS
<1>1. txnOpen \in BOOLEAN /\ granted \in BOOLEAN /\ aborted \in BOOLEAN
  BY DEF Init
<1>2. depth \in 0..MaxDepth /\ lapses \subseteq Lapses
  BY SessionAssumption DEF Init
<1>3. /\ pc \in Places /\ result \in Results /\ sock \in {"open", "severed", "dropped"}
      /\ work \in {"none", "pending", "durable", "gone"}
  BY DEF Init, Places, Results
<1>4. (aborted => depth > 0) /\ (result = "nil" => pc = "returned")
  BY DEF Init
<1> QED
  BY <1>1, <1>2, <1>3, <1>4 DEF TypeOK

\* Every variable keeps its type, and WithTransaction returns nil or something
\* else but does not go on after it has decided to return nil.
THEOREM TypeCorrect == Spec => []TypeOK
<1>1. Init => TypeOK
  BY InitTyped
<1>2. TypeOK /\ [Next]_vars => TypeOK'
  <2> SUFFICES ASSUME TypeOK, [Next]_vars PROVE TypeOK'
    OBVIOUS
  <2>1. CASE WithTransaction \/ BeginNotGranted
    BY <2>1 DEF WithTransaction, BeginNotGranted, Go, server, TypeOK, Places, Results
  <2>2. CASE BeginOk
    BY <2>2, ControlTyped DEF BeginOk, Go, TypeOK, Places, Results, Outcomes, Keywords, ServerTypes
  <2>3. CASE BeginFails
    <3>1. PICK r \in Outcomes \ {"ok"} : Control("BEGIN", r) /\ result' = ErrorOf(r)
      BY <2>3 DEF BeginFails
    <3>2. ServerTypes'
      BY <3>1, ControlTyped DEF Keywords
    <3> QED
      BY <2>3, <3>1, <3>2 DEF BeginFails, Go, TypeOK, Places, Results, ErrorOf, ServerTypes
  <2>4. CASE Exec \/ ExecFails
    BY <2>4 DEF Exec, ExecFails, TypeOK
  <2>5. CASE ExecLost \/ Sever
    BY <2>5, RollBackTyped DEF ExecLost, Sever, TypeOK
  <2>6. CASE FnBegins \/ FnEnds
    <3>1. ServerTypes'
      BY <2>6, ControlTyped DEF FnBegins, FnEnds, Keywords
    <3> QED
      BY <2>6, <3>1 DEF FnBegins, FnEnds, TypeOK, ServerTypes
  <2>7. CASE FnReturnsNil \/ FnReturnsError \/ FnGoexits \/ FnPanics
    <3>1. lapses' \subseteq Lapses /\ UNCHANGED <<txnOpen, sock, granted, depth, aborted, work>>
      BY <2>7 DEF FnReturnsNil, FnReturnsError, FnGoexits, FnPanics, FnExits, server, TypeOK, Lapses
    <3>2. pc' \in Places /\ result' \in Results /\ result' # "nil"
      BY <2>7 DEF FnReturnsNil, FnReturnsError, FnGoexits, FnPanics, FnExits, Go, TypeOK, Places, Results
    <3> QED
      BY <3>1, <3>2 DEF TypeOK
  <2>8. CASE CommitOk
    <3>1. ServerTypes'
      BY <2>8, ControlTyped DEF CommitOk, Keywords, Outcomes
    <3> QED
      BY <2>8, <3>1 DEF CommitOk, Go, TypeOK, Places, Results, ServerTypes
  <2>9. CASE CommitFails
    <3>1. PICK r \in Outcomes \ {"ok"} : Control("COMMIT", r) /\ result' = ErrorOf(r)
      BY <2>9 DEF CommitFails
    <3>2. ServerTypes'
      BY <3>1, ControlTyped DEF Keywords
    <3> QED
      BY <2>9, <3>1, <3>2 DEF CommitFails, Go, TypeOK, Places, Results, ErrorOf, ServerTypes
  <2>10. CASE Failed \/ Deferred \/ Panicked
    <3>1. ServerTypes'
      BY <2>10, AbandonTyped DEF Failed, Deferred, Panicked
    <3> QED
      BY <2>10, <3>1 DEF Failed, Deferred, Panicked, Go, TypeOK, Places, ServerTypes
  <2>11. CASE Again
    BY <2>11 DEF Again, Go, TypeOK, Places, Results
  <2>12. CASE Reconnect
    <3>1. txnOpen' \in BOOLEAN /\ granted' \in BOOLEAN /\ aborted' \in BOOLEAN /\ aborted' = FALSE
      BY <2>12 DEF Reconnect
    <3> QED
      BY <2>12, <3>1, SessionAssumption DEF Reconnect, Go, TypeOK, Places, Results
  <2>13. CASE UNCHANGED vars
    BY <2>13 DEF vars, TypeOK
  <2> QED
    BY <2>1, <2>2, <2>3, <2>4, <2>5, <2>6, <2>7, <2>8, <2>9, <2>10, <2>11, <2>12, <2>13 DEF Next
<1> QED
  BY <1>1, <1>2, PTL DEF Spec

-----------------------------------------------------------------------------
Careful == lapses \subseteq {"busy"}

\* A block is open only in a session that stands, and work is pending only in
\* a block.  As long as nothing went wrong outside the code, each path brings
\* the depth down, and only COMMIT makes work durable.
Inv ==
  /\ TypeOK
  /\ TxnTracking
  /\ depth > 0 => sock = "open"
  /\ work = "pending" => depth > 0
  /\ pc \in {"idle", "begin"} => work = "none"
  /\ lapses = {} /\ pc \in {"idle", "begin", "returned"} => depth = 0
  /\ Careful /\ pc \in {"commit", "failed", "deferred", "panicked"} => depth <= 1
  /\ Careful /\ depth > 0 => work \in {"none", "pending"}
  /\ lapses = {} /\ pc \in {"fn", "commit", "failed", "panicked"} => work # "durable"
  /\ lapses = {} /\ pc \in {"deferred", "returned"} /\ result \in {"fnError", "panic", "refused"}
       => work # "durable"
  /\ result = "nil" /\ Careful => work \in {"none", "durable"}

\* What Control keeps of the invariant, wherever it is called.
ControlInv ==
  /\ TxnTracking
  /\ depth > 0 => sock = "open"
  /\ work = "pending" => depth > 0

\* Control leaves a lapse behind unless it was carried out or refused.
LEMMA ControlLapses ==
  ASSUME NEW keyword \in Keywords, NEW r \in Outcomes, Control(keyword, r)
  PROVE  /\ lapses \subseteq lapses'
         /\ lapses' = {} => r \in {"ok", "refused", "lost"}
         /\ Careful' => Careful /\ r \in {"ok", "refused", "lost", "argument"}
         /\ "garbled" \notin lapses' => r \in {"ok", "refused", "lost", "argument"}
         /\ pc = "fn" /\ keyword = "BEGIN" /\ ~InTransaction => "careless" \in lapses'
         /\ pc = "fn" /\ keyword # "BEGIN" /\ depth < 2 => "careless" \in lapses'
BY DEF Control, LapsesOf, Lapses, Outcomes, Careful, Keywords

\* The flag stays true to the server through every outcome that can be read.
LEMMA ControlTracks ==
  ASSUME TypeOK, ControlInv, NEW keyword \in Keywords, NEW r \in Outcomes, Control(keyword, r)
  PROVE  ControlInv'
<1> USE DEF ControlInv, TypeOK
<1>1. CASE r \in {"body", "frame"}
  <2>1. "garbled" \in lapses'
    BY <1>1, ControlLapses
  <2>2. Grants(keyword) /\ sock = "open" /\ sock' = "open"
    BY <1>1 DEF Control
  <2>3. work' = "pending" => depth' > 0
    BY <2>2 DEF Grants, Settle, Keywords
  <2> QED
    BY <2>1, <2>2, <2>3 DEF TxnTracking
<1>2. CASE r = "ok"
  <2>1. Grants(keyword) /\ sock = "open" /\ sock' = "open" /\ lapses \subseteq lapses'
    BY <1>2, ControlLapses DEF Control
  <2>2. work' = "pending" => depth' > 0
    BY <2>1 DEF Grants, Settle, Keywords
  <2>3. txnOpen' <=> keyword = "BEGIN" \/ depth' > 0
    BY <1>2 DEF Control, Flag
  <2>4. keyword = "BEGIN" => depth' > 0
    BY <2>1 DEF Grants
  <2> QED
    BY <2>1, <2>2, <2>3, <2>4 DEF TxnTracking
<1>3. CASE r = "refused"
  <2>1. sock' = "open" /\ sock = "open" /\ lapses \subseteq lapses'
    BY <1>3, ControlLapses DEF Control
  <2>2. CASE keyword = "BEGIN"
    <3>1. UNCHANGED <<depth, work>> /\ (txnOpen' <=> txnOpen)
      BY <1>3, <2>2 DEF Control, Refuses, server, Flag
    <3> QED
      BY <2>1, <3>1 DEF TxnTracking
  <2>3. CASE keyword # "BEGIN"
    <3>1. depth' = 0 /\ ~txnOpen' /\ work' # "pending"
      BY <1>3, <2>3 DEF Control, Refuses, RollsBack, Settle, Flag
    <3> QED
      BY <2>1, <3>1 DEF TxnTracking
  <2> QED
    BY <2>2, <2>3
<1>4. CASE r = "lost"
  <2>1. sock' = "dropped" /\ depth' = 0 /\ work' # "pending"
    BY <1>4 DEF Control, Loses, RollsBack, Settle
  <2> QED
    BY <2>1 DEF TxnTracking
<1>5. CASE r = "argument"
  <2>1. UNCHANGED <<sock, depth, work>> /\ (txnOpen' <=> txnOpen) /\ lapses \subseteq lapses'
    BY <1>5, ControlLapses DEF Control, server, Flag
  <2> QED
    BY <2>1 DEF TxnTracking
<1> QED
  BY <1>1, <1>2, <1>3, <1>4, <1>5 DEF Outcomes

\* A COMMIT or ROLLBACK that no lapse excuses brings the depth down; only a
\* COMMIT makes work durable.
LEMMA EndGoesDown ==
  ASSUME TypeOK, NEW keyword \in {"COMMIT", "ROLLBACK"}, NEW r \in Outcomes, Control(keyword, r)
  PROVE  /\ depth' \in Nat /\ depth' <= depth
         /\ r \in {"ok", "refused", "lost"} /\ depth <= 1 => depth' = 0
         /\ keyword = "ROLLBACK" /\ work # "durable" => work' # "durable"
         /\ r = "refused" /\ work # "durable" => work' # "durable"
         /\ work' = work \/ (work = "pending" /\ depth' = 0)
<1> USE SessionAssumption DEF TypeOK
<1>1. CASE r \in {"ok", "body", "frame"}
  <2>1. Grants(keyword)
    BY <1>1 DEF Control
  <2> QED
    BY <1>1, <2>1 DEF Grants, Settle
<1>2. CASE r = "refused"
  BY <1>2 DEF Control, Refuses, RollsBack, Settle
<1>3. CASE r = "lost"
  BY <1>3 DEF Control, Loses, RollsBack, Settle
<1>4. CASE r = "argument"
  BY <1>4 DEF Control, server
<1> QED
  BY <1>1, <1>2, <1>3, <1>4 DEF Outcomes

\* The best-effort rollback: the block of WithTransaction is gone after it.
LEMMA AbandonGoesDown ==
  ASSUME TypeOK, ControlInv, AbandonBlock
  PROVE  /\ ControlInv' /\ lapses \subseteq lapses' /\ depth' \in Nat /\ depth' <= depth
         /\ lapses' = {} /\ depth <= 1 => depth' = 0
         /\ work # "durable" => work' # "durable"
         /\ work' = work \/ (work = "pending" /\ depth' = 0)
         /\ Careful' => Careful
<1>1. CASE InTransaction
  <2>1. PICK r \in Outcomes : Control("ROLLBACK", r)
    BY <1>1 DEF AbandonBlock
  <2>2. "ROLLBACK" \in Keywords
    BY DEF Keywords
  <2>3. ControlInv'
    BY <2>1, <2>2, ControlTracks
  <2>4. lapses \subseteq lapses' /\ (lapses' = {} => r \in {"ok", "refused", "lost"}) /\ (Careful' => Careful)
    BY <2>1, <2>2, ControlLapses
  <2> QED
    BY <2>1, <2>3, <2>4, EndGoesDown
<1>2. CASE ~InTransaction
  <2>1. UNCHANGED <<txnOpen, sock, depth, work, lapses>>
    BY <1>2 DEF AbandonBlock, server
  <2>2. lapses' = {} => depth = 0
    BY <1>2, <2>1 DEF InTransaction, ControlInv, TxnTracking, TypeOK
  <2>3. ControlInv' /\ depth \in Nat
    BY <2>1, SessionAssumption DEF ControlInv, TxnTracking, TypeOK
  <2> QED
    BY <2>1, <2>2, <2>3 DEF Careful, TypeOK
<1> QED
  BY <1>1, <1>2

\* The inductive invariant: the flag, the depth and the fate of the work agree
\* with where WithTransaction is, but for what a lapse excuses.
THEOREM InvHolds == Spec => []Inv
<1>1. Init => Inv
  <2> SUFFICES ASSUME Init, TypeOK PROVE Inv
    BY InitTyped
  <2> QED
    BY DEF Init, Inv, TxnTracking, Careful
<1>2. Inv /\ TypeOK' /\ [Next]_vars => Inv'
  <2> SUFFICES ASSUME Inv, TypeOK', [Next]_vars PROVE Inv'
    OBVIOUS
  <2>0. ControlInv /\ TypeOK /\ depth \in Nat
    BY SessionAssumption DEF Inv, ControlInv, TypeOK
  <2>1. CASE WithTransaction \/ BeginNotGranted
    BY <2>1 DEF WithTransaction, BeginNotGranted, Go, server, Inv, TxnTracking, Careful
  <2>2. CASE BeginOk
    <3>1. Control("BEGIN", "ok") /\ pc = "begin" /\ pc' = "fn" /\ result' = result
      BY <2>2 DEF BeginOk, Go
    <3>2. ControlInv' /\ (Careful' => Careful)
      BY <2>0, <3>1, ControlTracks, ControlLapses DEF Keywords, Outcomes
    <3>3. work' = "none"
      BY <3>1 DEF Control, Grants, Inv
    <3> QED
      BY <3>1, <3>2, <3>3 DEF Inv, ControlInv, TypeOK
  <2>3. CASE BeginFails
    <3>1. PICK r \in Outcomes \ {"ok"} : Control("BEGIN", r) /\ result' = ErrorOf(r)
      BY <2>3 DEF BeginFails
    <3>2. pc = "begin" /\ pc' = "returned" /\ work = "none"
      BY <2>3 DEF BeginFails, Go, Inv
    <3>3. ControlInv' /\ (Careful' => Careful) /\ lapses \subseteq lapses' /\ (lapses' = {} => r \in {"refused", "lost"})
      BY <2>0, <3>1, ControlTracks, ControlLapses DEF Keywords
    <3>4. work' = "none"
      BY <3>1, <3>2 DEF Control, Grants, Refuses, Loses, RollsBack, Settle, server, Outcomes
    <3>5. lapses' = {} => depth' = 0
      BY <3>1, <3>2, <3>3 DEF Control, Refuses, Loses, RollsBack, server, Inv
    <3> QED
      BY <3>1, <3>2, <3>3, <3>4, <3>5 DEF Inv, ControlInv, ErrorOf
  <2>4. CASE Exec \/ ExecFails
    BY <2>4 DEF Exec, ExecFails, Inv, TxnTracking, Careful, TypeOK
  <2>5. CASE ExecLost \/ Sever
    <3>1. /\ depth' = 0 /\ sock' # "open" /\ work' = (IF work = "pending" THEN "gone" ELSE work)
          /\ UNCHANGED <<pc, result, lapses>>
      BY <2>5 DEF ExecLost, Sever, RollsBack, Settle
    <3> QED
      BY <2>0, <3>1 DEF Inv, TxnTracking, Careful
  <2>6. CASE FnBegins
    <3>1. PICK r \in Outcomes : Control("BEGIN", r)
      BY <2>6 DEF FnBegins
    <3>2. UNCHANGED <<pc, result>> /\ pc = "fn"
      BY <2>6 DEF FnBegins
    <3>3. /\ ControlInv' /\ lapses \subseteq lapses'
          /\ Careful' => Careful /\ InTransaction /\ r \in {"ok", "refused", "lost", "argument"}
      BY <2>0, <3>1, <3>2, ControlTracks, ControlLapses DEF Keywords, Careful
    <3>4. Careful' => depth > 0 \/ sock # "open"
      BY <3>3 DEF InTransaction, Inv, TxnTracking, Careful
    <3>5. Careful' /\ depth' > 0 => work' = work /\ depth > 0
      BY <2>0, <3>1, <3>3, <3>4, SessionAssumption
         DEF Control, Grants, Refuses, Loses, RollsBack, server, ControlInv, TypeOK
    <3>6. work' = work \/ (work = "pending" /\ work' = "gone")
      BY <3>1 DEF Control, Grants, Refuses, Loses, RollsBack, Settle, server, Outcomes
    <3> QED
      BY <3>2, <3>3, <3>5, <3>6 DEF Inv, ControlInv
  <2>7. CASE FnEnds
    <3>1. PICK keyword \in {"COMMIT", "ROLLBACK"}, r \in Outcomes : Control(keyword, r)
      BY <2>7 DEF FnEnds
    <3>2. UNCHANGED <<pc, result>> /\ pc = "fn" /\ keyword \in Keywords /\ keyword # "BEGIN"
      BY <2>7 DEF FnEnds, Keywords
    <3>3. /\ ControlInv' /\ lapses \subseteq lapses'
          /\ Careful' => Careful /\ depth >= 2 /\ r \in {"ok", "refused", "lost", "argument"}
      BY <2>0, <3>1, <3>2, ControlTracks, ControlLapses DEF Careful
    <3>4. depth' <= depth /\ (work' = work \/ (work = "pending" /\ depth' = 0)) /\ depth' \in Nat
      BY <2>0, <3>1, EndGoesDown
    <3>5. lapses' = {} => work' # "durable"
      <4>1. lapses' = {} => depth >= 2 /\ lapses = {} /\ r \in {"ok", "refused", "lost"}
        BY <3>1, <3>2, <3>3, ControlLapses DEF Careful
      <4>2. lapses' = {} => work # "durable"
        BY <3>2, <4>1 DEF Inv
      <4> QED
        BY <3>1, <4>1, <4>2 DEF Control, Grants, Refuses, Loses, RollsBack, Settle
    <3> QED
      BY <2>0, <3>2, <3>3, <3>4, <3>5 DEF Inv, ControlInv, TypeOK
  <2>8. CASE FnReturnsNil \/ FnReturnsError \/ FnGoexits \/ FnPanics
    <3>1. /\ pc = "fn" /\ pc' \in {"commit", "failed", "deferred", "panicked"} /\ result' # "nil"
          /\ UNCHANGED <<txnOpen, sock, depth, work>>
          /\ lapses' = (IF depth > 1 THEN lapses \cup {"careless"} ELSE lapses)
      BY <2>8 DEF FnReturnsNil, FnReturnsError, FnGoexits, FnPanics, FnExits, Go, server, Inv, TypeOK
    <3>2. (Careful' => Careful /\ depth <= 1) /\ (lapses' = {} => lapses = {})
      BY <2>0, <3>1 DEF Careful
    <3>3. TxnTracking'
      BY <3>1 DEF Inv, TxnTracking
    <3> QED
      BY <3>1, <3>2, <3>3 DEF Inv
  <2>9. CASE CommitOk
    <3>1. Control("COMMIT", "ok") /\ pc = "commit" /\ pc' = "returned" /\ result' = "nil"
      BY <2>9 DEF CommitOk, Go
    <3>2. ControlInv' /\ (Careful' => Careful)
      BY <2>0, <3>1, ControlTracks, ControlLapses DEF Keywords, Outcomes
    <3>3. depth > 0 /\ depth' = depth - 1 /\ (depth = 1 => work' = IF work = "pending" THEN "durable" ELSE work)
      BY <3>1 DEF Control, Grants, Settle
    <3>4. Careful' => depth = 1 /\ depth' = 0 /\ work' \in {"none", "durable"}
      BY <2>0, <3>1, <3>2, <3>3 DEF Inv
    <3>5. lapses' = {} => Careful'
      BY DEF Careful
    <3> QED
      BY <3>1, <3>2, <3>3, <3>4, <3>5 DEF Inv, ControlInv
  <2>10. CASE CommitFails
    <3>1. PICK r \in Outcomes \ {"ok"} : Control("COMMIT", r) /\ result' = ErrorOf(r)
      BY <2>10 DEF CommitFails
    <3>2. pc = "commit" /\ pc' = "deferred"
      BY <2>10 DEF CommitFails, Go
    <3>3. /\ ControlInv' /\ (Careful' => Careful) /\ lapses \subseteq lapses'
          /\ lapses' = {} => r \in {"refused", "lost"}
      BY <2>0, <3>1, ControlTracks, ControlLapses DEF Keywords
    <3>4. /\ depth' <= depth /\ depth' \in Nat /\ (work' = work \/ (work = "pending" /\ depth' = 0))
          /\ (r = "refused" /\ work # "durable" => work' # "durable")
      BY <2>0, <3>1, EndGoesDown
    <3>5. (Careful' => depth' <= 1) /\ (Careful' /\ depth' > 0 => work' \in {"none", "pending"})
      BY <2>0, <3>2, <3>3, <3>4 DEF Inv
    <3>6. lapses' = {} /\ result' \in {"fnError", "panic", "refused"} => work' # "durable"
      BY <3>1, <3>2, <3>3, <3>4 DEF Inv, ErrorOf
    <3>7. result' # "nil"
      BY <3>1 DEF ErrorOf
    <3> QED
      BY <3>2, <3>3, <3>5, <3>6, <3>7 DEF Inv, ControlInv
  <2>11. CASE Failed \/ Panicked \/ Deferred
    <3>1. /\ AbandonBlock /\ result' = result /\ pc \in {"failed", "panicked", "deferred"}
          /\ pc' \in {"deferred", "returned"}
      BY <2>11 DEF Failed, Panicked, Deferred, Go
    <3>2. /\ ControlInv' /\ lapses \subseteq lapses' /\ depth' \in Nat /\ depth' <= depth
          /\ lapses' = {} /\ depth <= 1 => depth' = 0
          /\ work # "durable" => work' # "durable"
          /\ work' = work \/ (work = "pending" /\ depth' = 0)
          /\ Careful' => Careful
      BY <2>0, <3>1, AbandonGoesDown
    <3>3. lapses' = {} => lapses = {} /\ Careful /\ depth <= 1
      BY <3>1, <3>2 DEF Inv, Careful
    <3>4. result' # "nil"
      BY <3>1 DEF Inv, TypeOK
    <3>5. lapses' = {} /\ result \in {"fnError", "panic", "refused"} => work # "durable"
      BY <3>1, <3>3 DEF Inv
    <3>6. (Careful' => depth' <= 1) /\ (Careful' /\ depth' > 0 => work' \in {"none", "pending"})
      BY <2>0, <3>1, <3>2 DEF Inv
    <3> QED
      BY <3>1, <3>2, <3>3, <3>4, <3>5, <3>6 DEF Inv, ControlInv
  <2>12. CASE Again
    <3>1. /\ pc = "returned" /\ pc' = "idle" /\ result' = "none" /\ work' = "none"
          /\ UNCHANGED <<txnOpen, sock, depth, lapses>>
      BY <2>12 DEF Again, Go
    <3> QED
      BY <3>1 DEF Inv, TxnTracking, Careful
  <2>13. CASE Reconnect
    BY <2>13 DEF Reconnect, Go, Inv, TxnTracking
  <2>14. CASE UNCHANGED vars
    BY <2>14 DEF vars, Inv, TxnTracking, Careful
  <2> QED
    BY <2>1, <2>2, <2>3, <2>4, <2>5, <2>6, <2>7, <2>8, <2>9, <2>10, <2>11, <2>12, <2>13, <2>14 DEF Next
<1> QED
  BY <1>1, <1>2, TypeCorrect, PTL DEF Spec

\* While the connection stands, InTransaction tells the truth through nested
\* blocks of any depth.
THEOREM FlagTellsTheTruth == Spec => []TxnTracking
<1>1. Inv => TxnTracking
  BY DEF Inv
<1> QED
  BY <1>1, InvHolds, PTL

\* WithTransaction returns nil only if the work is durable, as long as fn ends no
\* block but its own (not "careless") and every reply to a control decodes (not
\* "garbled").
THEOREM NilIsCommitted == Spec => []NilMeansCommitted
<1>1. Inv => NilMeansCommitted
  BY SessionAssumption DEF Inv, TypeOK, Careful, NilMeansCommitted
<1> QED
  BY <1>1, InvHolds, PTL

\* After an error or a panic of fn, or a COMMIT that was refused, the work is not
\* durable, if in addition no control met another goroutine's round trip.
THEOREM FailuresDiscard == Spec => []FailureMeansDiscarded
<1>1. Inv => FailureMeansDiscarded
  BY SessionAssumption DEF Inv, TypeOK, Careful, FailureMeansDiscarded
<1> QED
  BY <1>1, InvHolds, PTL

\* Under the same conditions WithTransaction leaves no block open on a connection
\* that stays open, by any of its returns.
THEOREM NoBlockIsLeft == Spec => []NoBlockLeft
<1>1. Inv => NoBlockLeft
  BY SessionAssumption DEF Inv, TypeOK, Careful, NoBlockLeft
<1> QED
  BY <1>1, InvHolds, PTL
=============================================================================
