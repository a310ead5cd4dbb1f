--------------------------- MODULE CommandsProofs ----------------------------
(***************************************************************************)
(* Proofs about Commands: that belief and view are true comes down to a    *)
(* condition on each command alone, if servers send no body but what they  *)
(* promised, and every command of the driver meets it.                     *)
(***************************************************************************)
EXTENDS MCCommands, TLAPS

\* What carrying out a command can tell the server.
Tells(does) ==
  CASE does = "write" -> {"done"}
    [] does = "try"   -> {"done", "no"}
    [] OTHER          -> Items

\* A decoder that takes the body promised for a fact leaves that fact possible.
Sound(c) ==
  \A f \in Tells(c.does) :
    Promised(c.answer, f) \in DOMAIN c.answer.reads => f \in c.answer.reads[Promised(c.answer, f)]

\* What the caller will believe of the reply that has arrived.
WillBelieve ==
  CASE ErrorOf(cmd, reply) = "nil"    -> Concludes(cmd, value, ViewOf(cmd, reply)) \cup loose
    [] ErrorOf(cmd, reply) = "server" -> believed
    [] OTHER                          -> believed \cup Leaves(cmd, value)

\* What may be, is believed now or will be when the answer is read; and the
\* reader of an answer that is no error knows what it told.
Inv ==
  /\ TypeOK
  /\ pc # "answered" => stored \in believed /\ loose \subseteq believed
  /\ pc = "answered" =>
       /\ stored \in WillBelieve /\ loose \subseteq WillBelieve
       /\ stored \in believed \cup Leaves(cmd, value)
       /\ loose \subseteq believed \cup Leaves(cmd, value)
       /\ ErrorOf(cmd, reply) = "nil" => fact \in ViewOf(cmd, reply)
  /\ ViewIsTrue

\* The commands under way are those of the catalogue, or none.
LEMMA ShapesAreAnswered ==
  ASSUME NEW c \in Shapes \cup {Nothing}
  PROVE  c.does \in Deeds /\ IsAnswer(c.answer)
<1>1. CASE c \in Shapes
  <2>1. PICK d \in Catalog : c = [does |-> d.does, answer |-> d.answer]
    BY <1>1 DEF Shapes
  <2> QED
    BY <2>1, CommandsAssumption DEF IsCommand
<1>2. CASE c = Nothing
  BY <1>2 DEF Nothing, Ack, IsAnswer, Deeds, Facts, Items, Bodies
<1> QED
  BY <1>1, <1>2

\* If the commands of the catalogue are sound, so is whatever is under way.
LEMMA ShapesAreSound ==
  ASSUME \A c \in Catalog : Sound(c), NEW c \in Shapes \cup {Nothing}
  PROVE  Sound(c)
<1>1. CASE c \in Shapes
  <2>1. PICK d \in Catalog : c = [does |-> d.does, answer |-> d.answer]
    BY <1>1 DEF Shapes
  <2> QED
    BY <2>1 DEF Sound
<1>2. CASE c = Nothing
  BY <1>2 DEF Nothing, Sound, Tells, Ack, Facts, Items
<1> QED
  BY <1>1, <1>2

\* What carrying out a command leaves, tells and sends.
LEMMA DeedIsTyped ==
  ASSUME NEW c \in Shapes \cup {Nothing}, NEW v \in {"empty", "full"}, NEW s \in Items, NEW d \in Deed(c, v, s)
  PROVE  /\ d[1] \in Items /\ d[2] \in Tells(c.does) /\ d[2] \in Facts
         /\ Promised(c.answer, d[2]) \in Bodies
         /\ d[1] \in {s} \cup Leaves(c, v)
<1>1. c.does \in Deeds /\ c.answer.missing \in Bodies
  BY ShapesAreAnswered DEF IsAnswer
<1>2. d[1] \in Items /\ d[2] \in Tells(c.does) /\ d[2] \in Facts /\ d[1] \in {s} \cup Leaves(c, v)
  BY <1>1 DEF Deed, Deeds, Tells, Facts, Items, Leaves
<1>3. Promised(c.answer, d[2]) \in Bodies
  BY <1>1 DEF Promised, Bodies
<1> QED
  BY <1>2, <1>3

\* What a caller concludes keeps its type.
LEMMA LearnIsTyped ==
  ASSUME TypeOK, NEW c, NEW v \in {"empty", "full"}, NEW err \in Errors, NEW view, view \subseteq Facts,
         Learn(c, v, err, view)
  PROVE  believed' \subseteq Items /\ result' \in [err : Errors, view : SUBSET Facts]
<1>1. Leaves(c, v) \subseteq Items
  BY DEF Leaves, Items
<1>2. Concludes(c, v, view) \subseteq Items
  BY <1>1 DEF Concludes, TypeOK, Items
<1> QED
  BY <1>1, <1>2 DEF Learn, TypeOK

\* Every variable keeps its type.
THEOREM TypeCorrect == Spec => []TypeOK
<1>1. Init => TypeOK
  BY DEF TypeOK, Init, Items, Facts, NoResult, Replies, Errors
<1>2. TypeOK /\ [Next]_vars => TypeOK'
  <2> SUFFICES ASSUME TypeOK, [Next]_vars PROVE TypeOK'
    OBVIOUS
  <2>. USE DEF TypeOK
  <2>a. Leaves(cmd, value) \subseteq Items
    BY DEF Leaves, Items
  <2>b. "argument" \in Errors /\ "lost" \in Errors /\ {} \subseteq Facts
    BY DEF Errors
  <2>1. CASE CarryOut
    <3>1. PICK d \in Deed(cmd, value, stored) :
            /\ stored' = d[1] /\ fact' = d[2]
            /\ reply' \in {Promised(cmd.answer, d[2]), "unknown"} \cup Strange(cmd.answer)
                            \cup (IF cmd.answer.form = "ack" THEN Misfits \ {"kind"} ELSE Misfits)
                            \cup (IF Exact THEN {} ELSE cmd.answer.blind)
      BY <2>1 DEF CarryOut
    <3>2. stored' \in Items /\ fact' \in Facts /\ Promised(cmd.answer, d[2]) \in Bodies
      BY <3>1, DeedIsTyped
    <3>a. cmd.answer.blind \subseteq Bodies
      BY ShapesAreAnswered DEF IsAnswer
    <3>3. reply' \in Replies
      BY <3>1, <3>2, <3>a DEF Replies, Strange, Bodies, Misfits
    <3> QED
      BY <2>1, <3>2, <3>3 DEF CarryOut, request
  <2>2. CASE Refuse
    <3>1. reply' \in Replies /\ loose' \subseteq Items
      BY <2>2, <2>a DEF Refuse, Replies, Refusals, Misfits
    <3> QED
      BY <2>2, <3>1 DEF Refuse, request
  <2>3. CASE CarryOutLate
    BY <2>3 DEF CarryOutLate, request
  <2>4. CASE RefuseArgument
    <3>1. PICK c \in Risks : Learn(c, "full", "argument", {})
      BY <2>4 DEF RefuseArgument
    <3>2. believed' \subseteq Items /\ result' \in [err : Errors, view : SUBSET Facts]
      BY <2>b, <3>1, LearnIsTyped
    <3> QED
      BY <2>4, <3>2 DEF RefuseArgument, request, server
  <2>5. CASE EncodeFails
    <3>1. PICK c \in Risks, v \in {"empty", "full"} : Learn(c, v, "lost", {})
      BY <2>5 DEF EncodeFails
    <3>2. believed' \subseteq Items /\ result' \in [err : Errors, view : SUBSET Facts]
      BY <2>b, <3>1, LearnIsTyped
    <3> QED
      BY <2>5, <3>2 DEF EncodeFails, request, server
  <2>6. CASE Send
    BY <2>6 DEF Send, server, Facts, NoResult, Errors
  <2>7. CASE Receive
    <3>1. ErrorOf(cmd, reply) \in Errors
      BY DEF ErrorOf, Errors
    <3>2. ViewOf(cmd, reply) \subseteq Facts
      BY ShapesAreAnswered DEF ViewOf, IsAnswer
    <3>3. believed' \subseteq Items /\ result' \in [err : Errors, view : SUBSET Facts]
      BY <2>7, <3>1, <3>2, LearnIsTyped DEF Receive
    <3> QED
      BY <2>7, <3>3 DEF Receive, Return, server, Replies
  <2>8. CASE Lose
    <3>1. believed' \subseteq Items /\ result' \in [err : Errors, view : SUBSET Facts]
      BY <2>b, <2>8, LearnIsTyped DEF Lose
    <3> QED
      BY <2>8, <2>a, <3>1 DEF Lose, Return, Replies
  <2>9. CASE Reconnect
    BY <2>9 DEF Reconnect, server, request
  <2>10. CASE UNCHANGED vars
    BY <2>10 DEF vars, server, request
  <2> QED
    BY <2>1, <2>2, <2>3, <2>4, <2>5, <2>6, <2>7, <2>8, <2>9, <2>10 DEF Next, Server, Client
<1> QED
  BY <1>1, <1>2, PTL DEF Spec

\* Between commands the caller's belief holds, and what a command told is what
\* it met, whatever the catalogue, if each of its decoders is sound and servers
\* send what they promised.
THEOREM SoundDecodersSuffice ==
  ASSUME Exact, \A c \in Catalog : Sound(c)
  PROVE  Spec => [](BeliefIsTrue /\ ViewIsTrue)
<1>1. Init => Inv
  BY DEF Init, Inv, TypeOK, Items, Facts, NoResult, Replies, Errors, ViewIsTrue
<1>2. Inv /\ TypeOK' /\ [Next]_vars => Inv'
  <2> SUFFICES ASSUME Inv, TypeOK', [Next]_vars PROVE Inv'
    OBVIOUS
  <2>. USE DEF Inv
  <2>1. CASE CarryOut
    <3>1. PICK d \in Deed(cmd, value, stored) :
            /\ stored' = d[1] /\ fact' = d[2]
            /\ reply' \in {Promised(cmd.answer, d[2]), "unknown"} \cup Strange(cmd.answer)
                            \cup (IF cmd.answer.form = "ack" THEN Misfits \ {"kind"} ELSE Misfits)
                            \cup (IF Exact THEN {} ELSE cmd.answer.blind)
      BY <2>1 DEF CarryOut
    <3>2. /\ pc = "sent" /\ pc' = "answered" /\ cmd' = cmd /\ value' = value
          /\ loose' = loose /\ believed' = believed
      BY <2>1 DEF CarryOut, request
    <3>3. stored' \in {stored} \cup Leaves(cmd, value) /\ fact' \in Tells(cmd.does)
      BY <3>1, DeedIsTyped DEF TypeOK
    <3>4. ErrorOf(cmd, reply') = "nil" =>
            /\ reply' = Promised(cmd.answer, fact') /\ reply' \in DOMAIN cmd.answer.reads
            /\ fact' \in ViewOf(cmd, reply')
      <4>1. DOMAIN cmd.answer.reads \subseteq Bodies
        BY ShapesAreAnswered DEF IsAnswer, TypeOK
      <4>2. ErrorOf(cmd, reply') = "nil" => reply' \in DOMAIN cmd.answer.reads
        BY DEF ErrorOf
      <4>3. reply' \in DOMAIN cmd.answer.reads => reply' = Promised(cmd.answer, fact')
        BY <3>1, <4>1 DEF Strange, Misfits, Bodies
      <4>4. Sound(cmd)
        BY ShapesAreSound DEF TypeOK
      <4> QED
        BY <3>3, <4>2, <4>3, <4>4 DEF Sound, ViewOf
    <3>5. ErrorOf(cmd, reply') # "server"
      <4>1. Promised(cmd.answer, d[2]) \in Bodies
        BY <3>1, DeedIsTyped DEF TypeOK
      <4> QED
        BY <3>1, <4>1 DEF ErrorOf, Strange, Misfits, Bodies, Refusals
    <3>6. ErrorOf(cmd, reply') = "nil" => stored' \in Concludes(cmd, value, ViewOf(cmd, reply'))
      <4> SUFFICES ASSUME fact' \in ViewOf(cmd, reply')
                   PROVE  stored' \in Concludes(cmd, value, ViewOf(cmd, reply'))
        BY <3>4
      <4>1. cmd.does \in Deeds
        BY ShapesAreAnswered DEF TypeOK
      <4> QED
        BY <3>1, <3>2, <4>1 DEF Concludes, Deed, Deeds, Leaves, TypeOK, Items
    <3>7. WillBelieve' = IF ErrorOf(cmd, reply') = "nil"
                             THEN Concludes(cmd, value, ViewOf(cmd, reply')) \cup loose
                             ELSE believed \cup Leaves(cmd, value)
      BY <3>2, <3>5 DEF WillBelieve, Concludes, Leaves, ViewOf, ErrorOf
    <3> QED
      BY <3>2, <3>3, <3>4, <3>6, <3>7 DEF ViewIsTrue, Leaves, ErrorOf, ViewOf
  <2>2. CASE Refuse
    <3>1. /\ pc = "sent" /\ pc' = "answered" /\ cmd' = cmd /\ value' = value
          /\ stored' = stored /\ believed' = believed
      BY <2>2 DEF Refuse, request
    <3>2. ErrorOf(cmd, reply') # "nil"
      <4>1. DOMAIN cmd.answer.reads \subseteq Bodies
        BY ShapesAreAnswered DEF IsAnswer, TypeOK
      <4> QED
        BY <2>2, <4>1 DEF Refuse, ErrorOf, Refusals, Bodies
    <3>3. loose' \subseteq loose \cup Leaves(cmd, value) /\ (ErrorOf(cmd, reply') = "server" => loose' = loose)
      BY <2>2 DEF Refuse, ErrorOf, Refusals
    <3>4. WillBelieve' = IF ErrorOf(cmd, reply') = "server" THEN believed ELSE believed \cup Leaves(cmd, value)
      BY <3>1, <3>2 DEF WillBelieve, Leaves, ErrorOf
    <3> QED
      BY <3>1, <3>2, <3>3, <3>4 DEF ViewIsTrue, Leaves, ErrorOf
  <2>3. CASE CarryOutLate
    <3>1. UNCHANGED <<conn, loose, pc, cmd, value, fact, reply, result, believed>> /\ stored' \in loose
      BY <2>3 DEF CarryOutLate, request
    <3>2. WillBelieve' = WillBelieve
      BY <3>1 DEF WillBelieve, Concludes, Leaves, ErrorOf, ViewOf
    <3> QED
      BY <3>1, <3>2 DEF ViewIsTrue, Leaves, ErrorOf, ViewOf
  <2>4. CASE RefuseArgument
    <3>1. PICK c \in Risks : Learn(c, "full", "argument", {})
      BY <2>4 DEF RefuseArgument
    <3>2. believed' = believed /\ result'.err = "argument"
      BY <3>1 DEF Learn
    <3> QED
      BY <2>4, <3>2 DEF RefuseArgument, server, ViewIsTrue
  <2>5. CASE EncodeFails
    <3>1. PICK c \in Risks, v \in {"empty", "full"} : Learn(c, v, "lost", {})
      BY <2>5 DEF EncodeFails
    <3>2. believed \subseteq believed' /\ result'.err = "lost"
      BY <3>1 DEF Learn
    <3> QED
      BY <2>5, <3>2 DEF EncodeFails, server, ViewIsTrue
  <2>6. CASE Send
    BY <2>6 DEF Send, server, ViewIsTrue
  <2>7. CASE Receive
    <3>1. believed' = WillBelieve
      BY <2>7 DEF Receive, Learn, WillBelieve, ErrorOf
    <3>2. result' = [err |-> ErrorOf(cmd, reply), view |-> ViewOf(cmd, reply)]
      BY <2>7 DEF Receive, Learn
    <3> QED
      BY <2>7, <3>1, <3>2 DEF Receive, Return, server, ViewIsTrue
  <2>8. CASE Lose
    <3>1. believed' = believed \cup Leaves(cmd, value) /\ result'.err = "lost"
      BY <2>8 DEF Lose, Learn
    <3> QED
      BY <2>8, <3>1 DEF Lose, Return, ViewIsTrue
  <2>9. CASE Reconnect
    <3>1. UNCHANGED <<stored, loose, pc, cmd, value, fact, reply, result, believed>>
      BY <2>9 DEF Reconnect, server, request
    <3>2. WillBelieve' = WillBelieve
      BY <3>1 DEF WillBelieve, Concludes, Leaves, ErrorOf, ViewOf
    <3> QED
      BY <3>1, <3>2 DEF ViewIsTrue, Leaves, ErrorOf, ViewOf
  <2>10. CASE UNCHANGED vars
    <3>1. UNCHANGED <<stored, loose, pc, cmd, value, fact, reply, result, believed>>
      BY <2>10 DEF vars, server, request
    <3>2. WillBelieve' = WillBelieve
      BY <3>1 DEF WillBelieve, Concludes, Leaves, ErrorOf, ViewOf
    <3> QED
      BY <3>1, <3>2 DEF ViewIsTrue, Leaves, ErrorOf, ViewOf
  <2> QED
    BY <2>1, <2>2, <2>3, <2>4, <2>5, <2>6, <2>7, <2>8, <2>9, <2>10 DEF Next, Server, Client
<1>3. Inv => BeliefIsTrue /\ ViewIsTrue
  BY DEF Inv, BeliefIsTrue
<1> QED
  BY <1>1, <1>2, <1>3, TypeCorrect, PTL DEF Spec

-----------------------------------------------------------------------------
(* The commands of the driver.                                             *)

AllSound(commands) == \A c \in commands : Sound(c)

\* Commands that differ in their names are sound if one is.
LEMMA LikeCommandsAreSound ==
  ASSUME NEW names, NEW does, NEW args, NEW answer, Sound([does |-> does, answer |-> answer])
  PROVE  AllSound(Command(names, does, args, answer))
<1> SUFFICES ASSUME NEW c \in Command(names, does, args, answer) PROVE Sound(c)
  BY DEF AllSound
<1>1. c.does = does /\ c.answer = answer
  BY DEF Command
<1> QED
  BY <1>1 DEF Sound

\* An acknowledgement, a report or a count can answer any command.
LEMMA AnyDeedIsSound ==
  ASSUME NEW names, NEW does, NEW args, NEW answer \in {Ack, Report, Count, Export, Status}
  PROVE  AllSound(Command(names, does, args, answer))
<1>1. Tells(does) \subseteq Facts
  BY DEF Tells, Facts
<1>2. CASE answer = Count
  BY <1>1, <1>2, LikeCommandsAreSound DEF Sound, Count, Promised, Facts, Items, Present
<1>3. CASE answer \in {Ack, Report, Export, Status}
  BY <1>1, <1>3, LikeCommandsAreSound DEF Sound, Ack, Report, Export, Status, Promised, Bodies
<1> QED
  BY <1>2, <1>3

\* The replies of several operations answer a command that may have failed; an
\* id one that has written.
LEMMA WriteIsSound ==
  ASSUME NEW names, NEW args
  PROVE  /\ AllSound(Command(names, "try", args, Results))
         /\ AllSound(Command(names, "write", args, Id))
<1>1. Sound([does |-> "try", answer |-> Results])
  BY DEF Sound, Tells, Results, Promised, Present
<1>2. Sound([does |-> "write", answer |-> Id])
  BY DEF Sound, Tells, Id, Promised, Facts
<1> QED
  BY <1>1, <1>2, LikeCommandsAreSound

\* A value, a list or an object only a command that tells what it met.
LEMMA ItemDeedIsSound ==
  ASSUME NEW names, NEW does \in Deeds \ {"write", "try"}, NEW args,
         NEW answer \in {CacheValue, CacheValues, Popped, List, Field, Node, Documents, Fresh, Rows}
  PROVE  AllSound(Command(names, does, args, answer))
<1>1. Tells(does) = Items
  BY DEF Tells
<1>2. CASE answer \in {CacheValue, CacheValues}
  BY <1>1, <1>2, LikeCommandsAreSound DEF Sound, CacheValue, CacheValues, Promised, Items
<1>3. CASE answer \in {Popped, Field, Node, Fresh}
  BY <1>1, <1>3, LikeCommandsAreSound DEF Sound, Popped, Field, Node, Fresh, Promised, Items, Present
<1>4. CASE answer \in {List, Documents, Rows}
  BY <1>1, <1>4, LikeCommandsAreSound DEF Sound, List, Documents, Rows, Promised, Items, Present
<1> QED
  BY <1>2, <1>3, <1>4

\* Two sound sets of commands make a sound one.
LEMMA UnionIsSound ==
  ASSUME NEW S, NEW T, AllSound(S), AllSound(T)
  PROVE  AllSound(S \cup T)
BY DEF AllSound

\* The commands of cache.go.
LEMMA CacheCommandsAreSound == AllSound(CacheCatalog)
<1>. USE AnyDeedIsSound, ItemDeedIsSound, WriteIsSound, UnionIsSound DEF Deeds
<1>1. AllSound(CacheBasics)
  BY DEF CacheBasics
<1>2. AllSound(CacheKeys)
  BY DEF CacheKeys
<1>3. AllSound(CacheLists)
  BY DEF CacheLists
<1>4. AllSound(CacheSets)
  BY DEF CacheSets
<1>5. AllSound(CacheHashes)
  BY DEF CacheHashes
<1>6. AllSound(CacheStreams)
  BY DEF CacheStreams
<1>7. AllSound(CacheReadWrite)
  BY DEF CacheReadWrite
<1>8. AllSound(CacheSortedSets)
  BY DEF CacheSortedSets
<1>9. AllSound(CacheBits)
  BY DEF CacheBits
<1>10. AllSound(CacheBlockingPops)
  BY DEF CacheBlockingPops
<1>11. AllSound(CacheScripts)
  BY DEF CacheScripts
<1>12. AllSound(CacheChannels)
  BY DEF CacheChannels
<1>13. AllSound(CacheManyAndIf)
  BY DEF CacheManyAndIf
<1>14. AllSound(CacheLocks)
  BY DEF CacheLocks
<1>15. AllSound(CacheSketches)
  BY DEF CacheSketches
<1>16. AllSound(CacheMoves)
  BY DEF CacheMoves
<1>17. AllSound(CacheAdmin)
  BY DEF CacheAdmin
<1> QED
  BY <1>1, <1>2, <1>3, <1>4, <1>5, <1>6, <1>7, <1>8, <1>9, <1>10, <1>11, <1>12, <1>13, <1>14, <1>15, <1>16, <1>17 DEF AllSound, CacheCatalog

\* The commands of document.go.
LEMMA DocumentCommandsAreSound == AllSound(DocumentCatalog)
<1>. USE AnyDeedIsSound, ItemDeedIsSound, WriteIsSound, UnionIsSound DEF Deeds
<1>1. AllSound(DocumentCollections)
  BY DEF DocumentCollections
<1>2. AllSound(DocumentInserts)
  BY DEF DocumentInserts
<1>3. AllSound(DocumentReads)
  BY DEF DocumentReads
<1>4. AllSound(DocumentUpdates)
  BY DEF DocumentUpdates
<1>5. AllSound(DocumentIndexes)
  BY DEF DocumentIndexes
<1>6. AllSound(DocumentWritesToMany)
  BY DEF DocumentWritesToMany
<1>7. AllSound(DocumentPlans)
  BY DEF DocumentPlans
<1>8. AllSound(DocumentAdmin)
  BY DEF DocumentAdmin
<1> QED
  BY <1>1, <1>2, <1>3, <1>4, <1>5, <1>6, <1>7, <1>8 DEF AllSound, DocumentCatalog

\* The commands of graph.go.
LEMMA GraphCommandsAreSound == AllSound(GraphCatalog)
<1>. USE AnyDeedIsSound, ItemDeedIsSound, WriteIsSound, UnionIsSound DEF Deeds
<1>1. AllSound(GraphGraphs)
  BY DEF GraphGraphs
<1>2. AllSound(GraphNodes)
  BY DEF GraphNodes
<1>3. AllSound(GraphEdges)
  BY DEF GraphEdges
<1>4. AllSound(GraphWalks)
  BY DEF GraphWalks
<1>5. AllSound(GraphUpdates)
  BY DEF GraphUpdates
<1>6. AllSound(GraphCopies)
  BY DEF GraphCopies
<1>7. AllSound(GraphAnalytics)
  BY DEF GraphAnalytics
<1>8. AllSound(GraphSchemas)
  BY DEF GraphSchemas
<1> QED
  BY <1>1, <1>2, <1>3, <1>4, <1>5, <1>6, <1>7, <1>8 DEF AllSound, GraphCatalog

\* The commands of vector.go.
LEMMA VectorCommandsAreSound == AllSound(VectorCatalog)
<1>. USE AnyDeedIsSound, ItemDeedIsSound, WriteIsSound, UnionIsSound DEF Deeds
<1>1. AllSound(VectorCollections)
  BY DEF VectorCollections
<1>2. AllSound(VectorItems)
  BY DEF VectorItems
<1>3. AllSound(VectorSearches)
  BY DEF VectorSearches
<1>4. AllSound(VectorNamed)
  BY DEF VectorNamed
<1>5. AllSound(VectorExamples)
  BY DEF VectorExamples
<1>6. AllSound(VectorWrites)
  BY DEF VectorWrites
<1>7. AllSound(VectorAdmin)
  BY DEF VectorAdmin
<1> QED
  BY <1>1, <1>2, <1>3, <1>4, <1>5, <1>6, <1>7 DEF AllSound, VectorCatalog

\* The SQL, administration and export commands.
LEMMA OtherCommandsAreSound == AllSound(OtherCatalog)
<1>. USE AnyDeedIsSound, ItemDeedIsSound, WriteIsSound, UnionIsSound DEF Deeds
<1>1. AllSound(SqlCommands)
  BY DEF SqlCommands
<1>2. AllSound(SqlParamCommands)
  BY DEF SqlParamCommands
<1>3. AllSound(LlmCommands)
  BY DEF LlmCommands
<1>4. AllSound(AdminCommands)
  BY DEF AdminCommands
<1> QED
  BY <1>1, <1>2, <1>3, <1>4 DEF AllSound, OtherCatalog

\* Whatever the network does, and however a server that keeps to the promised
\* shapes answers, what a caller of any of the driver's commands concludes from
\* their results holds.
THEOREM CommandsTellTheTruth ==
  ASSUME Exact, Catalog = WholeCatalog
  PROVE  Spec => [](BeliefIsTrue /\ ViewIsTrue)
<1>1. \A c \in Catalog : Sound(c)
  BY CacheCommandsAreSound, DocumentCommandsAreSound, GraphCommandsAreSound, VectorCommandsAreSound,
     OtherCommandsAreSound DEF AllSound, WholeCatalog
<1> QED
  BY <1>1, SoundDecodersSuffice
=============================================================================
