-------------------------- MODULE DocumentCommands ---------------------------
(***************************************************************************)
(* The document commands of src/document.go, in the same terms as          *)
(* CacheCommands.  Names are the Go methods without their prefix Document. *)
(* The three that open, commit and roll back a transaction are in Requests.*)
(*                                                                         *)
(* A zero DocumentFilter or AggregateStage is refused where it is an       *)
(* argument itself ("builder"); one inside FilterAnd or StageMatch, a zero *)
(* GroupKey or a zero AccumulatorOp is met by json.Marshal ("nested").     *)
(***************************************************************************)
EXTENDS Answers

\* A zero filter is refused, one inside another is found out by MarshalJSON;
\* the values compared with are the application's.
FilterFaults == {"builder", "nested", "value"}

\* A $match stage has a filter, a $group stage keys and accumulators, each of
\* which can be a zero one.
StageFaults == {"builder", "nested", "value"}

BulkOpFaults == {"list", "builder", "value"}

DocumentCollections ==
  Command({"CreateCollection"}, "write", {}, Ack) \cup Command({"DropCollection"}, "remove", {}, Ack)
    \cup Command({"ListCollections"}, "read", {}, List)

DocumentInserts == Command({"Insert", "InsertWithID"}, "write", {"value"}, Id)

DocumentReads ==
  Command({"Get"}, "read", {}, Documents)
    \cup Command({"Find", "FindLimit"}, "read", FilterFaults, Documents)

\* A filter may match nothing, which is no error.
DocumentUpdates ==
  Command({"Update"}, "write", {"value"}, Ack)
    \cup Command({"UpdateOne", "UpsertOne"}, "write", {"value"}, Report)
    \cup Command({"UpdateMany"}, "try", FilterFaults, Count)
    \cup Command({"Delete"}, "remove", {}, Ack)

DocumentIndexes ==
  Command({"CreateIndex"}, "write", {}, Ack) \cup Command({"DropIndex"}, "remove", {}, Ack)
    \cup Command({"ListIndexes"}, "read", {}, List) \cup Command({"Analyze"}, "read", {}, Report)
    \cup Command({"Aggregate"}, "read", StageFaults, Documents)

\* A bulk write removes as well; all of it is done or none.
DocumentWritesToMany ==
  Command({"Replace"}, "try", {"value"}, Count)
    \cup Command({"InsertMany"}, "write", {"list", "value"}, Report)
    \cup Command({"BulkWrite"}, "write", BulkOpFaults, Report)
    \cup Command({"BulkWrite"}, "remove", BulkOpFaults, Report)

DocumentPlans ==
  Command({"Explain"}, "read", FilterFaults, Report)
    \cup Command({"GetCollectionOptions"}, "read", {}, Report)

\* DeleteMany does not check its filter: the zero one costs the connection.
DocumentAdmin ==
  Command({"DeleteMany"}, "remove", FilterFaults \ {"builder"}, Count)
    \cup Command({"RenameCollection"}, "write", {}, Ack) \cup Command({"PurgeExpired"}, "trim", {}, Report)
    \cup Command({"RebuildIndex"}, "read", {}, Report)
    \cup Command({"SetCollectionOptions"}, "write", {"value"}, Report)

DocumentCatalog ==
  UNION {DocumentCollections, DocumentInserts, DocumentReads, DocumentUpdates, DocumentIndexes,
         DocumentWritesToMany, DocumentPlans, DocumentAdmin}
=============================================================================
