--------------------------- MODULE VectorCommands ----------------------------
(***************************************************************************)
(* The vector commands of src/vector.go, in the same terms as              *)
(* CacheCommands.  Names are the Go methods without their prefix Vector.   *)
(* Components of a vector can be NaN ("number"), metadata and filters any  *)
(* value ("value").                                                        *)
(***************************************************************************)
EXTENDS Answers

\* Options are written field by field, and only those that are set; the
\* numbers and the filter among them go to json.Marshal as they are.
SearchOptionFaults == {"number", "value"}

\* An example is an id or a vector, and no zero one.
ExampleFaults == {"builder", "number"}

VectorCollections ==
  Command({"CreateCollection", "CreateCollectionQuantized"}, "write", {}, Ack)
    \cup Command({"DropCollection"}, "remove", {}, Ack)
    \cup Command({"ListCollections"}, "read", {}, List)
    \cup Command({"DescribeCollection"}, "read", {}, Report)

VectorItems ==
  Command({"Upsert"}, "write", {"number", "value"}, Ack) \cup Command({"Get"}, "read", {}, Node)
    \cup Command({"Delete"}, "remove", {}, Ack)

VectorSearches ==
  Command({"Search"}, "read", {"number"}, List)
    \cup Command({"SearchFiltered"}, "read", SearchOptionFaults, List)
    \cup Command({"ListVectors"}, "read", {}, List)

VectorNamed ==
  Command({"ListAliases"}, "read", {}, List)
    \cup Command({"UpsertNamed"}, "write", {"number", "value"}, Ack)
    \cup Command({"SearchBatch", "SearchMulti"}, "read", SearchOptionFaults, Report)

VectorExamples ==
  Command({"SearchByExamples"}, "read", ExampleFaults \cup SearchOptionFaults, Report)
    \cup Command({"Count"}, "read", {"value"}, Count)
    \cup Command({"SetCollectionConfig"}, "write", {"change"}, Report)

VectorWrites ==
  Command({"Embed"}, "read", {}, Report) \cup Command({"UpsertText"}, "write", {"value"}, Report)
    \cup Command({"SetAlias", "AddNamedVector"}, "write", {}, Ack)
    \cup Command({"UpsertMany"}, "write", {"number", "value"}, Report)
    \cup Command({"DeleteMany"}, "remove", {}, Count)

\* A filter may match nothing, which is no error.
VectorAdmin ==
  Command({"DeleteByFilter"}, "remove", {"value"}, Count)
    \cup Command({"UpdateByFilter"}, "try", {"value"}, Count)
    \cup Command({"RenameCollection", "CopyCollection"}, "write", {}, Report)
    \cup Command({"ListPartitions", "RebuildIndex", "IndexStats", "MeasureRecall"}, "read", {}, Report)

VectorCatalog ==
  UNION {VectorCollections, VectorItems, VectorSearches, VectorNamed, VectorExamples, VectorWrites,
         VectorAdmin}
=============================================================================
