---------------------------- MODULE OtherCommands ----------------------------
(***************************************************************************)
(* The commands that belong to no data model: plain and parameterised SQL  *)
(* (src/tricoredb.go, src/sql.go), the LLM exports and the administrative  *)
(* ones (src/llm.go), in the same terms as CacheCommands.                  *)
(***************************************************************************)
EXTENDS Answers

\* A SQL write sets or deletes the rows it matches, if any.
SqlCommands ==
  Command({"Execute"}, "try", {}, Ack) \cup Command({"Execute"}, "trim", {}, Ack) \cup Command({"Query"}, "read", {}, Rows)

SqlParamCommands ==
  Command({"ExecuteParams"}, "try", {"literal", "number"}, Ack)
    \cup Command({"ExecuteParams"}, "trim", {"literal", "number"}, Ack)
    \cup Command({"QueryParams"}, "read", {"literal", "number"}, Rows)
    \cup Command({"Transaction"}, "try", {"list", "literal", "number"}, Report)
    \cup Command({"Transaction"}, "trim", {"list", "literal", "number"}, Report)

\* A source of an export: built, and at least one. A zero filter means every
\* document here; one inside another does not encode.
SourceFaults == {"list", "builder", "nested", "value"}

LlmCommands ==
  Command({"Context"}, "read", SourceFaults, Export)
    \cup Command({"Schema"}, "read", {}, Export)

AdminCommands == Command({"Ping"}, "read", {}, Ack) \cup Command({"Status"}, "read", {}, Status)

OtherCatalog == UNION {SqlCommands, SqlParamCommands, LlmCommands, AdminCommands}
=============================================================================
