---------------------------- MODULE GraphCommands ----------------------------
(***************************************************************************)
(* The graph commands of src/graph.go, in the same terms as CacheCommands. *)
(* Names are the Go methods without their prefix Graph.  The three that    *)
(* open, commit and roll back a transaction are in Requests.  A property   *)
(* can be any value ("value"); a damping or a tolerance any float          *)
(* ("number").                                                             *)
(***************************************************************************)
EXTENDS Answers

GraphGraphs ==
  Command({"Create"}, "write", {}, Ack) \cup Command({"Drop"}, "remove", {}, Ack)
    \cup Command({"List"}, "read", {}, List)

GraphNodes ==
  Command({"AddNode"}, "write", {"value"}, Ack) \cup Command({"GetNode"}, "read", {}, Node)
    \cup Command({"DeleteNode"}, "remove", {}, Ack) \cup Command({"ListNodes"}, "read", {}, List)

GraphEdges ==
  Command({"AddEdge"}, "write", {"value"}, Ack) \cup Command({"GetEdge"}, "read", {}, Node)
    \cup Command({"DeleteEdge"}, "remove", {}, Ack) \cup Command({"ListEdges"}, "read", {}, List)

GraphWalks ==
  Command({"Neighbors"}, "read", {}, List)
    \cup Command({"Degree", "Traverse", "ShortestPath", "WeightedShortestPath", "Query"}, "read", {}, Report)

GraphUpdates ==
  Command({"AddMany", "UpdateNode", "UpdateEdge"}, "write", {"value"}, Report)
    \cup Command({"DetectCycle"}, "read", {}, Report) \cup Command({"CreateConstraint"}, "write", {}, Ack)
    \cup Command({"FindNodes"}, "read", {"value"}, List)

GraphCopies ==
  Command({"RemoveMany"}, "remove", {}, Report) \cup Command({"Copy"}, "write", {}, Report)
    \cup Command({"Dfs", "ConnectedComponents", "Stats", "Subgraph", "Schema"}, "read", {}, Report)

GraphAnalytics ==
  Command({"KShortestPaths", "AllPaths", "Communities", "TriangleCount", "NodeSimilarity",
           "CheckConsistency"}, "read", {}, Report)
    \cup Command({"Centrality"}, "read", {"number"}, Report)

\* A Cypher write creates, sets or deletes what it matches, if anything.
GraphSchemas ==
  Command({"CreateNodeIndex"}, "write", {}, Ack) \cup Command({"DropSchemaObject"}, "remove", {}, Ack)
    \cup Command({"ListSchemaObjects"}, "read", {}, List)
    \cup Command({"ImportCSV"}, "write", {}, Report)
    \cup Command({"Execute"}, "try", {}, Report) \cup Command({"Execute"}, "trim", {}, Report)
    \cup Command({"PageRank"}, "read", {"number"}, Report)

GraphCatalog ==
  UNION {GraphGraphs, GraphNodes, GraphEdges, GraphWalks, GraphUpdates, GraphCopies, GraphAnalytics,
         GraphSchemas}
=============================================================================
