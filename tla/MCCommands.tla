----------------------------- MODULE MCCommands ------------------------------
(***************************************************************************)
(* All commands of the driver, for TLC.                                    *)
(***************************************************************************)
EXTENDS Commands, CacheCommands, DocumentCommands, GraphCommands, VectorCommands, OtherCommands

WholeCatalog == UNION {CacheCatalog, DocumentCatalog, GraphCatalog, VectorCatalog, OtherCatalog}
=============================================================================
