----------------------- MODULE MCPersistenceCoordinator -----------------------
(* A small instance of PersistenceCoordinator: the content of a snapshot   *)
(* does not influence the coordinator, its revision does.                  *)
EXTENDS PersistenceCoordinator

CONSTANTS mutator, flusher

MCPublishers == {mutator}
MCFlushers == {flusher}
MCData == {"jobs"}
===============================================================================
