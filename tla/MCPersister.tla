---------------------------- MODULE MCPersister ----------------------------
(* Four updates and two crashes: enough for a request to be dropped while   *)
(* one is queued and another being written, and for a crash and a restart  *)
(* at every point between them.                                            *)
EXTENDS Persister
=============================================================================
