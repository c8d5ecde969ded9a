---------------------------- MODULE MCPersistence ----------------------------
(* Persistence on a small instance. *)
EXTENDS Persistence
=============================================================================
