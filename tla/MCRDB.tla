-------------------------------- MODULE MCRDB --------------------------------
(* RDB on a small instance. *)
EXTENDS RDB
=============================================================================
