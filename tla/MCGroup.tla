------------------------------- MODULE MCGroup -------------------------------
(* Group on small instances. *)
EXTENDS Group
=============================================================================
