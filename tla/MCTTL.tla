-------------------------------- MODULE MCTTL --------------------------------
(* TTLGroup on a small instance. *)
EXTENDS TTLGroup
=============================================================================
