-------------------------- MODULE MCConsistentHash --------------------------
(* ConsistentHash on a small ring: three nodes with two, one and one virtual
   nodes, and every way to place them on six positions. *)
EXTENDS ConsistentHash

CONSTANTS a, b, c

MCPeer == {a, b, c}
MCWeight == [n \in MCPeer |-> IF n = a THEN 2 ELSE IF n = b THEN 1 ELSE 0]
=============================================================================
