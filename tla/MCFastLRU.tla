----------------------------- MODULE MCFastLRU -----------------------------
(* FastLRU on a small instance: two goroutines; two keys in one shard and one
   in the other; limits that hold two small entries in a shard, nothing that
   is shared out (1), and less than nothing. *)
EXTENDS FastLRU, TLC

CONSTANTS p1, p2, k1, k2, k3, short, long

MCKey == {k1, k2, k3}
MCKeyLen == [k \in MCKey |-> 1]
MCValLen == [v \in {short, long} |-> IF v = long THEN 3 ELSE 1]
MCShardOf == [k \in MCKey |-> IF k = k3 THEN 1 ELSE 0]
MCLimits == {-2, 1, 7, 8}
MCSymmetry == Permutations({p1, p2}) \cup Permutations({k1, k2})
=============================================================================
