------------------------------- MODULE MCLRU -------------------------------
(* LRU on a small instance: three keys, values of length 1 and 3, and limits
   that hold everything, two small entries, or only one, or nothing. *)
EXTENDS LRU

CONSTANTS k1, k2, k3, short, short2, long

MCKey == {k1, k2, k3}
MCValue == {short, short2, long}
MCKeyLen == [k \in MCKey |-> IF k = k3 THEN 2 ELSE 1]
MCValLen == [v \in MCValue |-> IF v = long THEN 3 ELSE 1]
MCLimits == {-1, 0, 1, 3, 4, 6}
=============================================================================
