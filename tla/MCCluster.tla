------------------------------ MODULE MCCluster ------------------------------
(* Cluster on a small instance: two nodes; the groups "ssc", "sc" and "c" and the
   keys "+" and "/ ".  A request for "/ " of "ssc" is taken for one of "+" of
   "sc", whose getter may panic. *)
EXTENDS Cluster

CONSTANTS n1, n2, p1, p2, s, c, slash, space, plus

MCName == {<<s, s, c>>, <<s, c>>, <<c>>}
MCKey == {<<plus>>, <<slash, space>>, <<slash, plus>>, <<>>}
MCPanicky == {<<<<s, c>>, <<plus>>>>}
MCAsks == [p \in {p1, p2} |->
    IF p = p1 THEN {<<<<s, c>>, <<plus>>>>} ELSE {<<<<s, s, c>>, <<slash, space>>>>}]
MCPeerLists == [n \in {n1, n2} |->
    IF n = n1 THEN {{n1, n2}, {n2}} ELSE {{n1, n2}}]
MCHome == [p \in {p1, p2} |-> IF p = p1 THEN n1 ELSE n2]
\* The first node owns every key of a ring it is in.
MCOwners ==
    {[S \in (SUBSET {n1, n2}) \ {{}} |->
        [k \in MCKey |-> IF n1 \in S THEN n1 ELSE n2]]}
=============================================================================
