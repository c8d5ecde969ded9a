---------------------------- MODULE FastLRUProofs ----------------------------
(***************************************************************************)
(* Proofs about FastLRU, for every number of goroutines, keys and shards,  *)
(* all sizes, limits and ways to spread the keys: that a shard's list, map *)
(* and byte count agree until two Gets race in it, that an Add keeps the   *)
(* limit and its own entry, that no Get follows a nil pointer even in a    *)
(* race, and that the counters add up.                                     *)
(***************************************************************************)
EXTENDS FastLRU, SumTheorems

-----------------------------------------------------------------------------
(* Lists.                                                                  *)

Links == [{"next", "prev"} -> [Node -> Node \cup {Nil}]]

\* Following next from s one meets all of S: no part of S that s is in is closed.
Loops(l, S, s) ==
    /\ \A x \in S : l.next[x] \in S
    /\ \A T \in SUBSET S : s \in T /\ (\A x \in T : l.next[x] \in T) => T = S

\* A list of the elements S without the root s, which is in S too.
Whole(l, S, s) ==
    /\ Loops(l, S, s)
    /\ \A x \in S : l.prev[l.next[x]] = x /\ l.prev[x] \in S /\ l.next[l.prev[x]] = x

\* How far a move of e has come, by the assignment that is next: 7 if it is over.
Stage(l, S, s, e, t) ==
    LET H == S \ {e}
        b == l.prev[e]
        a == l.next[e]
    IN
    CASE t \in {1, 7} -> Whole(l, S, s)
      [] t = 2 -> /\ Loops(l, H, s)
                  /\ a \in H /\ b \in H /\ l.next[b] = a /\ l.prev[a] = e
                  /\ \A x \in H : x # b => l.prev[l.next[x]] = x
                  /\ \A x \in H : x # a => l.prev[x] \in H /\ l.next[l.prev[x]] = x
      [] t = 3 -> Whole(l, H, s)
      [] t = 4 -> Whole(l, H, s) /\ b = s
      [] t = 5 -> Whole(l, H, s) /\ b = s /\ a = l.next[s]
      [] t = 6 -> /\ Loops(l, S, s)
                  /\ a \in H /\ b = s /\ l.next[s] = e /\ l.prev[a] = s
                  /\ \A x \in H : l.prev[l.next[x]] = x
                  /\ \A x \in S : x # a => l.prev[x] \in S /\ l.next[l.prev[x]] = x

\* The six assignments, one by one.
LEMMA AssignmentIs ==
    ASSUME NEW l, NEW e, NEW r
    PROVE  /\ Assign(l, 1, e, r) = Point(l, "next", l.prev[e], l.next[e])
           /\ Assign(l, 2, e, r) = Point(l, "prev", l.next[e], l.prev[e])
           /\ Assign(l, 3, e, r) = Point(l, "prev", e, r)
           /\ Assign(l, 4, e, r) = Point(l, "next", e, l.next[r])
           /\ Assign(l, 5, e, r) = Point(l, "next", l.prev[e], e)
           /\ Assign(l, 6, e, r) = Point(l, "prev", l.next[e], e)
<1>1. Assign(l, 1, e, r) = Point(l, "next", l.prev[e], l.next[e])
  BY DEF Assign
<1>2. Assign(l, 2, e, r) = Point(l, "prev", l.next[e], l.prev[e])
  BY DEF Assign
<1>3. Assign(l, 3, e, r) = Point(l, "prev", e, r)
  BY DEF Assign
<1>4. Assign(l, 4, e, r) = Point(l, "next", e, l.next[r])
  BY DEF Assign
<1>5. Assign(l, 5, e, r) = Point(l, "next", l.prev[e], e)
  BY DEF Assign
<1>6. Assign(l, 6, e, r) = Point(l, "prev", l.next[e], e)
  BY DEF Assign
<1> QED BY <1>1, <1>2, <1>3, <1>4, <1>5, <1>6

\* What each assignment does, pointer by pointer.
LEMMA Assignments ==
    ASSUME NEW l \in Links, NEW i \in 1 .. 6, NEW e \in Node, NEW r \in Node
    PROVE  LET m == Assign(l, i, e, r) IN
           /\ m \in [{"next", "prev"} -> [Node -> Node \cup {Nil}]]
           /\ i = 1 => /\ m.prev = l.prev
                       /\ \A x \in Node : m.next[x] = IF x = l.prev[e] THEN l.next[e]
                                                      ELSE l.next[x]
           /\ i = 2 => /\ m.next = l.next
                       /\ \A x \in Node : m.prev[x] = IF x = l.next[e] THEN l.prev[e]
                                                      ELSE l.prev[x]
           /\ i = 3 => /\ m.next = l.next
                       /\ \A x \in Node : m.prev[x] = IF x = e THEN r ELSE l.prev[x]
           /\ i = 4 => /\ m.prev = l.prev
                       /\ \A x \in Node : m.next[x] = IF x = e THEN l.next[r]
                                                      ELSE l.next[x]
           /\ i = 5 => /\ m.prev = l.prev
                       /\ \A x \in Node : m.next[x] = IF x = l.prev[e] THEN e
                                                      ELSE l.next[x]
           /\ i = 6 => /\ m.next = l.next
                       /\ \A x \in Node : m.prev[x] = IF x = l.next[e] THEN e
                                                      ELSE l.prev[x]
<1> DEFINE m == Assign(l, i, e, r)
<1>1. i = 1 \/ i = 2 \/ i = 3 \/ i = 4 \/ i = 5 \/ i = 6
  OBVIOUS
<1>2. CASE i = 1
  <2>1. m = Point(l, "next", l.prev[e], l.next[e])
    BY <1>2, AssignmentIs
  <2> QED BY <1>2, <2>1 DEF Point, Links
<1>3. CASE i = 2
  <2>1. m = Point(l, "prev", l.next[e], l.prev[e])
    BY <1>3, AssignmentIs
  <2> QED BY <1>3, <2>1 DEF Point, Links
<1>4. CASE i = 3
  <2>1. m = Point(l, "prev", e, r)
    BY <1>4, AssignmentIs
  <2> QED BY <1>4, <2>1 DEF Point, Links
<1>5. CASE i = 4
  <2>1. m = Point(l, "next", e, l.next[r])
    BY <1>5, AssignmentIs
  <2> QED BY <1>5, <2>1 DEF Point, Links
<1>6. CASE i = 5
  <2>1. m = Point(l, "next", l.prev[e], e)
    BY <1>6, AssignmentIs
  <2> QED BY <1>6, <2>1 DEF Point, Links
<1>7. CASE i = 6
  <2>1. m = Point(l, "prev", l.next[e], e)
    BY <1>7, AssignmentIs
  <2> QED BY <1>7, <2>1 DEF Point, Links
<1> QED BY <1>1, <1>2, <1>3, <1>4, <1>5, <1>6, <1>7

\* An element taken out of the loop leaves one without it, and an element put
\* behind the root is in the loop.
LEMMA LoopOut ==
    ASSUME NEW l, NEW m, NEW S, NEW s \in S, NEW e \in S, e # s, Whole(l, S, s),
           \A x \in S : m.next[x] = IF x = l.prev[e] THEN l.next[e] ELSE l.next[x]
    PROVE  Loops(m, S \ {e}, s)
<1> DEFINE H == S \ {e}
           b == l.prev[e]
           a == l.next[e]
<1>1. /\ \A x \in S : l.next[x] \in S /\ l.prev[l.next[x]] = x
                      /\ l.prev[x] \in S /\ l.next[l.prev[x]] = x
      /\ \A T \in SUBSET S : s \in T /\ (\A x \in T : l.next[x] \in T) => T = S
  BY DEF Whole, Loops
<1>2. b # e
  <2>1. SUFFICES ASSUME b = e PROVE FALSE
    OBVIOUS
  <2>2. a = e
    BY <1>1, <2>1
  <2>3. \A x \in H : l.next[x] \in H
    BY <1>1, <2>1
  <2>4. s \in H /\ H \in SUBSET S /\ H # S
    OBVIOUS
  <2> HIDE DEF H
  <2> QED BY <1>1, <2>3, <2>4
<1>3. a # e /\ a \in H /\ b \in H
  BY <1>1, <1>2
<1>4. \A x \in H : m.next[x] \in H
  <2>1. \A x \in H : x # b => l.next[x] # e
    BY <1>1
  <2> QED BY <1>1, <1>3, <2>1
<1>5. ASSUME NEW T \in SUBSET H, s \in T, \A x \in T : m.next[x] \in T
      PROVE  T = H
  <2>1. CASE b \in T
    <3> DEFINE U == T \cup {e}
    <3>1. a \in T
      BY <1>5, <2>1
    <3>2. \A x \in U : l.next[x] \in U
      BY <1>1, <1>5, <3>1
    <3>3. U \in SUBSET S /\ s \in U
      BY <1>5
    <3>4. U = S
      <4> HIDE DEF U
      <4> QED BY <1>1, <3>2, <3>3
    <3> QED BY <1>5, <3>4
  <2>2. CASE b \notin T
    <3>1. \A x \in T : l.next[x] \in T
      BY <1>5, <2>2
    <3>2. T = S
      BY <1>1, <1>5, <3>1
    <3> QED BY <1>5, <3>2
  <2> QED BY <2>1, <2>2
<1> HIDE DEF H
<1>6. Loops(m, H, s)
  BY <1>4, <1>5 DEF Loops
<1> QED BY <1>6 DEF H

LEMMA LoopIn ==
    ASSUME NEW l, NEW m, NEW H, NEW s \in H, NEW e, e \notin H, Loops(l, H, s),
           m.next[s] = e, m.next[e] = l.next[s],
           \A x \in H : x # s => m.next[x] = l.next[x]
    PROVE  Loops(m, H \cup {e}, s)
<1> DEFINE S == H \cup {e}
<1>1. /\ \A x \in H : l.next[x] \in H
      /\ \A T \in SUBSET H : s \in T /\ (\A x \in T : l.next[x] \in T) => T = H
  BY DEF Loops
<1>2. \A x \in S : m.next[x] \in S
  BY <1>1
<1>3. ASSUME NEW T \in SUBSET S, s \in T, \A x \in T : m.next[x] \in T
      PROVE  T = S
  <2> DEFINE U == T \ {e}
  <2>1. e \in T /\ l.next[s] \in T
    BY <1>3
  <2>2. \A x \in U : l.next[x] \in U
    BY <1>1, <1>3, <2>1
  <2>3. U \in SUBSET H /\ s \in U
    BY <1>3
  <2> HIDE DEF U
  <2>4. U = H
    BY <1>1, <2>2, <2>3
  <2> QED BY <2>1, <2>4 DEF U
<1> HIDE DEF S
<1>4. Loops(m, S, s)
  BY <1>2, <1>3 DEF Loops
<1> QED BY <1>4 DEF S

\* Each assignment of a move takes it to the next stage.
LEMMA NextStage ==
    ASSUME NEW l \in Links, NEW S \in SUBSET Node, NEW s \in S, NEW e \in S, e # s,
           NEW i \in 1 .. 6, Stage(l, S, s, e, i)
    PROVE  Stage(Assign(l, i, e, s), S, s, e, i + 1)
<1> DEFINE m == Assign(l, i, e, s)
           H == S \ {e}
           b == l.prev[e]
           a == l.next[e]
<1>0. e \in Node /\ s \in Node /\ H \subseteq S /\ s \in H /\ S = H \cup {e}
      /\ S \subseteq Node /\ e \notin H
  OBVIOUS
<1>1. i = 1 \/ i = 2 \/ i = 3 \/ i = 4 \/ i = 5 \/ i = 6
  OBVIOUS
<1>2. CASE i = 1
  <2>1. m.prev = l.prev /\ \A x \in Node : m.next[x] = IF x = b THEN a ELSE l.next[x]
    BY <1>0, <1>2, Assignments
  <2>2. Whole(l, S, s)
    BY <1>2 DEF Stage
  <2>3. \A x \in S : l.next[x] \in S /\ l.prev[l.next[x]] = x
                     /\ l.prev[x] \in S /\ l.next[l.prev[x]] = x
    BY <2>2 DEF Whole, Loops
  <2> HIDE DEF m
  <2>4. Loops(m, H, s)
    BY <1>0, <2>1, <2>2, LoopOut
  <2>5. b \in S /\ a \in S /\ b # e /\ a # e
    <3>1. b # e
      <4>1. SUFFICES ASSUME b = e PROVE FALSE
        OBVIOUS
      <4>2. a = e
        BY <2>3, <4>1
      <4>3. \A x \in H : l.next[x] \in H
        BY <2>3, <4>1
      <4>4. H \in SUBSET S /\ s \in H
        OBVIOUS
      <4>5. H = S
        BY <2>2, <4>3, <4>4 DEF Whole, Loops
      <4> QED BY <4>5
    <3> QED BY <2>3, <3>1
  <2>6. m.prev[e] = b /\ m.next[e] = a /\ m.next[b] = a /\ m.prev[a] = e
    BY <1>0, <2>1, <2>3, <2>5
  <2>7. ASSUME NEW x \in H
        PROVE  /\ x # b => m.prev[m.next[x]] = x
               /\ x # a => m.prev[x] \in H /\ m.next[m.prev[x]] = x
    <3>1. x # b => m.prev[m.next[x]] = x
      BY <1>0, <2>1, <2>3, <2>7
    <3>2. ASSUME x # a
          PROVE  m.prev[x] \in H /\ m.next[m.prev[x]] = x
      <4>1. l.prev[x] # e /\ l.prev[x] # b
        BY <1>0, <2>3, <2>7, <3>2
      <4> QED BY <1>0, <2>1, <2>3, <2>7, <4>1
    <3> QED BY <3>1, <3>2
  <2>8. i + 1 = 2
    BY <1>2
  <2>9. Stage(m, S, s, e, 2)
    <3>1. a \in H /\ b \in H
      BY <2>5
    <3> HIDE DEF H, a, b
    <3> QED BY <2>4, <2>6, <2>7, <3>1 DEF Stage, H
  <2> QED BY <2>8, <2>9 DEF m
<1>3. CASE i = 2
  <2>1. m.next = l.next /\ \A x \in Node : m.prev[x] = IF x = a THEN b ELSE l.prev[x]
    BY <1>0, <1>3, Assignments
  <2>2. /\ Loops(l, H, s)
        /\ a \in H /\ b \in H /\ l.next[b] = a /\ l.prev[a] = e
        /\ \A x \in H : x # b => l.prev[l.next[x]] = x
        /\ \A x \in H : x # a => l.prev[x] \in H /\ l.next[l.prev[x]] = x
    BY <1>3 DEF Stage
  <2> HIDE DEF m, H, a, b
  <2>3. Loops(m, H, s) /\ \A x \in H : l.next[x] \in H
    BY <2>1, <2>2 DEF Loops
  <2>4. \A x \in H : m.prev[m.next[x]] = x /\ m.prev[x] \in H /\ m.next[m.prev[x]] = x
    BY <1>0, <2>1, <2>2, <2>3
  <2>5. i + 1 = 3 /\ Stage(m, S, s, e, 3)
    BY <1>3, <2>3, <2>4 DEF Stage, Whole, H
  <2> QED BY <2>5 DEF m
<1>4. CASE i = 3
  <2>1. m.next = l.next /\ \A x \in Node : m.prev[x] = IF x = e THEN s ELSE l.prev[x]
    BY <1>0, <1>4, Assignments
  <2>2. Whole(l, H, s)
    BY <1>4 DEF Stage
  <2> HIDE DEF m, H
  <2>3. Whole(m, H, s) /\ m.prev[e] = s
    BY <1>0, <2>1, <2>2 DEF Whole, Loops
  <2>4. i + 1 = 4 /\ Stage(m, S, s, e, 4)
    BY <1>4, <2>3 DEF Stage, H
  <2> QED BY <2>4 DEF m
<1>5. CASE i = 4
  <2>1. m.prev = l.prev
        /\ \A x \in Node : m.next[x] = IF x = e THEN l.next[s] ELSE l.next[x]
    BY <1>0, <1>5, Assignments
  <2>2. Whole(l, H, s) /\ l.prev[e] = s
    BY <1>5 DEF Stage
  <2> HIDE DEF m, H
  <2>3. Whole(m, H, s) /\ m.prev[e] = s /\ m.next[e] = m.next[s]
    BY <1>0, <2>1, <2>2 DEF Whole, Loops
  <2>4. i + 1 = 5 /\ Stage(m, S, s, e, 5)
    BY <1>5, <2>3 DEF Stage, H
  <2> QED BY <2>4 DEF m
<1>6. CASE i = 5
  <2>1. m.prev = l.prev /\ \A x \in Node : m.next[x] = IF x = b THEN e ELSE l.next[x]
    BY <1>0, <1>6, Assignments
  <2>2. Whole(l, H, s) /\ b = s /\ a = l.next[s]
    BY <1>6 DEF Stage
  <2> HIDE DEF m, H, a, b
  <2>3. \A x \in H : l.next[x] \in H /\ l.prev[l.next[x]] = x
                     /\ l.prev[x] \in H /\ l.next[l.prev[x]] = x
    BY <2>2 DEF Whole, Loops
  <2>4. m.next[s] = e /\ m.next[e] = a /\ \A x \in H : x # s => m.next[x] = l.next[x]
    BY <1>0, <2>1, <2>2 DEF a
  <2>5. Loops(m, S, s)
    <3>1. Loops(l, H, s) /\ m.next[e] = l.next[s]
      BY <2>2, <2>4 DEF Whole
    <3>2. Loops(m, H \cup {e}, s)
      BY <1>0, <2>4, <3>1, LoopIn
    <3> QED BY <1>0, <3>2
  <2>6. m.prev[e] = s /\ a \in H /\ m.prev[a] = s
    BY <1>0, <2>1, <2>2, <2>3 DEF b
  <2>7. \A x \in H : m.prev[m.next[x]] = x
    BY <1>0, <2>1, <2>3, <2>4, <2>6
  <2>8. \A x \in S : x # a => m.prev[x] \in S /\ m.next[m.prev[x]] = x
    <3>1. \A x \in H : x # a => l.prev[x] # s
      BY <2>2, <2>3
    <3> QED BY <1>0, <2>1, <2>3, <2>4, <2>6, <3>1
  <2>9. i + 1 = 6 /\ Stage(m, S, s, e, 6)
    BY <1>6, <2>4, <2>5, <2>6, <2>7, <2>8 DEF Stage, H
  <2> QED BY <2>9 DEF m
<1>7. CASE i = 6
  <2>1. m.next = l.next /\ \A x \in Node : m.prev[x] = IF x = a THEN e ELSE l.prev[x]
    BY <1>0, <1>7, Assignments
  <2>2. /\ Loops(l, S, s)
        /\ a \in H /\ b = s /\ l.next[s] = e /\ l.prev[a] = s
        /\ \A x \in H : l.prev[l.next[x]] = x
        /\ \A x \in S : x # a => l.prev[x] \in S /\ l.next[l.prev[x]] = x
    BY <1>7 DEF Stage
  <2> HIDE DEF m, H, a, b
  <2>3. Loops(m, S, s) /\ \A x \in S : l.next[x] \in S
    BY <2>1, <2>2 DEF Loops
  <2>4. l.next[e] = a
    BY DEF a
  <2>5. \A x \in S : m.prev[m.next[x]] = x /\ m.prev[x] \in S /\ m.next[m.prev[x]] = x
    <3>1. \A x \in H : l.next[x] # a
      BY <1>0, <2>2
    <3>2. m.prev[a] = e /\ m.next[e] = a
      BY <1>0, <2>1, <2>2, <2>4
    <3>3. \A x \in S : x # a => m.prev[x] = l.prev[x]
      BY <1>0, <2>1
    <3>4. \A x \in H : m.prev[m.next[x]] = x
      BY <1>0, <2>1, <2>2, <2>3, <3>1, <3>3
    <3>5. \A x \in S : m.prev[x] \in S /\ m.next[m.prev[x]] = x
      BY <1>0, <2>1, <2>2, <3>2, <3>3
    <3> QED BY <1>0, <3>2, <3>4, <3>5
  <2>6. i + 1 = 7 /\ Stage(m, S, s, e, 7)
    BY <1>7, <2>3, <2>5 DEF Stage, Whole
  <2> QED BY <2>6 DEF m
<1> QED BY <1>1, <1>2, <1>3, <1>4, <1>5, <1>6, <1>7

-----------------------------------------------------------------------------
(* What the operations of container/list do.                               *)

\* The shard an element, or a root, belongs to.
Home(x) == IF x \in Shard THEN x ELSE ShardOf[x]

\* No pointer leads to another shard.
Local(l) ==
    \A x \in Node : /\ l.next[x] # Nil => Home(l.next[x]) = Home(x)
                    /\ l.prev[x] # Nil => Home(l.prev[x]) = Home(x)

\* The elements D have both their pointers.
Tied(l, D) == \A x \in D : l.next[x] # Nil /\ l.prev[x] # Nil

\* The lists of other shards than s are the same.
Beyond(l, m, s) ==
    \A x \in Node : Home(x) # s => m.next[x] = l.next[x] /\ m.prev[x] = l.prev[x]

LEMMA Nodes ==
    /\ \A k \in Key : k \in Node /\ k \notin Shard /\ Home(k) = ShardOf[k]
    /\ \A s \in Shard : s \in Node /\ s \notin Key /\ Home(s) = s
    /\ Nil \notin Node
    /\ \A x \in Node : Home(x) \in Shard
BY FastLRUAssumption DEF Node, Home

LEMMA AssignLocal ==
    ASSUME NEW l \in Links, NEW i \in 1 .. 6, NEW s \in Shard, NEW e \in Node,
           NEW r \in Node, Home(e) = s, Home(r) = s, Local(l)
    PROVE  /\ Assign(l, i, e, r) \in Links
           /\ Local(Assign(l, i, e, r))
           /\ Beyond(l, Assign(l, i, e, r), s)
<1> DEFINE m == Assign(l, i, e, r)
           b == l.prev[e]
           a == l.next[e]
<1>1. m \in Links
  BY Assignments DEF Links
<1>2. (b # Nil => Home(b) = s) /\ (a # Nil => Home(a) = s)
      /\ (l.next[r] # Nil => Home(l.next[r]) = s)
  BY DEF Local
<1>3. \A x \in Node : x # Nil
  BY Nodes
<1>4. i = 1 \/ i = 2 \/ i = 3 \/ i = 4 \/ i = 5 \/ i = 6
  OBVIOUS
<1>5. CASE i = 1
  <2>1. m.prev = l.prev /\ \A x \in Node : m.next[x] = IF x = b THEN a ELSE l.next[x]
    BY <1>5, Assignments
  <2> HIDE DEF m, a, b
  <2> QED BY <1>1, <1>2, <1>3, <2>1 DEF Local, Beyond, m
<1>6. CASE i = 2
  <2>1. m.next = l.next /\ \A x \in Node : m.prev[x] = IF x = a THEN b ELSE l.prev[x]
    BY <1>6, Assignments
  <2> HIDE DEF m, a, b
  <2> QED BY <1>1, <1>2, <1>3, <2>1 DEF Local, Beyond, m
<1>7. CASE i = 3
  <2>1. m.next = l.next /\ \A x \in Node : m.prev[x] = IF x = e THEN r ELSE l.prev[x]
    BY <1>7, Assignments
  <2> HIDE DEF m, a, b
  <2> QED BY <1>1, <1>2, <1>3, <2>1 DEF Local, Beyond, m
<1>8. CASE i = 4
  <2>1. m.prev = l.prev
        /\ \A x \in Node : m.next[x] = IF x = e THEN l.next[r] ELSE l.next[x]
    BY <1>8, Assignments
  <2> HIDE DEF m, a, b
  <2> QED BY <1>1, <1>2, <1>3, <2>1 DEF Local, Beyond, m
<1>9. CASE i = 5
  <2>1. m.prev = l.prev /\ \A x \in Node : m.next[x] = IF x = b THEN e ELSE l.next[x]
    BY <1>9, Assignments
  <2> HIDE DEF m, a, b
  <2> QED BY <1>1, <1>2, <1>3, <2>1 DEF Local, Beyond, m
<1>10. CASE i = 6
  <2>1. m.next = l.next /\ \A x \in Node : m.prev[x] = IF x = a THEN e ELSE l.prev[x]
    BY <1>10, Assignments
  <2> HIDE DEF m, a, b
  <2> QED BY <1>1, <1>2, <1>3, <2>1 DEF Local, Beyond, m
<1> QED BY <1>4, <1>5, <1>6, <1>7, <1>8, <1>9, <1>10

\* A move writes Nil nowhere, if the element it moves and the root are tied.
LEMMA AssignTied ==
    ASSUME NEW l \in Links, NEW i \in 1 .. 6, NEW e \in Node, NEW r \in Node,
           NEW D \in SUBSET Node, Tied(l, D), r \in D, i <= 2 => e \in D
    PROVE  Tied(Assign(l, i, e, r), D)
<1> DEFINE m == Assign(l, i, e, r)
           b == l.prev[e]
           a == l.next[e]
<1>1. e # Nil /\ r # Nil /\ l.next[r] # Nil
  BY Nodes DEF Tied
<1>2. i = 1 \/ i = 2 \/ i = 3 \/ i = 4 \/ i = 5 \/ i = 6
  OBVIOUS
<1>3. CASE i = 1
  <2>1. m.prev = l.prev /\ \A x \in Node : m.next[x] = IF x = b THEN a ELSE l.next[x]
    BY <1>3, Assignments
  <2>2. a # Nil
    BY <1>3 DEF Tied
  <2> HIDE DEF m, a, b
  <2> QED BY <2>1, <2>2 DEF Tied, m
<1>4. CASE i = 2
  <2>1. m.next = l.next /\ \A x \in Node : m.prev[x] = IF x = a THEN b ELSE l.prev[x]
    BY <1>4, Assignments
  <2>2. b # Nil
    BY <1>4 DEF Tied
  <2> HIDE DEF m, a, b
  <2> QED BY <2>1, <2>2 DEF Tied, m
<1>5. CASE i = 3
  <2>1. m.next = l.next /\ \A x \in Node : m.prev[x] = IF x = e THEN r ELSE l.prev[x]
    BY <1>5, Assignments
  <2> HIDE DEF m
  <2> QED BY <1>1, <2>1 DEF Tied, m
<1>6. CASE i = 4
  <2>1. m.prev = l.prev
        /\ \A x \in Node : m.next[x] = IF x = e THEN l.next[r] ELSE l.next[x]
    BY <1>6, Assignments
  <2> HIDE DEF m
  <2> QED BY <1>1, <2>1 DEF Tied, m
<1>7. CASE i = 5
  <2>1. m.prev = l.prev /\ \A x \in Node : m.next[x] = IF x = b THEN e ELSE l.next[x]
    BY <1>7, Assignments
  <2> HIDE DEF m, b
  <2> QED BY <1>1, <2>1 DEF Tied, m
<1>8. CASE i = 6
  <2>1. m.next = l.next /\ \A x \in Node : m.prev[x] = IF x = a THEN e ELSE l.prev[x]
    BY <1>8, Assignments
  <2> HIDE DEF m, a
  <2> QED BY <1>1, <2>1 DEF Tied, m
<1> QED BY <1>2, <1>3, <1>4, <1>5, <1>6, <1>7, <1>8

LEMMA BeyondTwice ==
    ASSUME NEW k, NEW l, NEW m, NEW s, Beyond(k, l, s), Beyond(l, m, s)
    PROVE  Beyond(k, m, s)
BY DEF Beyond

\* PushFront, whatever the state of the list.
LEMMA PushLocal ==
    ASSUME NEW l \in Links, NEW s \in Shard, NEW e \in Node, Home(e) = s, Local(l),
           NEW D \in SUBSET Node, Tied(l, D), s \in D
    PROVE  LET m == PushFront(l, e, s) IN
           /\ m \in Links
           /\ Local(m)
           /\ Beyond(l, m, s)
           /\ Tied(m, D \cup {e})
<1> DEFINE l3 == Assign(l, 3, e, s)
           l4 == Assign(l3, 4, e, s)
           l5 == Assign(l4, 5, e, s)
           l6 == Assign(l5, 6, e, s)
           E == D \cup {e}
<1>0. s \in Node /\ Home(s) = s /\ E \in SUBSET Node /\ s \in E
  BY Nodes
<1>1. PushFront(l, e, s) = l6
  BY DEF PushFront
<1>2. l3 \in Links /\ Local(l3) /\ Beyond(l, l3, s) /\ Tied(l3, D) /\ l3.prev[e] = s
  <2>1. l3 \in Links /\ Local(l3) /\ Beyond(l, l3, s) /\ Tied(l3, D)
    BY <1>0, AssignLocal, AssignTied
  <2>2. l3.prev[e] = s
    BY <1>0, Assignments
  <2> QED BY <2>1, <2>2
<1> HIDE DEF l3
<1>3. l4 \in Links /\ Local(l4) /\ Beyond(l3, l4, s) /\ Tied(l4, D)
      /\ l4.prev = l3.prev /\ l4.next[e] = l3.next[s]
  BY <1>0, <1>2, AssignLocal, AssignTied, Assignments
<1> HIDE DEF l4
<1>4. Tied(l4, E)
  <2>1. l3.next[s] # Nil /\ s # Nil
    BY <1>0, <1>2, Nodes DEF Tied
  <2> QED BY <1>2, <1>3, <2>1 DEF Tied
<1> HIDE DEF E
<1>5. l5 \in Links /\ Local(l5) /\ Beyond(l4, l5, s) /\ Tied(l5, E)
  BY <1>0, <1>3, <1>4, AssignLocal, AssignTied
<1> HIDE DEF l5
<1>6. l6 \in Links /\ Local(l6) /\ Beyond(l5, l6, s) /\ Tied(l6, E)
  BY <1>0, <1>5, AssignLocal, AssignTied
<1> HIDE DEF l6
<1>7. Beyond(l, l6, s)
  BY <1>2, <1>3, <1>5, <1>6, BeyondTwice
<1> QED BY <1>1, <1>6, <1>7 DEF E

LEMMA UnlinkLocal ==
    ASSUME NEW l \in Links, NEW s \in Shard, NEW e \in Node, Home(e) = s, Local(l),
           NEW D \in SUBSET Node, Tied(l, D), e \in D
    PROVE  LET m == Unlink(l, e) IN
           /\ m \in Links
           /\ Local(m)
           /\ Beyond(l, m, s)
           /\ Tied(m, D)
<1> DEFINE l1 == Assign(l, 1, e, e)
           l2 == Assign(l1, 2, e, e)
<1>1. Unlink(l, e) = l2
  BY DEF Unlink
<1>2. l1 \in Links /\ Local(l1) /\ Beyond(l, l1, s) /\ Tied(l1, D)
  BY AssignLocal, AssignTied
<1> HIDE DEF l1
<1>3. l2 \in Links /\ Local(l2) /\ Beyond(l1, l2, s) /\ Tied(l2, D)
  BY <1>2, AssignLocal, AssignTied
<1> HIDE DEF l2
<1>4. Beyond(l, l2, s)
  BY <1>2, <1>3, BeyondTwice
<1> QED BY <1>1, <1>3, <1>4

LEMMA FrontLocal ==
    ASSUME NEW l \in Links, NEW s \in Shard, NEW e \in Node, Home(e) = s, Local(l),
           NEW D \in SUBSET Node, Tied(l, D), e \in D, s \in D
    PROVE  LET m == MoveToFront(l, e, s) IN
           /\ m \in Links
           /\ Local(m)
           /\ Beyond(l, m, s)
           /\ Tied(m, D)
<1> DEFINE u == Unlink(l, e)
           m == PushFront(u, e, s)
<1>1. CASE IsFront(l, e, s)
  <2>1. MoveToFront(l, e, s) = l
    BY <1>1 DEF MoveToFront
  <2> QED BY <2>1 DEF Beyond
<1>2. CASE ~ IsFront(l, e, s)
  <2>1. MoveToFront(l, e, s) = m
    BY <1>2 DEF MoveToFront
  <2>2. u \in Links /\ Local(u) /\ Beyond(l, u, s) /\ Tied(u, D)
    BY UnlinkLocal
  <2> HIDE DEF u
  <2>3. m \in Links /\ Local(m) /\ Beyond(u, m, s) /\ Tied(m, D \cup {e})
    BY <2>2, PushLocal
  <2> HIDE DEF m
  <2>4. Beyond(l, m, s) /\ D \cup {e} = D
    BY <2>2, <2>3, BeyondTwice
  <2> QED BY <2>1, <2>3, <2>4
<1> QED BY <1>1, <1>2

LEMMA CutLocal ==
    ASSUME NEW l \in Links, NEW s \in Shard, NEW e \in Node, Home(e) = s, Local(l),
           NEW D \in SUBSET Node, Tied(l, D), e \in D
    PROVE  LET m == Cut(l, e) IN
           /\ m \in Links
           /\ Local(m)
           /\ Beyond(l, m, s)
           /\ Tied(m, D \ {e})
           /\ \A x \in Node : x # e => /\ m.next[x] = Unlink(l, e).next[x]
                                       /\ m.prev[x] = Unlink(l, e).prev[x]
<1> DEFINE u == Unlink(l, e)
           m == [u EXCEPT !.next[e] = Nil, !.prev[e] = Nil]
<1>1. u \in Links /\ Local(u) /\ Beyond(l, u, s) /\ Tied(u, D)
  BY UnlinkLocal
<1>2. Cut(l, e) = m
  BY DEF Cut
<1> HIDE DEF u
<1>3. /\ m \in Links
      /\ m.next[e] = Nil /\ m.prev[e] = Nil
      /\ \A x \in Node : x # e => m.next[x] = u.next[x] /\ m.prev[x] = u.prev[x]
  BY <1>1 DEF Links
<1> HIDE DEF m
<1>4. Local(m)
  BY <1>1, <1>3 DEF Local
<1>5. Beyond(l, m, s)
  BY <1>1, <1>3 DEF Beyond
<1>6. Tied(m, D \ {e})
  BY <1>1, <1>3 DEF Tied
<1> QED BY <1>2, <1>3, <1>4, <1>5, <1>6 DEF u

-----------------------------------------------------------------------------
(* The operations on a whole list.                                         *)

LEMMA AssignStage ==
    ASSUME NEW l \in Links, NEW S \in SUBSET Node, NEW s \in S, NEW e \in S, e # s,
           NEW i \in 1 .. 6, NEW j, j = i + 1, Stage(l, S, s, e, i)
    PROVE  Assign(l, i, e, s) \in Links /\ Stage(Assign(l, i, e, s), S, s, e, j)
<1>1. Assign(l, i, e, s) \in Links
  BY Assignments DEF Links
<1> QED BY <1>1, NextStage

LEMMA PushWhole ==
    ASSUME NEW l \in Links, NEW S \in SUBSET Node, NEW s \in S, NEW e \in S, e # s,
           Whole(l, S \ {e}, s)
    PROVE  LET m == PushFront(l, e, s) IN
           /\ Whole(m, S, s)
           /\ m.next[s] = e
<1> DEFINE l3 == Assign(l, 3, e, s)
           l4 == Assign(l3, 4, e, s)
           l5 == Assign(l4, 5, e, s)
           l6 == Assign(l5, 6, e, s)
<1>1. PushFront(l, e, s) = l6
  BY DEF PushFront
<1>2. Stage(l, S, s, e, 3)
  BY DEF Stage
<1>3. l3 \in Links /\ Stage(l3, S, s, e, 4)
  BY <1>2, AssignStage
<1> HIDE DEF l3
<1>4. l4 \in Links /\ Stage(l4, S, s, e, 5)
  BY <1>3, AssignStage
<1> HIDE DEF l4
<1>5. l5 \in Links /\ Stage(l5, S, s, e, 6)
  BY <1>4, AssignStage
<1> HIDE DEF l5
<1>6. Stage(l6, S, s, e, 7)
  BY <1>5, AssignStage
<1>7. l6.next = l5.next
  BY <1>5, Assignments
<1> HIDE DEF l6
<1>8. l5.next[s] = e
  BY <1>5 DEF Stage
<1>9. Whole(l6, S, s)
  BY <1>6 DEF Stage
<1> QED BY <1>1, <1>7, <1>8, <1>9

LEMMA UnlinkWhole ==
    ASSUME NEW l \in Links, NEW S \in SUBSET Node, NEW s \in S, NEW e \in S, e # s,
           Whole(l, S, s)
    PROVE  LET m == Unlink(l, e) IN
           /\ m \in Links
           /\ Whole(m, S \ {e}, s)
           /\ l.next[s] # e => m.next[s] = l.next[s]
<1> DEFINE l1 == Assign(l, 1, e, e)
           l2 == Assign(l1, 2, e, e)
<1>1. Unlink(l, e) = l2
  BY DEF Unlink
<1>2. Stage(l, S, s, e, 1)
  BY DEF Stage
<1>3. l1 = Assign(l, 1, e, s)
  BY AssignmentIs
<1>4. l1 \in Links /\ Stage(l1, S, s, e, 2)
  BY <1>2, <1>3, AssignStage
<1>5. l.next[s] # e => l1.next[s] = l.next[s]
  <2>1. l.next[l.prev[e]] = e
    BY DEF Whole
  <2>2. l1.next[s] = IF s = l.prev[e] THEN l.next[e] ELSE l.next[s]
    BY Assignments
  <2> QED BY <2>1, <2>2
<1> HIDE DEF l1
<1>6. l2 = Assign(l1, 2, e, s)
  BY AssignmentIs
<1>7. l2 \in Links /\ Stage(l2, S, s, e, 3)
  BY <1>4, <1>6, AssignStage
<1>8. l2.next = l1.next
  BY <1>4, Assignments
<1> HIDE DEF l2
<1>9. Whole(l2, S \ {e}, s)
  BY <1>7 DEF Stage
<1> QED BY <1>1, <1>5, <1>7, <1>8, <1>9

LEMMA FrontWhole ==
    ASSUME NEW l \in Links, NEW S \in SUBSET Node, NEW s \in S, NEW e \in S, e # s,
           Whole(l, S, s)
    PROVE  LET m == MoveToFront(l, e, s) IN
           /\ Whole(m, S, s)
           /\ m.next[s] = e
<1> DEFINE u == Unlink(l, e)
<1>1. CASE IsFront(l, e, s)
  BY <1>1 DEF MoveToFront, IsFront
<1>2. CASE ~ IsFront(l, e, s)
  <2>1. MoveToFront(l, e, s) = PushFront(u, e, s)
    BY <1>2 DEF MoveToFront
  <2>2. u \in Links /\ Whole(u, S \ {e}, s)
    BY UnlinkWhole
  <2> HIDE DEF u
  <2> QED BY <2>1, <2>2, PushWhole
<1> QED BY <1>1, <1>2

\* Two lists with the same pointers are whole together.
LEMMA SameWhole ==
    ASSUME NEW l, NEW m, NEW S, NEW s,
           \A x \in S : m.next[x] = l.next[x] /\ m.prev[x] = l.prev[x],
           Whole(l, S, s)
    PROVE  Whole(m, S, s)
<1>1. \A x \in S : m.next[x] \in S
  BY DEF Whole, Loops
<1>2. ASSUME NEW T \in SUBSET S, s \in T, \A x \in T : m.next[x] \in T
      PROVE  T = S
  <2>1. \A x \in T : l.next[x] \in T
    BY <1>2
  <2> QED BY <1>2, <2>1 DEF Whole, Loops
<1>3. Loops(m, S, s)
  BY <1>1, <1>2 DEF Loops
<1>4. \A x \in S : m.prev[m.next[x]] = x /\ m.prev[x] \in S /\ m.next[m.prev[x]] = x
  BY DEF Whole, Loops
<1> QED BY <1>3, <1>4 DEF Whole

\* The same for a list in the middle of a move.
LEMMA SameStage ==
    ASSUME NEW l, NEW m, NEW S, NEW s, NEW e \in S, NEW t \in 1 .. 6,
           \A x \in S : m.next[x] = l.next[x] /\ m.prev[x] = l.prev[x],
           Stage(l, S, s, e, t), s \in S
    PROVE  Stage(m, S, s, e, t)
<1> DEFINE H == S \ {e}
<1>1. \A x \in H : m.next[x] = l.next[x] /\ m.prev[x] = l.prev[x]
  OBVIOUS
<1>2. m.next[e] = l.next[e] /\ m.prev[e] = l.prev[e]
  OBVIOUS
<1>3. ASSUME NEW Q \in SUBSET S, Loops(l, Q, s)
      PROVE  Loops(m, Q, s)
  <2>1. \A x \in Q : m.next[x] = l.next[x]
    OBVIOUS
  <2>2. ASSUME NEW T \in SUBSET Q, s \in T, \A x \in T : m.next[x] \in T
        PROVE  T = Q
    <3>1. \A x \in T : l.next[x] \in T
      BY <2>1, <2>2
    <3> QED BY <1>3, <2>2, <3>1 DEF Loops
  <2>3. \A x \in Q : m.next[x] \in Q
    BY <1>3, <2>1 DEF Loops
  <2> QED BY <2>2, <2>3 DEF Loops
<1>4. t = 1 \/ t = 2 \/ t = 3 \/ t = 4 \/ t = 5 \/ t = 6
  OBVIOUS
<1>5. CASE t = 1
  BY <1>5, SameWhole DEF Stage
<1>6. CASE t = 2
  <2>1. /\ Loops(l, H, s)
        /\ l.next[e] \in H /\ l.prev[e] \in H /\ l.next[l.prev[e]] = l.next[e]
        /\ l.prev[l.next[e]] = e
        /\ \A x \in H : x # l.prev[e] => l.prev[l.next[x]] = x
        /\ \A x \in H : x # l.next[e] => l.prev[x] \in H /\ l.next[l.prev[x]] = x
    BY <1>6 DEF Stage
  <2>2. Loops(m, H, s)
    BY <1>3, <2>1
  <2>3. \A x \in H : l.next[x] \in H
    BY <2>1 DEF Loops
  <2> HIDE DEF H
  <2>4. /\ m.next[e] \in H /\ m.prev[e] \in H /\ m.next[m.prev[e]] = m.next[e]
        /\ m.prev[m.next[e]] = e
        /\ \A x \in H : x # m.prev[e] => m.prev[m.next[x]] = x
        /\ \A x \in H : x # m.next[e] => m.prev[x] \in H /\ m.next[m.prev[x]] = x
    BY <1>1, <1>2, <2>1, <2>3
  <2> QED BY <1>6, <2>2, <2>4 DEF Stage, H
<1>7. CASE t = 3
  <2>1. Whole(l, H, s)
    BY <1>7 DEF Stage
  <2> HIDE DEF H
  <2>2. Whole(m, H, s)
    BY <1>1, <1>2, <2>1, SameWhole
  <2> QED BY <1>7, <2>2 DEF Stage, H
<1>8. CASE t = 4
  <2>1. Whole(l, H, s) /\ l.prev[e] = s
    BY <1>8 DEF Stage
  <2> HIDE DEF H
  <2>2. Whole(m, H, s) /\ m.prev[e] = s
    BY <1>1, <1>2, <2>1, SameWhole
  <2> QED BY <1>8, <2>2 DEF Stage, H
<1>9. CASE t = 5
  <2>1. Whole(l, H, s) /\ l.prev[e] = s /\ l.next[e] = l.next[s]
    BY <1>9 DEF Stage
  <2> HIDE DEF H
  <2>2. Whole(m, H, s) /\ m.prev[e] = s /\ m.next[e] = m.next[s]
    BY <1>1, <1>2, <2>1, SameWhole
  <2> QED BY <1>9, <2>2 DEF Stage, H
<1>10. CASE t = 6
  <2>1. /\ Loops(l, S, s)
        /\ l.next[e] \in H /\ l.prev[e] = s /\ l.next[s] = e /\ l.prev[l.next[e]] = s
        /\ \A x \in H : l.prev[l.next[x]] = x
        /\ \A x \in S : x # l.next[e] => l.prev[x] \in S /\ l.next[l.prev[x]] = x
    BY <1>10 DEF Stage
  <2>2. Loops(m, S, s)
    BY <1>3, <2>1
  <2>3. \A x \in H : l.next[x] \in S
    BY <2>1 DEF Loops
  <2>4. \A x \in H : x \in S
    OBVIOUS
  <2> HIDE DEF H
  <2>5. /\ m.next[e] \in H /\ m.prev[e] = s /\ m.next[s] = e /\ m.prev[m.next[e]] = s
        /\ \A x \in H : m.prev[m.next[x]] = x
        /\ \A x \in S : x # m.next[e] => m.prev[x] \in S /\ m.next[m.prev[x]] = x
    BY <1>1, <1>2, <2>1, <2>3, <2>4
  <2> QED BY <1>10, <2>2, <2>5 DEF Stage, H
<1> QED BY <1>4, <1>5, <1>6, <1>7, <1>8, <1>9, <1>10

LEMMA EmptyWhole ==
    ASSUME NEW l, NEW s, l.next[s] = s, l.prev[s] = s
    PROVE  Whole(l, {s}, s)
BY DEF Whole, Loops

\* A whole list is what Intact asks for.
LEMMA WholeIntact ==
    ASSUME NEW s \in Shard, IsFiniteSet(cache), Whole(links, Held(s) \cup {s}, s)
    PROVE  Intact(s)
<1> DEFINE nodes == Held(s) \cup {s}
           n == Cardinality(nodes)
           Follows(f, k) == f = [i \in 0 .. k |-> IF i = 0 THEN s ELSE links.next[f[i - 1]]]
<1>1. IsFiniteSet(nodes) /\ n \in Nat
  BY FS_Subset, FS_AddElement, FS_CardinalityType DEF Held
<1>2. \A k \in Nat : \E f : Follows(f, k)
  <2> DEFINE S == {k \in Nat : \E f : Follows(f, k)}
  <2>1. 0 \in S
    <3>1. Follows([i \in 0 .. 0 |-> s], 0)
      OBVIOUS
    <3> QED BY <3>1
  <2>2. ASSUME NEW k \in Nat, k \in S
        PROVE  k + 1 \in S
    <3>1. PICK f : Follows(f, k)
      BY <2>2
    <3> DEFINE g == [i \in 0 .. k + 1 |-> IF i <= k THEN f[i] ELSE links.next[f[k]]]
    <3>2. ASSUME NEW i \in 0 .. k + 1
          PROVE  g[i] = IF i = 0 THEN s ELSE links.next[g[i - 1]]
      <4>1. CASE i <= k
        <5>1. g[i] = f[i] /\ (i # 0 => g[i - 1] = f[i - 1])
          BY <4>1
        <5>2. f[i] = IF i = 0 THEN s ELSE links.next[f[i - 1]]
          BY <3>1, <4>1
        <5> QED BY <5>1, <5>2
      <4>2. CASE ~ (i <= k)
        <5>1. i = k + 1 /\ i - 1 = k /\ i # 0
          BY <4>2
        <5>2. g[k + 1] = links.next[f[k]] /\ g[k] = f[k]
          OBVIOUS
        <5> HIDE DEF g
        <5>3. g[k + 1] = links.next[g[k]]
          BY <5>2
        <5>4. g[i] = links.next[g[i - 1]]
          BY <5>1, <5>3
        <5> QED BY <5>1, <5>4
      <4> QED BY <4>1, <4>2
    <3>3. Follows(g, k + 1)
      BY <3>2
    <3> HIDE DEF Follows
    <3> QED BY <3>3
  <2> HIDE DEF S
  <2>3. Nat \subseteq S
    BY <2>1, <2>2, NumberInduction
  <2> QED BY <2>3 DEF S
<1> DEFINE f == CHOOSE f : Follows(f, n)
<1>3. Follows(f, n)
  BY <1>1, <1>2
<1>4. Intact(s) <=>
        /\ \A x \in nodes : links.next[x] \in nodes /\ links.prev[links.next[x]] = x
        /\ {f[i] : i \in DOMAIN f} = nodes
  BY DEF Intact
<1> HIDE DEF f, n
<1>5. DOMAIN f = 0 .. n /\ f[0] = s /\ \A i \in 1 .. n : f[i] = links.next[f[i - 1]]
  BY <1>1, <1>3
<1> HIDE DEF Follows
<1>6. /\ \A x \in nodes : links.next[x] \in nodes /\ links.prev[links.next[x]] = x
      /\ \A T \in SUBSET nodes :
            s \in T /\ (\A x \in T : links.next[x] \in T) => T = nodes
  BY DEF Whole, Loops
<1>7. s \in nodes
  OBVIOUS
<1> HIDE DEF nodes
<1>8. \A i \in 0 .. n : f[i] \in nodes
  <2> DEFINE S == {i \in Nat : i <= n => f[i] \in nodes}
  <2>1. 0 \in S
    BY <1>5, <1>7
  <2>2. ASSUME NEW i \in Nat, i \in S
        PROVE  i + 1 \in S
    <3>1. i + 1 <= n => f[i + 1] = links.next[f[i]] /\ f[i] \in nodes
      BY <1>1, <1>5, <2>2
    <3> QED BY <1>6, <3>1
  <2> HIDE DEF S
  <2>3. Nat \subseteq S
    BY <2>1, <2>2, NumberInduction
  <2> QED BY <1>1, <2>3 DEF S
<1>9. PICK i \in 0 .. n, j \in 0 .. n : i < j /\ f[i] = f[j]
  <2>1. IsFiniteSet(0 .. n) /\ Cardinality(0 .. n) = n + 1
    <3>1. 0 \in Int /\ n \in Int /\ ~ (0 > n) /\ n - 0 + 1 = n + 1
      BY <1>1
    <3> QED BY <3>1, FS_Interval
  <2>2. n < n + 1 /\ n = Cardinality(nodes)
    BY <1>1 DEF n, nodes
  <2>3. f \in [0 .. n -> nodes]
    <3>1. f = [i \in 0 .. n |-> f[i]]
      BY <1>3 DEF Follows
    <3> QED BY <1>8, <3>1
  <2>4. PICK x, y \in 0 .. n : x # y /\ f[x] = f[y]
    BY <1>1, <2>1, <2>2, <2>3, FS_PigeonHole
  <2>5. x < y \/ y < x
    BY <2>4
  <2> QED BY <2>4, <2>5
<1> DEFINE G == {f[x] : x \in 0 .. j - 1}
<1>10. j \in Nat /\ i \in Nat /\ n \in Nat /\ j <= n
  BY <1>1
<1>11. s \in G
  BY <1>5, <1>9, <1>10
<1>12. ASSUME NEW y \in G
       PROVE  links.next[y] \in G
  <2>1. PICK x \in 0 .. j - 1 : y = f[x]
    OBVIOUS
  <2>2. f[x + 1] = links.next[y]
    BY <1>5, <1>10, <2>1
  <2>3. CASE x + 1 <= j - 1
    BY <1>10, <2>2, <2>3
  <2>4. CASE ~ (x + 1 <= j - 1)
    <3>1. x + 1 = j /\ i \in 0 .. j - 1
      BY <1>9, <1>10, <2>4
    <3> QED BY <1>9, <2>2, <3>1
  <2> QED BY <2>3, <2>4
<1>13. G \in SUBSET nodes
  BY <1>8, <1>10
<1>14. G = nodes
  <2> HIDE DEF G
  <2> QED BY <1>6, <1>11, <1>12, <1>13
<1>15. {f[x] : x \in DOMAIN f} = nodes
  <2>1. \A x \in 0 .. j - 1 : x \in DOMAIN f
    BY <1>5, <1>10
  <2> QED BY <1>5, <1>8, <1>14, <2>1
<1> QED BY <1>4, <1>6, <1>15

-----------------------------------------------------------------------------
(* Calls and pointers: what holds in a race too.                           *)

Reading == {"found", "move"}
Writing == {"evict", "panicked"}

\* What a call is about, and the lock it holds.
Calls ==
    /\ \A p \in Proc : pc[p] \in InGet \cup Writing => arg[p] \in Key
    /\ \A p \in Proc : pc[p] \in {"clear", "count"} => arg[p] \in Shard
    /\ \A p \in Proc : pc[p] \in Reading => arg[p] \in cache
    /\ \A p \in Proc : \/ pc[p] = "move"
                       \/ turn[p] = 1
                       \/ pc[p] = "load" /\ turn[p] <= 3
    /\ \A p, q \in Proc :
          /\ pc[p] \in Writing
          /\ pc[q] \in Reading \cup Writing
          /\ ShardOf[arg[p]] = ShardOf[arg[q]]
          => p = q

\* The elements that have a value, and the roots.
Valued == {k \in Key : value[k] \in Value} \cup Shard

\* All pointers lead to D, or nowhere.
Within(l, D) ==
    \A x \in Node : l.next[x] \in D \cup {Nil} /\ l.prev[x] \in D \cup {Nil}

Pointers ==
    /\ IsFiniteSet(cache)
    /\ cache \subseteq Valued
    /\ Local(links)
    /\ Tied(links, cache \cup Shard)
    /\ Within(links, Valued)

Base == TypeOK /\ Calls /\ Pointers /\ IsFiniteSet(Open)

\* What a goroutine may do.
By(p) ==
    \/ \E k \in Key : GetStart(p, k)
    \/ \E k \in Key, v \in Value : AddUpdate(p, k, v) \/ AddInsert(p, k, v)
    \/ ClearStart(p) \/ LenStart(p) \/ StatsStart(p) \/ ResetGets(p)
    \/ Step(p)

Elsewhere(p) ==
    \A q \in Proc \ {p} : pc'[q] = pc[q] /\ arg'[q] = arg[q] /\ turn'[q] = turn[q]

LEMMA AssignWithin ==
    ASSUME NEW l \in Links, NEW i \in 1 .. 6, NEW e \in Node, NEW r \in Node,
           NEW D, Within(l, D), e \in D, r \in D
    PROVE  Assign(l, i, e, r) \in Links /\ Within(Assign(l, i, e, r), D)
<1> DEFINE m == Assign(l, i, e, r)
           b == l.prev[e]
           a == l.next[e]
           R == D \cup {Nil}
<1>0. i = 1 \/ i = 2 \/ i = 3 \/ i = 4 \/ i = 5 \/ i = 6
  OBVIOUS
<1>1. a \in R /\ b \in R /\ e \in R /\ r \in R /\ l.next[r] \in R
      /\ \A x \in Node : l.next[x] \in R /\ l.prev[x] \in R
  BY DEF Within
<1>2. m \in Links
  BY Assignments DEF Links
<1>3. CASE i \in {1, 4, 5}
  <2>1. m.prev = l.prev
    BY <1>3, Assignments
  <2>2. \A x \in Node : m.next[x] \in {l.next[x], a, e, l.next[r]}
    <3>1. CASE i = 1
      BY <3>1, Assignments
    <3>2. CASE i = 4
      BY <3>2, Assignments
    <3>3. CASE i = 5
      BY <3>3, Assignments
    <3> QED BY <1>3, <3>1, <3>2, <3>3
  <2> HIDE DEF m, a, b, R
  <2>3. \A x \in Node : m.next[x] \in R /\ m.prev[x] \in R
    BY <1>1, <2>1, <2>2
  <2> QED BY <1>2, <2>3 DEF Within, m, R
<1>4. CASE i \in {2, 3, 6}
  <2>1. m.next = l.next
    BY <1>4, Assignments
  <2>2. \A x \in Node : m.prev[x] \in {l.prev[x], b, e, r}
    <3>1. CASE i = 2
      BY <3>1, Assignments
    <3>2. CASE i = 3
      BY <3>2, Assignments
    <3>3. CASE i = 6
      BY <3>3, Assignments
    <3> QED BY <1>4, <3>1, <3>2, <3>3
  <2> HIDE DEF m, a, b, R
  <2>3. \A x \in Node : m.next[x] \in R /\ m.prev[x] \in R
    BY <1>1, <2>1, <2>2
  <2> QED BY <1>2, <2>3 DEF Within, m, R
<1> QED BY <1>0, <1>3, <1>4

LEMMA UnlinkWithin ==
    ASSUME NEW l \in Links, NEW e \in Node, NEW D, Within(l, D), e \in D
    PROVE  Unlink(l, e) \in Links /\ Within(Unlink(l, e), D)
<1> DEFINE l1 == Assign(l, 1, e, e)
<1>1. l1 \in Links /\ Within(l1, D)
  BY AssignWithin
<1> HIDE DEF l1
<1>2. Assign(l1, 2, e, e) \in Links /\ Within(Assign(l1, 2, e, e), D)
  BY <1>1, AssignWithin
<1> QED BY <1>2 DEF Unlink, l1

LEMMA PushWithin ==
    ASSUME NEW l \in Links, NEW e \in Node, NEW r \in Node, NEW D, Within(l, D),
           e \in D, r \in D
    PROVE  Within(PushFront(l, e, r), D)
<1> DEFINE l3 == Assign(l, 3, e, r)
           l4 == Assign(l3, 4, e, r)
           l5 == Assign(l4, 5, e, r)
           l6 == Assign(l5, 6, e, r)
<1>1. l3 \in Links /\ Within(l3, D)
  BY AssignWithin
<1> HIDE DEF l3
<1>2. l4 \in Links /\ Within(l4, D)
  BY <1>1, AssignWithin
<1> HIDE DEF l4
<1>3. l5 \in Links /\ Within(l5, D)
  BY <1>2, AssignWithin
<1> HIDE DEF l5
<1>4. Within(l6, D)
  BY <1>3, AssignWithin
<1>5. PushFront(l, e, r) = l6
  BY DEF PushFront, l3, l4, l5
<1> QED BY <1>4, <1>5

LEMMA FrontWithin ==
    ASSUME NEW l \in Links, NEW e \in Node, NEW r \in Node, NEW D, Within(l, D),
           e \in D, r \in D
    PROVE  Within(MoveToFront(l, e, r), D)
BY UnlinkWithin, PushWithin DEF MoveToFront

LEMMA CutWithin ==
    ASSUME NEW l \in Links, NEW e \in Node, NEW D, Within(l, D), e \in D
    PROVE  Within(Cut(l, e), D)
<1> DEFINE u == Unlink(l, e)
           m == [u EXCEPT !.next[e] = Nil, !.prev[e] = Nil]
<1>1. u \in Links /\ Within(u, D)
  BY UnlinkWithin
<1> HIDE DEF u
<1>2. \A x \in Node : m.next[x] \in {u.next[x], Nil} /\ m.prev[x] \in {u.prev[x], Nil}
  BY <1>1 DEF Links
<1>3. Within(m, D)
  BY <1>1, <1>2 DEF Within
<1> QED BY <1>3 DEF Cut, u

\* Calls, when only p goes on.
LEMMA CallsKept ==
    ASSUME TypeOK, Calls, NEW p \in Proc, Elsewhere(p),
           \A q \in Proc \ {p} : pc[q] \in Reading => arg[q] \in cache',
           pc'[p] \in InGet \cup Writing => arg'[p] \in Key,
           pc'[p] \in {"clear", "count"} => arg'[p] \in Shard,
           pc'[p] \in Reading => arg'[p] \in cache',
           \/ pc'[p] = "move"
           \/ turn'[p] = 1
           \/ pc'[p] = "load" /\ turn'[p] <= 3,
           pc'[p] \in Reading \cup Writing => \A q \in Proc \ {p} :
              /\ pc[q] \in Writing \/ (pc'[p] \in Writing /\ pc[q] \in Reading)
              => ShardOf[arg[q]] # ShardOf[arg'[p]]
    PROVE  Calls'
BY DEF Calls, Elsewhere

\* The Gets in progress stay finite in number.
LEMMA OpenFinite ==
    ASSUME IsFiniteSet(Open), NEW p \in Proc, Elsewhere(p)
    PROVE  IsFiniteSet(Open')
<1>1. Open' \subseteq Open \cup {p}
  BY DEF Open, Elsewhere
<1>2. IsFiniteSet(Open \cup {p})
  BY FS_AddElement
<1> QED BY <1>1, <1>2, FS_Subset

\* Pointers, when the lists stay as they are.
LEMMA PointersKept ==
    ASSUME Pointers, UNCHANGED <<cache, value, links>>
    PROVE  Pointers'
BY DEF Pointers, Valued

Places == {"idle", "evict", "panicked", "clear", "count", "load"} \cup InGet \cup InReset

LEMMA Goes ==
    ASSUME TypeOK, NEW p \in Proc, NEW step \in Places, Goto(p, step)
    PROVE  /\ pc' \in [Proc -> Places] /\ arg' \in [Proc -> Node \cup {Nil}]
           /\ pc'[p] = step
           /\ arg'[p] = IF step = "idle" THEN Nil ELSE arg[p]
           /\ \A q \in Proc \ {p} : pc'[q] = pc[q] /\ arg'[q] = arg[q]
BY DEF TypeOK, Goto, Places

LEMMA Begins ==
    ASSUME TypeOK, NEW p \in Proc, NEW step \in Places, NEW x \in Node \cup {Nil},
           Begin(p, step, x)
    PROVE  /\ pc' \in [Proc -> Places] /\ arg' \in [Proc -> Node \cup {Nil}]
           /\ pc'[p] = step /\ arg'[p] = x
           /\ \A q \in Proc \ {p} : pc'[q] = pc[q] /\ arg'[q] = arg[q]
BY DEF TypeOK, Begin, Places

\* A step to the next shard, or back to the caller.
LEMMA NextShards ==
    ASSUME TypeOK, NEW p \in Proc, arg[p] \in Shard, NextShard(p)
    PROVE  /\ pc' \in [Proc -> Places] /\ arg' \in [Proc -> Node \cup {Nil}]
           /\ \/ pc'[p] = pc[p] /\ arg'[p] \in Shard
              \/ pc'[p] = "idle"
           /\ \A q \in Proc \ {p} : pc'[q] = pc[q] /\ arg'[q] = arg[q]
<1>1. "idle" \in Places
  BY DEF Places
<1>2. CASE arg[p] + 1 \in Shard
  <2>1. arg' = [arg EXCEPT ![p] = arg[p] + 1] /\ UNCHANGED pc
    BY <1>2 DEF NextShard
  <2>2. arg[p] + 1 \in Node /\ arg \in [Proc -> Node \cup {Nil}]
        /\ pc \in [Proc -> Places]
    BY <1>2, Nodes DEF TypeOK, Places
  <2> DEFINE x == arg[p] + 1
  <2> HIDE DEF x
  <2>3. arg' = [arg EXCEPT ![p] = x] /\ x \in Node /\ x \in Shard
    BY <1>2, <2>1, <2>2 DEF x
  <2> QED BY <2>1, <2>2, <2>3
<1>3. CASE ~ (arg[p] + 1 \in Shard)
  <2>1. Goto(p, "idle")
    BY <1>3 DEF NextShard
  <2> QED BY <1>1, <2>1, Goes
<1> QED BY <1>2, <1>3

\* The locks.
LEMMA Locks ==
    ASSUME Calls, NEW s \in Shard
    PROVE  /\ Writers(s) = {} =>
                \A q \in Proc : pc[q] \in Writing => ShardOf[arg[q]] # s
           /\ Readers(s) = {} =>
                \A q \in Proc : pc[q] \in Reading => ShardOf[arg[q]] # s
<1>1. \A q \in Proc : pc[q] \in Reading \cup Writing => arg[q] \in Key
  BY DEF Calls, InGet, Reading, Writing
<1> QED BY <1>1 DEF Writers, Readers, In, Reading, Writing

LEMMA CountUp ==
    ASSUME NEW m \in Nat, NEW n \in 0 .. m, n < m
    PROVE  n + 1 \in 0 .. m
OBVIOUS

LEMMA QuietBase ==
    ASSUME Base, NEW p \in Proc,
           \/ \E k \in Key : GetStart(p, k)
           \/ Lookup(p) \/ CheckFront(p) \/ CountHit(p) \/ CountMiss(p)
           \/ AddReturn(p) \/ ClearStart(p) \/ LenStart(p) \/ CountShard(p)
           \/ StatsStart(p) \/ Load(p)
           \/ ResetGets(p) \/ ResetHits(p) \/ ResetMisses(p)
    PROVE  Base' /\ UNCHANGED <<limit, cache, value, links, nBytes>> /\ Elsewhere(p)
<1> USE DEF counters, lists
<1>0. TypeOK /\ Calls /\ Pointers /\ IsFiniteSet(Open)
  BY DEF Base
<1>1. ASSUME UNCHANGED <<limit, cache, value, links, nBytes>>, Elsewhere(p), TypeOK',
             pc'[p] \in InGet \cup Writing => arg'[p] \in Key,
             pc'[p] \in {"clear", "count"} => arg'[p] \in Shard,
             pc'[p] \in Reading => arg'[p] \in cache,
             \/ pc'[p] = "move"
             \/ turn'[p] = 1
             \/ pc'[p] = "load" /\ turn'[p] <= 3,
             pc'[p] \in Reading \cup Writing => \A q \in Proc \ {p} :
                /\ pc[q] \in Writing \/ (pc'[p] \in Writing /\ pc[q] \in Reading)
                => ShardOf[arg[q]] # ShardOf[arg'[p]]
      PROVE  Base' /\ UNCHANGED <<limit, cache, value, links, nBytes>> /\ Elsewhere(p)
  <2>1. \A q \in Proc \ {p} : pc[q] \in Reading => arg[q] \in cache'
    BY <1>0, <1>1 DEF Calls
  <2>2. Calls'
    <3>1. pc'[p] \in Reading => arg'[p] \in cache'
      BY <1>1
    <3> QED BY <1>0, <1>1, <2>1, <3>1, CallsKept
  <2>3. IsFiniteSet(Open')
    BY <1>0, <1>1, OpenFinite
  <2> QED BY <1>0, <1>1, <2>2, <2>3, PointersKept DEF Base
<1>2. {"idle", "rlock", "found", "move", "hit", "miss", "clear", "count", "load",
       "reset hits", "reset misses"} \subseteq Places
  BY DEF Places, InGet, InReset
<1>3. ASSUME NEW k \in Key, GetStart(p, k)
      PROVE  Base' /\ UNCHANGED <<limit, cache, value, links, nBytes>> /\ Elsewhere(p)
  <2>1. Begin(p, "rlock", k) /\ UNCHANGED <<limit, cache, value, links, nBytes, turn>>
    BY <1>3 DEF GetStart
  <2>2. /\ pc' \in [Proc -> Places] /\ arg' \in [Proc -> Node \cup {Nil}]
        /\ pc'[p] = "rlock" /\ arg'[p] = k
        /\ \A q \in Proc \ {p} : pc'[q] = pc[q] /\ arg'[q] = arg[q]
    BY <1>0, <1>2, <2>1, Begins, Nodes
  <2>3. TypeOK'
    BY <1>0, <1>3, <2>2 DEF TypeOK, GetStart, Places
  <2>4. turn'[p] = 1
    BY <1>0, <1>3 DEF GetStart, Calls
  <2> QED BY <1>1, <2>1, <2>2, <2>3, <2>4 DEF Elsewhere, Reading, Writing
<1>4. CASE Lookup(p)
  <2> DEFINE step == IF arg[p] \in cache THEN "found" ELSE "miss"
  <2>1. Goto(p, step) /\ UNCHANGED <<limit, cache, value, links, nBytes, turn>>
    BY <1>4 DEF Lookup
  <2>2. step \in Places
    BY <1>2
  <2>3. arg[p] \in Key /\ ShardOf[arg[p]] \in Shard
    BY <1>0, <1>4, FastLRUAssumption DEF Lookup, Calls, InGet
  <2>4. /\ pc' \in [Proc -> Places] /\ arg' \in [Proc -> Node \cup {Nil}]
        /\ pc'[p] = step /\ arg'[p] = arg[p]
        /\ \A q \in Proc \ {p} : pc'[q] = pc[q] /\ arg'[q] = arg[q]
    BY <1>0, <2>1, <2>2, Goes
  <2>5. TypeOK'
    BY <1>0, <1>4, <2>4 DEF TypeOK, Lookup, Places
  <2>6. turn'[p] = 1
    BY <1>0, <1>4 DEF Lookup, Calls
  <2>7. \A q \in Proc : pc[q] \in Writing => ShardOf[arg[q]] # ShardOf[arg'[p]]
    BY <1>0, <1>4, <2>3, <2>4, Locks DEF Lookup
  <2>8. pc'[p] \in {"found", "miss"} /\ (pc'[p] = "found" => arg[p] \in cache)
    BY <2>4
  <2> QED BY <1>1, <2>1, <2>3, <2>4, <2>5, <2>6, <2>7, <2>8
          DEF Elsewhere, Reading, Writing
<1>5. CASE CheckFront(p)
  <2>1. PICK step \in {"hit", "move"} : Goto(p, step)
    BY <1>5 DEF CheckFront
  <2>2. UNCHANGED <<limit, cache, value, links, nBytes, turn>> /\ pc[p] = "found"
    BY <1>5 DEF CheckFront
  <2>3. arg[p] \in cache /\ arg[p] \in Key
    BY <1>0, <2>2 DEF Calls, Reading, InGet
  <2>4. /\ pc' \in [Proc -> Places] /\ arg' \in [Proc -> Node \cup {Nil}]
        /\ pc'[p] = step /\ arg'[p] = arg[p]
        /\ \A q \in Proc \ {p} : pc'[q] = pc[q] /\ arg'[q] = arg[q]
    BY <1>0, <1>2, <2>1, Goes
  <2>5. raced' \subseteq Shard
    BY <1>0, <1>5, <2>3, FastLRUAssumption DEF CheckFront, TypeOK
  <2>6. TypeOK'
    BY <1>0, <1>5, <2>4, <2>5 DEF TypeOK, CheckFront, Places
  <2>7. turn'[p] = 1
    BY <1>0, <2>2 DEF Calls
  <2>8. \A q \in Proc \ {p} : pc[q] \in Writing => ShardOf[arg[q]] # ShardOf[arg'[p]]
    BY <1>0, <2>2, <2>4 DEF Calls, Reading
  <2> QED BY <1>1, <2>2, <2>3, <2>4, <2>6, <2>7, <2>8 DEF Elsewhere, Reading, Writing
<1>6. CASE CountHit(p) \/ CountMiss(p) \/ AddReturn(p) \/ ResetMisses(p)
  <2>1. Goto(p, "idle") /\ UNCHANGED <<limit, cache, value, links, nBytes, turn>>
        /\ pc[p] \notin {"move", "load"}
    BY <1>6 DEF CountHit, CountMiss, AddReturn, ResetMisses
  <2>2. /\ pc' \in [Proc -> Places] /\ arg' \in [Proc -> Node \cup {Nil}]
        /\ pc'[p] = "idle"
        /\ \A q \in Proc \ {p} : pc'[q] = pc[q] /\ arg'[q] = arg[q]
    BY <1>0, <1>2, <2>1, Goes
  <2>3. TypeOK'
    <3>0. gets \in Nat /\ hits \in Nat /\ misses \in Nat
      BY <1>0 DEF TypeOK
    <3>1. gets' \in Nat /\ hits' \in Nat /\ misses' \in Nat
          /\ UNCHANGED <<seen, skewed, resets, raced>>
      <4>1. CASE CountHit(p)
        BY <3>0, <4>1 DEF CountHit
      <4>2. CASE CountMiss(p)
        BY <3>0, <4>2 DEF CountMiss
      <4>3. CASE AddReturn(p)
        BY <3>0, <4>3 DEF AddReturn
      <4>4. CASE ResetMisses(p)
        BY <3>0, <4>4 DEF ResetMisses
      <4> QED BY <1>6, <4>1, <4>2, <4>3, <4>4
    <3> QED BY <1>0, <2>1, <2>2, <3>1 DEF TypeOK, Places
  <2>4. turn'[p] = 1
    BY <1>0, <2>1 DEF Calls
  <2> QED BY <1>1, <2>1, <2>2, <2>3, <2>4
          DEF Elsewhere, Reading, Writing, InGet
<1>7. CASE ClearStart(p) \/ LenStart(p)
  <2>1. PICK step \in {"clear", "count"} : Begin(p, step, 0)
    BY <1>7 DEF ClearStart, LenStart
  <2>2. UNCHANGED <<limit, cache, value, links, nBytes, turn>> /\ pc[p] = "idle"
    BY <1>7 DEF ClearStart, LenStart
  <2>3. 0 \in Shard /\ 0 \in Node
    BY Nodes, FastLRUAssumption DEF Shard
  <2>4. /\ pc' \in [Proc -> Places] /\ arg' \in [Proc -> Node \cup {Nil}]
        /\ pc'[p] = step /\ arg'[p] = 0
        /\ \A q \in Proc \ {p} : pc'[q] = pc[q] /\ arg'[q] = arg[q]
    BY <1>0, <1>2, <2>1, <2>3, Begins
  <2>5. TypeOK'
    BY <1>0, <1>7, <2>4 DEF TypeOK, ClearStart, LenStart, Places
  <2>6. turn'[p] = 1
    BY <1>0, <2>2 DEF Calls
  <2> QED BY <1>1, <2>2, <2>3, <2>4, <2>5, <2>6 DEF Elsewhere, Reading, Writing, InGet
<1>8. CASE CountShard(p)
  <2>1. NextShard(p) /\ UNCHANGED <<limit, cache, value, links, nBytes, turn>>
        /\ pc[p] = "count" /\ arg[p] \in Shard
    BY <1>0, <1>8 DEF CountShard, Calls
  <2>2. /\ pc' \in [Proc -> Places] /\ arg' \in [Proc -> Node \cup {Nil}]
        /\ (pc'[p] = "count" /\ arg'[p] \in Shard) \/ pc'[p] = "idle"
        /\ \A q \in Proc \ {p} : pc'[q] = pc[q] /\ arg'[q] = arg[q]
    BY <1>0, <2>1, NextShards
  <2>3. TypeOK'
    BY <1>0, <1>8, <2>2 DEF TypeOK, CountShard, Places
  <2>4. turn'[p] = 1
    BY <1>0, <2>1 DEF Calls
  <2> QED BY <1>1, <2>1, <2>2, <2>3, <2>4 DEF Elsewhere, Reading, Writing, InGet
<1>9. CASE StatsStart(p)
  <2>1. Begin(p, "load", Nil) /\ UNCHANGED <<limit, cache, value, links, nBytes, turn>>
        /\ pc[p] = "idle"
    BY <1>9 DEF StatsStart
  <2>2. /\ pc' \in [Proc -> Places] /\ arg' \in [Proc -> Node \cup {Nil}]
        /\ pc'[p] = "load" /\ arg'[p] = Nil
        /\ \A q \in Proc \ {p} : pc'[q] = pc[q] /\ arg'[q] = arg[q]
    BY <1>0, <1>2, <2>1, Begins
  <2>3. TypeOK'
    BY <1>0, <1>9, <2>2 DEF TypeOK, StatsStart, Places
  <2>4. turn'[p] = 1
    BY <1>0, <2>1 DEF Calls
  <2> QED BY <1>1, <2>1, <2>2, <2>3, <2>4 DEF Elsewhere, Reading, Writing, InGet
<1>10. CASE ResetGets(p) \/ ResetHits(p)
  <2>1. PICK step \in {"reset hits", "reset misses"} : Goto(p, step)
    BY <1>10 DEF ResetGets, ResetHits
  <2>2. UNCHANGED <<limit, cache, value, links, nBytes, turn>>
        /\ pc[p] \in {"idle", "reset hits"}
    BY <1>10 DEF ResetGets, ResetHits
  <2>3. /\ pc' \in [Proc -> Places] /\ arg' \in [Proc -> Node \cup {Nil}]
        /\ pc'[p] = step
        /\ \A q \in Proc \ {p} : pc'[q] = pc[q] /\ arg'[q] = arg[q]
    BY <1>0, <1>2, <2>1, Goes
  <2>4. TypeOK'
    <3>0. gets \in Nat /\ hits \in Nat /\ misses \in Nat /\ skewed \in BOOLEAN
          /\ resets \in 0 .. MaxResets /\ MaxResets \in Nat
      BY <1>0, FastLRUAssumption DEF TypeOK
    <3>1. gets' \in Nat /\ hits' \in Nat /\ misses' \in Nat /\ skewed' \in BOOLEAN
          /\ resets' \in 0 .. MaxResets /\ UNCHANGED <<seen, raced>>
      <4>1. CASE ResetGets(p)
        <5>1. gets' = 0 /\ UNCHANGED <<hits, misses, seen, raced>>
              /\ resets < MaxResets /\ resets' = resets + 1
          BY <4>1 DEF ResetGets
        <5>2. skewed' \in BOOLEAN
          BY <4>1 DEF ResetGets
        <5>3. resets' \in 0 .. MaxResets /\ gets' \in Nat
          <6>1. resets \in 0 .. MaxResets /\ MaxResets \in Nat
            BY <3>0
          <6>2. resets < MaxResets /\ resets' = resets + 1 /\ gets' = 0
            BY <5>1
          <6> QED BY <6>1, <6>2, CountUp
        <5> QED BY <3>0, <5>1, <5>2, <5>3
      <4>2. CASE ResetHits(p)
        BY <3>0, <4>2 DEF ResetHits
      <4> QED BY <1>10, <4>1, <4>2
    <3> QED BY <1>0, <2>2, <2>3, <3>1 DEF TypeOK, Places
  <2>5. turn'[p] = 1
    BY <1>0, <2>2 DEF Calls
  <2>6. pc'[p] \notin InGet \cup Writing /\ pc'[p] \notin {"clear", "count"}
        /\ pc'[p] \notin Reading /\ pc'[p] \notin Reading \cup Writing
    <3>1. pc'[p] = "reset hits" \/ pc'[p] = "reset misses"
      BY <2>3
    <3> QED BY <3>1 DEF InGet, Reading, Writing
  <2>7. Elsewhere(p) /\ UNCHANGED <<limit, cache, value, links, nBytes>>
    BY <2>2, <2>3 DEF Elsewhere
  <2> HIDE DEF counters, lists
  <2> QED BY <1>1, <2>4, <2>5, <2>6, <2>7
<1>11. CASE Load(p)
  <2>1. UNCHANGED <<limit, cache, value, links, nBytes>> /\ pc[p] = "load"
        /\ turn[p] \in 1 .. 3
    BY <1>0, <1>11 DEF Load, Calls, TypeOK
  <2>2. CASE turn[p] < 3
    <3>1. /\ UNCHANGED <<pc, arg, limit, gets, hits, misses, skewed, resets, raced>>
          /\ turn' = [turn EXCEPT ![p] = @ + 1]
          /\ seen' = [seen EXCEPT ![p][LoadOrder[turn[p]]] = Now[LoadOrder[turn[p]]]]
      BY <1>11, <2>2 DEF Load
    <3>2. turn' \in [Proc -> 1 .. 6] /\ turn'[p] <= 3
          /\ \A q \in Proc \ {p} : turn'[q] = turn[q]
      BY <1>0, <2>1, <2>2, <3>1 DEF TypeOK
    <3>3. seen' \in [Proc -> [gets : Int, hits : Int]]
      <4>1. Cardinality(Open) \in Int
        BY <1>0, FS_CardinalityType
      <4>2. /\ gets - Cardinality(Open) \in Int /\ hits \in Int
            /\ seen \in [Proc -> [gets : Int, hits : Int]]
        BY <1>0, <4>1 DEF TypeOK
      <4>3. CASE turn[p] = 1
        <5> DEFINE d == LoadOrder[turn[p]]
        <5>1. d = "gets" /\ Now["gets"] = gets - Cardinality(Open)
          BY <4>3 DEF LoadOrder, Now
        <5>2. seen' = [seen EXCEPT ![p][d] = Now[d]]
          BY <3>1
        <5> HIDE DEF d
        <5>3. seen' = [seen EXCEPT ![p]["gets"] = gets - Cardinality(Open)]
          BY <5>1, <5>2
        <5> QED BY <4>2, <5>3
      <4>4. CASE turn[p] = 2
        <5> DEFINE d == LoadOrder[turn[p]]
        <5>1. d = "hits" /\ Now["hits"] = hits
          BY <4>4 DEF LoadOrder, Now
        <5>2. seen' = [seen EXCEPT ![p][d] = Now[d]]
          BY <3>1
        <5> HIDE DEF d
        <5>3. seen' = [seen EXCEPT ![p]["hits"] = hits]
          BY <5>1, <5>2
        <5> QED BY <4>2, <5>3
      <4> QED BY <2>1, <2>2, <4>3, <4>4
    <3>4. TypeOK'
      BY <1>0, <2>1, <3>1, <3>2, <3>3 DEF TypeOK
    <3> QED BY <1>1, <2>1, <3>1, <3>2, <3>4 DEF Elsewhere, Reading, Writing, InGet
  <2>3. CASE ~ (turn[p] < 3)
    <3>1. /\ UNCHANGED <<limit, gets, hits, misses, skewed, resets, raced>>
          /\ turn' = [turn EXCEPT ![p] = 1] /\ seen' = [seen EXCEPT ![p] = Unseen]
          /\ Begin(p, "count", 0)
      BY <1>11, <2>3 DEF Load
    <3>2. 0 \in Shard /\ 0 \in Node
      BY Nodes, FastLRUAssumption DEF Shard
    <3>3. /\ pc' \in [Proc -> Places] /\ arg' \in [Proc -> Node \cup {Nil}]
          /\ pc'[p] = "count" /\ arg'[p] = 0
          /\ \A q \in Proc \ {p} : pc'[q] = pc[q] /\ arg'[q] = arg[q]
      BY <1>0, <1>2, <3>1, <3>2, Begins
    <3>4. turn' \in [Proc -> 1 .. 6] /\ turn'[p] = 1
          /\ \A q \in Proc \ {p} : turn'[q] = turn[q]
      BY <1>0, <3>1 DEF TypeOK
    <3>5. seen' \in [Proc -> [gets : Int, hits : Int]]
      BY <1>0, <3>1 DEF TypeOK, Unseen
    <3>6. TypeOK'
      BY <1>0, <2>1, <3>1, <3>3, <3>4, <3>5 DEF TypeOK, Places
    <3> QED BY <1>1, <2>1, <3>2, <3>3, <3>4, <3>6 DEF Elsewhere, Reading, Writing, InGet
  <2> QED BY <2>2, <2>3
<1> HIDE DEF counters, lists
<1> DEFINE Goal == Base' /\ UNCHANGED <<limit, cache, value, links, nBytes>> /\ Elsewhere(p)
<1>18. (\E k \in Key : GetStart(p, k)) => Goal
  BY <1>3
<1>12. (Lookup(p) => Goal) /\ (CheckFront(p) => Goal) /\ (CountShard(p) => Goal)
  BY <1>4, <1>5, <1>8
<1>13. (CountHit(p) \/ CountMiss(p) \/ AddReturn(p) \/ ResetMisses(p)) => Goal
  BY <1>6
<1>14. (ClearStart(p) \/ LenStart(p)) => Goal
  BY <1>7
<1>15. (StatsStart(p) => Goal) /\ (Load(p) => Goal)
  BY <1>9, <1>11
<1>16. (ResetGets(p) \/ ResetHits(p)) => Goal
  BY <1>10
<1> HIDE DEF Goal
<1>17. Goal
  BY <1>12, <1>13, <1>14, <1>15, <1>16, <1>18
<1> QED BY <1>17 DEF Goal

\* The same for a step that writes a shard.
LEMMA WriteBase ==
    ASSUME Base, NEW p \in Proc, Elsewhere(p), TypeOK', Pointers',
           \A q \in Proc \ {p} : pc[q] \in Reading => arg[q] \in cache',
           pc'[p] \in InGet \cup Writing => arg'[p] \in Key,
           pc'[p] \in {"clear", "count"} => arg'[p] \in Shard,
           pc'[p] \in Reading => arg'[p] \in cache',
           pc'[p] = "move" \/ turn'[p] = 1,
           pc'[p] \in Reading \cup Writing => \A q \in Proc \ {p} :
              /\ pc[q] \in Writing \/ (pc'[p] \in Writing /\ pc[q] \in Reading)
              => ShardOf[arg[q]] # ShardOf[arg'[p]]
    PROVE  Base'
<1>1. TypeOK /\ Calls /\ IsFiniteSet(Open)
  BY DEF Base
<1>2. Calls'
  BY <1>1, CallsKept
<1>3. IsFiniteSet(Open')
  BY <1>1, OpenFinite
<1> QED BY <1>2, <1>3 DEF Base

LEMMA MoveBase ==
    ASSUME Base, NEW p \in Proc, Move(p)
    PROVE  Base' /\ Elsewhere(p)
<1> DEFINE e == arg[p]
           s == ShardOf[e]
<1>0. TypeOK /\ Calls /\ Pointers
  BY DEF Base
<1>1. /\ pc[p] = "move" /\ links' = Assign(links, turn[p], e, s)
      /\ UNCHANGED <<limit, cache, value, nBytes, raced>>
      /\ UNCHANGED <<gets, hits, misses, seen, skewed, resets>>
      /\ IF turn[p] < 6
         THEN turn' = [turn EXCEPT ![p] = @ + 1] /\ UNCHANGED <<pc, arg>>
         ELSE turn' = [turn EXCEPT ![p] = 1] /\ Goto(p, "hit")
  BY DEF Move, counters
<1>2. e \in Key /\ e \in cache /\ turn[p] \in 1 .. 6
  BY <1>0, <1>1 DEF Calls, TypeOK, InGet, Reading
<1>3. s \in Shard /\ s \in Node /\ e \in Node /\ Home(s) = s /\ Home(e) = s
  BY <1>2, Nodes, FastLRUAssumption
<1>4. Links = [{"next", "prev"} -> [Node -> Node \cup {Nil}]] /\ links \in Links
  BY <1>0 DEF TypeOK, Links
<1>5. /\ turn' \in [Proc -> 1 .. 6]
      /\ pc' \in [Proc -> Places] /\ arg' \in [Proc -> Node \cup {Nil}]
      /\ pc'[p] = "move" \/ (pc'[p] = "hit" /\ turn'[p] = 1)
      /\ arg'[p] = arg[p]
      /\ Elsewhere(p)
  <2>1. turn \in [Proc -> 1 .. 6] /\ pc \in [Proc -> Places]
        /\ arg \in [Proc -> Node \cup {Nil}]
    BY <1>0 DEF TypeOK, Places
  <2>2. CASE turn[p] < 6
    <3>1. turn[p] + 1 \in 1 .. 6 /\ turn' = [turn EXCEPT ![p] = turn[p] + 1]
          /\ pc' = pc /\ arg' = arg
      BY <1>1, <1>2, <2>2
    <3> DEFINE t == turn[p] + 1
    <3> HIDE DEF t
    <3>2. turn' = [turn EXCEPT ![p] = t] /\ t \in 1 .. 6
      BY <3>1 DEF t
    <3>3. turn' \in [Proc -> 1 .. 6] /\ \A q \in Proc \ {p} : turn'[q] = turn[q]
      BY <2>1, <3>2
    <3> QED BY <1>1, <2>1, <3>1, <3>3 DEF Elsewhere
  <2>3. CASE ~ (turn[p] < 6)
    <3>1. turn' = [turn EXCEPT ![p] = 1] /\ Goto(p, "hit") /\ "hit" \in Places
      BY <1>1, <2>3 DEF Places, InGet
    <3>2. /\ pc' \in [Proc -> Places] /\ arg' \in [Proc -> Node \cup {Nil}]
          /\ pc'[p] = "hit" /\ arg'[p] = arg[p]
          /\ \A q \in Proc \ {p} : pc'[q] = pc[q] /\ arg'[q] = arg[q]
      BY <1>0, <3>1, Goes
    <3>3. turn' \in [Proc -> 1 .. 6] /\ turn'[p] = 1
          /\ \A q \in Proc \ {p} : turn'[q] = turn[q]
      BY <2>1, <3>1
    <3> QED BY <3>2, <3>3 DEF Elsewhere
  <2> QED BY <2>2, <2>3
<1>6. links' \in Links /\ Local(links')
  BY <1>0, <1>1, <1>2, <1>3, <1>4, AssignLocal DEF Pointers
<1>7. Tied(links', cache \cup Shard)
  <2>1. Tied(links, cache \cup Shard) /\ cache \cup Shard \in SUBSET Node
    BY <1>0 DEF Pointers, TypeOK, Node
  <2>2. s \in cache \cup Shard /\ e \in cache \cup Shard
    BY <1>2, <1>3
  <2> QED BY <1>1, <1>2, <1>3, <1>4, <2>1, <2>2, AssignTied
<1>8. Within(links', Valued)
  <2>1. Within(links, Valued) /\ e \in Valued /\ s \in Valued
    BY <1>0, <1>2, <1>3 DEF Pointers, Valued
  <2> QED BY <1>1, <1>2, <1>3, <1>4, <2>1, AssignWithin
<1>9. Pointers'
  BY <1>0, <1>1, <1>6, <1>7, <1>8 DEF Pointers, Valued
<1>10. TypeOK'
  BY <1>0, <1>1, <1>4, <1>5, <1>6 DEF TypeOK, Places
<1>11. \A q \in Proc \ {p} : pc[q] \in Writing => ShardOf[arg[q]] # s
  BY <1>0, <1>1 DEF Calls, Reading
<1>12. \A q \in Proc \ {p} : pc[q] \in Reading => arg[q] \in cache'
  BY <1>0, <1>1 DEF Calls
<1>13. pc'[p] \notin Writing /\ pc'[p] \notin {"clear", "count"}
  BY <1>5 DEF Writing
<1>14. Base'
  BY <1>1, <1>2, <1>5, <1>9, <1>10, <1>11, <1>12, <1>13, WriteBase
<1> QED BY <1>5, <1>14

\* Taking the lock of a shard that is free, to add to it.
LEMMA AddBegins ==
    ASSUME Base, NEW p \in Proc, NEW k \in Key, Free(ShardOf[k]), pc[p] = "idle",
           Begin(p, "evict", k), UNCHANGED turn
    PROVE  /\ pc' \in [Proc -> Places] /\ arg' \in [Proc -> Node \cup {Nil}]
           /\ pc'[p] = "evict" /\ arg'[p] = k /\ turn'[p] = 1
           /\ Elsewhere(p)
           /\ \A q \in Proc \ {p} :
                pc[q] \in Reading \cup Writing => ShardOf[arg[q]] # ShardOf[k]
<1>0. TypeOK /\ Calls /\ "evict" \in Places /\ k \in Node
  BY Nodes DEF Base, Places
<1>1. /\ pc' \in [Proc -> Places] /\ arg' \in [Proc -> Node \cup {Nil}]
      /\ pc'[p] = "evict" /\ arg'[p] = k
      /\ \A q \in Proc \ {p} : pc'[q] = pc[q] /\ arg'[q] = arg[q]
  BY <1>0, Begins
<1>2. turn'[p] = 1
  BY <1>0 DEF Calls
<1>3. \A q \in Proc : pc[q] \in Reading \cup Writing => ShardOf[arg[q]] # ShardOf[k]
  BY <1>0, Locks, FastLRUAssumption DEF Free
<1> QED BY <1>1, <1>2, <1>3 DEF Elsewhere

LEMMA UpdateBase ==
    ASSUME Base, NEW p \in Proc, NEW k \in Key, NEW v \in Value, AddUpdate(p, k, v)
    PROVE  Base' /\ Elsewhere(p)
<1> DEFINE s == ShardOf[k]
<1>0. TypeOK /\ Calls /\ Pointers
  BY DEF Base
<1>1. /\ pc[p] = "idle" /\ Free(s) /\ k \in cache
      /\ links' = MoveToFront(links, k, s)
      /\ nBytes' = [nBytes EXCEPT ![s] = nBytes[s] + ValLen[v] - ValLen[value[k]]]
      /\ value' = [value EXCEPT ![k] = v]
      /\ Begin(p, "evict", k)
      /\ UNCHANGED <<limit, cache, turn, raced>>
      /\ UNCHANGED <<gets, hits, misses, seen, skewed, resets>>
  BY DEF AddUpdate, counters
<1>2. s \in Shard /\ s \in Node /\ k \in Node /\ Home(s) = s /\ Home(k) = s
  BY Nodes, FastLRUAssumption
<1>3. /\ pc' \in [Proc -> Places] /\ arg' \in [Proc -> Node \cup {Nil}]
      /\ pc'[p] = "evict" /\ arg'[p] = k /\ turn'[p] = 1
      /\ Elsewhere(p)
      /\ \A q \in Proc \ {p} : pc[q] \in Reading \cup Writing => ShardOf[arg[q]] # s
  BY <1>1, AddBegins
<1>4. links \in Links
  BY <1>0 DEF TypeOK, Links
<1>5. links' \in Links /\ Local(links') /\ Tied(links', cache \cup Shard)
  <2>1. Tied(links, cache \cup Shard) /\ cache \cup Shard \in SUBSET Node /\ Local(links)
    BY <1>0 DEF Pointers, TypeOK, Node
  <2>2. s \in cache \cup Shard /\ k \in cache \cup Shard
    BY <1>1, <1>2
  <2> QED BY <1>1, <1>2, <1>4, <2>1, <2>2, FrontLocal
<1>6. Within(links', Valued)
  <2>1. Within(links, Valued) /\ k \in Valued /\ s \in Valued
    BY <1>0, <1>1, <1>2 DEF Pointers, Valued
  <2> QED BY <1>1, <1>2, <1>4, <2>1, FrontWithin
<1>7. value' \in [Key -> Value \cup {Missing}] /\ Valued \subseteq Valued'
  BY <1>0, <1>1 DEF TypeOK, Valued
<1>8. nBytes' \in [Shard -> Int]
  <2>1. value[k] \in Value
    BY <1>0, <1>1, Nodes DEF Pointers, Valued
  <2>2. ValLen[v] \in Int /\ ValLen[value[k]] \in Int /\ nBytes[s] \in Int
    BY <1>0, <1>2, <2>1, FastLRUAssumption DEF TypeOK
  <2>3. nBytes[s] + ValLen[v] - ValLen[value[k]] \in Int
    BY <2>2
  <2> QED BY <1>0, <1>1, <2>3 DEF TypeOK
<1>9. Pointers'
  <2>1. IsFiniteSet(cache') /\ cache' \subseteq Valued'
    BY <1>0, <1>1, <1>7 DEF Pointers
  <2>2. Within(links', Valued')
    BY <1>6, <1>7 DEF Within
  <2> QED BY <1>1, <1>5, <2>1, <2>2 DEF Pointers
<1>10. TypeOK'
  BY <1>0, <1>1, <1>3, <1>5, <1>7, <1>8 DEF TypeOK, Places, Links
<1>11. \A q \in Proc \ {p} : pc[q] \in Reading => arg[q] \in cache'
  BY <1>0, <1>1 DEF Calls
<1>12. pc'[p] \notin Reading /\ pc'[p] \notin {"clear", "count"}
  BY <1>3 DEF Reading
<1>13. Base'
  BY <1>3, <1>9, <1>10, <1>11, <1>12, WriteBase
<1> QED BY <1>3, <1>13

LEMMA InsertBase ==
    ASSUME Base, NEW p \in Proc, NEW k \in Key, NEW v \in Value, AddInsert(p, k, v)
    PROVE  Base' /\ Elsewhere(p)
<1> DEFINE s == ShardOf[k]
<1>0. TypeOK /\ Calls /\ Pointers
  BY DEF Base
<1>1. /\ pc[p] = "idle" /\ Free(s) /\ k \notin cache
      /\ links' = PushFront(links, k, s)
      /\ cache' = cache \cup {k}
      /\ nBytes' = [nBytes EXCEPT ![s] = nBytes[s] + Size(k, v)]
      /\ value' = [value EXCEPT ![k] = v]
      /\ Begin(p, "evict", k)
      /\ UNCHANGED <<limit, turn, raced>>
      /\ UNCHANGED <<gets, hits, misses, seen, skewed, resets>>
  BY DEF AddInsert, counters
<1>2. s \in Shard /\ s \in Node /\ k \in Node /\ Home(s) = s /\ Home(k) = s
  BY Nodes, FastLRUAssumption
<1>3. /\ pc' \in [Proc -> Places] /\ arg' \in [Proc -> Node \cup {Nil}]
      /\ pc'[p] = "evict" /\ arg'[p] = k /\ turn'[p] = 1
      /\ Elsewhere(p)
      /\ \A q \in Proc \ {p} : pc[q] \in Reading \cup Writing => ShardOf[arg[q]] # s
  BY <1>1, AddBegins
<1>4. links \in Links
  BY <1>0 DEF TypeOK, Links
<1>5. links' \in Links /\ Local(links') /\ Tied(links', cache' \cup Shard)
  <2>1. Tied(links, cache \cup Shard) /\ cache \cup Shard \in SUBSET Node /\ Local(links)
    BY <1>0 DEF Pointers, TypeOK, Node
  <2>2. s \in cache \cup Shard
    BY <1>2
  <2>3. /\ links' \in Links /\ Local(links')
        /\ Tied(links', (cache \cup Shard) \cup {k})
    BY <1>1, <1>2, <1>4, <2>1, <2>2, PushLocal
  <2>4. (cache \cup Shard) \cup {k} = cache' \cup Shard
    BY <1>1
  <2> QED BY <2>3, <2>4
<1>7. value' \in [Key -> Value \cup {Missing}] /\ Valued' = Valued \cup {k}
  BY <1>0, <1>1 DEF TypeOK, Valued
<1>6. Within(links', Valued')
  <2>1. Within(links, Valued')
    BY <1>0, <1>7 DEF Pointers, Within
  <2>2. k \in Valued' /\ s \in Valued'
    BY <1>2, <1>7 DEF Valued
  <2> QED BY <1>1, <1>2, <1>4, <2>1, <2>2, PushWithin
<1>8. nBytes' \in [Shard -> Int]
  <2>1. Size(k, v) \in Int /\ nBytes[s] \in Int
    BY <1>0, <1>2, FastLRUAssumption DEF TypeOK, Size
  <2>2. nBytes[s] + Size(k, v) \in Int
    BY <2>1
  <2> QED BY <1>0, <1>1, <2>2 DEF TypeOK
<1>9. Pointers'
  <2>1. IsFiniteSet(cache') /\ cache' \subseteq Valued'
    BY <1>0, <1>1, <1>7, FS_AddElement DEF Pointers
  <2> QED BY <1>5, <1>6, <2>1 DEF Pointers
<1>10. TypeOK'
  BY <1>0, <1>1, <1>3, <1>5, <1>7, <1>8 DEF TypeOK, Places, Links
<1>11. \A q \in Proc \ {p} : pc[q] \in Reading => arg[q] \in cache'
  BY <1>0, <1>1 DEF Calls
<1>12. pc'[p] \notin Reading /\ pc'[p] \notin {"clear", "count"}
  BY <1>3 DEF Reading
<1>13. Base'
  BY <1>3, <1>9, <1>10, <1>11, <1>12, WriteBase
<1> QED BY <1>3, <1>13

\* What the end of the list is, for a goroutine in the loop of Add.
LEMMA EndOfList ==
    ASSUME Base, NEW p \in Proc, pc[p] = "evict", Back(ShardOf[arg[p]]) # Nil
    PROVE  LET s == ShardOf[arg[p]]
               e == Back(s)
           IN
           /\ arg[p] \in Key /\ s \in Shard
           /\ Held(s) # {} /\ e = links.prev[s]
           /\ e = s \/ (e \in Key /\ ShardOf[e] = s /\ value[e] \in Value /\ e \in Valued)
<1> DEFINE s == ShardOf[arg[p]]
           e == Back(s)
<1>0. TypeOK /\ Calls /\ Pointers
  BY DEF Base
<1>1. arg[p] \in Key /\ s \in Shard /\ s \in Node /\ Home(s) = s
  BY <1>0, Nodes, FastLRUAssumption DEF Calls, Writing
<1>2. Held(s) # {} /\ e = links.prev[s]
  BY DEF Back
<1>3. e # Nil /\ e \in Valued
  BY <1>0, <1>1, <1>2 DEF Pointers, Within
<1>4. Home(e) = s
  BY <1>0, <1>1, <1>2, <1>3 DEF Pointers, Local
<1>5. e \in Shard => e = s
  BY <1>4 DEF Home
<1>6. e \notin Shard => e \in Key /\ ShardOf[e] = s /\ value[e] \in Value
  BY <1>3, <1>4 DEF Home, Valued
<1> QED BY <1>1, <1>2, <1>3, <1>5, <1>6

LEMMA EvictBase ==
    ASSUME Base, NEW p \in Proc, EvictTurn(p)
    PROVE  Base' /\ Elsewhere(p)
<1> DEFINE s == ShardOf[arg[p]]
           e == Back(s)
<1>0. TypeOK /\ Calls /\ Pointers
  BY DEF Base
<1>1. /\ pc[p] = "evict" /\ e # Nil
      /\ IF e = s
         THEN Goto(p, "panicked") /\ UNCHANGED <<cache, value, links, nBytes>>
         ELSE /\ links' = IF e \in cache THEN Cut(links, e) ELSE links
              /\ cache' = cache \ {e}
              /\ nBytes' = [nBytes EXCEPT ![s] = nBytes[s] - Size(e, value[e])]
              /\ UNCHANGED <<value, pc, arg>>
      /\ UNCHANGED <<limit, turn, raced>>
      /\ UNCHANGED <<gets, hits, misses, seen, skewed, resets>>
  BY DEF EvictTurn, counters, lists
<1>2. /\ arg[p] \in Key /\ s \in Shard
      /\ e = s \/ (e \in Key /\ ShardOf[e] = s /\ value[e] \in Value /\ e \in Valued)
  BY <1>1, EndOfList
<1>3. turn'[p] = 1 /\ turn'[p] = turn[p]
  BY <1>0, <1>1 DEF Calls
<1>4. \A q \in Proc \ {p} : pc[q] \in Reading \cup Writing => ShardOf[arg[q]] # s
  BY <1>0, <1>1 DEF Calls, Writing
<1>5. \A q \in Proc : pc[q] \in Reading => arg[q] \in cache
  BY <1>0 DEF Calls
<1> HIDE DEF e
<1>6. CASE e = s
  <2>1. /\ pc' \in [Proc -> Places] /\ arg' \in [Proc -> Node \cup {Nil}]
        /\ pc'[p] = "panicked" /\ arg'[p] = arg[p]
        /\ \A q \in Proc \ {p} : pc'[q] = pc[q] /\ arg'[q] = arg[q]
    <3>1. "panicked" \in Places /\ Goto(p, "panicked")
      BY <1>1, <1>6 DEF Places
    <3> QED BY <1>0, <3>1, Goes
  <2>2. Elsewhere(p)
    BY <1>1, <2>1 DEF Elsewhere
  <2>3. TypeOK'
    BY <1>0, <1>1, <1>6, <2>1 DEF TypeOK, Places
  <2>4. Pointers'
    BY <1>0, <1>1, <1>6, PointersKept
  <2>5. pc'[p] \notin Reading /\ pc'[p] \notin {"clear", "count"}
    BY <2>1 DEF Reading
  <2>6. cache' = cache
    BY <1>1, <1>6
  <2>7. Base'
    BY <1>2, <1>3, <1>4, <1>5, <2>1, <2>2, <2>3, <2>4, <2>5, <2>6, WriteBase
  <2> QED BY <2>2, <2>7
<1>7. CASE e # s
  <2>1. /\ links' = IF e \in cache THEN Cut(links, e) ELSE links
        /\ cache' = cache \ {e}
        /\ nBytes' = [nBytes EXCEPT ![s] = nBytes[s] - Size(e, value[e])]
        /\ UNCHANGED <<value, pc, arg>>
    BY <1>1, <1>7
  <2>2. e \in Key /\ ShardOf[e] = s /\ value[e] \in Value /\ e \in Valued
        /\ e \in Node /\ Home(e) = s /\ e \notin Shard
    BY <1>2, <1>7, Nodes
  <2>3. Elsewhere(p)
    BY <1>1, <2>1 DEF Elsewhere
  <2>4. links \in Links
    BY <1>0 DEF TypeOK, Links
  <2>5. links' \in Links /\ Local(links') /\ Tied(links', cache' \cup Shard)
        /\ Within(links', Valued)
    <3>1. CASE e \in cache
      <4>1. Tied(links, cache \cup Shard) /\ cache \cup Shard \in SUBSET Node /\ Local(links)
        BY <1>0 DEF Pointers, TypeOK, Node
      <4>2. e \in cache \cup Shard /\ links' = Cut(links, e)
        BY <2>1, <3>1
      <4>3. links' \in Links /\ Local(links') /\ Tied(links', (cache \cup Shard) \ {e})
        BY <1>2, <2>2, <2>4, <4>1, <4>2, CutLocal
      <4>4. (cache \cup Shard) \ {e} = cache' \cup Shard
        BY <2>1, <2>2
      <4>5. Within(links, Valued)
        BY <1>0 DEF Pointers
      <4>6. Within(links', Valued)
        BY <2>2, <2>4, <4>2, <4>5, CutWithin
      <4> QED BY <4>3, <4>4, <4>6
    <3>2. CASE e \notin cache
      BY <1>0, <2>1, <2>4, <3>2 DEF Pointers, Tied
    <3> QED BY <3>1, <3>2
  <2>6. nBytes' \in [Shard -> Int]
    <3>1. Size(e, value[e]) \in Int /\ nBytes[s] \in Int
      BY <1>0, <1>2, <2>2, FastLRUAssumption DEF TypeOK, Size
    <3>2. nBytes[s] - Size(e, value[e]) \in Int
      BY <3>1
    <3> QED BY <1>0, <2>1, <3>2 DEF TypeOK
  <2>7. IsFiniteSet(cache') /\ cache' \subseteq cache
    BY <1>0, <2>1, FS_Subset DEF Pointers
  <2>8. Pointers'
    BY <1>0, <2>1, <2>5, <2>7 DEF Pointers, Valued
  <2>9. TypeOK'
    BY <1>0, <1>1, <2>1, <2>5, <2>6, <2>7 DEF TypeOK, Places, Links
  <2>10. \A q \in Proc \ {p} : pc[q] \in Reading => arg[q] \in cache'
    BY <1>4, <1>5, <2>1, <2>2
  <2>11. pc'[p] \notin Reading /\ pc'[p] \notin {"clear", "count"} /\ arg'[p] = arg[p]
    BY <1>1, <2>1 DEF Reading
  <2>12. Base'
    BY <1>2, <1>3, <1>4, <2>3, <2>8, <2>9, <2>10, <2>11, WriteBase
  <2> QED BY <2>3, <2>12
<1> QED BY <1>6, <1>7

LEMMA ClearBase ==
    ASSUME Base, NEW p \in Proc, ClearShard(p)
    PROVE  Base' /\ Elsewhere(p)
<1> DEFINE s == arg[p]
<1>0. TypeOK /\ Calls /\ Pointers
  BY DEF Base
<1>1. /\ pc[p] = "clear" /\ Free(s)
      /\ cache' = cache \ KeysOf(s)
      /\ value' = [k \in Key |-> IF k \in KeysOf(s) THEN Missing ELSE value[k]]
      /\ links' = Emptied(links, s)
      /\ nBytes' = [nBytes EXCEPT ![s] = 0]
      /\ raced' = raced \ {s}
      /\ NextShard(p)
      /\ UNCHANGED <<limit, turn>>
      /\ UNCHANGED <<gets, hits, misses, seen, skewed, resets>>
  BY DEF ClearShard, counters
<1>2. s \in Shard /\ s \in Node /\ Home(s) = s /\ s # Nil /\ turn'[p] = 1
  BY <1>0, <1>1, Nodes DEF Calls
<1>3. /\ pc' \in [Proc -> Places] /\ arg' \in [Proc -> Node \cup {Nil}]
      /\ (pc'[p] = "clear" /\ arg'[p] \in Shard) \/ pc'[p] = "idle"
      /\ \A q \in Proc \ {p} : pc'[q] = pc[q] /\ arg'[q] = arg[q]
  BY <1>0, <1>1, <1>2, NextShards
<1>4. Elsewhere(p)
  BY <1>1, <1>3 DEF Elsewhere
<1>5. /\ \A x \in Node : Home(x) # s => /\ links'.next[x] = links.next[x]
                                        /\ links'.prev[x] = links.prev[x]
      /\ \A x \in Node : Home(x) = s /\ x # s => links'.next[x] = Nil /\ links'.prev[x] = Nil
      /\ links'.next[s] = s /\ links'.prev[s] = s
      /\ links' \in Links
  <2>1. \A x \in Node : x \in KeysOf(s) <=> Home(x) = s /\ x # s
    BY <1>2, Nodes DEF KeysOf, Node, Home
  <2>2. links \in Links
    BY <1>0 DEF TypeOK, Links
  <2>3. \A x \in Node : /\ links'.next[x] = IF x = s THEN s
                                    ELSE IF x \in KeysOf(s) THEN Nil ELSE links.next[x]
                        /\ links'.prev[x] = IF x = s THEN s
                                    ELSE IF x \in KeysOf(s) THEN Nil ELSE links.prev[x]
    BY <1>1 DEF Emptied
  <2>4. links' \in Links
    BY <1>1, <1>2, <2>2 DEF Emptied, Links
  <2> QED BY <1>2, <2>1, <2>3, <2>4
<1>6. \A x \in Node : Home(x) # s =>
        /\ links.next[x] # Nil => Home(links.next[x]) # s
        /\ links.prev[x] # Nil => Home(links.prev[x]) # s
  BY <1>0 DEF Pointers, Local
<1>7. Local(links')
  BY <1>0, <1>2, <1>5 DEF Pointers, Local
<1>8. \A x \in Node : x \in Valued' <=> x \in Valued /\ (Home(x) # s \/ x = s)
  <2>1. \A x \in Shard : x \in Valued /\ x \in Valued' /\ (Home(x) = s => x = s)
    BY Nodes DEF Valued
  <2>2. \A x \in Key : x \in Valued' <=> x \in Valued /\ Home(x) # s
    <3>1. ASSUME NEW x \in Key
          PROVE  x \in Valued' <=> x \in Valued /\ Home(x) # s
      <4>1. Home(x) = ShardOf[x] /\ x \notin Shard
        BY Nodes
      <4>2. value'[x] = IF ShardOf[x] = s THEN Missing ELSE value[x]
        BY <1>1 DEF KeysOf
      <4>3. Missing \notin Value
        BY FastLRUAssumption
      <4> QED BY <4>1, <4>2, <4>3 DEF Valued
    <3> QED BY <3>1
  <2>3. \A x \in Key : x # s
    BY <1>2, Nodes
  <2> QED BY <2>1, <2>2, <2>3 DEF Node
<1>9. Within(links', Valued')
  <2>1. Within(links, Valued) /\ Valued \subseteq Node /\ s \in Valued'
    BY <1>0, <1>2, <1>8 DEF Pointers, Valued, Node
  <2>2. \A x \in Node : Home(x) # s =>
          links'.next[x] \in Valued' \cup {Nil} /\ links'.prev[x] \in Valued' \cup {Nil}
    BY <1>5, <1>6, <1>8, <2>1 DEF Within
  <2> QED BY <1>2, <1>5, <2>1, <2>2 DEF Within
<1>10. \A x \in cache : x \in cache' <=> Home(x) # s
  BY <1>0, <1>1, Nodes DEF KeysOf, TypeOK
<1>11. Tied(links', cache' \cup Shard)
  <2>1. \A x \in cache \cup Shard : links.next[x] # Nil /\ links.prev[x] # Nil /\ x \in Node
    BY <1>0 DEF Pointers, Tied, TypeOK, Node
  <2>2. \A x \in cache' : x \in cache /\ Home(x) # s
    BY <1>1, <1>10
  <2>3. \A x \in Shard : x # s => Home(x) # s
    BY Nodes
  <2> QED BY <1>2, <1>5, <2>1, <2>2, <2>3 DEF Tied
<1>12. Pointers'
  <2>1. IsFiniteSet(cache')
    BY <1>0, <1>1, FS_Subset DEF Pointers
  <2>2. cache' \subseteq Valued'
    <3>1. \A x \in cache' : x \in cache /\ x \in Valued /\ x \in Node /\ Home(x) # s
      BY <1>0, <1>1, <1>10 DEF Pointers, TypeOK, Node
    <3> QED BY <1>8, <3>1
  <2> QED BY <1>7, <1>9, <1>11, <2>1, <2>2 DEF Pointers
<1>13. TypeOK'
  <2>1. cache' \subseteq Key /\ nBytes' \in [Shard -> Int] /\ raced' \subseteq Shard
        /\ value' \in [Key -> Value \cup {Missing}]
    <3>1. cache \subseteq Key /\ nBytes \in [Shard -> Int] /\ raced \subseteq Shard
          /\ value \in [Key -> Value \cup {Missing}]
      BY <1>0 DEF TypeOK
    <3>2. cache' \subseteq Key /\ raced' \subseteq Shard
      BY <1>1, <3>1
    <3>3. nBytes' \in [Shard -> Int]
      <4>1. 0 \in Int
        OBVIOUS
      <4> QED BY <1>1, <3>1, <4>1
    <3>4. value' \in [Key -> Value \cup {Missing}]
      BY <1>1, <3>1
    <3> QED BY <3>2, <3>3, <3>4
  <2> QED BY <1>0, <1>1, <1>3, <1>5, <2>1 DEF TypeOK, Places, Links
<1>14. \A q \in Proc \ {p} : pc[q] \in Reading => arg[q] \in cache'
  <2>1. \A q \in Proc : pc[q] \in Reading => ShardOf[arg[q]] # s
    BY <1>0, <1>1, <1>2, Locks DEF Free
  <2>2. \A q \in Proc : pc[q] \in Reading => arg[q] \in cache /\ arg[q] \in Key
    BY <1>0 DEF Calls, Reading, InGet
  <2> QED BY <1>10, <2>1, <2>2, Nodes
<1>15. pc'[p] \notin Reading \cup Writing /\ pc'[p] \notin InGet \cup Writing
  BY <1>3 DEF Reading, Writing, InGet
<1>16. /\ pc'[p] \notin Reading
       /\ pc'[p] \in {"clear", "count"} => arg'[p] \in Shard
  BY <1>3, <1>15
<1>17. Base'
  BY <1>2, <1>4, <1>12, <1>13, <1>14, <1>15, <1>16, WriteBase
<1> QED BY <1>4, <1>17

\* Every step leaves the other goroutines where they are.
LEMMA StepBase ==
    ASSUME Base, NEW p \in Proc, By(p)
    PROVE  Base' /\ Elsewhere(p)
<1>1. CASE \E k \in Key, v \in Value : AddUpdate(p, k, v) \/ AddInsert(p, k, v)
  BY <1>1, UpdateBase, InsertBase
<1>2. CASE Move(p)
  BY <1>2, MoveBase
<1>3. CASE EvictTurn(p)
  BY <1>3, EvictBase
<1>4. CASE ClearShard(p)
  BY <1>4, ClearBase
<1>5. CASE \/ \E k \in Key : GetStart(p, k)
           \/ Lookup(p) \/ CheckFront(p) \/ CountHit(p) \/ CountMiss(p)
           \/ AddReturn(p) \/ ClearStart(p) \/ LenStart(p) \/ CountShard(p)
           \/ StatsStart(p) \/ Load(p)
           \/ ResetGets(p) \/ ResetHits(p) \/ ResetMisses(p)
  BY <1>5, QuietBase
<1> QED BY <1>1, <1>2, <1>3, <1>4, <1>5 DEF By, Step

LEMMA InitBase ==
    ASSUME Init
    PROVE  Base
<1>1. TypeOK
  <2>1. links \in [{"next", "prev"} -> [Node -> Node \cup {Nil}]]
    BY DEF Init, Node
  <2>2. 0 \in 0 .. MaxResets /\ 1 \in 1 .. 6 /\ 0 \in Nat
    BY FastLRUAssumption
  <2>3. nBytes \in [Shard -> Int]
    BY DEF Init
  <2>4. seen \in [Proc -> [gets : Int, hits : Int]]
    BY DEF Init, Unseen
  <2> QED BY <2>1, <2>2, <2>3, <2>4 DEF Init, TypeOK
<1>2. Calls
  BY DEF Init, Calls, InGet, Reading, Writing
<1>3. Pointers
  <2>1. \A x \in Node : /\ links.next[x] = IF x \in Shard THEN x ELSE Nil
                        /\ links.prev[x] = IF x \in Shard THEN x ELSE Nil
    BY DEF Init
  <2>2. IsFiniteSet(cache) /\ cache \subseteq Valued /\ cache = {}
    BY FS_EmptySet DEF Init
  <2>3. Local(links)
    BY <2>1 DEF Local
  <2>4. Tied(links, cache \cup Shard)
    BY <2>1, <2>2, Nodes DEF Tied
  <2>5. Within(links, Valued)
    BY <2>1 DEF Within, Valued
  <2> QED BY <2>2, <2>3, <2>4, <2>5 DEF Pointers
<1>4. IsFiniteSet(Open)
  <2>1. Open = {}
    BY DEF Init, Open, InGet
  <2> QED BY <2>1, FS_EmptySet
<1> QED BY <1>1, <1>2, <1>3, <1>4 DEF Base

LEMMA StutterBase ==
    ASSUME Base, UNCHANGED vars
    PROVE  Base'
<1> USE DEF vars, lists, counters
<1>1. TypeOK'
  BY DEF Base, TypeOK
<1>2. Calls'
  BY DEF Base, Calls
<1>3. Pointers'
  BY DEF Base, Pointers, Valued
<1>4. IsFiniteSet(Open')
  BY DEF Base, Open
<1> QED BY <1>1, <1>2, <1>3, <1>4 DEF Base

\* The lock keeps what it guards in order even where lists are damaged: a key
\* that is being moved is in the map, and a pointer is nil only outside it.
THEOREM BaseHolds == Spec => []Base
<1>1. Base /\ [Next]_vars => Base'
  <2>1. ASSUME Base, Next PROVE Base'
    <3>1. PICK p \in Proc : By(p)
      BY <2>1 DEF Next, By
    <3> QED BY <2>1, <3>1, StepBase
  <2> QED BY <2>1, StutterBase
<1> QED BY <1>1, InitBase, PTL DEF Spec

\* A Get never follows a nil pointer, not even in a shard where two race.
THEOREM NoNilPointer == Spec => []MovesAreSafe
<1>1. Base => MovesAreSafe
  <2>1. ASSUME Base, NEW p \in Proc, pc[p] = "move"
        PROVE  links.next[arg[p]] # Nil /\ links.prev[arg[p]] # Nil
    <3>1. arg[p] \in cache \cup Shard
      BY <2>1 DEF Base, Calls, Reading
    <3> QED BY <2>1, <3>1 DEF Base, Pointers, Tied
  <2> QED BY <2>1 DEF MovesAreSafe
<1> QED BY <1>1, BaseHolds, PTL

-----------------------------------------------------------------------------
(* Shards in which no two moves have overlapped.                           *)

NodesOf(s) == Held(s) \cup {s}

\* The bytes of the entries c.
Weight(c, v) == SumFunctionOnSet([k \in c |-> Size(k, v[k])], c)

\* The list of a shard: whole, or as far as the one Get that moves has come.
ListOf(s) ==
    \/ Movers(s) = {} /\ Whole(links, NodesOf(s), s)
    \/ \E p \in Proc :
          Movers(s) = {p} /\ Stage(links, NodesOf(s), s, arg[p], turn[p])

Sound(s) ==
    /\ ListOf(s)
    /\ nBytes[s] = Weight(Held(s), value)
    /\ \A p \in Proc : pc[p] = "panicked" => ShardOf[arg[p]] # s

AllSound == \A s \in Shard \ raced : Sound(s)

LEMMA SizeType ==
    ASSUME NEW k \in Key, NEW v \in Value
    PROVE  Size(k, v) \in Nat
<1>1. KeyLen[k] \in Nat /\ ValLen[v] \in Nat
  BY FastLRUAssumption
<1> QED BY <1>1 DEF Size

LEMMA WeightPart ==
    ASSUME NEW c, IsFiniteSet(c), NEW v, \A k \in c : Size(k, v[k]) \in Int, NEW z \in c
    PROVE  Weight(c, v) = Size(z, v[z]) + Weight(c \ {z}, v)
<1> DEFINE f == [k \in c |-> Size(k, v[k])]
           g == [k \in c \ {z} |-> Size(k, v[k])]
<1>1. \A x \in c : f[x] \in Int
  OBVIOUS
<1>2. f[z] = Size(z, v[z]) /\ \A x \in c \ {z} : f[x] = g[x]
  OBVIOUS
<1>3. IsFiniteSet(c \ {z})
  BY FS_Subset
<1> HIDE DEF f, g
<1>4. SumFunctionOnSet(f, c) = f[z] + SumFunctionOnSet(f, c \ {z})
  BY <1>1, SumRemove
<1>5. SumFunctionOnSet(f, c \ {z}) = SumFunctionOnSet(g, c \ {z})
  BY <1>2, <1>3, SumEqual
<1> QED BY <1>2, <1>4, <1>5 DEF Weight, f, g

LEMMA WeightSame ==
    ASSUME NEW c, NEW v, NEW w, \A k \in c : w[k] = v[k]
    PROVE  Weight(c, w) = Weight(c, v)
<1>1. [k \in c |-> Size(k, w[k])] = [k \in c |-> Size(k, v[k])]
  OBVIOUS
<1> QED BY <1>1 DEF Weight

LEMMA WeightType ==
    ASSUME NEW c, IsFiniteSet(c), NEW v, \A k \in c : Size(k, v[k]) \in Nat
    PROVE  Weight(c, v) \in Nat
<1> DEFINE f == [k \in c |-> Size(k, v[k])]
<1>1. \A x \in c : f[x] \in Nat
  OBVIOUS
<1> HIDE DEF f
<1>2. SumFunctionOnSet(f, c) \in Nat
  BY <1>1, SumType
<1> QED BY <1>2 DEF Weight, f

\* What Base says of the entries of a shard.
LEMMA Entries ==
    ASSUME Base, NEW s \in Shard
    PROVE  /\ IsFiniteSet(Held(s)) /\ Held(s) \subseteq cache
           /\ NodesOf(s) \in SUBSET Node /\ s \in NodesOf(s) /\ s \notin Held(s)
           /\ \A k \in Held(s) : /\ k \in Key /\ ShardOf[k] = s /\ k \in cache
                                 /\ Size(k, value[k]) \in Nat
           /\ \A k \in Key : k \in Held(s) <=> k \in cache /\ ShardOf[k] = s
<1>1. IsFiniteSet(cache) /\ cache \subseteq Valued /\ cache \subseteq Key
  BY DEF Base, Pointers, TypeOK
<1>2. IsFiniteSet(Held(s)) /\ Held(s) \subseteq cache
  BY <1>1, FS_Subset DEF Held
<1>3. \A k \in Key : k \in Held(s) <=> k \in cache /\ ShardOf[k] = s
  BY DEF Held, KeysOf
<1>4. ASSUME NEW k \in Held(s)
      PROVE  /\ k \in Key /\ ShardOf[k] = s /\ k \in cache
             /\ Size(k, value[k]) \in Nat
  <2>1. k \in Key /\ ShardOf[k] = s /\ k \in cache
    BY <1>1, <1>4 DEF Held, KeysOf
  <2>2. value[k] \in Value
    BY <1>1, <2>1, Nodes DEF Valued
  <2> QED BY <2>1, <2>2, SizeType
<1>5. NodesOf(s) \in SUBSET Node /\ s \in NodesOf(s) /\ s \notin Held(s)
  BY <1>4, Nodes DEF NodesOf
<1> QED BY <1>2, <1>3, <1>4, <1>5

\* Goroutines other than p go on moving, and no others.
LEMMA MoversOf ==
    ASSUME NEW p \in Proc, Elsewhere(p), NEW s
    PROVE  /\ \A q \in Proc \ {p} : q \in Movers(s)' <=> q \in Movers(s)
           /\ Movers(s) \subseteq Proc /\ Movers(s)' \subseteq Proc
           /\ \A q \in Movers(s) : pc[q] = "move" /\ arg[q] \in Key /\ ShardOf[arg[q]] = s
           /\ \A q \in Movers(s)' :
                pc'[q] = "move" /\ arg'[q] \in Key /\ ShardOf[arg'[q]] = s
           /\ pc[p] = "move" /\ arg[p] \in Key /\ ShardOf[arg[p]] = s => p \in Movers(s)
           /\ pc'[p] = "move" /\ arg'[p] \in Key /\ ShardOf[arg'[p]] = s => p \in Movers(s)'
BY DEF Movers, Readers, In, Elsewhere

\* A step that leaves a shard alone.
LEMMA SoundKept ==
    ASSUME Base, NEW p \in Proc, Elsewhere(p), NEW s \in Shard, Sound(s),
           Held(s)' = Held(s),
           \A x \in NodesOf(s) : links'.next[x] = links.next[x]
                                 /\ links'.prev[x] = links.prev[x],
           \A k \in Held(s) : value'[k] = value[k],
           nBytes'[s] = nBytes[s],
           p \notin Movers(s), p \notin Movers(s)',
           pc'[p] = "panicked" => ShardOf[arg'[p]] # s
    PROVE  Sound(s)'
<1>1. Movers(s)' = Movers(s)
  BY MoversOf
<1>2. NodesOf(s)' = NodesOf(s) /\ s \in NodesOf(s)
  BY DEF NodesOf
<1>3. ListOf(s)'
  <2>1. CASE Movers(s) = {} /\ Whole(links, NodesOf(s), s)
    <3>1. Whole(links', NodesOf(s), s)
      BY <2>1, SameWhole
    <3> QED BY <1>1, <1>2, <2>1, <3>1 DEF ListOf
  <2>2. CASE \E q \in Proc :
                Movers(s) = {q} /\ Stage(links, NodesOf(s), s, arg[q], turn[q])
    <3>1. PICK q \in Proc :
                Movers(s) = {q} /\ Stage(links, NodesOf(s), s, arg[q], turn[q])
      BY <2>2
    <3>2. q # p /\ q \in Movers(s)
      BY <3>1
    <3>3. arg'[q] = arg[q] /\ turn'[q] = turn[q]
      BY <3>2 DEF Elsewhere
    <3>4. arg[q] \in NodesOf(s) /\ turn[q] \in 1 .. 6
      <4>1. pc[q] = "move" /\ arg[q] \in Key /\ ShardOf[arg[q]] = s
        BY <3>2, MoversOf
      <4>2. arg[q] \in cache /\ turn[q] \in 1 .. 6
        BY <4>1 DEF Base, Calls, TypeOK, Reading
      <4> QED BY <4>1, <4>2, Entries DEF NodesOf
    <3>5. Stage(links', NodesOf(s), s, arg[q], turn[q])
      <4> DEFINE S == NodesOf(s)
                 e == arg[q]
                 t == turn[q]
      <4>1. e \in S /\ t \in 1 .. 6 /\ s \in S /\ Stage(links, S, s, e, t)
        BY <1>2, <3>1, <3>4
      <4>2. \A x \in S : links'.next[x] = links.next[x] /\ links'.prev[x] = links.prev[x]
        OBVIOUS
      <4> HIDE DEF S, e, t
      <4>3. Stage(links', S, s, e, t)
        BY <4>1, <4>2, SameStage
      <4> QED BY <4>3 DEF S, e, t
    <3> QED BY <1>1, <1>2, <3>1, <3>3, <3>5 DEF ListOf
  <2> QED BY <2>1, <2>2 DEF Sound, ListOf
<1>4. nBytes'[s] = Weight(Held(s)', value')
  <2>1. Weight(Held(s), value') = Weight(Held(s), value)
    BY WeightSame
  <2> QED BY <2>1 DEF Sound
<1>5. \A q \in Proc : pc'[q] = "panicked" => ShardOf[arg'[q]] # s
  BY DEF Sound, Elsewhere
<1> QED BY <1>3, <1>4, <1>5 DEF Sound

\* A step of p in another shard.
LEMMA SoundBeyond ==
    ASSUME Base, NEW p \in Proc, Elsewhere(p), NEW s \in Shard, NEW r \in Shard, r # s,
           Sound(r), links \in Links,
           \A k \in Key : ShardOf[k] # s => (k \in cache' <=> k \in cache),
           cache' \subseteq Key,
           Beyond(links, links', s),
           \A k \in Key : ShardOf[k] # s => value'[k] = value[k],
           nBytes'[r] = nBytes[r],
           pc[p] = "move" => ShardOf[arg[p]] = s,
           pc'[p] \in {"move", "panicked"} => ShardOf[arg'[p]] = s
    PROVE  Sound(r)'
<1>1. \A k \in Held(r) : k \in Key /\ ShardOf[k] # s
  BY Entries
<1>2. Held(r)' = Held(r)
  <2>1. \A k \in Key : k \in Held(r)' <=> k \in Held(r)
    BY DEF Held, KeysOf
  <2>2. Held(r)' \subseteq Key /\ Held(r) \subseteq Key
    BY DEF Held, KeysOf
  <2> QED BY <2>1, <2>2
<1>3. \A x \in NodesOf(r) : links'.next[x] = links.next[x] /\ links'.prev[x] = links.prev[x]
  <2>1. \A x \in NodesOf(r) : x \in Node /\ Home(x) # s
    BY <1>1, Nodes DEF NodesOf
  <2> QED BY <2>1 DEF Beyond
<1>4. p \notin Movers(r) /\ p \notin Movers(r)'
  BY MoversOf
<1> QED BY <1>1, <1>2, <1>3, <1>4, SoundKept

LEMMA MoveSound ==
    ASSUME Base, AllSound, NEW p \in Proc, Move(p)
    PROVE  AllSound'
<1>a. PICK e, s, t : e = arg[p] /\ s = ShardOf[e] /\ t = turn[p]
  OBVIOUS
<1> DEFINE S == NodesOf(s)
<1>0. TypeOK /\ Calls /\ Pointers /\ Elsewhere(p) /\ links \in Links
  BY MoveBase DEF Base, TypeOK, Links
<1>1. /\ pc[p] = "move" /\ links' = Assign(links, t, e, s)
      /\ e = arg[p] /\ s = ShardOf[e] /\ t = turn[p]
      /\ UNCHANGED <<cache, value, nBytes, raced>>
      /\ IF t < 6 THEN turn' = [turn EXCEPT ![p] = t + 1] /\ UNCHANGED <<pc, arg>>
                  ELSE turn' = [turn EXCEPT ![p] = 1] /\ Goto(p, "hit")
  BY <1>a DEF Move
<1>2. e \in Key /\ e \in cache /\ t \in 1 .. 6
  BY <1>0, <1>1 DEF Calls, TypeOK, InGet, Reading
<1>3. s \in Shard /\ s \in Node /\ e \in Node /\ Home(s) = s /\ Home(e) = s
  BY <1>1, <1>2, Nodes, FastLRUAssumption
<1>4. pc'[p] \in {"move", "hit"} /\ arg'[p] = e
      /\ (t < 6 => pc'[p] = "move" /\ turn'[p] = t + 1)
      /\ (~ (t < 6) => pc'[p] = "hit")
  <2>1. "hit" \in Places
    BY DEF Places, InGet
  <2>2. CASE t < 6
    <3>1. turn' = [turn EXCEPT ![p] = t + 1] /\ pc' = pc /\ arg' = arg
      BY <1>1, <2>2
    <3>2. turn \in [Proc -> 1 .. 6]
      BY <1>0 DEF TypeOK
    <3>3. turn'[p] = t + 1
      BY <3>1, <3>2
    <3> QED BY <1>1, <2>2, <3>1, <3>3
  <2>3. CASE ~ (t < 6)
    BY <1>0, <1>1, <2>1, <2>3, Goes
  <2> QED BY <2>2, <2>3
<1>5. ASSUME NEW r \in Shard \ raced, r # s
      PROVE  Sound(r)'
  <2>1. Beyond(links, links', s)
    BY <1>0, <1>1, <1>2, <1>3, AssignLocal DEF Pointers
  <2>2. Sound(r) /\ r \in Shard /\ cache' \subseteq Key
    BY <1>0, <1>1, <1>5 DEF AllSound, TypeOK
  <2> QED BY <1>0, <1>1, <1>3, <1>4, <1>5, <2>1, <2>2, SoundBeyond
<1>6. ASSUME s \notin raced
      PROVE  Sound(s)'
  <2>1. Sound(s)
    BY <1>3, <1>6 DEF AllSound
  <2>2. p \in Movers(s)
    BY <1>0, <1>1, <1>2, MoversOf
  <2>3. Movers(s) = {p} /\ Stage(links, S, s, e, t)
    BY <1>1, <2>1, <2>2 DEF Sound, ListOf
  <2>4. S \in SUBSET Node /\ s \in S /\ e \in S /\ e # s
    BY <1>2, <1>3, Entries, Nodes DEF NodesOf
  <2>5. Stage(links', S, s, e, t + 1)
    <3> HIDE DEF S
    <3> QED BY <1>0, <1>1, <1>2, <2>3, <2>4, NextStage
  <2>6. Held(s)' = Held(s) /\ NodesOf(s)' = S
    BY <1>1 DEF Held, NodesOf
  <2>7. ListOf(s)'
    <3>1. CASE t < 6
      <4>1. Movers(s)' = {p}
        BY <1>0, <1>1, <1>2, <1>4, <2>3, <3>1, MoversOf
      <4>2. Stage(links', NodesOf(s)', s, arg'[p], turn'[p])
        BY <1>4, <2>5, <2>6, <3>1
      <4> QED BY <4>1, <4>2 DEF ListOf
    <3>2. CASE ~ (t < 6)
      <4>1. Movers(s)' = {}
        <5>1. p \notin Movers(s)'
          BY <1>0, <1>4, <3>2, MoversOf
        <5> QED BY <1>0, <2>3, <5>1, MoversOf
      <4>2. t + 1 = 7
        BY <1>2, <3>2
      <4>3. Stage(links', S, s, e, 7)
        BY <2>5, <4>2
      <4>4. Whole(links', S, s)
        BY <4>3 DEF Stage
      <4>5. Whole(links', NodesOf(s)', s)
        BY <2>6, <4>4
      <4> QED BY <4>1, <4>5 DEF ListOf
    <3> QED BY <3>1, <3>2
  <2>8. nBytes'[s] = Weight(Held(s)', value')
    BY <1>1, <2>1, <2>6 DEF Sound
  <2>9. \A q \in Proc : pc'[q] = "panicked" => ShardOf[arg'[q]] # s
    BY <1>0, <1>4, <2>1 DEF Sound, Elsewhere
  <2> QED BY <2>7, <2>8, <2>9 DEF Sound
<1> QED BY <1>1, <1>5, <1>6 DEF AllSound

LEMMA CheckFrontSound ==
    ASSUME Base, AllSound, NEW p \in Proc, CheckFront(p)
    PROVE  AllSound'
<1>a. PICK e, s : e = arg[p] /\ s = ShardOf[e]
  OBVIOUS
<1>0. TypeOK /\ Calls /\ Pointers /\ Elsewhere(p)
      /\ UNCHANGED <<limit, cache, value, links, nBytes>>
  BY QuietBase DEF Base
<1>1. /\ pc[p] = "found" /\ UNCHANGED turn
      /\ e = arg[p] /\ s = ShardOf[e]
      /\ IF IsFront(links, e, s)
         THEN Goto(p, "hit") /\ UNCHANGED raced
         ELSE /\ Goto(p, "move")
              /\ raced' = IF Movers(s) = {} THEN raced ELSE raced \cup {s}
  BY <1>a DEF CheckFront
<1>2. e \in Key /\ e \in cache /\ s \in Shard
  BY <1>0, <1>1, FastLRUAssumption DEF Calls, InGet, Reading
<1>3. /\ arg'[p] = e /\ pc'[p] \in {"hit", "move"} /\ turn'[p] = 1
      /\ pc'[p] = "hit" => raced' = raced
      /\ pc'[p] = "move" => raced' = IF Movers(s) = {} THEN raced ELSE raced \cup {s}
  <2>1. {"hit", "move"} \subseteq Places
    BY DEF Places, InGet
  <2>2. turn'[p] = 1
    BY <1>0, <1>1 DEF Calls
  <2> QED BY <1>0, <1>1, <2>1, <2>2, Goes
<1>4. p \notin Movers(s)
  BY <1>0, <1>1, MoversOf
<1>5. ASSUME NEW r \in Shard \ raced', r # s \/ pc'[p] = "hit"
      PROVE  Sound(r)'
  <2>1. Sound(r) /\ r \in Shard
    BY <1>3, <1>5 DEF AllSound
  <2>2. p \notin Movers(r) /\ p \notin Movers(r)'
    BY <1>0, <1>1, <1>3, <1>5, MoversOf
  <2>3. Held(r)' = Held(r)
    BY <1>0 DEF Held
  <2> QED BY <1>0, <1>3, <2>1, <2>2, <2>3, SoundKept
<1>6. ASSUME s \notin raced', pc'[p] = "move"
      PROVE  Sound(s)'
  <2>1. Movers(s) = {} /\ s \notin raced
    BY <1>3, <1>6
  <2>2. Sound(s)
    BY <1>2, <2>1 DEF AllSound
  <2>3. Whole(links, NodesOf(s), s)
    BY <2>1, <2>2 DEF Sound, ListOf
  <2>4. Movers(s)' = {p}
    BY <1>0, <1>1, <1>2, <1>3, <1>6, <2>1, MoversOf
  <2>5. Held(s)' = Held(s) /\ NodesOf(s)' = NodesOf(s)
    BY <1>0 DEF Held, NodesOf
  <2>6. Stage(links, NodesOf(s), s, e, 1)
    BY <2>3 DEF Stage
  <2>7. Stage(links', NodesOf(s)', s, arg'[p], turn'[p])
    BY <1>0, <1>3, <2>5, <2>6
  <2>8. ListOf(s)'
    BY <2>4, <2>7 DEF ListOf
  <2>9. nBytes'[s] = Weight(Held(s)', value')
    BY <1>0, <2>2, <2>5 DEF Sound
  <2>10. \A q \in Proc : pc'[q] = "panicked" => ShardOf[arg'[q]] # s
    BY <1>0, <1>3, <2>2 DEF Sound, Elsewhere
  <2> QED BY <2>8, <2>9, <2>10 DEF Sound
<1> QED BY <1>3, <1>5, <1>6 DEF AllSound

\* A shard whose lock is taken for writing has no moves, and its list is whole.
LEMMA Settled ==
    ASSUME Base, AllSound, NEW s \in Shard \ raced,
           \A q \in Proc : pc[q] = "move" => ShardOf[arg[q]] # s
    PROVE  /\ Sound(s) /\ Whole(links, NodesOf(s), s)
           /\ nBytes[s] = Weight(Held(s), value)
           /\ Movers(s) = {}
<1>1. Movers(s) = {}
  BY DEF Movers, Readers, In
<1> QED BY <1>1 DEF AllSound, Sound, ListOf

\* What an Add leaves behind: p is at work in s and no Get moves there.
LEMMA WrittenSound ==
    ASSUME NEW p \in Proc, Elsewhere(p), NEW s \in Shard,
           \A q \in Proc \ {p} : pc[q] \in Reading \cup Writing => ShardOf[arg[q]] # s,
           pc'[p] \in {"evict", "clear", "idle"},
           Whole(links', NodesOf(s)', s), nBytes'[s] = Weight(Held(s)', value')
    PROVE  Sound(s)'
<1>1. Movers(s)' = {}
  BY DEF Movers, Readers, In, Elsewhere, Reading
<1>2. \A q \in Proc : pc'[q] = "panicked" => ShardOf[arg'[q]] # s
  BY DEF Elsewhere, Writing
<1> QED BY <1>1, <1>2 DEF Sound, ListOf

LEMMA UpdateSound ==
    ASSUME Base, AllSound, NEW p \in Proc, NEW k \in Key, NEW v \in Value,
           AddUpdate(p, k, v)
    PROVE  AllSound' /\ (ShardOf[k] \notin raced => links'.next[ShardOf[k]] = k)
<1> DEFINE s == ShardOf[k]
<1>0. TypeOK /\ Calls /\ Pointers /\ Elsewhere(p) /\ links \in Links
  BY UpdateBase DEF Base, TypeOK, Links
<1>1. /\ pc[p] = "idle" /\ Free(s) /\ k \in cache
      /\ links' = MoveToFront(links, k, s)
      /\ nBytes' = [nBytes EXCEPT ![s] = nBytes[s] + ValLen[v] - ValLen[value[k]]]
      /\ value' = [value EXCEPT ![k] = v]
      /\ Begin(p, "evict", k)
      /\ UNCHANGED <<cache, turn, raced>>
  BY DEF AddUpdate
<1>2. s \in Shard /\ s \in Node /\ k \in Node /\ Home(s) = s /\ Home(k) = s
  BY Nodes, FastLRUAssumption
<1>3. /\ pc'[p] = "evict" /\ arg'[p] = k
      /\ \A q \in Proc \ {p} : pc[q] \in Reading \cup Writing => ShardOf[arg[q]] # s
  BY <1>1, AddBegins
<1>4. \A j \in Key : j # k => value'[j] = value[j]
  BY <1>0, <1>1 DEF TypeOK
<1>5. value'[k] = v
  BY <1>0, <1>1 DEF TypeOK
<1>6. \A r \in Shard : r # s => nBytes'[r] = nBytes[r]
  BY <1>0, <1>1 DEF TypeOK
<1>7. nBytes'[s] = nBytes[s] + ValLen[v] - ValLen[value[k]] /\ nBytes[s] \in Int
  BY <1>0, <1>1, <1>2 DEF TypeOK
<1>8. ASSUME NEW r \in Shard \ raced, r # s
      PROVE  Sound(r)'
  <2>1. Beyond(links, links', s)
    <3>1. Tied(links, cache \cup Shard) /\ cache \cup Shard \in SUBSET Node /\ Local(links)
      BY <1>0 DEF Pointers, TypeOK, Node
    <3>2. s \in cache \cup Shard /\ k \in cache \cup Shard
      BY <1>1, <1>2
    <3> QED BY <1>0, <1>1, <1>2, <3>1, <3>2, FrontLocal
  <2>2. Sound(r) /\ r \in Shard /\ cache' \subseteq Key
    BY <1>0, <1>1, <1>8 DEF AllSound, TypeOK
  <2>3. \A j \in Key : ShardOf[j] # s => value'[j] = value[j]
    BY <1>4
  <2>4. nBytes'[r] = nBytes[r]
    BY <1>6, <2>2, <1>8
  <2> QED BY <1>0, <1>1, <1>2, <1>3, <1>8, <2>1, <2>2, <2>3, <2>4, SoundBeyond
<1>9. ASSUME s \notin raced
      PROVE  Sound(s)' /\ links'.next[s] = k
  <2>1. /\ Whole(links, NodesOf(s), s) /\ nBytes[s] = Weight(Held(s), value)
    <3>1. \A q \in Proc : pc[q] = "move" => ShardOf[arg[q]] # s
      BY <1>1, <1>3 DEF Reading
    <3> QED BY <1>2, <1>9, <3>1, Settled
  <2>2. NodesOf(s) \in SUBSET Node /\ s \in NodesOf(s) /\ k \in NodesOf(s) /\ k # s
        /\ k \in Held(s) /\ IsFiniteSet(Held(s))
    BY <1>1, <1>2, Entries, Nodes DEF NodesOf
  <2>3. Whole(links', NodesOf(s), s) /\ links'.next[s] = k
    <3> DEFINE S == NodesOf(s)
               m == MoveToFront(links, k, s)
    <3>1. /\ links \in Links /\ S \in SUBSET Node /\ s \in S /\ k \in S /\ k # s
          /\ Whole(links, S, s)
      BY <1>0, <2>1, <2>2
    <3>2. links' = m
      BY <1>1
    <3> HIDE DEF S, s
    <3>3. Whole(m, S, s) /\ m.next[s] = k
      BY <3>1, FrontWhole
    <3> HIDE DEF m
    <3>4. Whole(links', S, s) /\ links'.next[s] = k
      BY <3>2, <3>3
    <3> QED BY <3>4 DEF S
  <2>4. Held(s)' = Held(s) /\ NodesOf(s)' = NodesOf(s)
    BY <1>1 DEF Held, NodesOf
  <2>5. nBytes'[s] = Weight(Held(s), value')
    <3>1. \A j \in Held(s) : /\ j \in Key /\ Size(j, value[j]) \in Nat
                             /\ Size(j, value'[j]) \in Nat
      BY <1>2, <1>4, <1>5, Entries, SizeType
    <3>2. Weight(Held(s), value) = Size(k, value[k]) + Weight(Held(s) \ {k}, value)
      BY <2>2, <3>1, WeightPart
    <3>3. Weight(Held(s), value') = Size(k, v) + Weight(Held(s) \ {k}, value')
      BY <1>5, <2>2, <3>1, WeightPart
    <3>4. Weight(Held(s) \ {k}, value') = Weight(Held(s) \ {k}, value)
      BY <1>4, <3>1, WeightSame
    <3>5. Weight(Held(s) \ {k}, value) \in Nat
      <4>1. IsFiniteSet(Held(s) \ {k})
        BY <2>2, FS_Subset
      <4> QED BY <3>1, <4>1, WeightType
    <3>6. KeyLen[k] \in Int /\ ValLen[v] \in Int /\ ValLen[value[k]] \in Int
      <4>1. value[k] \in Value
        BY <1>0, <1>1, Nodes DEF Pointers, Valued
      <4> QED BY <4>1, FastLRUAssumption
    <3>7. Size(k, value[k]) = KeyLen[k] + ValLen[value[k]] /\ Size(k, v) = KeyLen[k] + ValLen[v]
      BY DEF Size
    <3> DEFINE w == Weight(Held(s) \ {k}, value)
               old == Weight(Held(s), value)
               new == Weight(Held(s), value')
               a == ValLen[value[k]]
    <3>8. /\ old = KeyLen[k] + a + w /\ new = KeyLen[k] + ValLen[v] + w
          /\ nBytes'[s] = old + ValLen[v] - a
          /\ w \in Int /\ a \in Int
      BY <1>7, <2>1, <3>2, <3>3, <3>4, <3>5, <3>6, <3>7
    <3> HIDE DEF w, old, new, a
    <3>9. nBytes'[s] = new
      BY <3>6, <3>8
    <3> QED BY <3>9 DEF new
  <2>6. Whole(links', NodesOf(s)', s) /\ nBytes'[s] = Weight(Held(s)', value')
    BY <2>3, <2>4, <2>5
  <2>7. Sound(s)'
    BY <1>0, <1>2, <1>3, <2>6, WrittenSound
  <2> QED BY <2>3, <2>7
<1> QED BY <1>1, <1>8, <1>9 DEF AllSound

LEMMA InsertSound ==
    ASSUME Base, AllSound, NEW p \in Proc, NEW k \in Key, NEW v \in Value,
           AddInsert(p, k, v)
    PROVE  AllSound' /\ (ShardOf[k] \notin raced => links'.next[ShardOf[k]] = k)
<1> DEFINE s == ShardOf[k]
<1>0. TypeOK /\ Calls /\ Pointers /\ Elsewhere(p) /\ links \in Links
  BY InsertBase DEF Base, TypeOK, Links
<1>1. /\ pc[p] = "idle" /\ Free(s) /\ k \notin cache
      /\ links' = PushFront(links, k, s)
      /\ cache' = cache \cup {k}
      /\ nBytes' = [nBytes EXCEPT ![s] = nBytes[s] + Size(k, v)]
      /\ value' = [value EXCEPT ![k] = v]
      /\ Begin(p, "evict", k)
      /\ UNCHANGED <<turn, raced>>
  BY DEF AddInsert
<1>2. s \in Shard /\ s \in Node /\ k \in Node /\ Home(s) = s /\ Home(k) = s
  BY Nodes, FastLRUAssumption
<1>3. /\ pc'[p] = "evict" /\ arg'[p] = k
      /\ \A q \in Proc \ {p} : pc[q] \in Reading \cup Writing => ShardOf[arg[q]] # s
  BY <1>1, AddBegins
<1>4. \A j \in Key : j # k => value'[j] = value[j]
  BY <1>0, <1>1 DEF TypeOK
<1>5. value'[k] = v
  BY <1>0, <1>1 DEF TypeOK
<1>6. \A r \in Shard : r # s => nBytes'[r] = nBytes[r]
  BY <1>0, <1>1 DEF TypeOK
<1>7. nBytes'[s] = nBytes[s] + Size(k, v) /\ nBytes[s] \in Int
  BY <1>0, <1>1, <1>2 DEF TypeOK
<1>8. ASSUME NEW r \in Shard \ raced, r # s
      PROVE  Sound(r)'
  <2>1. Beyond(links, links', s)
    <3>1. Tied(links, cache \cup Shard) /\ cache \cup Shard \in SUBSET Node /\ Local(links)
      BY <1>0 DEF Pointers, TypeOK, Node
    <3>2. s \in cache \cup Shard
      BY <1>2
    <3> QED BY <1>0, <1>1, <1>2, <3>1, <3>2, PushLocal
  <2>2. Sound(r) /\ r \in Shard /\ cache' \subseteq Key
    BY <1>0, <1>1, <1>8 DEF AllSound, TypeOK
  <2>3. \A j \in Key : ShardOf[j] # s => value'[j] = value[j] /\ (j \in cache' <=> j \in cache)
    BY <1>1, <1>4
  <2>4. nBytes'[r] = nBytes[r]
    BY <1>6, <2>2, <1>8
  <2> QED BY <1>0, <1>1, <1>2, <1>3, <1>8, <2>1, <2>2, <2>3, <2>4, SoundBeyond
<1>9. ASSUME s \notin raced
      PROVE  Sound(s)' /\ links'.next[s] = k
  <2>1. /\ Whole(links, NodesOf(s), s) /\ nBytes[s] = Weight(Held(s), value)
    <3>1. \A q \in Proc : pc[q] = "move" => ShardOf[arg[q]] # s
      BY <1>1, <1>3 DEF Reading
    <3> QED BY <1>2, <1>9, <3>1, Settled
  <2>2. /\ NodesOf(s) \in SUBSET Node /\ s \in NodesOf(s) /\ k # s
        /\ k \notin Held(s) /\ IsFiniteSet(Held(s)) /\ k \notin NodesOf(s)
    BY <1>1, <1>2, Entries, Nodes DEF NodesOf
  <2>3. Held(s)' = Held(s) \cup {k} /\ NodesOf(s)' = NodesOf(s) \cup {k}
    <3>1. k \in KeysOf(s)
      BY DEF KeysOf
    <3> QED BY <1>1, <3>1 DEF Held, NodesOf
  <2>4. Whole(links', NodesOf(s) \cup {k}, s) /\ links'.next[s] = k
    <3> DEFINE S == NodesOf(s) \cup {k}
    <3>1. S \in SUBSET Node /\ s \in S /\ k \in S /\ S \ {k} = NodesOf(s)
      BY <1>2, <2>2
    <3> HIDE DEF S
    <3>2. Whole(links, S \ {k}, s)
      BY <2>1, <3>1
    <3>3. Whole(links', S, s) /\ links'.next[s] = k
      BY <1>0, <1>1, <2>2, <3>1, <3>2, PushWhole
    <3> QED BY <3>3 DEF S
  <2>5. nBytes'[s] = Weight(Held(s) \cup {k}, value')
    <3> DEFINE c == Held(s) \cup {k}
    <3>1. \A j \in c : j \in Key /\ Size(j, value'[j]) \in Int
      BY <1>2, <1>4, <1>5, Entries, SizeType
    <3>2. IsFiniteSet(c) /\ k \in c /\ c \ {k} = Held(s)
      BY <2>2, FS_AddElement
    <3> HIDE DEF c
    <3>3. Weight(c, value') = Size(k, v) + Weight(c \ {k}, value')
      BY <1>5, <3>1, <3>2, WeightPart
    <3>4. \A j \in Held(s) : value'[j] = value[j]
      <4>1. \A j \in Held(s) : j \in Key /\ j # k
        BY <1>2, <2>2, Entries
      <4> QED BY <1>4, <4>1
    <3>5. Weight(Held(s), value') = Weight(Held(s), value)
      BY <3>4, WeightSame
    <3>6. Size(k, v) \in Int
      BY SizeType
    <3> DEFINE old == Weight(Held(s), value)
               new == Weight(c, value')
               z == Size(k, v)
    <3>8. old \in Int /\ z \in Int /\ new = z + old /\ nBytes'[s] = old + z
      BY <1>7, <2>1, <3>2, <3>3, <3>5, <3>6
    <3> HIDE DEF old, new, z
    <3>9. nBytes'[s] = new
      BY <3>8
    <3>7. nBytes'[s] = Weight(c, value')
      BY <3>9 DEF new
    <3> QED BY <3>7 DEF c
  <2>6. Whole(links', NodesOf(s)', s) /\ nBytes'[s] = Weight(Held(s)', value')
    BY <2>3, <2>4, <2>5
  <2>7. Sound(s)'
    BY <1>0, <1>2, <1>3, <2>6, WrittenSound
  <2> QED BY <2>4, <2>7
<1> QED BY <1>1, <1>8, <1>9 DEF AllSound

\* A turn of the loop of Add: the entry at the end goes, in a shard that is sound.
LEMMA EvictWhole ==
    ASSUME Base, AllSound, NEW p \in Proc, EvictTurn(p), NEW s \in Shard \ raced,
           s = ShardOf[arg[p]]
    PROVE  \E e \in Held(s) :
              /\ links' = Cut(links, e)
              /\ cache' = cache \ {e}
              /\ nBytes' = [nBytes EXCEPT ![s] = nBytes[s] - Size(e, value[e])]
              /\ UNCHANGED <<value, pc, arg>>
              /\ Whole(links', NodesOf(s) \ {e}, s)
              /\ links.next[s] # e => links'.next[s] = links.next[s]
              /\ links.next[s] = e => Held(s) = {e}
              /\ nBytes[s] = Weight(Held(s), value)
<1> DEFINE S == NodesOf(s)
           e == Back(s)
<1>0. TypeOK /\ Calls /\ Pointers /\ Elsewhere(p) /\ links \in Links
  BY EvictBase DEF Base, TypeOK, Links
<1>1. /\ pc[p] = "evict" /\ e # Nil
      /\ e # s => /\ links' = IF e \in cache THEN Cut(links, e) ELSE links
                  /\ cache' = cache \ {e}
                  /\ nBytes' = [nBytes EXCEPT ![s] = nBytes[s] - Size(e, value[e])]
                  /\ UNCHANGED <<value, pc, arg>>
  BY DEF EvictTurn
<1>2. s \in Shard /\ Held(s) # {} /\ e = links.prev[s]
  BY <1>1, EndOfList
<1>3. Whole(links, S, s) /\ nBytes[s] = Weight(Held(s), value)
  <2>1. \A q \in Proc : pc[q] = "move" => ShardOf[arg[q]] # s
    BY <1>0, <1>1 DEF Calls, Reading, Writing
  <2> QED BY <2>1, Settled
<1>4. /\ S \in SUBSET Node /\ s \in S /\ s \notin Held(s)
      /\ \A x \in S : x # s => x \in Held(s)
      /\ \A x \in Held(s) : x \in S /\ x \in cache /\ x # s
  BY <1>2, Entries DEF NodesOf
<1> HIDE DEF S, e
<1>5. /\ e \in S /\ links.next[e] = s
      /\ \A T \in SUBSET S : s \in T /\ (\A x \in T : links.next[x] \in T) => T = S
  BY <1>2, <1>3, <1>4 DEF Whole, Loops
<1>6. e # s
  <2>1. SUFFICES ASSUME e = s PROVE FALSE
    OBVIOUS
  <2> DEFINE T == {s}
  <2>2. T \in SUBSET S /\ s \in T /\ \A x \in T : links.next[x] \in T
    BY <1>4, <1>5, <2>1
  <2>3. T = S
    <3> HIDE DEF T
    <3> QED BY <1>5, <2>2
  <2> QED BY <1>2, <1>4, <2>3
<1>7. e \in Held(s) /\ e \in cache /\ e # Nil
  BY <1>1, <1>4, <1>5, <1>6
<1>8. /\ links' = Cut(links, e) /\ cache' = cache \ {e}
      /\ nBytes' = [nBytes EXCEPT ![s] = nBytes[s] - Size(e, value[e])]
      /\ UNCHANGED <<value, pc, arg>>
  BY <1>1, <1>6, <1>7
<1>9. /\ Whole(links', S \ {e}, s)
      /\ links.next[s] # e => links'.next[s] = links.next[s]
  <2>1. \A x \in Node : x # e => /\ links'.next[x] = Unlink(links, e).next[x]
                                 /\ links'.prev[x] = Unlink(links, e).prev[x]
    <3>1. Tied(links, cache \cup Shard) /\ cache \cup Shard \in SUBSET Node /\ Local(links)
      BY <1>0 DEF Pointers, TypeOK, Node
    <3>2. e \in cache \cup Shard /\ e \in Node /\ Home(e) = s
      <4>1. e \in Key /\ ShardOf[e] = s
        BY <1>2, <1>7, Entries
      <4> QED BY <1>7, <4>1, Nodes
    <3> DEFINE D == cache \cup Shard
               m == Cut(links, e)
    <3>3. D \in SUBSET Node /\ Tied(links, D) /\ e \in D /\ e \in Node /\ Home(e) = s
          /\ links \in Links /\ Local(links) /\ s \in Shard
      BY <1>0, <1>2, <3>1, <3>2
    <3> HIDE DEF D
    <3>4. \A x \in Node : x # e => /\ m.next[x] = Unlink(links, e).next[x]
                                   /\ m.prev[x] = Unlink(links, e).prev[x]
      BY <3>3, CutLocal
    <3>5. links' = m
      BY <1>8
    <3> HIDE DEF m
    <3> QED BY <3>4, <3>5
  <2>2. S \in SUBSET Node /\ s \in S /\ e \in S /\ e # s /\ links \in Links
        /\ Whole(links, S, s)
    BY <1>0, <1>3, <1>4, <1>5, <1>6
  <2>3. PICK l, m : l = links /\ m = links'
    OBVIOUS
  <2>4. \A x \in Node : x # e => m.next[x] = Unlink(l, e).next[x]
                                /\ m.prev[x] = Unlink(l, e).prev[x]
    BY <2>1, <2>3
  <2>5. l \in Links /\ Whole(l, S, s)
    BY <2>2, <2>3
  <2>6. Whole(m, S \ {e}, s) /\ (l.next[s] # e => m.next[s] = l.next[s])
    <3> DEFINE u == Unlink(l, e)
               H == S \ {e}
    <3>1. Whole(u, H, s) /\ (l.next[s] # e => u.next[s] = l.next[s])
      BY <2>2, <2>5, UnlinkWhole
    <3>2. \A x \in H : m.next[x] = u.next[x] /\ m.prev[x] = u.prev[x]
      BY <2>2, <2>4
    <3>3. s \in H
      BY <2>2
    <3> HIDE DEF u, H
    <3>4. Whole(m, H, s)
      BY <3>1, <3>2, SameWhole
    <3> QED BY <3>1, <3>2, <3>3, <3>4 DEF H
  <2> QED BY <2>3, <2>6
<1>10. links.next[s] = e => Held(s) = {e}
  <2>1. SUFFICES ASSUME links.next[s] = e PROVE Held(s) = {e}
    OBVIOUS
  <2> DEFINE T == {s, e}
  <2>2. T \in SUBSET S /\ s \in T /\ \A x \in T : links.next[x] \in T
    BY <1>4, <1>5, <2>1
  <2>3. T = S
    <3> HIDE DEF T
    <3> QED BY <1>5, <2>2
  <2>4. \A x \in Held(s) : x = e
    BY <1>4, <2>3
  <2> QED BY <1>7, <2>4
<1> QED BY <1>3, <1>7, <1>8, <1>9, <1>10 DEF S

LEMMA EvictSound ==
    ASSUME Base, AllSound, NEW p \in Proc, EvictTurn(p)
    PROVE  AllSound'
<1>a. PICK s : s = ShardOf[arg[p]]
  OBVIOUS
<1>0. TypeOK /\ Calls /\ Pointers /\ Elsewhere(p) /\ links \in Links /\ TypeOK'
  BY EvictBase DEF Base, TypeOK, Links
<1>1. pc[p] = "evict" /\ UNCHANGED <<turn, raced>> /\ Back(s) # Nil
  BY <1>a DEF EvictTurn
<1>2. s \in Shard /\ arg[p] \in Key
  BY <1>0, <1>1, <1>a, FastLRUAssumption DEF Calls, Writing
<1>3. \A q \in Proc \ {p} : pc[q] \in Reading \cup Writing => ShardOf[arg[q]] # s
  BY <1>0, <1>1, <1>a DEF Calls, Writing
<1>4. arg'[p] = arg[p] /\ pc'[p] \in {"evict", "panicked"}
  <2>1. CASE Back(s) = s
    <3>1. Goto(p, "panicked") /\ "panicked" \in Places
      BY <1>a, <2>1 DEF EvictTurn, Places
    <3> QED BY <1>0, <3>1, Goes
  <2>2. CASE Back(s) # s
    BY <1>1, <1>a, <2>2 DEF EvictTurn
  <2> QED BY <2>1, <2>2
<1>5. ASSUME NEW r \in Shard \ raced, r # s
      PROVE  Sound(r)'
  <2>1. CASE Back(s) = s
    <3>1. UNCHANGED <<cache, value, links, nBytes>>
      BY <1>a, <2>1 DEF EvictTurn, lists
    <3>2. Beyond(links, links', s)
      BY <3>1 DEF Beyond
    <3> QED BY <1>0, <1>1, <1>2, <1>4, <1>5, <1>a, <3>1, <3>2, SoundBeyond DEF AllSound, TypeOK
  <2>2. CASE Back(s) # s
    <3> DEFINE e == Back(s)
    <3>1. /\ links' = IF e \in cache THEN Cut(links, e) ELSE links
          /\ cache' = cache \ {e}
          /\ nBytes' = [nBytes EXCEPT ![s] = nBytes[s] - Size(e, value[e])]
          /\ value' = value
      BY <1>a, <2>2 DEF EvictTurn
    <3>2. e \in Key /\ ShardOf[e] = s
      BY <1>1, <1>a, <2>2, EndOfList
    <3> HIDE DEF e
    <3>3. Beyond(links, links', s)
      <4>1. CASE e \in cache
        <5> DEFINE D == cache \cup Shard
        <5>1. D \in SUBSET Node /\ Tied(links, D) /\ e \in D /\ e \in Node /\ Home(e) = s
              /\ links \in Links /\ Local(links)
          BY <1>0, <3>2, <4>1, Nodes DEF Pointers, TypeOK, Node
        <5>2. links' = Cut(links, e)
          BY <3>1, <4>1
        <5> HIDE DEF D
        <5> QED BY <1>2, <5>1, <5>2, CutLocal
      <4>2. CASE e \notin cache
        BY <3>1, <4>2 DEF Beyond
      <4> QED BY <4>1, <4>2
    <3>4. nBytes'[r] = nBytes[r]
      BY <1>0, <1>5, <3>1 DEF TypeOK
    <3>5. \A k \in Key : ShardOf[k] # s => (k \in cache' <=> k \in cache)
      BY <3>1, <3>2
    <3>6. Sound(r) /\ r \in Shard /\ cache' \subseteq Key
      BY <1>0, <1>5 DEF AllSound, TypeOK
    <3> QED BY <1>0, <1>1, <1>2, <1>4, <1>5, <1>a, <3>1, <3>3, <3>4, <3>5, <3>6, SoundBeyond
  <2> QED BY <2>1, <2>2
<1>6. ASSUME s \notin raced
      PROVE  Sound(s)'
  <2>1. PICK e \in Held(s) :
              /\ cache' = cache \ {e}
              /\ nBytes' = [nBytes EXCEPT ![s] = nBytes[s] - Size(e, value[e])]
              /\ UNCHANGED <<value, pc, arg>>
              /\ Whole(links', NodesOf(s) \ {e}, s)
              /\ nBytes[s] = Weight(Held(s), value)
    BY <1>2, <1>6, <1>a, EvictWhole
  <2>2. Held(s)' = Held(s) \ {e} /\ NodesOf(s)' = NodesOf(s) \ {e}
    <3>1. e # s
      BY <1>2, Entries
    <3> QED BY <2>1, <3>1 DEF Held, NodesOf
  <2>3. nBytes'[s] = Weight(Held(s) \ {e}, value)
    <3>1. IsFiniteSet(Held(s)) /\ \A k \in Held(s) : Size(k, value[k]) \in Nat
      BY <1>2, Entries
    <3>2. \A k \in Held(s) : Size(k, value[k]) \in Int
      BY <3>1
    <3>3. Weight(Held(s), value) = Size(e, value[e]) + Weight(Held(s) \ {e}, value)
      BY <3>1, <3>2, WeightPart
    <3>4. Weight(Held(s) \ {e}, value) \in Nat
      <4>1. IsFiniteSet(Held(s) \ {e})
        BY <3>1, FS_Subset
      <4> QED BY <3>1, <4>1, WeightType
    <3>5. nBytes'[s] = nBytes[s] - Size(e, value[e])
      BY <1>0, <1>2, <2>1 DEF TypeOK
    <3> DEFINE w == Weight(Held(s) \ {e}, value)
               z == Size(e, value[e])
    <3>6. w \in Int /\ z \in Int /\ nBytes'[s] = (z + w) - z
      BY <2>1, <3>1, <3>3, <3>4, <3>5
    <3> HIDE DEF w, z
    <3>7. nBytes'[s] = w
      BY <3>6
    <3> QED BY <3>7 DEF w
  <2>4. Whole(links', NodesOf(s)', s) /\ nBytes'[s] = Weight(Held(s)', value')
    BY <2>1, <2>2, <2>3
  <2>5. pc'[p] = "evict"
    BY <1>1, <2>1
  <2> QED BY <1>0, <1>2, <1>3, <2>4, <2>5, WrittenSound
<1> QED BY <1>1, <1>5, <1>6 DEF AllSound

LEMMA ClearSound ==
    ASSUME Base, AllSound, NEW p \in Proc, ClearShard(p)
    PROVE  AllSound'
<1>a. PICK s : s = arg[p]
  OBVIOUS
<1>0. TypeOK /\ Calls /\ Pointers /\ Elsewhere(p) /\ links \in Links /\ TypeOK'
  BY ClearBase DEF Base, TypeOK, Links
<1>1. /\ pc[p] = "clear" /\ Free(s)
      /\ cache' = cache \ KeysOf(s)
      /\ value' = [k \in Key |-> IF k \in KeysOf(s) THEN Missing ELSE value[k]]
      /\ links' = Emptied(links, s)
      /\ nBytes' = [nBytes EXCEPT ![s] = 0]
      /\ raced' = raced \ {s}
      /\ NextShard(p)
  BY <1>a DEF ClearShard
<1>2. s \in Shard
  BY <1>0, <1>1, <1>a DEF Calls
<1>3. pc'[p] \in {"clear", "idle"}
  BY <1>0, <1>1, <1>2, <1>a, NextShards
<1>4. \A q \in Proc : pc[q] \in Reading \cup Writing => ShardOf[arg[q]] # s
  BY <1>0, <1>1, <1>2, Locks DEF Free
<1>5. /\ \A x \in Node : x # s /\ x \notin KeysOf(s) =>
            links'.next[x] = links.next[x] /\ links'.prev[x] = links.prev[x]
      /\ links'.next[s] = s /\ links'.prev[s] = s
  BY <1>1, <1>2, Nodes DEF Emptied
<1>6. ASSUME NEW r \in Shard \ raced', r # s
      PROVE  Sound(r)'
  <2>1. Beyond(links, links', s)
    <3>1. \A x \in Node : Home(x) # s => x # s /\ x \notin KeysOf(s)
      BY <1>2, Nodes DEF KeysOf
    <3> QED BY <1>5, <3>1 DEF Beyond
  <2>2. Sound(r) /\ r \in Shard /\ cache' \subseteq Key
    BY <1>0, <1>1, <1>6 DEF AllSound, TypeOK
  <2>3. \A k \in Key : ShardOf[k] # s => value'[k] = value[k] /\ (k \in cache' <=> k \in cache)
    BY <1>1 DEF KeysOf
  <2>4. nBytes'[r] = nBytes[r]
    BY <1>0, <1>1, <1>6 DEF TypeOK
  <2> QED BY <1>0, <1>1, <1>2, <1>3, <1>6, <2>1, <2>2, <2>3, <2>4, SoundBeyond
<1>7. Sound(s)'
  <2>1. Held(s)' = {} /\ NodesOf(s)' = {s}
    BY <1>1 DEF Held, NodesOf
  <2>2. Whole(links', {s}, s)
    BY <1>5, EmptyWhole
  <2>3. nBytes'[s] = Weight({}, value')
    <3>1. Weight({}, value') = 0
      BY SumEmpty DEF Weight
    <3> QED BY <1>0, <1>1, <1>2, <3>1 DEF TypeOK
  <2>4. Whole(links', NodesOf(s)', s) /\ nBytes'[s] = Weight(Held(s)', value')
    BY <2>1, <2>2, <2>3
  <2> QED BY <1>0, <1>2, <1>3, <1>4, <2>4, WrittenSound
<1> QED BY <1>6, <1>7 DEF AllSound

LEMMA QuietSound ==
    ASSUME Base, AllSound, NEW p \in Proc,
           \/ \E k \in Key : GetStart(p, k)
           \/ Lookup(p) \/ CountHit(p) \/ CountMiss(p)
           \/ AddReturn(p) \/ ClearStart(p) \/ LenStart(p) \/ CountShard(p)
           \/ StatsStart(p) \/ Load(p)
           \/ ResetGets(p) \/ ResetHits(p) \/ ResetMisses(p)
    PROVE  AllSound'
<1>0. Elsewhere(p) /\ UNCHANGED <<limit, cache, value, links, nBytes>> /\ TypeOK /\ Calls
  BY QuietBase DEF Base
<1>1. raced' = raced /\ pc[p] # "move" /\ pc'[p] \notin {"move", "panicked"}
  <2> USE DEF counters, lists
  <2>0. pc \in [Proc -> Places] /\ "idle" \in Places
    BY <1>0 DEF TypeOK, Places
  <2>1. CASE (\E k \in Key : GetStart(p, k)) \/ Lookup(p)
    BY <2>0, <2>1 DEF GetStart, Lookup, Goto, Begin
  <2>2. CASE CountHit(p) \/ CountMiss(p) \/ AddReturn(p)
    BY <2>0, <2>2 DEF CountHit, CountMiss, AddReturn, Goto
  <2>3. CASE ClearStart(p) \/ LenStart(p) \/ StatsStart(p)
    BY <2>0, <2>3 DEF ClearStart, LenStart, StatsStart, Begin
  <2>4. CASE CountShard(p)
    BY <2>0, <2>4 DEF CountShard, NextShard, Goto
  <2>5. CASE Load(p)
    BY <2>0, <2>5 DEF Load, Begin
  <2>6. CASE ResetGets(p) \/ ResetHits(p) \/ ResetMisses(p)
    BY <2>0, <2>6 DEF ResetGets, ResetHits, ResetMisses, Goto
  <2> HIDE DEF counters, lists
  <2> QED BY <2>1, <2>2, <2>3, <2>4, <2>5, <2>6
<1>2. ASSUME NEW s \in Shard \ raced
      PROVE  Sound(s)'
  <2>1. Sound(s) /\ s \in Shard
    BY <1>2 DEF AllSound
  <2>2. p \notin Movers(s) /\ p \notin Movers(s)'
    BY <1>0, <1>1, MoversOf
  <2>3. Held(s)' = Held(s)
    BY <1>0 DEF Held
  <2> QED BY <1>0, <1>1, <2>1, <2>2, <2>3, SoundKept
<1> QED BY <1>1, <1>2 DEF AllSound

LEMMA StepSound ==
    ASSUME Base, AllSound, NEW p \in Proc, By(p)
    PROVE  AllSound'
<1>1. CASE \E k \in Key, v \in Value : AddUpdate(p, k, v) \/ AddInsert(p, k, v)
  BY <1>1, UpdateSound, InsertSound
<1>2. CASE Move(p) \/ CheckFront(p)
  BY <1>2, MoveSound, CheckFrontSound
<1>3. CASE EvictTurn(p) \/ ClearShard(p)
  BY <1>3, EvictSound, ClearSound
<1>4. CASE \/ \E k \in Key : GetStart(p, k)
           \/ Lookup(p) \/ CountHit(p) \/ CountMiss(p)
           \/ AddReturn(p) \/ ClearStart(p) \/ LenStart(p) \/ CountShard(p)
           \/ StatsStart(p) \/ Load(p)
           \/ ResetGets(p) \/ ResetHits(p) \/ ResetMisses(p)
  BY <1>4, QuietSound
<1> QED BY <1>1, <1>2, <1>3, <1>4 DEF By, Step

LEMMA InitSound ==
    ASSUME Init
    PROVE  AllSound
<1>1. ASSUME NEW s \in Shard
      PROVE  Sound(s)
  <2>1. Held(s) = {} /\ NodesOf(s) = {s} /\ Movers(s) = {}
    BY DEF Init, Held, NodesOf, Movers, Readers, In
  <2>2. links.next[s] = s /\ links.prev[s] = s
    BY Nodes DEF Init
  <2>3. nBytes[s] = Weight({}, value)
    BY SumEmpty DEF Init, Weight
  <2> QED BY <2>1, <2>2, <2>3, EmptyWhole DEF Init, Sound, ListOf
<1> QED BY <1>1 DEF AllSound

\* The shards where no two moves have overlapped stay whole, step by step.
THEOREM SoundHolds == Spec => [](Base /\ AllSound)
<1>1. Base /\ AllSound /\ [Next]_vars => AllSound'
  <2>1. ASSUME Base, AllSound, Next PROVE AllSound'
    <3>1. PICK p \in Proc : By(p)
      BY <2>1 DEF Next, By
    <3> QED BY <2>1, <3>1, StepSound
  <2>2. ASSUME AllSound, UNCHANGED vars PROVE AllSound'
    BY <2>2 DEF vars, lists, AllSound, Sound, ListOf, NodesOf, Held, Movers, Readers, In
  <2> QED BY <2>1, <2>2
<1> QED BY <1>1, InitSound, BaseHolds, PTL DEF Spec

-----------------------------------------------------------------------------
(* The limit, and the entry an Add brings.                                 *)

\* No shard that no Add is at work on is over its share of the limit.
Restrained ==
    \A s \in Shard : Writers(s) = {} /\ MaxBytes > 0 => nBytes[s] <= MaxBytes

LEMMA ShareOut ==
    ASSUME NEW a \in Int, NEW n \in Nat \ {0}
    PROVE  /\ a \div n \in Int /\ -((-a) \div n) \in Int
           /\ a >= n => a >= 0 /\ a \div n >= 1 /\ n * (a \div n) <= a
<1>1. a \div n \in Int /\ -a \in Int
  OBVIOUS
<1>2. a >= n => a >= 0 /\ a \div n >= 1
  OBVIOUS
<1>3. a >= n => n * (a \div n) <= a
  OBVIOUS
<1> QED BY <1>1, <1>2, <1>3

LEMMA TimesMonotone ==
    ASSUME NEW a \in Nat, NEW b \in Nat, NEW c \in Nat, a <= b
    PROVE  a * c <= b * c
OBVIOUS

LEMMA ShareType ==
    ASSUME TypeOK
    PROVE  /\ MaxBytes \in Int
           /\ limit >= ShardCount => MaxBytes > 0 /\ ShardCount * MaxBytes <= limit
<1>1. limit \in Int /\ ShardCount \in Nat \ {0}
  BY FastLRUAssumption DEF TypeOK
<1>4. MaxBytes = IF limit >= 0 THEN limit \div ShardCount
                               ELSE -((-limit) \div ShardCount)
  BY DEF MaxBytes, Quotient
<1>5. MaxBytes \in Int
  BY <1>1, <1>4, ShareOut
<1>6. limit >= ShardCount => MaxBytes >= 1 /\ ShardCount * MaxBytes <= limit
  BY <1>1, <1>4, ShareOut
<1> QED BY <1>5, <1>6

LEMMA RestrainedKept ==
    ASSUME Base, Restrained, NEW p \in Proc, Elsewhere(p), UNCHANGED limit,
           \A s \in Shard : \/ nBytes'[s] = nBytes[s] /\ p \notin Writers(s)
                            \/ p \in Writers(s)'
                            \/ nBytes'[s] = 0
                            \/ nBytes'[s] = nBytes[s] /\ ~ OverLimit(s)
    PROVE  Restrained'
<1>1. MaxBytes' = MaxBytes /\ MaxBytes \in Int
  BY ShareType DEF MaxBytes, Base
<1>2. ASSUME NEW s \in Shard, Writers(s)' = {}, MaxBytes > 0
      PROVE  nBytes'[s] <= MaxBytes
  <2>1. nBytes[s] \in Int
    BY DEF Base, TypeOK
  <2>2. CASE nBytes'[s] = nBytes[s] /\ p \notin Writers(s)
    <3>1. \A q \in Proc \ {p} : q \in Writers(s)' <=> q \in Writers(s)
      BY DEF Writers, In, Elsewhere
    <3>2. Writers(s) = {}
      BY <1>2, <2>2, <3>1 DEF Writers
    <3>3. nBytes[s] <= MaxBytes
      BY <1>2, <3>2 DEF Restrained
    <3> QED BY <2>2, <3>3
  <2>3. CASE nBytes'[s] = 0
    BY <1>1, <1>2, <2>3
  <2>4. CASE nBytes'[s] = nBytes[s] /\ ~ OverLimit(s)
    BY <1>1, <1>2, <2>1, <2>4 DEF OverLimit
  <2>5. ~ (p \in Writers(s)')
    BY <1>2
  <2> QED BY <2>2, <2>3, <2>4, <2>5
<1> QED BY <1>1, <1>2 DEF Restrained

LEMMA StepRestrained ==
    ASSUME Base, Restrained, NEW p \in Proc, By(p)
    PROVE  Restrained'
<1>0. TypeOK /\ Calls /\ Elsewhere(p) /\ TypeOK'
  BY StepBase DEF Base
<1>1. CASE \E k \in Key, v \in Value : AddUpdate(p, k, v) \/ AddInsert(p, k, v)
  <2>1. PICK k \in Key, v \in Value : AddUpdate(p, k, v) \/ AddInsert(p, k, v)
    BY <1>1
  <2>2. /\ pc[p] = "idle" /\ Free(ShardOf[k]) /\ Begin(p, "evict", k) /\ UNCHANGED <<limit, turn>>
        /\ \A s \in Shard : s # ShardOf[k] => nBytes'[s] = nBytes[s]
    <3>1. CASE AddUpdate(p, k, v)
      BY <1>0, <3>1 DEF AddUpdate, TypeOK
    <3>2. CASE AddInsert(p, k, v)
      BY <1>0, <3>2 DEF AddInsert, TypeOK
    <3> QED BY <2>1, <3>1, <3>2
  <2>3. pc'[p] = "evict" /\ arg'[p] = k
    BY <2>2, AddBegins
  <2>4. p \in Writers(ShardOf[k])' /\ \A s \in Shard : p \notin Writers(s)
    BY <2>2, <2>3 DEF Writers, In
  <2> QED BY <1>0, <2>2, <2>4, RestrainedKept
<1>2. CASE EvictTurn(p)
  <2>a. PICK s : s = ShardOf[arg[p]]
    OBVIOUS
  <2>1. arg[p] \in Key /\ pc[p] = "evict" /\ limit' = limit
    BY <1>0, <1>2 DEF EvictTurn, Calls, Writing
  <2>2. /\ \A r \in Shard : r # s => nBytes'[r] = nBytes[r]
        /\ arg'[p] = arg[p] /\ pc'[p] \in {"evict", "panicked"}
    <3>1. CASE Back(s) = s
      <4>1. Goto(p, "panicked") /\ "panicked" \in Places /\ nBytes' = nBytes
        BY <1>2, <2>a, <3>1 DEF EvictTurn, Places, lists
      <4> QED BY <1>0, <4>1, Goes
    <3>2. CASE Back(s) # s
      BY <1>0, <1>2, <2>a, <2>1, <3>2 DEF EvictTurn, TypeOK
    <3> QED BY <3>1, <3>2
  <2>3. p \in Writers(s)' /\ \A r \in Shard : r # s => p \notin Writers(r)
    BY <2>a, <2>1, <2>2 DEF Writers, In
  <2> QED BY <1>0, <2>1, <2>2, <2>3, RestrainedKept
<1>3. CASE ClearShard(p)
  <2>1. /\ pc[p] = "clear" /\ limit' = limit /\ arg[p] \in Shard
        /\ nBytes' = [nBytes EXCEPT ![arg[p]] = 0]
    BY <1>0, <1>3 DEF ClearShard, Calls
  <2>2. \A s \in Shard : nBytes'[s] = nBytes[s] \/ nBytes'[s] = 0
    BY <1>0, <2>1 DEF TypeOK
  <2>3. \A s \in Shard : p \notin Writers(s)
    BY <2>1 DEF Writers
  <2> QED BY <1>0, <2>1, <2>2, <2>3, RestrainedKept
<1>4. CASE AddReturn(p)
  <2>1. /\ pc[p] = "evict" /\ limit' = limit /\ nBytes' = nBytes
        /\ ~ OverLimit(ShardOf[arg[p]])
    BY <1>4 DEF AddReturn, lists
  <2>2. \A s \in Shard : s # ShardOf[arg[p]] => p \notin Writers(s)
    BY DEF Writers, In
  <2> QED BY <1>0, <2>1, <2>2, RestrainedKept
<1>5. CASE Move(p)
  <2>1. pc[p] = "move" /\ limit' = limit /\ nBytes' = nBytes
    BY <1>5 DEF Move
  <2>2. \A s \in Shard : p \notin Writers(s)
    BY <2>1 DEF Writers
  <2> QED BY <1>0, <2>1, <2>2, RestrainedKept
<1>6. CASE \/ \E k \in Key : GetStart(p, k)
           \/ Lookup(p) \/ CheckFront(p) \/ CountHit(p) \/ CountMiss(p)
           \/ ClearStart(p) \/ LenStart(p) \/ CountShard(p)
           \/ StatsStart(p) \/ Load(p)
           \/ ResetGets(p) \/ ResetHits(p) \/ ResetMisses(p)
  <2>1. limit' = limit /\ nBytes' = nBytes
    BY <1>6, QuietBase
  <2>2. pc[p] \notin {"evict", "panicked"}
    BY <1>6 DEF GetStart, Lookup, CheckFront, CountHit, CountMiss, ClearStart, LenStart,
                CountShard, StatsStart, Load, ResetGets, ResetHits, ResetMisses
  <2>3. \A s \in Shard : p \notin Writers(s)
    BY <2>2 DEF Writers
  <2> QED BY <1>0, <2>1, <2>3, RestrainedKept
<1> QED BY <1>1, <1>2, <1>3, <1>4, <1>5, <1>6 DEF By, Step

THEOREM RestrainedHolds == Spec => []Restrained
<1>1. Init => Restrained
  <2>1. ASSUME Init PROVE Restrained
    <3>1. MaxBytes \in Int
      BY <2>1, InitBase, ShareType DEF Base
    <3>2. \A s \in Shard : nBytes[s] = 0
      BY <2>1 DEF Init
    <3> QED BY <3>1, <3>2 DEF Restrained
  <2> QED BY <2>1
<1>2. Base /\ Restrained /\ [Next]_vars => Restrained'
  <2>1. ASSUME Base, Restrained, Next PROVE Restrained'
    <3>1. PICK p \in Proc : By(p)
      BY <2>1 DEF Next, By
    <3> QED BY <2>1, <3>1, StepRestrained
  <2>2. ASSUME Restrained, UNCHANGED vars PROVE Restrained'
    BY <2>2 DEF vars, lists, Restrained, Writers, In, MaxBytes
  <2> QED BY <2>1, <2>2
<1> QED BY <1>1, <1>2, BaseHolds, PTL DEF Spec

\* However calls interleave, a shard's list, map and byte count agree until two
\* Gets race in it, and the shards together keep the limit of NewFastLRU.
THEOREM WholeUntilRaced == Spec => []ShardsIntact
<1>1. ASSUME Base, AllSound
      PROVE  ListsIntact
  <2>1. ASSUME NEW s \in Shard \ raced
        PROVE  /\ Movers(s) = {} => Intact(s)
               /\ nBytes[s] = SumFunctionOnSet([k \in Held(s) |-> Size(k, value[k])], Held(s))
               /\ \A p \in Writers(s) : pc[p] # "panicked"
    <3>1. Sound(s) /\ IsFiniteSet(cache)
      BY <1>1, <2>1 DEF AllSound, Base, Pointers
    <3>2. ASSUME Movers(s) = {} PROVE Intact(s)
      <4>1. Whole(links, NodesOf(s), s)
        BY <3>1, <3>2 DEF Sound, ListOf
      <4> QED BY <3>1, <4>1, WholeIntact DEF NodesOf
    <3>3. nBytes[s] = SumFunctionOnSet([k \in Held(s) |-> Size(k, value[k])], Held(s))
      BY <3>1 DEF Sound, Weight
    <3>4. \A p \in Writers(s) : pc[p] # "panicked"
      BY <3>1 DEF Sound, Writers, In
    <3> QED BY <3>2, <3>3, <3>4
  <2> QED BY <2>1 DEF ListsIntact
<1>2. ASSUME Base, Restrained
      PROVE  LimitKept
  <2> SUFFICES ASSUME limit >= ShardCount
               PROVE  SumFunctionOnSet(nBytes, {s \in Shard : Writers(s) = {}}) <= limit
    BY DEF LimitKept
  <2> DEFINE S == {s \in Shard : Writers(s) = {}}
             M == MaxBytes
             n == Cardinality(S)
  <2>1. M \in Int /\ M > 0 /\ ShardCount * M <= limit /\ ShardCount \in Nat \ {0}
    BY <1>2, ShareType, FastLRUAssumption DEF Base
  <2>2. IsFiniteSet(Shard) /\ Cardinality(Shard) = ShardCount
    <3>1. 0 \in Int /\ ShardCount - 1 \in Int /\ ~ (0 > ShardCount - 1)
          /\ (ShardCount - 1) - 0 + 1 = ShardCount
      BY <2>1
    <3> QED BY <3>1, FS_Interval DEF Shard
  <2>3. IsFiniteSet(S) /\ n \in Nat /\ n <= ShardCount
    BY <2>2, FS_Subset, FS_CardinalityType
  <2>4. \A s \in S : nBytes[s] \in Int /\ nBytes[s] <= M
    BY <1>2, <2>1 DEF Base, TypeOK, Restrained
  <2> HIDE DEF S, M
  <2>5. SumFunctionOnSet(nBytes, S) <= n * M
    BY <2>1, <2>3, <2>4, SumBound
  <2>6. SumFunctionOnSet(nBytes, S) \in Int
    BY <2>3, <2>4, SumType
  <2> HIDE DEF n
  <2>7. M \in Nat /\ ShardCount \in Nat
    BY <2>1
  <2>8. n * M <= ShardCount * M
    BY <2>3, <2>7, TimesMonotone
  <2>9. limit \in Int /\ n * M \in Int /\ ShardCount * M \in Int
    BY <1>2, <2>1, <2>3, FastLRUAssumption DEF Base, TypeOK
  <2>10. SumFunctionOnSet(nBytes, S) <= limit
    BY <2>1, <2>5, <2>6, <2>8, <2>9
  <2> QED BY <2>10 DEF S
<1> QED BY <1>1, <1>2, BaseHolds, SoundHolds, RestrainedHolds, PTL DEF ShardsIntact, Base

\* What an Add in the loop knows of the entry it brought: it is at the front, or
\* it was by itself too large.
NewestOf(p) ==
    LET k == arg[p]
        s == ShardOf[k]
    IN
    pc[p] = "evict" /\ s \notin raced =>
        IF k \in cache THEN links.next[s] = k
        ELSE MaxBytes # 0 /\ ~ (Size(k, value[k]) <= MaxBytes)

Newest == \A p \in Proc : NewestOf(p)

LEMMA NewestOther ==
    ASSUME Newest, NEW p \in Proc, Elsewhere(p), NEW q \in Proc \ {p}, UNCHANGED limit,
           pc[q] = "evict" => /\ ShardOf[arg[q]] \notin raced' => ShardOf[arg[q]] \notin raced
                              /\ arg[q] \in cache' <=> arg[q] \in cache
                              /\ links'.next[ShardOf[arg[q]]] = links.next[ShardOf[arg[q]]]
                              /\ value'[arg[q]] = value[arg[q]]
    PROVE  NewestOf(q)'
<1>1. pc'[q] = pc[q] /\ arg'[q] = arg[q] /\ MaxBytes' = MaxBytes
  BY DEF Elsewhere, MaxBytes
<1>2. NewestOf(q)
  BY DEF Newest
<1> QED BY <1>1, <1>2 DEF NewestOf

\* A step that writes only in shard s.
LEMMA NewestBeyond ==
    ASSUME Base, Newest, NEW p \in Proc, Elsewhere(p), UNCHANGED limit, NEW s \in Shard,
           \A q \in Proc \ {p} : pc[q] \in Writing => ShardOf[arg[q]] # s,
           \A k \in Key : ShardOf[k] # s => (k \in cache' <=> k \in cache),
           Beyond(links, links', s),
           \A k \in Key : ShardOf[k] # s => value'[k] = value[k],
           raced \subseteq raced' \cup {s}
    PROVE  \A q \in Proc \ {p} : NewestOf(q)'
<1>1. ASSUME NEW q \in Proc \ {p}, pc[q] = "evict"
      PROVE  /\ ShardOf[arg[q]] \notin raced' => ShardOf[arg[q]] \notin raced
             /\ arg[q] \in cache' <=> arg[q] \in cache
             /\ links'.next[ShardOf[arg[q]]] = links.next[ShardOf[arg[q]]]
             /\ value'[arg[q]] = value[arg[q]]
  <2>1. arg[q] \in Key /\ ShardOf[arg[q]] # s /\ ShardOf[arg[q]] \in Shard
    BY <1>1, FastLRUAssumption DEF Base, Calls, Writing
  <2>2. links'.next[ShardOf[arg[q]]] = links.next[ShardOf[arg[q]]]
    BY <2>1, Nodes DEF Beyond
  <2> QED BY <2>1, <2>2
<1> QED BY <1>1, NewestOther

LEMMA AddNewest ==
    ASSUME Base, AllSound, Newest, NEW p \in Proc, NEW k \in Key, NEW v \in Value,
           AddUpdate(p, k, v) \/ AddInsert(p, k, v)
    PROVE  Newest'
<1> DEFINE s == ShardOf[k]
<1>0. TypeOK /\ Calls /\ Pointers /\ Elsewhere(p) /\ links \in Links /\ s \in Shard
  BY UpdateBase, InsertBase, FastLRUAssumption DEF Base, TypeOK, Links
<1>1. /\ pc[p] = "idle" /\ Free(s) /\ Begin(p, "evict", k)
      /\ value' = [value EXCEPT ![k] = v]
      /\ k \in cache' /\ \A j \in Key : j # k => (j \in cache' <=> j \in cache)
      /\ UNCHANGED <<limit, turn, raced>>
  BY DEF AddUpdate, AddInsert
<1>2. /\ pc'[p] = "evict" /\ arg'[p] = k
      /\ \A q \in Proc \ {p} : pc[q] \in Reading \cup Writing => ShardOf[arg[q]] # s
  BY <1>1, AddBegins
<1>3. s \notin raced => links'.next[s] = k
  BY UpdateSound, InsertSound
<1>4. Beyond(links, links', s)
  <2> DEFINE D == cache \cup Shard
  <2>1. D \in SUBSET Node /\ Tied(links, D) /\ s \in D /\ k \in Node /\ Home(k) = s
        /\ Local(links)
    BY <1>0, Nodes DEF Pointers, TypeOK, Node
  <2>2. CASE AddUpdate(p, k, v)
    <3>1. k \in D /\ links' = MoveToFront(links, k, s)
      BY <2>2 DEF AddUpdate
    <3> HIDE DEF D
    <3> QED BY <1>0, <2>1, <3>1, FrontLocal
  <2>3. CASE AddInsert(p, k, v)
    <3>1. links' = PushFront(links, k, s)
      BY <2>3 DEF AddInsert
    <3> HIDE DEF D
    <3> QED BY <1>0, <2>1, <3>1, PushLocal
  <2> QED BY <2>2, <2>3
<1>5. \A q \in Proc \ {p} : NewestOf(q)'
  <2>1. /\ \A j \in Key : ShardOf[j] # s => (j \in cache' <=> j \in cache)
        /\ \A j \in Key : ShardOf[j] # s => value'[j] = value[j]
    BY <1>0, <1>1 DEF TypeOK
  <2>2. raced \subseteq raced' \cup {s}
    BY <1>1
  <2>3. \A q \in Proc \ {p} : pc[q] \in Writing => ShardOf[arg[q]] # s
    BY <1>2
  <2> QED BY <1>0, <1>1, <1>4, <2>1, <2>2, <2>3, NewestBeyond
<1>6. NewestOf(p)'
  BY <1>1, <1>2, <1>3 DEF NewestOf
<1> QED BY <1>5, <1>6 DEF Newest

LEMMA EvictNewest ==
    ASSUME Base, AllSound, Newest, NEW p \in Proc, EvictTurn(p)
    PROVE  Newest'
<1>a. PICK k, s : k = arg[p] /\ s = ShardOf[k]
  OBVIOUS
<1>0. TypeOK /\ Calls /\ Pointers /\ Elsewhere(p) /\ links \in Links
  BY EvictBase DEF Base, TypeOK, Links
<1>1. /\ pc[p] = "evict" /\ UNCHANGED <<limit, turn, raced, value>>
      /\ Back(s) # Nil /\ MaxBytes # 0 /\ nBytes[s] > MaxBytes
  BY <1>a DEF EvictTurn, OverLimit, lists
<1>2. s \in Shard /\ k \in Key
  BY <1>0, <1>1, <1>a, FastLRUAssumption DEF Calls, Writing
<1>3. \A q \in Proc \ {p} : pc[q] \in Writing => ShardOf[arg[q]] # s
  BY <1>0, <1>1, <1>a DEF Calls, Writing
<1>4. /\ Beyond(links, links', s)
      /\ \A j \in Key : ShardOf[j] # s => (j \in cache' <=> j \in cache)
  <2>1. CASE Back(s) = s
    BY <1>a, <2>1 DEF EvictTurn, lists, Beyond
  <2>2. CASE Back(s) # s
    <3> DEFINE e == Back(s)
    <3>1. /\ links' = IF e \in cache THEN Cut(links, e) ELSE links
          /\ cache' = cache \ {e}
      BY <1>a, <2>2 DEF EvictTurn
    <3>2. e \in Key /\ ShardOf[e] = s
      BY <1>1, <1>a, <2>2, EndOfList
    <3> HIDE DEF e
    <3>3. CASE e \in cache
      <4> DEFINE D == cache \cup Shard
      <4>1. D \in SUBSET Node /\ Tied(links, D) /\ e \in D /\ e \in Node /\ Home(e) = s
            /\ links \in Links /\ Local(links)
        BY <1>0, <3>2, <3>3, Nodes DEF Pointers, TypeOK, Node
      <4>2. links' = Cut(links, e)
        BY <3>1, <3>3
      <4> HIDE DEF D
      <4>3. Beyond(links, links', s)
        BY <1>2, <4>1, <4>2, CutLocal
      <4> QED BY <3>1, <3>2, <4>3
    <3>4. CASE e \notin cache
      BY <3>1, <3>2, <3>4 DEF Beyond
    <3> QED BY <3>3, <3>4
  <2> QED BY <2>1, <2>2
<1>5. \A q \in Proc \ {p} : NewestOf(q)'
  <2>1. raced \subseteq raced' \cup {s} /\ limit' = limit
        /\ \A j \in Key : ShardOf[j] # s => value'[j] = value[j]
    BY <1>1
  <2> QED BY <1>0, <1>2, <1>3, <1>4, <2>1, NewestBeyond
<1>6. ASSUME s \notin raced
      PROVE  NewestOf(p)'
  <2>1. PICK e \in Held(s) :
              /\ cache' = cache \ {e}
              /\ UNCHANGED <<value, pc, arg>>
              /\ links.next[s] # e => links'.next[s] = links.next[s]
              /\ links.next[s] = e => Held(s) = {e}
              /\ nBytes[s] = Weight(Held(s), value)
    BY <1>2, <1>6, <1>a, EvictWhole
  <2>2. e \in cache /\ \A j \in Held(s) : Size(j, value[j]) \in Nat
    BY <1>2, Entries
  <2>3. IF k \in cache THEN links.next[s] = k
        ELSE MaxBytes # 0 /\ ~ (Size(k, value[k]) <= MaxBytes)
    BY <1>1, <1>6, <1>a DEF Newest, NewestOf
  <2>4. MaxBytes' = MaxBytes
    BY <1>1 DEF MaxBytes
  <2>5. IF k \in cache' THEN links'.next[s] = k
        ELSE MaxBytes # 0 /\ ~ (Size(k, value[k]) <= MaxBytes)
    <3>1. CASE k = e
      <4>1. Held(s) = {k}
        BY <2>1, <2>2, <2>3, <3>1
      <4>2. Weight({k}, value) = Size(k, value[k])
        <5>1. IsFiniteSet({k}) /\ {k} \ {k} = {} /\ k \in {k}
          BY <1>2, <4>1, Entries
        <5>2. \A j \in {k} : Size(j, value[j]) \in Int
          BY <2>2, <4>1
        <5>3. Weight({k}, value) = Size(k, value[k]) + Weight({k} \ {k}, value)
          BY <5>1, <5>2, WeightPart
        <5>4. Weight({}, value) = 0
          BY SumEmpty DEF Weight
        <5>5. Size(k, value[k]) \in Int
          BY <5>2
        <5> QED BY <5>1, <5>3, <5>4, <5>5
      <4>3. ~ (Size(k, value[k]) <= MaxBytes) /\ MaxBytes # 0
        <5> DEFINE z == Size(k, value[k])
        <5>1. z \in Int /\ MaxBytes \in Int
          BY <1>0, <2>2, <4>1, ShareType
        <5>2. z > MaxBytes /\ MaxBytes # 0
          BY <1>1, <2>1, <4>1, <4>2
        <5> HIDE DEF z
        <5>3. ~ (z <= MaxBytes)
          BY <5>1, <5>2
        <5> QED BY <5>2, <5>3 DEF z
      <4> QED BY <2>1, <3>1, <4>3
    <3>2. CASE k # e
      BY <2>1, <2>3, <3>2
    <3> QED BY <3>1, <3>2
  <2> QED BY <1>a, <2>1, <2>4, <2>5 DEF NewestOf
<1>7. s \in raced => NewestOf(p)'
  <2>1. arg'[p] = arg[p]
    <3>1. CASE Back(s) = s
      <4>1. Goto(p, "panicked") /\ "panicked" \in Places
        BY <1>a, <3>1 DEF EvictTurn, Places
      <4> QED BY <1>0, <4>1, Goes
    <3>2. CASE Back(s) # s
      BY <1>a, <3>2 DEF EvictTurn
    <3> QED BY <3>1, <3>2
  <2> QED BY <1>1, <1>a, <2>1 DEF NewestOf
<1> QED BY <1>5, <1>6, <1>7 DEF Newest

LEMMA StepNewest ==
    ASSUME Base, AllSound, Newest, NEW p \in Proc, By(p)
    PROVE  Newest'
<1>0. TypeOK /\ Calls /\ Pointers /\ Elsewhere(p) /\ links \in Links /\ TypeOK'
  BY StepBase DEF Base, TypeOK, Links
<1>1. CASE \E k \in Key, v \in Value : AddUpdate(p, k, v) \/ AddInsert(p, k, v)
  BY <1>1, AddNewest
<1>2. CASE EvictTurn(p)
  BY <1>2, EvictNewest
<1>3. CASE ClearShard(p)
  <2>a. PICK s : s = arg[p]
    OBVIOUS
  <2>1. /\ pc[p] = "clear" /\ limit' = limit /\ Free(s)
        /\ cache' = cache \ KeysOf(s)
        /\ value' = [k \in Key |-> IF k \in KeysOf(s) THEN Missing ELSE value[k]]
        /\ links' = Emptied(links, s)
        /\ raced' = raced \ {s} /\ NextShard(p)
    BY <1>3, <2>a DEF ClearShard
  <2>2. s \in Shard /\ arg[p] \in Shard
    BY <1>0, <2>1, <2>a DEF Calls
  <2>3. pc'[p] # "evict"
    BY <1>0, <2>1, <2>2, NextShards
  <2>4. \A q \in Proc : pc[q] \in Writing => ShardOf[arg[q]] # s
    BY <1>0, <2>1, <2>2, Locks DEF Free
  <2>5. \A k \in Key : ShardOf[k] # s => value'[k] = value[k] /\ (k \in cache' <=> k \in cache)
    BY <2>1 DEF KeysOf
  <2>6. Beyond(links, links', s)
    <3>1. \A x \in Node : Home(x) # s => x # s /\ x \notin KeysOf(s)
      BY <2>2, Nodes DEF KeysOf
    <3>2. \A x \in Node : x # s /\ x \notin KeysOf(s) =>
            links'.next[x] = links.next[x] /\ links'.prev[x] = links.prev[x]
      BY <2>1 DEF Emptied
    <3> QED BY <3>1, <3>2 DEF Beyond
  <2>7. raced \subseteq raced' \cup {s}
    BY <2>1
  <2>8. \A q \in Proc \ {p} : NewestOf(q)'
    BY <1>0, <2>1, <2>2, <2>4, <2>5, <2>6, <2>7, NewestBeyond
  <2>9. NewestOf(p)'
    BY <2>3 DEF NewestOf
  <2> QED BY <2>8, <2>9 DEF Newest
<1>4. CASE Move(p)
  <2>a. PICK s : s = ShardOf[arg[p]]
    OBVIOUS
  <2>1. /\ pc[p] = "move" /\ links' = Assign(links, turn[p], arg[p], s)
        /\ UNCHANGED <<limit, cache, value, raced>>
        /\ IF turn[p] < 6 THEN UNCHANGED pc ELSE Goto(p, "hit")
    BY <1>4, <2>a DEF Move
  <2>2. /\ arg[p] \in Key /\ turn[p] \in 1 .. 6 /\ s \in Shard /\ s \in Node
        /\ arg[p] \in Node /\ Home(s) = s /\ Home(arg[p]) = s
    BY <1>0, <2>1, <2>a, Nodes, FastLRUAssumption DEF Calls, InGet, TypeOK
  <2>3. pc'[p] # "evict"
    <3>1. "hit" \in Places
      BY DEF Places, InGet
    <3> QED BY <1>0, <2>1, <3>1, Goes
  <2>4. \A q \in Proc \ {p} : pc[q] \in Writing => ShardOf[arg[q]] # s
    BY <1>0, <2>1, <2>a DEF Calls, Reading
  <2>5. Beyond(links, links', s)
    BY <1>0, <2>1, <2>2, AssignLocal DEF Pointers
  <2>6. raced \subseteq raced' \cup {s} /\ cache' = cache /\ value' = value
    BY <2>1
  <2>7. \A q \in Proc \ {p} : NewestOf(q)'
    BY <1>0, <2>1, <2>2, <2>4, <2>5, <2>6, NewestBeyond
  <2>8. NewestOf(p)'
    BY <2>3 DEF NewestOf
  <2> QED BY <2>7, <2>8 DEF Newest
<1>5. CASE \/ \E k \in Key : GetStart(p, k)
           \/ Lookup(p) \/ CheckFront(p) \/ CountHit(p) \/ CountMiss(p)
           \/ AddReturn(p) \/ ClearStart(p) \/ LenStart(p) \/ CountShard(p)
           \/ StatsStart(p) \/ Load(p)
           \/ ResetGets(p) \/ ResetHits(p) \/ ResetMisses(p)
  <2>1. UNCHANGED <<limit, cache, value, links, nBytes>>
    BY <1>5, QuietBase
  <2>2. raced \subseteq raced' /\ pc'[p] # "evict"
    <3>0. pc \in [Proc -> Places] /\ "idle" \in Places
      BY <1>0 DEF TypeOK, Places
    <3>1. CASE CheckFront(p)
      <4>1. PICK step \in {"hit", "move"} : Goto(p, step)
        BY <3>1 DEF CheckFront
      <4>2. raced \subseteq raced'
        BY <3>1 DEF CheckFront
      <4> QED BY <3>0, <4>1, <4>2 DEF Goto
    <3>2. CASE (\E k \in Key : GetStart(p, k)) \/ Lookup(p)
      BY <3>0, <3>2 DEF GetStart, Lookup, Goto, Begin
    <3>3. CASE CountHit(p) \/ CountMiss(p) \/ AddReturn(p)
      BY <3>0, <3>3 DEF CountHit, CountMiss, AddReturn, Goto
    <3>4. CASE ClearStart(p) \/ LenStart(p) \/ StatsStart(p)
      BY <3>0, <3>4 DEF ClearStart, LenStart, StatsStart, Begin
    <3>5. CASE CountShard(p)
      BY <3>0, <3>5 DEF CountShard, NextShard, Goto
    <3>6. CASE Load(p)
      BY <3>0, <3>6 DEF Load, Begin
    <3>7. CASE ResetGets(p) \/ ResetHits(p) \/ ResetMisses(p)
      BY <3>0, <3>7 DEF ResetGets, ResetHits, ResetMisses, Goto
    <3> QED BY <1>5, <3>1, <3>2, <3>3, <3>4, <3>5, <3>6, <3>7
  <2>3. \A q \in Proc \ {p} : NewestOf(q)'
    BY <1>0, <2>1, <2>2, NewestOther
  <2>4. NewestOf(p)'
    BY <2>2 DEF NewestOf
  <2> QED BY <2>3, <2>4 DEF Newest
<1> QED BY <1>1, <1>2, <1>3, <1>4, <1>5 DEF By, Step

LEMMA InitNewest ==
    ASSUME Init
    PROVE  Newest
BY DEF Init, Newest, NewestOf

THEOREM NewestHolds == Spec => []Newest
<1>1. Base /\ AllSound /\ Newest /\ [Next]_vars => Newest'
  <2>1. ASSUME Base, AllSound, Newest, Next PROVE Newest'
    <3>1. PICK p \in Proc : By(p)
      BY <2>1 DEF Next, By
    <3> QED BY <2>1, <3>1, StepNewest
  <2>2. ASSUME Newest, UNCHANGED vars PROVE Newest'
    BY <2>2 DEF vars, lists, Newest, NewestOf, MaxBytes
  <2> QED BY <2>1, <2>2
<1> QED BY <1>1, InitNewest, SoundHolds, PTL DEF Spec

\* An Add that returns leaves its entry in the cache if and only if the entry fits
\* the shard's limit, in a shard where no two Gets have raced.
THEOREM NewestRemains == Spec => NewestStays
<1>1. ASSUME Base, AllSound, Newest, NEW p \in Proc, AddReturn(p),
             ShardOf[arg[p]] \notin raced
      PROVE  arg[p] \in cache <=> MaxBytes = 0 \/ Size(arg[p], value[arg[p]]) <= MaxBytes
  <2> DEFINE k == arg[p]
             s == ShardOf[k]
             z == Size(k, value[k])
  <2>1. pc[p] = "evict" /\ ~ OverLimit(s)
    BY <1>1 DEF AddReturn
  <2>2. k \in Key /\ s \in Shard /\ MaxBytes \in Int
    BY <1>1, <2>1, ShareType, FastLRUAssumption DEF Base, Calls, Writing
  <2>3. IF k \in cache THEN links.next[s] = k ELSE MaxBytes # 0 /\ ~ (z <= MaxBytes)
    BY <1>1, <2>1 DEF Newest, NewestOf
  <2>4. CASE k \in cache
    <3>1. k \in Held(s) /\ nBytes[s] = Weight(Held(s), value)
      BY <1>1, <2>2, <2>4, Entries DEF AllSound, Sound
    <3>2. IsFiniteSet(Held(s)) /\ \A j \in Held(s) : Size(j, value[j]) \in Nat
      BY <1>1, <2>2, Entries
    <3>3. Weight(Held(s), value) = z + Weight(Held(s) \ {k}, value)
      <4>1. \A j \in Held(s) : Size(j, value[j]) \in Int
        BY <3>2
      <4> QED BY <3>1, <3>2, <4>1, WeightPart
    <3>4. Weight(Held(s) \ {k}, value) \in Nat /\ z \in Nat
      <4>1. IsFiniteSet(Held(s) \ {k})
        BY <3>2, FS_Subset
      <4> QED BY <3>1, <3>2, <4>1, WeightType
    <3> DEFINE w == Weight(Held(s) \ {k}, value)
    <3>5. w \in Nat /\ z \in Nat /\ (MaxBytes = 0 \/ ~ (z + w > MaxBytes))
      BY <2>1, <3>1, <3>3, <3>4 DEF OverLimit
    <3> HIDE DEF w, z
    <3>6. MaxBytes = 0 \/ z <= MaxBytes
      BY <2>2, <3>5
    <3> QED BY <2>4, <3>6 DEF z
  <2>5. CASE k \notin cache
    BY <2>3, <2>5
  <2> QED BY <2>4, <2>5
<1>2. ASSUME Base, NEW q \in Proc, By(q), NEW p \in Proc,
             pc[p] = "evict", pc'[p] = "idle"
      PROVE  AddReturn(p)
  <2>1. Elsewhere(q) /\ TypeOK
    BY <1>2, StepBase DEF Base
  <2>2. p = q
    BY <1>2, <2>1 DEF Elsewhere
  <2>3. ~ EvictTurn(p)
    <3>1. SUFFICES ASSUME EvictTurn(p) PROVE FALSE
      OBVIOUS
    <3>2. "panicked" \in Places
      BY DEF Places
    <3>3. pc' = pc \/ Goto(p, "panicked")
      BY <3>1 DEF EvictTurn
    <3>4. pc'[p] = pc[p] \/ pc'[p] = "panicked"
      BY <2>1, <3>2, <3>3, Goes
    <3> QED BY <1>2, <3>4
  <2> QED BY <1>2, <2>2, <2>3
          DEF By, Step, GetStart, Lookup, CheckFront, Move, CountHit, CountMiss,
              AddUpdate, AddInsert, ClearStart, ClearShard, LenStart, CountShard,
              StatsStart, Load, ResetGets, ResetHits, ResetMisses
<1> DEFINE Kept == \A p \in Proc :
        LET k == arg[p] IN
        pc[p] = "evict" /\ pc'[p] = "idle" /\ ShardOf[k] \notin raced =>
            (k \in cache <=> MaxBytes = 0 \/ Size(k, value[k]) <= MaxBytes)
<1>3. Base /\ AllSound /\ Newest /\ [Next]_vars => [Kept]_vars
  <2>1. ASSUME Base, AllSound, Newest, Next PROVE Kept
    <3>1. PICK q \in Proc : By(q)
      BY <2>1 DEF Next, By
    <3> QED BY <1>1, <1>2, <2>1, <3>1
  <2> QED BY <2>1
<1>4. NewestStays <=> [][Kept]_vars
  BY DEF NewestStays
<1> HIDE DEF Kept
<1> QED BY <1>3, <1>4, SoundHolds, NewestHolds, PTL DEF Spec

-----------------------------------------------------------------------------
(* The counters.                                                           *)

\* What a Stats has loaded is not more than the counters it has yet to load.
LoadsFit ==
    \A p \in Proc : pc[p] = "load" =>
        /\ turn[p] = 2 => seen[p].gets <= hits + misses
        /\ turn[p] = 3 => seen[p].gets <= seen[p].hits + misses

\* A ResetStats that overlaps nothing finds the counters at rest.
AtRest ==
    /\ gets = 0
    /\ \A p \in Proc : pc[p] \notin InGet \cup {"load"}
    /\ \A p, q \in Proc : pc[p] \in InReset /\ pc[q] \in InReset => p = q
    /\ \A p \in Proc : pc[p] = "reset misses" => hits = 0

Tally ==
    ~ skewed => /\ IF Resetting THEN AtRest ELSE GetsAddUp
                /\ LoadsFit

\* Steps that count nothing.
LEMMA TallyKept ==
    ASSUME Tally, NEW p \in Proc, Elsewhere(p),
           UNCHANGED <<gets, hits, misses, seen, skewed>>,
           pc[p] \notin InReset \cup {"load"}, pc'[p] \notin InReset \cup {"load"},
           pc[p] \in InGet <=> pc'[p] \in InGet
    PROVE  Tally'
<1>1. Open' = Open
  BY DEF Open, Elsewhere
<1>2. Resetting' <=> Resetting
  BY DEF Resetting, Elsewhere
<1>3. GetsAddUp => GetsAddUp'
  BY <1>1 DEF GetsAddUp
<1>4. AtRest => AtRest'
  BY DEF AtRest, Elsewhere, InReset
<1>5. LoadsFit => LoadsFit'
  BY DEF LoadsFit, Elsewhere
<1> QED BY <1>2, <1>3, <1>4, <1>5 DEF Tally

LEMMA OpenChanges ==
    ASSUME Base, NEW p \in Proc, Elsewhere(p)
    PROVE  /\ Cardinality(Open) \in Nat
           /\ pc[p] \notin InGet /\ pc'[p] \in InGet =>
                Cardinality(Open') = Cardinality(Open) + 1
           /\ pc[p] \in InGet /\ pc'[p] \notin InGet =>
                Cardinality(Open') = Cardinality(Open) - 1
           /\ (pc[p] \in InGet <=> pc'[p] \in InGet) => Open' = Open
<1>1. IsFiniteSet(Open) /\ Cardinality(Open) \in Nat
  BY FS_CardinalityType DEF Base
<1>2. \A q \in Proc \ {p} : q \in Open' <=> q \in Open
  BY DEF Open, Elsewhere
<1>3. /\ Open \subseteq Proc /\ Open' \subseteq Proc
      /\ p \in Open <=> pc[p] \in InGet
      /\ p \in Open' <=> pc'[p] \in InGet
  BY DEF Open
<1>4. ASSUME pc[p] \notin InGet, pc'[p] \in InGet
      PROVE  Cardinality(Open') = Cardinality(Open) + 1
  <2>1. Open' = Open \cup {p} /\ p \notin Open
    BY <1>2, <1>3, <1>4
  <2> QED BY <1>1, <2>1, FS_AddElement
<1>5. ASSUME pc[p] \in InGet, pc'[p] \notin InGet
      PROVE  Cardinality(Open') = Cardinality(Open) - 1
  <2>1. Open' = Open \ {p} /\ p \in Open
    BY <1>2, <1>3, <1>5
  <2> QED BY <1>1, <2>1, FS_RemoveElement
<1>6. (pc[p] \in InGet <=> pc'[p] \in InGet) => Open' = Open
  BY <1>2, <1>3
<1> QED BY <1>1, <1>4, <1>5, <1>6

\* A Get is counted, and then counted as a hit or as a miss.
LEMMA GetTally ==
    ASSUME Base, Tally, NEW p \in Proc,
           (\E k \in Key : GetStart(p, k)) \/ CountHit(p) \/ CountMiss(p)
    PROVE  Tally'
<1>0. TypeOK /\ Elsewhere(p) /\ gets \in Int /\ hits \in Int /\ misses \in Int
      /\ Cardinality(Open) \in Int
  BY QuietBase, OpenChanges DEF Base, TypeOK
<1>1. CASE \E k \in Key : GetStart(p, k)
  <2>1. /\ gets' = gets + 1 /\ skewed' = (skewed \/ Resetting)
        /\ UNCHANGED <<hits, misses, seen>>
        /\ pc[p] \notin InGet /\ pc'[p] \in InGet /\ pc'[p] \notin InReset \cup {"load"}
    <3>1. PICK k \in Key : GetStart(p, k)
      BY <1>1
    <3>2. pc[p] = "idle" /\ pc'[p] = "rlock"
      BY <1>0, <3>1 DEF GetStart, Begin, TypeOK
    <3>3. gets' = gets + 1 /\ skewed' = (skewed \/ Resetting)
          /\ UNCHANGED <<hits, misses, seen>>
      BY <3>1 DEF GetStart
    <3> QED BY <3>2, <3>3 DEF InGet, InReset
  <2> SUFFICES ASSUME ~ skewed' PROVE ~ Resetting' /\ GetsAddUp' /\ LoadsFit'
    BY DEF Tally
  <2>2. ~ skewed /\ ~ Resetting
    BY <2>1
  <2>3. GetsAddUp /\ LoadsFit
    BY <2>2 DEF Tally
  <2>4. ~ Resetting'
    BY <1>0, <2>1, <2>2 DEF Resetting, Elsewhere
  <2>5. Cardinality(Open') = Cardinality(Open) + 1
    BY <1>0, <2>1, OpenChanges
  <2>6. GetsAddUp'
    BY <1>0, <2>1, <2>3, <2>5 DEF GetsAddUp
  <2>7. LoadsFit'
    BY <1>0, <2>1, <2>3 DEF LoadsFit, Elsewhere
  <2> QED BY <2>4, <2>6, <2>7
<1>2. CASE CountHit(p) \/ CountMiss(p)
  <2>1. /\ UNCHANGED <<gets, seen, skewed>>
        /\ \/ hits' = hits + 1 /\ misses' = misses
           \/ misses' = misses + 1 /\ hits' = hits
        /\ pc[p] \in InGet /\ pc'[p] = "idle"
    <3>1. pc[p] \in {"hit", "miss"} /\ Goto(p, "idle") /\ "idle" \in Places
      BY <1>2 DEF CountHit, CountMiss, Places
    <3>2. pc'[p] = "idle"
      BY <1>0, <3>1, Goes
    <3> QED BY <1>2, <3>1, <3>2 DEF CountHit, CountMiss, InGet
  <2> SUFFICES ASSUME ~ skewed' PROVE ~ Resetting' /\ GetsAddUp' /\ LoadsFit'
    BY DEF Tally
  <2>2. ~ Resetting
    BY <2>1 DEF Tally, AtRest
  <2>3. GetsAddUp /\ LoadsFit
    BY <2>1, <2>2 DEF Tally
  <2>4. ~ Resetting'
    BY <1>0, <2>1, <2>2 DEF Resetting, Elsewhere, InReset
  <2>5. Cardinality(Open') = Cardinality(Open) - 1
    <3>1. pc'[p] \notin InGet
      BY <2>1 DEF InGet
    <3> QED BY <1>0, <2>1, <3>1, OpenChanges
  <2>6. GetsAddUp'
    BY <1>0, <2>1, <2>3, <2>5 DEF GetsAddUp
  <2>7. LoadsFit'
    <3>1. ASSUME NEW q \in Proc, pc'[q] = "load"
          PROVE  /\ turn'[q] = 2 => seen'[q].gets <= hits' + misses'
                 /\ turn'[q] = 3 => seen'[q].gets <= seen'[q].hits + misses'
      <4>1. q # p
        BY <2>1, <3>1
      <4>2. pc[q] = "load" /\ turn'[q] = turn[q] /\ seen'[q] = seen[q]
        BY <1>0, <2>1, <3>1, <4>1 DEF Elsewhere
      <4>3. /\ turn[q] = 2 => seen[q].gets <= hits + misses
            /\ turn[q] = 3 => seen[q].gets <= seen[q].hits + misses
        BY <2>3, <4>2 DEF LoadsFit
      <4>4. seen[q].gets \in Int /\ seen[q].hits \in Int
        BY <1>0 DEF TypeOK
      <4> DEFINE g == seen[q].gets
                 h == seen[q].hits
      <4>5. /\ turn'[q] = 2 => g <= hits + misses
            /\ turn'[q] = 3 => g <= h + misses
            /\ g \in Int /\ h \in Int /\ seen'[q].gets = g /\ seen'[q].hits = h
        BY <4>2, <4>3, <4>4
      <4> HIDE DEF g, h
      <4>6. /\ g <= hits + misses => g <= hits' + misses'
            /\ g <= h + misses => g <= h + misses'
        BY <1>0, <2>1, <4>5
      <4> QED BY <4>5, <4>6
    <3> QED BY <3>1 DEF LoadsFit
  <2> QED BY <2>4, <2>6, <2>7
<1> QED BY <1>1, <1>2

\* The loads of Stats.
LEMMA StatsTally ==
    ASSUME Base, Tally, NEW p \in Proc, StatsStart(p) \/ Load(p)
    PROVE  Tally'
<1>0. /\ TypeOK /\ Calls /\ Elsewhere(p)
      /\ gets \in Int /\ hits \in Int /\ misses \in Int /\ Cardinality(Open) \in Int
  BY QuietBase, OpenChanges DEF Base, TypeOK
<1>1. /\ UNCHANGED <<gets, hits, misses>>
      /\ pc[p] \notin InGet \cup InReset
      /\ pc'[p] \notin InGet \cup InReset
      /\ ~ skewed' => ~ skewed /\ ~ Resetting
  <2>1. CASE StatsStart(p)
    <3>1. pc[p] = "idle" /\ pc'[p] = "load"
      BY <1>0, <2>1 DEF StatsStart, Begin, TypeOK
    <3> QED BY <2>1, <3>1 DEF StatsStart, InGet, InReset
  <2>2. CASE Load(p)
    <3>1. pc[p] = "load" /\ pc'[p] \in {"load", "count"}
      BY <1>0, <2>2 DEF Load, Begin, TypeOK
    <3>2. UNCHANGED <<gets, hits, misses, skewed>>
      BY <2>2 DEF Load
    <3>3. ~ skewed => ~ Resetting
      BY <3>1 DEF Tally, AtRest
    <3> QED BY <3>1, <3>2, <3>3 DEF InGet, InReset
  <2> QED BY <2>1, <2>2
<1> SUFFICES ASSUME ~ skewed' PROVE ~ Resetting' /\ GetsAddUp' /\ LoadsFit'
  BY DEF Tally
<1>2. GetsAddUp /\ LoadsFit
  BY <1>1 DEF Tally
<1>3. ~ Resetting'
  BY <1>0, <1>1 DEF Resetting, Elsewhere
<1>4. GetsAddUp'
  <2>1. Open' = Open
    BY <1>0, <1>1, OpenChanges
  <2> QED BY <1>1, <1>2, <2>1 DEF GetsAddUp
<1>5. ASSUME NEW q \in Proc, q # p, pc'[q] = "load"
      PROVE  /\ turn'[q] = 2 => seen'[q].gets <= hits' + misses'
             /\ turn'[q] = 3 => seen'[q].gets <= seen'[q].hits + misses'
  <2>1. pc[q] = "load" /\ turn'[q] = turn[q]
    BY <1>0, <1>5 DEF Elsewhere
  <2>2. seen'[q] = seen[q]
    BY <1>0, <1>5 DEF StatsStart, Load, TypeOK
  <2> QED BY <1>1, <1>2, <2>1, <2>2 DEF LoadsFit
<1>6. ASSUME pc'[p] = "load"
      PROVE  /\ turn'[p] = 2 => seen'[p].gets <= hits' + misses'
             /\ turn'[p] = 3 => seen'[p].gets <= seen'[p].hits + misses'
  <2>1. CASE StatsStart(p)
    <3>1. turn'[p] = 1
      BY <1>0, <2>1 DEF StatsStart, Calls
    <3> QED BY <3>1
  <2>2. CASE Load(p)
    <3>1. pc[p] = "load" /\ turn[p] \in 1 .. 3
      BY <1>0, <2>2 DEF Load, Calls, TypeOK
    <3>2. turn[p] < 3
      <4>1. SUFFICES ASSUME ~ (turn[p] < 3) PROVE FALSE
        OBVIOUS
      <4>2. Begin(p, "count", 0)
        BY <2>2, <4>1 DEF Load
      <4> QED BY <1>0, <1>6, <4>2 DEF Begin, TypeOK
    <3>3. /\ turn' = [turn EXCEPT ![p] = turn[p] + 1]
          /\ seen' = [seen EXCEPT ![p][LoadOrder[turn[p]]] = Now[LoadOrder[turn[p]]]]
      BY <2>2, <3>2 DEF Load
    <3>4. turn'[p] = turn[p] + 1
      BY <1>0, <3>3 DEF TypeOK
    <3>5. CASE turn[p] = 1
      <4> DEFINE d == LoadOrder[turn[p]]
                 now == Now[d]
      <4>1. d = "gets" /\ now = gets - Cardinality(Open)
        BY <3>5 DEF LoadOrder, Now
      <4>2. seen' = [seen EXCEPT ![p][d] = now]
        BY <3>3
      <4> HIDE DEF d, now
      <4>3. seen' = [seen EXCEPT ![p]["gets"] = now]
        BY <4>1, <4>2
      <4>4. seen'[p].gets = now
        BY <1>0, <4>3 DEF TypeOK
      <4>5. now <= hits + misses
        BY <1>0, <1>2, <4>1 DEF GetsAddUp
      <4>6. turn'[p] = 2
        BY <3>4, <3>5
      <4> QED BY <1>1, <4>4, <4>5, <4>6
    <3>6. CASE turn[p] = 2
      <4> DEFINE d == LoadOrder[turn[p]]
                 now == Now[d]
      <4>1. d = "hits" /\ now = hits
        BY <3>6 DEF LoadOrder, Now
      <4>2. seen' = [seen EXCEPT ![p][d] = now]
        BY <3>3
      <4> HIDE DEF d, now
      <4>3. seen' = [seen EXCEPT ![p]["hits"] = hits]
        BY <4>1, <4>2
      <4>4. seen'[p].hits = hits /\ seen'[p].gets = seen[p].gets
        BY <1>0, <4>3 DEF TypeOK
      <4>5. seen[p].gets <= hits + misses
        BY <1>2, <3>1, <3>6 DEF LoadsFit
      <4>6. turn'[p] = 3
        BY <3>4, <3>6
      <4> QED BY <1>1, <4>4, <4>5, <4>6
    <3> QED BY <3>1, <3>2, <3>5, <3>6
  <2> QED BY <2>1, <2>2
<1>7. LoadsFit'
  BY <1>5, <1>6 DEF LoadsFit
<1> QED BY <1>3, <1>4, <1>7

\* ResetStats, when it overlaps nothing that counts.
LEMMA ResetTally ==
    ASSUME Base, Tally, NEW p \in Proc, ResetGets(p) \/ ResetHits(p) \/ ResetMisses(p)
    PROVE  Tally'
<1>0. TypeOK /\ Elsewhere(p) /\ "idle" \in Places /\ InReset \subseteq Places
  BY QuietBase DEF Base, Places
<1>1. CASE ResetGets(p)
  <2>1. /\ gets' = 0 /\ pc'[p] = "reset hits"
        /\ ~ skewed' => ~ Resetting /\ \A q \in Proc : pc[q] \notin InGet \cup {"load"}
    <3>1. Goto(p, "reset hits") /\ "reset hits" \in Places
      BY <1>0, <1>1 DEF ResetGets, InReset
    <3>2. pc'[p] = "reset hits"
      BY <1>0, <3>1, Goes
    <3> QED BY <1>1, <3>2 DEF ResetGets
  <2> SUFFICES ASSUME ~ skewed' PROVE Resetting' /\ AtRest' /\ LoadsFit'
    BY DEF Tally
  <2>2. Resetting'
    BY <2>1 DEF Resetting, InReset
  <2>3. \A q \in Proc : pc'[q] \notin InGet \cup {"load"}
    BY <1>0, <2>1 DEF Elsewhere, InGet
  <2>4. \A q \in Proc : pc'[q] \in InReset => q = p
    BY <1>0, <2>1 DEF Elsewhere, Resetting
  <2>5. AtRest'
    <3>1. \A q \in Proc : pc'[q] # "reset misses"
      BY <2>1, <2>4 DEF InReset
    <3> QED BY <2>1, <2>3, <2>4, <3>1 DEF AtRest
  <2>6. LoadsFit'
    BY <2>3 DEF LoadsFit
  <2> QED BY <2>2, <2>5, <2>6
<1>2. CASE ResetHits(p)
  <2>1. /\ pc[p] = "reset hits" /\ hits' = 0 /\ pc'[p] = "reset misses"
        /\ UNCHANGED <<gets, skewed>>
    <3>1. Goto(p, "reset misses") /\ "reset misses" \in Places
      BY <1>0, <1>2 DEF ResetHits, InReset
    <3>2. pc'[p] = "reset misses"
      BY <1>0, <3>1, Goes
    <3> QED BY <1>2, <3>2 DEF ResetHits
  <2> SUFFICES ASSUME ~ skewed' PROVE Resetting' /\ AtRest' /\ LoadsFit'
    BY DEF Tally
  <2>2. Resetting /\ Resetting'
    BY <2>1 DEF Resetting, InReset
  <2>3. AtRest
    BY <2>1, <2>2 DEF Tally
  <2>4. \A q \in Proc : pc'[q] \notin InGet \cup {"load"}
    BY <1>0, <2>1, <2>3 DEF AtRest, Elsewhere, InGet
  <2>5. \A q \in Proc : pc'[q] \in InReset => q = p
    BY <1>0, <2>1, <2>3 DEF AtRest, Elsewhere, InReset
  <2>6. AtRest'
    BY <2>1, <2>3, <2>4, <2>5 DEF AtRest
  <2>7. LoadsFit'
    BY <2>4 DEF LoadsFit
  <2> QED BY <2>2, <2>6, <2>7
<1>3. CASE ResetMisses(p)
  <2>1. /\ pc[p] = "reset misses" /\ misses' = 0 /\ pc'[p] = "idle"
        /\ UNCHANGED <<gets, hits, skewed>>
    <3>1. Goto(p, "idle")
      BY <1>3 DEF ResetMisses
    <3>2. pc'[p] = "idle"
      BY <1>0, <3>1, Goes
    <3> QED BY <1>3, <3>2 DEF ResetMisses
  <2> SUFFICES ASSUME ~ skewed' PROVE ~ Resetting' /\ GetsAddUp' /\ LoadsFit'
    BY DEF Tally
  <2>2. Resetting
    BY <2>1 DEF Resetting, InReset
  <2>3. AtRest
    BY <2>1, <2>2 DEF Tally
  <2>4. \A q \in Proc : pc'[q] \notin InGet \cup {"load"}
    BY <1>0, <2>1, <2>3 DEF AtRest, Elsewhere, InGet
  <2>5. ~ Resetting'
    BY <1>0, <2>1, <2>3 DEF AtRest, Elsewhere, InReset, Resetting
  <2>6. Open' = {}
    BY <2>4 DEF Open
  <2>7. GetsAddUp'
    <3>1. gets' = 0 /\ hits' = 0 /\ misses' = 0
      BY <2>1, <2>3 DEF AtRest
    <3>2. Cardinality(Open') = 0
      BY <2>6, FS_EmptySet
    <3> QED BY <3>1, <3>2 DEF GetsAddUp
  <2>8. LoadsFit'
    BY <2>4 DEF LoadsFit
  <2> QED BY <2>5, <2>7, <2>8
<1> QED BY <1>1, <1>2, <1>3

LEMMA StepTally ==
    ASSUME Base, Tally, NEW p \in Proc, By(p)
    PROVE  Tally'
<1>0. TypeOK /\ Calls /\ Elsewhere(p) /\ pc \in [Proc -> Places]
      /\ {"idle", "panicked", "hit"} \subseteq Places
  BY StepBase DEF Base, TypeOK, Places, InGet
<1> DEFINE Still == UNCHANGED <<gets, hits, misses, seen, skewed>>
           Outside == InGet \cup InReset \cup {"load"}
<1>1. CASE Lookup(p) \/ CheckFront(p) \/ Move(p)
  <2>1. Still
    BY <1>1 DEF Lookup, CheckFront, Move, counters
  <2>2. pc[p] \in InGet /\ pc'[p] \in InGet
    <3>1. CASE Lookup(p)
      BY <1>0, <3>1 DEF Lookup, Goto, InGet
    <3>2. CASE CheckFront(p)
      BY <1>0, <3>2 DEF CheckFront, Goto, InGet
    <3>3. CASE Move(p)
      BY <1>0, <3>3 DEF Move, Goto, InGet
    <3> QED BY <1>1, <3>1, <3>2, <3>3
  <2>3. pc[p] \notin InReset \cup {"load"} /\ pc'[p] \notin InReset \cup {"load"}
    BY <2>2 DEF InGet, InReset
  <2> QED BY <1>0, <2>1, <2>2, <2>3, TallyKept
<1>2. CASE \/ \E k \in Key, v \in Value : AddUpdate(p, k, v) \/ AddInsert(p, k, v)
           \/ EvictTurn(p) \/ AddReturn(p)
           \/ ClearStart(p) \/ ClearShard(p) \/ LenStart(p) \/ CountShard(p)
  <2>1. Still
    BY <1>2 DEF AddUpdate, AddInsert, EvictTurn, AddReturn, ClearStart, ClearShard,
                LenStart, CountShard, counters
  <2>2. /\ pc[p] \in {"idle", "evict", "clear", "count"}
        /\ pc'[p] \in {"idle", "evict", "panicked", "clear", "count"}
    <3>1. CASE \E k \in Key, v \in Value : AddUpdate(p, k, v) \/ AddInsert(p, k, v)
      BY <1>0, <3>1 DEF AddUpdate, AddInsert, Begin
    <3>2. CASE EvictTurn(p)
      BY <1>0, <3>2 DEF EvictTurn, Goto
    <3>3. CASE AddReturn(p) \/ ClearStart(p) \/ LenStart(p)
      BY <1>0, <3>3 DEF AddReturn, ClearStart, LenStart, Goto, Begin
    <3>4. CASE ClearShard(p) \/ CountShard(p)
      BY <1>0, <3>4 DEF ClearShard, CountShard, NextShard, Goto
    <3> QED BY <1>2, <3>1, <3>2, <3>3, <3>4
  <2>3. pc[p] \notin Outside /\ pc'[p] \notin Outside
    BY <2>2 DEF InGet, InReset
  <2> QED BY <1>0, <2>1, <2>3, TallyKept
<1>3. CASE (\E k \in Key : GetStart(p, k)) \/ CountHit(p) \/ CountMiss(p)
  BY <1>3, GetTally
<1>4. CASE StatsStart(p) \/ Load(p)
  BY <1>4, StatsTally
<1>5. CASE ResetGets(p) \/ ResetHits(p) \/ ResetMisses(p)
  BY <1>5, ResetTally
<1> QED BY <1>1, <1>2, <1>3, <1>4, <1>5 DEF By, Step

LEMMA InitTally ==
    ASSUME Init
    PROVE  Tally
<1>1. Open = {} /\ ~ Resetting
  BY DEF Init, Open, Resetting, InGet, InReset
<1>2. GetsAddUp
  BY <1>1, FS_EmptySet DEF Init, GetsAddUp
<1>3. LoadsFit
  BY DEF Init, LoadsFit
<1> QED BY <1>1, <1>2, <1>3 DEF Tally

\* The counters differ by the Gets in progress and by nothing else, and Stats never
\* misses a Get that has returned, unless a ResetStats overlapped one of them.
THEOREM CountersRight == Spec => []CountersAddUp
<1>1. Base /\ Tally /\ [Next]_vars => Tally'
  <2>1. ASSUME Base, Tally, Next PROVE Tally'
    <3>1. PICK p \in Proc : By(p)
      BY <2>1 DEF Next, By
    <3> QED BY <2>1, <3>1, StepTally
  <2>2. ASSUME Tally, UNCHANGED vars PROVE Tally'
    BY <2>2 DEF vars, counters, Tally, Resetting, AtRest, GetsAddUp, Open, LoadsFit
  <2> QED BY <2>1, <2>2
<1>2. ASSUME Base, Tally
      PROVE  CountersAddUp
  <2> SUFFICES ASSUME ~ skewed PROVE StatsNotLow /\ (~ Resetting => GetsAddUp)
    BY DEF CountersAddUp
  <2>1. LoadsFit /\ (~ Resetting => GetsAddUp)
    BY <1>2 DEF Tally
  <2>2. ASSUME NEW p \in Proc, pc[p] = "load", turn[p] = 3
        PROVE  seen[p].hits + misses >= seen[p].gets
    <3>1. seen[p].gets <= seen[p].hits + misses
      BY <2>1, <2>2 DEF LoadsFit
    <3>2. seen[p].gets \in Int /\ seen[p].hits \in Int /\ misses \in Int
      BY <1>2 DEF Base, TypeOK
    <3> QED BY <3>1, <3>2
  <2> QED BY <2>1, <2>2 DEF StatsNotLow
<1> QED BY <1>1, <1>2, InitTally, BaseHolds, PTL DEF Spec

=============================================================================
