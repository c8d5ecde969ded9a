--------------------------- MODULE ConsistentHash ---------------------------
(***************************************************************************)
(* consistenthash.Map (cache/consistenthash/consistenthash.go): a ring of  *)
(* virtual nodes.  Peer n owns the points hash("i:n") for i below replicas *)
(* times its weight, and a key belongs to the node of the first point at   *)
(* or after the key's hash, the ring being closed.                         *)
(*                                                                         *)
(* The hash function is any function, collisions included: RingInit        *)
(* chooses where they lie, and lookups are made for every hash value       *)
(* a key can have.  The sorted slice keys is a bag of points, since all    *)
(* the code does with it is to search, insert and delete single elements.  *)
(* Add and Remove take any number of nodes under one lock; one at a time   *)
(* is enough here, for nobody sees the ring between two.                   *)
(***************************************************************************)
EXTENDS Integers, Sequences, FiniteSets, SequencesExt

CONSTANTS
    Peer,       \* the names of nodes
    Size,       \* the ring's positions are 0 .. Size - 1 (2^32 in the code)
    Replicas,   \* m.replicas
    Weight,     \* the weights given to NewWithWeight; 0: none given
    NewWeights, \* the weights SetWeight is called with
    NoPeer      \* "", no node

ASSUME RingAssumption ==
    /\ IsFiniteSet(Peer)
    /\ Size \in Nat \ {0}
    /\ Replicas \in Nat \ {0}
    /\ Weight \in [Peer -> Int]
    /\ NewWeights \subseteq Int
    /\ NoPeer \notin Peer

VARIABLES
    hash,       \* where the virtual nodes of each node lie; it never changes,
                \* and covers the first weights: no others are ever placed
    weights,    \* m.weights
    keys,       \* m.keys, as a bag: how often each position is in the slice
    hashMap,    \* the node of each position, or NoPeer
    mu,         \* the node whose SetWeight holds m.mu, or NoPeer if m.mu is free
    members     \* history: the nodes added and not removed since

ringVars == <<hash, weights, keys, hashMap, mu, members>>

Position == 0 .. Size - 1

\* The number of virtual nodes: a weight that is not positive counts as 1.
Virtual(n) == Replicas * (IF weights[n] <= 0 THEN 1 ELSE weights[n])

\* The virtual nodes of n at position x.
At(n, x) == {i \in 1 .. Virtual(n) : hash[n][i] = x}

RingTypeOK ==
    /\ \A n \in Peer : hash[n] \in Seq(Position)
    /\ weights \in [Peer -> Int]
    /\ keys \in [Position -> Nat]
    /\ hashMap \in [Position -> Peer \cup {NoPeer}]
    /\ mu \in Peer \cup {NoPeer}
    /\ members \subseteq Peer

RingInit ==
    /\ weights = Weight
    /\ hash \in LET places == UNION {[1 .. Virtual(n) -> Position] : n \in Peer}
               IN  {f \in [Peer -> places] :
                       \A n \in Peer : DOMAIN f[n] = 1 .. Virtual(n)}
    /\ keys = [x \in Position |-> 0]
    /\ hashMap = [x \in Position |-> NoPeer]
    /\ mu = NoPeer
    /\ members = {}

Ring == {x \in Position : keys[x] > 0}

-----------------------------------------------------------------------------
(* Faulty variants: the bug each property catches. *)

\* The points leave the slice and stay in the map.
RemoveKeyKeepsMap(n) ==
    /\ keys' = [x \in Position |->
          IF keys[x] > Cardinality(At(n, x))
          THEN keys[x] - Cardinality(At(n, x)) ELSE 0]
    /\ UNCHANGED hashMap

\* The weight is forgotten: only the first Replicas points are removed.
RemoveKeyUnweighted(n) ==
    LET first(x) == At(n, x) \cap 1 .. Replicas IN
    /\ keys' = [x \in Position |->
          IF keys[x] > Cardinality(first(x))
          THEN keys[x] - Cardinality(first(x)) ELSE 0]
    /\ hashMap' = [x \in Position |->
          IF first(x) # {} /\ keys[x] > 0 THEN NoPeer ELSE hashMap[x]]

\* > for >= : a key that hashes to a point itself goes to the next one.
SearchStrict(points, x) ==
    IF \E y \in points : y > x
    THEN CHOOSE y \in points : y > x /\ \A z \in points : z > x => y <= z
    ELSE CHOOSE y \in points : \A z \in points : y <= z

-----------------------------------------------------------------------------
\* AddWithWeight under m.mu: every virtual node of n goes into the slice and
\* takes its position in the map, from another node if they collide.  It is
\* called by users, and by SetWeight, which holds m.mu itself.
AddWithWeight(n) ==
    /\ mu = NoPeer
    /\ keys' = [x \in Position |-> keys[x] + Cardinality(At(n, x))]
    /\ hashMap' = [x \in Position |->
          IF At(n, x) # {} THEN n ELSE hashMap[x]]
    /\ members' = members \cup {n}
    /\ UNCHANGED <<hash, weights, mu>>

\* The loop of Remove, and removeKey: for each virtual node of n, one element
\* at its position leaves the slice, if there is one, and with it the
\* position's entry in the map.
RemoveKey(n) ==
    /\ keys' = [x \in Position |->
          IF keys[x] > Cardinality(At(n, x))
          THEN keys[x] - Cardinality(At(n, x)) ELSE 0]
    /\ hashMap' = [x \in Position |->
          IF At(n, x) # {} /\ keys[x] > 0 THEN NoPeer ELSE hashMap[x]]

RemovePeer(n) ==
    /\ mu = NoPeer
    /\ RemoveKey(n)
    /\ members' = members \ {n}
    /\ UNCHANGED <<hash, weights, mu>>

\* SetWeight takes m.mu, removes the node, sets its weight and then calls
\* AddWithWeight, which waits for m.mu: a sync.RWMutex is not reentrant.
SetWeight(n, w) ==
    /\ mu = NoPeer
    /\ mu' = n
    /\ RemoveKey(n)
    /\ members' = members \ {n}
    /\ weights' = [weights EXCEPT ![n] = w]
    /\ UNCHANGED hash

\* Callers add a node that is not in the ring (the only caller, HTTPPool.Set,
\* makes a new Map each time).  Remove may be called for any node.
RingNext ==
    \E n \in Peer :
        \/ n \notin members /\ AddWithWeight(n)
        \/ RemovePeer(n)
        \/ \E w \in NewWeights : SetWeight(n, w)

RingSpec == RingInit /\ [][RingNext]_ringVars

-----------------------------------------------------------------------------
\* sort.Search and the wrap-around: the first point at or after x, else the
\* first of all.
Search(points, x) ==
    IF \E y \in points : y >= x
    THEN CHOOSE y \in points : y >= x /\ \A z \in points : z >= x => y <= z
    ELSE CHOOSE y \in points : \A z \in points : y <= z

\* Get, for a key with hash x.
Get(x) == IF Ring = {} THEN NoPeer ELSE hashMap[Search(Ring, x)]

\* The position i steps ahead of x on the closed ring.
Ahead(x, i) == IF x + i < Size THEN x + i ELSE x + i - Size

\* GetMultiple: the nodes met on a walk once round the ring from x, each one
\* taken where it is first met, until there are count of them.
GetMultiple(x, count) ==
    LET met[i \in 0 .. Size] ==     \* on the first i positions
            IF i = 0 THEN <<>>
            ELSE LET result == met[i - 1]
                     y == Ahead(x, i - 1)
                 IN  IF y \in Ring /\ Len(result) < count
                        /\ ~ Contains(result, hashMap[y])
                     THEN Append(result, hashMap[y])
                     ELSE result
    IN  met[Size]

-----------------------------------------------------------------------------
\* The case the ring is designed for: no two virtual nodes collide.
Injective ==
    \A n, o \in Peer : \A i \in DOMAIN hash[n], j \in DOMAIN hash[o] :
        hash[n][i] = hash[o][j] => n = o /\ i = j

\* The ring is a function of the set of its members: whatever was added and
\* removed in whatever order, it holds exactly the members' virtual nodes, each
\* once, and maps each to its owner.  So nodes that agree on the members agree
\* on the owners, and no point is left without a node.
RingInv ==
    /\ RingTypeOK
    /\ Injective =>
        \A x \in Position :
            /\ keys[x] = Cardinality({n \in members : At(n, x) # {}})
            /\ hashMap[x] = IF keys[x] = 0 THEN NoPeer
                            ELSE CHOOSE n \in members : At(n, x) # {}

\* How far one must go round the ring from x to come to y.
Distance(x, y) == IF y >= x THEN y - x ELSE y - x + Size

\* Get finds the nearest member: reference definition by distance
\* alone.
NearestMember ==
    Injective /\ members # {} =>
        \A x \in Position : \E n \in members, y \in Position :
            /\ Get(x) = n
            /\ At(n, y) # {}
            /\ \A o \in members, z \in Position :
                  At(o, z) # {} => Distance(x, y) <= Distance(x, z)

\* Adding a node moves keys to that node only, and removing one moves that
\* node's keys only: everyone else's cached keys stay where they are.
KeysMoveOnly ==
    \A n \in Peer, x \in Position :
        /\ n \in members' \ members => Get(x)' \in {Get(x), n}
        /\ n \in members \ members' =>
              Get(x)' # n /\ (Get(x) # n => Get(x)' = Get(x))

MinimalDisruption == [][Injective => KeysMoveOnly]_ringVars

\* GetMultiple returns as many different members as there are, up to count,
\* and the key's owner first.
DistinctMembers ==
    Injective => \A x \in Position, count \in 1 .. Cardinality(Peer) :
        LET result == GetMultiple(x, count) IN
        /\ Len(result) = IF count < Cardinality(members)
                         THEN count ELSE Cardinality(members)
        /\ ToSet(result) \subseteq members
        /\ Cardinality(ToSet(result)) = Len(result)
        /\ members # {} => result[1] = Get(x)

\* Lookups agree with the definition, wherever the key lies on the ring, with the
\* wrap-around and on a point itself.
LookupsFindMembers == NearestMember /\ DistinctMembers

=============================================================================
