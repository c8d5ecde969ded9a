------------------------------- MODULE FastLRU -------------------------------
(***************************************************************************)
(* lru.FastLRU (cache/lru/fast_lru.go): an LRU cache in shards, each a map *)
(* and a list under a lock of its own, with counters apart from both.      *)
(*                                                                         *)
(* Get holds the shard's lock for reading only, and moves the element to   *)
(* the front all the same: two Gets of a shard write the list at the same  *)
(* time.  So the list is here as it is in memory, by the pointers next and *)
(* prev of its elements and its root, and a move by a Get as the six       *)
(* assignments of container/list, each a step.  What is done under the     *)
(* write lock is one step, except for the loop of Add, which has one for   *)
(* each turn.  OnEvicted is called outside the lock and left out.          *)
(*                                                                         *)
(* An element is named by its key.  Bound: a key is not added again while  *)
(* a pointer of a damaged list still leads to its former element.          *)
(***************************************************************************)
EXTENDS Integers, Sequences, FiniteSets, Functions

CONSTANTS
    Proc, Key, Value,
    KeyLen, ValLen,     \* len(key) and value.Len()
    ShardCount,         \* a power of two; shards are 0 .. ShardCount - 1
    ShardOf,            \* the shard of each key: its hash & shardMask
    Limits,             \* the values of maxBytes NewFastLRU is called with
    Nil, Missing,       \* no element; no value
    MaxGets, MaxResets  \* bounds: Gets counted, and calls of ResetStats

Shard == 0 .. ShardCount - 1

ASSUME FastLRUAssumption ==
    /\ ShardCount \in Nat \ {0}
    /\ KeyLen \in [Key -> Nat] /\ ValLen \in [Value -> Nat]
    /\ ShardOf \in [Key -> Shard]
    /\ Limits \subseteq Int
    /\ Key \cap Shard = {} /\ Nil \notin Key \cup Shard
    /\ Missing \notin Value
    /\ MaxGets \in Nat /\ MaxResets \in Nat

VARIABLES
    limit,              \* the argument of NewFastLRU
    cache,              \* the keys in the shards' maps
    value,              \* the value of each key's element, the last it had
    links,              \* the pointers next and prev of the elements; a shard
                        \* stands for the root of its list
    nBytes,             \* of each shard
    gets, hits, misses, \* FastLRUStats
    pc, arg,            \* goroutines: the step, and the key or shard it is at
    turn,               \* the next assignment of a move, or load of Stats
    seen,               \* Stats: the counters loaded so far, 0 those not yet loaded
    raced,              \* history: shards where two moves have overlapped
    skewed,             \* history: a ResetStats has overlapped a Get, a Stats
                        \* or another ResetStats
    resets              \* bounds the exploration

lists == <<cache, value, links, nBytes>>
counters == <<gets, hits, misses, seen, skewed, resets>>
vars == <<limit, lists, counters, pc, arg, turn, raced>>

Size(k, v) == KeyLen[k] + ValLen[v]
KeysOf(s) == {k \in Key : ShardOf[k] = s}
Held(s) == cache \cap KeysOf(s)
Node == Key \cup Shard

\* Integer division of Go, which truncates.
Quotient(a, b) == IF a >= 0 THEN a \div b ELSE -((-a) \div b)

\* NewFastLRU shares the limit out; a share of 0 is no limit at all.
MaxBytes == Quotient(limit, ShardCount)

InGet == {"rlock", "found", "move", "hit", "miss"}
InReset == {"reset hits", "reset misses"}
Unseen == [gets |-> 0, hits |-> 0]

TypeOK ==
    /\ limit \in Limits
    /\ cache \subseteq Key
    /\ value \in [Key -> Value \cup {Missing}]
    /\ links \in [{"next", "prev"} -> [Node -> Node \cup {Nil}]]
    /\ nBytes \in [Shard -> Int]
    /\ gets \in Nat /\ hits \in Nat /\ misses \in Nat
    /\ pc \in [Proc -> {"idle", "evict", "panicked", "clear", "count",
                        "load"} \cup InGet \cup InReset]
    /\ arg \in [Proc -> Node \cup {Nil}]
    /\ turn \in [Proc -> 1 .. 6]
    /\ seen \in [Proc -> [gets : Int, hits : Int]]
    /\ raced \subseteq Shard
    /\ skewed \in BOOLEAN
    /\ resets \in 0 .. MaxResets

Init ==
    /\ limit \in Limits
    /\ cache = {}
    /\ value = [k \in Key |-> Missing]
    /\ links = [f \in {"next", "prev"} |->
                    [x \in Node |-> IF x \in Shard THEN x ELSE Nil]]
    /\ nBytes = [s \in Shard |-> 0]
    /\ gets = 0 /\ hits = 0 /\ misses = 0
    /\ pc = [p \in Proc |-> "idle"]
    /\ arg = [p \in Proc |-> Nil]
    /\ turn = [p \in Proc |-> 1]
    /\ seen = [p \in Proc |-> Unseen]
    /\ raced = {}
    /\ skewed = FALSE
    /\ resets = 0

Open == {p \in Proc : pc[p] \in InGet}
Resetting == \E p \in Proc : pc[p] \in InReset

\* The holders of a shard's lock, for reading and for writing.  What takes and
\* gives it back in one step asks only whether it is free.
In(p, s) == arg[p] \in Key /\ ShardOf[arg[p]] = s
Readers(s) == {p \in Proc : pc[p] \in {"found", "move"} /\ In(p, s)}
Writers(s) == {p \in Proc : pc[p] \in {"evict", "panicked"} /\ In(p, s)}
Movers(s) == {p \in Readers(s) : pc[p] = "move"}

\* Go to another step; a call that returns forgets what it was about.
Goto(p, step) ==
    /\ pc' = [pc EXCEPT ![p] = step]
    /\ arg' = IF step = "idle" THEN [arg EXCEPT ![p] = Nil] ELSE arg
Begin(p, step, x) ==
    /\ pc' = [pc EXCEPT ![p] = step]
    /\ arg' = [arg EXCEPT ![p] = x]

-----------------------------------------------------------------------------
(* Faulty variants: the bug each property catches. *)

\* Add and Clear do not wait for readers.
FreeOfWriters(s) == Writers(s) = {}

\* A shard is held to the limit of the whole cache.
OverWholeLimit(s) == limit # 0 /\ nBytes[s] > limit

\* The entry at the front is evicted.
BackAtFront(s) == IF Held(s) = {} THEN Nil ELSE links.next[s]

\* A Get of the front element returns early, before it is counted.
CheckFrontUncounted(p) ==
    LET s == ShardOf[arg[p]] IN
    /\ pc[p] = "found"
    /\ IF links.next[s] = arg[p]
       THEN Goto(p, "idle") /\ UNCHANGED raced
       ELSE /\ Goto(p, "move")
            /\ raced' = IF Movers(s) = {} THEN raced ELSE raced \cup {s}
    /\ UNCHANGED <<limit, lists, counters, turn>>

-----------------------------------------------------------------------------
(* container/list *)

\* A pointer of x, its next or its prev, is made to lead to y.
Point(l, f, x, y) == [l EXCEPT ![f][x] = y]

\* The assignments of list.move; the first two take e out of its place, the
\* others put it behind the root r.
Assign(l, i, e, r) ==
    CASE i = 1 -> Point(l, "next", l.prev[e], l.next[e])
      [] i = 2 -> Point(l, "prev", l.next[e], l.prev[e])
      [] i = 3 -> Point(l, "prev", e, r)
      [] i = 4 -> Point(l, "next", e, l.next[r])
      [] i = 5 -> Point(l, "next", l.prev[e], e)
      [] i = 6 -> Point(l, "prev", l.next[e], e)

Unlink(l, e) == Assign(Assign(l, 1, e, e), 2, e, e)
PushFront(l, e, r) ==
    Assign(Assign(Assign(Assign(l, 3, e, r), 4, e, r), 5, e, r), 6, e, r)
IsFront(l, e, r) == l.next[r] = e
MoveToFront(l, e, r) ==
    IF IsFront(l, e, r) THEN l ELSE PushFront(Unlink(l, e), e, r)
Cut(l, e) == [Unlink(l, e) EXCEPT !.next[e] = Nil, !.prev[e] = Nil]

\* list.Len counts the insertions and removals and follows no pointer.
Back(s) == IF Held(s) = {} THEN Nil ELSE links.prev[s]

Emptied(l, s) ==
    [f \in {"next", "prev"} |->
        [x \in Node |-> IF x = s THEN s
                        ELSE IF x \in KeysOf(s) THEN Nil ELSE l[f][x]]]

-----------------------------------------------------------------------------
(* Get *)

GetStart(p, k) ==
    /\ pc[p] = "idle"
    /\ gets < MaxGets
    /\ gets' = gets + 1
    /\ Begin(p, "rlock", k)
    /\ skewed' = (skewed \/ Resetting)
    /\ UNCHANGED <<limit, lists, hits, misses, seen, resets, turn, raced>>

Lookup(p) ==
    /\ pc[p] = "rlock"
    /\ Writers(ShardOf[arg[p]]) = {}
    /\ Goto(p, IF arg[p] \in cache THEN "found" ELSE "miss")
    /\ UNCHANGED <<limit, lists, counters, turn, raced>>

\* The element at the front stays there; any other begins to move.
CheckFront(p) ==
    LET s == ShardOf[arg[p]] IN
    /\ pc[p] = "found"
    /\ IF IsFront(links, arg[p], s)
       THEN Goto(p, "hit") /\ UNCHANGED raced
       ELSE /\ Goto(p, "move")
            /\ raced' = IF Movers(s) = {} THEN raced ELSE raced \cup {s}
    /\ UNCHANGED <<limit, lists, counters, turn>>

\* An assignment of the move; the lock is given up with the last.
Move(p) ==
    /\ pc[p] = "move"
    /\ links' = Assign(links, turn[p], arg[p], ShardOf[arg[p]])
    /\ IF turn[p] < 6
       THEN turn' = [turn EXCEPT ![p] = @ + 1] /\ UNCHANGED <<pc, arg>>
       ELSE turn' = [turn EXCEPT ![p] = 1] /\ Goto(p, "hit")
    /\ UNCHANGED <<limit, cache, value, nBytes, counters, raced>>

CountHit(p) ==
    /\ pc[p] = "hit"
    /\ hits' = hits + 1
    /\ Goto(p, "idle")
    /\ UNCHANGED <<limit, lists, gets, misses, seen, skewed, resets, turn, raced>>

CountMiss(p) ==
    /\ pc[p] = "miss"
    /\ misses' = misses + 1
    /\ Goto(p, "idle")
    /\ UNCHANGED <<limit, lists, gets, hits, seen, skewed, resets, turn, raced>>

-----------------------------------------------------------------------------
(* Add *)

Unreachable(k) ==
    \A x \in Node \ {k} : links.next[x] # k /\ links.prev[x] # k

Free(s) == Readers(s) = {} /\ Writers(s) = {}

AddUpdate(p, k, v) ==
    LET s == ShardOf[k] IN
    /\ pc[p] = "idle" /\ Free(s)
    /\ k \in cache
    /\ links' = MoveToFront(links, k, s)
    /\ nBytes' = [nBytes EXCEPT ![s] = @ + ValLen[v] - ValLen[value[k]]]
    /\ value' = [value EXCEPT ![k] = v]
    /\ Begin(p, "evict", k)
    /\ UNCHANGED <<limit, cache, counters, turn, raced>>

AddInsert(p, k, v) ==
    LET s == ShardOf[k] IN
    /\ pc[p] = "idle" /\ Free(s)
    /\ k \notin cache /\ Unreachable(k)
    /\ links' = PushFront(links, k, s)
    /\ cache' = cache \cup {k}
    /\ nBytes' = [nBytes EXCEPT ![s] = @ + Size(k, v)]
    /\ value' = [value EXCEPT ![k] = v]
    /\ Begin(p, "evict", k)
    /\ UNCHANGED <<limit, counters, turn, raced>>

OverLimit(s) == MaxBytes # 0 /\ nBytes[s] > MaxBytes

\* A turn of the loop.  An empty list has no last element, and the loop goes
\* round for ever; the root, which the end of a damaged list may lead to, has
\* no entry, and the goroutine panics with the lock held.  Remove does nothing
\* to an element that has left the list, but its bytes are taken off again.
EvictTurn(p) ==
    LET s == ShardOf[arg[p]]
        e == Back(s)
    IN
    /\ pc[p] = "evict"
    /\ OverLimit(s)
    /\ e # Nil
    /\ IF e = s
       THEN Goto(p, "panicked") /\ UNCHANGED lists
       ELSE /\ links' = IF e \in cache THEN Cut(links, e) ELSE links
            /\ cache' = cache \ {e}
            /\ nBytes' = [nBytes EXCEPT ![s] = @ - Size(e, value[e])]
            /\ UNCHANGED <<value, pc, arg>>
    /\ UNCHANGED <<limit, counters, turn, raced>>

AddReturn(p) ==
    /\ pc[p] = "evict"
    /\ ~OverLimit(ShardOf[arg[p]])
    /\ Goto(p, "idle")
    /\ UNCHANGED <<limit, lists, counters, turn, raced>>

-----------------------------------------------------------------------------
(* Clear, Len, Stats, ResetStats *)

\* On to the next shard, or back to the caller after the last.
NextShard(p) ==
    IF arg[p] + 1 \in Shard
    THEN arg' = [arg EXCEPT ![p] = @ + 1] /\ UNCHANGED pc
    ELSE Goto(p, "idle")

ClearStart(p) ==
    /\ pc[p] = "idle"
    /\ Begin(p, "clear", 0)
    /\ UNCHANGED <<limit, lists, counters, turn, raced>>

\* A new map and an empty list: damage to the old one is gone with it.
ClearShard(p) ==
    LET s == arg[p] IN
    /\ pc[p] = "clear"
    /\ Free(s)
    /\ cache' = cache \ KeysOf(s)
    /\ value' = [k \in Key |-> IF k \in KeysOf(s) THEN Missing ELSE value[k]]
    /\ links' = Emptied(links, s)
    /\ nBytes' = [nBytes EXCEPT ![s] = 0]
    /\ raced' = raced \ {s}
    /\ NextShard(p)
    /\ UNCHANGED <<limit, counters, turn>>

\* Len, and Stats once it has the counters, read shard by shard.
LenStart(p) ==
    /\ pc[p] = "idle"
    /\ Begin(p, "count", 0)
    /\ UNCHANGED <<limit, lists, counters, turn, raced>>

CountShard(p) ==
    /\ pc[p] = "count"
    /\ Writers(arg[p]) = {}
    /\ NextShard(p)
    /\ UNCHANGED <<limit, lists, counters, turn, raced>>

\* Stats loads the counters one by one, in this order, while Gets go on.
LoadOrder == <<"gets", "hits", "misses">>

\* The counters as they are; of gets, the Gets that have returned.
Now == [gets |-> gets - Cardinality(Open), hits |-> hits, misses |-> misses]

StatsStart(p) ==
    /\ pc[p] = "idle"
    /\ Begin(p, "load", Nil)
    /\ skewed' = (skewed \/ Resetting)
    /\ UNCHANGED <<limit, lists, gets, hits, misses, seen, resets, turn, raced>>

Load(p) ==
    LET c == LoadOrder[turn[p]] IN
    /\ pc[p] = "load"
    /\ IF turn[p] < 3
       THEN /\ turn' = [turn EXCEPT ![p] = @ + 1]
            /\ seen' = [seen EXCEPT ![p][c] = Now[c]]
            /\ UNCHANGED <<pc, arg>>
       ELSE /\ turn' = [turn EXCEPT ![p] = 1]
            /\ seen' = [seen EXCEPT ![p] = Unseen]
            /\ Begin(p, "count", 0)
    /\ UNCHANGED <<limit, lists, gets, hits, misses, skewed, resets, raced>>

ResetGets(p) ==
    /\ pc[p] = "idle"
    /\ resets < MaxResets
    /\ resets' = resets + 1
    /\ gets' = 0
    /\ Goto(p, "reset hits")
    /\ skewed' = (skewed \/ Resetting \/ \E q \in Proc : pc[q] \in InGet \cup {"load"})
    /\ UNCHANGED <<limit, lists, hits, misses, seen, turn, raced>>

ResetHits(p) ==
    /\ pc[p] = "reset hits"
    /\ hits' = 0
    /\ Goto(p, "reset misses")
    /\ UNCHANGED <<limit, lists, gets, misses, seen, skewed, resets, turn, raced>>

ResetMisses(p) ==
    /\ pc[p] = "reset misses"
    /\ misses' = 0
    /\ Goto(p, "idle")
    /\ UNCHANGED <<limit, lists, gets, hits, seen, skewed, resets, turn, raced>>

Step(p) ==
    \/ Lookup(p) \/ CheckFront(p) \/ Move(p) \/ CountHit(p) \/ CountMiss(p)
    \/ EvictTurn(p) \/ AddReturn(p)
    \/ ClearShard(p) \/ CountShard(p)
    \/ Load(p) \/ ResetHits(p) \/ ResetMisses(p)

Next ==
    \E p \in Proc :
        \/ \E k \in Key : GetStart(p, k)
        \/ \E k \in Key, v \in Value : AddUpdate(p, k, v) \/ AddInsert(p, k, v)
        \/ ClearStart(p) \/ LenStart(p) \/ StatsStart(p) \/ ResetGets(p)
        \/ Step(p)

Spec == Init /\ [][Next]_vars

-----------------------------------------------------------------------------
\* Whoever follows the list either way meets the elements of the map, each once.
Intact(s) ==
    LET nodes == Held(s) \cup {s}
        forward[i \in 0 .. Cardinality(nodes)] ==
            IF i = 0 THEN s ELSE links.next[forward[i - 1]]
    IN
    /\ \A x \in nodes : links.next[x] \in nodes /\ links.prev[links.next[x]] = x
    /\ {forward[i] : i \in DOMAIN forward} = nodes

\* A shard's map, list and byte count tell the same story, and no Add panics, as
\* long as no two moves of the shard overlapped.
ListsIntact ==
    \A s \in Shard \ raced :
        /\ Movers(s) = {} => Intact(s)
        /\ nBytes[s] = SumFunctionOnSet([k \in Held(s) |-> Size(k, value[k])], Held(s))
        /\ \A p \in Writers(s) : pc[p] # "panicked"

\* The shards that no Add is at work on hold no more, together, than the limit of
\* NewFastLRU, unless each one's share of it came to nothing.
LimitKept ==
    limit >= ShardCount =>
        SumFunctionOnSet(nBytes, {s \in Shard : Writers(s) = {}}) <= limit

\* However calls interleave, every shard stays whole until two Gets race in it,
\* which the read lock lets them do (fast_lru.go:97), and until the next Clear;
\* and the limit is kept, although only the shares of it are looked at.
ShardsIntact == TypeOK /\ ListsIntact /\ LimitKept

\* Not even a race makes a Get follow a nil pointer: the element it moves has
\* both its pointers at every assignment, whatever was evicted before.
MovesAreSafe ==
    \A p \in Proc : pc[p] = "move" =>
        links.next[arg[p]] # Nil /\ links.prev[arg[p]] # Nil

\* An entry that fits the shard's limit is there when its Add returns: what it
\* evicts is older, unless the list was damaged.
NewestStays ==
    [][\A p \in Proc :
        LET k == arg[p] IN
        pc[p] = "evict" /\ pc'[p] = "idle" /\ ShardOf[k] \notin raced =>
            (k \in cache <=> MaxBytes = 0 \/ Size(k, value[k]) <= MaxBytes)]_vars

\* COMPREHENSIVE_OPTIMIZATION.md:182-184 presents the sharded LRU as ready for
\* production and safe for concurrent use.  It is not: a race of two Gets can
\* leave a list that makes a later Add panic.
ConcurrencySafe == \A p \in Proc : pc[p] # "panicked"

\* Every Get is counted once more as a hit or as a miss.
GetsAddUp == gets = hits + misses + Cardinality(Open)

\* Stats reports as many hits and misses, or more, as Gets had returned when it
\* loaded gets, although all of them go on between its loads.
StatsNotLow ==
    \A p \in Proc : pc[p] = "load" /\ turn[p] = 3 =>
        seen[p].hits + misses >= seen[p].gets

\* The counters, which no lock guards, differ by the Gets in progress and by
\* nothing else, and no Get that has returned is missing from what Stats makes
\* of them, unless a ResetStats overlapped a Get or a Stats (fast_lru.go:210;
\* the difference that makes stays for good).
CountersAddUp ==
    ~skewed => StatsNotLow /\ (~Resetting => GetsAddUp)
=============================================================================
