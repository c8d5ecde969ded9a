-------------------------------- MODULE LRU --------------------------------
(***************************************************************************)
(* lru.Cache (cache/lru/lru.go): a map from keys to the elements of a      *)
(* doubly linked list that is kept in order of use, and a count of the     *)
(* bytes held.  Add evicts from the back of the list while the count is    *)
(* over the limit; each turn of that loop is a step of its own, so that    *)
(* whether Add returns is a question one can ask.                          *)
(*                                                                         *)
(* The struct is not safe for concurrent use; its one user, cache.add and  *)
(* cache.get of cache/cache.go, holds a mutex around each call.            *)
(***************************************************************************)
EXTENDS Integers, Sequences, SequencesExt

CONSTANTS
    Key, Value,
    KeyLen, ValLen,     \* len(key) and value.Len()
    Limits,             \* the values of maxBytes that New is called with
    Missing             \* no value: Get's ok = false

ASSUME LenAssumption ==
    /\ KeyLen \in [Key -> Nat]
    /\ ValLen \in [Value -> Nat]
ASSUME LimitsAssumption == Limits \subseteq Int
ASSUME MissingAssumption == Missing \notin Value

VARIABLES
    maxBytes,   \* the limit; 0 is none
    nBytes,     \* the bytes held, by the cache's own count
    ll,         \* the list of entries, the front first
    cache,      \* the keys in the map; each one's element is At(k)
    pc,         \* "evict" while Add is in its loop
    answer,     \* what the last Get returned
    added,      \* the arguments of the last Add
    reported,   \* the entry OnEvicted was last called with
    use,        \* history: the keys ever used, the most recent first
    placed      \* history: the list when Add enters its loop

vars == <<maxBytes, nBytes, ll, cache, pc, answer, added, reported, use,
          placed>>

Entry == [key : Key, value : Value]

EntrySize(e) == KeyLen[e.key] + ValLen[e.value]

TypeOK ==
    /\ maxBytes \in Limits
    /\ nBytes \in Nat
    /\ ll \in Seq(Entry)
    /\ cache \subseteq Key
    /\ pc \in {"idle", "evict"}
    /\ answer \in Value \cup {Missing}
    /\ added \in Entry \cup {Missing}
    /\ reported \in Entry \cup {Missing}
    /\ use \in Seq(Key)
    /\ placed \in Seq(Entry)

Init ==
    /\ maxBytes \in Limits
    /\ nBytes = 0
    /\ ll = <<>>
    /\ cache = {}
    /\ pc = "idle"
    /\ answer = Missing
    /\ added = Missing
    /\ reported = Missing
    /\ use = <<>>
    /\ placed = <<>>

\* The element the map has for k.
At(k) == CHOOSE i \in DOMAIN ll : ll[i].key = k

\* The list with its i-th element at the front, its entry being e.
ToFront(i, e) == <<e>> \o RemoveAt(ll, i)

\* Get and Add use a key; the history of uses does not depend on the list.
Use(k) ==
    \/ \E i \in DOMAIN use : use[i] = k /\ use' = <<k>> \o RemoveAt(use, i)
    \/ (\A i \in DOMAIN use : use[i] # k) /\ use' = <<k>> \o use

-----------------------------------------------------------------------------
(* Faulty variants: the bug each property catches. *)

\* Get does not move the element.
GetHitInPlace(k) ==
    /\ pc = "idle"
    /\ k \in cache
    /\ answer' = ll[At(k)].value
    /\ Use(k)
    /\ UNCHANGED <<maxBytes, nBytes, ll, cache, pc, added, reported, placed>>

\* An update counts the key's bytes again.
AddUpdateRecounts(k, v) ==
    /\ pc = "idle"
    /\ k \in cache
    /\ LET old == ll[At(k)] IN
        /\ ll' = ToFront(At(k), [old EXCEPT !.value = v])
        /\ nBytes' = nBytes + KeyLen[k] + ValLen[v] - ValLen[old.value]
    /\ Use(k)
    /\ added' = [key |-> k, value |-> v]
    /\ pc' = "evict"
    /\ placed' = ll'
    /\ UNCHANGED <<maxBytes, cache, answer, reported>>

\* An update moves the element and keeps the old value.
AddUpdateKeepsValue(k, v) ==
    /\ pc = "idle"
    /\ k \in cache
    /\ ll' = ToFront(At(k), ll[At(k)])
    /\ nBytes' = nBytes
    /\ Use(k)
    /\ added' = [key |-> k, value |-> v]
    /\ pc' = "evict"
    /\ placed' = ll'
    /\ UNCHANGED <<maxBytes, cache, answer, reported>>

\* <= for < : an entry is evicted although everything fits.
OverLimitOrFull == maxBytes # 0 /\ maxBytes <= nBytes

\* The bytes of an evicted entry's key are never given back.
RemoveOldestLeaks ==
    IF ll = <<>>
    THEN UNCHANGED <<nBytes, ll, cache, reported>>
    ELSE LET e == Last(ll) IN
         /\ ll' = Front(ll)
         /\ cache' = cache \ {e.key}
         /\ nBytes' = nBytes - ValLen[e.value]
         /\ reported' = e

-----------------------------------------------------------------------------
GetHit(k) ==
    /\ pc = "idle"
    /\ k \in cache
    /\ ll' = ToFront(At(k), ll[At(k)])
    /\ answer' = ll[At(k)].value
    /\ Use(k)
    /\ UNCHANGED <<maxBytes, nBytes, cache, pc, added, reported, placed>>

GetMiss(k) ==
    /\ pc = "idle"
    /\ k \notin cache
    /\ answer' = Missing
    /\ UNCHANGED <<maxBytes, nBytes, ll, cache, pc, added, reported, use,
                   placed>>

\* Add of a key in the map: the entry moves to the front with its new value.
AddUpdate(k, v) ==
    /\ pc = "idle"
    /\ k \in cache
    /\ LET old == ll[At(k)] IN
        /\ ll' = ToFront(At(k), [old EXCEPT !.value = v])
        /\ nBytes' = nBytes + ValLen[v] - ValLen[old.value]
    /\ Use(k)
    /\ added' = [key |-> k, value |-> v]
    /\ pc' = "evict"
    /\ placed' = ll'
    /\ UNCHANGED <<maxBytes, cache, answer, reported>>

\* Add of a new key: a new element at the front.
AddInsert(k, v) ==
    /\ pc = "idle"
    /\ k \notin cache
    /\ LET e == [key |-> k, value |-> v] IN
        /\ ll' = <<e>> \o ll
        /\ nBytes' = nBytes + EntrySize(e)
    /\ cache' = cache \cup {k}
    /\ Use(k)
    /\ added' = [key |-> k, value |-> v]
    /\ pc' = "evict"
    /\ placed' = ll'
    /\ UNCHANGED <<maxBytes, answer, reported>>

OverLimit == maxBytes # 0 /\ maxBytes < nBytes

\* RemoveOldest does nothing to an empty list; otherwise the entry at the back
\* leaves the list, the map and the count, and OnEvicted is told.
RemoveOldest ==
    IF ll = <<>>
    THEN UNCHANGED <<nBytes, ll, cache, reported>>
    ELSE LET e == Last(ll) IN
         /\ ll' = Front(ll)
         /\ cache' = cache \ {e.key}
         /\ nBytes' = nBytes - EntrySize(e)
         /\ reported' = e

Evict ==
    /\ pc = "evict"
    /\ OverLimit
    /\ RemoveOldest
    /\ UNCHANGED <<maxBytes, pc, answer, added, use, placed>>

AddReturn ==
    /\ pc = "evict"
    /\ ~OverLimit
    /\ pc' = "idle"
    /\ placed' = <<>>
    /\ UNCHANGED <<maxBytes, nBytes, ll, cache, answer, added, reported, use>>

Next ==
    \/ \E k \in Key : GetHit(k) \/ GetMiss(k)
    \/ \E k \in Key, v \in Value : AddUpdate(k, v) \/ AddInsert(k, v)
    \/ Evict
    \/ AddReturn

Spec == Init /\ [][Next]_vars

\* The loop of Add runs on; nobody is obliged to call Get or Add.
FairSpec == Spec /\ WF_vars(Evict) /\ WF_vars(AddReturn)

-----------------------------------------------------------------------------
KeysOf(s) == [i \in DOMAIN s |-> s[i].key]

TotalSize(s) == SumFunctionOnSet([i \in DOMAIN s |-> EntrySize(s[i])], DOMAIN s)

\* The map and the list have the same keys, one element each.
MapIsList ==
    /\ cache = {ll[i].key : i \in DOMAIN ll}
    /\ \A i, j \in DOMAIN ll : ll[i].key = ll[j].key => i = j

\* The map, the list and the byte count tell the same story at every step,
\* inside Add's loop too: one element per key in the map, and as many bytes
\* counted as the entries in the list have.
IndexMatchesList ==
    /\ TypeOK
    /\ MapIsList
    /\ nBytes = TotalSize(ll)

\* Recency: whatever sequence of calls came before, the keys in the cache are
\* exactly the most recently used ones, in the order of their last use.
HoldsMostRecent == IsPrefix(KeysOf(ll), use)

\* Add evicts exactly what it must: it returns with the longest run of most
\* recent entries that fits the limit (nothing at all when the entry just
\* added is larger than the limit by itself).
EvictsExactly ==
    [][pc = "evict" /\ pc' = "idle" =>
        \A n \in 0 .. Len(placed) :
            LET kept == SubSeq(placed, 1, n) IN
            n > Len(ll) <=> maxBytes # 0 /\ TotalSize(kept) > maxBytes]_vars

\* Get finds what was last added under the key or, when the cache has a limit,
\* nothing; nothing leaves the cache without a call of OnEvicted.
Abs == INSTANCE CacheStore WITH
    limited <- maxBytes # 0,
    put <- added,
    store <- [k \in Key |-> IF k \in cache THEN ll[At(k)].value ELSE Missing]

ImplementsCacheStore == Abs!Spec

\* Add returns: its loop ends for every limit that is not negative.  (For a
\* negative one it does not: RemoveOldest does nothing once the list is empty.)
AddReturns == (pc = "evict" /\ maxBytes >= 0) ~> (pc = "idle")
=============================================================================
