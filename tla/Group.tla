-------------------------------- MODULE Group --------------------------------
(***************************************************************************)
(* cache.Group (cache/gocache.go): Get looks into mainCache and, on a      *)
(* miss, loads the key through a singleflight.Group.  The load asks the    *)
(* peer that owns the key, if peers are registered and the owner is not    *)
(* this node, and falls back to the user's getter; only what the getter    *)
(* returns is put into mainCache.                                          *)
(*                                                                         *)
(* The steps of loader.Do are the actions of SingleFlight: each of them    *)
(* that Group takes is a conjunct here.  Between SF!Lead and SF!FnReturn   *)
(* a goroutine runs the closure of load, one step for each point where     *)
(* something shared is read or written.                                    *)
(*                                                                         *)
(* Values are versions: src[k] is the source's current one, the getter     *)
(* returns what the source holds while it runs, a peer some version the    *)
(* source has had.  mainCache is what CacheStore promises of it: a map,    *)
(* which forgets entries when it has a limit.  Get("") is left out: it     *)
(* returns an error before it reads anything.                              *)
(***************************************************************************)
EXTENDS Naturals

CONSTANTS
    Proc, Key, Call,
    PanicKey,       \* the keys whose getter may panic
    Limited,        \* whether the cache has a limit: cacheBytes # 0
    NoCall, Unset,  \* see SingleFlight
    Missing,        \* no value in mainCache; no value in hand
    Err,            \* the result of a load that failed
    MaxVersion      \* bound of the exploration: versions of a key

Version == 1 .. MaxVersion
Request == [key : Key, floor : Version]

ASSUME GroupAssumption ==
    /\ NoCall \notin Call
    /\ PanicKey \subseteq Key
    /\ Limited \in BOOLEAN
    /\ MaxVersion \in Nat \ {0}
    /\ Missing \notin Nat
    /\ {Err, Unset} \cap (Nat \cup {Missing}) = {} /\ Err # Unset
    /\ Missing \notin Request

VARIABLES
    m, val, done, pc, ref, arg, \* the loader: see SingleFlight
    mainCache,  \* the cached version of each key, or Missing
    picker,     \* the words of the interface value g.picker
    src,        \* external: the source's version of each key
    at,         \* where each goroutine is in Get and in load's closure
    bytes,      \* what the getter returned to each goroutine
    floor, asked, answer   \* history: see ReadThrough

loaderVars == <<m, val, done, pc, ref, arg>>
history == <<floor, asked, answer>>
vars == <<loaderVars, mainCache, picker, src, at, bytes, history>>

SF == INSTANCE SingleFlight WITH
    Result <- Version \cup {Err},
    PanicKey <- Key     \* a torn g.picker makes any load panic

\* "out" of Get; "missed", about to call loader.Do; in Do, and not in fn; or in
\* fn: at the test of g.picker, at the call of PickPeer, in peer.Get, in
\* getter.Get, and before populateCache.
InFn == {"test", "pick", "peer", "getter", "populate"}
Place == {"out", "missed", "do"} \cup InFn

TypeOK ==
    /\ SF!TypeOK
    /\ mainCache \in [Key -> Version \cup {Missing}]
    /\ picker \in {"nil", "torn", "set"}
    /\ src \in [Key -> Version]
    /\ at \in [Proc -> Place]
    /\ bytes \in [Proc -> Version \cup {Missing}]
    /\ floor \in [Key -> Version]
    /\ asked \in [Proc -> Request \cup {Missing}]
    /\ answer \in Version \cup {Missing, Err}

\* NewGroup.  g.picker is nil until RegisterPeers.
Init ==
    /\ SF!Init
    /\ mainCache = [k \in Key |-> Missing]
    /\ picker = "nil"
    /\ src = [k \in Key |-> 1]
    /\ at = [p \in Proc |-> "out"]
    /\ bytes = [p \in Proc |-> Missing]
    /\ floor = [k \in Key |-> 1]
    /\ asked = [p \in Proc |-> Missing]
    /\ answer = Missing

Goto(p, place) == at' = [at EXCEPT ![p] = place]

\* History of a step that neither begins a Get nor ends one.
Quiet == answer' = Missing /\ UNCHANGED <<floor, asked>>

\* A Get begins that will not be answered at once, and one ends.
Begin(p, k) ==
    /\ asked' = [asked EXCEPT ![p] = [key |-> k, floor |-> floor[k]]]
    /\ answer' = Missing
    /\ UNCHANGED floor

Finish(p, r) ==
    /\ asked' = [asked EXCEPT ![p] = Missing]
    /\ answer' = r
    /\ UNCHANGED floor

-----------------------------------------------------------------------------
(* Faulty variants: the bug each property catches. *)

\* A goroutine that finds a flight under way loads the key as well.
DoJoinLoads(p) ==
    /\ at[p] = "missed"
    /\ SF!Join(p, asked[p].key)
    /\ Goto(p, "test")
    /\ UNCHANGED <<mainCache, picker, src, bytes>>
    /\ Quiet

\* The peer's answer is cached like the getter's.
PeerReturnsCached(p) ==
    /\ at[p] = "peer"
    /\ \E v \in 1 .. src[arg[p]] :
        /\ SF!FnReturn(p, v)
        /\ mainCache' = [mainCache EXCEPT ![arg[p]] = v]
    /\ Goto(p, "do")
    /\ UNCHANGED <<picker, src, bytes>>
    /\ Quiet

-----------------------------------------------------------------------------
\* mainCache.get finds the key: Get returns the value.
Hit(p, k) ==
    /\ at[p] = "out"
    /\ mainCache[k] # Missing
    /\ answer' = mainCache[k]
    /\ UNCHANGED <<loaderVars, mainCache, picker, src, at, bytes,
                   floor, asked>>

\* It does not: Get goes on to load, where another goroutine may be faster.
Miss(p, k) ==
    /\ at[p] = "out"
    /\ mainCache[k] = Missing
    /\ Goto(p, "missed")
    /\ Begin(p, k)
    /\ UNCHANGED <<loaderVars, mainCache, picker, src, bytes>>

DoJoin(p) ==
    /\ at[p] = "missed"
    /\ SF!Join(p, asked[p].key)
    /\ Goto(p, "do")
    /\ UNCHANGED <<mainCache, picker, src, bytes>>
    /\ Quiet

DoLead(p) ==
    /\ at[p] = "missed"
    /\ SF!Lead(p, asked[p].key)
    /\ Goto(p, "test")
    /\ UNCHANGED <<mainCache, picker, src, bytes>>
    /\ Quiet

\* if g.picker != nil: true as soon as the type word is there.
TestPicker(p) ==
    /\ at[p] = "test"
    /\ Goto(p, IF picker = "nil" THEN "getter" ELSE "pick")
    /\ UNCHANGED <<loaderVars, mainCache, picker, src, bytes>>
    /\ Quiet

\* PickPeer finds that this node owns the key, or which peer does.  Which
\* depends on the ring, and so on the calls of HTTPPool.Set: either may happen.
PickPeer(p) ==
    /\ at[p] = "pick"
    /\ picker = "set"
    /\ \E place \in {"getter", "peer"} : Goto(p, place)
    /\ UNCHANGED <<loaderVars, mainCache, picker, src, bytes>>
    /\ Quiet

\* The goroutine unwinds out of Get (net/http recovers a handler's panic).
Panic(p) ==
    /\ SF!FnPanic(p)
    /\ Goto(p, "out")
    /\ Finish(p, Err)
    /\ UNCHANGED <<mainCache, picker, src, bytes>>

\* The data word of g.picker is not there yet: PickPeer dereferences nil.
PickPanic(p) == at[p] = "pick" /\ picker = "torn" /\ Panic(p)

GetterPanic(p) == at[p] = "getter" /\ arg[p] \in PanicKey /\ Panic(p)

\* getFromPeer succeeds: its value is the flight's result and is not cached.
PeerReturns(p) ==
    /\ at[p] = "peer"
    /\ \E v \in 1 .. src[arg[p]] : SF!FnReturn(p, v)
    /\ Goto(p, "do")
    /\ UNCHANGED <<mainCache, picker, src, bytes>>
    /\ Quiet

\* getFromPeer fails: load logs it and goes on to getLocally.
PeerFails(p) ==
    /\ at[p] = "peer"
    /\ Goto(p, "getter")
    /\ UNCHANGED <<loaderVars, mainCache, picker, src, bytes>>
    /\ Quiet

\* g.getter.Get returns what the source holds at some time during the call.
GetterReturns(p) ==
    /\ at[p] = "getter"
    /\ bytes' = [bytes EXCEPT ![p] = src[arg[p]]]
    /\ Goto(p, "populate")
    /\ UNCHANGED <<loaderVars, mainCache, picker, src>>
    /\ Quiet

\* It fails: so does the flight, and nothing is cached.
GetterFails(p) ==
    /\ at[p] = "getter"
    /\ SF!FnReturn(p, Err)
    /\ Goto(p, "do")
    /\ UNCHANGED <<mainCache, picker, src, bytes>>
    /\ Quiet

\* mainCache.add(k, v), under its lock: the entry replaces the key's old one,
\* and a cache with a limit may evict any entries, the new one included.
CacheAdd(k, v) ==
    \E evicted \in SUBSET Key :
        /\ evicted # {} => Limited
        /\ mainCache' = [l \in Key |->
              IF l \in evicted THEN Missing
              ELSE IF l = k THEN v
              ELSE mainCache[l]]

\* populateCache, after which fn returns the value.
Populate(p) ==
    /\ at[p] = "populate"
    /\ CacheAdd(arg[p], bytes[p])
    /\ SF!FnReturn(p, bytes[p])
    /\ bytes' = [bytes EXCEPT ![p] = Missing]
    /\ floor' = [floor EXCEPT ![arg[p]] = bytes[p]]
    /\ answer' = Missing
    /\ Goto(p, "do")
    /\ UNCHANGED <<picker, src, asked>>

\* wg.Done()
Release(p) ==
    /\ at[p] = "do"
    /\ SF!Done(p)
    /\ UNCHANGED <<mainCache, picker, src, at, bytes>>
    /\ Quiet

\* loader.Do returns, to the leader or to a waiter, and so does Get.
Return(p) ==
    /\ at[p] = "do"
    /\ SF!Delete(p) \/ SF!WaitReturn(p)
    /\ Goto(p, "out")
    /\ Finish(p, val[ref[p]])
    /\ UNCHANGED <<mainCache, picker, src, bytes>>

\* RegisterPeers assigns a two-word interface value without a lock, while
\* goroutines may be in load (main.go starts the API server first).  Readers
\* may see it half written, or whole.  A second call panics.
RegisterPeers ==
    /\ picker = "nil"
    /\ picker' \in {"torn", "set"}
    /\ UNCHANGED <<loaderVars, mainCache, src, at, bytes>>
    /\ Quiet

RegisterPeersDone ==
    /\ picker = "torn"
    /\ picker' = "set"
    /\ UNCHANGED <<loaderVars, mainCache, src, at, bytes>>
    /\ Quiet

\* External: the source gets a new version of a key.
Update(k) ==
    /\ src[k] < MaxVersion
    /\ src' = [src EXCEPT ![k] = @ + 1]
    /\ UNCHANGED <<loaderVars, mainCache, picker, at, bytes>>
    /\ Quiet

\* What a goroutine does on its own once its Get has missed.
Step(p) ==
    \/ DoJoin(p) \/ DoLead(p)
    \/ TestPicker(p) \/ PickPeer(p) \/ PickPanic(p)
    \/ PeerReturns(p) \/ PeerFails(p)
    \/ GetterReturns(p) \/ GetterFails(p) \/ GetterPanic(p)
    \/ Populate(p) \/ Release(p) \/ Return(p)

Next ==
    \/ \E p \in Proc :
        \/ \E k \in Key : Hit(p, k) \/ Miss(p, k)
        \/ Step(p)
    \/ RegisterPeers \/ RegisterPeersDone
    \/ \E k \in Key : Update(k)

Spec == Init /\ [][Next]_vars

\* Fairness: goroutines are scheduled, getters and peers answer (peer.Get has
\* no timeout of its own), and a begun RegisterPeers completes.
FairSpec ==
    /\ Spec
    /\ \A p \in Proc : WF_vars(Step(p))
    /\ WF_vars(RegisterPeersDone)

-----------------------------------------------------------------------------
\* At most one goroutine is in load's closure for a key: neither the getter
\* nor a peer is ever asked twice at a time for one key.
OneLoadPerKey ==
    \A p, q \in Proc :
        at[p] \in InFn /\ at[q] \in InFn /\ arg[p] = arg[q] => p = q

-----------------------------------------------------------------------------
(* How Get's own steps and those of the loader fit together: the parts of an *)
(* inductive invariant.                                                      *)

\* A goroutine is in Do exactly while its Get says so, and for the same key.
InStep ==
    \A p \in Proc :
        /\ (at[p] = "out") = (asked[p] = Missing)
        /\ at[p] \in {"out", "missed"} <=> pc[p] = "idle"
        /\ at[p] \in InFn <=> pc[p] = "run"
        /\ at[p] \in InFn \cup {"do"} => arg[p] = asked[p].key
        /\ (bytes[p] # Missing) = (at[p] = "populate")

\* What is cached is the newest version the group has ever cached: no value
\* that was read from the source before an update overtakes one read after it,
\* and no peer's answer gets in.
CacheAtFloor == \A k \in Key : mainCache[k] \in {floor[k], Missing}

\* The value on its way into the cache is no older than what it replaces.
LoadAboveFloor ==
    \A p \in Proc : at[p] = "populate" => bytes[p] >= floor[arg[p]]

\* Without peers a completed flight has, for all who may still read it, the
\* version that was the newest when it completed, or an error: it is as new as
\* the floor as long as it can be joined, and no older than anyone's request.
FlightAboveFloor ==
    picker = "nil" =>
        /\ \A k \in Key :
            m[k] # NoCall /\ val[m[k]] \in Version => val[m[k]] >= floor[k]
        /\ \A p \in Proc :
            ref[p] # NoCall /\ val[ref[p]] \in Version
                => val[ref[p]] >= asked[p].floor

GroupInv == TypeOK /\ InStep /\ CacheAtFloor /\ LoadAboveFloor /\ FlightAboveFloor

\* Reads are monotonic: see ReadThrough.  The hazards are a goroutine that is
\* held up between its miss and its load, a waiter that wakes long after its
\* flight, a flight that is joined after it has completed, a value that the
\* getter read before an update and that is cached after it, and evictions.
Abs == INSTANCE ReadThrough WITH peered <- picker # "nil", None <- Missing

ImplementsReadThrough == Abs!Spec

\* A flight that panicked is registered for ever: nobody works on it.
Poisoned(k) ==
    /\ m[k] # NoCall
    /\ ~done[m[k]]
    /\ \A p \in Proc : at[p] \in InFn \/ pc[p] = "stored" => arg[p] # k

\* Every Get returns, unless a load of its key has panicked.
GetReturnsUnlessPoisoned ==
    \A p \in Proc : \A k \in Key :
        (at[p] # "out" /\ asked[p].key = k) ~> (at[p] = "out" \/ Poisoned(k))

=============================================================================
