------------------------------ MODULE TTLGroup ------------------------------
(***************************************************************************)
(* TTLGroup (cache/ttl.go): a Group with a TTLCache in front of it.        *)
(* GetWithTTL looks into the TTL cache, gets the value from the Group if   *)
(* there is none, and then sets it in the TTL cache, in three steps that   *)
(* share no lock.  Of the Group only what ReadThrough promises matters: it *)
(* returns what its own cache holds, which never expires, or loads it.     *)
(* The lifetime given to NewTTLGroup is not used by the code.              *)
(*                                                                         *)
(* The other operations of the TTL cache are open to the code of the       *)
(* package, and are steps here as well.                                    *)
(***************************************************************************)
EXTENDS TTLCache

VARIABLES
    mainCache,  \* the value the Group has cached for each key, or None
    at,         \* where each goroutine is in GetWithTTL
    value,      \* the value each goroutine has in hand, or None
    asked       \* the key and the lifetime each goroutine has asked for

groupVars == <<mainCache, at, value, asked>>
vars == <<ttlVars, groupVars>>

TypeOK ==
    /\ TTLTypeOK
    /\ mainCache \in [Key -> Time \cup {None}]
    /\ at \in [Proc -> {"out", "check", "get", "set"}]
    /\ value \in [Proc -> Time \cup {None}]
    /\ asked \in [Proc -> [key : Key, ttl : TTL] \cup {None}]

Init ==
    /\ TTLInit
    /\ mainCache = [k \in Key |-> None]
    /\ at = [p \in Proc |-> "out"]
    /\ value = [p \in Proc |-> None]
    /\ asked = [p \in Proc |-> None]

Goto(p, place) == at' = [at EXCEPT ![p] = place]

-----------------------------------------------------------------------------
\* GetWithTTL begins: the TTL cache has an entry, good or expired, or none.
Begin(p, k, ttl) ==
    /\ at[p] = "out"
    /\ asked' = [asked EXCEPT ![p] = [key |-> k, ttl |-> ttl]]
    /\ \/ Read(p, k) /\ Goto(p, "check")
       \/ cache[k] = None /\ Goto(p, "get") /\ UNCHANGED ttlVars
    /\ UNCHANGED <<mainCache, value>>

\* GetWithTTL returns.
Leave(p) ==
    /\ at' = [at EXCEPT ![p] = "out"]
    /\ value' = [value EXCEPT ![p] = None]
    /\ asked' = [asked EXCEPT ![p] = None]

ReturnHit(p) ==
    /\ at[p] = "check"
    /\ CheckLive(p)
    /\ Leave(p)
    /\ UNCHANGED mainCache

GoOn(p) ==
    /\ at[p] = "check"
    /\ CheckExpired(p)
    /\ Goto(p, "get")
    /\ UNCHANGED <<mainCache, value, asked>>

\* tg.Get: what the Group has cached, or a fresh value, which it caches.
GroupGet(p) ==
    /\ at[p] = "get"
    /\ LET k == asked[p].key
           v == IF mainCache[k] # None THEN mainCache[k] ELSE now
       IN /\ value' = [value EXCEPT ![p] = v]
          /\ mainCache' = [mainCache EXCEPT ![k] = v]
    /\ Goto(p, "set")
    /\ UNCHANGED <<ttlVars, asked>>

\* tg.Get fails: GetWithTTL returns the error and sets nothing.
GroupFails(p) ==
    /\ at[p] = "get"
    /\ mainCache[asked[p].key] = None
    /\ Leave(p)
    /\ UNCHANGED <<ttlVars, mainCache>>

\* ttlCache.Set, with a lifetime that begins now whatever the value's age.
ReturnSet(p) ==
    /\ at[p] = "set"
    /\ Put(asked[p].key, value[p], asked[p].ttl)
    /\ Leave(p)
    /\ UNCHANGED <<now, snap, pending, ticked, stopped, worker, readNow>>
    /\ UNCHANGED mainCache

\* The Group's cache evicts an entry.
Evict(k) ==
    /\ mainCache[k] # None
    /\ mainCache' = [mainCache EXCEPT ![k] = None]
    /\ UNCHANGED <<ttlVars, at, value, asked>>

\* Steps of the TTL cache that no goroutine of GetWithTTL takes.
CacheStep ==
    /\ Background \/ CallerRemoves \/ Close
    /\ UNCHANGED groupVars

GetStep(p) ==
    ReturnHit(p) \/ GoOn(p) \/ GroupGet(p) \/ GroupFails(p) \/ ReturnSet(p)

Next ==
    \/ \E p \in Proc :
        \/ \E k \in Key, ttl \in TTL : Begin(p, k, ttl)
        \/ GetStep(p)
    \/ \E k \in Key : Evict(k)
    \/ CacheStep

Spec == Init /\ [][Next]_vars

\* Fairness: goroutines are scheduled, the ticker ticks, time goes by; select
\* chooses at random between two ready channels, so that a closed tc.stop is
\* not passed over for ever.
Fairness ==
    /\ WF_vars(Advance /\ UNCHANGED groupVars)
    /\ WF_vars(Tick /\ UNCHANGED groupVars)
    /\ WF_vars((WorkerTick \/ Cleanup) /\ UNCHANGED groupVars)
    /\ SF_vars(WorkerStop /\ UNCHANGED groupVars)
    /\ \A k \in Key : WF_vars(DeleteIfExpired(k) /\ UNCHANGED groupVars)
    /\ \A p \in Proc : WF_vars(GetStep(p))

FairSpec == Spec /\ Fairness

-----------------------------------------------------------------------------
\* Expiry alone removes no entry before its time: neither the goroutine that
\* some Get started for an older entry nor a cleanup that read the clock before
\* it got the lock deletes what has been set in the meantime.
OnlyExpiredRemoved ==
    [][\A k \in Key :
        cache[k] # None /\ cache'[k] = None =>
            Expired(cache[k], now) \/ CallerRemoves]_vars

\* Expired entries do not pile up: each is removed or replaced in the end,
\* though nobody asks for its key, until the cache is closed.
ExpiredIsRemoved ==
    \A k \in Key :
        (cache[k] # None /\ Expired(cache[k], now))
            ~> (cache[k] = None \/ ~Expired(cache[k], now) \/ stopped)

\* Close ends the cleanup worker.
WorkerEnds == stopped ~> (worker = "gone")

=============================================================================
