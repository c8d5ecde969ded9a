------------------------------ MODULE TTLCache ------------------------------
(***************************************************************************)
(* TTLCache (cache/ttl.go): a map whose entries expire.  Three parties     *)
(* remove entries: the callers of Delete and Clear, the goroutine that Get *)
(* starts when it meets an expired entry, and the cleanup worker, which is *)
(* woken by a ticker until Close.  None of them does it at the moment it   *)
(* looked at the clock or the entry: Get tests the entry after it has      *)
(* given back the read lock, the goroutine it starts runs some time later, *)
(* and the worker reads the clock before it takes the lock.                *)
(*                                                                         *)
(* A value is the time it was obtained from the source, its age being all  *)
(* that anyone could complain about.                                       *)
(***************************************************************************)
EXTENDS Naturals

CONSTANTS
    Proc,       \* the goroutines that call Get
    Key,
    TTL,        \* the lifetimes entries are set with
    MaxTime,    \* bound of the exploration: the clock stops there
    MaxPending, \* bound: goroutines of Get waiting to run, per key
    None        \* no entry

Time == 0 .. MaxTime

Entry == [value : Time, expiresAt : Nat]

ASSUME TTLAssumption ==
    /\ TTL \subseteq Nat
    /\ None \notin Entry
    /\ MaxTime \in Nat
    /\ MaxPending \in Nat \ {0}

VARIABLES
    now,        \* external: the clock
    cache,      \* tc.cache: the entry of each key, or None
    snap,       \* the entry each goroutine's Get has read, or None
    pending,    \* how many calls of deleteIfExpired wait to run for each key
    ticked,     \* whether tc.timer.C, of capacity one, holds a tick
    stopped,    \* whether tc.stop is closed
    worker,     \* where cleanupWorker is: "select", "cleanup" or "gone"
    readNow     \* the clock as cleanup read it; 0 outside cleanup

ttlVars == <<now, cache, snap, pending, ticked, stopped, worker, readNow>>

TTLTypeOK ==
    /\ now \in Time
    /\ cache \in [Key -> Entry \cup {None}]
    /\ snap \in [Proc -> [key : Key, entry : Entry] \cup {None}]
    /\ pending \in [Key -> 0 .. MaxPending]
    /\ ticked \in BOOLEAN
    /\ stopped \in BOOLEAN
    /\ worker \in {"select", "cleanup", "gone"}
    /\ readNow \in Time

\* NewTTLCache
TTLInit ==
    /\ now = 0
    /\ cache = [k \in Key |-> None]
    /\ snap = [p \in Proc |-> None]
    /\ pending = [k \in Key |-> 0]
    /\ ticked = FALSE
    /\ stopped = FALSE
    /\ worker = "select"
    /\ readNow = 0

\* t.After(expiresAt)
Expired(e, t) == t > e.expiresAt

-----------------------------------------------------------------------------
(* Faulty variants: the bug each property catches. *)

\* deleteIfExpired trusts the Get that started it and does not look again.
DeleteUnchecked(k) ==
    /\ pending[k] > 0
    /\ pending' = [pending EXCEPT ![k] = @ - 1]
    /\ cache' = [cache EXCEPT ![k] = None]
    /\ UNCHANGED <<now, snap, ticked, stopped, worker, readNow>>

\* The worker returns after its first round.
CleanupOnce ==
    /\ worker = "cleanup"
    /\ cache' = [k \in Key |->
          IF cache[k] # None /\ Expired(cache[k], readNow)
          THEN None ELSE cache[k]]
    /\ worker' = "gone"
    /\ readNow' = 0
    /\ UNCHANGED <<now, snap, pending, ticked, stopped>>

\* The worker is not told of Close.
WorkerStopDeaf ==
    /\ worker = "select"
    /\ stopped
    /\ UNCHANGED ttlVars

-----------------------------------------------------------------------------
\* Set, under tc.mu.
Put(k, v, ttl) ==
    cache' = [cache EXCEPT ![k] = [value |-> v, expiresAt |-> now + ttl]]

\* Get reads the entry under the read lock ...
Read(p, k) ==
    /\ snap[p] = None
    /\ cache[k] # None
    /\ snap' = [snap EXCEPT ![p] = [key |-> k, entry |-> cache[k]]]
    /\ UNCHANGED <<now, cache, pending, ticked, stopped, worker, readNow>>

\* ... and looks at the clock without it: the entry it read is still good ...
CheckLive(p) ==
    /\ snap[p] # None
    /\ ~Expired(snap[p].entry, now)
    /\ snap' = [snap EXCEPT ![p] = None]
    /\ UNCHANGED <<now, cache, pending, ticked, stopped, worker, readNow>>

\* ... or it is not, and a goroutine is started that is to delete it.
CheckExpired(p) ==
    /\ snap[p] # None
    /\ Expired(snap[p].entry, now)
    /\ pending[snap[p].key] < MaxPending
    /\ pending' = [pending EXCEPT ![snap[p].key] = @ + 1]
    /\ snap' = [snap EXCEPT ![p] = None]
    /\ UNCHANGED <<now, cache, ticked, stopped, worker, readNow>>

\* deleteIfExpired, under tc.mu: whatever the key holds now is looked at anew.
DeleteIfExpired(k) ==
    /\ pending[k] > 0
    /\ pending' = [pending EXCEPT ![k] = @ - 1]
    /\ cache' = IF cache[k] # None /\ Expired(cache[k], now)
                THEN [cache EXCEPT ![k] = None] ELSE cache
    /\ UNCHANGED <<now, snap, ticked, stopped, worker, readNow>>

\* cleanupWorker receives a tick, and cleanup reads the clock.
WorkerTick ==
    /\ worker = "select"
    /\ ticked
    /\ ticked' = FALSE
    /\ readNow' = now
    /\ worker' = "cleanup"
    /\ UNCHANGED <<now, cache, snap, pending, stopped>>

\* cleanup, under tc.mu.
Cleanup ==
    /\ worker = "cleanup"
    /\ cache' = [k \in Key |->
          IF cache[k] # None /\ Expired(cache[k], readNow)
          THEN None ELSE cache[k]]
    /\ worker' = "select"
    /\ readNow' = 0
    /\ UNCHANGED <<now, snap, pending, ticked, stopped>>

\* cleanupWorker finds tc.stop closed; it may also take a tick that is there.
WorkerStop ==
    /\ worker = "select"
    /\ stopped
    /\ worker' = "gone"
    /\ UNCHANGED <<now, cache, snap, pending, ticked, stopped, readNow>>

Delete(k) ==
    /\ cache' = [cache EXCEPT ![k] = None]
    /\ UNCHANGED <<now, snap, pending, ticked, stopped, worker, readNow>>

Clear ==
    /\ cache' = [k \in Key |-> None]
    /\ UNCHANGED <<now, snap, pending, ticked, stopped, worker, readNow>>

\* Close; a second one panics.
Close ==
    /\ ~stopped
    /\ stopped' = TRUE
    /\ UNCHANGED <<now, cache, snap, pending, ticked, worker, readNow>>

\* External: the ticker, which drops a tick when one is waiting and is
\* stopped by the worker.
Tick ==
    /\ worker # "gone"
    /\ ticked' = TRUE
    /\ UNCHANGED <<now, cache, snap, pending, stopped, worker, readNow>>

\* External: time goes by.
Advance ==
    /\ now < MaxTime
    /\ now' = now + 1
    /\ UNCHANGED <<cache, snap, pending, ticked, stopped, worker, readNow>>

\* What goes on without the callers.
Background ==
    \/ \E k \in Key : DeleteIfExpired(k)
    \/ WorkerTick \/ Cleanup \/ WorkerStop
    \/ Tick \/ Advance

\* The steps after which an entry is gone because a caller wanted it so.
CallerRemoves == Clear \/ \E k \in Key : Delete(k)
=============================================================================
