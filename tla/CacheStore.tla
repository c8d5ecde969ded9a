----------------------------- MODULE CacheStore -----------------------------
(***************************************************************************)
(* What a size-limited cache promises: a map that may forget.  Get finds   *)
(* the value last put under the key or nothing; an entry is forgotten only *)
(* if the store has a limit, and every forgotten entry is reported.        *)
(***************************************************************************)
CONSTANTS Key, Value, Missing

VARIABLES
    limited,    \* whether the store has a limit; it never changes
    store,      \* the value of each key, or Missing
    answer,     \* what the last Get returned
    put,        \* the entry last put
    reported    \* the entry last reported as forgotten

vars == <<limited, store, answer, put, reported>>

Init ==
    /\ limited \in BOOLEAN
    /\ store = [k \in Key |-> Missing]
    /\ answer = Missing
    /\ put = Missing
    /\ reported = Missing

Put(k, v) ==
    /\ store' = [store EXCEPT ![k] = v]
    /\ put' = [key |-> k, value |-> v]
    /\ UNCHANGED <<limited, answer, reported>>

Get(k) ==
    /\ answer' = store[k]
    /\ UNCHANGED <<limited, store, put, reported>>

Forget(k) ==
    /\ limited
    /\ store[k] # Missing
    /\ reported' = [key |-> k, value |-> store[k]]
    /\ store' = [store EXCEPT ![k] = Missing]
    /\ UNCHANGED <<limited, answer, put>>

Next ==
    \E k \in Key :
        \/ \E v \in Value : Put(k, v)
        \/ Get(k)
        \/ Forget(k)

Spec == Init /\ [][Next]_vars
=============================================================================
