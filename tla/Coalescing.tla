----------------------------- MODULE Coalescing -----------------------------
(***************************************************************************)
(* What singleflight promises to its callers, said without calls, locks or *)
(* wait groups: "多次请求合并为一次" (README.md), many requests are merged *)
(* into one.  Executions of fn are numbered per key.  For each key at most *)
(* one execution is under way, and a caller gets the result of one that    *)
(* had not been superseded when it asked: the execution last completed at  *)
(* that time, or a later one.                                              *)
(***************************************************************************)
EXTENDS Naturals

CONSTANTS
    Proc,   \* the callers
    Key,
    None    \* the caller has no request outstanding

VARIABLES
    running,    \* the keys with an execution under way
    runs,       \* how many executions of each key have completed
    asked,      \* the outstanding request of each caller
    got         \* the execution whose result each caller has just got

vars == <<running, runs, asked, got>>

Execution == [key : Key, n : Nat]

Init ==
    /\ running = {}
    /\ runs = [k \in Key |-> 0]
    /\ asked = [p \in Proc |-> None]
    /\ got = [p \in Proc |-> None]

\* A caller asks.  It starts an execution only if none is under way.
Ask(p, k) ==
    /\ asked[p] = None
    /\ asked' = [asked EXCEPT ![p] = [key |-> k, n |-> runs[k]]]
    /\ got' = [got EXCEPT ![p] = None]
    /\ \/ running' = running
       \/ k \notin running /\ running' = running \cup {k}
    /\ UNCHANGED runs

Complete(k) ==
    /\ k \in running
    /\ running' = running \ {k}
    /\ runs' = [runs EXCEPT ![k] = @ + 1]
    /\ UNCHANGED <<asked, got>>

\* An execution panics, and with it the request of the caller that ran it.
Abort(p) ==
    /\ asked[p] # None
    /\ asked[p].key \in running
    /\ running' = running \ {asked[p].key}
    /\ asked' = [asked EXCEPT ![p] = None]
    /\ UNCHANGED <<runs, got>>

Answer(p, e) ==
    /\ asked[p] # None
    /\ e.key = asked[p].key
    /\ e.n \in asked[p].n .. runs[e.key]
    /\ e.n > 0
    /\ got' = [got EXCEPT ![p] = e]
    /\ asked' = [asked EXCEPT ![p] = None]
    /\ UNCHANGED <<running, runs>>

Next ==
    \/ \E p \in Proc, k \in Key : Ask(p, k)
    \/ \E k \in Key : Complete(k)
    \/ \E p \in Proc : Abort(p)
    \/ \E p \in Proc : \E k \in Key : \E n \in 1 .. runs[k] :
           Answer(p, [key |-> k, n |-> n])

Spec == Init /\ [][Next]_vars
=============================================================================
