----------------------------- MODULE ReadThrough -----------------------------
(***************************************************************************)
(* What a Group promises to the goroutines that call Get, said without     *)
(* cache, locks or flights.  Each key of the source has versions 1, 2, ... *)
(* and the group has a floor per key: the newest version it has ever       *)
(* loaded itself and cached, 1 before the first.  Until peers are          *)
(* registered a Get returns a version that is no older than the floor was  *)
(* when the Get began: once anyone has seen version n, nobody is sent back *)
(* before n.  Later, answers are bounded only by what the source has held. *)
(***************************************************************************)
EXTENDS Naturals

CONSTANTS
    Proc, Key,
    None,   \* no request outstanding, no answer
    Err     \* the answer of a failed Get

VARIABLES
    src,        \* the source's current version of each key
    floor,      \* see above
    peered,     \* whether peers have been registered
    asked,      \* the outstanding Get of each goroutine: its key and floor
    answer      \* the answer that the last step gave, or None

vars == <<src, floor, peered, asked, answer>>

AtLeast(n, v) == IF v > n THEN v ELSE n

Init ==
    /\ src = [k \in Key |-> 1]
    /\ floor = [k \in Key |-> 1]
    /\ peered = FALSE
    /\ asked = [p \in Proc |-> None]
    /\ answer = None

Update(k) ==
    /\ src' = [src EXCEPT ![k] = @ + 1]
    /\ answer' = None
    /\ UNCHANGED <<floor, peered, asked>>

AddPeers ==
    /\ peered' = TRUE
    /\ answer' = None
    /\ UNCHANGED <<src, floor, asked>>

\* A Get that is answered from the cache, in one step.
Serve(p, k, v) ==
    /\ asked[p] = None
    /\ v \in floor[k] .. src[k]
    /\ answer' = v
    /\ UNCHANGED <<src, floor, peered, asked>>

Ask(p, k) ==
    /\ asked[p] = None
    /\ asked' = [asked EXCEPT ![p] = [key |-> k, floor |-> floor[k]]]
    /\ answer' = None
    /\ UNCHANGED <<src, floor, peered>>

\* The group loads a version and keeps it: the floor rises and never sinks.
Load(k) ==
    /\ \E v \in floor[k] .. src[k] : floor' = [floor EXCEPT ![k] = v]
    /\ answer' = None
    /\ UNCHANGED <<src, peered, asked>>

Answer(p, k, v) ==
    /\ asked[p] # None
    /\ asked[p].key = k
    /\ v \in 1 .. src[k]
    /\ peered \/ v >= asked[p].floor
    /\ answer' = v
    /\ asked' = [asked EXCEPT ![p] = None]
    /\ UNCHANGED <<src, floor, peered>>

\* A Get fails: its load returned an error or panicked.
Fail(p) ==
    /\ asked[p] # None
    /\ answer' = Err
    /\ asked' = [asked EXCEPT ![p] = None]
    /\ UNCHANGED <<src, floor, peered>>

\* The group works on a load.
Work ==
    /\ answer' = None
    /\ UNCHANGED <<src, floor, peered, asked>>

Next ==
    \/ \E k \in Key : Update(k) \/ Load(k)
    \/ AddPeers \/ Work
    \/ \E p \in Proc :
        \/ \E k \in Key :
            \/ Ask(p, k)
            \/ \E v \in 1 .. src[k] : Serve(p, k, v) \/ Answer(p, k, v)
        \/ Fail(p)

Spec == Init /\ [][Next]_vars
=============================================================================
