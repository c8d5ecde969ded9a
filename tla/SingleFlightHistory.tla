------------------------- MODULE SingleFlightHistory -------------------------
(***************************************************************************)
(* SingleFlight with history variables that number the executions of fn    *)
(* and remember which one each caller's result came from, so that it can   *)
(* be shown to implement Coalescing.  The history variables are only       *)
(* written: the steps of SingleFlight are those of the code.               *)
(***************************************************************************)
EXTENDS SingleFlight, Naturals

CONSTANT
    MaxRuns     \* bound of the exploration: executions led per key

Execution == [key : Key, n : Nat]

ASSUME HistoryAssumption == Unset \notin Execution

VARIABLES
    runs,       \* executions of fn completed for each key
    origin,     \* the execution whose result is in each call
    asked,      \* the key of each outstanding Do, and runs[key] when it began
    got         \* the execution whose result Do has just returned

hvars == <<vars, runs, origin, asked, got>>

HInit ==
    /\ Init
    /\ runs = [k \in Key |-> 0]
    /\ origin = [c \in Call |-> Unset]
    /\ asked = [p \in Proc |-> Unset]
    /\ got = [p \in Proc |-> Unset]

Begin(p, k) ==
    /\ asked' = [asked EXCEPT ![p] = [key |-> k, n |-> runs[k]]]
    /\ got' = [got EXCEPT ![p] = Unset]
    /\ UNCHANGED <<runs, origin>>

HJoin(p, k) == Join(p, k) /\ Begin(p, k)

HLead(p, k) == runs[k] < MaxRuns /\ Lead(p, k) /\ Begin(p, k)

HFnReturn(p, r) ==
    /\ FnReturn(p, r)
    /\ runs' = [runs EXCEPT ![arg[p]] = @ + 1]
    /\ origin' =
          [origin EXCEPT ![ref[p]] = [key |-> arg[p], n |-> runs'[arg[p]]]]
    /\ UNCHANGED <<asked, got>>

HFnPanic(p) ==
    /\ FnPanic(p)
    /\ asked' = [asked EXCEPT ![p] = Unset]
    /\ UNCHANGED <<runs, origin, got>>

HDone(p) == Done(p) /\ UNCHANGED <<runs, origin, asked, got>>

\* Do returns: the result is read from the call in the goroutine's local c.
HReturn(p) ==
    /\ Delete(p) \/ WaitReturn(p)
    /\ got' = [got EXCEPT ![p] = origin[ref[p]]]
    /\ asked' = [asked EXCEPT ![p] = Unset]
    /\ UNCHANGED <<runs, origin>>

HStep(p) ==
    \/ \E r \in Result : HFnReturn(p, r)
    \/ HFnPanic(p)
    \/ HDone(p)
    \/ HReturn(p)

HNext ==
    \E p \in Proc :
        \/ \E k \in Key : HJoin(p, k) \/ HLead(p, k)
        \/ HStep(p)

HSpec == HInit /\ [][HNext]_hvars

HFairSpec == HSpec /\ \A p \in Proc : WF_hvars(HStep(p))

-----------------------------------------------------------------------------
\* The executions under way are those of the goroutines that are inside fn.
Running == {arg[p] : p \in {q \in Proc : pc[q] = "run"}}

Abs == INSTANCE Coalescing WITH running <- Running, None <- Unset

\* Do merges requests: never two executions of fn at once for a key, and the
\* result a caller gets is of its own key and no older than the execution that
\* was the last to complete when it called Do.  This holds although a call
\* stays joinable between wg.Done() and the delete, because no new execution
\* can begin before the delete.
ImplementsCoalescing == Abs!Spec
=============================================================================
