---------------------------- MODULE SingleFlight ----------------------------
(***************************************************************************)
(* singleflight.Group (cache/singleflight/singleflight.go): goroutines     *)
(* call Do(key, fn); the first one to find no call registered for its key  *)
(* leads, that is runs fn, and the others wait for the leader's call and   *)
(* share its result.                                                       *)
(*                                                                         *)
(* One action per stretch of code between two points where another         *)
(* goroutine can be seen: the critical section at the head of Do, the      *)
(* assignment of fn's result, wg.Done(), the critical section that deletes *)
(* the call, and the return of a waiter.  The order in doCall matters:     *)
(* wg.Done() comes BEFORE the delete, so a call can be joined when it is   *)
(* already complete.                                                       *)
(*                                                                         *)
(* The pair (c.val, c.err) is one value of Result; c.dup is left out: it   *)
(* is written and never read.                                              *)
(***************************************************************************)
EXTENDS FiniteSets

CONSTANTS
    Proc,       \* the goroutines that call Do
    Key,        \* the keys they call it with
    Call,       \* the *call objects; one out of use may be allocated again
    Result,     \* what fn may return, an error included
    PanicKey,   \* the keys whose fn may panic
    NoCall,     \* nil: no *call
    Unset       \* the zero value of (c.val, c.err)

ASSUME CallAssumption   == NoCall \notin Call
ASSUME ResultAssumption == Unset \notin Result
ASSUME PanicAssumption  == PanicKey \subseteq Key

VARIABLES
    m,      \* g.m: the call registered for a key, or NoCall
    val,    \* (c.val, c.err) of each call
    done,   \* whether c.wg has come down to zero
    pc,     \* where each goroutine is in Do
    ref,    \* the local variable c of each goroutine
    arg     \* the key each goroutine last called Do with

vars == <<m, val, done, pc, ref, arg>>

PC == {"idle", "wait", "run", "stored", "delete"}

TypeOK ==
    /\ m \in [Key -> Call \cup {NoCall}]
    /\ val \in [Call -> Result \cup {Unset}]
    /\ done \in [Call -> BOOLEAN]
    /\ pc \in [Proc -> PC]
    /\ ref \in [Proc -> Call \cup {NoCall}]
    /\ arg \in [Proc -> Key]

Init ==
    /\ m = [k \in Key |-> NoCall]
    /\ val = [c \in Call |-> Unset]
    /\ done = [c \in Call |-> FALSE]
    /\ pc = [p \in Proc |-> "idle"]
    /\ ref = [p \in Proc |-> NoCall]
    /\ \E k \in Key : arg = [p \in Proc |-> k]

-----------------------------------------------------------------------------
(* Faulty variants of the definitions below: the bug each property catches. *)

\* Call objects are pooled and handed out while waiters still hold them.
FreeButHeld(c) == \A k \in Key : m[k] # c

\* new(call) returns an object nobody can reach: not in the map, not in a
\* goroutine's local variable.
Free(c) == (\A k \in Key : m[k] # c) /\ (\A p \in Proc : ref[p] # c)

\* Do does not look into the map first.
LeadUnchecked(p, k, c) ==
    /\ pc[p] = "idle"
    /\ Free(c)
    /\ m' = [m EXCEPT ![k] = c]
    /\ val' = [val EXCEPT ![c] = Unset]
    /\ done' = [done EXCEPT ![c] = FALSE]
    /\ pc' = [pc EXCEPT ![p] = "run"]
    /\ ref' = [ref EXCEPT ![p] = c]
    /\ arg' = [arg EXCEPT ![p] = k]

\* The call is registered without wg.Add(1): nobody waits for it.
LeadNoAdd(p, k, c) ==
    /\ pc[p] = "idle"
    /\ m[k] = NoCall
    /\ Free(c)
    /\ m' = [m EXCEPT ![k] = c]
    /\ val' = [val EXCEPT ![c] = Unset]
    /\ done' = [done EXCEPT ![c] = TRUE]
    /\ pc' = [pc EXCEPT ![p] = "run"]
    /\ ref' = [ref EXCEPT ![p] = c]
    /\ arg' = [arg EXCEPT ![p] = k]

\* The key is forgotten as soon as fn has returned, and again at the end.
FnReturnForgets(p, r) ==
    /\ pc[p] = "run"
    /\ val' = [val EXCEPT ![ref[p]] = r]
    /\ m' = [m EXCEPT ![arg[p]] = NoCall]
    /\ pc' = [pc EXCEPT ![p] = "stored"]
    /\ UNCHANGED <<done, ref, arg>>

\* wg.Done() is missing.
DoneSkipped(p) ==
    /\ pc[p] = "stored"
    /\ pc' = [pc EXCEPT ![p] = "delete"]
    /\ UNCHANGED <<m, val, done, ref, arg>>

-----------------------------------------------------------------------------
\* Do finds a call for the key: it unlocks and waits on the call's wg.
Join(p, k) ==
    /\ pc[p] = "idle"
    /\ m[k] # NoCall
    /\ pc' = [pc EXCEPT ![p] = "wait"]
    /\ ref' = [ref EXCEPT ![p] = m[k]]
    /\ arg' = [arg EXCEPT ![p] = k]
    /\ UNCHANGED <<m, val, done>>

\* Do finds none: it registers a new call, with wg at one, and goes on to fn.
LeadWith(p, k, c) ==
    /\ pc[p] = "idle"
    /\ m[k] = NoCall
    /\ Free(c)
    /\ m' = [m EXCEPT ![k] = c]
    /\ val' = [val EXCEPT ![c] = Unset]
    /\ done' = [done EXCEPT ![c] = FALSE]
    /\ pc' = [pc EXCEPT ![p] = "run"]
    /\ ref' = [ref EXCEPT ![p] = c]
    /\ arg' = [arg EXCEPT ![p] = k]

\* Fresh objects are interchangeable, so one of them stands for all.
Fresh == CHOOSE c \in Call : Free(c)

Lead(p, k) == (\E c \in Call : Free(c)) /\ LeadWith(p, k, Fresh)

\* c.val, c.err = fn()
FnReturn(p, r) ==
    /\ pc[p] = "run"
    /\ val' = [val EXCEPT ![ref[p]] = r]
    /\ pc' = [pc EXCEPT ![p] = "stored"]
    /\ UNCHANGED <<m, done, ref, arg>>

\* fn panics: nothing in Do or doCall is deferred, so the goroutine leaves Do
\* and neither wg.Done() nor the delete is ever run for this call.
FnPanic(p) ==
    /\ pc[p] = "run"
    /\ arg[p] \in PanicKey
    /\ pc' = [pc EXCEPT ![p] = "idle"]
    /\ ref' = [ref EXCEPT ![p] = NoCall]
    /\ UNCHANGED <<m, val, done, arg>>

\* c.wg.Done()
Done(p) ==
    /\ pc[p] = "stored"
    /\ done' = [done EXCEPT ![ref[p]] = TRUE]
    /\ pc' = [pc EXCEPT ![p] = "delete"]
    /\ UNCHANGED <<m, val, ref, arg>>

\* Goroutine p leaves Do.  A call that is then out of reach is collected: its
\* fields are zeroed, so that states differ only where the program can tell.
Leave(p) ==
    /\ pc' = [pc EXCEPT ![p] = "idle"]
    /\ ref' = [ref EXCEPT ![p] = NoCall]
    /\ LET inReach == \/ \E q \in Proc \ {p} : ref[q] = ref[p]
                      \/ \E k \in Key : m'[k] = ref[p]
       IN  IF inReach
           THEN UNCHANGED <<val, done>>
           ELSE /\ val' = [val EXCEPT ![ref[p]] = Unset]
                /\ done' = [done EXCEPT ![ref[p]] = FALSE]

\* The second critical section deletes whatever call the key has; then the
\* leader returns its own call's result.
Delete(p) ==
    /\ pc[p] = "delete"
    /\ m' = [m EXCEPT ![arg[p]] = NoCall]
    /\ Leave(p)
    /\ UNCHANGED arg

\* c.wg.Wait() returns, and so does Do, with c.val, c.err.
WaitReturn(p) ==
    /\ pc[p] = "wait"
    /\ done[ref[p]]
    /\ UNCHANGED <<m, arg>>
    /\ Leave(p)

\* What a goroutine does inside Do on its own account.
Step(p) ==
    \/ \E r \in Result : FnReturn(p, r)
    \/ FnPanic(p)
    \/ Done(p)
    \/ Delete(p)
    \/ WaitReturn(p)

Next ==
    \E p \in Proc :
        \/ \E k \in Key : Join(p, k) \/ Lead(p, k)
        \/ Step(p)

Spec == Init /\ [][Next]_vars

\* Fairness: a goroutine that can go on is eventually scheduled (Go's
\* scheduler is preemptive, its mutex hands over to starving waiters), and fn
\* returns or panics.  Nobody is obliged to call Do.
FairSpec == Spec /\ \A p \in Proc : WF_vars(Step(p))

-----------------------------------------------------------------------------
Leading(p) == pc[p] \in {"run", "stored", "delete"}

\* fn never runs twice at a time for one key, and more: from the registration
\* to the delete a key has one leader, so the unconditional delete(g.m, key)
\* of doCall never removes another leader's call.
OneLeaderPerKey ==
    \A p, q \in Proc : Leading(p) /\ Leading(q) /\ arg[p] = arg[q] => p = q

-----------------------------------------------------------------------------
(* What keeps the flights apart, and the inductive invariant of the proofs.  *)

\* A goroutine in Do holds a call, and an idle one none.
HoldsCall == \A p \in Proc : (pc[p] = "idle") = (ref[p] = NoCall)

\* The call a leader works on stays registered under its key until that leader
\* deletes it, so that everyone who asks in the meantime finds it.
LeaderIsRegistered == \A p \in Proc : Leading(p) => m[arg[p]] = ref[p]

\* No call is registered under two keys.
OneKeyPerCall == \A k, l \in Key : m[k] # NoCall /\ m[k] = m[l] => k = l

\* Waiters are released after the result is stored and never before.
DoneAfterStored ==
    \A p \in Proc :
        /\ pc[p] \in {"run", "stored"} => ~done[ref[p]]
        /\ pc[p] = "stored" => val[ref[p]] \in Result

\* Whoever is let through wg.Wait(), now or later, finds a result in the call:
\* a call in use is never recycled under its waiters.
DoneHasResult ==
    /\ \A p \in Proc :
            ref[p] # NoCall /\ done[ref[p]] => val[ref[p]] \in Result
    /\ \A k \in Key : m[k] # NoCall /\ done[m[k]] => val[m[k]] \in Result

\* Each flight is intact from its registration to the return of its last
\* waiter: one leader, one key, a result before the release.
FlightInv ==
    /\ HoldsCall
    /\ OneLeaderPerKey
    /\ LeaderIsRegistered
    /\ OneKeyPerCall
    /\ DoneAfterStored
    /\ DoneHasResult

\* A result stays the result: the call a goroutine holds is never overwritten
\* once it has been completed, so all the callers of one flight see the same.
ResultKept ==
    \A p \in Proc : ref[p] # NoCall /\ ref'[p] = ref[p] /\ done[ref[p]] =>
        /\ val'[ref[p]] = val[ref[p]]
        /\ done'[ref[p]]

ResultIsStable == [][ResultKept]_vars

\* Every Do returns, when fn cannot panic for its key: no waiter is forgotten,
\* whatever panics happen under the other keys.
DoReturns ==
    \A p \in Proc :
        (pc[p] # "idle" /\ arg[p] \notin PanicKey) ~> (pc[p] = "idle")
=============================================================================
