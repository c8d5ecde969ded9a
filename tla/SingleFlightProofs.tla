------------------------- MODULE SingleFlightProofs -------------------------
(***************************************************************************)
(* Proofs about SingleFlight, for every set of goroutines, keys, calls and *)
(* results: type correctness, and that FlightInv is an inductive invariant *)
(* relative to it, from which follow the mutual exclusion of leaders and   *)
(* the stability of results; then that SingleFlight implements Coalescing, *)
(* with any number of executions and panics of fn.                         *)
(***************************************************************************)
EXTENDS SingleFlightHistory, TLAPS

\* A free call exists whenever Lead is enabled, and Fresh is one.
LEMMA FreshIsFree ==
    ASSUME \E c \in Call : Free(c)
    PROVE  Fresh \in Call /\ Free(Fresh)
  BY DEF Fresh

\* Lead is LeadWith for some call that is free.
LEMMA LeadIsLeadWith ==
    ASSUME NEW p \in Proc, NEW k \in Key, Lead(p, k)
    PROVE  \E c \in Call : LeadWith(p, k, c)
  BY FreshIsFree DEF Lead

\* Each step is one of the seven actions.
LEMMA NextCases ==
    ASSUME Next
    PROVE  \E p \in Proc :
              \/ \E k \in Key : Join(p, k)
              \/ \E k \in Key, c \in Call : LeadWith(p, k, c)
              \/ \E r \in Result : FnReturn(p, r)
              \/ FnPanic(p)
              \/ Done(p)
              \/ Delete(p)
              \/ WaitReturn(p)
  BY LeadIsLeadWith DEF Next, Step

\* Type correctness of Do and doCall.
LEMMA TypeStep == TypeOK /\ [Next]_vars => TypeOK'
<1> SUFFICES ASSUME TypeOK, [Next]_vars
             PROVE  TypeOK'
    OBVIOUS
<1> USE DEF TypeOK, PC
<1>1. CASE Next
  <2> PICK p \in Proc :
              \/ \E k \in Key : Join(p, k)
              \/ \E k \in Key, c \in Call : LeadWith(p, k, c)
              \/ \E r \in Result : FnReturn(p, r)
              \/ FnPanic(p)
              \/ Done(p)
              \/ Delete(p)
              \/ WaitReturn(p)
      BY <1>1, NextCases
  <2>1. ASSUME NEW k \in Key, Join(p, k)
        PROVE  TypeOK'
    BY <2>1 DEF Join
  <2>2. ASSUME NEW k \in Key, NEW c \in Call, LeadWith(p, k, c)
        PROVE  TypeOK'
    BY <2>2 DEF LeadWith
  <2>3. ASSUME NEW r \in Result, FnReturn(p, r)
        PROVE  TypeOK'
    BY <2>3 DEF FnReturn
  <2>4. CASE FnPanic(p)
    BY <2>4 DEF FnPanic
  <2>5. CASE Done(p)
    BY <2>5 DEF Done
  <2>6. CASE Delete(p)
    BY <2>6 DEF Delete, Leave
  <2>7. CASE WaitReturn(p)
    BY <2>7 DEF WaitReturn, Leave
  <2> QED
    BY <2>1, <2>2, <2>3, <2>4, <2>5, <2>6, <2>7
<1>2. CASE UNCHANGED vars
  BY <1>2 DEF vars
<1> QED
  BY <1>1, <1>2

\* In every reachable state the variables have their types.
THEOREM TypeCorrect == Spec => []TypeOK
<1>1. Init => TypeOK
  BY DEF Init, TypeOK, PC
<1> QED
  BY <1>1, TypeStep, PTL DEF Spec

-----------------------------------------------------------------------------
\* A leader shares its call with no other leader: a call has one key, and a key
\* one leader.
LEMMA LeadersDiffer ==
    ASSUME TypeOK, FlightInv,
           NEW p \in Proc, NEW q \in Proc, Leading(p), Leading(q),
           ref[p] = ref[q]
    PROVE  p = q
<1>1. m[arg[p]] = ref[p] /\ m[arg[q]] = ref[p]
  BY DEF FlightInv, LeaderIsRegistered
<1>2. ref[p] # NoCall
  BY DEF FlightInv, HoldsCall, Leading
<1>3. arg[p] = arg[q]
  BY <1>1, <1>2 DEF TypeOK, FlightInv, OneKeyPerCall
<1> QED
  BY <1>3 DEF FlightInv, OneLeaderPerKey

\* A goroutine that leaves Do changes only its own call, and that only when the
\* call is out of everyone else's reach.
LEMMA LeaveKeepsOthers ==
    ASSUME TypeOK, NEW p \in Proc, Leave(p)
    PROVE  /\ \A q \in Proc \ {p} :
                  /\ pc'[q] = pc[q]
                  /\ ref'[q] = ref[q]
                  /\ ref[q] # NoCall =>
                        /\ val'[ref[q]] = val[ref[q]]
                        /\ done'[ref[q]] = done[ref[q]]
           /\ pc'[p] = "idle" /\ ref'[p] = NoCall
           /\ \A k \in Key : m'[k] # NoCall /\ m'[k] \in Call =>
                  /\ val'[m'[k]] = val[m'[k]]
                  /\ done'[m'[k]] = done[m'[k]]
  BY DEF TypeOK, Leave

\* FlightInv is inductive: one step per action of Do and doCall.
LEMMA FlightStep == TypeOK /\ FlightInv /\ [Next]_vars => FlightInv'
<1> SUFFICES ASSUME TypeOK, FlightInv, [Next]_vars
             PROVE  FlightInv'
    OBVIOUS
<1> USE CallAssumption
<1>1. CASE Next
  <2> PICK p \in Proc :
              \/ \E k \in Key : Join(p, k)
              \/ \E k \in Key, c \in Call : LeadWith(p, k, c)
              \/ \E r \in Result : FnReturn(p, r)
              \/ FnPanic(p)
              \/ Done(p)
              \/ Delete(p)
              \/ WaitReturn(p)
      BY <1>1, NextCases
  <2>1. ASSUME NEW k \in Key, Join(p, k)
        PROVE  FlightInv'
    BY <2>1 DEF Join, TypeOK, FlightInv, HoldsCall, OneLeaderPerKey, Leading,
                LeaderIsRegistered, OneKeyPerCall, DoneAfterStored, DoneHasResult
  <2>2. ASSUME NEW k \in Key, NEW c \in Call, LeadWith(p, k, c)
        PROVE  FlightInv'
    <3>1. \A q \in Proc : Leading(q) => arg[q] # k
      BY <2>2 DEF LeadWith, FlightInv, HoldsCall, LeaderIsRegistered, Leading
    <3>2. \A q \in Proc \ {p} : /\ ref'[q] = ref[q] /\ ref[q] # c
                                /\ pc'[q] = pc[q] /\ arg'[q] = arg[q]
      BY <2>2 DEF LeadWith, Free, TypeOK
    <3>3. /\ ref'[p] = c /\ pc'[p] = "run" /\ arg'[p] = k
          /\ m'[k] = c /\ ~done'[c]
      BY <2>2 DEF LeadWith, TypeOK
    <3>4. \A l \in Key \ {k} : m'[l] = m[l] /\ m[l] # c
      BY <2>2 DEF LeadWith, Free, TypeOK
    <3>5. \A d \in Call \ {c} : val'[d] = val[d] /\ done'[d] = done[d]
      BY <2>2 DEF LeadWith, TypeOK
    <3>6. HoldsCall'
      BY <3>2, <3>3 DEF FlightInv, HoldsCall
    <3>7. OneLeaderPerKey' /\ LeaderIsRegistered'
      BY <3>1, <3>2, <3>3, <3>4
         DEF TypeOK, FlightInv, OneLeaderPerKey, LeaderIsRegistered, Leading
    <3>8. OneKeyPerCall'
      BY <3>3, <3>4 DEF FlightInv, OneKeyPerCall
    <3>9. DoneAfterStored'
      <4> SUFFICES ASSUME NEW q \in Proc, pc'[q] \in {"run", "stored"}
                   PROVE  /\ ~done'[ref'[q]]
                          /\ pc'[q] = "stored" => val'[ref'[q]] \in Result
        BY DEF DoneAfterStored
      <4>1. CASE q = p
        BY <4>1, <3>3
      <4>2. CASE q # p
        <5>1. ref[q] \in Call \ {c}
          BY <4>2, <3>2 DEF TypeOK, FlightInv, HoldsCall
        <5> QED
          BY <4>2, <5>1, <3>2, <3>5 DEF FlightInv, DoneAfterStored
      <4> QED
        BY <4>1, <4>2
    <3>10. DoneHasResult'
      BY <3>2, <3>3, <3>4, <3>5 DEF TypeOK, FlightInv, DoneHasResult
    <3> QED
      BY <3>6, <3>7, <3>8, <3>9, <3>10 DEF FlightInv
  <2>3. ASSUME NEW r \in Result, FnReturn(p, r)
        PROVE  FlightInv'
    BY <2>3 DEF FnReturn, TypeOK, FlightInv, HoldsCall, OneLeaderPerKey, Leading,
                LeaderIsRegistered, OneKeyPerCall, DoneAfterStored, DoneHasResult
  <2>4. CASE FnPanic(p)
    BY <2>4 DEF FnPanic, TypeOK, FlightInv, HoldsCall, OneLeaderPerKey, Leading,
                LeaderIsRegistered, OneKeyPerCall, DoneAfterStored, DoneHasResult
  <2>5. CASE Done(p)
    <3>1. /\ UNCHANGED <<m, val, ref, arg>>
          /\ pc[p] = "stored" /\ pc'[p] = "delete"
          /\ \A q \in Proc \ {p} : pc'[q] = pc[q]
      BY <2>5 DEF Done, TypeOK
    <3>2. ref[p] \in Call /\ val[ref[p]] \in Result
      BY <3>1 DEF TypeOK, FlightInv, HoldsCall, DoneAfterStored
    <3>3. \A d \in Call \ {ref[p]} : done'[d] = done[d]
      BY <2>5, <3>2 DEF Done, TypeOK
    <3>4. \A q \in Proc : pc'[q] \in {"run", "stored"} => ref[q] # ref[p]
      <4> SUFFICES ASSUME NEW q \in Proc, pc'[q] \in {"run", "stored"},
                          ref[q] = ref[p]
                   PROVE  FALSE
        OBVIOUS
      <4>1. q # p
        BY <3>1
      <4>2. Leading(q) /\ Leading(p)
        BY <4>1, <3>1 DEF Leading
      <4> QED
        BY <4>1, <4>2, LeadersDiffer
    <3>5. HoldsCall' /\ OneLeaderPerKey' /\ LeaderIsRegistered' /\ OneKeyPerCall'
      BY <3>1 DEF FlightInv, HoldsCall, OneLeaderPerKey, LeaderIsRegistered,
                  OneKeyPerCall, Leading
    <3>6. DoneAfterStored'
      <4> SUFFICES ASSUME NEW q \in Proc, pc'[q] \in {"run", "stored"}
                   PROVE  /\ ~done'[ref'[q]]
                          /\ pc'[q] = "stored" => val'[ref'[q]] \in Result
        BY DEF DoneAfterStored
      <4>1. q # p /\ pc'[q] = pc[q]
        BY <3>1
      <4>2. ref[q] \in Call \ {ref[p]}
        BY <4>1, <3>4 DEF TypeOK, FlightInv, HoldsCall
      <4> QED
        BY <4>1, <4>2, <3>1, <3>3 DEF FlightInv, DoneAfterStored
    <3>7. DoneHasResult'
      BY <3>1, <3>2, <3>3 DEF TypeOK, FlightInv, DoneHasResult
    <3> QED
      BY <3>5, <3>6, <3>7 DEF FlightInv
  <2>6. CASE Delete(p)
    <3>1. /\ Leave(p) /\ pc[p] = "delete" /\ arg' = arg
          /\ m'[arg[p]] = NoCall
          /\ \A k \in Key \ {arg[p]} : m'[k] = m[k]
      BY <2>6 DEF Delete, TypeOK
    <3>2. \A q \in Proc \ {p} : Leading(q) => arg[q] # arg[p]
      BY <3>1 DEF FlightInv, OneLeaderPerKey, Leading
    <3>3. HoldsCall' /\ OneLeaderPerKey'
      BY <3>1, LeaveKeepsOthers DEF FlightInv, HoldsCall, OneLeaderPerKey, Leading
    <3>4. LeaderIsRegistered'
      BY <3>1, <3>2, LeaveKeepsOthers
         DEF TypeOK, FlightInv, LeaderIsRegistered, Leading
    <3>5. OneKeyPerCall'
      BY <3>1 DEF TypeOK, FlightInv, OneKeyPerCall
    <3>6. DoneAfterStored'
      BY <3>1, LeaveKeepsOthers DEF FlightInv, DoneAfterStored, HoldsCall
    <3>7. DoneHasResult'
      BY <3>1, LeaveKeepsOthers DEF TypeOK, FlightInv, DoneHasResult
    <3> QED
      BY <3>3, <3>4, <3>5, <3>6, <3>7 DEF FlightInv
  <2>7. CASE WaitReturn(p)
    <3>1. Leave(p) /\ pc[p] = "wait" /\ UNCHANGED <<m, arg>>
      BY <2>7 DEF WaitReturn
    <3>2. HoldsCall' /\ OneLeaderPerKey' /\ LeaderIsRegistered' /\ OneKeyPerCall'
      BY <3>1, LeaveKeepsOthers
         DEF FlightInv, HoldsCall, OneLeaderPerKey, LeaderIsRegistered,
             OneKeyPerCall, Leading
    <3>3. DoneAfterStored'
      BY <3>1, LeaveKeepsOthers DEF FlightInv, DoneAfterStored, HoldsCall
    <3>4. DoneHasResult'
      BY <3>1, LeaveKeepsOthers DEF TypeOK, FlightInv, DoneHasResult
    <3> QED
      BY <3>2, <3>3, <3>4 DEF FlightInv
  <2> QED
    BY <2>1, <2>2, <2>3, <2>4, <2>5, <2>6, <2>7
<1>2. CASE UNCHANGED vars
  BY <1>2 DEF vars, FlightInv, HoldsCall, OneLeaderPerKey, Leading,
              LeaderIsRegistered, OneKeyPerCall, DoneAfterStored, DoneHasResult
<1> QED
  BY <1>1, <1>2

\* Flights stay intact in every behaviour, panics included.
THEOREM FlightsIntact == Spec => []FlightInv
<1>1. Init => FlightInv
  BY CallAssumption
     DEF Init, FlightInv, HoldsCall, OneLeaderPerKey, Leading,
         LeaderIsRegistered, OneKeyPerCall, DoneAfterStored, DoneHasResult
<1> QED
  BY <1>1, FlightStep, TypeCorrect, PTL DEF Spec

\* fn never runs twice at a time for one key, and doCall's unconditional delete
\* never removes another leader's call.
THEOREM MutualExclusion == Spec => []OneLeaderPerKey
<1>1. FlightInv => OneLeaderPerKey
  BY DEF FlightInv
<1> QED
  BY <1>1, FlightsIntact, PTL

-----------------------------------------------------------------------------
\* No step touches the result of a completed call that some goroutine goes on
\* holding: fn's result is stored only before the release, a new call is made
\* only of an object nobody holds, and collected is only what is out of reach.
LEMMA ResultStep ==
    ASSUME TypeOK, FlightInv, [Next]_vars, NEW q \in Proc,
           ref[q] # NoCall, ref'[q] = ref[q], done[ref[q]]
    PROVE  val'[ref[q]] = val[ref[q]] /\ done'[ref[q]]
<1> ref[q] \in Call
  BY DEF TypeOK
<1>1. CASE Next
  <2> PICK p \in Proc :
              \/ \E k \in Key : Join(p, k)
              \/ \E k \in Key, c \in Call : LeadWith(p, k, c)
              \/ \E r \in Result : FnReturn(p, r)
              \/ FnPanic(p)
              \/ Done(p)
              \/ Delete(p)
              \/ WaitReturn(p)
      BY <1>1, NextCases
  <2>1. CASE \E k \in Key : Join(p, k)
    BY <2>1 DEF Join
  <2>2. ASSUME NEW k \in Key, NEW c \in Call, LeadWith(p, k, c)
        PROVE  val'[ref[q]] = val[ref[q]] /\ done'[ref[q]]
    BY <2>2 DEF LeadWith, Free, TypeOK
  <2>3. ASSUME NEW r \in Result, FnReturn(p, r)
        PROVE  val'[ref[q]] = val[ref[q]] /\ done'[ref[q]]
    BY <2>3 DEF FnReturn, TypeOK, FlightInv, DoneAfterStored
  <2>4. CASE FnPanic(p)
    BY <2>4 DEF FnPanic
  <2>5. CASE Done(p)
    BY <2>5 DEF Done, TypeOK
  <2>6. CASE Delete(p) \/ WaitReturn(p)
    <3>1. Leave(p)
      BY <2>6 DEF Delete, WaitReturn
    <3>2. q # p
      BY <3>1, LeaveKeepsOthers
    <3> QED
      BY <3>1, <3>2, LeaveKeepsOthers
  <2> QED
    BY <2>1, <2>2, <2>3, <2>4, <2>5, <2>6
<1>2. CASE UNCHANGED vars
  BY <1>2 DEF vars
<1> QED
  BY <1>1, <1>2

\* All the callers of one flight see the same result, however late they wake.
THEOREM StableResults == Spec => ResultIsStable
<1>1. TypeOK /\ FlightInv /\ [Next]_vars => [ResultKept]_vars
  BY ResultStep DEF ResultKept
<1> QED
  BY <1>1, TypeCorrect, FlightsIntact, PTL DEF Spec, ResultIsStable

-----------------------------------------------------------------------------
(* SingleFlight implements Coalescing.  The argument is in HistoryInv: a    *)
(* call that waiters may be released from, or that can still be joined, has *)
(* the result of an execution that completed after they asked.              *)

\* The result of an execution that a caller of Do may get.
Current(p) ==
    /\ origin[ref[p]] \in Execution
    /\ origin[ref[p]].key = arg[p]
    /\ origin[ref[p]].n > 0
    /\ asked[p].n <= origin[ref[p]].n /\ origin[ref[p]].n <= runs[arg[p]]

HTypeOK ==
    /\ runs \in [Key -> Nat]
    /\ origin \in [Call -> Execution \cup {Unset}]
    /\ asked \in [Proc -> Execution \cup {Unset}]

\* The history of a request follows Do: it begins with it, and is about its key.
Requests ==
    \A p \in Proc :
        /\ pc[p] = "idle" => asked[p] = Unset
        /\ pc[p] # "idle" => /\ asked[p] \in Execution
                            /\ asked[p].key = arg[p]
                            /\ asked[p].n <= runs[arg[p]]

\* Whoever holds a registered call has asked for the key it is registered under.
OneKeyPerHolder ==
    \A p \in Proc, k \in Key : pc[p] # "idle" /\ m[k] = ref[p] => k = arg[p]

\* No execution completes between the one a leader made and that leader's delete.
LeaderIsLast ==
    \A p \in Proc : pc[p] \in {"stored", "delete"} =>
        origin[ref[p]] = [key |-> arg[p], n |-> runs[arg[p]]] /\ runs[arg[p]] > 0

\* Who finds a completed call, now or by waiting for it, finds a current result.
JoinedIsCurrent ==
    /\ \A p \in Proc : pc[p] = "wait" /\ done[ref[p]] => Current(p)
    /\ \A k \in Key : m[k] # NoCall /\ done[m[k]] =>
          origin[m[k]] = [key |-> k, n |-> runs[k]] /\ runs[k] > 0

HistoryInv == HTypeOK /\ Requests /\ OneKeyPerHolder /\ LeaderIsLast /\ JoinedIsCurrent

Inv == TypeOK /\ FlightInv /\ HistoryInv

-----------------------------------------------------------------------------
(* HistoryInv is inductive.                                                  *)

LEMMA HInitInv == HInit => HistoryInv
  BY DEF HInit, Init, HistoryInv, HTypeOK, Requests, OneKeyPerHolder, LeaderIsLast,
         JoinedIsCurrent

\* A request begins.
LEMMA BeginKeeps ==
    ASSUME Inv, NEW p \in Proc, NEW k \in Key, Begin(p, k)
    PROVE  /\ HTypeOK'
           /\ UNCHANGED <<runs, origin>>
           /\ asked'[p] \in Execution /\ asked'[p].key = k /\ asked'[p].n = runs[k]
           /\ \A q \in Proc \ {p} : asked'[q] = asked[q]
           /\ runs[k] \in Nat
<1>1. runs[k] \in Nat
  BY DEF Inv, HistoryInv, HTypeOK
<1>2. [key |-> k, n |-> runs[k]] \in Execution
  BY <1>1 DEF Execution
<1> QED BY <1>1, <1>2 DEF Begin, Inv, HistoryInv, HTypeOK

LEMMA JoinKeeps ==
    ASSUME Inv, NEW p \in Proc, NEW k \in Key, HJoin(p, k)
    PROVE  HistoryInv'
<1>1. /\ pc[p] = "idle" /\ m[k] # NoCall
      /\ pc'[p] = "wait" /\ ref'[p] = m[k] /\ arg'[p] = k
      /\ \A q \in Proc \ {p} : pc'[q] = pc[q] /\ ref'[q] = ref[q] /\ arg'[q] = arg[q]
      /\ UNCHANGED <<m, val, done>>
  BY DEF HJoin, Join, Inv, TypeOK
<1>2. /\ HTypeOK' /\ UNCHANGED <<runs, origin>>
      /\ asked'[p] \in Execution /\ asked'[p].key = k /\ asked'[p].n = runs[k]
      /\ \A q \in Proc \ {p} : asked'[q] = asked[q]
      /\ runs[k] \in Nat
  BY BeginKeeps DEF HJoin
<1>3. Requests'
  BY <1>1, <1>2 DEF Inv, HistoryInv, Requests
<1>4. OneKeyPerHolder'
  BY <1>1 DEF Inv, HistoryInv, OneKeyPerHolder, FlightInv, OneKeyPerCall
<1>5. LeaderIsLast'
  BY <1>1, <1>2 DEF Inv, HistoryInv, LeaderIsLast
<1>6. JoinedIsCurrent'
  <2>1. ASSUME NEW q \in Proc, pc'[q] = "wait", done'[ref'[q]]
        PROVE  Current(q)'
    <3>1. CASE q = p
      <4>1. origin[m[k]] = [key |-> k, n |-> runs[k]] /\ runs[k] > 0
        BY <1>1, <2>1, <3>1 DEF Inv, HistoryInv, JoinedIsCurrent
      <4>2. origin[m[k]] \in Execution
        BY <1>2, <4>1 DEF Execution
      <4> QED BY <1>1, <1>2, <3>1, <4>1, <4>2 DEF Current
    <3>2. CASE q # p
      BY <1>1, <1>2, <2>1, <3>2 DEF Inv, HistoryInv, JoinedIsCurrent, Current
    <3> QED BY <3>1, <3>2
  <2> QED BY <1>1, <1>2, <2>1 DEF Inv, HistoryInv, JoinedIsCurrent
<1> QED BY <1>2, <1>3, <1>4, <1>5, <1>6 DEF HistoryInv

LEMMA LeadKeeps ==
    ASSUME Inv, NEW p \in Proc, NEW k \in Key, HLead(p, k)
    PROVE  HistoryInv'
<1>0. PICK c \in Call : LeadWith(p, k, c)
  BY LeadIsLeadWith DEF HLead
<1>1. /\ pc[p] = "idle" /\ m[k] = NoCall
      /\ pc'[p] = "run" /\ ref'[p] = c /\ arg'[p] = k /\ m'[k] = c /\ ~done'[c]
      /\ \A q \in Proc \ {p} : pc'[q] = pc[q] /\ ref'[q] = ref[q] /\ arg'[q] = arg[q]
      /\ \A q \in Proc : ref[q] # c
      /\ \A l \in Key \ {k} : m'[l] = m[l] /\ m[l] # c
      /\ \A d \in Call \ {c} : done'[d] = done[d]
      /\ c # NoCall
  BY <1>0, CallAssumption DEF LeadWith, Free, Inv, TypeOK
<1>2. /\ HTypeOK' /\ UNCHANGED <<runs, origin>>
      /\ asked'[p] \in Execution /\ asked'[p].key = k /\ asked'[p].n = runs[k]
      /\ \A q \in Proc \ {p} : asked'[q] = asked[q]
      /\ runs[k] \in Nat
  BY BeginKeeps DEF HLead
<1>3. Requests'
  BY <1>1, <1>2 DEF Inv, HistoryInv, Requests
<1>4. OneKeyPerHolder'
  BY <1>1 DEF Inv, HistoryInv, OneKeyPerHolder
<1>5. LeaderIsLast'
  BY <1>1, <1>2 DEF Inv, HistoryInv, LeaderIsLast
<1>6. JoinedIsCurrent'
  <2>1. ASSUME NEW q \in Proc, pc'[q] = "wait", done'[ref'[q]]
        PROVE  Current(q)'
    <3>1. q # p /\ ref[q] \in Call \ {c}
      BY <1>1, <2>1 DEF Inv, TypeOK, FlightInv, HoldsCall
    <3> QED BY <1>1, <1>2, <2>1, <3>1 DEF Inv, HistoryInv, JoinedIsCurrent, Current
  <2>2. ASSUME NEW l \in Key, m'[l] # NoCall, done'[m'[l]]
        PROVE  origin'[m'[l]] = [key |-> l, n |-> runs'[l]] /\ runs'[l] > 0
    <3>1. l # k /\ m[l] \in Call \ {c}
      BY <1>1, <2>2 DEF Inv, TypeOK
    <3> QED BY <1>1, <1>2, <2>2, <3>1 DEF Inv, HistoryInv, JoinedIsCurrent
  <2> QED BY <2>1, <2>2 DEF JoinedIsCurrent
<1> QED BY <1>2, <1>3, <1>4, <1>5, <1>6 DEF HistoryInv

\* fn returns: one more execution, and the leader's call has its result.
LEMMA FnReturnKeeps ==
    ASSUME Inv, NEW p \in Proc, NEW r \in Result, HFnReturn(p, r)
    PROVE  HistoryInv'
<1> DEFINE k == arg[p]
<1>1. /\ pc[p] = "run" /\ pc'[p] = "stored" /\ UNCHANGED <<m, done, ref, arg, asked>>
      /\ \A q \in Proc \ {p} : pc'[q] = pc[q]
  BY DEF HFnReturn, FnReturn, Inv, TypeOK
<1>2. /\ k \in Key /\ ref[p] \in Call /\ m[k] = ref[p] /\ ~done[ref[p]]
      /\ ref[p] # NoCall
  BY <1>1, CallAssumption
     DEF Inv, TypeOK, FlightInv, HoldsCall, LeaderIsRegistered, DoneAfterStored, Leading
<1>3. /\ runs[k] \in Nat /\ runs'[k] = runs[k] + 1
      /\ \A l \in Key \ {k} : runs'[l] = runs[l]
      /\ runs' \in [Key -> Nat]
      /\ \A l \in Key : runs[l] \in Nat /\ runs'[l] \in Nat /\ runs[l] <= runs'[l]
  BY <1>2 DEF HFnReturn, Inv, HistoryInv, HTypeOK
<1>4. /\ origin'[ref[p]] = [key |-> k, n |-> runs'[k]]
      /\ \A c \in Call \ {ref[p]} : origin'[c] = origin[c]
      /\ origin' \in [Call -> Execution \cup {Unset}]
  <2>1. [key |-> k, n |-> runs'[k]] \in Execution
    BY <1>2, <1>3 DEF Execution
  <2> QED BY <1>2, <2>1 DEF HFnReturn, Inv, HistoryInv, HTypeOK
<1>5. \A q \in Proc \ {p} : Leading(q) => arg[q] # k /\ ref[q] # ref[p]
  <2>1. Leading(p)
    BY <1>1 DEF Leading
  <2> QED BY <2>1, LeadersDiffer DEF Inv, FlightInv, OneLeaderPerKey
<1> HIDE DEF k
<1>6. HTypeOK'
  BY <1>1, <1>3, <1>4 DEF Inv, HistoryInv, HTypeOK
<1>7. Requests'
  <2> SUFFICES ASSUME NEW q \in Proc, pc[q] # "idle"
               PROVE  asked[q].n <= runs'[arg[q]]
    BY <1>1 DEF Inv, HistoryInv, Requests
  <2>1. asked[q].n <= runs[arg[q]] /\ asked[q].n \in Nat /\ arg[q] \in Key
    BY DEF Inv, HistoryInv, Requests, TypeOK, Execution
  <2> QED BY <1>3, <2>1
<1>8. OneKeyPerHolder'
  BY <1>1 DEF Inv, HistoryInv, OneKeyPerHolder
<1>9. LeaderIsLast'
  <2> SUFFICES ASSUME NEW q \in Proc, pc'[q] \in {"stored", "delete"}
               PROVE  /\ origin'[ref[q]] = [key |-> arg[q], n |-> runs'[arg[q]]]
                      /\ runs'[arg[q]] > 0
    BY <1>1 DEF LeaderIsLast
  <2>1. CASE q = p
    BY <1>3, <1>4, <2>1 DEF k
  <2>2. CASE q # p
    <3>1. pc[q] \in {"stored", "delete"} /\ Leading(q)
      BY <1>1, <2>2 DEF Leading
    <3>2. arg[q] \in Key \ {k} /\ ref[q] \in Call \ {ref[p]}
      BY <1>5, <2>2, <3>1 DEF Inv, TypeOK, FlightInv, HoldsCall
    <3> QED BY <1>3, <1>4, <3>1, <3>2 DEF Inv, HistoryInv, LeaderIsLast
  <2> QED BY <2>1, <2>2
<1>10. JoinedIsCurrent'
  <2>1. ASSUME NEW q \in Proc, pc'[q] = "wait", done'[ref'[q]]
        PROVE  Current(q)'
    <3>1. q # p /\ pc[q] = "wait" /\ done[ref[q]] /\ ref[q] # ref[p]
      BY <1>1, <1>2, <2>1
    <3>2. ref[q] \in Call \ {ref[p]} /\ arg[q] \in Key
      BY <3>1 DEF Inv, TypeOK, FlightInv, HoldsCall
    <3>3. Current(q) /\ asked[q] \in Execution
      BY <3>1 DEF Inv, HistoryInv, JoinedIsCurrent, Requests
    <3>4. /\ origin'[ref'[q]] = origin[ref[q]] /\ asked' = asked /\ arg' = arg
          /\ runs[arg[q]] \in Nat /\ runs'[arg[q]] \in Nat /\ runs[arg[q]] <= runs'[arg[q]]
          /\ origin[ref[q]].n \in Nat
      BY <1>1, <1>3, <1>4, <3>2, <3>3 DEF Current, Execution
    <3> QED BY <3>3, <3>4 DEF Current
  <2>2. ASSUME NEW l \in Key, m'[l] # NoCall, done'[m'[l]]
        PROVE  origin'[m'[l]] = [key |-> l, n |-> runs'[l]] /\ runs'[l] > 0
    <3>1. l # k /\ m[l] \in Call \ {ref[p]}
      BY <1>1, <1>2, <2>2 DEF Inv, TypeOK
    <3> QED BY <1>1, <1>3, <1>4, <2>2, <3>1 DEF Inv, HistoryInv, JoinedIsCurrent
  <2> QED BY <2>1, <2>2 DEF JoinedIsCurrent
<1> QED BY <1>6, <1>7, <1>8, <1>9, <1>10 DEF HistoryInv

\* A panic leaves the call as it is, registered for ever.
LEMMA FnPanicKeeps ==
    ASSUME Inv, NEW p \in Proc, HFnPanic(p)
    PROVE  HistoryInv'
<1>1. /\ pc'[p] = "idle" /\ UNCHANGED <<m, val, done, arg, runs, origin, got>>
      /\ \A q \in Proc \ {p} : /\ pc'[q] = pc[q] /\ ref'[q] = ref[q]
                                /\ asked'[q] = asked[q]
      /\ asked'[p] = Unset
  BY DEF HFnPanic, FnPanic, Inv, TypeOK, HistoryInv, HTypeOK
<1>2. HTypeOK'
  BY DEF HFnPanic, Inv, HistoryInv, HTypeOK
<1>3. Requests' /\ OneKeyPerHolder' /\ LeaderIsLast'
  BY <1>1 DEF Inv, HistoryInv, Requests, OneKeyPerHolder, LeaderIsLast
<1>4. JoinedIsCurrent'
  BY <1>1 DEF Inv, HistoryInv, JoinedIsCurrent, Current
<1> QED BY <1>2, <1>3, <1>4 DEF HistoryInv

\* wg.Done() releases the waiters, who asked for the leader's key, and that before
\* the leader's execution completed or since, when it was the last one.
LEMMA DoneKeeps ==
    ASSUME Inv, NEW p \in Proc, HDone(p)
    PROVE  HistoryInv'
<1> DEFINE k == arg[p]
<1>1. /\ pc[p] = "stored" /\ pc'[p] = "delete"
      /\ \A q \in Proc \ {p} : pc'[q] = pc[q]
      /\ UNCHANGED <<m, val, ref, arg, runs, origin, asked>>
  BY DEF HDone, Done, Inv, TypeOK
<1>2. /\ k \in Key /\ ref[p] \in Call /\ m[k] = ref[p] /\ ref[p] # NoCall
  BY <1>1, CallAssumption
     DEF Inv, TypeOK, FlightInv, HoldsCall, LeaderIsRegistered, Leading
<1>3. \A c \in Call \ {ref[p]} : done'[c] = done[c]
  BY <1>2 DEF HDone, Done, Inv, TypeOK
<1>4. origin[ref[p]] = [key |-> k, n |-> runs[k]] /\ runs[k] > 0 /\ runs[k] \in Nat
  BY <1>1, <1>2 DEF Inv, HistoryInv, LeaderIsLast, HTypeOK
<1> HIDE DEF k
<1>5. HTypeOK' /\ Requests' /\ OneKeyPerHolder' /\ LeaderIsLast'
  BY <1>1 DEF Inv, HistoryInv, HTypeOK, Requests, OneKeyPerHolder, LeaderIsLast
<1>6. JoinedIsCurrent'
  <2>1. ASSUME NEW q \in Proc, pc'[q] = "wait", done'[ref'[q]]
        PROVE  Current(q)'
    <3>1. q # p /\ pc[q] = "wait"
      BY <1>1, <2>1
    <3>2. asked[q] \in Execution /\ asked[q].n <= runs[arg[q]]
      BY <3>1 DEF Inv, HistoryInv, Requests
    <3>3. CASE ref[q] = ref[p]
      <4>1. arg[q] = k
        BY <1>2, <3>1, <3>3 DEF Inv, HistoryInv, OneKeyPerHolder
      <4>2. origin[ref[q]] \in Execution
        BY <1>2, <1>4, <3>3 DEF Execution
      <4> QED BY <1>1, <1>4, <3>2, <3>3, <4>1, <4>2 DEF Current
    <3>4. CASE ref[q] # ref[p]
      <4>1. ref[q] \in Call \ {ref[p]}
        BY <3>1, <3>4 DEF Inv, TypeOK, FlightInv, HoldsCall
      <4> QED BY <1>1, <1>3, <2>1, <3>1, <4>1 DEF Inv, HistoryInv, JoinedIsCurrent, Current
    <3> QED BY <3>3, <3>4
  <2>2. ASSUME NEW l \in Key, m'[l] # NoCall, done'[m'[l]]
        PROVE  origin'[m'[l]] = [key |-> l, n |-> runs'[l]] /\ runs'[l] > 0
    <3>1. CASE l = k
      BY <1>1, <1>2, <1>4, <3>1
    <3>2. CASE l # k
      <4>1. m[l] \in Call \ {ref[p]}
        BY <1>1, <1>2, <2>2, <3>2 DEF Inv, TypeOK, FlightInv, OneKeyPerCall
      <4> QED BY <1>1, <1>3, <2>2, <4>1 DEF Inv, HistoryInv, JoinedIsCurrent
    <3> QED BY <3>1, <3>2
  <2> QED BY <2>1, <2>2 DEF JoinedIsCurrent
<1> QED BY <1>5, <1>6 DEF HistoryInv

\* Do returns.
LEMMA ReturnKeeps ==
    ASSUME Inv, NEW p \in Proc, HReturn(p)
    PROVE  HistoryInv'
<1>1. /\ Leave(p) /\ arg' = arg /\ UNCHANGED <<runs, origin>>
      /\ \A k \in Key : m'[k] = m[k] \/ m'[k] = NoCall
  BY DEF HReturn, Delete, WaitReturn, Inv, TypeOK
<1>2. /\ pc'[p] = "idle" /\ ref'[p] = NoCall /\ asked'[p] = Unset
      /\ \A q \in Proc \ {p} : /\ pc'[q] = pc[q] /\ ref'[q] = ref[q]
                                /\ asked'[q] = asked[q]
  BY <1>1 DEF HReturn, Leave, Inv, TypeOK, HistoryInv, HTypeOK
<1>3. \A c \in Call : done'[c] => done[c]
  BY <1>1 DEF Leave, Inv, TypeOK
<1>4. HTypeOK'
  BY DEF HReturn, Inv, HistoryInv, HTypeOK
<1>5. Requests' /\ LeaderIsLast'
  BY <1>1, <1>2 DEF Inv, HistoryInv, Requests, LeaderIsLast
<1>6. OneKeyPerHolder'
  <2> SUFFICES ASSUME NEW q \in Proc, NEW k \in Key, pc'[q] # "idle", m'[k] = ref'[q]
               PROVE  k = arg[q]
    BY <1>1 DEF OneKeyPerHolder
  <2>1. q # p /\ pc[q] # "idle" /\ ref'[q] = ref[q] /\ ref[q] # NoCall
    BY <1>2 DEF Inv, FlightInv, HoldsCall
  <2> QED BY <1>1, <2>1 DEF Inv, HistoryInv, OneKeyPerHolder
<1>7. JoinedIsCurrent'
  <2>1. ASSUME NEW q \in Proc, pc'[q] = "wait", done'[ref'[q]]
        PROVE  Current(q)'
    <3>1. q # p /\ pc[q] = "wait"
      BY <1>2, <2>1
    <3>2. ref[q] \in Call /\ ref'[q] = ref[q]
      BY <1>2, <3>1 DEF Inv, TypeOK, FlightInv, HoldsCall
    <3>3. Current(q)
      BY <1>3, <2>1, <3>1, <3>2 DEF Inv, HistoryInv, JoinedIsCurrent
    <3> QED BY <1>1, <1>2, <3>1, <3>2, <3>3 DEF Current
  <2>2. ASSUME NEW l \in Key, m'[l] # NoCall, done'[m'[l]]
        PROVE  origin'[m'[l]] = [key |-> l, n |-> runs'[l]] /\ runs'[l] > 0
    <3>1. m'[l] = m[l] /\ m[l] \in Call
      BY <1>1, <2>2 DEF Inv, TypeOK
    <3> QED BY <1>1, <1>3, <2>2, <3>1 DEF Inv, HistoryInv, JoinedIsCurrent
  <2> QED BY <2>1, <2>2 DEF JoinedIsCurrent
<1> QED BY <1>4, <1>5, <1>6, <1>7 DEF HistoryInv

LEMMA HNextCases ==
    ASSUME HNext
    PROVE  \E p \in Proc :
              \/ \E k \in Key : HJoin(p, k)
              \/ \E k \in Key : HLead(p, k)
              \/ \E r \in Result : HFnReturn(p, r)
              \/ HFnPanic(p)
              \/ HDone(p)
              \/ HReturn(p)
  BY DEF HNext, HStep

\* The history variables do not hinder a step, and do not make one.
LEMMA HStepIsStep == [HNext]_hvars => [Next]_vars
  BY DEF HNext, HStep, HJoin, HLead, HFnReturn, HFnPanic, HDone, HReturn, Next, Step, hvars,
         vars

LEMMA HistoryStep == Inv /\ [HNext]_hvars => HistoryInv'
<1> SUFFICES ASSUME Inv, [HNext]_hvars
             PROVE  HistoryInv'
  OBVIOUS
<1>1. CASE HNext
  BY <1>1, HNextCases, JoinKeeps, LeadKeeps, FnReturnKeeps, FnPanicKeeps, DoneKeeps,
     ReturnKeeps
<1>2. CASE UNCHANGED hvars
  BY <1>2 DEF hvars, vars, Inv, HistoryInv, HTypeOK, Requests, OneKeyPerHolder,
              LeaderIsLast, JoinedIsCurrent, Current
<1> QED BY <1>1, <1>2

LEMMA HInductive == HSpec => []Inv
<1>1. HInit => Inv
  <2> SUFFICES ASSUME HInit
               PROVE  Inv
    OBVIOUS
  <2>1. TypeOK
    BY DEF HInit, Init, TypeOK, PC
  <2>2. FlightInv
    BY CallAssumption
       DEF HInit, Init, FlightInv, HoldsCall, OneLeaderPerKey, Leading,
           LeaderIsRegistered, OneKeyPerCall, DoneAfterStored, DoneHasResult
  <2> QED BY <2>1, <2>2, HInitInv DEF Inv
<1>2. Inv /\ [HNext]_hvars => Inv'
  BY HStepIsStep, TypeStep, FlightStep, HistoryStep DEF Inv
<1> QED BY <1>1, <1>2, PTL DEF HSpec

-----------------------------------------------------------------------------
(* Every step of SingleFlight is one of Coalescing, or none.                 *)

LEMMA AskStep ==
    ASSUME Inv, NEW p \in Proc, NEW k \in Key, HJoin(p, k) \/ HLead(p, k)
    PROVE  Abs!Ask(p, k)
<1>1. /\ asked[p] = Unset /\ pc[p] = "idle"
      /\ asked' = [asked EXCEPT ![p] = [key |-> k, n |-> runs[k]]]
      /\ got' = [got EXCEPT ![p] = Unset] /\ UNCHANGED runs
  BY DEF HJoin, HLead, Join, Lead, LeadWith, Begin, Inv, HistoryInv, Requests
<1>2. CASE HJoin(p, k)
  <2>1. /\ pc'[p] = "wait"
        /\ \A q \in Proc \ {p} : pc'[q] = pc[q] /\ arg'[q] = arg[q]
    BY <1>2 DEF HJoin, Join, Inv, TypeOK
  <2>2. Running' = Running
    BY <1>1, <2>1 DEF Running
  <2> QED BY <1>1, <2>2 DEF Abs!Ask
<1>3. CASE HLead(p, k)
  <2>1. /\ pc'[p] = "run" /\ arg'[p] = k /\ m[k] = NoCall
        /\ \A q \in Proc \ {p} : pc'[q] = pc[q] /\ arg'[q] = arg[q]
    BY <1>3, LeadIsLeadWith DEF HLead, LeadWith, Inv, TypeOK
  <2>2. Running' = Running \cup {k}
    BY <1>1, <2>1 DEF Running
  <2>3. k \notin Running
    BY <2>1 DEF Running, Inv, FlightInv, HoldsCall, LeaderIsRegistered, Leading
  <2> QED BY <1>1, <2>2, <2>3 DEF Abs!Ask
<1> QED BY <1>2, <1>3

\* When a leader leaves fn, no other is in fn for its key.
LEMMA RunEnds ==
    ASSUME Inv, NEW p \in Proc, pc[p] = "run", pc'[p] # "run", arg' = arg,
           \A q \in Proc \ {p} : pc'[q] = pc[q]
    PROVE  arg[p] \in Running /\ Running' = Running \ {arg[p]}
<1>1. \A q \in Proc \ {p} : pc[q] = "run" => arg[q] # arg[p]
  BY DEF Inv, FlightInv, OneLeaderPerKey, Leading
<1> QED BY <1>1 DEF Running

LEMMA CompleteStep ==
    ASSUME Inv, NEW p \in Proc, NEW r \in Result, HFnReturn(p, r)
    PROVE  Abs!Complete(arg[p])
<1>1. /\ pc[p] = "run" /\ pc'[p] # "run" /\ arg' = arg
      /\ \A q \in Proc \ {p} : pc'[q] = pc[q]
      /\ runs' = [runs EXCEPT ![arg[p]] = @ + 1] /\ UNCHANGED <<asked, got>>
  BY DEF HFnReturn, FnReturn, Inv, TypeOK
<1>2. arg[p] \in Running /\ Running' = Running \ {arg[p]}
  BY <1>1, RunEnds
<1> QED BY <1>1, <1>2 DEF Abs!Complete

LEMMA AbortStep ==
    ASSUME Inv, NEW p \in Proc, HFnPanic(p)
    PROVE  Abs!Abort(p)
<1>1. /\ pc[p] = "run" /\ pc'[p] # "run" /\ arg' = arg
      /\ \A q \in Proc \ {p} : pc'[q] = pc[q]
      /\ asked' = [asked EXCEPT ![p] = Unset] /\ UNCHANGED <<runs, got>>
  BY DEF HFnPanic, FnPanic, Inv, TypeOK
<1>2. arg[p] \in Running /\ Running' = Running \ {arg[p]}
  BY <1>1, RunEnds
<1>3. asked[p] # Unset /\ asked[p].key = arg[p]
  BY <1>1, HistoryAssumption DEF Inv, HistoryInv, Requests
<1> QED BY <1>1, <1>2, <1>3 DEF Abs!Abort

LEMMA AnswerStep ==
    ASSUME Inv, NEW p \in Proc, HReturn(p)
    PROVE  Abs!Next
<1> DEFINE e == origin[ref[p]]
<1>1. /\ pc[p] = "delete" \/ (pc[p] = "wait" /\ done[ref[p]])
      /\ pc'[p] = "idle" /\ arg' = arg
      /\ \A q \in Proc \ {p} : pc'[q] = pc[q]
      /\ got' = [got EXCEPT ![p] = e] /\ asked' = [asked EXCEPT ![p] = Unset]
      /\ UNCHANGED runs
  BY DEF HReturn, Delete, WaitReturn, Leave, Inv, TypeOK
<1>2. Running' = Running
  BY <1>1 DEF Running
<1>3. /\ asked[p] # Unset /\ asked[p] \in Execution /\ asked[p].key = arg[p]
      /\ asked[p].n <= runs[arg[p]] /\ arg[p] \in Key /\ runs[arg[p]] \in Nat
  BY <1>1, HistoryAssumption DEF Inv, HistoryInv, HTypeOK, Requests, TypeOK
<1>4. /\ e \in Execution /\ e.key = arg[p] /\ e.n > 0
      /\ asked[p].n <= e.n /\ e.n <= runs[arg[p]]
  <2>1. CASE pc[p] = "delete"
    <3>1. e = [key |-> arg[p], n |-> runs[arg[p]]] /\ runs[arg[p]] > 0
      BY <2>1 DEF Inv, HistoryInv, LeaderIsLast
    <3> QED BY <1>3, <3>1 DEF Execution
  <2>2. CASE pc[p] = "wait" /\ done[ref[p]]
    BY <2>2 DEF Inv, HistoryInv, JoinedIsCurrent, Current
  <2> QED BY <1>1, <2>1, <2>2
<1> HIDE DEF e
<1>5. /\ e = [key |-> arg[p], n |-> e.n] /\ e.n \in 1 .. runs[arg[p]]
      /\ e.n \in asked[p].n .. runs[e.key]
  BY <1>3, <1>4 DEF Execution
<1>6. Abs!Answer(p, e)
  BY <1>1, <1>2, <1>3, <1>4, <1>5 DEF Abs!Answer
<1>7. Abs!Answer(p, [key |-> arg[p], n |-> e.n])
  BY <1>5, <1>6
<1> QED BY <1>3, <1>5, <1>7 DEF Abs!Next

\* Many requests are merged into one: in every behaviour of Do, at most one
\* execution of fn is under way for a key, and a caller's result is of its own key
\* and no older than the execution last completed when it called Do, although a
\* call can be joined between wg.Done() and its delete.
THEOREM Implements == HSpec => ImplementsCoalescing
<1>1. HInit => Abs!Init
  BY DEF HInit, Init, Abs!Init, Running
<1>2. Inv /\ [HNext]_hvars => [Abs!Next]_(Abs!vars)
  <2> SUFFICES ASSUME Inv, [HNext]_hvars
               PROVE  Abs!Next \/ UNCHANGED Abs!vars
    OBVIOUS
  <2>1. ASSUME NEW p \in Proc, HDone(p)
        PROVE  UNCHANGED Abs!vars
    <3>1. Running' = Running
      BY <2>1 DEF HDone, Done, Running, Inv, TypeOK
    <3> QED BY <2>1, <3>1 DEF HDone, Abs!vars
  <2>2. CASE UNCHANGED hvars
    BY <2>2 DEF hvars, vars, Abs!vars, Running
  <2>3. ASSUME NEW p \in Proc, NEW r \in Result, HFnReturn(p, r)
        PROVE  Abs!Next
    <3>1. Abs!Complete(arg[p]) /\ arg[p] \in Key
      BY <2>3, CompleteStep DEF Inv, TypeOK
    <3> QED BY <3>1 DEF Abs!Next
  <2>4. ASSUME NEW p \in Proc, NEW k \in Key, HJoin(p, k) \/ HLead(p, k)
        PROVE  Abs!Next
    BY <2>4, AskStep DEF Abs!Next
  <2>5. ASSUME NEW p \in Proc, HFnPanic(p)
        PROVE  Abs!Next
    BY <2>5, AbortStep DEF Abs!Next
  <2> QED BY <2>1, <2>2, <2>3, <2>4, <2>5, HNextCases, AnswerStep
<1> QED BY <1>1, <1>2, HInductive, PTL DEF HSpec, ImplementsCoalescing, Abs!Spec

=============================================================================
