---------------------------- MODULE GroupProofs ----------------------------
(***************************************************************************)
(* Proofs about Group, for every set of goroutines, keys and calls, and    *)
(* every bound on versions: one load per key, GroupInv, and that Group     *)
(* implements ReadThrough.                                                 *)
(*                                                                         *)
(* The first part says for the loader, as Group instantiates it, what      *)
(* SingleFlightProofs says for SingleFlight: the prover does not carry a   *)
(* theorem through INSTANCE.  The second is the invariant, one lemma per   *)
(* part with one step per action, and the third the theorems.              *)
(*                                                                         *)
(* The last part is about Metrics, the counters InstrumentedGroup keeps of *)
(* a group's Gets: that they add up, for any number of goroutines.         *)
(***************************************************************************)
EXTENDS Group, Metrics, SumTheorems

-----------------------------------------------------------------------------
(* The loader's own invariant.                                               *)

\* A free call exists whenever Lead is enabled, and Fresh is one.
LEMMA FreshIsFree ==
    ASSUME \E c \in Call : SF!Free(c)
    PROVE  SF!Fresh \in Call /\ SF!Free(SF!Fresh)
  BY DEF SF!Fresh

\* Lead is LeadWith for some call that is free.
LEMMA LeadIsLeadWith ==
    ASSUME NEW p \in Proc, NEW k \in Key, SF!Lead(p, k)
    PROVE  \E c \in Call : SF!LeadWith(p, k, c)
  BY FreshIsFree DEF SF!Lead

\* Each step is one of the seven actions.
LEMMA NextCases ==
    ASSUME SF!Next
    PROVE  \E p \in Proc :
              \/ \E k \in Key : SF!Join(p, k)
              \/ \E k \in Key, c \in Call : SF!LeadWith(p, k, c)
              \/ \E r \in Version \cup {Err} : SF!FnReturn(p, r)
              \/ SF!FnPanic(p)
              \/ SF!Done(p)
              \/ SF!Delete(p)
              \/ SF!WaitReturn(p)
  BY LeadIsLeadWith DEF SF!Next, SF!Step

\* Type correctness of Do and doCall.
LEMMA LoaderTypeStep == SF!TypeOK /\ SF!Next => SF!TypeOK'
<1> SUFFICES ASSUME SF!TypeOK, SF!Next
             PROVE  SF!TypeOK'
    OBVIOUS
<1> USE DEF SF!TypeOK, SF!PC
<1> PICK p \in Proc :
            \/ \E k \in Key : SF!Join(p, k)
            \/ \E k \in Key, c \in Call : SF!LeadWith(p, k, c)
            \/ \E r \in Version \cup {Err} : SF!FnReturn(p, r)
            \/ SF!FnPanic(p)
            \/ SF!Done(p)
            \/ SF!Delete(p)
            \/ SF!WaitReturn(p)
    BY NextCases
<1>1. ASSUME NEW k \in Key, SF!Join(p, k)
      PROVE  SF!TypeOK'
  BY <1>1 DEF SF!Join
<1>2. ASSUME NEW k \in Key, NEW c \in Call, SF!LeadWith(p, k, c)
      PROVE  SF!TypeOK'
  BY <1>2 DEF SF!LeadWith
<1>3. ASSUME NEW r \in Version \cup {Err}, SF!FnReturn(p, r)
      PROVE  SF!TypeOK'
  BY <1>3 DEF SF!FnReturn
<1>4. CASE SF!FnPanic(p)
  BY <1>4 DEF SF!FnPanic
<1>5. CASE SF!Done(p)
  BY <1>5 DEF SF!Done
<1>6. CASE SF!Delete(p)
  BY <1>6 DEF SF!Delete, SF!Leave
<1>7. CASE SF!WaitReturn(p)
  BY <1>7 DEF SF!WaitReturn, SF!Leave
<1> QED
  BY <1>1, <1>2, <1>3, <1>4, <1>5, <1>6, <1>7

\* A leader shares its call with no other leader: a call has one key, and a key
\* one leader.
LEMMA LeadersDiffer ==
    ASSUME SF!TypeOK, SF!FlightInv,
           NEW p \in Proc, NEW q \in Proc, SF!Leading(p), SF!Leading(q),
           ref[p] = ref[q]
    PROVE  p = q
<1>1. m[arg[p]] = ref[p] /\ m[arg[q]] = ref[p]
  BY DEF SF!FlightInv, SF!LeaderIsRegistered
<1>2. ref[p] # NoCall
  BY DEF SF!FlightInv, SF!HoldsCall, SF!Leading
<1>3. arg[p] = arg[q]
  BY <1>1, <1>2 DEF SF!TypeOK, SF!FlightInv, SF!OneKeyPerCall
<1> QED
  BY <1>3 DEF SF!FlightInv, SF!OneLeaderPerKey

\* A goroutine that leaves Do changes only its own call, and that only when the
\* call is out of everyone else's reach.
LEMMA LeaveKeepsOthers ==
    ASSUME SF!TypeOK, NEW p \in Proc, SF!Leave(p)
    PROVE  /\ \A q \in Proc \ {p} :
                  /\ pc'[q] = pc[q]
                  /\ ref'[q] = ref[q]
                  /\ ref[q] # NoCall =>
                        /\ val'[ref[q]] = val[ref[q]]
                        /\ done'[ref[q]] = done[ref[q]]
           /\ pc'[p] = "idle" /\ ref'[p] = NoCall
           /\ \A k \in Key : m'[k] # NoCall /\ m'[k] \in Call =>
                  /\ val'[m'[k]] = val[m'[k]]
                  /\ done'[m'[k]] = done[m'[k]]
  BY DEF SF!TypeOK, SF!Leave

\* FlightInv is inductive: one step per action of Do and doCall.
LEMMA FlightStep == SF!TypeOK /\ SF!FlightInv /\ SF!Next => SF!FlightInv'
<1> SUFFICES ASSUME SF!TypeOK, SF!FlightInv, SF!Next
             PROVE  SF!FlightInv'
    OBVIOUS
<1> USE GroupAssumption
<1> PICK p \in Proc :
            \/ \E k \in Key : SF!Join(p, k)
            \/ \E k \in Key, c \in Call : SF!LeadWith(p, k, c)
            \/ \E r \in Version \cup {Err} : SF!FnReturn(p, r)
            \/ SF!FnPanic(p)
            \/ SF!Done(p)
            \/ SF!Delete(p)
            \/ SF!WaitReturn(p)
    BY NextCases
<1>1. ASSUME NEW k \in Key, SF!Join(p, k)
      PROVE  SF!FlightInv'
  BY <1>1 DEF SF!Join, SF!TypeOK, SF!FlightInv, SF!HoldsCall, SF!OneLeaderPerKey,
     SF!Leading,
              SF!LeaderIsRegistered, SF!OneKeyPerCall, SF!DoneAfterStored,
                 SF!DoneHasResult
<1>2. ASSUME NEW k \in Key, NEW c \in Call, SF!LeadWith(p, k, c)
      PROVE  SF!FlightInv'
  <2>1. \A q \in Proc : SF!Leading(q) => arg[q] # k
    BY <1>2 DEF SF!LeadWith, SF!FlightInv, SF!HoldsCall, SF!LeaderIsRegistered,
       SF!Leading
  <2>2. \A q \in Proc \ {p} : /\ ref'[q] = ref[q] /\ ref[q] # c
                              /\ pc'[q] = pc[q] /\ arg'[q] = arg[q]
    BY <1>2 DEF SF!LeadWith, SF!Free, SF!TypeOK
  <2>3. /\ ref'[p] = c /\ pc'[p] = "run" /\ arg'[p] = k
        /\ m'[k] = c /\ ~done'[c]
    BY <1>2 DEF SF!LeadWith, SF!TypeOK
  <2>4. \A l \in Key \ {k} : m'[l] = m[l] /\ m[l] # c
    BY <1>2 DEF SF!LeadWith, SF!Free, SF!TypeOK
  <2>5. \A d \in Call \ {c} : val'[d] = val[d] /\ done'[d] = done[d]
    BY <1>2 DEF SF!LeadWith, SF!TypeOK
  <2>6. SF!HoldsCall'
    BY <2>2, <2>3 DEF SF!FlightInv, SF!HoldsCall
  <2>7. SF!OneLeaderPerKey' /\ SF!LeaderIsRegistered'
    BY <2>1, <2>2, <2>3, <2>4
       DEF SF!TypeOK, SF!FlightInv, SF!OneLeaderPerKey, SF!LeaderIsRegistered,
          SF!Leading
  <2>8. SF!OneKeyPerCall'
    BY <2>3, <2>4 DEF SF!FlightInv, SF!OneKeyPerCall
  <2>9. SF!DoneAfterStored'
    <3> SUFFICES ASSUME NEW q \in Proc, pc'[q] \in {"run", "stored"}
                 PROVE  /\ ~done'[ref'[q]]
                        /\ pc'[q] = "stored" => val'[ref'[q]] \in Version \cup {Err}
      BY DEF SF!DoneAfterStored
    <3>1. CASE q = p
      BY <3>1, <2>3
    <3>2. CASE q # p
      <4>1. ref[q] \in Call \ {c}
        BY <3>2, <2>2 DEF SF!TypeOK, SF!FlightInv, SF!HoldsCall
      <4> QED
        BY <3>2, <4>1, <2>2, <2>5 DEF SF!FlightInv, SF!DoneAfterStored
    <3> QED
      BY <3>1, <3>2
  <2>10. SF!DoneHasResult'
    BY <2>2, <2>3, <2>4, <2>5 DEF SF!TypeOK, SF!FlightInv, SF!DoneHasResult
  <2> QED
    BY <2>6, <2>7, <2>8, <2>9, <2>10 DEF SF!FlightInv
<1>3. ASSUME NEW r \in Version \cup {Err}, SF!FnReturn(p, r)
      PROVE  SF!FlightInv'
  BY <1>3 DEF SF!FnReturn, SF!TypeOK, SF!FlightInv, SF!HoldsCall,
     SF!OneLeaderPerKey, SF!Leading,
              SF!LeaderIsRegistered, SF!OneKeyPerCall, SF!DoneAfterStored,
                 SF!DoneHasResult
<1>4. CASE SF!FnPanic(p)
  BY <1>4 DEF SF!FnPanic, SF!TypeOK, SF!FlightInv, SF!HoldsCall,
     SF!OneLeaderPerKey, SF!Leading,
              SF!LeaderIsRegistered, SF!OneKeyPerCall, SF!DoneAfterStored,
                 SF!DoneHasResult
<1>5. CASE SF!Done(p)
  <2>1. /\ UNCHANGED <<m, val, ref, arg>>
        /\ pc[p] = "stored" /\ pc'[p] = "delete"
        /\ \A q \in Proc \ {p} : pc'[q] = pc[q]
    BY <1>5 DEF SF!Done, SF!TypeOK
  <2>2. ref[p] \in Call /\ val[ref[p]] \in Version \cup {Err}
    BY <2>1 DEF SF!TypeOK, SF!FlightInv, SF!HoldsCall, SF!DoneAfterStored
  <2>3. \A d \in Call \ {ref[p]} : done'[d] = done[d]
    BY <1>5, <2>2 DEF SF!Done, SF!TypeOK
  <2>4. \A q \in Proc : pc'[q] \in {"run", "stored"} => ref[q] # ref[p]
    <3> SUFFICES ASSUME NEW q \in Proc, pc'[q] \in {"run", "stored"},
                        ref[q] = ref[p]
                 PROVE  FALSE
      OBVIOUS
    <3>1. q # p
      BY <2>1
    <3>2. SF!Leading(q) /\ SF!Leading(p)
      BY <3>1, <2>1 DEF SF!Leading
    <3> QED
      BY <3>1, <3>2, LeadersDiffer
  <2>5. SF!HoldsCall' /\ SF!OneLeaderPerKey' /\ SF!LeaderIsRegistered' /\ SF!OneKeyPerCall'
    BY <2>1 DEF SF!FlightInv, SF!HoldsCall, SF!OneLeaderPerKey, SF!LeaderIsRegistered,
                SF!OneKeyPerCall, SF!Leading
  <2>6. SF!DoneAfterStored'
    <3> SUFFICES ASSUME NEW q \in Proc, pc'[q] \in {"run", "stored"}
                 PROVE  /\ ~done'[ref'[q]]
                        /\ pc'[q] = "stored" => val'[ref'[q]] \in Version \cup {Err}
      BY DEF SF!DoneAfterStored
    <3>1. q # p /\ pc'[q] = pc[q]
      BY <2>1
    <3>2. ref[q] \in Call \ {ref[p]}
      BY <3>1, <2>4 DEF SF!TypeOK, SF!FlightInv, SF!HoldsCall
    <3> QED
      BY <3>1, <3>2, <2>1, <2>3 DEF SF!FlightInv, SF!DoneAfterStored
  <2>7. SF!DoneHasResult'
    BY <2>1, <2>2, <2>3 DEF SF!TypeOK, SF!FlightInv, SF!DoneHasResult
  <2> QED
    BY <2>5, <2>6, <2>7 DEF SF!FlightInv
<1>6. CASE SF!Delete(p)
  <2>1. /\ SF!Leave(p) /\ pc[p] = "delete" /\ arg' = arg
        /\ m'[arg[p]] = NoCall
        /\ \A k \in Key \ {arg[p]} : m'[k] = m[k]
    BY <1>6 DEF SF!Delete, SF!TypeOK
  <2>2. \A q \in Proc \ {p} : SF!Leading(q) => arg[q] # arg[p]
    BY <2>1 DEF SF!FlightInv, SF!OneLeaderPerKey, SF!Leading
  <2>3. SF!HoldsCall' /\ SF!OneLeaderPerKey'
    BY <2>1, LeaveKeepsOthers DEF SF!FlightInv, SF!HoldsCall, SF!OneLeaderPerKey,
       SF!Leading
  <2>4. SF!LeaderIsRegistered'
    BY <2>1, <2>2, LeaveKeepsOthers
       DEF SF!TypeOK, SF!FlightInv, SF!LeaderIsRegistered, SF!Leading
  <2>5. SF!OneKeyPerCall'
    BY <2>1 DEF SF!TypeOK, SF!FlightInv, SF!OneKeyPerCall
  <2>6. SF!DoneAfterStored'
    BY <2>1, LeaveKeepsOthers DEF SF!FlightInv, SF!DoneAfterStored, SF!HoldsCall
  <2>7. SF!DoneHasResult'
    BY <2>1, LeaveKeepsOthers DEF SF!TypeOK, SF!FlightInv, SF!DoneHasResult
  <2> QED
    BY <2>3, <2>4, <2>5, <2>6, <2>7 DEF SF!FlightInv
<1>7. CASE SF!WaitReturn(p)
  <2>1. SF!Leave(p) /\ pc[p] = "wait" /\ UNCHANGED <<m, arg>>
    BY <1>7 DEF SF!WaitReturn
  <2>2. SF!HoldsCall' /\ SF!OneLeaderPerKey' /\ SF!LeaderIsRegistered' /\ SF!OneKeyPerCall'
    BY <2>1, LeaveKeepsOthers
       DEF SF!FlightInv, SF!HoldsCall, SF!OneLeaderPerKey, SF!LeaderIsRegistered,
           SF!OneKeyPerCall, SF!Leading
  <2>3. SF!DoneAfterStored'
    BY <2>1, LeaveKeepsOthers DEF SF!FlightInv, SF!DoneAfterStored, SF!HoldsCall
  <2>4. SF!DoneHasResult'
    BY <2>1, LeaveKeepsOthers DEF SF!TypeOK, SF!FlightInv, SF!DoneHasResult
  <2> QED
    BY <2>2, <2>3, <2>4 DEF SF!FlightInv
<1> QED
  BY <1>1, <1>2, <1>3, <1>4, <1>5, <1>6, <1>7

-----------------------------------------------------------------------------
(* The invariant of the proofs: FlightInv of the loader, GroupInv without its *)
(* last conjunct, and the facts about calls and numbers from which that       *)
(* conjunct follows.                                                          *)

\* A call that a goroutine holds is registered, if at all, under the key the
\* goroutine called Do with.
Holders ==
    \A p \in Proc : \A k \in Key :
        pc[p] # "idle" /\ m[k] = ref[p] => k = arg[p]

\* A leader about to delete its call has completed it.
DeleteIsDone == \A p \in Proc : pc[p] = "delete" => done[ref[p]]

Loader == SF!TypeOK /\ SF!FlightInv /\ Holders /\ DeleteIsDone

\* A goroutine asks a peer only when there are peers.
PeersKnown == \A p \in Proc : at[p] \in {"pick", "peer"} => picker # "nil"

\* What was asked for is no newer than what has been cached since, and that no
\* newer than the source.
Bounds ==
    /\ \A k \in Key : floor[k] <= src[k]
    /\ \A p \in Proc : pc[p] # "idle" => asked[p].floor <= floor[arg[p]]
    /\ \A p \in Proc : at[p] = "missed" => asked[p].floor <= floor[asked[p].key]
    /\ \A p \in Proc : at[p] = "populate" => bytes[p] <= src[arg[p]]

\* The result of a call, if it is a version, is one of the key's, and without
\* peers one no older than version n.
Fits(c, k, n) ==
    val[c] \in Version => val[c] <= src[k] /\ (picker = "nil" => val[c] >= n)

Registered == \A k \in Key : m[k] # NoCall => Fits(m[k], k, floor[k])
Held == \A p \in Proc : pc[p] # "idle" => Fits(ref[p], arg[p], asked[p].floor)

IInv ==
    /\ TypeOK /\ Loader
    /\ InStep /\ PeersKnown
    /\ CacheAtFloor /\ LoadAboveFloor /\ Bounds
    /\ Registered /\ Held

-----------------------------------------------------------------------------
(* The loader.                                                               *)

\* The two facts about calls that the group adds are inductive in the loader.
LEMMA HoldersStep == Loader /\ SF!Next => Holders'
<1> SUFFICES ASSUME Loader, SF!Next
             PROVE  Holders'
    OBVIOUS
<1> USE GroupAssumption
<1>0. SF!TypeOK /\ SF!FlightInv /\ Holders
  BY DEF Loader
<1> PICK p \in Proc :
            \/ \E k \in Key : SF!Join(p, k)
            \/ \E k \in Key, c \in Call : SF!LeadWith(p, k, c)
            \/ \E r \in Version \cup {Err} : SF!FnReturn(p, r)
            \/ SF!FnPanic(p)
            \/ SF!Done(p)
            \/ SF!Delete(p)
            \/ SF!WaitReturn(p)
    BY NextCases
<1>1. ASSUME NEW k \in Key, SF!Join(p, k)
      PROVE  Holders'
  BY <1>0, <1>1 DEF SF!Join, SF!TypeOK, Holders, SF!FlightInv, SF!OneKeyPerCall
<1>2. ASSUME NEW k \in Key, NEW c \in Call, SF!LeadWith(p, k, c)
      PROVE  Holders'
  BY <1>0, <1>2 DEF SF!LeadWith, SF!Free, SF!TypeOK, Holders
<1>3. ASSUME NEW r \in Version \cup {Err}, SF!FnReturn(p, r)
      PROVE  Holders'
  BY <1>0, <1>3 DEF SF!FnReturn, SF!TypeOK, Holders
<1>4. CASE SF!FnPanic(p)
  BY <1>0, <1>4 DEF SF!FnPanic, SF!TypeOK, Holders
<1>5. CASE SF!Done(p)
  BY <1>0, <1>5 DEF SF!Done, SF!TypeOK, Holders
<1>6. CASE SF!Delete(p)
  BY <1>0, <1>6 DEF SF!Delete, SF!Leave, SF!TypeOK, Holders, SF!FlightInv,
     SF!HoldsCall
<1>7. CASE SF!WaitReturn(p)
  BY <1>0, <1>7 DEF SF!WaitReturn, SF!Leave, SF!TypeOK, Holders
<1> QED
  BY <1>1, <1>2, <1>3, <1>4, <1>5, <1>6, <1>7

\* Only wg.Done() comes before the delete.
LEMMA DeleteIsDoneStep == Loader /\ SF!Next => DeleteIsDone'
<1> SUFFICES ASSUME Loader, SF!Next
             PROVE  DeleteIsDone'
    OBVIOUS
<1> USE GroupAssumption
<1>0. SF!TypeOK /\ SF!HoldsCall /\ DeleteIsDone
  BY DEF Loader, SF!FlightInv
<1> PICK p \in Proc :
            \/ \E k \in Key : SF!Join(p, k)
            \/ \E k \in Key, c \in Call : SF!LeadWith(p, k, c)
            \/ \E r \in Version \cup {Err} : SF!FnReturn(p, r)
            \/ SF!FnPanic(p)
            \/ SF!Done(p)
            \/ SF!Delete(p)
            \/ SF!WaitReturn(p)
    BY NextCases
<1>1. ASSUME NEW k \in Key, SF!Join(p, k)
      PROVE  DeleteIsDone'
  BY <1>0, <1>1 DEF SF!Join, SF!TypeOK, DeleteIsDone
<1>2. ASSUME NEW k \in Key, NEW c \in Call, SF!LeadWith(p, k, c)
      PROVE  DeleteIsDone'
  BY <1>0, <1>2 DEF SF!LeadWith, SF!Free, SF!TypeOK, DeleteIsDone
<1>3. ASSUME NEW r \in Version \cup {Err}, SF!FnReturn(p, r)
      PROVE  DeleteIsDone'
  BY <1>0, <1>3 DEF SF!FnReturn, SF!TypeOK, DeleteIsDone
<1>4. CASE SF!FnPanic(p)
  BY <1>0, <1>4 DEF SF!FnPanic, SF!TypeOK, DeleteIsDone
<1>5. CASE SF!Done(p)
  BY <1>0, <1>5 DEF SF!Done, SF!TypeOK, DeleteIsDone, SF!HoldsCall
<1>6. ASSUME SF!Leave(p)
      PROVE  DeleteIsDone'
  BY <1>0, <1>6, LeaveKeepsOthers DEF DeleteIsDone, SF!HoldsCall
<1> QED
  BY <1>1, <1>2, <1>3, <1>4, <1>5, <1>6 DEF SF!Delete, SF!WaitReturn

LEMMA LoaderStep == Loader /\ SF!Next => Loader'
  BY LoaderTypeStep, FlightStep, HoldersStep, DeleteIsDoneStep DEF Loader

LEMMA LoaderStutter == Loader /\ UNCHANGED loaderVars => Loader'
<1> SUFFICES ASSUME Loader, UNCHANGED loaderVars
             PROVE  Loader'
    OBVIOUS
<1>1. SF!TypeOK' /\ Holders' /\ DeleteIsDone'
  BY DEF loaderVars, Loader, SF!TypeOK, Holders, DeleteIsDone
<1>2. SF!FlightInv'
  BY DEF loaderVars, Loader, SF!FlightInv, SF!HoldsCall, SF!OneLeaderPerKey,
     SF!Leading,
         SF!LeaderIsRegistered, SF!OneKeyPerCall, SF!DoneAfterStored, SF!DoneHasResult
<1> QED
  BY <1>1, <1>2 DEF Loader

-----------------------------------------------------------------------------
(* The group.                                                                *)

\* The steps of the group that take one of the loader, and those that do not.
LEMMA ActionCases ==
    ASSUME Next
    PROVE  \/ \E p \in Proc :
                \/ \E k \in Key : Hit(p, k) \/ Miss(p, k)
                \/ DoJoin(p) \/ DoLead(p)
                \/ TestPicker(p) \/ PickPeer(p)
                \/ (at[p] \in {"pick", "getter"} /\ Panic(p))
                \/ PeerReturns(p) \/ PeerFails(p)
                \/ GetterReturns(p) \/ GetterFails(p)
                \/ Populate(p) \/ Release(p) \/ Return(p)
           \/ RegisterPeers \/ RegisterPeersDone
           \/ \E k \in Key : Update(k)
  BY DEF Next, Step, PickPanic, GetterPanic

\* Whoever returns from Do returns what fn returned.
LEMMA ReturnsResult ==
    ASSUME Loader, NEW p \in Proc, Return(p)
    PROVE  val[ref[p]] \in Version \cup {Err} /\ pc[p] # "idle" /\ SF!Leave(p)
<1>1. SF!Leave(p) /\ (pc[p] = "delete" \/ (pc[p] = "wait" /\ done[ref[p]]))
  BY DEF Return, SF!Delete, SF!WaitReturn
<1>2. ref[p] # NoCall /\ done[ref[p]]
  BY <1>1 DEF Loader, DeleteIsDone, SF!FlightInv, SF!HoldsCall
<1> QED
  BY <1>1, <1>2 DEF Loader, SF!FlightInv, SF!DoneHasResult

\* A step of the group is a step of the loader or leaves it alone.
LEMMA GroupLoaderStep ==
    ASSUME IInv, Next
    PROVE  Loader'
<1>1. SF!Next \/ UNCHANGED loaderVars
  <2>1. ASSUME NEW p \in Proc, DoJoin(p)
        PROVE  SF!Next
    <3>1. asked[p] \in Request
      BY <2>1 DEF IInv, InStep, DoJoin, TypeOK
    <3> QED
      BY <2>1, <3>1 DEF DoJoin, SF!Next, Request
  <2>2. ASSUME NEW p \in Proc, DoLead(p)
        PROVE  SF!Next
    <3>1. asked[p] \in Request
      BY <2>2 DEF IInv, InStep, DoLead, TypeOK
    <3> QED
      BY <2>2, <3>1 DEF DoLead, SF!Next, Request
  <2>3. ASSUME NEW p \in Proc, Panic(p)
        PROVE  SF!Next
    BY <2>3 DEF Panic, SF!Next, SF!Step
  <2>4. ASSUME NEW p \in Proc, PeerReturns(p)
        PROVE  SF!Next
    <3>1. arg[p] \in Key /\ src[arg[p]] \in Version
      BY DEF IInv, TypeOK, SF!TypeOK
    <3>2. 1 .. src[arg[p]] \subseteq Version
      BY <3>1, GroupAssumption DEF Version
    <3> QED
      BY <2>4, <3>2 DEF PeerReturns, SF!Next, SF!Step
  <2>5. ASSUME NEW p \in Proc, GetterFails(p)
        PROVE  SF!Next
    BY <2>5 DEF GetterFails, SF!Next, SF!Step
  <2>6. ASSUME NEW p \in Proc, Populate(p)
        PROVE  SF!Next
    BY <2>6 DEF Populate, SF!Next, SF!Step, IInv, TypeOK, InStep
  <2>7. ASSUME NEW p \in Proc, Release(p) \/ Return(p)
        PROVE  SF!Next
    BY <2>7 DEF Release, Return, SF!Next, SF!Step
  <2> QED
    BY <2>1, <2>2, <2>3, <2>4, <2>5, <2>6, <2>7, ActionCases
       DEF Hit, Miss, TestPicker, PickPeer, PeerFails, GetterReturns, RegisterPeers,
           RegisterPeersDone, Update
<1> QED
  BY <1>1, LoaderStep, LoaderStutter DEF IInv

\* Type correctness: one step per action.
LEMMA TypeStep ==
    ASSUME IInv, Next
    PROVE  TypeOK'
<1> USE GroupAssumption DEF TypeOK, Quiet
<1>1. SF!TypeOK'
  BY GroupLoaderStep DEF Loader
<1>2. TypeOK /\ Loader
  BY DEF IInv
<1>3. ASSUME NEW p \in Proc, NEW place \in Place, Goto(p, place)
      PROVE  at' \in [Proc -> Place]
  BY <1>2, <1>3 DEF Goto
<1> HIDE DEF SF!TypeOK
<1>4. ASSUME NEW p \in Proc, NEW k \in Key, Hit(p, k)
      PROVE  TypeOK'
  BY <1>1, <1>2, <1>4 DEF Hit
<1>5. ASSUME NEW p \in Proc, NEW k \in Key, Miss(p, k)
      PROVE  TypeOK'
  <2>1. [key |-> k, floor |-> floor[k]] \in Request
    BY <1>2 DEF Request
  <2> QED
    BY <1>1, <1>2, <1>3, <1>5, <2>1 DEF Miss, Begin, Place
<1>6. ASSUME NEW p \in Proc, DoJoin(p) \/ DoLead(p)
      PROVE  TypeOK'
  BY <1>1, <1>2, <1>3, <1>6 DEF DoJoin, DoLead, Place, InFn
<1>7. ASSUME NEW p \in Proc, TestPicker(p) \/ PickPeer(p)
      PROVE  TypeOK'
  BY <1>1, <1>2, <1>3, <1>7 DEF TestPicker, PickPeer, Place, InFn
<1>8. ASSUME NEW p \in Proc, Panic(p)
      PROVE  TypeOK'
  BY <1>1, <1>2, <1>3, <1>8 DEF Panic, Finish, Place
<1>9. ASSUME NEW p \in Proc, PeerReturns(p) \/ PeerFails(p)
      PROVE  TypeOK'
  BY <1>1, <1>2, <1>3, <1>9 DEF PeerReturns, PeerFails, Place, InFn
<1>10. ASSUME NEW p \in Proc, GetterReturns(p)
       PROVE  TypeOK'
  <2>1. arg[p] \in Key
    BY <1>2 DEF SF!TypeOK
  <2> QED
    BY <1>1, <1>2, <1>3, <1>10, <2>1 DEF GetterReturns, Place, InFn
<1>11. ASSUME NEW p \in Proc, GetterFails(p)
       PROVE  TypeOK'
  BY <1>1, <1>2, <1>3, <1>11 DEF GetterFails, Place, InFn
<1>12. ASSUME NEW p \in Proc, Populate(p)
       PROVE  TypeOK'
  <2>1. bytes[p] \in Version /\ at[p] = "populate"
    BY <1>2, <1>12 DEF IInv, InStep, Populate
  <2>2. mainCache' \in [Key -> Version \cup {Missing}]
    <3> PICK evicted \in SUBSET Key :
              mainCache' = [l \in Key |-> IF l \in evicted THEN Missing
                                          ELSE IF l = arg[p] THEN bytes[p]
                                          ELSE mainCache[l]]
      BY <1>12 DEF Populate, CacheAdd
    <3> QED
      BY <1>2, <2>1
  <2> QED
    BY <1>1, <1>2, <1>3, <1>12, <2>1, <2>2 DEF Populate, Place
<1>13. ASSUME NEW p \in Proc, Release(p)
       PROVE  TypeOK'
  BY <1>1, <1>2, <1>13 DEF Release
<1>14. ASSUME NEW p \in Proc, Return(p)
       PROVE  TypeOK'
  BY <1>1, <1>2, <1>3, <1>14, ReturnsResult DEF Return, Finish, Place
<1>15. CASE RegisterPeers \/ RegisterPeersDone
  BY <1>1, <1>2, <1>15 DEF RegisterPeers, RegisterPeersDone
<1>16. ASSUME NEW k \in Key, Update(k)
       PROVE  TypeOK'
  <2>1. src[k] + 1 \in Version
    BY <1>2, <1>16 DEF Update, Version
  <2> QED
    BY <1>1, <1>2, <1>16, <2>1 DEF Update
<1> QED
  BY <1>4, <1>5, <1>6, <1>7, <1>8, <1>9, <1>10, <1>11, <1>12, <1>13, <1>14, <1>15,
     <1>16,
     ActionCases

\* Get's place and the loader's agree: one step per action.
LEMMA InStepStep ==
    ASSUME IInv, Next
    PROVE  InStep'
<1> USE GroupAssumption DEF Quiet, Goto, InFn
<1>1. TypeOK /\ SF!TypeOK /\ InStep
  BY DEF IInv, TypeOK
<1> USE DEF TypeOK, SF!TypeOK, InStep
<1>2. ASSUME NEW p \in Proc, NEW k \in Key, Hit(p, k)
      PROVE  InStep'
  BY <1>1, <1>2 DEF Hit, loaderVars
<1>3. ASSUME NEW p \in Proc, NEW k \in Key, Miss(p, k)
      PROVE  InStep'
  <2>1. [key |-> k, floor |-> floor[k]] # Missing
    BY <1>1 DEF Request
  <2> QED
    BY <1>1, <1>3, <2>1 DEF Miss, Begin, loaderVars
<1>4. ASSUME NEW p \in Proc, DoJoin(p)
      PROVE  InStep'
  <2>1. asked[p].key \in Key
    BY <1>1, <1>4 DEF DoJoin, Request
  <2> QED
    BY <1>1, <1>4, <2>1 DEF DoJoin, SF!Join
<1>5. ASSUME NEW p \in Proc, DoLead(p)
      PROVE  InStep'
  <2>1. asked[p].key \in Key
    BY <1>1, <1>5 DEF DoLead, Request
  <2>2. PICK c \in Call : SF!LeadWith(p, asked[p].key, c)
    BY <1>5, <2>1, LeadIsLeadWith DEF DoLead
  <2> QED
    BY <1>1, <1>5, <2>1, <2>2 DEF DoLead, SF!LeadWith
<1>6. ASSUME NEW p \in Proc, TestPicker(p) \/ PickPeer(p)
      PROVE  InStep'
  BY <1>1, <1>6 DEF TestPicker, PickPeer, loaderVars
<1>7. ASSUME NEW p \in Proc, at[p] \in {"pick", "getter"}, Panic(p)
      PROVE  InStep'
  BY <1>1, <1>7 DEF Panic, Finish, SF!FnPanic
<1>8. ASSUME NEW p \in Proc, PeerReturns(p)
      PROVE  InStep'
  BY <1>1, <1>8 DEF PeerReturns, SF!FnReturn
<1>9. ASSUME NEW p \in Proc, PeerFails(p)
      PROVE  InStep'
  BY <1>1, <1>9 DEF PeerFails, loaderVars
<1>10. ASSUME NEW p \in Proc, GetterReturns(p)
       PROVE  InStep'
  BY <1>1, <1>10 DEF GetterReturns, loaderVars, Version
<1>11. ASSUME NEW p \in Proc, GetterFails(p)
       PROVE  InStep'
  BY <1>1, <1>11 DEF GetterFails, SF!FnReturn
<1>12. ASSUME NEW p \in Proc, Populate(p)
       PROVE  InStep'
  BY <1>1, <1>12 DEF Populate, SF!FnReturn
<1>13. ASSUME NEW p \in Proc, Release(p)
       PROVE  InStep'
  BY <1>1, <1>13 DEF Release, SF!Done
<1>14. ASSUME NEW p \in Proc, Return(p)
       PROVE  InStep'
  <2>1. UNCHANGED arg /\ SF!Leave(p) /\ pc[p] # "idle"
    BY <1>14, ReturnsResult DEF Return, SF!Delete, SF!WaitReturn, IInv
  <2> QED
    BY <1>1, <1>14, <2>1 DEF Return, Finish, SF!Leave
<1>15. CASE RegisterPeers \/ RegisterPeersDone
  BY <1>1, <1>15 DEF RegisterPeers, RegisterPeersDone, loaderVars
<1>16. ASSUME NEW k \in Key, Update(k)
       PROVE  InStep'
  BY <1>1, <1>16 DEF Update, loaderVars
<1> QED
  BY <1>2, <1>3, <1>4, <1>5, <1>6, <1>7, <1>8, <1>9, <1>10, <1>11, <1>12, <1>13,
     <1>14,
     <1>15, <1>16, ActionCases

\* The peers, once known, stay known.
LEMMA PeersKnownStep ==
    ASSUME IInv, Next
    PROVE  PeersKnown'
<1>1. TypeOK /\ PeersKnown
  BY DEF IInv
<1>2. picker # "nil" => picker' # "nil"
  BY ActionCases
     DEF Hit, Miss, DoJoin, DoLead, TestPicker, PickPeer, Panic, PeerReturns,
        PeerFails,
         GetterReturns, GetterFails, Populate, Release, Return, RegisterPeers,
         RegisterPeersDone, Update
<1>3. \A p \in Proc : at'[p] \in {"pick", "peer"} => at[p] = at'[p] \/ picker # "nil"
  BY <1>1, ActionCases
     DEF Hit, Miss, DoJoin, DoLead, TestPicker, PickPeer, Panic, PeerReturns,
        PeerFails,
         GetterReturns, GetterFails, Populate, Release, Return, RegisterPeers,
         RegisterPeersDone, Update, Goto, TypeOK
<1> QED
  BY <1>1, <1>2, <1>3 DEF PeersKnown

\* What is cached, in hand and asked for keeps its order: one step per kind of
\* action.  Only Populate moves a floor, and only for the key that its goroutine
\* leads.
LEMMA NumbersStep ==
    ASSUME IInv, Next
    PROVE  CacheAtFloor' /\ LoadAboveFloor' /\ Bounds'
<1> DEFINE Numbers == CacheAtFloor /\ LoadAboveFloor /\ Bounds
<1> SUFFICES Numbers'
    OBVIOUS
<1> USE GroupAssumption
<1>1. TypeOK /\ SF!TypeOK /\ InStep /\ Numbers
  BY DEF IInv, TypeOK
<1>2. \A p \in Proc : pc[p] # "idle" => asked[p] \in Request /\ asked[p].floor \in Nat
  BY <1>1 DEF TypeOK, InStep, Request, Version
<1>3. (\A k \in Key : src[k] \in Nat /\ floor[k] \in Nat) /\ Version \subseteq Nat
  BY <1>1 DEF TypeOK, Version
<1> USE DEF TypeOK, SF!TypeOK, InStep, Quiet, Goto, InFn, CacheAtFloor,
   LoadAboveFloor, Bounds
<1>4. ASSUME UNCHANGED <<loaderVars, mainCache, src, floor, asked, bytes>>,
             \A q \in Proc : at'[q] \in {"missed", "populate"} => at[q] = at'[q]
      PROVE  Numbers'
  BY <1>1, <1>4 DEF loaderVars
<1>5. ASSUME NEW p \in Proc, NEW k \in Key, Miss(p, k)
      PROVE  Numbers'
  BY <1>1, <1>2, <1>3, <1>5 DEF Miss, Begin, loaderVars
<1>6. ASSUME NEW p \in Proc, DoJoin(p)
      PROVE  Numbers'
  <2>1. asked[p].key \in Key
    BY <1>1, <1>6 DEF DoJoin, Request
  <2> QED
    BY <1>1, <1>2, <1>3, <1>6, <2>1 DEF DoJoin, SF!Join
<1>7. ASSUME NEW p \in Proc, DoLead(p)
      PROVE  Numbers'
  <2>1. asked[p].key \in Key
    BY <1>1, <1>7 DEF DoLead, Request
  <2>2. PICK c \in Call : SF!LeadWith(p, asked[p].key, c)
    BY <1>7, <2>1, LeadIsLeadWith DEF DoLead
  <2> QED
    BY <1>1, <1>2, <1>3, <1>7, <2>1, <2>2 DEF DoLead, SF!LeadWith
<1>8. ASSUME NEW p \in Proc, at[p] # "missed", Panic(p)
      PROVE  Numbers'
  BY <1>1, <1>2, <1>3, <1>8 DEF Panic, Finish, SF!FnPanic
<1>9. ASSUME NEW p \in Proc, PeerReturns(p) \/ GetterFails(p) \/ Release(p)
      PROVE  Numbers'
  <2>1. /\ UNCHANGED <<mainCache, src, floor, asked, bytes, arg>>
        /\ pc[p] # "idle"
        /\ \A q \in Proc : pc'[q] # "idle" => pc[q] # "idle"
        /\ \A q \in Proc : at'[q] \in {"missed", "populate"} => at[q] = at'[q]
    BY <1>1, <1>9 DEF PeerReturns, GetterFails, Release, SF!FnReturn, SF!Done
  <2> QED
    BY <1>1, <2>1
<1>10. ASSUME NEW p \in Proc, GetterReturns(p)
       PROVE  Numbers'
  BY <1>1, <1>2, <1>3, <1>10 DEF GetterReturns, loaderVars
<1>11. ASSUME NEW p \in Proc, Populate(p)
       PROVE  Numbers'
  <2>1. /\ bytes[p] \in Version /\ arg[p] \in Key
        /\ bytes[p] >= floor[arg[p]] /\ bytes[p] <= src[arg[p]]
    BY <1>1, <1>11 DEF Populate
  <2>2. /\ floor'[arg[p]] = bytes[p]
        /\ \A k \in Key \ {arg[p]} : floor'[k] = floor[k]
        /\ \A k \in Key : floor'[k] >= floor[k] /\ floor'[k] \in Nat
    <3>1. floor' = [floor EXCEPT ![arg[p]] = bytes[p]] /\ bytes[p] \in Nat
      BY <1>3, <1>11, <2>1 DEF Populate
    <3>2. \A k \in Key : floor'[k] = IF k = arg[p] THEN bytes[p] ELSE floor[k]
      BY <1>1, <3>1
    <3> QED
      BY <1>3, <2>1, <3>1, <3>2
  <2>3. \A q \in Proc \ {p} : at[q] = "populate" => arg[q] # arg[p]
    BY <1>1, <1>11 DEF IInv, Loader, SF!FlightInv, SF!OneLeaderPerKey, SF!Leading,
       Populate
  <2>4. /\ UNCHANGED <<src, asked, arg>>
        /\ \A q \in Proc \ {p} : /\ at'[q] = at[q] /\ pc'[q] = pc[q]
                                 /\ bytes'[q] = bytes[q]
        /\ at'[p] = "do" /\ pc[p] = "run"
    BY <1>1, <1>11 DEF Populate, SF!FnReturn
  <2>5. CacheAtFloor'
    <3> PICK evicted \in SUBSET Key :
              mainCache' = [l \in Key |-> IF l \in evicted THEN Missing
                                          ELSE IF l = arg[p] THEN bytes[p]
                                          ELSE mainCache[l]]
      BY <1>11 DEF Populate, CacheAdd
    <3> QED
      BY <1>1, <2>2
  <2>6. LoadAboveFloor'
    BY <1>1, <2>2, <2>3, <2>4
  <2>7. Bounds'
    <3>1. \A k \in Key : floor'[k] <= src'[k]
      BY <1>1, <2>1, <2>2, <2>4
    <3>2. \A q \in Proc : pc'[q] # "idle" => asked'[q].floor <= floor'[arg'[q]]
      BY <1>1, <1>2, <1>3, <2>2, <2>4
    <3>3. \A q \in Proc : at'[q] = "missed" => asked'[q].floor <= floor'[asked'[q].key]
      <4> SUFFICES ASSUME NEW q \in Proc, at[q] = "missed"
                   PROVE  asked[q].floor <= floor'[asked[q].key]
        BY <2>4
      <4>1. asked[q] \in Request
        BY <1>1
      <4>2. asked[q].key \in Key /\ asked[q].floor \in Nat
        BY <1>3, <4>1 DEF Request
      <4> QED
        BY <1>1, <1>3, <2>2, <4>2
    <3>4. \A q \in Proc : at'[q] = "populate" => bytes'[q] <= src'[arg'[q]]
      BY <1>1, <2>4
    <3> QED
      BY <3>1, <3>2, <3>3, <3>4
  <2> QED
    BY <2>5, <2>6, <2>7
<1>12. ASSUME NEW p \in Proc, Return(p)
       PROVE  Numbers'
  <2>1. UNCHANGED arg /\ SF!Leave(p) /\ pc[p] # "idle"
    BY <1>12, ReturnsResult DEF Return, SF!Delete, SF!WaitReturn, IInv
  <2> QED
    BY <1>1, <1>2, <1>3, <1>12, <2>1 DEF Return, Finish, SF!Leave
<1>13. ASSUME NEW k \in Key, Update(k)
       PROVE  Numbers'
  <2>1. \A l \in Key : src'[l] \in Nat /\ src'[l] >= src[l]
    BY <1>1, <1>3, <1>13 DEF Update
  <2>2. \A q \in Proc : at[q] = "populate" => bytes[q] \in Nat
    <3> SUFFICES ASSUME NEW q \in Proc, at[q] = "populate"
                 PROVE  bytes[q] \in Version
      BY <1>3
    <3> QED
      BY <1>1
  <2> QED
    BY <1>1, <1>3, <1>13, <2>1, <2>2 DEF Update, loaderVars
<1>14. ASSUME NEW p \in Proc,
              (\E k \in Key : Hit(p,
                 k)) \/ TestPicker(p) \/ PickPeer(p) \/ PeerFails(p)
       PROVE  Numbers'
  BY <1>1, <1>4, <1>14 DEF Hit, TestPicker, PickPeer, PeerFails
<1>15. CASE RegisterPeers \/ RegisterPeersDone
  BY <1>4, <1>15 DEF RegisterPeers, RegisterPeersDone
<1> QED
  BY <1>5, <1>6, <1>7, <1>8, <1>9, <1>10, <1>11, <1>12, <1>13, <1>14, <1>15,
     ActionCases

\* What the calls hold fits who may read it: one step per kind of action.  A
\* call gets its result from its leader, whose key nobody else works on; whoever
\* joins it finds a result, if there is one yet, no older than the floor.
LEMMA FitsStep ==
    ASSUME IInv, Next
    PROVE  Registered' /\ Held'
<1> DEFINE Values == Registered /\ Held
<1> SUFFICES Values'
    OBVIOUS
<1> USE GroupAssumption
<1>1. TypeOK /\ SF!TypeOK /\ SF!HoldsCall /\ InStep /\ Values
  BY DEF IInv, TypeOK, Loader, SF!FlightInv
<1>2. \A p \in Proc : pc[p] # "idle" => asked[p] \in Request /\ asked[p].floor \in Nat
  BY <1>1 DEF TypeOK, InStep, Request, Version
<1>3. /\ \A k \in Key : src[k] \in Nat /\ floor[k] \in Nat
      /\ \A v \in Version : v \in Nat
      /\ Unset \notin Version /\ Err \notin Version
  BY <1>1 DEF TypeOK, Version
<1>4. \A p \in Proc : pc[p] # "idle" => ref[p] \in Call
  BY <1>1 DEF SF!TypeOK, SF!HoldsCall
<1> USE DEF TypeOK, SF!TypeOK, Quiet, Registered, Held, Fits
\* The loader stands still.
<1>5. ASSUME UNCHANGED <<loaderVars, floor>>, picker' = "nil" => picker = "nil",
             \A k \in Key : src'[k] \in Nat /\ src'[k] >= src[k],
             \A q \in Proc : pc[q] # "idle" => asked'[q] = asked[q]
      PROVE  Values'
  <2>1. Registered'
    <3> SUFFICES ASSUME NEW k \in Key, m[k] # NoCall
                 PROVE  Fits(m[k], k, floor[k])'
      BY <1>5 DEF loaderVars
    <3>1. Fits(m[k], k, floor[k])
      BY <1>1
    <3> QED
      BY <1>3, <1>5, <3>1 DEF loaderVars
  <2>2. Held'
    <3> SUFFICES ASSUME NEW q \in Proc, pc[q] # "idle"
                 PROVE  Fits(ref[q], arg[q], asked[q].floor)'
      BY <1>5 DEF loaderVars
    <3>1. Fits(ref[q], arg[q], asked[q].floor) /\ arg[q] \in Key
      BY <1>1
    <3> QED
      BY <1>3, <1>5, <3>1 DEF loaderVars
  <2> QED
    BY <2>1, <2>2
<1>6. ASSUME NEW p \in Proc,
             \/ \E k \in Key : Hit(p, k) \/ Miss(p, k)
             \/ TestPicker(p) \/ PickPeer(p) \/ PeerFails(p) \/ GetterReturns(p)
      PROVE  Values'
  <2>1. /\ UNCHANGED <<loaderVars, floor, src, picker>>
        /\ \A q \in Proc : pc[q] # "idle" => asked'[q] = asked[q]
    BY <1>1, <1>6
       DEF Hit, Miss, Begin, TestPicker, PickPeer, PeerFails, GetterReturns, InStep
  <2> QED
    BY <1>3, <1>5, <2>1
<1>7. CASE RegisterPeers \/ RegisterPeersDone
  BY <1>3, <1>5, <1>7 DEF RegisterPeers, RegisterPeersDone
<1>8. ASSUME NEW k \in Key, Update(k)
      PROVE  Values'
  <2>1. \A l \in Key : src'[l] \in Nat /\ src'[l] >= src[l]
    BY <1>1, <1>3, <1>8 DEF Update
  <2> QED
    BY <1>5, <1>8, <2>1 DEF Update
\* A goroutine leaves Do.
<1>9. ASSUME NEW p \in Proc, SF!Leave(p), UNCHANGED <<floor, src, picker, arg>>,
             \A k \in Key : m'[k] # NoCall => m'[k] = m[k],
             asked' = [asked EXCEPT ![p] = Missing]
      PROVE  Values'
  <2>1. Registered'
    BY <1>1, <1>9, LeaveKeepsOthers
  <2>2. Held'
    <3> SUFFICES ASSUME NEW q \in Proc, pc'[q] # "idle"
                 PROVE  Fits(ref[q], arg[q], asked[q].floor)'
      OBVIOUS
    <3>1. /\ q # p /\ pc'[q] = pc[q] /\ ref'[q] = ref[q]
          /\ ref[q] # NoCall => val'[ref[q]] = val[ref[q]]
      BY <1>1, <1>9, LeaveKeepsOthers
    <3> QED
      BY <1>1, <1>4, <1>9, <3>1
  <2> QED
    BY <2>1, <2>2
<1>10. ASSUME NEW p \in Proc, Return(p)
       PROVE  Values'
  <2>1. /\ SF!Leave(p) /\ UNCHANGED arg
        /\ \A k \in Key : m'[k] # NoCall => m'[k] = m[k]
    BY <1>1, <1>10 DEF Return, SF!Delete, SF!WaitReturn
  <2> QED
    BY <1>9, <1>10, <2>1 DEF Return, Finish
<1>11. ASSUME NEW p \in Proc, Panic(p)
       PROVE  Values'
  <2>1. /\ UNCHANGED <<m, val, arg, floor, src, picker>>
        /\ asked' = [asked EXCEPT ![p] = Missing]
        /\ pc'[p] = "idle"
        /\ \A q \in Proc \ {p} : pc'[q] = pc[q] /\ ref'[q] = ref[q]
    BY <1>1, <1>11 DEF Panic, Finish, SF!FnPanic
  <2> QED
    BY <1>1, <2>1
\* A goroutine enters Do.
<1>12. ASSUME NEW p \in Proc, DoJoin(p)
       PROVE  Values'
  <2>1. asked[p] \in Request /\ asked[p].key \in Key /\ asked[p].floor \in Nat
    BY <1>1, <1>3, <1>12 DEF DoJoin, Request, InStep
  <2>2. /\ m[asked[p].key] # NoCall
        /\ ref'[p] = m[asked[p].key] /\ arg'[p] = asked[p].key
        /\ UNCHANGED <<m, val, floor, src, picker, asked>>
        /\ \A q \in Proc \ {p} : /\ pc'[q] = pc[q] /\ ref'[q] = ref[q]
                                 /\ arg'[q] = arg[q]
    BY <1>1, <1>12 DEF DoJoin, SF!Join
  <2>3. asked[p].floor <= floor[asked[p].key]
    BY <1>12 DEF DoJoin, IInv, Bounds
  <2>4. Fits(ref[p], arg[p], asked[p].floor)'
    <3>1. Fits(m[asked[p].key], asked[p].key, floor[asked[p].key])
      BY <1>1, <2>1, <2>2
    <3> QED
      BY <1>3, <2>1, <2>2, <2>3, <3>1
  <2> QED
    BY <1>1, <2>2, <2>4
<1>13. ASSUME NEW p \in Proc, DoLead(p)
       PROVE  Values'
  <2>1. asked[p].key \in Key
    BY <1>1, <1>13 DEF DoLead, Request, InStep
  <2>2. PICK c \in Call : SF!LeadWith(p, asked[p].key, c)
    BY <1>13, <2>1, LeadIsLeadWith DEF DoLead
  <2>3. /\ UNCHANGED <<floor, src, picker, asked>>
        /\ ref'[p] = c /\ m'[asked[p].key] = c /\ val'[c] = Unset
        /\ \A k \in Key \ {asked[p].key} : m'[k] = m[k] /\ m[k] # c
        /\ \A q \in Proc \ {p} : /\ pc'[q] = pc[q] /\ ref'[q] = ref[q] /\ ref[q] # c
                                 /\ arg'[q] = arg[q]
        /\ \A d \in Call \ {c} : val'[d] = val[d]
    <3>1. (\A k \in Key : m[k] # c) /\ (\A q \in Proc : ref[q] # c)
      BY <2>2 DEF SF!LeadWith, SF!Free
    <3>2. /\ m' = [m EXCEPT ![asked[p].key] = c]
          /\ val' = [val EXCEPT ![c] = Unset]
          /\ pc' = [pc EXCEPT ![p] = "run"]
          /\ ref' = [ref EXCEPT ![p] = c]
          /\ arg' = [arg EXCEPT ![p] = asked[p].key]
      BY <2>2 DEF SF!LeadWith
    <3>3. SF!TypeOK
      BY <1>1
    <3> QED
      BY <1>13, <2>1, <3>1, <3>2, <3>3 DEF DoLead
  <2>4. Registered'
    BY <1>1, <1>3, <2>3
  <2>5. Held'
    BY <1>1, <1>3, <1>4, <2>3
  <2> QED
    BY <2>4, <2>5
\* fn returns r to its leader, with floors that are at most r for its key.
<1>14. ASSUME NEW p \in Proc, NEW r \in Version \cup {Err}, SF!FnReturn(p, r),
              UNCHANGED <<src, picker, asked>>,
              \A k \in Key \ {arg[p]} : floor'[k] = floor[k],
              r \in Version => /\ r <= src[arg[p]]
                               /\ picker = "nil" => r >= floor[arg[p]] /\ r >= floor'[arg[p]]
       PROVE  Values'
  <2>1. /\ UNCHANGED <<m, ref, arg>>
        /\ pc[p] = "run" /\ val'[ref[p]] = r
        /\ \A c \in Call \ {ref[p]} : val'[c] = val[c]
        /\ \A q \in Proc \ {p} : pc'[q] = pc[q]
    BY <1>1, <1>4, <1>14 DEF SF!FnReturn
  <2>2. m[arg[p]] = ref[p] /\ ref[p] \in Call /\ arg[p] \in Key
    BY <1>1, <1>4, <2>1 DEF IInv, Loader, SF!FlightInv, SF!LeaderIsRegistered,
       SF!Leading
  <2>3. \A k \in Key \ {arg[p]} : m[k] # ref[p]
    BY <1>1, <2>2 DEF IInv, Loader, SF!FlightInv, SF!OneKeyPerCall
  <2>4. Registered'
    BY <1>1, <1>14, <2>1, <2>2, <2>3
  <2>5. Held'
    <3> SUFFICES ASSUME NEW q \in Proc, pc[q] # "idle"
                 PROVE  Fits(ref[q], arg[q], asked[q].floor)'
      BY <2>1
    <3>1. CASE ref[q] # ref[p]
      BY <1>1, <1>4, <1>14, <2>1, <3>1
    <3>2. CASE ref[q] = ref[p]
      <4>1. arg[q] = arg[p]
        BY <2>2, <3>2 DEF IInv, Loader, Holders
      <4>2. asked[q].floor <= floor[arg[p]] /\ asked[q].floor \in Nat
        BY <1>2, <4>1 DEF IInv, Bounds
      <4> QED
        BY <1>3, <1>14, <2>1, <2>2, <3>2, <4>1, <4>2
    <3> QED
      BY <3>1, <3>2
  <2> QED
    BY <2>4, <2>5
<1>15. ASSUME NEW p \in Proc, PeerReturns(p)
       PROVE  Values'
  <2>1. PICK v \in 1 .. src[arg[p]] : SF!FnReturn(p, v)
    BY <1>15 DEF PeerReturns
  <2>2. arg[p] \in Key /\ v \in Version /\ v <= src[arg[p]]
    BY <1>1, <1>3 DEF Version
  <2>3. picker # "nil"
    BY <1>15 DEF PeerReturns, IInv, PeersKnown
  <2> QED
    BY <1>14, <1>15, <2>1, <2>2, <2>3 DEF PeerReturns
<1>16. ASSUME NEW p \in Proc, GetterFails(p)
       PROVE  Values'
  BY <1>3, <1>14, <1>16 DEF GetterFails
<1>17. ASSUME NEW p \in Proc, Populate(p)
       PROVE  Values'
  <2>1. /\ bytes[p] \in Version /\ arg[p] \in Key
        /\ bytes[p] >= floor[arg[p]] /\ bytes[p] <= src[arg[p]]
    BY <1>1, <1>17 DEF Populate, IInv, InStep, LoadAboveFloor, Bounds
  <2>2. /\ floor'[arg[p]] = bytes[p]
        /\ \A k \in Key \ {arg[p]} : floor'[k] = floor[k]
    BY <1>1, <1>17, <2>1 DEF Populate
  <2>3. SF!FnReturn(p, bytes[p]) /\ UNCHANGED <<src, picker, asked>>
    BY <1>17 DEF Populate
  <2>4. bytes[p] >= floor'[arg[p]]
    BY <1>3, <2>1, <2>2
  <2> QED
    BY <1>14, <2>1, <2>2, <2>3, <2>4
<1>18. ASSUME NEW p \in Proc, Release(p)
       PROVE  Values'
  <2>1. /\ UNCHANGED <<m, val, ref, arg, floor, src, picker, asked>>
        /\ \A q \in Proc : pc'[q] # "idle" => pc[q] # "idle"
    BY <1>1, <1>18 DEF Release, SF!Done
  <2> QED
    BY <1>1, <2>1
<1> QED
  BY <1>6, <1>7, <1>8, <1>10, <1>11, <1>12, <1>13, <1>15, <1>16, <1>17, <1>18,
     ActionCases

-----------------------------------------------------------------------------
(* The theorems.                                                             *)

LEMMA InvInit == Init => IInv
<1> SUFFICES ASSUME Init
             PROVE  IInv
    OBVIOUS
<1> USE GroupAssumption
<1>1. SF!TypeOK /\ Holders /\ DeleteIsDone
  BY DEF Init, SF!Init, SF!TypeOK, SF!PC, Holders, DeleteIsDone
<1>2. SF!FlightInv
  BY DEF Init, SF!Init, SF!FlightInv, SF!HoldsCall, SF!OneLeaderPerKey, SF!Leading,
         SF!LeaderIsRegistered, SF!OneKeyPerCall, SF!DoneAfterStored, SF!DoneHasResult
<1>3. TypeOK
  BY <1>1 DEF Init, TypeOK, Version, Place
<1>4. InStep /\ PeersKnown
  BY DEF Init, SF!Init, InStep, PeersKnown, InFn
<1>5. CacheAtFloor /\ LoadAboveFloor /\ Bounds
  BY DEF Init, SF!Init, CacheAtFloor, LoadAboveFloor, Bounds
<1>6. Registered /\ Held
  BY DEF Init, SF!Init, Registered, Held
<1> QED
  BY <1>1, <1>2, <1>3, <1>4, <1>5, <1>6 DEF IInv, Loader

LEMMA InvStep == IInv /\ [Next]_vars => IInv'
<1> SUFFICES ASSUME IInv, [Next]_vars
             PROVE  IInv'
    OBVIOUS
<1>1. CASE Next
  BY <1>1, GroupLoaderStep, TypeStep, InStepStep, PeersKnownStep, NumbersStep,
     FitsStep
     DEF IInv
<1>2. CASE UNCHANGED vars
  <2>1. UNCHANGED loaderVars
    BY <1>2 DEF vars
  <2>2. Loader'
    BY <2>1, LoaderStutter DEF IInv
  <2>3. TypeOK' /\ InStep' /\ PeersKnown'
    BY <1>2, <2>2
       DEF vars, loaderVars, history, IInv, Loader, TypeOK, InStep, PeersKnown
  <2>4. CacheAtFloor' /\ LoadAboveFloor' /\ Bounds' /\ Registered' /\ Held'
    BY <1>2
       DEF vars, loaderVars, history, IInv, CacheAtFloor, LoadAboveFloor, Bounds,
           Registered, Held, Fits
  <2> QED
    BY <2>2, <2>3, <2>4 DEF IInv
<1> QED
  BY <1>1, <1>2

LEMMA InvHolds == Spec => []IInv
  BY InvInit, InvStep, PTL DEF Spec

\* Neither the getter nor a peer is asked for a key by two goroutines at a time.
THEOREM OneLoad == Spec => []OneLoadPerKey
<1>1. IInv => OneLoadPerKey
  BY DEF IInv, Loader, InStep, SF!FlightInv, SF!OneLeaderPerKey, SF!Leading,
     OneLoadPerKey
<1> QED
  BY <1>1, InvHolds, PTL

\* The cache, the loads under way and the results waiting to be read are never
\* older than they may be: nothing overtakes what was read from the source later.
THEOREM GroupIntact == Spec => []GroupInv
<1>1. ASSUME IInv
      PROVE  FlightAboveFloor
  <2>1. TypeOK /\ InStep /\ Registered /\ Held /\ SF!HoldsCall
    BY <1>1 DEF IInv, Loader, SF!FlightInv
  <2> QED
    BY <2>1 DEF FlightAboveFloor, Registered, Held, Fits, SF!HoldsCall
<1>2. IInv => GroupInv
  BY <1>1 DEF IInv, GroupInv
<1> QED
  BY <1>2, InvHolds, PTL

-----------------------------------------------------------------------------
(* The refinement.                                                           *)

LEMMA AbsInit == Init => Abs!Init
  BY GroupAssumption DEF Init, Abs!Init

\* What each action is to the callers of Get.
LEMMA AbsStep ==
    ASSUME IInv, Next
    PROVE  Abs!Next
<1> USE GroupAssumption DEF Quiet
<1>1. TypeOK /\ SF!TypeOK /\ InStep
  BY DEF IInv, TypeOK
<1>2. \A k \in Key : src[k] \in Nat /\ floor[k] \in Nat /\ floor[k] >= 1
  BY <1>1 DEF TypeOK, Version
<1>3. ASSUME Abs!Work \/ Abs!AddPeers
      PROVE  Abs!Next
  BY <1>3 DEF Abs!Next
\* A Get that finds its key in the cache is served the floor.
<1>4. ASSUME NEW p \in Proc, NEW k \in Key, Hit(p, k)
      PROVE  Abs!Next
  <2>1. asked[p] = Missing
    BY <1>1, <1>4 DEF Hit, InStep
  <2>2. mainCache[k] = floor[k] /\ floor[k] <= src[k]
    BY <1>4 DEF Hit, IInv, CacheAtFloor, Bounds
  <2>3. mainCache[k] \in floor[k] .. src[k] /\ mainCache[k] \in 1 .. src[k]
    BY <1>2, <2>2
  <2>4. Abs!Serve(p, k, mainCache[k])
    BY <1>4, <2>1, <2>3 DEF Hit, Abs!Serve
  <2> QED
    BY <2>3, <2>4 DEF Abs!Next
<1>5. ASSUME NEW p \in Proc, NEW k \in Key, Miss(p, k)
      PROVE  Abs!Next
  <2>1. Abs!Ask(p, k)
    BY <1>1, <1>5 DEF Miss, Begin, InStep, Abs!Ask
  <2> QED
    BY <2>1 DEF Abs!Next
\* The steps of a load before its end, and registration, give no answer.
<1>6. ASSUME NEW p \in Proc,
             \/ DoJoin(p) \/ DoLead(p) \/ TestPicker(p) \/ PickPeer(p)
             \/ PeerReturns(p) \/ PeerFails(p)
             \/ GetterReturns(p) \/ GetterFails(p) \/ Release(p)
      PROVE  Abs!Work
  BY <1>6 DEF DoJoin, DoLead, TestPicker, PickPeer, PeerReturns, PeerFails,
              GetterReturns, GetterFails, Release, Abs!Work
<1>7. RegisterPeers => Abs!AddPeers
  BY DEF RegisterPeers, Abs!AddPeers
<1>8. RegisterPeersDone => Abs!Work
  BY DEF RegisterPeersDone, Abs!Work
<1>9. ASSUME NEW p \in Proc, at[p] \in {"pick", "getter"}, Panic(p)
      PROVE  Abs!Next
  <2>1. Abs!Fail(p)
    BY <1>1, <1>9 DEF Panic, Finish, InStep, Abs!Fail
  <2> QED
    BY <2>1 DEF Abs!Next
\* Populate raises the floor of its key to the version it caches.
<1>10. ASSUME NEW p \in Proc, Populate(p)
       PROVE  Abs!Next
  <2>1. /\ arg[p] \in Key /\ bytes[p] \in Nat
        /\ bytes[p] >= floor[arg[p]] /\ bytes[p] <= src[arg[p]]
    BY <1>1, <1>10
       DEF Populate, IInv, InStep, LoadAboveFloor, Bounds, TypeOK, SF!TypeOK, Version
  <2>2. bytes[p] \in floor[arg[p]] .. src[arg[p]]
    BY <1>2, <2>1
  <2>3. Abs!Load(arg[p])
    BY <1>10, <2>2 DEF Populate, Abs!Load
  <2> QED
    BY <2>1, <2>3 DEF Abs!Next
\* A Get that returns from its load answers with the flight's result.
<1>11. ASSUME NEW p \in Proc, Return(p)
       PROVE  Abs!Next
  <2>1. pc[p] # "idle" /\ val[ref[p]] \in Version \cup {Err}
    BY <1>11, ReturnsResult DEF IInv
  <2>2. asked[p] # Missing /\ asked[p].key = arg[p] /\ arg[p] \in Key
    BY <1>1, <1>11 DEF Return, InStep, SF!TypeOK
  <2>3. /\ answer' = val[ref[p]]
        /\ asked' = [asked EXCEPT ![p] = Missing]
        /\ UNCHANGED <<floor, src, picker>>
    BY <1>11 DEF Return, Finish
  <2>4. CASE val[ref[p]] = Err
    <3>1. Abs!Fail(p)
      BY <2>2, <2>3, <2>4 DEF Abs!Fail
    <3> QED
      BY <3>1 DEF Abs!Next
  <2>5. CASE val[ref[p]] \in Version
    <3>1. /\ val[ref[p]] <= src[arg[p]]
          /\ picker = "nil" => val[ref[p]] >= asked[p].floor
      BY <2>1, <2>5 DEF IInv, Held, Fits
    <3>2. val[ref[p]] \in 1 .. src[arg[p]]
      BY <1>2, <2>2, <2>5, <3>1 DEF Version
    <3>3. Abs!Answer(p, arg[p], val[ref[p]])
      BY <2>2, <2>3, <3>1, <3>2 DEF Abs!Answer
    <3> QED
      BY <2>2, <3>2, <3>3 DEF Abs!Next
  <2> QED
    BY <2>1, <2>4, <2>5
<1>12. ASSUME NEW k \in Key, Update(k)
       PROVE  Abs!Next
  <2>1. Abs!Update(k)
    BY <1>12 DEF Update, Abs!Update, history
  <2> QED
    BY <2>1 DEF Abs!Next
<1> QED
  BY <1>3, <1>4, <1>5, <1>6, <1>7, <1>8, <1>9, <1>10, <1>11, <1>12, ActionCases

\* Reads through the group are monotonic until peers are registered, and of the
\* source's versions always: Group implements ReadThrough.
THEOREM Implements == Spec => ImplementsReadThrough
<1>1. IInv /\ [Next]_vars => [Abs!Next]_(Abs!vars)
  <2>1. UNCHANGED vars => UNCHANGED Abs!vars
    BY DEF vars, history, Abs!vars
  <2> QED
    BY <2>1, AbsStep
<1> QED
  BY <1>1, AbsInit, InvHolds, PTL DEF Spec, ImplementsReadThrough, Abs!Spec

-----------------------------------------------------------------------------
(* The counters of Metrics.  MetricsInv says of everyone what it has left to *)
(* do, and of the counters how far apart that leaves them: by the recordings *)
(* in progress, unless a ResetStats overlaps something; while one overlaps   *)
(* nothing it is alone, and what it has reset stays zero.                    *)

\* What is left of a recording, of a Stats and of a ResetStats.
RecordPlans == {<<"totalGetTime", "getCount", "hits">>, <<"getCount", "hits">>, <<"hits">>,
                <<"totalGetTime", "getCount", "misses">>, <<"getCount", "misses">>, <<"misses">>}
StatsPlans == {<<"hits", "misses", "getCount", "totalGetTime">>,
               <<"misses", "getCount", "totalGetTime">>,
               <<"getCount", "totalGetTime">>, <<"totalGetTime">>}
ResetPlans == {<<"hits", "misses", "totalGetTime", "getCount">>,
               <<"misses", "totalGetTime", "getCount">>,
               <<"totalGetTime", "getCount">>, <<"getCount">>}

\* Everyone has left to do a part of what it set out to do.
PlanInv ==
    \A p \in Caller :
        /\ doing[p] \in {"idle", "get"} => todo[p] = <<>>
        /\ doing[p] = "record" => todo[p] \in RecordPlans
        /\ doing[p] = "stats" => todo[p] \in StatsPlans
        /\ doing[p] = "reset" => todo[p] \in ResetPlans
        /\ doing[p] # "stats" => loaded[p] = Zero

Recorders == {p \in Caller : doing[p] = "record"}

\* The counters differ by the recordings in progress, of which there are only so many.
CountInv ==
    /\ IsFiniteSet(Recorders)
    /\ ~skewed /\ ~Resetting =>
        /\ counters.getCount
              = counters.hits + counters.misses + Cardinality(Left(1))
        /\ counters.totalGetTime = truth + SumFunctionOnSet(took, Left(2))

\* A ResetStats that overlaps nothing is alone, and what it has reset stays zero.
ResetInv ==
    ~skewed => \A p \in Caller : doing[p] = "reset" =>
        /\ \A q \in Caller \ {p} : doing[q] \notin {"record", "stats", "reset"}
        /\ Len(todo[p]) <= 3 => counters.hits = 0
        /\ Len(todo[p]) <= 2 => counters.misses = 0
        /\ Len(todo[p]) <= 1 => counters.totalGetTime = 0

\* What a Stats has loaded, the counters have still; it has loaded no more hits
\* than there were when it loaded misses; and when it has loaded getCount, it has
\* counted no hit or miss that is not in it.
LoadInv ==
    ~skewed => \A p \in Caller : doing[p] = "stats" =>
        /\ \A c \in Counter : loaded[p][c] <= counters[c]
        /\ Len(todo[p]) <= 2 => loaded[p].hits <= hitsThen[p]
        /\ Len(todo[p]) = 1 =>
            /\ known[p] <= counters.totalGetTime
            /\ loaded[p].hits + loaded[p].misses <= loaded[p].getCount

MetricsInv == MetricsTypeOK /\ PlanInv /\ CountInv /\ ResetInv /\ LoadInv

LEMMA Tails ==
    /\ \A a : Head(<<a>>) = a /\ Tail(<<a>>) = <<>> /\ Len(<<a>>) = 1
    /\ \A a, b : Head(<<a, b>>) = a /\ Tail(<<a, b>>) = <<b>> /\ Len(<<a, b>>) = 2
    /\ \A a, b, c : /\ Head(<<a, b, c>>) = a /\ Tail(<<a, b, c>>) = <<b, c>>
                    /\ Len(<<a, b, c>>) = 3
    /\ \A a, b, c, d : /\ Head(<<a, b, c, d>>) = a /\ Tail(<<a, b, c, d>>) = <<b, c, d>>
                       /\ Len(<<a, b, c, d>>) = 4
  OBVIOUS

LEMMA RecordPlan ==
    ASSUME NEW t \in RecordPlans
    PROVE  /\ t \in Seq(Counter) /\ (Len(t) = 1 \/ Len(t) = 2 \/ Len(t) = 3)
           /\ Len(t) = 3 =>
                 Head(t) = "totalGetTime" /\ Tail(t) \in RecordPlans /\ Len(Tail(t)) = 2
           /\ Len(t) = 2 =>
                 Head(t) = "getCount" /\ Tail(t) \in RecordPlans /\ Len(Tail(t)) = 1
           /\ Len(t) = 1 => Head(t) \in {"hits", "misses"} /\ Tail(t) = <<>>
<1>1. CASE t = <<"totalGetTime", "getCount", "hits">>
  BY <1>1, Tails DEF RecordPlans, Counter
<1>2. CASE t = <<"getCount", "hits">>
  BY <1>2, Tails DEF RecordPlans, Counter
<1>3. CASE t = <<"hits">>
  BY <1>3, Tails DEF RecordPlans, Counter
<1>4. CASE t = <<"totalGetTime", "getCount", "misses">>
  BY <1>4, Tails DEF RecordPlans, Counter
<1>5. CASE t = <<"getCount", "misses">>
  BY <1>5, Tails DEF RecordPlans, Counter
<1>6. CASE t = <<"misses">>
  BY <1>6, Tails DEF RecordPlans, Counter
<1> QED
  BY <1>1, <1>2, <1>3, <1>4, <1>5, <1>6 DEF RecordPlans

LEMMA StatsPlan ==
    ASSUME NEW t \in StatsPlans
    PROVE  /\ t \in Seq(Counter) /\ (Len(t) = 1 \/ Len(t) = 2 \/ Len(t) = 3 \/ Len(t) = 4)
           /\ Len(t) = 4 =>
                 Head(t) = "hits" /\ Tail(t) \in StatsPlans /\ Len(Tail(t)) = 3
           /\ Len(t) = 3 =>
                 Head(t) = "misses" /\ Tail(t) \in StatsPlans /\ Len(Tail(t)) = 2
           /\ Len(t) = 2 =>
                 Head(t) = "getCount" /\ Tail(t) \in StatsPlans /\ Len(Tail(t)) = 1
           /\ Len(t) = 1 => Head(t) = "totalGetTime" /\ Tail(t) = <<>>
<1>1. CASE t = <<"hits", "misses", "getCount", "totalGetTime">>
  BY <1>1, Tails DEF StatsPlans, Counter
<1>2. CASE t = <<"misses", "getCount", "totalGetTime">>
  BY <1>2, Tails DEF StatsPlans, Counter
<1>3. CASE t = <<"getCount", "totalGetTime">>
  BY <1>3, Tails DEF StatsPlans, Counter
<1>4. CASE t = <<"totalGetTime">>
  BY <1>4, Tails DEF StatsPlans, Counter
<1> QED
  BY <1>1, <1>2, <1>3, <1>4 DEF StatsPlans

LEMMA ResetPlan ==
    ASSUME NEW t \in ResetPlans
    PROVE  /\ t \in Seq(Counter) /\ (Len(t) = 1 \/ Len(t) = 2 \/ Len(t) = 3 \/ Len(t) = 4)
           /\ Len(t) = 4 =>
                 Head(t) = "hits" /\ Tail(t) \in ResetPlans /\ Len(Tail(t)) = 3
           /\ Len(t) = 3 =>
                 Head(t) = "misses" /\ Tail(t) \in ResetPlans /\ Len(Tail(t)) = 2
           /\ Len(t) = 2 =>
                 Head(t) = "totalGetTime" /\ Tail(t) \in ResetPlans /\ Len(Tail(t)) = 1
           /\ Len(t) = 1 => Head(t) = "getCount" /\ Tail(t) = <<>>
<1>1. CASE t = <<"hits", "misses", "totalGetTime", "getCount">>
  BY <1>1, Tails DEF ResetPlans, Counter
<1>2. CASE t = <<"misses", "totalGetTime", "getCount">>
  BY <1>2, Tails DEF ResetPlans, Counter
<1>3. CASE t = <<"totalGetTime", "getCount">>
  BY <1>3, Tails DEF ResetPlans, Counter
<1>4. CASE t = <<"getCount">>
  BY <1>4, Tails DEF ResetPlans, Counter
<1> QED
  BY <1>1, <1>2, <1>3, <1>4 DEF ResetPlans

LEMMA CountersStart == MetricsInit => MetricsInv
<1> SUFFICES ASSUME MetricsInit
             PROVE  MetricsInv
  OBVIOUS
<1>1. MetricsTypeOK
  <2>1. Zero \in [Counter -> Nat]
    BY DEF Zero
  <2>2. 0 \in 0 .. MaxGets /\ 0 \in 0 .. MaxResets /\ <<>> \in Seq(Counter)
    BY MetricsAssumption
  <2> QED
    BY <2>1, <2>2 DEF MetricsInit, MetricsTypeOK
<1>2. PlanInv /\ ResetInv /\ LoadInv
  BY DEF MetricsInit, PlanInv, ResetInv, LoadInv
<1>3. CountInv
  <2>1. Recorders = {} /\ Left(1) = {} /\ Left(2) = {}
    BY DEF MetricsInit, Recorders, Left
  <2>2. SumFunctionOnSet(took, {}) = 0 /\ Cardinality({}) = 0 /\ IsFiniteSet({})
    BY SumEmpty, FS_EmptySet
  <2>3. /\ counters.getCount = 0 /\ counters.hits = 0 /\ counters.misses = 0
        /\ counters.totalGetTime = 0 /\ truth = 0
    BY DEF MetricsInit, Zero, Counter
  <2> QED
    BY <2>1, <2>2, <2>3 DEF CountInv
<1> QED
  BY <1>1, <1>2, <1>3 DEF MetricsInv

\* A step of p leaves what the others are about.
OnlyBy(p) ==
    /\ doing' \in [Caller -> {"idle", "get", "record", "stats", "reset"}]
    /\ \A q \in Caller \ {p} : doing'[q] = doing[q] /\ todo'[q] = todo[q]

LEMMA SameSets ==
    ASSUME NEW A, NEW B, NEW x, A \ {x} = B \ {x}
    PROVE  /\ (x \in A <=> x \in B) => A = B
           /\ x \in A /\ x \notin B => A = B \cup {x} /\ B = A \ {x}
  OBVIOUS

\* Those in the middle of a recording are the same, but for p.
LEMMA OthersLeft ==
    ASSUME NEW p \in Caller, OnlyBy(p)
    PROVE  /\ Recorders' \ {p} = Recorders \ {p}
           /\ \A n \in Nat : Left(n)' \ {p} = Left(n) \ {p}
           /\ \A n \in Nat : p \in Left(n)' <=> doing'[p] = "record" /\ Len(todo'[p]) = n
           /\ p \in Recorders' <=> doing'[p] = "record"
  BY DEF OnlyBy, Recorders, Left

\* The sets of recorders are finite.
LEMMA LeftFinite ==
    ASSUME CountInv, MetricsTypeOK, NEW n \in Nat
    PROVE  /\ IsFiniteSet(Left(n)) /\ Cardinality(Left(n)) \in Nat
           /\ \A q \in Left(n) : took[q] \in Nat
           /\ SumFunctionOnSet(took, Left(n)) \in Nat
<1>1. Left(n) \subseteq Recorders
  BY DEF Left, Recorders
<1>2. IsFiniteSet(Left(n)) /\ Cardinality(Left(n)) \in Nat
  BY <1>1, FS_Subset, FS_CardinalityType DEF CountInv
<1>3. \A q \in Left(n) : took[q] \in Nat
  BY DEF Left, MetricsTypeOK
<1>4. SumFunctionOnSet(took, Left(n)) \in Nat
  BY <1>2, <1>3, SumType
<1> QED
  BY <1>2, <1>3, <1>4

\* A step after which p records nothing, and did not before, leaves the
\* counters as far apart as they were.
LEMMA CountKept ==
    ASSUME CountInv, NEW p \in Caller, OnlyBy(p), doing[p] # "record", doing'[p] # "record",
           UNCHANGED <<counters, took, truth>>, skewed => skewed',
           ~skewed' => (Resetting => Resetting')
    PROVE  CountInv'
<1>1. /\ Recorders' = Recorders
      /\ Left(1)' = Left(1) /\ Left(2)' = Left(2)
  <2>1. p \notin Recorders /\ p \notin Left(1) /\ p \notin Left(2)
    BY DEF Recorders, Left
  <2>2. p \notin Recorders' /\ p \notin Left(1)' /\ p \notin Left(2)'
    BY OthersLeft
  <2>3. Left(1)' \ {p} = Left(1) \ {p} /\ Left(2)' \ {p} = Left(2) \ {p}
    BY OthersLeft
  <2>4. Recorders' \ {p} = Recorders \ {p}
    BY OthersLeft
  <2> QED
    BY <2>1, <2>2, <2>3, <2>4, SameSets
<1>2. ~skewed' /\ ~Resetting' => ~skewed /\ ~Resetting
  OBVIOUS
<1>3. CASE skewed' \/ Resetting'
  BY <1>1, <1>3 DEF CountInv
<1>4. CASE ~skewed' /\ ~Resetting'
  BY <1>1, <1>2, <1>4 DEF CountInv
<1> QED
  BY <1>3, <1>4

LEMMA GetStartStep ==
    ASSUME MetricsInv, NEW p \in Caller, GetStart(p)
    PROVE  MetricsInv'
<1> USE DEF MetricsInv
<1>1. /\ doing[p] = "idle" /\ doing' = [doing EXCEPT ![p] = "get"]
      /\ todo' = [todo EXCEPT ![p] = <<>>]
      /\ UNCHANGED <<counters, took, loaded, truth, known, hitsThen, skewed, resets>>
      /\ begun' = begun + 1 /\ begun < MaxGets
  BY DEF GetStart, About
<1>2. MetricsTypeOK'
  BY <1>1, MetricsAssumption DEF MetricsTypeOK
<1>3. OnlyBy(p) /\ doing'[p] = "get" /\ todo'[p] = <<>>
  BY <1>1, <1>2 DEF OnlyBy, MetricsTypeOK
<1>4. PlanInv'
  BY <1>1, <1>3 DEF PlanInv, OnlyBy, Zero
<1>5. CountInv'
  <2>1. Resetting => Resetting'
    BY <1>1, <1>3 DEF Resetting, OnlyBy
  <2> QED
    BY <1>1, <1>3, <2>1, CountKept
<1>6. ResetInv'
  BY <1>1, <1>3 DEF ResetInv, OnlyBy
<1>7. LoadInv'
  BY <1>1, <1>3 DEF LoadInv, OnlyBy
<1> QED
  BY <1>2, <1>4, <1>5, <1>6, <1>7

LEMMA GetPanicsStep ==
    ASSUME MetricsInv, NEW p \in Caller, GetPanics(p)
    PROVE  MetricsInv'
<1> USE DEF MetricsInv
<1>1. /\ doing[p] = "get" /\ doing' = [doing EXCEPT ![p] = "idle"]
      /\ todo' = [todo EXCEPT ![p] = <<>>]
      /\ UNCHANGED <<counters, took, loaded, truth, known, hitsThen, skewed, begun, resets>>
  BY DEF GetPanics, About
<1>2. MetricsTypeOK'
  BY <1>1 DEF MetricsTypeOK
<1>3. OnlyBy(p) /\ doing'[p] = "idle" /\ todo'[p] = <<>>
  BY <1>1, <1>2 DEF OnlyBy, MetricsTypeOK
<1>4. PlanInv'
  BY <1>1, <1>3 DEF PlanInv, OnlyBy, Zero
<1>5. CountInv'
  <2>1. Resetting => Resetting'
    BY <1>1, <1>3 DEF Resetting, OnlyBy
  <2> QED
    BY <1>1, <1>3, <2>1, CountKept
<1>6. ResetInv'
  BY <1>1, <1>3 DEF ResetInv, OnlyBy
<1>7. LoadInv'
  BY <1>1, <1>3 DEF LoadInv, OnlyBy
<1> QED
  BY <1>2, <1>4, <1>5, <1>6, <1>7

LEMMA GetReturnsStep ==
    ASSUME MetricsInv, NEW p \in Caller, NEW d \in Durations, NEW failed \in BOOLEAN,
           GetReturns(p, d, failed)
    PROVE  MetricsInv'
<1> USE DEF MetricsInv
<1>1. /\ doing[p] = "get" /\ doing' = [doing EXCEPT ![p] = "record"]
      /\ todo' = [todo EXCEPT ![p] = RecordOrder(failed)]
      /\ took' = [took EXCEPT ![p] = d]
      /\ skewed' = (skewed \/ Resetting)
      /\ UNCHANGED <<counters, loaded, truth, known, hitsThen, begun, resets>>
  BY DEF GetReturns, About
<1>2. RecordOrder(failed) \in RecordPlans /\ Len(RecordOrder(failed)) = 3
  BY Tails DEF RecordOrder, RecordPlans
<1>3. MetricsTypeOK'
  <2>1. RecordOrder(failed) \in Seq(Counter) /\ d \in Nat
    BY <1>2, RecordPlan, MetricsAssumption
  <2>2. skewed' \in BOOLEAN
    BY <1>1 DEF MetricsTypeOK, Resetting
  <2> HIDE DEF RecordOrder
  <2> QED
    BY <1>1, <2>1, <2>2 DEF MetricsTypeOK
<1>4. OnlyBy(p) /\ doing'[p] = "record" /\ todo'[p] = RecordOrder(failed)
  BY <1>1, <1>3 DEF OnlyBy, MetricsTypeOK
<1>5. PlanInv'
  BY <1>1, <1>2, <1>4 DEF PlanInv, OnlyBy, Zero
<1>6. CountInv'
  <2>1. /\ IsFiniteSet(Left(2)) /\ \A q \in Left(2) : took'[q] = took[q]
        /\ Left(1)' = Left(1) /\ Left(2)' = Left(2) /\ Recorders' = Recorders \cup {p}
    <3>1. p \notin Recorders /\ p \notin Left(1) /\ p \notin Left(2)
      BY <1>1 DEF Recorders, Left
    <3>2. p \in Recorders' /\ p \notin Left(1)' /\ p \notin Left(2)'
      BY <1>2, <1>4, OthersLeft
    <3>3. /\ Recorders' \ {p} = Recorders \ {p}
          /\ Left(1)' \ {p} = Left(1) \ {p} /\ Left(2)' \ {p} = Left(2) \ {p}
      BY <1>4, OthersLeft
    <3>4. \A q \in Caller : q # p => took'[q] = took[q]
      BY <1>1 DEF MetricsTypeOK
    <3>5. Left(2) \subseteq Caller
      BY DEF Left
    <3>6. Left(1)' = Left(1) /\ Left(2)' = Left(2) /\ Recorders' = Recorders \cup {p}
      BY <3>1, <3>2, <3>3, SameSets
    <3>7. IsFiniteSet(Left(2))
      BY LeftFinite
    <3> QED
      BY <3>1, <3>4, <3>5, <3>6, <3>7
  <2>2. IsFiniteSet(Recorders')
    BY <2>1, FS_AddElement DEF CountInv
  <2>3. SumFunctionOnSet(took', Left(2)) = SumFunctionOnSet(took, Left(2))
    BY <2>1, SumEqual
  <2>4. CASE skewed' \/ Resetting'
    BY <2>2, <2>4 DEF CountInv
  <2>5. CASE ~skewed' /\ ~Resetting'
    BY <1>1, <2>1, <2>2, <2>3, <2>5 DEF CountInv
  <2> QED
    BY <2>4, <2>5
<1>7. ResetInv'
  BY <1>1, <1>4 DEF ResetInv, OnlyBy, Resetting
<1>8. LoadInv'
  BY <1>1, <1>4 DEF LoadInv, OnlyBy
<1> QED
  BY <1>3, <1>5, <1>6, <1>7, <1>8

LEMMA StatsStartStep ==
    ASSUME MetricsInv, NEW p \in Caller, StatsStart(p)
    PROVE  MetricsInv'
<1> USE DEF MetricsInv
<1>1. /\ doing[p] = "idle" /\ doing' = [doing EXCEPT ![p] = "stats"]
      /\ todo' = [todo EXCEPT ![p] = StatsOrder]
      /\ skewed' = (skewed \/ Resetting)
      /\ UNCHANGED <<counters, took, loaded, truth, known, hitsThen, begun, resets>>
  BY DEF StatsStart, About
<1>2. StatsOrder \in StatsPlans /\ Len(StatsOrder) = 4
  BY Tails DEF StatsOrder, StatsPlans
<1>3. MetricsTypeOK'
  <2>1. StatsOrder \in Seq(Counter)
    BY <1>2, StatsPlan
  <2>2. skewed' \in BOOLEAN
    BY <1>1 DEF MetricsTypeOK, Resetting
  <2> QED
    BY <1>1, <2>1, <2>2 DEF MetricsTypeOK
<1>4. OnlyBy(p) /\ doing'[p] = "stats" /\ todo'[p] = StatsOrder
  BY <1>1, <1>3 DEF OnlyBy, MetricsTypeOK
<1>5. PlanInv'
  BY <1>1, <1>2, <1>4 DEF PlanInv, OnlyBy
<1>6. CountInv'
  <2>1. ~skewed' => (Resetting => Resetting')
    BY <1>1
  <2> QED
    BY <1>1, <1>4, <2>1, CountKept
<1>7. ResetInv'
  BY <1>1, <1>4 DEF ResetInv, OnlyBy, Resetting
<1>8. LoadInv'
  <2> SUFFICES ASSUME ~skewed', NEW q \in Caller, doing'[q] = "stats"
               PROVE  /\ \A c \in Counter : loaded'[q][c] <= counters'[c]
                      /\ Len(todo'[q]) <= 2 => loaded'[q].hits <= hitsThen'[q]
                      /\ Len(todo'[q]) = 1 =>
                          /\ known'[q] <= counters'.totalGetTime
                          /\ loaded'[q].hits + loaded'[q].misses <= loaded'[q].getCount
    BY DEF LoadInv
  <2>1. CASE q = p
    <3>1. loaded'[p] = Zero /\ counters' \in [Counter -> Nat] /\ Len(todo'[p]) = 4
      BY <1>1, <1>2, <1>4 DEF PlanInv, MetricsTypeOK
    <3> QED
      BY <2>1, <3>1 DEF Zero
  <2>2. CASE q # p
    BY <1>1, <1>4, <2>2 DEF LoadInv, OnlyBy
  <2> QED
    BY <2>1, <2>2
<1> QED
  BY <1>3, <1>5, <1>6, <1>7, <1>8

LEMMA ResetStartStep ==
    ASSUME MetricsInv, NEW p \in Caller, ResetStart(p)
    PROVE  MetricsInv'
<1> USE DEF MetricsInv
<1>1. /\ doing[p] = "idle" /\ doing' = [doing EXCEPT ![p] = "reset"]
      /\ todo' = [todo EXCEPT ![p] = ResetOrder]
      /\ skewed' = (skewed \/ \E q \in Caller : doing[q] \in {"record", "stats", "reset"})
      /\ resets < MaxResets /\ resets' = resets + 1
      /\ UNCHANGED <<counters, took, loaded, truth, known, hitsThen, begun>>
  BY DEF ResetStart, About
<1>2. ResetOrder \in ResetPlans /\ Len(ResetOrder) = 4
  BY Tails DEF ResetOrder, ResetPlans
<1>3. MetricsTypeOK'
  <2>1. ResetOrder \in Seq(Counter)
    BY <1>2, ResetPlan
  <2>2. skewed' \in BOOLEAN
    BY <1>1 DEF MetricsTypeOK
  <2> QED
    BY <1>1, <2>1, <2>2, MetricsAssumption DEF MetricsTypeOK
<1>4. OnlyBy(p) /\ doing'[p] = "reset" /\ todo'[p] = ResetOrder
  BY <1>1, <1>3 DEF OnlyBy, MetricsTypeOK
<1>5. PlanInv'
  BY <1>1, <1>2, <1>4 DEF PlanInv, OnlyBy, Zero
<1>6. CountInv'
  <2>1. Resetting'
    BY <1>4 DEF Resetting
  <2> QED
    BY <1>1, <1>4, <2>1, CountKept
<1>7. ResetInv'
  <2> SUFFICES ASSUME ~skewed', NEW q \in Caller, doing'[q] = "reset"
               PROVE  /\ \A r \in Caller \ {q} :
                            doing'[r] \notin {"record", "stats", "reset"}
                      /\ Len(todo'[q]) <= 3 => counters'.hits = 0
                      /\ Len(todo'[q]) <= 2 => counters'.misses = 0
                      /\ Len(todo'[q]) <= 1 => counters'.totalGetTime = 0
    BY DEF ResetInv
  <2>1. \A r \in Caller : doing[r] \notin {"record", "stats", "reset"}
    BY <1>1
  <2>2. q = p
    BY <1>4, <2>1 DEF OnlyBy
  <2>3. \A r \in Caller \ {q} : doing'[r] \notin {"record", "stats", "reset"}
    BY <1>4, <2>1, <2>2 DEF OnlyBy
  <2>4. Len(todo'[q]) = 4
    BY <1>2, <1>4, <2>2
  <2> QED
    BY <2>3, <2>4
<1>8. LoadInv'
  BY <1>1, <1>4 DEF LoadInv, OnlyBy
<1> QED
  BY <1>3, <1>5, <1>6, <1>7, <1>8

LEMMA RecordStep ==
    ASSUME MetricsInv, NEW p \in Caller, Record(p)
    PROVE  MetricsInv'
<1> USE DEF MetricsInv
<1> DEFINE t == todo[p]
           c == Head(t)
<1>1. /\ doing[p] = "record"
      /\ counters' = [counters EXCEPT ![c] = @ + IF c = "totalGetTime" THEN took[p] ELSE 1]
      /\ truth' = IF c = "getCount" THEN truth + took[p] ELSE truth
      /\ took' = IF Len(t) = 1 THEN [took EXCEPT ![p] = 0] ELSE took
      /\ todo' = [todo EXCEPT ![p] = Tail(t)]
      /\ doing' = [doing EXCEPT ![p] = IF Len(t) = 1 THEN "idle" ELSE "record"]
      /\ UNCHANGED <<loaded, known, hitsThen, skewed, begun, resets>>
  BY DEF Record, Done, IsLast
<1>2. /\ t \in RecordPlans
      /\ t \in Seq(Counter) /\ (Len(t) = 1 \/ Len(t) = 2 \/ Len(t) = 3)
      /\ Len(t) = 3 =>
            c = "totalGetTime" /\ Tail(t) \in RecordPlans /\ Len(Tail(t)) = 2
      /\ Len(t) = 2 =>
            c = "getCount" /\ Tail(t) \in RecordPlans /\ Len(Tail(t)) = 1
      /\ Len(t) = 1 => c \in {"hits", "misses"} /\ Tail(t) = <<>>
  <2>1. t \in RecordPlans
    BY <1>1 DEF PlanInv
  <2> HIDE DEF t
  <2> QED
    BY <2>1, RecordPlan
<1>3. /\ c \in Counter /\ took[p] \in Nat /\ truth \in Nat /\ counters \in [Counter -> Nat]
      /\ took \in [Caller -> Nat]
  BY <1>2 DEF Counter, MetricsTypeOK
<1>4. Tail(t) \in Seq(Counter)
  BY <1>2, RecordPlan
<1> HIDE DEF c
<1>5. MetricsTypeOK'
  <2>1. counters' \in [Counter -> Nat] /\ truth' \in Nat /\ took' \in [Caller -> Nat]
    BY <1>1, <1>3
  <2> QED
    BY <1>1, <1>4, <2>1 DEF MetricsTypeOK
<1>6. /\ OnlyBy(p) /\ todo'[p] = Tail(t)
      /\ doing'[p] = IF Len(t) = 1 THEN "idle" ELSE "record"
  BY <1>1, <1>5 DEF OnlyBy, MetricsTypeOK
<1> HIDE DEF t
<1>7. PlanInv'
  <2>1. loaded[p] = Zero
    BY <1>1 DEF PlanInv
  <2>2. CASE Len(t) = 1
    <3>1. todo'[p] = <<>> /\ doing'[p] = "idle"
      BY <1>2, <1>6, <2>2
    <3> QED
      BY <1>1, <1>6, <2>1, <3>1 DEF PlanInv, OnlyBy, Zero
  <2>3. CASE Len(t) # 1
    <3>1. todo'[p] \in RecordPlans /\ doing'[p] = "record"
      BY <1>2, <1>6, <2>3
    <3> QED
      BY <1>1, <1>6, <2>1, <3>1 DEF PlanInv, OnlyBy, Zero
  <2> QED
    BY <2>2, <2>3
<1>8. ~skewed => ~Resetting
  BY <1>1 DEF ResetInv, Resetting
<1>9. ResetInv'
  BY <1>1, <1>6, <1>8 DEF ResetInv, OnlyBy, Resetting
<1>10. LoadInv'
  <2>1. \A d \in Counter : counters[d] <= counters'[d]
    BY <1>1, <1>3
  <2>2. \A q \in Caller : doing'[q] = "stats" => doing[q] = "stats" /\ todo'[q] = todo[q]
    BY <1>6 DEF OnlyBy
  <2>3. counters' \in [Counter -> Nat] /\ loaded \in [Caller -> [Counter -> Nat]]
        /\ known \in [Caller -> Nat]
    BY <1>5 DEF MetricsTypeOK
  <2>4. "totalGetTime" \in Counter
    BY DEF Counter
  <2>5. UNCHANGED <<loaded, known, hitsThen, skewed>>
    BY <1>1
  <2>6. ASSUME ~skewed, NEW q \in Caller, doing'[q] = "stats"
        PROVE  /\ \A d \in Counter : loaded[q][d] <= counters'[d]
               /\ Len(todo'[q]) <= 2 => loaded[q].hits <= hitsThen[q]
               /\ Len(todo'[q]) = 1 =>
                    /\ known[q] <= counters'.totalGetTime
                    /\ loaded[q].hits + loaded[q].misses <= loaded[q].getCount
    <3>1. doing[q] = "stats" /\ todo'[q] = todo[q]
      BY <2>2, <2>6
    <3>2. /\ \A d \in Counter : loaded[q][d] <= counters[d]
          /\ Len(todo[q]) <= 2 => loaded[q].hits <= hitsThen[q]
          /\ Len(todo[q]) = 1 =>
                /\ known[q] <= counters.totalGetTime
                /\ loaded[q].hits + loaded[q].misses <= loaded[q].getCount
      BY <2>6, <3>1 DEF LoadInv
    <3>3. \A d \in Counter :
            loaded[q][d] \in Nat /\ counters[d] \in Nat /\ counters'[d] \in Nat
      BY <1>3, <2>3
    <3>4. known[q] \in Nat
      BY <2>3
    <3>5. \A d \in Counter : loaded[q][d] <= counters'[d]
      BY <2>1, <3>2, <3>3
    <3>6. known[q] <= counters.totalGetTime => known[q] <= counters'.totalGetTime
      BY <2>1, <2>4, <3>3, <3>4
    <3> QED BY <3>1, <3>2, <3>5, <3>6
  <2> QED
    BY <2>5, <2>6 DEF LoadInv
<1>11. CountInv'
  <2>1. /\ Recorders' \ {p} = Recorders \ {p}
        /\ Left(1)' \ {p} = Left(1) \ {p} /\ Left(2)' \ {p} = Left(2) \ {p}
        /\ p \in Recorders
        /\ p \in Left(1) <=> Len(t) = 1
        /\ p \in Left(2) <=> Len(t) = 2
    BY <1>1, <1>6, OthersLeft DEF Recorders, Left, t
  <2>2. /\ p \in Left(1)' <=> Len(t) = 2
        /\ p \in Left(2)' <=> Len(t) = 3
        /\ p \in Recorders' <=> Len(t) # 1
    <3>1. /\ p \in Left(1)' <=> doing'[p] = "record" /\ Len(todo'[p]) = 1
          /\ p \in Left(2)' <=> doing'[p] = "record" /\ Len(todo'[p]) = 2
          /\ p \in Recorders' <=> doing'[p] = "record"
      BY <1>6, OthersLeft
    <3>2. CASE Len(t) = 1
      BY <1>6, <3>1, <3>2
    <3>3. CASE Len(t) = 2 \/ Len(t) = 3
      BY <1>2, <1>6, <3>1, <3>3
    <3> QED
      BY <1>2, <3>2, <3>3
  <2>3. IsFiniteSet(Recorders')
    <3>1. Recorders' = Recorders \/ Recorders' = Recorders \ {p}
      BY <2>1, <2>2
    <3>2. IsFiniteSet(Recorders \ {p})
      BY FS_Subset DEF CountInv
    <3> QED
      BY <3>1, <3>2 DEF CountInv
  <2>4. /\ IsFiniteSet(Left(1)) /\ Cardinality(Left(1)) \in Nat /\ IsFiniteSet(Left(2))
        /\ \A q \in Left(2) : took[q] \in Int
        /\ SumFunctionOnSet(took, Left(2)) \in Nat
    BY LeftFinite
  <2> SUFFICES ASSUME ~skewed
               PROVE  /\ counters'.getCount
                           = counters'.hits + counters'.misses + Cardinality(Left(1)')
                      /\ counters'.totalGetTime = truth' + SumFunctionOnSet(took', Left(2)')
    BY <1>1, <2>3 DEF CountInv
  <2>5. /\ counters.getCount = counters.hits + counters.misses + Cardinality(Left(1))
        /\ counters.totalGetTime = truth + SumFunctionOnSet(took, Left(2))
    BY <1>8 DEF CountInv
  <2>6. /\ counters.getCount \in Nat /\ counters.hits \in Nat /\ counters.misses \in Nat
        /\ counters.totalGetTime \in Nat
    BY <1>3 DEF Counter
  <2>7. CASE Len(t) = 3
    <3>1. /\ counters'.getCount = counters.getCount /\ counters'.hits = counters.hits
          /\ counters'.misses = counters.misses
          /\ counters'.totalGetTime = counters.totalGetTime + took[p]
          /\ truth' = truth /\ took' = took
      BY <1>1, <1>2, <1>3, <2>7 DEF Counter
    <3>2. Left(1)' = Left(1) /\ Left(2)' = Left(2) \cup {p} /\ p \notin Left(2)
      BY <2>1, <2>2, <2>7, SameSets
    <3>3. SumFunctionOnSet(took, Left(2) \cup {p}) = took[p] + SumFunctionOnSet(took, Left(2))
      BY <1>3, <2>4, <3>2, SumAdd
    <3> QED
      BY <1>3, <2>4, <2>5, <2>6, <3>1, <3>2, <3>3
  <2>8. CASE Len(t) = 2
    <3>1. /\ counters'.getCount = counters.getCount + 1 /\ counters'.hits = counters.hits
          /\ counters'.misses = counters.misses
          /\ counters'.totalGetTime = counters.totalGetTime
          /\ truth' = truth + took[p] /\ took' = took
      BY <1>1, <1>2, <1>3, <2>8 DEF Counter
    <3>2. Left(1)' = Left(1) \cup {p} /\ Left(2)' = Left(2) \ {p} /\ p \in Left(2) /\ p \notin Left(1)
      BY <2>1, <2>2, <2>8, SameSets
    <3>3. SumFunctionOnSet(took, Left(2)) = took[p] + SumFunctionOnSet(took, Left(2) \ {p})
      BY <2>4, <3>2, SumRemove
    <3>4. Cardinality(Left(1) \cup {p}) = Cardinality(Left(1)) + 1
      BY <2>4, <3>2, FS_AddElement
    <3>5. SumFunctionOnSet(took, Left(2) \ {p}) \in Int
      <4>1. IsFiniteSet(Left(2) \ {p}) /\ \A q \in Left(2) \ {p} : took[q] \in Int
        BY <2>4, FS_Subset
      <4> QED
        BY <4>1, SumType
    <3>6. /\ Cardinality(Left(1)') = Cardinality(Left(1)) + 1
          /\ SumFunctionOnSet(took', Left(2)') = SumFunctionOnSet(took, Left(2)) - took[p]
      <4>1. Cardinality(Left(1)') = Cardinality(Left(1)) + 1
        BY <3>2, <3>4
      <4>2. SumFunctionOnSet(took', Left(2)') = SumFunctionOnSet(took, Left(2) \ {p})
        BY <3>1, <3>2
      <4> QED
        BY <1>3, <3>3, <3>5, <4>1, <4>2
    <3> QED
      BY <1>3, <2>4, <2>5, <2>6, <3>1, <3>6
  <2>9. CASE Len(t) = 1
    <3>1. /\ counters'.getCount = counters.getCount
          /\ counters'.hits + counters'.misses = counters.hits + counters.misses + 1
          /\ counters'.hits \in Nat /\ counters'.misses \in Nat
          /\ counters'.totalGetTime = counters.totalGetTime
          /\ truth' = truth /\ took' = [took EXCEPT ![p] = 0]
      <4>1. /\ counters'[c] = counters[c] + 1
            /\ \A d \in Counter \ {c} : counters'[d] = counters[d]
        BY <1>1, <1>2, <1>3, <2>9
      <4>2. /\ counters'.getCount = counters.getCount
            /\ counters'.totalGetTime = counters.totalGetTime
            /\ \/ counters'.hits = counters.hits + 1 /\ counters'.misses = counters.misses
               \/ counters'.hits = counters.hits /\ counters'.misses = counters.misses + 1
        BY <1>2, <2>9, <4>1 DEF Counter
      <4>3. /\ counters'.hits + counters'.misses = counters.hits + counters.misses + 1
            /\ counters'.hits \in Nat /\ counters'.misses \in Nat
        BY <2>6, <4>2
      <4>4. truth' = truth /\ took' = [took EXCEPT ![p] = 0]
        BY <1>1, <1>2, <2>9
      <4> QED
        BY <4>2, <4>3, <4>4
    <3>2. Left(1)' = Left(1) \ {p} /\ Left(2)' = Left(2) /\ p \in Left(1) /\ p \notin Left(2)
      BY <2>1, <2>2, <2>9, SameSets
    <3>3. Cardinality(Left(1) \ {p}) = Cardinality(Left(1)) - 1
      BY <2>4, <3>2, FS_RemoveElement
    <3>4. SumFunctionOnSet(took', Left(2)) = SumFunctionOnSet(took, Left(2))
      <4>1. \A q \in Left(2) : took'[q] = took[q]
        BY <1>3, <3>1, <3>2 DEF Left
      <4> QED
        BY <2>4, <4>1, SumEqual
    <3>5. /\ Cardinality(Left(1)') = Cardinality(Left(1)) - 1
          /\ SumFunctionOnSet(took', Left(2)') = SumFunctionOnSet(took, Left(2))
      BY <3>2, <3>3, <3>4
    <3> QED
      BY <1>3, <2>4, <2>5, <2>6, <3>1, <3>5
  <2> QED
    BY <1>2, <2>7, <2>8, <2>9
<1> QED
  BY <1>5, <1>7, <1>9, <1>10, <1>11

LEMMA LoadStep ==
    ASSUME MetricsInv, NEW p \in Caller, Load(p)
    PROVE  MetricsInv'
<1> USE DEF MetricsInv
<1> DEFINE t == todo[p]
           c == Head(t)
<1>1. /\ doing[p] = "stats"
      /\ loaded' = [loaded EXCEPT ![p] =
                        IF Len(t) = 1 THEN Zero ELSE [@ EXCEPT ![c] = counters[c]]]
      /\ known' = [known EXCEPT ![p] =
                        IF c = "getCount" THEN truth ELSE IF Len(t) = 1 THEN 0 ELSE @]
      /\ hitsThen' = [hitsThen EXCEPT ![p] =
                        IF c = "misses" THEN counters.hits ELSE IF Len(t) = 1 THEN 0 ELSE @]
      /\ todo' = [todo EXCEPT ![p] = Tail(t)]
      /\ doing' = [doing EXCEPT ![p] = IF Len(t) = 1 THEN "idle" ELSE "stats"]
      /\ UNCHANGED <<counters, took, truth, skewed, begun, resets>>
  BY DEF Load, Done, IsLast
<1>2. /\ t \in StatsPlans
      /\ t \in Seq(Counter) /\ (Len(t) = 1 \/ Len(t) = 2 \/ Len(t) = 3 \/ Len(t) = 4)
      /\ Len(t) = 4 =>
            c = "hits" /\ Tail(t) \in StatsPlans /\ Len(Tail(t)) = 3
      /\ Len(t) = 3 =>
            c = "misses" /\ Tail(t) \in StatsPlans /\ Len(Tail(t)) = 2
      /\ Len(t) = 2 =>
            c = "getCount" /\ Tail(t) \in StatsPlans /\ Len(Tail(t)) = 1
      /\ Len(t) = 1 => c = "totalGetTime" /\ Tail(t) = <<>>
  <2>1. t \in StatsPlans
    BY <1>1 DEF PlanInv
  <2> HIDE DEF t
  <2> QED
    BY <2>1, StatsPlan
<1>3. /\ c \in Counter /\ truth \in Nat /\ counters \in [Counter -> Nat]
      /\ Zero \in [Counter -> Nat] /\ loaded \in [Caller -> [Counter -> Nat]]
      /\ known \in [Caller -> Nat] /\ hitsThen \in [Caller -> Nat] /\ counters.hits \in Nat
  BY <1>2 DEF Counter, MetricsTypeOK, Zero
<1>4. Tail(t) \in Seq(Counter)
  BY <1>2, StatsPlan
<1> HIDE DEF c
<1>5. MetricsTypeOK'
  <2>1. loaded' \in [Caller -> [Counter -> Nat]] /\ known' \in [Caller -> Nat]
    BY <1>1, <1>3
  <2>2. hitsThen' \in [Caller -> Nat]
    BY <1>1, <1>3
  <2> QED
    BY <1>1, <1>4, <2>1, <2>2 DEF MetricsTypeOK
<1>6. /\ OnlyBy(p) /\ todo'[p] = Tail(t)
      /\ doing'[p] = IF Len(t) = 1 THEN "idle" ELSE "stats"
      /\ \A q \in Caller \ {p} :
            loaded'[q] = loaded[q] /\ known'[q] = known[q] /\ hitsThen'[q] = hitsThen[q]
      /\ loaded'[p] = IF Len(t) = 1 THEN Zero ELSE [loaded[p] EXCEPT ![c] = counters[c]]
      /\ known'[p] = IF c = "getCount" THEN truth ELSE IF Len(t) = 1 THEN 0 ELSE known[p]
      /\ hitsThen'[p] = IF c = "misses" THEN counters.hits
                        ELSE IF Len(t) = 1 THEN 0 ELSE hitsThen[p]
  BY <1>1, <1>3, <1>5 DEF OnlyBy, MetricsTypeOK
<1> HIDE DEF t
<1>7. PlanInv'
  <2>1. CASE Len(t) = 1
    <3>1. todo'[p] = <<>> /\ doing'[p] = "idle" /\ loaded'[p] = Zero
      BY <1>2, <1>6, <2>1
    <3> QED
      BY <1>6, <3>1 DEF PlanInv, OnlyBy, Zero
  <2>2. CASE Len(t) # 1
    <3>1. todo'[p] \in StatsPlans /\ doing'[p] = "stats"
      BY <1>2, <1>6, <2>2
    <3> QED
      BY <1>6, <3>1 DEF PlanInv, OnlyBy, Zero
  <2> QED
    BY <2>1, <2>2
<1>8. CountInv'
  <2>1. doing'[p] # "record" /\ (Resetting => Resetting')
    BY <1>1, <1>6 DEF Resetting, OnlyBy
  <2> QED
    BY <1>1, <1>6, <2>1, CountKept
<1>9. ResetInv'
  <2> SUFFICES ASSUME ~skewed
               PROVE  ResetInv'
    BY <1>1 DEF ResetInv
  <2>1. \A q \in Caller : doing[q] # "reset"
    BY <1>1 DEF ResetInv
  <2>2. \A q \in Caller : doing'[q] # "reset"
    BY <1>6, <2>1 DEF OnlyBy
  <2> QED
    BY <2>2 DEF ResetInv
<1>10. LoadInv'
  <2> SUFFICES ASSUME ~skewed, NEW q \in Caller, doing'[q] = "stats"
               PROVE  /\ \A d \in Counter : loaded'[q][d] <= counters'[d]
                      /\ Len(todo'[q]) <= 2 => loaded'[q].hits <= hitsThen'[q]
                      /\ Len(todo'[q]) = 1 =>
                          /\ known'[q] <= counters'.totalGetTime
                          /\ loaded'[q].hits + loaded'[q].misses <= loaded'[q].getCount
    BY <1>1 DEF LoadInv
  <2>1. CASE q # p
    BY <1>1, <1>6, <2>1 DEF LoadInv, OnlyBy
  <2>2. CASE q = p
    <3>1. Len(t) # 1 /\ (Len(todo'[p]) = 1 => Len(t) = 2)
      BY <1>2, <1>6, <2>2
    <3>2. \A d \in Counter : loaded[p][d] <= counters[d]
      BY <1>1 DEF LoadInv
    <3>3. loaded'[p] = [loaded[p] EXCEPT ![c] = counters[c]] /\ loaded[p] \in [Counter -> Nat]
      BY <1>3, <1>6, <3>1
    <3>4. \A d \in Counter : loaded'[p][d] <= counters'[d]
      BY <1>1, <1>3, <3>2, <3>3
    <3>5. ASSUME Len(todo'[p]) = 1
          PROVE  /\ known'[p] <= counters'.totalGetTime
                 /\ loaded'[p].hits + loaded'[p].misses <= loaded'[p].getCount
      <4>1. c = "getCount"
        BY <1>2, <3>1, <3>5
      <4>2. ~Resetting
        BY <1>1 DEF ResetInv, Resetting
      <4>3. /\ counters.getCount = counters.hits + counters.misses + Cardinality(Left(1))
            /\ counters.totalGetTime = truth + SumFunctionOnSet(took, Left(2))
            /\ Cardinality(Left(1)) \in Nat /\ SumFunctionOnSet(took, Left(2)) \in Nat
        BY <4>2, LeftFinite DEF CountInv
      <4>4. /\ loaded'[p].hits = loaded[p].hits /\ loaded'[p].misses = loaded[p].misses
            /\ loaded'[p].getCount = counters.getCount
            /\ loaded[p].hits \in Nat /\ loaded[p].misses \in Nat
            /\ loaded[p].hits <= counters.hits /\ loaded[p].misses <= counters.misses
            /\ counters.hits \in Nat /\ counters.misses \in Nat /\ counters.getCount \in Nat
            /\ counters.totalGetTime \in Nat
        BY <1>3, <3>2, <3>3, <4>1 DEF Counter
      <4>5. known'[p] = truth
        BY <1>6, <4>1
      <4>6. counters' = counters
        BY <1>1
      <4>7. known'[p] <= counters'.totalGetTime
        BY <1>3, <4>3, <4>4, <4>5, <4>6
      <4>8. loaded[p].hits + loaded[p].misses <= counters.getCount
        BY <4>3, <4>4
      <4> QED
        BY <4>4, <4>7, <4>8
    <3>6. ASSUME Len(todo'[p]) <= 2
          PROVE  loaded'[p].hits <= hitsThen'[p]
      <4>1. "hits" \in Counter
        BY DEF Counter
      <4>2. CASE Len(t) = 3
        <5>1. c = "misses"
          BY <1>2, <4>2
        <5>2. loaded'[p].hits = loaded[p].hits /\ hitsThen'[p] = counters.hits
          BY <1>6, <3>1, <3>3, <4>1, <5>1
        <5> QED
          BY <3>2, <4>1, <5>2
      <4>3. CASE Len(t) = 2
        <5>1. c = "getCount" /\ loaded[p].hits <= hitsThen[p]
          <6>1. Len(todo[p]) <= 2
            BY <4>3 DEF t
          <6>2. loaded[p].hits <= hitsThen[p]
            BY <1>1, <6>1 DEF LoadInv
          <6> QED
            BY <1>2, <4>3, <6>2
        <5>2. loaded'[p].hits = loaded[p].hits /\ hitsThen'[p] = hitsThen[p]
          BY <1>6, <3>1, <3>3, <4>1, <5>1
        <5> QED
          BY <5>1, <5>2
      <4> QED
        BY <1>2, <1>6, <3>1, <3>6, <4>2, <4>3
    <3> QED
      BY <2>2, <3>4, <3>5, <3>6
  <2> QED
    BY <2>1, <2>2
<1> QED
  BY <1>5, <1>7, <1>8, <1>9, <1>10

LEMMA ResetStep ==
    ASSUME MetricsInv, NEW p \in Caller, Reset(p)
    PROVE  MetricsInv'
<1> USE DEF MetricsInv
<1> DEFINE t == todo[p]
           c == Head(t)
<1>1. /\ doing[p] = "reset"
      /\ counters' = [counters EXCEPT ![c] = 0]
      /\ truth' = IF c = "getCount" THEN 0 ELSE truth
      /\ todo' = [todo EXCEPT ![p] = Tail(t)]
      /\ doing' = [doing EXCEPT ![p] = IF Len(t) = 1 THEN "idle" ELSE "reset"]
      /\ UNCHANGED <<took, loaded, known, hitsThen, skewed, begun, resets>>
  BY DEF Reset, Done, IsLast
<1>2. /\ t \in ResetPlans
      /\ t \in Seq(Counter) /\ (Len(t) = 1 \/ Len(t) = 2 \/ Len(t) = 3 \/ Len(t) = 4)
      /\ Len(t) = 4 =>
            c = "hits" /\ Tail(t) \in ResetPlans /\ Len(Tail(t)) = 3
      /\ Len(t) = 3 =>
            c = "misses" /\ Tail(t) \in ResetPlans /\ Len(Tail(t)) = 2
      /\ Len(t) = 2 =>
            c = "totalGetTime" /\ Tail(t) \in ResetPlans /\ Len(Tail(t)) = 1
      /\ Len(t) = 1 => c = "getCount" /\ Tail(t) = <<>>
  <2>1. t \in ResetPlans
    BY <1>1 DEF PlanInv
  <2> HIDE DEF t
  <2> QED
    BY <2>1, ResetPlan
<1>3. c \in Counter /\ truth \in Nat /\ counters \in [Counter -> Nat]
  BY <1>2 DEF Counter, MetricsTypeOK
<1>4. Tail(t) \in Seq(Counter)
  BY <1>2, ResetPlan
<1> HIDE DEF c
<1>5. MetricsTypeOK'
  <2>1. counters' \in [Counter -> Nat] /\ truth' \in Nat
    BY <1>1, <1>3
  <2> QED
    BY <1>1, <1>4, <2>1 DEF MetricsTypeOK
<1>6. /\ OnlyBy(p) /\ todo'[p] = Tail(t)
      /\ doing'[p] = IF Len(t) = 1 THEN "idle" ELSE "reset"
      /\ counters'[c] = 0 /\ \A d \in Counter \ {c} : counters'[d] = counters[d]
  BY <1>1, <1>3, <1>5 DEF OnlyBy, MetricsTypeOK
<1> HIDE DEF t
<1>7. PlanInv'
  <2>1. CASE Len(t) = 1
    <3>1. todo'[p] = <<>> /\ doing'[p] = "idle" /\ loaded'[p] = Zero
      BY <1>1, <1>2, <1>6, <2>1 DEF PlanInv
    <3> QED
      BY <1>1, <1>6, <3>1 DEF PlanInv, OnlyBy, Zero
  <2>2. CASE Len(t) # 1
    <3>1. todo'[p] \in ResetPlans /\ doing'[p] = "reset" /\ loaded'[p] = Zero
      BY <1>1, <1>2, <1>6, <2>2 DEF PlanInv
    <3> QED
      BY <1>1, <1>6, <3>1 DEF PlanInv, OnlyBy, Zero
  <2> QED
    BY <2>1, <2>2
\* While it overlaps nothing, p is the only one to do anything.
<1>8. ~skewed => \A q \in Caller \ {p} : doing[q] \notin {"record", "stats", "reset"}
  BY <1>1 DEF ResetInv
<1>9. ResetInv'
  <2> SUFFICES ASSUME ~skewed, NEW q \in Caller, doing'[q] = "reset"
               PROVE  /\ \A r \in Caller \ {q} : doing'[r] \notin {"record", "stats", "reset"}
                      /\ Len(todo'[q]) <= 3 => counters'.hits = 0
                      /\ Len(todo'[q]) <= 2 => counters'.misses = 0
                      /\ Len(todo'[q]) <= 1 => counters'.totalGetTime = 0
    BY <1>1 DEF ResetInv
  <2>1. q = p
    BY <1>6, <1>8 DEF OnlyBy
  <2>2. \A r \in Caller \ {q} : doing'[r] \notin {"record", "stats", "reset"}
    BY <1>6, <1>8, <2>1 DEF OnlyBy
  <2>3. Len(t) # 1 /\ Len(todo'[p]) = Len(t) - 1
    BY <1>2, <1>6, <2>1
  <2>4. /\ Len(t) <= 3 => counters.hits = 0
        /\ Len(t) <= 2 => counters.misses = 0
    BY <1>1 DEF ResetInv, t
  <2>5. {"hits", "misses", "totalGetTime"} \subseteq Counter
    BY DEF Counter
  <2>6. CASE Len(t) = 4
    BY <1>2, <1>6, <2>1, <2>2, <2>3, <2>6
  <2>7. CASE Len(t) = 3
    <3>1. c = "misses" /\ Len(todo'[q]) = 2 /\ counters.hits = 0
      <4>1. counters.hits = 0
        BY <2>4, <2>7
      <4>2. c = "misses" /\ Len(Tail(t)) = 2
        BY <1>2, <2>7
      <4> QED
        BY <1>6, <2>1, <4>1, <4>2
    <3>2. counters'.hits = 0 /\ counters'.misses = 0
      BY <1>6, <2>5, <3>1
    <3> QED
      BY <2>2, <3>1, <3>2
  <2>8. CASE Len(t) = 2
    BY <1>2, <1>6, <2>1, <2>2, <2>3, <2>4, <2>5, <2>8
  <2> QED
    BY <1>2, <2>3, <2>6, <2>7, <2>8
<1>10. LoadInv'
  <2> SUFFICES ASSUME ~skewed
               PROVE  LoadInv'
    BY <1>1 DEF LoadInv
  <2>1. \A q \in Caller : doing'[q] # "stats"
    BY <1>6, <1>8 DEF OnlyBy
  <2> QED
    BY <2>1 DEF LoadInv
<1>11. CountInv'
  <2>1. Recorders' = Recorders
    <3>1. p \notin Recorders /\ p \notin Recorders'
      BY <1>1, <1>6, OthersLeft DEF Recorders
    <3> QED
      BY <1>6, <3>1, OthersLeft, SameSets
  <2>2. CASE skewed' \/ Resetting'
    BY <2>1, <2>2 DEF CountInv
  <2>3. CASE ~skewed' /\ ~Resetting'
    <3>1. Len(t) = 1
      BY <1>6, <2>3 DEF Resetting
    <3>2. Left(1)' = {} /\ Left(2)' = {}
      <4>1. \A q \in Caller : doing'[q] # "record"
        BY <1>1, <1>6, <1>8, <2>3 DEF OnlyBy
      <4> QED
        BY <4>1 DEF Left
    <3>3. counters.hits = 0 /\ counters.misses = 0 /\ counters.totalGetTime = 0
      <4>1. Len(todo[p]) = 1 /\ ~skewed
        BY <1>1, <2>3, <3>1 DEF t
      <4>2. 1 <= 3 /\ 1 <= 2 /\ 1 <= 1
        OBVIOUS
      <4> QED
        BY <1>1, <4>1, <4>2 DEF ResetInv
    <3>4. /\ counters'.getCount = 0 /\ counters'.hits = 0 /\ counters'.misses = 0
          /\ counters'.totalGetTime = 0 /\ truth' = 0
      BY <1>1, <1>2, <1>6, <3>1, <3>3 DEF Counter
    <3>5. SumFunctionOnSet(took', {}) = 0 /\ Cardinality({}) = 0
      BY SumEmpty, FS_EmptySet
    <3> QED
      BY <2>1, <3>2, <3>4, <3>5 DEF CountInv
  <2> QED
    BY <2>2, <2>3
<1> QED
  BY <1>5, <1>7, <1>9, <1>10, <1>11

LEMMA CountersStep == MetricsInv /\ [MetricsNext]_metricsVars => MetricsInv'
<1> SUFFICES ASSUME MetricsInv, [MetricsNext]_metricsVars
             PROVE  MetricsInv'
  OBVIOUS
<1>1. CASE UNCHANGED metricsVars
  BY <1>1 DEF metricsVars, MetricsInv, MetricsTypeOK, PlanInv, CountInv, ResetInv, LoadInv,
              Recorders, Resetting, Left
<1>2. CASE MetricsNext
  <2>1. PICK p \in Caller :
            \/ GetStart(p)
            \/ \E d \in Durations, failed \in BOOLEAN : GetReturns(p, d, failed)
            \/ GetPanics(p) \/ Record(p) \/ StatsStart(p) \/ Load(p)
            \/ ResetStart(p) \/ Reset(p)
    BY <1>2 DEF MetricsNext
  <2>2. ASSUME NEW d \in Durations, NEW failed \in BOOLEAN, GetReturns(p, d, failed)
        PROVE  MetricsInv'
    BY <2>2, GetReturnsStep
  <2> QED
    BY <2>1, <2>2, GetStartStep, GetPanicsStep, RecordStep, StatsStartStep, LoadStep,
       ResetStartStep, ResetStep
<1> QED
  BY <1>1, <1>2

\* Nothing is lost or recorded twice, unless a ResetStats overlaps a recording.
THEOREM GetsAddUp == MetricsSpec => []RecordsAddUp
<1>1. MetricsInv => RecordsAddUp
  BY DEF MetricsInv, CountInv, RecordsAddUp
<1> QED
  BY <1>1, CountersStart, CountersStep, PTL DEF MetricsSpec

\* Stats errs in one direction only: its average time is not below the truth, it
\* counts no hit or miss of a Get not in getCount, and its hit rate is not above
\* that of the counters when it loaded misses.
THEOREM StatsErrs == MetricsSpec => []StatsErrsOneWay
<1>1. MetricsInv => StatsErrsOneWay
  <2> SUFFICES ASSUME MetricsInv, NEW p \in Caller, doing[p] = "stats",
                      todo[p] = <<"totalGetTime">>, ~skewed
               PROVE  /\ counters.totalGetTime >= known[p]
                      /\ loaded[p].hits + loaded[p].misses <= loaded[p].getCount
                      /\ loaded[p].hits <= hitsThen[p]
    BY DEF StatsErrsOneWay
  <2>1. Len(todo[p]) = 1 /\ Len(todo[p]) <= 2
    BY Tails
  <2>2. counters.totalGetTime \in Nat /\ known[p] \in Nat
    BY DEF MetricsInv, MetricsTypeOK, Counter
  <2> QED
    BY <2>1, <2>2 DEF MetricsInv, LoadInv
<1> QED
  BY <1>1, CountersStart, CountersStep, PTL DEF MetricsSpec

=============================================================================
