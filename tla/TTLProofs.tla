----------------------------- MODULE TTLProofs -----------------------------
(***************************************************************************)
(* Proofs about TTLGroup, for any goroutines, keys and lifetimes and every *)
(* bound of the clock: that neither a cleanup nor a goroutine of Get, both *)
(* of which run later than what made them run, removes an entry that is    *)
(* good.                                                                   *)
(***************************************************************************)
EXTENDS TTLGroup, TLAPS

\* A goroutine in GetWithTTL has asked for something, and before it sets a value it
\* has one.
InHand ==
    \A p \in Proc :
        /\ at[p] # "out" => asked[p] \in [key : Key, ttl : TTL]
        /\ at[p] = "set" => value[p] \in Time

\* The clock as a cleanup has read it is not ahead of the clock.
ReadBefore == readNow <= now

IInv == TypeOK /\ InHand /\ ReadBefore

LEMMA InitInv == Init => IInv
<1> SUFFICES ASSUME Init
             PROVE  IInv
  OBVIOUS
<1>1. 0 \in Time /\ 0 \in 0 .. MaxPending
  BY TTLAssumption DEF Time
<1>2. TTLTypeOK
  BY <1>1 DEF Init, TTLInit, TTLTypeOK
<1>3. ReadBefore
  <2>1. now = 0 /\ readNow = 0
    BY DEF Init, TTLInit
  <2> QED BY <2>1 DEF ReadBefore
<1>4. TypeOK /\ InHand
  BY <1>2 DEF Init, TypeOK, InHand
<1> QED BY <1>3, <1>4 DEF IInv

\* Steps that leave GetWithTTL's goroutines alone.
LEMMA CacheStepInv == IInv /\ CacheStep => IInv'
<1> SUFFICES ASSUME IInv, CacheStep
             PROVE  IInv'
  OBVIOUS
<1>1. UNCHANGED groupVars
  BY DEF CacheStep
<1>2. InHand'
  BY <1>1 DEF IInv, InHand, groupVars
<1>3. now \in Nat /\ readNow \in Nat /\ now <= MaxTime
  BY TTLAssumption DEF IInv, TypeOK, TTLTypeOK, Time
<1> SUFFICES TTLTypeOK' /\ ReadBefore'
  BY <1>1, <1>2 DEF IInv, TypeOK, groupVars
<1> USE DEF IInv, TypeOK, TTLTypeOK, ReadBefore
<1>4. ASSUME NEW k \in Key, DeleteIfExpired(k)
      PROVE  TTLTypeOK' /\ ReadBefore'
  <2>1. pending'[k] = pending[k] - 1 /\ pending[k] \in 1 .. MaxPending
    BY <1>4, TTLAssumption DEF DeleteIfExpired
  <2>2. pending' \in [Key -> 0 .. MaxPending]
    BY <1>4, <2>1, TTLAssumption DEF DeleteIfExpired
  <2>3. cache' \in [Key -> Entry \cup {None}]
    BY <1>4 DEF DeleteIfExpired
  <2> QED BY <1>4, <2>2, <2>3 DEF DeleteIfExpired
<1>5. CASE WorkerTick
  <2>1. readNow' = now /\ now' = now
    BY <1>5 DEF WorkerTick
  <2>2. ReadBefore'
    BY <1>3, <2>1
  <2>3. TTLTypeOK'
    BY <1>5 DEF WorkerTick
  <2> QED BY <2>2, <2>3
<1>6. CASE Cleanup
  <2>1. cache' \in [Key -> Entry \cup {None}]
    BY <1>6 DEF Cleanup
  <2> QED BY <1>3, <1>6, <2>1, TTLAssumption DEF Cleanup, Time
<1>7. CASE WorkerStop
  BY <1>7 DEF WorkerStop
<1>8. CASE Tick
  BY <1>8 DEF Tick
<1>9. CASE Advance
  BY <1>3, <1>9, TTLAssumption DEF Advance, Time
<1>10. CASE Clear
  BY <1>10 DEF Clear
<1>11. ASSUME NEW k \in Key, Delete(k)
       PROVE  TTLTypeOK' /\ ReadBefore'
  BY <1>11 DEF Delete
<1>12. CASE Close
  BY <1>12 DEF Close
<1> QED BY <1>4, <1>5, <1>6, <1>7, <1>8, <1>9, <1>10, <1>11, <1>12
        DEF CacheStep, Background, CallerRemoves

\* Steps of GetWithTTL, and what the Group's cache does.
LEMMA GetStepInv ==
    ASSUME IInv, NEW p \in Proc,
           GetStep(p) \/ \E k \in Key, ttl \in TTL : Begin(p, k, ttl)
    PROVE  IInv'
<1> USE DEF IInv, TypeOK, TTLTypeOK, ReadBefore
<1>1. UNCHANGED <<now, readNow>>
  BY DEF GetStep, Begin, ReturnHit, GoOn, GroupGet, GroupFails, ReturnSet, Read,
         CheckLive, CheckExpired, ttlVars
<1>2. ASSUME NEW k \in Key, NEW ttl \in TTL, Begin(p, k, ttl)
      PROVE  IInv'
  <2>1. cache[k] # None => cache[k] \in Entry
    OBVIOUS
  <2>2. asked'[p] \in [key : Key, ttl : TTL]
        /\ asked' \in [Proc -> [key : Key, ttl : TTL] \cup {None}]
    BY <1>2 DEF Begin
  <2>3. snap' \in [Proc -> [key : Key, entry : Entry] \cup {None}]
    BY <1>2, <2>1 DEF Begin, Read, ttlVars
  <2>4. TypeOK'
    BY <1>2, <2>2, <2>3 DEF Begin, Read, Goto, ttlVars
  <2>5. InHand'
    BY <1>2, <2>2 DEF Begin, Goto, InHand
  <2> QED BY <1>1, <2>4, <2>5
<1>3. CASE ReturnHit(p)
  <2>1. TypeOK'
    BY <1>3 DEF ReturnHit, CheckLive, Leave
  <2>2. InHand'
    BY <1>3 DEF ReturnHit, Leave, InHand
  <2> QED BY <1>1, <2>1, <2>2
<1>4. CASE GoOn(p)
  <2>1. snap[p].key \in Key /\ pending[snap[p].key] < MaxPending
    BY <1>4 DEF GoOn, CheckExpired
  <2>2. pending' \in [Key -> 0 .. MaxPending]
    BY <1>4, <2>1, TTLAssumption DEF GoOn, CheckExpired
  <2>3. TypeOK'
    BY <1>4, <2>2 DEF GoOn, CheckExpired, Goto
  <2>4. InHand'
    BY <1>4 DEF GoOn, Goto, InHand
  <2> QED BY <1>1, <2>3, <2>4
<1>5. CASE GroupGet(p)
  <2> DEFINE k == asked[p].key
             v == IF mainCache[k] # None THEN mainCache[k] ELSE now
  <2>1. k \in Key
    BY <1>5 DEF GroupGet, InHand
  <2>2. v \in Time
    BY <2>1
  <2>3. /\ at[p] = "get" /\ at' = [at EXCEPT ![p] = "set"]
        /\ value' = [value EXCEPT ![p] = v] /\ mainCache' = [mainCache EXCEPT ![k] = v]
        /\ UNCHANGED <<ttlVars, asked>>
    BY <1>5 DEF GroupGet, Goto
  <2> HIDE DEF k, v
  <2>4. TypeOK'
    BY <2>1, <2>2, <2>3 DEF ttlVars
  <2>5. InHand'
    BY <2>2, <2>3 DEF InHand
  <2> QED BY <1>1, <2>4, <2>5
<1>6. CASE GroupFails(p)
  <2>1. TypeOK'
    BY <1>6 DEF GroupFails, Leave, ttlVars
  <2>2. InHand'
    BY <1>6 DEF GroupFails, Leave, InHand
  <2> QED BY <1>1, <2>1, <2>2
<1>7. CASE ReturnSet(p)
  <2>1. /\ asked[p] \in [key : Key, ttl : TTL] /\ value[p] \in Time
    BY <1>7 DEF ReturnSet, InHand
  <2>2. now + asked[p].ttl \in Nat
    <3>1. now \in Nat
      BY TTLAssumption DEF Time
    <3>2. asked[p].ttl \in Nat
      BY <2>1, TTLAssumption
    <3> QED BY <3>1, <3>2
  <2>3. cache' \in [Key -> Entry \cup {None}]
    BY <1>7, <2>1, <2>2 DEF ReturnSet, Put, Entry
  <2>4. TypeOK'
    BY <1>7, <2>3 DEF ReturnSet, Leave
  <2>5. InHand'
    BY <1>7 DEF ReturnSet, Leave, InHand
  <2> QED BY <1>1, <2>4, <2>5
<1> QED BY <1>2, <1>3, <1>4, <1>5, <1>6, <1>7 DEF GetStep

LEMMA StepInv == IInv /\ [Next]_vars => IInv'
<1> SUFFICES ASSUME IInv, [Next]_vars
             PROVE  IInv'
  OBVIOUS
<1>1. ASSUME NEW k \in Key, Evict(k)
      PROVE  IInv'
  BY <1>1 DEF Evict, IInv, TypeOK, TTLTypeOK, InHand, ReadBefore, ttlVars
<1>2. CASE UNCHANGED vars
  BY <1>2 DEF vars, ttlVars, groupVars, IInv, TypeOK, TTLTypeOK, InHand, ReadBefore
<1> QED BY <1>1, <1>2, CacheStepInv, GetStepInv DEF Next

LEMMA Inductive == Spec => []IInv
<1> QED BY InitInv, StepInv, PTL DEF Spec

\* Type correctness of TTLCache and GetWithTTL.
THEOREM TypeCorrect == Spec => []TypeOK
<1>1. IInv => TypeOK
  BY DEF IInv
<1> QED BY Inductive, <1>1, PTL

\* No step but Delete and Clear takes away an entry whose time has not come: a
\* cleanup judges by an earlier clock, under which fewer entries are expired, and
\* deleteIfExpired looks at the entry that is there now.
THEOREM LiveEntriesStay == Spec => OnlyExpiredRemoved
<1> DEFINE A == \A k \in Key : cache[k] # None /\ cache'[k] = None =>
                   Expired(cache[k], now) \/ CallerRemoves
<1>1. IInv /\ [Next]_vars => [A]_vars
  <2> SUFFICES ASSUME IInv, Next, NEW k \in Key, cache[k] # None, cache'[k] = None,
                      ~CallerRemoves
               PROVE  Expired(cache[k], now)
    OBVIOUS
  <2> USE DEF IInv, TypeOK, TTLTypeOK
  <2>1. cache[k] \in Entry /\ cache' # cache
    OBVIOUS
  <2>2. ASSUME NEW j \in Key, DeleteIfExpired(j)
        PROVE  Expired(cache[k], now)
    BY <2>2 DEF DeleteIfExpired
  <2>3. CASE Cleanup
    <3>1. Expired(cache[k], readNow)
      BY <2>3 DEF Cleanup
    <3>2. /\ readNow \in Nat /\ now \in Nat /\ readNow <= now
          /\ cache[k].expiresAt \in Nat
      BY <2>1, TTLAssumption DEF ReadBefore, Entry, Time
    <3> QED BY <3>1, <3>2 DEF Expired
  <2>4. ASSUME NEW p \in Proc, ReturnSet(p)
        PROVE  FALSE
    <3>1. /\ asked[p] \in [key : Key, ttl : TTL] /\ value[p] \in Time
      BY <2>4 DEF ReturnSet, InHand
    <3>2. now + asked[p].ttl \in Nat
      <4>1. now \in Nat /\ asked[p].ttl \in Nat
        BY <3>1, TTLAssumption DEF Time
      <4> QED BY <4>1
    <3>3. [value |-> value[p], expiresAt |-> now + asked[p].ttl] \in Entry
      BY <3>1, <3>2 DEF Entry
    <3>4. cache'[k] = cache[k] \/ cache'[k] \in Entry
      BY <2>4, <3>3 DEF ReturnSet, Put
    <3> QED BY <3>4, TTLAssumption
  <2>5. CASE cache' = cache
    BY <2>1, <2>5
  <2> QED BY <2>2, <2>3, <2>4, <2>5
          DEF Next, Begin, GetStep, ReturnHit, GoOn, GroupGet, GroupFails, Evict, Read,
              CheckLive, CheckExpired, CacheStep, Background, WorkerTick, WorkerStop,
              Tick, Advance, Close, ttlVars
<1>2. Spec => [][A]_vars
  BY <1>1, Inductive, PTL DEF Spec
<1> QED BY <1>2 DEF OnlyExpiredRemoved

=============================================================================
