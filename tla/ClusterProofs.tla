--------------------------- MODULE ClusterProofs ---------------------------
(***************************************************************************)
(* Proofs about Cluster, for every number of nodes, goroutines and faults, *)
(* all names and keys, all lists of peers and every placement of the keys: *)
(* that nodes do not wait for each other in a circle, that nobody waits in *)
(* vain, that the ring is there when it is used, and that what a forwarded *)
(* request is answered with is not another key's value.                    *)
(*                                                                         *)
(* Then, about ConsistentHash: for every set of nodes, size of the ring,   *)
(* weights and placement without collisions, that the ring depends only on *)
(* its members, that lookups find the nearest of them, and that a node     *)
(* which comes or goes moves only its own keys.                            *)
(***************************************************************************)
EXTENDS Cluster, ConsistentHash, SumTheorems, FiniteSetTheorems,
        SequenceTheorems, TLAPS

-----------------------------------------------------------------------------
(* The URL of a request. *)

Symbol == {Plus} \cup UNION {ToSet(s) : s \in Name \cup Key}

\* Escaping changes neither how long a name is nor where it has slashes.
LEMMA EscapedKeeps ==
    ASSUME NEW s \in Seq(Symbol)
    PROVE  /\ Escaped(s) \in Seq(Symbol) /\ Len(Escaped(s)) = Len(s)
           /\ s # <<>> => Escaped(s) # <<>>
           /\ Plain(s) => Plain(Escaped(s))
<1>1. Len(s) \in Nat /\ DOMAIN s = 1 .. Len(s)
  BY LenProperties
<1>2. ASSUME NEW i \in 1 .. Len(s)
      PROVE  /\ Escaped(s)[i] = IF s[i] = Space THEN Plus ELSE s[i]
             /\ Escaped(s)[i] \in Symbol
  <2>1. s[i] \in Symbol
    BY LenProperties
  <2>3. Plus \in Symbol
    BY DEF Symbol
  <2>2. Escaped(s)[i] = IF s[i] = Space THEN Plus ELSE s[i]
    <3>1. i \in DOMAIN s
      BY <1>1
    <3>2. Escaped(s) = [j \in DOMAIN s |-> IF s[j] = Space THEN Plus ELSE s[j]]
      BY Zenon DEF Escaped
    <3> QED BY <3>1, <3>2, Zenon
  <2> QED BY <2>1, <2>2, <2>3
<1>3. Escaped(s) \in [1 .. Len(s) -> Symbol]
  <2>1. Escaped(s) = [i \in 1 .. Len(s) |-> IF s[i] = Space THEN Plus ELSE s[i]]
    BY <1>1 DEF Escaped
  <2> QED BY <1>2, <2>1
<1>4. Escaped(s) \in Seq(Symbol) /\ Len(Escaped(s)) = Len(s)
  <2>1. Escaped(s) \in Seq(Symbol)
    BY <1>1, <1>3, IsASeq
  <2>2. DOMAIN Escaped(s) = 1 .. Len(s)
    BY <1>3
  <2> QED BY <1>1, <2>1, <2>2, LenProperties
<1>5. s # <<>> => Escaped(s) # <<>>
  BY <1>4, EmptySeq
<1>6. ASSUME Plain(s), NEW i \in DOMAIN Escaped(s)
      PROVE  Escaped(s)[i] # Slash
  <2>1. i \in 1 .. Len(s) /\ s[i] # Slash
    BY <1>1, <1>3, <1>6 DEF Plain
  <2> QED BY <1>2, <2>1, ClusterAssumption
<1> QED BY <1>4, <1>5, <1>6 DEF Plain

\* A set of positions has a least one, which is what Min chooses.
LEMMA LeastPosition ==
    ASSUME NEW n \in Nat, NEW I \in SUBSET (1 .. n), I # {}
    PROVE  Min(I) \in I
<1>1. PICK x \in I : \A y \in I : x =< y
  <2> DEFINE Below(x) == {y \in I : y < x}
             T == {Below(x) : x \in I}
             R == StrictSubsetOrdering(I)
  <2>0. IsFiniteSet(I)
    <3>1. 1 \in Int /\ n \in Int
      OBVIOUS
    <3>2. IsFiniteSet(1 .. n)
      BY <3>1, FS_Interval
    <3> QED BY <3>2, FS_Subset
  <2>1. IsWellFoundedOn(R, FiniteSubsetsOf(I))
    BY FS_StrictSubsetOrderingWellFounded
  <2>2. T \subseteq FiniteSubsetsOf(I)
    BY <2>0, FS_Subset DEF FiniteSubsetsOf
  <2>6. T # {}
    OBVIOUS
  <2>3. PICK A \in T : \A B \in T : ~(<<B, A>> \in R)
    <3> HIDE DEF R, T
    <3> QED BY <2>1, <2>2, <2>6, WFMin
  <2>4. PICK x \in I : A = Below(x)
    BY <2>3
  <2>5. ASSUME NEW y \in I, y < x
        PROVE  FALSE
    <3>1. Below(y) \subseteq Below(x) /\ y \in Below(x) /\ y \notin Below(y)
      <4>1. Below(y) \subseteq Below(x)
        <5> SUFFICES ASSUME NEW u \in I, u < y
                     PROVE  u < x
          OBVIOUS
        <5> QED BY <2>5
      <4>2. y \in Below(x)
        BY <2>5
      <4>3. ~(y < y)
        OBVIOUS
      <4> QED BY <4>1, <4>2, <4>3
    <3>2. <<Below(y), Below(x)>> \in R
      BY <3>1 DEF StrictSubsetOrdering
    <3> QED BY <2>3, <2>4, <3>2
  <2> QED BY <2>5
<1> QED BY <1>1 DEF Min

\* What ServeHTTP splits a path into is there in the path, and two symbols less
\* of it; without a slash there is nothing to split.
LEMMA ParsePath ==
    ASSUME NEW g \in Seq(Symbol), NEW k \in Seq(Symbol), k # <<>>,
           Parse(g \o k) # None
    PROVE  \E i \in DOMAIN Tail(g \o k) :
              /\ Tail(g \o k)[i] = Slash
              /\ Parse(g \o k).key
                    = SubSeq(Tail(g \o k), i + 1, Len(Tail(g \o k)))
              /\ Len(Parse(g \o k).name) + Len(Parse(g \o k).key)
                    < Len(g) + Len(k)
<1> DEFINE rest == Tail(g \o k)
           I == {i \in 1 .. Len(rest) : rest[i] = Slash}
           m == Min(I)
           name == SubSeq(rest, 1, m - 1)
           key == SubSeq(rest, m + 1, Len(rest))
<1>1. g \o k \in Seq(Symbol) /\ Len(g \o k) = Len(g) + Len(k) /\ g \o k # <<>>
  BY ConcatProperties, EmptySeq, LenProperties
<1>2. rest \in Seq(Symbol) /\ Len(rest) = Len(g) + Len(k) - 1
  BY <1>1, HeadTailProperties
<1>3. I # {} /\ Parse(g \o k) = [name |-> name, key |-> key]
  BY DEF Parse, SelectInSeq
<1>4. /\ Len(rest) \in Nat /\ DOMAIN rest = 1 .. Len(rest)
      /\ \A i \in 1 .. Len(rest) : rest[i] \in Symbol
  BY <1>2, LenProperties
<1>5. m \in 1 .. Len(rest) /\ rest[m] = Slash
  <2>1. I \in SUBSET (1 .. Len(rest)) /\ \A i \in I : rest[i] = Slash
    OBVIOUS
  <2> HIDE DEF I, rest
  <2> QED BY <1>3, <1>4, <2>1, LeastPosition
<1>6. Len(g) \in Nat /\ Len(k) \in Nat
  BY LenProperties
<1> HIDE DEF rest, m
<1>7. Len(name) = m - 1
  BY <1>4, <1>5, SubSeqProperties
<1>8. Len(key) = Len(rest) - m
  <2>1. /\ m + 1 \in Int /\ Len(rest) \in Int
        /\ \A i \in m + 1 .. Len(rest) : rest[i] \in Symbol
    BY <1>4, <1>5
  <2>2. Len(key) = IF m + 1 <= Len(rest) THEN Len(rest) - (m + 1) + 1 ELSE 0
    BY <2>1, SubSeqProperties
  <2>3. \A a \in Nat : \A b \in 1 .. a :
          (IF b + 1 <= a THEN a - (b + 1) + 1 ELSE 0) = a - b
    OBVIOUS
  <2> HIDE DEF key
  <2> QED BY <1>4, <1>5, <2>2, <2>3
<1>9. Len(name) + Len(key) < Len(g) + Len(k)
  <2> HIDE DEF name, key
  <2> QED BY <1>2, <1>4, <1>5, <1>6, <1>7, <1>8
<1>10. m \in DOMAIN rest /\ rest[m] = Slash
  BY <1>4, <1>5
<1>11. Parse(g \o k).name = name /\ Parse(g \o k).key = key
  <2> HIDE DEF name, key
  <2> QED BY <1>3
<1>12. Len(Parse(g \o k).name) + Len(Parse(g \o k).key) < Len(g) + Len(k)
  <2> HIDE DEF name, key
  <2> QED BY <1>9, <1>11
<1>13. Parse(g \o k).key = SubSeq(rest, m + 1, Len(rest))
  BY <1>11
<1> QED BY <1>10, <1>12, <1>13 DEF rest

LEMMA ParsePlain ==
    ASSUME NEW g \in Seq(Symbol), NEW k \in Seq(Symbol), k # <<>>,
           Plain(g), Plain(k)
    PROVE  Parse(g \o k) = None
<1> SUFFICES ASSUME Parse(g \o k) # None PROVE FALSE
  OBVIOUS
<1>1. PICK i \in DOMAIN Tail(g \o k) : Tail(g \o k)[i] = Slash
  BY ParsePath
<1>2. g \o k \in Seq(Symbol) /\ Len(g \o k) = Len(g) + Len(k) /\ g \o k # <<>>
  BY ConcatProperties, EmptySeq, LenProperties
<1>3. i + 1 \in 1 .. Len(g) + Len(k) /\ (g \o k)[i + 1] = Slash
  BY <1>1, <1>2, HeadTailProperties, LenProperties
<1>4. (g \o k)[i + 1] \in {g[j] : j \in DOMAIN g} \cup {k[j] : j \in DOMAIN k}
  BY <1>3, ConcatProperties, LenProperties
<1> QED BY <1>3, <1>4 DEF Plain

-----------------------------------------------------------------------------
(* The inductive invariant.  It has to say how the goroutines of one request *)
(* fit together, for a crash takes some of them away, and what the ring of a *)
(* node is when its group has peers.                                         *)

\* A ring was set before the group got its peers, and stays.
RingSet == \A n \in Node :
    boot[n] \in {"set", "torn", "peers", "serving"} => ring[n] # None

\* PickPeer is called on a group that has its peers, or half of the pointer.
Picking ==
    \A p \in Proc :
        at[p] = "pick" => boot[req[p].node] \in {"torn", "peers", "serving"}

\* A goroutine has a request, and may have a caller, from its first step on; the
\* request is one for a key when it gets past the head of Get; and it has a
\* node to ask when it asks.
Busy ==
    \A p \in Proc :
        /\ at[p] = "idle" => req[p] = None /\ parent[p] = None
        /\ at[p] # "idle" => req[p] \in Request
        /\ at[p] \notin {"idle", "done"} => req[p].key # <<>>
        /\ at[p] \in {"peer", "http"} => peer[p] \in Node

\* Who waits for a response has one handler, whose request is shorter.
Families ==
    /\ \A q \in Proc : parent[q] # None =>
          /\ at[parent[q]] = "http"
          /\ Left(req[q]) < Left(req[parent[q]])
    /\ \A p \in Proc : at[p] = "http" => \E q \in Proc : parent[q] = p
    /\ \A q, x \in Proc : parent[q] # None /\ parent[q] = parent[x] => q = x

\* A flight has one leader, and has one as long as anyone waits, unless its
\* leader has panicked: then it has none and gets none.
Flights ==
    /\ \A p, q \in Proc :
          at[p] \in InFn /\ at[q] \in InFn /\ req[p] = req[q] => p = q
    /\ \A p \in Proc : at[p] = "wait" =>
          \/ req[p] \in poisoned
          \/ \E q \in Proc : at[q] \in InFn /\ req[q] = req[p]
    /\ \A p \in Proc : at[p] \in InFn => req[p] \notin poisoned

\* A request without slashes is not forwarded: the leader gets an error.
Unforwarded ==
    \A p \in Proc : at[p] # "idle" /\ Plain(req[p].group) /\ Plain(req[p].key) =>
        /\ at[p] # "http"
        /\ at[p] = "replied" => got[p] = Err
        /\ at[p] = "done" => got[p] \in {Own(req[p]), Err}

Procs == Busy /\ Families /\ Flights /\ Unforwarded

IInv == TypeOK /\ RingSet /\ Picking /\ Procs

\* What a goroutine of the model is not.
LEMMA Values ==
    /\ None \notin Proc /\ None \notin Node /\ None \notin Value /\ None # Err
    /\ None \notin Request
    /\ \A S \in SUBSET Node : S # None
BY ClusterAssumption

\* Every Name and Key is a sequence of symbols.
LEMMA Symbols ==
    ASSUME NEW s \in Name \cup Key
    PROVE  s \in Seq(Symbol) /\ Len(s) \in Nat
<1> DEFINE A == UNION {ToSet(t) : t \in Name \cup Key}
<1>1. s \in Seq(Symbol)
  <2>1. s \in Seq(A)
    BY ClusterAssumption
  <2>2. A \subseteq Symbol
    BY DEF Symbol
  <2> HIDE DEF A
  <2> QED BY <2>1, <2>2
<1> QED BY <1>1, LenProperties

\* What the node that was asked makes of a request is a request too, of another
\* key or group: shorter, and only if there is a slash in the one that came.
LEMMA Forwarded ==
    ASSUME NEW p \in Proc, req[p] \in Request, req[p].key # <<>>,
           peer[p] \in Node, Handled(p) # None
    PROVE  /\ Handled(p) \in Request
           /\ Left(Handled(p)) < Left(req[p])
           /\ ~(Plain(req[p].group) /\ Plain(req[p].key))
<1> DEFINE g == req[p].group
           k == req[p].key
           to == Parse(Path(g, k))
<1>1. g \in Name /\ k \in Key \ {<<>>}
  BY DEF Request
<1>2. g \in Seq(Symbol) /\ k \in Seq(Symbol) /\ k # <<>>
  BY <1>1, Symbols
<1> DEFINE eg == Escaped(g)
           ek == Escaped(k)
<1>10. /\ eg \in Seq(Symbol) /\ ek \in Seq(Symbol) /\ ek # <<>>
       /\ Len(eg) = Len(g) /\ Len(ek) = Len(k)
       /\ Plain(g) => Plain(eg)
       /\ Plain(k) => Plain(ek)
  BY <1>2, EscapedKeeps
<1>11. to = Parse(eg \o ek)
  BY DEF Path
<1>3. /\ to # None /\ to.name \in Name
      /\ Handled(p) = [node |-> peer[p], group |-> to.name, key |-> to.key]
  BY DEF Handled
<1> HIDE DEF g, k, to
<1>4. PICK i \in DOMAIN Tail(eg \o ek) :
        /\ Tail(eg \o ek)[i] = Slash
        /\ to.key = SubSeq(Tail(eg \o ek), i + 1, Len(Tail(eg \o ek)))
        /\ Len(to.name) + Len(to.key) < Len(g) + Len(k)
  <2> HIDE DEF eg, ek
  <2> QED BY <1>3, <1>10, <1>11, ParsePath
<1>5. to.key \in Key
  BY <1>1, <1>4, ClusterAssumption
<1>6. ~(Plain(g) /\ Plain(k))
  <2> HIDE DEF eg, ek
  <2> QED BY <1>3, <1>10, <1>11, ParsePlain
<1>7. Handled(p) \in Request
  BY <1>3, <1>5 DEF Request
<1>8. Left(Handled(p)) = Len(to.name) + Len(to.key)
  BY <1>3 DEF Left
<1>9. Left(req[p]) = Len(g) + Len(k)
  BY DEF Left, g, k
<1> QED BY <1>4, <1>6, <1>7, <1>8, <1>9 DEF g, k

-----------------------------------------------------------------------------
(* Steps that move one goroutine on.                                         *)

\* A goroutine that neither begins, ends nor waits for a node goes from place
\* to place of its flight, which has it as its leader from "test" on.
LEMMA MovePreserves ==
    ASSUME TypeOK, Procs, NEW p \in Proc, NEW x \in Place,
           at[p] \in {"missed", "test", "pick", "peer", "replied"},
           x \in {"test", "wait", "pick", "local", "peer", "replied"},
           at' = [at EXCEPT ![p] = x],
           at[p] = "missed" => x = IF InFlight(req[p]) THEN "wait" ELSE "test",
           at[p] # "missed" => x \in InFn,
           UNCHANGED <<poisoned, req, parent>>,
           x = "peer" => peer'[p] \in Node,
           \A q \in Proc \ {p} : peer'[q] = peer[q] /\ got'[q] = got[q],
           x = "replied" => got'[p] = Err
    PROVE  Procs'
<1> USE DEF TypeOK
<1>1. at' \in [Proc -> Place] /\ at'[p] = x
      /\ \A q \in Proc \ {p} : at'[q] = at[q]
  OBVIOUS
<1>2. Busy'
  BY <1>1 DEF Procs, Busy
<1>3. Families'
  BY <1>1, Values DEF Procs, Families
<1>4. Flights'
  <2>1. CASE at[p] = "missed" /\ ~ InFlight(req[p])
    BY <1>1, <2>1 DEF Procs, Flights, InFn, InFlight, Leaders
  <2>2. CASE at[p] = "missed" /\ InFlight(req[p])
    <3>1. \/ req[p] \in poisoned
          \/ \E l \in Proc : at[l] \in InFn /\ req[l] = req[p]
      BY <2>2 DEF InFlight, Leaders
    <3>2. x = "wait" /\ \A l \in Proc : at[l] \in InFn => l # p
      BY <2>2 DEF InFn
    <3> QED BY <1>1, <2>2, <3>1, <3>2 DEF Procs, Flights, InFn
  <2>3. CASE at[p] # "missed"
    BY <1>1, <2>3 DEF Procs, Flights, InFn
  <2> QED BY <2>1, <2>2, <2>3
<1>5. Unforwarded'
  BY <1>1 DEF Procs, Unforwarded, Own
<1> QED BY <1>2, <1>3, <1>4, <1>5 DEF Procs

-----------------------------------------------------------------------------
(* Steps that begin or end a Get, or a flight.                               *)

\* The head of Get.
LEMMA EnterSets ==
    ASSUME TypeOK, NEW h \in Proc, NEW r \in Request, NEW q \in Proc, Enter(h, r, q)
    PROVE  /\ at' \in [Proc -> Place]
           /\ at'[h] \in {"done", "missed"}
           /\ r.key = <<>> => at'[h] = "done"
           /\ q # h => at'[q] = "http"
           /\ \A x \in Proc \ {h, q} : at'[x] = at[x]
           /\ got' \in [Proc -> Value \cup {Err, None}]
           /\ at'[h] = "done" => got'[h] \in {Own(r), Err}
           /\ \A x \in Proc \ {h} : got'[x] = got[x]
           /\ req' \in [Proc -> Request \cup {None}]
           /\ req' = [req EXCEPT ![h] = r]
<1>1. Own(r) \in Value
  BY DEF Own, Request, Value
<1>2. /\ at' \in [Proc -> Place]
      /\ at'[h] \in {"done", "missed"}
      /\ r.key = <<>> => at'[h] = "done"
      /\ q # h => at'[q] = "http"
      /\ \A x \in Proc \ {h, q} : at'[x] = at[x]
  BY DEF Enter, TypeOK, Place, InFn
<1>3. /\ got' \in [Proc -> Value \cup {Err, None}]
      /\ \A x \in Proc \ {h} : got'[x] = got[x]
  BY <1>1 DEF Enter, TypeOK
<1>4. at'[h] = "done" => got'[h] \in {Own(r), Err}
  BY DEF Enter, TypeOK
<1>5. req' \in [Proc -> Request \cup {None}] /\ req' = [req EXCEPT ![h] = r]
  BY DEF Enter, TypeOK
<1> QED BY <1>2, <1>3, <1>4, <1>5

\* A goroutine that was idle enters Get; if it is a handler, one waits for it
\* that has just sent a longer request.
LEMMA EnterPreserves ==
    ASSUME TypeOK, Procs, NEW h \in Proc, NEW r \in Request, NEW q \in Proc,
           at[h] = "idle", Enter(h, r, q),
           q = h => UNCHANGED parent,
           q # h => /\ at[q] = "peer"
                    /\ parent' = [parent EXCEPT ![h] = q]
                    /\ Left(r) < Left(req[q])
                    /\ ~(Plain(req[q].group) /\ Plain(req[q].key)),
           UNCHANGED <<peer, poisoned>>
    PROVE  Procs'
<1>1. /\ at'[h] \in {"done", "missed"}
      /\ r.key = <<>> => at'[h] = "done"
      /\ q # h => at'[q] = "http"
      /\ \A x \in Proc \ {h, q} : at'[x] = at[x]
  BY EnterSets
<1>2. /\ at'[h] = "done" => got'[h] \in {Own(r), Err}
      /\ \A x \in Proc \ {h} : got'[x] = got[x]
  BY EnterSets
<1>3. /\ req'[h] = r /\ \A x \in Proc \ {h} : req'[x] = req[x]
  BY EnterSets DEF TypeOK
<1>4. /\ parent[h] = None /\ \A x \in Proc : parent[x] # h
      /\ \A x \in Proc \ {h} : parent'[x] = parent[x]
      /\ parent'[h] = IF q = h THEN None ELSE q
      /\ \A x \in Proc : q # h => parent[x] # q
  BY Values DEF Procs, Busy, Families, TypeOK
<1>5. Busy'
  BY <1>1, <1>3, <1>4 DEF Procs, Busy
<1>6. Families'
  <2>1. CASE q = h
    <3>1. /\ UNCHANGED parent
          /\ \A x \in Proc \ {h} : at'[x] = at[x] /\ req'[x] = req[x]
          /\ at'[h] # "http"
      BY <1>1, <1>3, <2>1
    <3>2. \A x \in Proc : parent[x] # None => x # h /\ parent[x] \in Proc \ {h}
      BY <1>4, <2>1 DEF TypeOK
    <3> QED BY <3>1, <3>2 DEF Procs, Families
  <2>2. CASE q # h
    BY <1>1, <1>3, <1>4, <2>2, Values DEF Procs, Families, TypeOK
  <2> QED BY <2>1, <2>2
<1>7. Flights'
  BY <1>1, <1>3 DEF Procs, Flights, InFn
<1>8. Unforwarded'
  BY <1>1, <1>2, <1>3 DEF Procs, Unforwarded, Own
<1> QED BY <1>5, <1>6, <1>7, <1>8 DEF Procs

\* A flight ends: its leader and all who wait for it have their answer.
LEMMA EndPreserves ==
    ASSUME TypeOK, Procs, NEW p \in Proc, NEW v,
           at[p] \in {"replied", "local"}, EndFlight(p, v), UNCHANGED poisoned,
           (Plain(req[p].group) /\ Plain(req[p].key)) => v \in {Own(req[p]), Err}
    PROVE  Procs'
<1> DEFINE all == {p} \cup Waiters(req[p])
<1>1. /\ \A x \in all : at[x] \in {"wait", "replied", "local"} /\ req[x] = req[p]
      /\ all \subseteq Proc
      /\ \A x \in Proc \ all : ~(at[x] = "wait" /\ req[x] = req[p])
  BY DEF Waiters
<1>2. /\ \A x \in Proc : at'[x] = IF x \in all THEN "done" ELSE at[x]
      /\ \A x \in Proc : got'[x] = IF x \in all THEN v ELSE got[x]
      /\ UNCHANGED <<req, parent, peer>>
  BY DEF EndFlight
<1> HIDE DEF all
<1>3. Busy'
  BY <1>1, <1>2 DEF Procs, Busy
<1>4. Families'
  BY <1>1, <1>2, Values DEF Procs, Families, TypeOK
<1>5. Flights'
  <2>1. \A x \in all : at[x] \in InFn => x = p
    BY <1>1 DEF Procs, Flights, InFn
  <2>2. p \in all /\ "done" \notin InFn
    BY DEF all, InFn
  <2>3. ASSUME NEW x \in Proc, at'[x] = "wait", req[x] \notin poisoned
        PROVE  \E y \in Proc : at'[y] \in InFn /\ req'[y] = req'[x]
    <3>1. x \notin all /\ at[x] = "wait" /\ req[x] # req[p]
      BY <1>1, <1>2, <2>3
    <3>2. PICK y \in Proc : at[y] \in InFn /\ req[y] = req[x]
      BY <2>3, <3>1 DEF Procs, Flights
    <3> QED BY <1>1, <1>2, <3>1, <3>2
  <2>5. \A x \in Proc : at'[x] \in InFn => req'[x] \notin poisoned'
    BY <1>2, <2>2 DEF Procs, Flights
  <2>4. \A x, y \in Proc :
          at'[x] \in InFn /\ at'[y] \in InFn /\ req'[x] = req'[y] => x = y
    BY <1>2, <2>2 DEF Procs, Flights
  <2> QED BY <1>2, <2>3, <2>4, <2>5 DEF Flights
<1>6. Unforwarded'
  BY <1>1, <1>2 DEF Procs, Unforwarded, Own
<1> QED BY <1>3, <1>4, <1>5, <1>6 DEF Procs

\* Get returns: who waits for the response has it.
LEMMA ReturnPreserves ==
    ASSUME TypeOK, Procs, NEW p \in Proc, Return(p)
    PROVE  Procs'
<1> DEFINE q == parent[p]
<1>1. at[p] = "done" /\ q \in Proc \cup {None} /\ q # p
  <2>1. at[p] = "done" /\ q \in Proc \cup {None}
    BY DEF Return, TypeOK
  <2>2. q # None => at[q] = "http"
    BY DEF Procs, Families
  <2> QED BY <2>1, <2>2, Values
<1>2. q # None => at[q] = "http" /\ \A x \in Proc : parent[x] = q => x = p
  BY DEF Procs, Families
<1>3. /\ \A x \in Proc : at'[x] = IF x = p THEN "idle"
                                  ELSE IF x = q THEN "replied" ELSE at[x]
      /\ \A x \in Proc : got'[x] = IF x = p THEN None
                                   ELSE IF x = q THEN got[p] ELSE got[x]
      /\ \A x \in Proc : req'[x] = IF x = p THEN None ELSE req[x]
      /\ \A x \in Proc : parent'[x] = IF x = p THEN None ELSE parent[x]
      /\ \A x \in Proc : peer'[x] = IF x = p THEN None ELSE peer[x]
  BY DEF Return, TypeOK
<1>4. \A x \in Proc : parent[x] # p
  BY <1>1, Values DEF Procs, Families
<1> HIDE DEF q
<1>5. Busy'
  BY <1>1, <1>2, <1>3, Values DEF Procs, Busy
<1>6. Families'
  <2>1. \A x \in Proc : parent'[x] # None =>
          /\ x # p /\ parent'[x] = parent[x]
          /\ parent[x] \in Proc /\ parent[x] # p /\ parent[x] # q
    BY <1>2, <1>3, <1>4 DEF TypeOK
  <2>2. \A x \in Proc : at'[x] = "http" => x # p /\ x # q /\ at[x] = "http"
    BY <1>3
  <2>3. ASSUME NEW x \in Proc, at'[x] = "http"
        PROVE  \E y \in Proc : parent'[y] = x
    <3>1. PICK y \in Proc : parent[y] = x
      BY <2>2, <2>3 DEF Procs, Families
    <3> QED BY <1>3, <2>2, <2>3, <3>1 DEF q
  <2>4. \A x \in Proc : parent'[x] # None => /\ at'[parent'[x]] = "http"
                                           /\ Left(req'[x]) < Left(req'[parent'[x]])
    BY <1>3, <2>1 DEF Procs, Families
  <2>5. \A x, y \in Proc : parent'[x] # None /\ parent'[x] = parent'[y] => x = y
    BY <2>1 DEF Procs, Families
  <2> QED BY <2>3, <2>4, <2>5 DEF Families
<1>7. Flights'
  <2>1. \A x \in Proc : at'[x] \in InFn <=> at[x] \in InFn
    BY <1>1, <1>2, <1>3, Values DEF InFn
  <2>2. \A x \in Proc : at'[x] \in InFn \/ at'[x] = "wait" => req'[x] = req[x]
    BY <1>3 DEF InFn
  <2>3. \A x \in Proc : at'[x] = "wait" => at[x] = "wait"
    BY <1>3
  <2>4. ASSUME NEW x \in Proc, at'[x] = "wait"
        PROVE  \/ req'[x] \in poisoned'
               \/ \E y \in Proc : at'[y] \in InFn /\ req'[y] = req'[x]
    <3>1. UNCHANGED poisoned
      BY DEF Return, nodeVars
    <3>2. \/ req[x] \in poisoned
          \/ \E y \in Proc : at[y] \in InFn /\ req[y] = req[x]
      BY <2>3, <2>4 DEF Procs, Flights
    <3> QED BY <2>1, <2>2, <2>4, <3>1, <3>2
  <2>6. \A x \in Proc : at'[x] \in InFn => req'[x] \notin poisoned'
    BY <2>1, <2>2 DEF Procs, Flights, Return, nodeVars
  <2>5. \A x, y \in Proc :
          at'[x] \in InFn /\ at'[y] \in InFn /\ req'[x] = req'[y] => x = y
    BY <2>1, <2>2 DEF Procs, Flights
  <2> QED BY <2>4, <2>5, <2>6 DEF Flights
<1>8. Unforwarded'
  <2>1. \A x \in Proc : x = q => at[x] = "http"
    BY <1>2, Values
  <2> QED BY <1>3, <2>1 DEF Procs, Unforwarded, Own
<1> QED BY <1>5, <1>6, <1>7, <1>8 DEF Procs

-----------------------------------------------------------------------------
(* A crash takes the goroutines of a node away, a panic one of them: with    *)
(* each handler the only one its caller waits for, and with each flight that *)
(* loses its leader all who wait for it, unless it is poisoned.              *)

LEMMA LoseSets ==
    ASSUME TypeOK, NEW dead \in SUBSET Proc, Lose(dead)
    PROVE  /\ at' \in [Proc -> Place]
           /\ got' \in [Proc -> Value \cup {Err, None}]
           /\ req' \in [Proc -> Request \cup {None}]
           /\ parent' \in [Proc -> Proc \cup {None}]
           /\ peer' \in [Proc -> Node \cup {None}]
           /\ \A x \in Proc : at'[x] = "pick" =>
                 x \notin dead /\ at[x] = "pick" /\ req'[x] = req[x]
<1>1. /\ at' \in [Proc -> Place]
      /\ got' \in [Proc -> Value \cup {Err, None}]
  BY DEF Lose, TypeOK, Place, InFn
<1>2. /\ req' \in [Proc -> Request \cup {None}]
      /\ parent' \in [Proc -> Proc \cup {None}]
      /\ peer' \in [Proc -> Node \cup {None}]
  BY DEF Lose, TypeOK
<1>3. \A x \in Proc : at'[x] = "pick" =>
         x \notin dead /\ at[x] = "pick" /\ req'[x] = req[x]
  BY DEF Lose
<1> QED BY <1>1, <1>2, <1>3

LEMMA LosePreserves ==
    ASSUME TypeOK, Procs, NEW dead \in SUBSET Proc, Lose(dead),
           \A p \in dead : req[p] # None,
           \A p \in Proc \ dead :
              /\ at[p] \in InFn => req[p] \notin poisoned'
              /\ at[p] = "wait" =>
                    \/ req[p] \in poisoned'
                    \/ /\ req[p] \notin poisoned
                       /\ \A q \in dead : at[q] \in InFn => req[q] # req[p]
    PROVE  Procs'
<1> DEFINE bereft == {p \in Proc \ dead : \E h \in dead : parent[h] = p}
<1>0. PICK again \in SUBSET bereft :
      /\ at' = [p \in Proc |-> IF p \in dead THEN "idle"
                               ELSE IF p \in again THEN "peer"
                               ELSE IF p \in bereft THEN "replied" ELSE at[p]]
      /\ got' = [p \in Proc |-> IF p \in dead THEN None
                                ELSE IF p \in bereft \ again THEN Err ELSE got[p]]
  BY Zenon DEF Lose
<1>1. /\ \A p \in Proc : at'[p] = IF p \in dead THEN "idle"
                                   ELSE IF p \in again THEN "peer"
                                   ELSE IF p \in bereft THEN "replied" ELSE at[p]
      /\ \A p \in Proc : got'[p] = IF p \in dead THEN None
                             ELSE IF p \in bereft \ again THEN Err ELSE got[p]
      /\ \A p \in Proc : req'[p] = IF p \in dead THEN None ELSE req[p]
      /\ \A p \in Proc : peer'[p] = IF p \in dead THEN None ELSE peer[p]
      /\ \A p \in Proc : parent'[p] = IF p \in dead \/ parent[p] \in dead THEN None
                                       ELSE parent[p]
  <2> HIDE DEF bereft
  <2>1. /\ req' = [p \in Proc |-> IF p \in dead THEN None ELSE req[p]]
        /\ peer' = [p \in Proc |-> IF p \in dead THEN None ELSE peer[p]]
        /\ parent' = [p \in Proc |-> IF p \in dead \/ parent[p] \in dead THEN None
                                     ELSE parent[p]]
    BY Zenon DEF Lose
  <2> QED BY <1>0, <2>1
<1>2. /\ dead \subseteq Proc /\ None \notin dead /\ bereft \subseteq Proc \ dead
      /\ again \subseteq bereft
      /\ \A p \in Proc : at[p] # "idle" /\ p \notin dead => req[p] # None
  BY Values DEF Procs, Busy
<1>3. \A p \in bereft :
        /\ at[p] = "http"
        /\ \E h \in dead : parent[h] = p
        /\ \A q \in Proc : parent[q] = p => q \in dead
  BY <1>2, Values DEF Procs, Families
<1> HIDE DEF bereft
<1>5. Busy'
  <2>1. ASSUME NEW p \in Proc, p \in dead
        PROVE  at'[p] = "idle" /\ req'[p] = None /\ parent'[p] = None
    BY <1>1, <2>1
  <2>2. ASSUME NEW p \in Proc, p \notin dead, at'[p] = "idle"
        PROVE  req'[p] = None /\ parent'[p] = None
    <3>1. p \notin again /\ p \notin bereft /\ at[p] = "idle"
      BY <1>1, <1>2, <2>2
    <3> QED BY <1>1, <1>2, <2>2, <3>1 DEF Procs, Busy
  <2>3. ASSUME NEW p \in Proc, p \notin dead, at'[p] # "idle"
        PROVE  /\ req'[p] \in Request
               /\ at'[p] # "done" => req'[p].key # <<>>
               /\ at'[p] \in {"peer", "http"} => peer'[p] \in Node
    <3>1. req'[p] = req[p] /\ peer'[p] = peer[p]
      BY <1>1, <2>3
    <3>2. CASE p \in bereft
      BY <1>3, <3>1, <3>2 DEF Procs, Busy
    <3>3. CASE p \notin bereft
      <4>1. at'[p] = at[p]
        BY <1>1, <1>2, <2>3, <3>3
      <4> QED BY <2>3, <3>1, <4>1 DEF Procs, Busy
    <3> QED BY <3>2, <3>3
  <2> QED BY <2>1, <2>2, <2>3 DEF Busy
<1>6. Families'
  <2>1. ASSUME NEW q \in Proc, parent'[q] # None
        PROVE  /\ parent'[q] = parent[q] /\ parent[q] \in Proc
               /\ q \notin dead /\ parent[q] \notin dead /\ parent[q] \notin bereft
    BY <1>1, <1>3, <2>1 DEF TypeOK
  <2>2. ASSUME NEW q \in Proc, parent'[q] # None
        PROVE  /\ at'[parent'[q]] = "http"
               /\ Left(req'[q]) < Left(req'[parent'[q]])
    BY <1>1, <2>1, <2>2 DEF Procs, Families
  <2>3. ASSUME NEW p \in Proc, at'[p] = "http"
        PROVE  \E q \in Proc : parent'[q] = p
    <3>1. p \notin dead /\ p \notin bereft /\ at[p] = "http"
      BY <1>1, <2>3
    <3>2. PICK q \in Proc : parent[q] = p
      BY <3>1 DEF Procs, Families
    <3>3. q \notin dead
      BY <3>1, <3>2 DEF bereft
    <3> QED BY <1>1, <3>1, <3>2, <3>3
  <2>4. \A q, x \in Proc : parent'[q] # None /\ parent'[q] = parent'[x] => q = x
    BY <2>1 DEF Procs, Families
  <2> QED BY <2>2, <2>3, <2>4 DEF Families
<1>7. Flights'
  <2>1. \A p \in Proc : at'[p] \in InFn =>
          p \notin dead /\ at[p] \in InFn /\ req'[p] = req[p]
    BY <1>1, <1>3 DEF InFn
  <2>2. ASSUME NEW p \in Proc, at'[p] = "wait", req'[p] \notin poisoned'
        PROVE  \E q \in Proc : at'[q] \in InFn /\ req'[q] = req'[p]
    <3>1. p \notin dead /\ at[p] = "wait" /\ req'[p] = req[p]
      BY <1>1, <2>2
    <3>2. /\ req[p] \notin poisoned
          /\ \A q \in dead : at[q] \in InFn => req[q] # req[p]
      BY <2>2, <3>1
    <3>3. PICK q \in Proc : at[q] \in InFn /\ req[q] = req[p]
      BY <3>1, <3>2 DEF Procs, Flights
    <3>4. q \notin dead
      BY <3>2, <3>3
    <3> QED BY <1>1, <3>1, <3>3, <3>4 DEF InFn
  <2>4. \A p \in Proc : at'[p] \in InFn => req'[p] \notin poisoned'
    BY <2>1
  <2>3. \A p, q \in Proc :
          at'[p] \in InFn /\ at'[q] \in InFn /\ req'[p] = req'[q] => p = q
    BY <2>1 DEF Procs, Flights
  <2> QED BY <2>2, <2>3, <2>4 DEF Flights
<1>8. Unforwarded'
  <2>1. ASSUME NEW p \in Proc, at'[p] # "idle"
        PROVE  /\ p \notin dead /\ req'[p] = req[p]
               /\ p \in bereft => at[p] = "http"
               /\ p \notin bereft => at'[p] = at[p] /\ got'[p] = got[p]
    BY <1>1, <1>2, <1>3, <2>1
  <2>2. ASSUME NEW p \in Proc, at[p] = "http"
        PROVE  ~(Plain(req[p].group) /\ Plain(req[p].key))
    BY <2>2 DEF Procs, Unforwarded
  <2> QED BY <2>1, <2>2 DEF Procs, Unforwarded, Own
<1> QED BY <1>5, <1>6, <1>7, <1>8 DEF Procs

-----------------------------------------------------------------------------
(* The invariant holds in the initial states, and every step preserves it.   *)

LEMMA InitOK == Init => IInv
<1> SUFFICES ASSUME Init PROVE IInv
  OBVIOUS
<1>1. TypeOK
  BY ClusterAssumption DEF Init, TypeOK, Place
<1>2. RingSet /\ Picking
  BY DEF Init, RingSet, Picking
<1>3. Procs
  BY Values DEF Init, Procs, Busy, Families, Flights, Unforwarded, InFn
<1> QED BY <1>1, <1>2, <1>3 DEF IInv

\* What the steps of goroutines leave alone, and where they do not lead to.
LEMMA ClientGetOK ==
    ASSUME IInv, NEW p \in Client, NEW e \in Asks[p], ClientGet(p, e[1], e[2])
    PROVE  IInv'
<1> DEFINE r == [node |-> Home[p], group |-> e[1], key |-> e[2]]
<1>1. p \in Proc /\ r \in Request
  BY ClusterAssumption DEF Proc, Request, Value
<1>2. at[p] = "idle" /\ Enter(p, r, p) /\ UNCHANGED <<nodeVars, cached, parent, peer>>
  BY DEF ClientGet
<1> HIDE DEF r
<1>3. TypeOK'
  BY <1>1, <1>2, EnterSets DEF IInv, TypeOK, nodeVars
<1>4. Procs'
  BY <1>1, <1>2, EnterPreserves DEF IInv, nodeVars
<1>5. RingSet'
  BY <1>2 DEF IInv, RingSet, nodeVars
<1>6. /\ at'[p] \in {"done", "missed"}
      /\ \A x \in Proc \ {p} : at'[x] = at[x] /\ req'[x] = req[x]
  BY <1>1, <1>2, EnterSets DEF IInv, TypeOK
<1>7. Picking'
  BY <1>2, <1>6 DEF IInv, Picking, nodeVars
<1> QED BY <1>3, <1>4, <1>5, <1>7 DEF IInv

LEMMA ServedOK ==
    ASSUME IInv, NEW p \in Proc, Served(p)
    PROVE  IInv'
<1>1. PICK h \in Handler :
        /\ at[h] = "idle" /\ at[p] = "peer" /\ Handled(p) # None
        /\ Enter(h, Handled(p), p)
        /\ parent' = [parent EXCEPT ![h] = p]
        /\ UNCHANGED <<nodeVars, cached, peer>>
  BY DEF Served
<1>2. /\ h \in Proc /\ h # p
      /\ req[p] \in Request /\ req[p].key # <<>> /\ peer[p] \in Node
  BY <1>1 DEF Proc, IInv, Procs, Busy
<1>3. /\ Handled(p) \in Request
      /\ Left(Handled(p)) < Left(req[p])
      /\ ~(Plain(req[p].group) /\ Plain(req[p].key))
  BY <1>1, <1>2, Forwarded
<1> DEFINE r == Handled(p)
<1>4. r \in Request /\ Enter(h, r, p)
  BY <1>1, <1>3
<1>5. TypeOK'
  <2> HIDE DEF r
  <2> QED BY <1>1, <1>2, <1>4, EnterSets DEF IInv, TypeOK, nodeVars
<1>6. Procs'
  BY <1>1, <1>2, <1>3, EnterPreserves DEF IInv, nodeVars
<1>7. RingSet'
  BY <1>1 DEF IInv, RingSet, nodeVars
<1>8. /\ at'[h] \in {"done", "missed"} /\ at'[p] = "http"
      /\ \A x \in Proc \ {h, p} : at'[x] = at[x] /\ req'[x] = req[x]
  <2> HIDE DEF r
  <2> QED BY <1>2, <1>4, EnterSets DEF IInv, TypeOK
<1>9. Picking'
  BY <1>1, <1>8 DEF IInv, Picking, nodeVars
<1> QED BY <1>5, <1>6, <1>7, <1>9 DEF IInv

\* A step that moves p on keeps the rest of the invariant, unless it leads to
\* "pick".
LEMMA MoveOK ==
    ASSUME IInv, NEW p \in Proc, NEW x \in Place,
           at[p] \in {"missed", "test", "pick", "peer", "replied"},
           x \in {"test", "wait", "pick", "local", "peer", "replied"},
           at' = [at EXCEPT ![p] = x],
           at[p] = "missed" => x = IF InFlight(req[p]) THEN "wait" ELSE "test",
           at[p] # "missed" => x \in InFn,
           UNCHANGED <<nodeVars, cached, req, parent>>,
           peer' \in [Proc -> Node \cup {None}],
           got' \in [Proc -> Value \cup {Err, None}],
           x = "peer" => peer'[p] \in Node,
           \A q \in Proc \ {p} : peer'[q] = peer[q] /\ got'[q] = got[q],
           x = "replied" => got'[p] = Err,
           x = "pick" => boot[req[p].node] \in {"torn", "peers", "serving"}
    PROVE  IInv'
<1>1. Procs'
  BY MovePreserves DEF IInv, nodeVars
<1>2. TypeOK'
  BY DEF IInv, TypeOK, nodeVars
<1>3. RingSet'
  BY DEF IInv, RingSet, nodeVars
<1>4. Picking'
  BY DEF IInv, Picking, TypeOK, nodeVars
<1> QED BY <1>1, <1>2, <1>3, <1>4 DEF IInv

LEMMA DoOK ==
    ASSUME IInv, NEW p \in Proc, Do(p)
    PROVE  IInv'
<1> DEFINE x == IF InFlight(req[p]) THEN "wait" ELSE "test"
<1>1. /\ at[p] = "missed" /\ at' = [at EXCEPT ![p] = x]
      /\ UNCHANGED <<nodeVars, cached, req, parent, peer, got>>
  BY DEF Do, Goto
<1>2. x \in Place /\ x \in {"test", "wait"}
  BY DEF Place, InFn
<1>3. x = IF InFlight(req[p]) THEN "wait" ELSE "test"
  OBVIOUS
<1> HIDE DEF x
<1> QED BY <1>1, <1>2, <1>3, MoveOK DEF IInv, TypeOK

LEMMA TestOK ==
    ASSUME IInv, NEW p \in Proc, Test(p)
    PROVE  IInv'
<1> DEFINE x == IF boot[req[p].node] \in {"torn", "peers", "serving"}
                THEN "pick" ELSE "local"
<1>1. /\ at[p] = "test" /\ at' = [at EXCEPT ![p] = x]
      /\ UNCHANGED <<nodeVars, cached, req, parent, peer, got>>
  BY DEF Test, Goto
<1>2. /\ x \in Place /\ x \in InFn /\ x \in {"pick", "local"}
      /\ x = "pick" => boot[req[p].node] \in {"torn", "peers", "serving"}
  BY DEF Place, InFn
<1> HIDE DEF x
<1> QED BY <1>1, <1>2, MoveOK DEF IInv, TypeOK

\* A pool that is there has a ring, and what PickPeer picks from it is a node.
LEMMA PickPeerOK ==
    ASSUME IInv, NEW p \in Proc, PickPeer(p)
    PROVE  IInv'
<1> DEFINE n == req[p].node
           to == IF ring[n] = {} THEN n ELSE owner[ring[n]][req[p].key]
           x == IF to = n THEN "local" ELSE "peer"
<1>1. /\ at[p] = "pick" /\ at' = [at EXCEPT ![p] = x]
      /\ peer' = [peer EXCEPT ![p] = IF to = n THEN None ELSE to]
      /\ UNCHANGED <<nodeVars, cached, req, parent, got>>
  BY DEF PickPeer, Goto
<1>2. n \in Node /\ req[p].key \in Key /\ ring[n] # None
  BY <1>1 DEF PickPeer, PickerWorks, IInv, Procs, Busy, Request
<1>3. to \in Node
  <2>1. CASE ring[n] = {}
    BY <1>2, <2>1
  <2>2. CASE ring[n] # {}
    <3>1. ring[n] \in (SUBSET Node) \ {{}}
      BY <1>2, <2>2 DEF IInv, TypeOK
    <3>2. /\ owner \in [(SUBSET Node) \ {{}} -> [Key -> Node]]
          /\ to = owner[ring[n]][req[p].key]
      BY <1>2, <2>2, ClusterAssumption DEF IInv, TypeOK
    <3> QED BY <1>2, <3>1, <3>2
  <2> QED BY <2>1, <2>2
<1>4. x \in Place /\ x \in InFn /\ x \in {"local", "peer"} /\ (x = "peer" => to # n)
  BY <1>2 DEF Place, InFn
<1> HIDE DEF x, n, to
<1>5. /\ peer' \in [Proc -> Node \cup {None}]
      /\ x = "peer" => peer'[p] \in Node
      /\ \A q \in Proc \ {p} : peer'[q] = peer[q]
  BY <1>1, <1>3, <1>4 DEF IInv, TypeOK
<1> QED BY <1>1, <1>4, <1>5, MoveOK DEF IInv, TypeOK

LEMMA RefusedOK ==
    ASSUME IInv, NEW p \in Proc, Refused(p)
    PROVE  IInv'
<1>1. /\ at[p] = "peer" /\ at' = [at EXCEPT ![p] = "replied"]
      /\ got' = [got EXCEPT ![p] = Err]
      /\ UNCHANGED <<nodeVars, cached, req, parent, peer>>
  BY DEF Refused, Respond, Goto
<1>2. "replied" \in Place /\ "replied" \in InFn
  BY DEF Place, InFn
<1>3. /\ got' \in [Proc -> Value \cup {Err, None}] /\ got'[p] = Err
      /\ \A q \in Proc \ {p} : got'[q] = got[q]
  BY <1>1 DEF IInv, TypeOK
<1> QED BY <1>1, <1>2, <1>3, MoveOK DEF IInv, TypeOK

\* The end of a flight, whatever it does to the cache.
LEMMA EndOK ==
    ASSUME IInv, NEW p \in Proc, NEW v \in Value \cup {Err, None},
           at[p] \in {"replied", "local"}, EndFlight(p, v),
           (Plain(req[p].group) /\ Plain(req[p].key)) => v \in {Own(req[p]), Err},
           UNCHANGED nodeVars, cached' \in [Node -> SUBSET Value]
    PROVE  IInv'
<1>1. Procs'
  BY EndPreserves DEF IInv, nodeVars
<1>2. /\ at' \in [Proc -> Place] /\ got' \in [Proc -> Value \cup {Err, None}]
      /\ UNCHANGED <<req, parent, peer>>
      /\ \A q \in Proc : at'[q] = "done" \/ at'[q] = at[q]
  BY DEF EndFlight, IInv, TypeOK, Place
<1>3. TypeOK'
  BY <1>2 DEF IInv, TypeOK, nodeVars
<1>4. RingSet' /\ Picking'
  BY <1>2 DEF IInv, RingSet, Picking, nodeVars
<1> QED BY <1>1, <1>3, <1>4 DEF IInv

LEMMA RepliedOK ==
    ASSUME IInv, NEW p \in Proc, Replied(p)
    PROVE  IInv'
<1>1. at[p] = "replied" /\ UNCHANGED <<nodeVars, cached>>
  BY DEF Replied
<1>2. CASE got[p] = Err
  <2>1. at' = [at EXCEPT ![p] = "local"] /\ UNCHANGED <<req, parent, peer, got>>
    BY <1>2 DEF Replied, Goto
  <2>2. "local" \in Place /\ "local" \in InFn
    BY DEF Place, InFn
  <2> QED BY <1>1, <2>1, <2>2, MoveOK DEF IInv, TypeOK
<1>3. CASE got[p] # Err
  <2>1. EndFlight(p, got[p])
    BY <1>3 DEF Replied
  <2>2. ~(Plain(req[p].group) /\ Plain(req[p].key))
    BY <1>1, <1>3 DEF IInv, Procs, Unforwarded
  <2>3. got[p] \in Value \cup {Err, None} /\ cached' \in [Node -> SUBSET Value]
    BY <1>1 DEF IInv, TypeOK
  <2> QED BY <1>1, <2>1, <2>2, <2>3, EndOK
<1> QED BY <1>2, <1>3

LEMMA LocalOK ==
    ASSUME IInv, NEW p \in Proc, Local(p)
    PROVE  IInv'
<1>1. at[p] = "local" /\ UNCHANGED nodeVars
  BY DEF Local
<1>2. req[p].node \in Node /\ Own(req[p]) \in Value
  BY <1>1 DEF IInv, Procs, Busy, Request, Own, Value
<1>3. CASE /\ cached' = [cached EXCEPT ![req[p].node] = @ \cup {Own(req[p])}]
           /\ EndFlight(p, Own(req[p]))
  <2>1. cached' \in [Node -> SUBSET Value]
    BY <1>2, <1>3 DEF IInv, TypeOK
  <2> QED BY <1>1, <1>2, <1>3, <2>1, EndOK
<1>4. CASE EndFlight(p, Err) /\ UNCHANGED cached
  <2>1. cached' \in [Node -> SUBSET Value]
    BY <1>4 DEF IInv, TypeOK
  <2> QED BY <1>1, <1>4, <2>1, EndOK
<1> QED BY <1>3, <1>4 DEF Local

LEMMA ReturnOK ==
    ASSUME IInv, NEW p \in Proc, Return(p)
    PROVE  IInv'
<1>1. Procs'
  BY ReturnPreserves DEF IInv
<1>2. TypeOK'
  BY DEF Return, IInv, TypeOK, nodeVars, Place, InFn
<1>3. \A x \in Proc : at'[x] = "pick" => at'[x] = at[x] /\ req'[x] = req[x]
  BY DEF Return, IInv, TypeOK
<1>4. RingSet' /\ Picking'
  BY <1>3 DEF Return, IInv, RingSet, Picking, nodeVars
<1> QED BY <1>1, <1>2, <1>4 DEF IInv

\* A leader that panics leaves its flight without one, and poisons it.
LEMMA PanicOK ==
    ASSUME IInv, NEW p \in Proc, at[p] \in {"pick", "local"}, Panic(p)
    PROVE  IInv'
<1>1. /\ Lose({p}) /\ poisoned' = poisoned \cup {req[p]}
      /\ UNCHANGED <<owner, boot, ring, hung, faults, cached>>
  BY DEF Panic
<1>2. req[p] \in Request /\ req[p] # None /\ at[p] \in InFn
  BY Values DEF IInv, Procs, Busy, InFn
<1>3. ASSUME NEW q \in Proc \ {p}
      PROVE  /\ at[q] \in InFn => req[q] \notin poisoned'
             /\ at[q] = "wait" =>
                   \/ req[q] \in poisoned'
                   \/ req[q] \notin poisoned /\ req[p] # req[q]
  BY <1>1, <1>2, <1>3 DEF IInv, Procs, Flights
<1>4. Procs'
  BY <1>1, <1>2, <1>3, LosePreserves DEF IInv
<1>5. TypeOK'
  BY <1>1, <1>2, LoseSets DEF IInv, TypeOK
<1>6. RingSet'
  BY <1>1 DEF IInv, RingSet
<1>7. \A x \in Proc : at'[x] = "pick" => at[x] = "pick" /\ req'[x] = req[x]
  BY <1>1, LoseSets DEF IInv
<1>8. Picking'
  BY <1>1, <1>7 DEF IInv, Picking
<1> QED BY <1>4, <1>5, <1>6, <1>8 DEF IInv

LEMMA CrashOK ==
    ASSUME IInv, NEW n \in Node, Crash(n)
    PROVE  IInv'
<1> DEFINE dead == {p \in Proc : req[p] # None /\ req[p].node = n}
<1>1. Lose(dead) /\ poisoned' = {r \in poisoned : r.node # n} /\ dead \in SUBSET Proc
  BY DEF Crash
<1>2. \A x \in Proc : at[x] # "idle" => req[x] # None /\ req[x].node \in Node
  BY Values DEF IInv, Procs, Busy, Request
<1>3. Procs'
  <2>1. \A p \in dead : req[p] # None
    OBVIOUS
  <2>2. ASSUME NEW p \in Proc \ dead
        PROVE  /\ at[p] \in InFn => req[p] \notin poisoned'
               /\ at[p] = "wait" =>
                     \/ req[p] \in poisoned'
                     \/ /\ req[p] \notin poisoned
                        /\ \A q \in dead : at[q] \in InFn => req[q] # req[p]
    <3>1. at[p] \in InFn => req[p] \notin poisoned'
      BY <1>1, <2>2 DEF IInv, Procs, Flights
    <3>2. ASSUME at[p] = "wait"
          PROVE  req[p] # None /\ req[p].node # n
      BY <1>2, <2>2, <3>2
    <3> QED BY <1>1, <2>2, <3>1, <3>2
  <2> HIDE DEF dead
  <2> QED BY <1>1, <2>1, <2>2, LosePreserves DEF IInv
<1>4. TypeOK'
  <2>1. /\ owner' \in Owners
        /\ boot' \in [Node -> {"down", "group", "set", "torn", "peers", "serving"}]
        /\ ring' \in [Node -> (SUBSET Node) \cup {None}]
        /\ cached' \in [Node -> SUBSET Value]
        /\ poisoned' \subseteq Request
        /\ hung' \subseteq Node
    BY DEF Crash, IInv, TypeOK
  <2>2. faults' \in 0 .. MaxFaults
    BY ClusterAssumption DEF Crash, IInv, TypeOK
  <2> HIDE DEF dead
  <2> QED BY <1>1, <2>1, <2>2, LoseSets DEF IInv, TypeOK
<1>5. RingSet'
  BY DEF Crash, IInv, RingSet, TypeOK
<1>6. \A x \in Proc : at'[x] = "pick" =>
         x \notin dead /\ at[x] = "pick" /\ req'[x] = req[x]
  <2> HIDE DEF dead
  <2> QED BY <1>1, LoseSets DEF IInv
<1>7. \A m \in Node \ {n} : boot'[m] = boot[m]
  BY DEF Crash, IInv, TypeOK
<1>8. Picking'
  BY <1>2, <1>6, <1>7 DEF IInv, Picking
<1> QED BY <1>3, <1>4, <1>5, <1>8 DEF IInv

\* Steps of nodes that leave the goroutines alone.
LEMMA NodeStepOK ==
    ASSUME IInv, NEW n \in Node,
           \/ Start(n) \/ Serve(n) \/ RegisterPeers(n) \/ RegisterPeersDone(n)
           \/ Evict(n) \/ Hang(n) \/ Resume(n)
           \/ \E peers \in PeerLists[n] : Set(n, peers)
    PROVE  IInv'
<1>1. UNCHANGED procVars
  BY DEF Start, Serve, RegisterPeers, RegisterPeersDone, Evict, Hang, Resume, Set
<1>8. UNCHANGED poisoned
  BY DEF Start, Serve, RegisterPeers, RegisterPeersDone, Evict, Hang, Resume, Set, nodeVars
<1>2. Procs'
  BY <1>1, <1>8 DEF IInv, Procs, Busy, Families, Flights, Unforwarded, procVars
<1>3. CASE Start(n) \/ Serve(n) \/ RegisterPeers(n) \/ RegisterPeersDone(n)
  <2>1. TypeOK'
    BY <1>1, <1>3 DEF IInv, TypeOK, procVars, Start, Serve, RegisterPeers, RegisterPeersDone
  <2>2. RingSet'
    BY <1>3 DEF IInv, TypeOK, RingSet, Start, Serve, RegisterPeers, RegisterPeersDone
  <2>3. Picking'
    <3>1. \A p \in Proc : at[p] = "pick" => req[p].node \in Node
      BY DEF IInv, Procs, Busy, Request
    <3>2. \A m \in Node : boot[m] \in {"torn", "peers", "serving"} =>
                           boot'[m] \in {"torn", "peers", "serving"}
      BY <1>3 DEF IInv, TypeOK, Start, Serve, RegisterPeers, RegisterPeersDone
    <3> QED BY <1>1, <3>1, <3>2 DEF IInv, Picking, procVars
  <2> QED BY <1>2, <2>1, <2>2, <2>3 DEF IInv
<1>4. ASSUME NEW peers \in PeerLists[n], Set(n, peers)
      PROVE  IInv'
  <2>1. peers \in SUBSET Node
    BY ClusterAssumption
  <2>2. TypeOK'
    BY <1>1, <1>4, <2>1 DEF IInv, TypeOK, procVars, Set
  <2>3. RingSet'
    BY <1>4, <2>1, Values DEF IInv, TypeOK, RingSet, Set
  <2>4. Picking'
    BY <1>1, <1>4 DEF IInv, TypeOK, Picking, procVars, Set
  <2> QED BY <1>2, <2>2, <2>3, <2>4 DEF IInv
<1>5. CASE Evict(n)
  BY <1>1, <1>2, <1>5 DEF IInv, TypeOK, RingSet, Picking, procVars, nodeVars, Evict
<1>6. CASE Hang(n)
  <2>1. faults' \in 0 .. MaxFaults
    BY <1>6, ClusterAssumption DEF IInv, TypeOK, Hang
  <2> QED BY <1>1, <1>2, <1>6, <2>1 DEF IInv, TypeOK, RingSet, Picking, procVars, Hang
<1>7. CASE Resume(n)
  BY <1>1, <1>2, <1>7 DEF IInv, TypeOK, RingSet, Picking, procVars, Resume
<1> QED BY <1>3, <1>4, <1>5, <1>6, <1>7

LEMMA Inductive == IInv /\ [Next]_vars => IInv'
<1> SUFFICES ASSUME IInv, [Next]_vars PROVE IInv'
  OBVIOUS
<1>1. ASSUME NEW p \in Client, NEW e \in Asks[p], ClientGet(p, e[1], e[2])
      PROVE  IInv'
  BY <1>1, ClientGetOK
<1>2. ASSUME NEW p \in Proc, Step(p)
      PROVE  IInv'
  <2>1. CASE PickPanic(p) \/ GetterPanic(p)
    BY <2>1, PanicOK DEF PickPanic, GetterPanic
  <2> QED BY <1>2, <2>1, DoOK, TestOK, PickPeerOK, RefusedOK, ServedOK, RepliedOK,
             LocalOK, ReturnOK DEF Step
<1>3. ASSUME NEW n \in Node,
             \/ Start(n) \/ Serve(n) \/ RegisterPeers(n) \/ RegisterPeersDone(n)
             \/ Evict(n) \/ Hang(n) \/ Resume(n)
             \/ \E peers \in PeerLists[n] : Set(n, peers)
      PROVE  IInv'
  BY <1>3, NodeStepOK
<1>4. ASSUME NEW n \in Node, Crash(n)
      PROVE  IInv'
  BY <1>4, CrashOK
<1>5. CASE UNCHANGED vars
  BY <1>5 DEF IInv, TypeOK, RingSet, Picking, Procs, Busy, Families, Flights,
              Unforwarded, vars, nodeVars, procVars
<1> QED BY <1>1, <1>2, <1>3, <1>4, <1>5 DEF Next

-----------------------------------------------------------------------------
(* The theorems.                                                             *)

LEMMA Invariant == Spec => []IInv
<1>1. Init => IInv
  BY InitOK
<1>2. IInv /\ [Next]_vars => IInv'
  BY Inductive
<1> QED BY <1>1, <1>2, PTL DEF Spec

\* PickPeer never finds the ring nil: the order of Set and RegisterPeers in main
\* is kept on every node, crashed and started again or not.
THEOREM RingAlwaysThere == Spec => []RingIsThere
<1>1. IInv => RingIsThere
  <2> SUFFICES ASSUME IInv, NEW p \in Proc, at[p] = "pick"
               PROVE  ring[req[p].node] # None
    BY DEF RingIsThere
  <2>1. req[p].node \in Node
    BY DEF IInv, Procs, Busy, Request
  <2> QED BY <2>1 DEF IInv, Picking, RingSet
<1> QED BY <1>1, Invariant, PTL

\* The goroutines of all nodes fit together: who waits for a flight or for a
\* response has exactly one goroutine to wait for, whichever nodes crashed.
THEOREM ClusterIntact == Spec => []ClusterInv
<1>1. IInv => ClusterInv
  <2> SUFFICES ASSUME IInv PROVE SomebodyAnswers
    BY DEF IInv, ClusterInv
  <2>1. ASSUME NEW p \in Proc, at[p] \in InFn
        PROVE  Leaders(req[p]) = {p} /\ req[p] \notin poisoned
    BY <2>1 DEF IInv, Procs, Flights, Leaders
  <2>2. ASSUME NEW p \in Proc,
               (at[p] = "wait" /\ req[p] \notin poisoned) \/ at[p] = "http"
        PROVE  \E q \in Proc : WaitsFor(p, q)
    BY <2>2 DEF IInv, Procs, Flights, Families, WaitsFor
  <2>3. ASSUME NEW p \in Proc, NEW q \in Proc, NEW x \in Proc,
               WaitsFor(p, q), WaitsFor(p, x)
        PROVE  q = x
    <3>1. CASE at[p] = "wait"
      BY <2>3, <3>1 DEF IInv, Procs, Flights, WaitsFor
    <3>2. CASE at[p] = "http"
      BY <2>3, <3>2, Values DEF IInv, Procs, Families, WaitsFor
    <3> QED BY <2>3, <3>1, <3>2 DEF WaitsFor
  <2> QED BY <2>1, <2>2, <2>3 DEF SomebodyAnswers
<1> QED BY <1>1, Invariant, PTL

\* No goroutines of any nodes wait for each other in a circle, whatever their
\* lists of peers: along the chain the path of the request becomes shorter.
THEOREM WaitingDescends == Spec => []WaitsDescend
<1>1. IInv => WaitsDescend
  <2> SUFFICES ASSUME IInv, NEW p \in Proc, NEW q \in Proc, WaitsFor(p, q)
               PROVE  \/ Left(req[q]) < Left(req[p])
                      \/ at[p] = "wait" /\ at[q] # "wait" /\ req[q] = req[p]
    BY DEF WaitsDescend
  <2>1. CASE at[p] = "wait" /\ at[q] \in InFn /\ req[q] = req[p]
    BY <2>1 DEF InFn
  <2>2. CASE at[p] = "http" /\ parent[q] = p
    BY <2>2, Values DEF IInv, Procs, Families
  <2> QED BY <2>1, <2>2 DEF WaitsFor
<1> QED BY <1>1, Invariant, PTL

\* A Get of a name and a key without slashes is answered with the value of that
\* key in that group or with an error, for the request is not forwarded at all.
THEOREM OwnAnswers == Spec => []AnswersAreOwn
<1>1. IInv => AnswersAreOwn
  BY DEF IInv, Procs, Unforwarded, AnswersAreOwn
<1> QED BY <1>1, Invariant, PTL

-----------------------------------------------------------------------------
(* The ring, ConsistentHash.                                               *)

\* The first weights say how many virtual nodes there are.  SetWeight changes the
\* weight of a node that it has removed, and after it nothing is added.
Placed == \A n \in Peer : n # mu => DOMAIN hash[n] = 1 .. Virtual(n)

\* Each point is one virtual node of one member, and the member has it.
OwnerAt(x) ==
    \/ keys[x] = 0 /\ hashMap[x] = NoPeer /\ \A n \in members : At(n, x) = {}
    \/ keys[x] = 1 /\ hashMap[x] \in members /\ At(hashMap[x], x) # {}

RingIInv ==
    /\ RingTypeOK
    /\ Placed
    /\ mu \notin members
    /\ Injective => \A x \in Position : OwnerAt(x)

LEMMA VirtualNodes ==
    ASSUME RingTypeOK, NEW n \in Peer
    PROVE  /\ Virtual(n) \in Nat
           /\ Virtual(n) >= 1
<1> DEFINE w == IF weights[n] <= 0 THEN 1 ELSE weights[n]
<1>1. weights[n] \in Int
  BY DEF RingTypeOK
<1>2. w \in Nat /\ w >= 1
  BY <1>1
<1>3. Replicas \in Nat /\ Replicas >= 1
  BY RingAssumption
<1>4. Virtual(n) = Replicas * w
  BY DEF Virtual
<1> HIDE DEF w
<1>5. Replicas * w \in Nat /\ Replicas * w >= 1
  BY <1>2, <1>3
<1> QED BY <1>4, <1>5

LEMMA AtFinite ==
    ASSUME RingTypeOK, NEW n \in Peer, NEW x
    PROVE  /\ IsFiniteSet(At(n, x))
           /\ Cardinality(At(n, x)) \in Nat
           /\ Cardinality(At(n, x)) = 0 <=> At(n, x) = {}
<1>1. IsFiniteSet(1 .. Virtual(n))
  BY VirtualNodes, FS_Interval
<1>2. IsFiniteSet(At(n, x))
  BY <1>1, FS_Subset DEF At
<1> QED BY <1>2, FS_CardinalityType, FS_EmptySet

\* Without collisions a position has one virtual node at most.
LEMMA OneOwner ==
    ASSUME Injective, RingTypeOK, NEW n \in Peer, NEW o \in Peer, NEW x,
           DOMAIN hash[n] = 1 .. Virtual(n), DOMAIN hash[o] = 1 .. Virtual(o),
           At(n, x) # {}
    PROVE  /\ Cardinality(At(n, x)) = 1
           /\ At(o, x) # {} => n = o
<1>1. PICK i \in 1 .. Virtual(n) : hash[n][i] = x
  BY DEF At
<1>2. ASSUME NEW j \in 1 .. Virtual(o), hash[o][j] = x
      PROVE  n = o
  <2>1. i \in DOMAIN hash[n] /\ j \in DOMAIN hash[o] /\ hash[n][i] = hash[o][j]
    BY <1>1, <1>2
  <2> QED BY <2>1 DEF Injective
<1>3. At(n, x) = {i}
  <2>1. ASSUME NEW j \in 1 .. Virtual(n), hash[n][j] = x
        PROVE  i = j
    <3>1. i \in DOMAIN hash[n] /\ j \in DOMAIN hash[n] /\ hash[n][i] = hash[n][j]
      BY <1>1, <2>1
    <3> QED BY <3>1 DEF Injective
  <2> QED BY <1>1, <2>1 DEF At
<1> QED BY <1>2, <1>3, FS_Singleton DEF At

\* Where the virtual nodes of a node lie depends on its weight alone.
LEMMA SamePlace ==
    ASSUME UNCHANGED hash, NEW n \in Peer, weights'[n] = weights[n]
    PROVE  /\ Virtual(n)' = Virtual(n)
           /\ \A x : At(n, x)' = At(n, x)
BY DEF Virtual, At

LEMMA RingInitOK == RingInit => RingIInv
<1> SUFFICES ASSUME RingInit PROVE RingIInv
  OBVIOUS
<1> USE RingAssumption
<1>1. weights \in [Peer -> Int]
  BY DEF RingInit
<1>2. ASSUME NEW n \in Peer
      PROVE  DOMAIN hash[n] = 1 .. Virtual(n) /\ hash[n] \in Seq(Position)
  <2>1. Virtual(n) \in Nat
    <3>1. weights[n] \in Int
      BY <1>1
    <3> QED BY <3>1 DEF Virtual
  <2>2. DOMAIN hash[n] = 1 .. Virtual(n)
    BY DEF RingInit
  <2>3. hash[n] \in UNION {[1 .. Virtual(m) -> Position] : m \in Peer}
    BY DEF RingInit
  <2>4. PICK m \in Peer : hash[n] \in [1 .. Virtual(m) -> Position]
    BY <2>3
  <2>5. hash[n] \in [1 .. Virtual(n) -> Position]
    BY <2>2, <2>4
  <2> QED BY <2>1, <2>2, <2>5, IsASeq
<1>3. RingTypeOK
  BY <1>1, <1>2 DEF RingInit, RingTypeOK
<1> QED BY <1>2, <1>3 DEF RingInit, RingIInv, Placed, OwnerAt

LEMMA AddOK ==
    ASSUME RingIInv, NEW n \in Peer, n \notin members, AddWithWeight(n)
    PROVE  RingIInv'
<1> USE RingAssumption
<1>0. RingTypeOK /\ Placed /\ mu = NoPeer /\ UNCHANGED <<hash, weights, mu>>
      /\ members' = members \cup {n}
  BY DEF RingIInv, AddWithWeight
<1>1. \A m \in Peer : Virtual(m)' = Virtual(m) /\ \A x : At(m, x)' = At(m, x)
  BY <1>0, SamePlace
<1>2. \A m \in Peer : DOMAIN hash[m] = 1 .. Virtual(m)
  BY <1>0 DEF Placed
<1>3. RingTypeOK'
  <2>1. keys' \in [Position -> Nat]
    <3>1. \A x \in Position : Cardinality(At(n, x)) \in Nat /\ keys[x] \in Nat
      BY <1>0, AtFinite DEF RingTypeOK
    <3>2. keys' = [x \in Position |-> keys[x] + Cardinality(At(n, x))]
      BY DEF AddWithWeight
    <3> QED BY <3>1, <3>2
  <2>2. hashMap' \in [Position -> Peer \cup {NoPeer}]
    BY <1>0 DEF AddWithWeight, RingTypeOK
  <2> QED BY <1>0, <2>1, <2>2 DEF RingTypeOK
<1>4. Placed'
  BY <1>0, <1>1, <1>2 DEF Placed
<1>5. (mu \notin members)'
  BY <1>0 DEF RingIInv
<1>6. ASSUME Injective, NEW x \in Position
      PROVE  OwnerAt(x)'
  <2>1. OwnerAt(x) /\ members \subseteq Peer
    BY <1>6 DEF RingIInv, RingTypeOK
  <2>2. keys'[x] = keys[x] + Cardinality(At(n, x))
        /\ hashMap'[x] = IF At(n, x) # {} THEN n ELSE hashMap[x]
    BY DEF AddWithWeight
  <2>3. CASE At(n, x) = {}
    <3>1. keys'[x] = keys[x] /\ hashMap'[x] = hashMap[x]
      BY <1>0, <2>2, <2>3, FS_EmptySet DEF RingTypeOK
    <3> QED BY <1>0, <1>1, <2>1, <2>3, <3>1 DEF OwnerAt
  <2>4. CASE At(n, x) # {}
    <3>1. Cardinality(At(n, x)) = 1 /\ \A m \in members : At(m, x) = {}
      BY <1>0, <1>2, <1>6, <2>1, <2>4, OneOwner
    <3>2. keys[x] = 0
      BY <2>1, <3>1 DEF OwnerAt
    <3> QED BY <1>0, <1>1, <2>2, <2>4, <3>1, <3>2 DEF OwnerAt
  <2> QED BY <2>3, <2>4
<1>7. Injective' => Injective
  BY <1>0 DEF Injective
<1> QED BY <1>3, <1>4, <1>5, <1>6, <1>7 DEF RingIInv

\* The points of a removed node leave the ring, and no others.
LEMMA RemoveKeyOK ==
    ASSUME RingIInv, mu = NoPeer, NEW n \in Peer, RemoveKey(n)
    PROVE  /\ keys' \in [Position -> Nat]
           /\ hashMap' \in [Position -> Peer \cup {NoPeer}]
           /\ Injective => \A x \in Position :
                 IF hashMap[x] = n
                 THEN keys[x] = 1 /\ keys'[x] = 0 /\ hashMap'[x] = NoPeer
                      /\ \A m \in members \ {n} : At(m, x) = {}
                 ELSE keys'[x] = keys[x] /\ hashMap'[x] = hashMap[x]
<1> USE RingAssumption
<1>0. RingTypeOK /\ Placed
  BY DEF RingIInv
<1>1. \A m \in Peer : DOMAIN hash[m] = 1 .. Virtual(m)
  BY <1>0 DEF Placed
<1>2. \A x \in Position : Cardinality(At(n, x)) \in Nat /\ keys[x] \in Nat
  BY <1>0, AtFinite DEF RingTypeOK
<1>3. keys' \in [Position -> Nat]
  BY <1>2 DEF RemoveKey
<1>4. hashMap' \in [Position -> Peer \cup {NoPeer}]
  BY <1>0 DEF RemoveKey, RingTypeOK
<1>5. ASSUME Injective, NEW x \in Position
      PROVE  IF hashMap[x] = n
             THEN keys[x] = 1 /\ keys'[x] = 0 /\ hashMap'[x] = NoPeer
                  /\ \A m \in members \ {n} : At(m, x) = {}
             ELSE keys'[x] = keys[x] /\ hashMap'[x] = hashMap[x]
  <2> DEFINE c == Cardinality(At(n, x))
  <2>1. OwnerAt(x) /\ members \subseteq Peer
    BY <1>5 DEF RingIInv, RingTypeOK
  <2>2. keys'[x] = IF keys[x] > c THEN keys[x] - c ELSE 0
    BY DEF RemoveKey
  <2>3. hashMap'[x] = IF At(n, x) # {} /\ keys[x] > 0 THEN NoPeer ELSE hashMap[x]
    BY DEF RemoveKey
  <2>4. c = IF At(n, x) = {} THEN 0 ELSE 1
    BY <1>0, <1>1, <1>5, OneOwner, FS_EmptySet
  <2>5. At(n, x) # {} => \A m \in Peer \ {n} : At(m, x) = {}
    BY <1>0, <1>1, <1>5, OneOwner
  <2> HIDE DEF c
  <2>6. CASE hashMap[x] = n
    <3>1. keys[x] = 1 /\ At(n, x) # {}
      BY <2>1, <2>6 DEF OwnerAt
    <3> QED BY <2>1, <2>2, <2>3, <2>4, <2>5, <2>6, <3>1
  <2>7. CASE hashMap[x] # n
    <3>1. CASE At(n, x) = {}
      <4>1. c = 0 /\ keys[x] \in Nat
        BY <1>2, <2>4, <3>1
      <4> QED BY <2>2, <2>3, <2>7, <3>1, <4>1
    <3>2. CASE At(n, x) # {}
      <4>1. keys[x] = 0
        BY <2>1, <2>5, <2>7, <3>2 DEF OwnerAt
      <4> QED BY <2>2, <2>3, <2>4, <2>7, <3>2, <4>1
    <3> QED BY <3>1, <3>2
  <2> QED BY <2>6, <2>7
<1> QED BY <1>3, <1>4, <1>5

\* Remove, and SetWeight up to where it waits for itself.
LEMMA RemoveOK ==
    ASSUME RingIInv, NEW n \in Peer, mu = NoPeer, RemoveKey(n),
           members' = members \ {n}, UNCHANGED hash,
           mu' \in {n, NoPeer}, weights' \in [Peer -> Int],
           \A m \in Peer : m # mu' => weights'[m] = weights[m]
    PROVE  RingIInv'
<1> USE RingAssumption
<1>0. RingTypeOK /\ Placed /\ mu \notin members
  BY DEF RingIInv
<1>1. \A m \in Peer : m # mu' =>
          Virtual(m)' = Virtual(m) /\ \A x : At(m, x)' = At(m, x)
  BY SamePlace
<1>2. keys' \in [Position -> Nat] /\ hashMap' \in [Position -> Peer \cup {NoPeer}]
  BY RemoveKeyOK
<1>3. RingTypeOK'
  BY <1>0, <1>2 DEF RingTypeOK
<1>4. Placed'
  BY <1>0, <1>1 DEF Placed
<1>5. (mu \notin members)'
  BY <1>0 DEF RingTypeOK
<1>6. ASSUME Injective, NEW x \in Position
      PROVE  OwnerAt(x)'
  <2>1. OwnerAt(x) /\ members \subseteq Peer
    BY <1>6 DEF RingIInv, RingTypeOK
  <2>2. IF hashMap[x] = n
        THEN keys[x] = 1 /\ keys'[x] = 0 /\ hashMap'[x] = NoPeer
             /\ \A m \in members \ {n} : At(m, x) = {}
        ELSE keys'[x] = keys[x] /\ hashMap'[x] = hashMap[x]
    BY <1>6, RemoveKeyOK
  <2>3. \A m \in members' : At(m, x)' = At(m, x)
    BY <1>1, <1>5, <2>1
  <2> QED BY <2>1, <2>2, <2>3 DEF OwnerAt
<1>7. Injective' => Injective
  BY DEF Injective
<1> QED BY <1>3, <1>4, <1>5, <1>6, <1>7 DEF RingIInv

LEMMA RingInductive == RingIInv /\ [RingNext]_ringVars => RingIInv'
<1> SUFFICES ASSUME RingIInv, [RingNext]_ringVars PROVE RingIInv'
  OBVIOUS
<1>1. ASSUME NEW n \in Peer, n \notin members, AddWithWeight(n)
      PROVE  RingIInv'
  BY <1>1, AddOK
<1>2. ASSUME NEW n \in Peer, RemovePeer(n)
      PROVE  RingIInv'
  BY <1>2, RemoveOK DEF RemovePeer, RingIInv, RingTypeOK
<1>3. ASSUME NEW n \in Peer, NEW w \in NewWeights, SetWeight(n, w)
      PROVE  RingIInv'
  <2>1. w \in Int /\ weights \in [Peer -> Int]
    BY RingAssumption DEF RingIInv, RingTypeOK
  <2> QED BY <1>3, <2>1, RemoveOK DEF SetWeight
<1>4. CASE UNCHANGED ringVars
  <2>1. UNCHANGED <<hash, weights, keys, hashMap, mu, members>>
    BY <1>4 DEF ringVars
  <2>2. RingTypeOK' /\ Placed' /\ (mu \notin members)'
    BY <2>1 DEF RingIInv, RingTypeOK, Placed, Virtual
  <2>3. Injective' => \A x \in Position : OwnerAt(x)'
    BY <2>1 DEF RingIInv, Injective, OwnerAt, At, Virtual
  <2> QED BY <2>2, <2>3 DEF RingIInv
<1> QED BY <1>1, <1>2, <1>3, <1>4 DEF RingNext

\* The inductive invariant says what RingInv does.
LEMMA RingIntact == RingIInv => RingInv
<1> SUFFICES ASSUME RingIInv, Injective, NEW x \in Position
             PROVE  /\ keys[x] = Cardinality({n \in members : At(n, x) # {}})
                    /\ hashMap[x] = IF keys[x] = 0 THEN NoPeer
                                    ELSE CHOOSE n \in members : At(n, x) # {}
  BY DEF RingIInv, RingInv
<1> DEFINE owners == {n \in members : At(n, x) # {}}
<1>1. OwnerAt(x) /\ RingTypeOK /\ members \subseteq Peer
      /\ \A n \in members : DOMAIN hash[n] = 1 .. Virtual(n)
  BY DEF RingIInv, RingTypeOK, Placed
<1>2. CASE keys[x] = 0
  <2>1. owners = {} /\ hashMap[x] = NoPeer
    BY <1>1, <1>2 DEF OwnerAt
  <2> QED BY <1>2, <2>1, FS_EmptySet
<1>3. CASE keys[x] # 0
  <2>1. keys[x] = 1 /\ hashMap[x] \in members /\ At(hashMap[x], x) # {}
    BY <1>1, <1>3 DEF OwnerAt
  <2>2. \A n \in members : At(n, x) # {} => n = hashMap[x]
    BY <1>1, <2>1, OneOwner
  <2>3. owners = {hashMap[x]}
    BY <2>1, <2>2
  <2> QED BY <1>3, <2>1, <2>2, <2>3, FS_Singleton
<1> QED BY <1>2, <1>3

LEMMA RingInvariant == RingSpec => []RingIInv
BY RingInitOK, RingInductive, PTL DEF RingSpec

\* The ring depends only on its members, whatever was added and removed and in
\* whatever order.
THEOREM RingOfMembers == RingSpec => []RingInv
BY RingInvariant, RingIntact, PTL

-----------------------------------------------------------------------------
(* Lookups.                                                                *)

\* The distances round the ring from x tell the positions apart, and every
\* position is that many steps ahead.
LEMMA Distances ==
    ASSUME NEW x \in Position, NEW y \in Position
    PROVE  /\ Distance(x, y) \in 0 .. Size - 1
           /\ Ahead(x, Distance(x, y)) = y
           /\ \A z \in Position : Distance(x, y) = Distance(x, z) => y = z
BY RingAssumption DEF Position, Distance, Ahead

LEMMA Steps ==
    ASSUME NEW x \in Position, NEW i \in 0 .. Size - 1
    PROVE  /\ Ahead(x, i) \in Position
           /\ Distance(x, Ahead(x, i)) = i
BY RingAssumption DEF Position, Distance, Ahead

\* The binary search with the wrap-around finds the nearest point.
LEMMA SearchNearest ==
    ASSUME NEW R \in SUBSET Position, R # {}, NEW x \in Position
    PROVE  /\ Search(R, x) \in R
           /\ \A z \in R : Distance(x, Search(R, x)) <= Distance(x, z)
<1> DEFINE above == {y \in R : y >= x}
<1>1. \A y \in Position : y \in Nat /\ y < Size
  BY RingAssumption DEF Position
<1>2. ASSUME NEW S \in SUBSET R, S # {}
      PROVE  \E y \in S : \A z \in S : y <= z
  BY <1>1, <1>2, LeastNumber
<1>3. CASE above # {}
  <2> DEFINE s == Search(R, x)
  <2>1. PICK y \in above : \A z \in above : y <= z
    BY <1>2, <1>3
  <2>2. y \in R /\ y >= x /\ \A z \in R : z >= x => y <= z
    BY <2>1
  <2>3. s \in R /\ s >= x /\ \A z \in R : z >= x => s <= z
    BY <2>2 DEF Search
  <2> HIDE DEF above, s
  <2>4. s \in Nat /\ x \in Nat /\ x < Size /\ s < Size /\ Size \in Nat
    BY <1>1, <2>3, RingAssumption
  <2>5. \A z \in R : Distance(x, s) <= Distance(x, z)
    BY <1>1, <2>3, <2>4 DEF Distance
  <2> QED BY <2>3, <2>5 DEF s
<1>4. CASE above = {}
  <2> DEFINE s == Search(R, x)
  <2>1. \A y \in R : ~ (y >= x)
    BY <1>4
  <2>2. \E y \in R : \A z \in R : y <= z
    BY <1>2
  <2>3. s \in R /\ \A z \in R : s <= z
    BY <2>1, <2>2 DEF Search
  <2> HIDE DEF above, s
  <2>4. s \in Nat /\ x \in Nat /\ x < Size /\ s < Size /\ Size \in Nat
    BY <1>1, <2>3, RingAssumption
  <2>5. \A z \in R : Distance(x, s) <= Distance(x, z)
    BY <1>1, <2>1, <2>3, <2>4 DEF Distance
  <2> QED BY <2>3, <2>5 DEF s
<1> QED BY <1>3, <1>4

LEMMA SearchOnly ==
    ASSUME NEW R \in SUBSET Position, NEW x \in Position, NEW y \in R,
           \A z \in R : Distance(x, y) <= Distance(x, z)
    PROVE  Search(R, x) = y
<1>1. Search(R, x) \in R /\ Distance(x, Search(R, x)) <= Distance(x, y)
  BY SearchNearest
<1>2. Distance(x, y) <= Distance(x, Search(R, x))
  BY <1>1
<1>3. Distance(x, y) \in Int /\ Distance(x, Search(R, x)) \in Int
  BY <1>1, Distances, RingAssumption
<1> QED BY <1>1, <1>2, <1>3, Distances

\* What the points of the ring are, and that every member has one.
LEMMA Points ==
    ASSUME RingIInv, Injective
    PROVE  /\ Ring \subseteq Position
           /\ \A y \in Ring : hashMap[y] \in members /\ At(hashMap[y], y) # {}
           /\ \A n \in members, y \in Position :
                 At(n, y) # {} => y \in Ring /\ hashMap[y] = n
           /\ \A n \in members : \E y \in Position : At(n, y) # {}
<1>0. RingTypeOK /\ members \subseteq Peer
      /\ \A n \in members : DOMAIN hash[n] = 1 .. Virtual(n)
  BY DEF RingIInv, RingTypeOK, Placed
<1>1. \A y \in Position : OwnerAt(y)
  BY DEF RingIInv
<1>2. ASSUME NEW y \in Ring
      PROVE  hashMap[y] \in members /\ At(hashMap[y], y) # {}
  BY <1>1 DEF Ring, OwnerAt
<1>3. ASSUME NEW n \in members, NEW y \in Position, At(n, y) # {}
      PROVE  y \in Ring /\ hashMap[y] = n
  <2>1. keys[y] = 1 /\ hashMap[y] \in members /\ At(hashMap[y], y) # {}
    BY <1>1, <1>3 DEF OwnerAt
  <2>2. hashMap[y] = n
    BY <1>0, <1>3, <2>1, OneOwner
  <2> QED BY <2>1, <2>2 DEF Ring
<1>4. ASSUME NEW n \in members
      PROVE  \E y \in Position : At(n, y) # {}
  <2>1. n \in Peer /\ 1 \in 1 .. Virtual(n)
    BY <1>0, VirtualNodes
  <2>2. hash[n] \in Seq(Position) /\ 1 \in DOMAIN hash[n]
    BY <1>0, <2>1 DEF RingTypeOK
  <2>3. hash[n][1] \in Position
    BY <2>2, ElementOfSeq
  <2>4. 1 \in At(n, hash[n][1])
    BY <2>1 DEF At
  <2> QED BY <2>3, <2>4
<1> QED BY <1>2, <1>3, <1>4 DEF Ring

LEMMA Nearest == RingIInv => NearestMember
<1> SUFFICES ASSUME RingIInv, Injective, members # {}, NEW x \in Position
             PROVE  \E n \in members, y \in Position :
                       /\ Get(x) = n
                       /\ At(n, y) # {}
                       /\ \A o \in members, z \in Position :
                             At(o, z) # {} => Distance(x, y) <= Distance(x, z)
  BY DEF NearestMember
<1> DEFINE y == Search(Ring, x)
<1>1. Ring # {} /\ Ring \in SUBSET Position
  BY Points
<1>2. y \in Ring /\ \A z \in Ring : Distance(x, y) <= Distance(x, z)
  BY <1>1, SearchNearest
<1>3. Get(x) = hashMap[y]
  BY <1>1 DEF Get
<1> HIDE DEF y
<1>4. hashMap[y] \in members /\ At(hashMap[y], y) # {} /\ y \in Position
  BY <1>1, <1>2, Points
<1>5. \A o \in members, z \in Position :
         At(o, z) # {} => Distance(x, y) <= Distance(x, z)
  BY <1>2, Points
<1> QED BY <1>3, <1>4, <1>5

\* A node that joins takes the keys whose nearest point is its own now.
LEMMA JoinMovesOnly ==
    ASSUME RingIInv, Injective, NEW n \in Peer, n \notin members,
           AddWithWeight(n), NEW x \in Position
    PROVE  Get(x)' \in {Get(x), n}
<1> DEFINE before == Ring
           after == Ring'
           s == Search(after, x)
<1>1. RingTypeOK /\ before \in SUBSET Position
  BY DEF RingIInv, Ring
<1>2. keys' = [y \in Position |-> keys[y] + Cardinality(At(n, y))]
      /\ hashMap' = [y \in Position |-> IF At(n, y) # {} THEN n ELSE hashMap[y]]
  BY DEF AddWithWeight
<1>3. \A y \in Position : keys[y] \in Nat /\ Cardinality(At(n, y)) \in Nat
         /\ (Cardinality(At(n, y)) = 0 <=> At(n, y) = {})
  BY <1>1, AtFinite DEF RingTypeOK
<1>4. after = before \cup {y \in Position : At(n, y) # {}}
  BY <1>2, <1>3 DEF Ring
<1>5. Get(x)' = IF after = {} THEN NoPeer ELSE hashMap'[s]
  BY DEF Get
<1>6. Get(x) = IF before = {} THEN NoPeer ELSE hashMap[Search(before, x)]
  BY DEF Get
<1> HIDE DEF before, after
<1>7. CASE after = {}
  BY <1>4, <1>5, <1>6, <1>7
<1>8. CASE after # {}
  <2>1. after \in SUBSET Position
    BY <1>1, <1>4
  <2>2. s \in after /\ \A z \in after : Distance(x, s) <= Distance(x, z)
    BY <1>8, <2>1, SearchNearest
  <2> HIDE DEF s
  <2>3. CASE At(n, s) # {}
    BY <1>2, <1>5, <1>8, <2>1, <2>2, <2>3
  <2>4. CASE At(n, s) = {}
    <3>1. s \in before /\ hashMap'[s] = hashMap[s]
      BY <1>2, <1>4, <2>1, <2>2, <2>4
    <3>2. Search(before, x) = s
      BY <1>1, <1>4, <2>2, <3>1, SearchOnly
    <3> QED BY <1>5, <1>6, <1>8, <3>1, <3>2
  <2> QED BY <2>3, <2>4
<1> QED BY <1>7, <1>8

\* A node that leaves gives up its keys, and nobody else's move.
LEMMA LeaveMovesOnly ==
    ASSUME RingIInv, Injective, NEW n \in members, mu = NoPeer, RemoveKey(n),
           NEW x \in Position
    PROVE  Get(x)' # n /\ (Get(x) # n => Get(x)' = Get(x))
<1> DEFINE before == Ring
           after == Ring'
           s == Search(after, x)
           t == Search(before, x)
<1>1. RingTypeOK /\ before \in SUBSET Position /\ n \in Peer /\ n # NoPeer
  BY RingAssumption DEF RingIInv, RingTypeOK, Ring
<1>2. \A y \in Position : IF hashMap[y] = n
         THEN keys[y] = 1 /\ keys'[y] = 0
         ELSE keys'[y] = keys[y] /\ hashMap'[y] = hashMap[y]
  BY <1>1, RemoveKeyOK
<1>3. after = {y \in before : hashMap[y] # n}
  BY <1>2 DEF Ring
<1>4. Get(x)' = IF after = {} THEN NoPeer ELSE hashMap'[s]
  BY DEF Get
<1>5. Get(x) = IF before = {} THEN NoPeer ELSE hashMap[t]
  BY DEF Get
<1> HIDE DEF before, after
<1>6. Get(x)' # n
  <2>1. CASE after = {}
    BY <1>1, <1>4, <2>1
  <2>2. CASE after # {}
    <3>1. s \in after
      BY <1>1, <1>3, <2>2, SearchNearest
    <3> HIDE DEF s
    <3> QED BY <1>1, <1>2, <1>3, <1>4, <2>2, <3>1
  <2> QED BY <2>1, <2>2
<1>7. ASSUME Get(x) # n
      PROVE  Get(x)' = Get(x)
  <2>1. CASE before = {}
    BY <1>3, <1>4, <1>5, <2>1
  <2>2. CASE before # {}
    <3>1. t \in before /\ \A z \in before : Distance(x, t) <= Distance(x, z)
      BY <1>1, <2>2, SearchNearest
    <3> HIDE DEF t
    <3>2. hashMap[t] # n
      BY <1>5, <1>7, <2>2
    <3>3. t \in after /\ hashMap'[t] = hashMap[t]
      BY <1>1, <1>2, <1>3, <3>1, <3>2
    <3>4. s = t
      BY <1>1, <1>3, <3>1, <3>3, SearchOnly
    <3> HIDE DEF s
    <3> QED BY <1>4, <1>5, <2>2, <3>3, <3>4
  <2> QED BY <2>1, <2>2
<1> QED BY <1>6, <1>7

LEMMA StepMovesOnly ==
    ASSUME RingIInv, Injective, RingNext
    PROVE  KeysMoveOnly
<1> USE DEF KeysMoveOnly
<1>1. ASSUME NEW n \in Peer, n \notin members, AddWithWeight(n)
      PROVE  KeysMoveOnly
  <2>1. members' = members \cup {n}
    BY <1>1 DEF AddWithWeight
  <2>2. \A m : (m \in members' \ members => m = n)
            /\ ~ (m \in members \ members')
    BY <2>1
  <2> QED BY <1>1, <2>2, JoinMovesOnly
<1>2. ASSUME NEW n \in Peer, mu = NoPeer, RemoveKey(n), members' = members \ {n}
      PROVE  KeysMoveOnly
  <2>1. \A m : (m \in members \ members' => m = n /\ n \in members)
            /\ ~ (m \in members' \ members)
    BY <1>2
  <2> QED BY <1>2, <2>1, LeaveMovesOnly
<1> QED BY <1>1, <1>2 DEF RingNext, RemovePeer, SetWeight

\* A node that joins or leaves moves only the keys it gets or had.
THEOREM LittleMoves == RingSpec => MinimalDisruption
<1>1. RingIInv /\ [RingNext]_ringVars => [Injective => KeysMoveOnly]_ringVars
  BY StepMovesOnly
<1> QED BY <1>1, RingInvariant, PTL DEF RingSpec, MinimalDisruption

-----------------------------------------------------------------------------
(* The walk of GetMultiple.                                                *)

\* One step of the walk, and the walk as far as n.
Met(result, y, count) ==
    IF y \in Ring /\ Len(result) < count /\ ~ Contains(result, hashMap[y])
    THEN Append(result, hashMap[y])
    ELSE result

Walk(met, x, count, n) ==
    met = [i \in 0 .. n |->
             IF i = 0 THEN <<>> ELSE Met(met[i - 1], Ahead(x, i - 1), count)]

LEMMA WalkExists ==
    ASSUME NEW x, NEW count, NEW n \in Nat
    PROVE  \E met : Walk(met, x, count, n)
<1> DEFINE S == {i \in Nat : \E met : Walk(met, x, count, i)}
<1>1. 0 \in S
  <2>1. Walk([i \in 0 .. 0 |-> <<>>], x, count, 0)
    BY DEF Walk
  <2> QED BY <2>1
<1>2. ASSUME NEW i \in Nat, i \in S
      PROVE  i + 1 \in S
  <2>1. PICK met : Walk(met, x, count, i)
    BY <1>2
  <2> DEFINE more == [j \in 0 .. i + 1 |->
                        IF j <= i THEN met[j] ELSE Met(met[i], Ahead(x, i), count)]
  <2>2. ASSUME NEW j \in 0 .. i + 1
        PROVE  more[j] = IF j = 0 THEN <<>>
                         ELSE Met(more[j - 1], Ahead(x, j - 1), count)
    <3>1. CASE j <= i
      <4>1. more[j] = met[j] /\ (j # 0 => more[j - 1] = met[j - 1])
        BY <3>1
      <4>2. met[j] = IF j = 0 THEN <<>> ELSE Met(met[j - 1], Ahead(x, j - 1), count)
        BY <2>1, <3>1 DEF Walk
      <4> QED BY <4>1, <4>2
    <3>2. CASE ~ (j <= i)
      <4>1. j = i + 1 /\ j - 1 = i /\ j # 0
        BY <3>2
      <4>2. more[j] = Met(met[i], Ahead(x, i), count) /\ more[i] = met[i]
        BY <3>2
      <4> QED BY <4>1, <4>2
    <3> QED BY <3>1, <3>2
  <2>3. more = [j \in 0 .. i + 1 |-> IF j = 0 THEN <<>>
                   ELSE Met(more[j - 1], Ahead(x, j - 1), count)]
    BY <2>2
  <2>4. Walk(more, x, count, i + 1)
    BY <2>3 DEF Walk
  <2> QED BY <2>4
<1> HIDE DEF S
<1>3. Nat \subseteq S
  BY <1>1, <1>2, NumberInduction
<1> QED BY <1>3 DEF S

LEMMA WalkStep ==
    ASSUME NEW x, NEW count
    PROVE  \E met : /\ GetMultiple(x, count) = met[Size]
                    /\ met[0] = <<>>
                    /\ \A i \in 1 .. Size :
                          met[i] = Met(met[i - 1], Ahead(x, i - 1), count)
<1>1. Size \in Nat
  BY RingAssumption
<1> DEFINE met == CHOOSE met : Walk(met, x, count, Size)
<1>2. Walk(met, x, count, Size)
  BY <1>1, WalkExists
<1>3. GetMultiple(x, count) = met[Size]
  BY DEF GetMultiple, Walk, Met
<1> HIDE DEF met
<1>4. met[0] = <<>> /\ \A i \in 1 .. Size :
          met[i] = Met(met[i - 1], Ahead(x, i - 1), count)
  BY <1>1, <1>2 DEF Walk
<1> QED BY <1>3, <1>4

\* What the walk has found after i positions: different members, the first of
\* them the one Get finds; and unless it has found enough, all it has met.
Found(result, x, count, i) ==
    /\ result \in Seq(members)
    /\ Len(result) <= count
    /\ \A j, k \in 1 .. Len(result) : result[j] = result[k] => j = k
    /\ \/ Len(result) = 0
       \/ Len(result) >= 1 /\ result[1] = Get(x)
    /\ \/ Len(result) = count
       \/ \A j \in 0 .. i - 1 : Ahead(x, j) \in Ring =>
             \E k \in 1 .. Len(result) : result[k] = hashMap[Ahead(x, j)]

LEMMA FoundStep ==
    ASSUME RingIInv, Injective, NEW x \in Position, NEW count \in Nat, count >= 1,
           NEW i \in 0 .. Size - 1, NEW r, Found(r, x, count, i)
    PROVE  Found(Met(r, Ahead(x, i), count), x, count, i + 1)
<1> DEFINE y == Ahead(x, i)
           h == hashMap[y]
           t == Append(r, h)
<1>0. Size \in Nat /\ i \in Nat
  BY RingAssumption
<1>1. r \in Seq(members) /\ Len(r) \in Nat /\ Len(r) <= count
  BY DEF Found
<1>2. CASE y \in Ring /\ Len(r) < count /\ ~ Contains(r, h)
  <2>1. Met(r, y, count) = t
    BY <1>2 DEF Met
  <2>2. h \in members /\ Ring \subseteq Position
    BY <1>2, Points
  <2>3. \A k \in 1 .. Len(r) : r[k] # h
    BY <1>2 DEF Contains
  <2>4. /\ t \in Seq(members)
        /\ Len(t) = Len(r) + 1
        /\ \A k \in 1 .. Len(r) : t[k] = r[k]
        /\ t[Len(r) + 1] = h
    BY <1>1, <2>2, AppendProperties
  <2>5. ASSUME Len(r) = 0
        PROVE  Get(x) = h
    <3>1. \A j \in 0 .. i - 1 : Ahead(x, j) \notin Ring
      BY <1>2, <2>5 DEF Found
    <3>2. ASSUME NEW z \in Ring
          PROVE  Distance(x, y) <= Distance(x, z)
      <4>1. z \in Position /\ Distance(x, z) \in 0 .. Size - 1
            /\ Ahead(x, Distance(x, z)) = z
        BY <2>2, Distances
      <4>2. ~ (Distance(x, z) \in 0 .. i - 1)
        BY <3>1, <4>1
      <4>3. Distance(x, y) = i
        BY Steps
      <4> QED BY <1>0, <4>1, <4>2, <4>3
    <3>3. Search(Ring, x) = y
      BY <1>2, <2>2, <3>2, SearchOnly
    <3>4. Get(x) = h
      BY <1>2, <3>3 DEF Get
    <3> QED BY <3>4
  <2> HIDE DEF t, h, y
  <2>6. Len(t) >= 1 /\ t[1] = Get(x)
    <3>1. CASE Len(r) # 0
      <4>1. Len(r) >= 1 /\ r[1] = Get(x)
        BY <1>1, <3>1 DEF Found
      <4>2. 1 \in 1 .. Len(r)
        BY <1>1, <4>1
      <4>3. t[1] = r[1]
        BY <2>4, <4>2
      <4> QED BY <1>1, <2>4, <4>1, <4>3
    <3>2. CASE Len(r) = 0
      <4>1. t[1] = h
        BY <2>4, <3>2
      <4> QED BY <2>4, <2>5, <3>2, <4>1
    <3> QED BY <3>1, <3>2
  <2>7. \A j, k \in 1 .. Len(t) : t[j] = t[k] => j = k
    <3>1. \A j, k \in 1 .. Len(r) : r[j] = r[k] => j = k
      BY DEF Found
    <3>2. \A j \in 1 .. Len(t) : j \in 1 .. Len(r) \/ j = Len(r) + 1
      BY <1>1, <2>4
    <3> QED BY <2>3, <2>4, <3>1, <3>2
  <2>8. Len(t) <= count
    BY <1>1, <1>2, <2>4
  <2>9. CASE Len(t) # count
    <3>1. Len(r) # count
      BY <1>2
    <3>2. ASSUME NEW j \in 0 .. i, Ahead(x, j) \in Ring
          PROVE  \E k \in 1 .. Len(t) : t[k] = hashMap[Ahead(x, j)]
      <4>1. CASE j = i
        <5>1. hashMap[Ahead(x, j)] = h
          BY <4>1 DEF h, y
        <5>2. Len(r) + 1 \in 1 .. Len(t)
          BY <1>1, <2>4
        <5> QED BY <2>4, <5>1, <5>2
      <4>2. CASE j # i
        <5>1. j \in 0 .. i - 1
          BY <1>0, <4>2
        <5>2. PICK k \in 1 .. Len(r) : r[k] = hashMap[Ahead(x, j)]
          BY <3>1, <3>2, <5>1 DEF Found
        <5>3. k \in 1 .. Len(t) /\ t[k] = r[k]
          BY <1>1, <2>4, <5>2
        <5> QED BY <5>2, <5>3
      <4> QED BY <4>1, <4>2
    <3>3. (i + 1) - 1 = i
      BY <1>0
    <3> QED BY <3>2, <3>3, <2>4, <2>6, <2>7, <2>8, <2>1 DEF Found, y
  <2> QED BY <2>1, <2>4, <2>6, <2>7, <2>8, <2>9 DEF Found, y
<1>3. CASE ~ (y \in Ring /\ Len(r) < count /\ ~ Contains(r, h))
  <2>1. Met(r, y, count) = r
    BY <1>3 DEF Met
  <2>2. CASE Len(r) # count
    <3>1. ASSUME NEW j \in 0 .. i, Ahead(x, j) \in Ring
          PROVE  \E k \in 1 .. Len(r) : r[k] = hashMap[Ahead(x, j)]
      <4>1. CASE j = i
        <5>1. Contains(r, h)
          BY <1>1, <1>3, <2>2, <3>1, <4>1
        <5> QED BY <4>1, <5>1 DEF Contains
      <4>2. CASE j # i
        <5>1. j \in 0 .. i - 1
          BY <1>0, <4>2
        <5> QED BY <2>2, <3>1, <5>1 DEF Found
      <4> QED BY <4>1, <4>2
    <3>2. (i + 1) - 1 = i
      BY <1>0
    <3> HIDE DEF y, h
    <3> QED BY <2>1, <3>1, <3>2 DEF Found, y
  <2>3. CASE Len(r) = count
    BY <2>1, <2>3 DEF Found
  <2> QED BY <2>2, <2>3
<1> QED BY <1>2, <1>3

\* A list of different things has as many of them as it is long.
LEMMA AllDifferent ==
    ASSUME NEW S, NEW s \in Seq(S),
           \A j, k \in 1 .. Len(s) : s[j] = s[k] => j = k
    PROVE  /\ ToSet(s) = {s[k] : k \in 1 .. Len(s)}
           /\ ToSet(s) \subseteq S
           /\ Cardinality(ToSet(s)) = Len(s)
<1>1. Len(s) \in Nat /\ DOMAIN s = 1 .. Len(s) /\ \A k \in 1 .. Len(s) : s[k] \in S
  BY LenProperties, ElementOfSeq
<1>2. ToSet(s) = {s[k] : k \in 1 .. Len(s)}
  BY <1>1 DEF ToSet
<1>3. s \in Bijection(1 .. Len(s), ToSet(s))
  <2>1. s \in [1 .. Len(s) -> ToSet(s)]
    BY <1>1, <1>2
  <2> QED BY <1>2, <2>1 DEF Bijection, Injection, Surjection, IsInjective
<1> DEFINE n == Len(s)
<1>4. IsFiniteSet(1 .. n) /\ Cardinality(1 .. n) = n
  <2> HIDE DEF n
  <2>1. n \in Nat
    BY <1>1 DEF n
  <2>2. n - 1 + 1 = n /\ 1 \in Int /\ n \in Int /\ (1 > n => n = 0)
    BY <2>1
  <2> QED BY <2>1, <2>2, FS_Interval
<1>5. Cardinality(ToSet(s)) = Len(s)
  BY <1>3, <1>4, FS_Bijection DEF ExistsBijection
<1> QED BY <1>1, <1>2, <1>5

LEMMA Distinct == RingIInv => DistinctMembers
<1> SUFFICES ASSUME RingIInv, Injective, NEW x \in Position,
                    NEW count \in 1 .. Cardinality(Peer)
             PROVE  LET result == GetMultiple(x, count) IN
                    /\ Len(result) = IF count < Cardinality(members)
                                     THEN count ELSE Cardinality(members)
                    /\ ToSet(result) \subseteq members
                    /\ Cardinality(ToSet(result)) = Len(result)
                    /\ members # {} => result[1] = Get(x)
  BY DEF DistinctMembers
<1> DEFINE result == GetMultiple(x, count)
<1>0. Size \in Nat /\ Size >= 1
  BY RingAssumption
<1>1. count \in Nat /\ count >= 1
  BY RingAssumption, FS_CardinalityType
<1>2. IsFiniteSet(members) /\ Cardinality(members) \in Nat
  BY RingAssumption, FS_Subset, FS_CardinalityType DEF RingIInv, RingTypeOK
<1>3. Found(result, x, count, Size)
  <2>1. PICK met : /\ GetMultiple(x, count) = met[Size]
                   /\ met[0] = <<>>
                   /\ \A i \in 1 .. Size :
                         met[i] = Met(met[i - 1], Ahead(x, i - 1), count)
    BY WalkStep
  <2> DEFINE S == {i \in Nat : i <= Size => Found(met[i], x, count, i)}
  <2>2. 0 \in S
    <3>1. Found(<<>>, x, count, 0)
      BY <1>1, EmptySeq DEF Found
    <3> QED BY <2>1, <3>1
  <2>3. ASSUME NEW i \in Nat, i \in S
        PROVE  i + 1 \in S
    <3>1. CASE i + 1 <= Size
      <4>1. i \in 0 .. Size - 1 /\ i + 1 \in 1 .. Size /\ (i + 1) - 1 = i
        BY <1>0, <3>1
      <4>2. Found(met[i], x, count, i)
        BY <1>0, <2>3, <4>1
      <4>3. Found(Met(met[i], Ahead(x, i), count), x, count, i + 1)
        BY <1>1, <4>1, <4>2, FoundStep
      <4>4. met[i + 1] = Met(met[i], Ahead(x, i), count)
        BY <2>1, <4>1
      <4> QED BY <4>3, <4>4
    <3> QED BY <3>1
  <2> HIDE DEF S
  <2>4. Nat \subseteq S
    BY <2>2, <2>3, NumberInduction
  <2>5. Found(met[Size], x, count, Size)
    BY <1>0, <2>4 DEF S
  <2> QED BY <2>1, <2>5
<1> HIDE DEF result
<1>4. /\ ToSet(result) = {result[k] : k \in 1 .. Len(result)}
      /\ ToSet(result) \subseteq members
      /\ Cardinality(ToSet(result)) = Len(result)
  BY <1>3, AllDifferent DEF Found
<1>5. Len(result) <= Cardinality(members)
  BY <1>2, <1>4, FS_Subset
<1>6. Len(result) \in Nat /\ Len(result) <= count
  BY <1>3 DEF Found
<1>7. CASE Len(result) = count
  BY <1>1, <1>2, <1>3, <1>4, <1>5, <1>6, <1>7 DEF Found, result
<1>8. CASE Len(result) # count
  <2>1. ASSUME NEW n \in members
        PROVE  n \in ToSet(result)
    <3>1. PICK y \in Position : At(n, y) # {}
      BY Points
    <3>2. y \in Ring /\ hashMap[y] = n
      BY <3>1, Points
    <3>3. Distance(x, y) \in 0 .. Size - 1 /\ Ahead(x, Distance(x, y)) = y
      BY Distances
    <3>4. \E k \in 1 .. Len(result) : result[k] = n
      BY <1>3, <1>8, <3>2, <3>3 DEF Found
    <3> QED BY <1>4, <3>4
  <2>2. ToSet(result) = members
    BY <1>4, <2>1
  <2>3. Len(result) = Cardinality(members)
    BY <1>4, <2>2
  <2>4. members # {} => result[1] = Get(x)
    <3>1. members # {} => Len(result) # 0
      BY <1>2, <2>3, FS_EmptySet
    <3> QED BY <1>3, <3>1 DEF Found
  <2> QED BY <1>1, <1>2, <1>4, <1>6, <1>8, <2>3, <2>4 DEF result
<1> QED BY <1>7, <1>8

\* Get finds the nearest member, and GetMultiple that one first and then as many
\* others as there are and are asked for, wherever the key lies.
THEOREM LookupsRight == RingSpec => []LookupsFindMembers
<1>1. RingIInv => LookupsFindMembers
  BY Nearest, Distinct DEF LookupsFindMembers
<1> QED BY <1>1, RingInvariant, PTL

=============================================================================
