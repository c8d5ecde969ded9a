------------------------------ MODULE LRUProofs ------------------------------
(***************************************************************************)
(* Proofs about LRU, for every set of keys and values, every limit and     *)
(* every sequence of calls: the map and the list agree on the keys, one    *)
(* element each, and the cache implements CacheStore.                      *)
(*                                                                         *)
(* The lemmas say what the three changes of the list (a new front, an      *)
(* element moved to the front, the back cut off) do to what the list holds *)
(* as a map, its View.  The second part is about the list as a list: its   *)
(* bytes are those of its entries, it is in the order of use, and Add      *)
(* evicts no more than it must.                                            *)
(***************************************************************************)
EXTENDS LRU, SumTheorems, SequenceTheorems

Distinct(s) == \A i, j \in DOMAIN s : s[i].key = s[j].key => i = j
Keys(s) == {s[i].key : i \in DOMAIN s}
Where(s, k) == CHOOSE i \in DOMAIN s : s[i].key = k
View(s) == [k \in Key |-> IF k \in Keys(s) THEN s[Where(s, k)].value ELSE Missing]

\* A list without duplicate keys, read as a map, has what its elements say.
LEMMA ViewAt ==
    ASSUME NEW s \in Seq(Entry), Distinct(s), NEW i \in DOMAIN s
    PROVE  /\ Where(s, s[i].key) = i
           /\ s[i].key \in Key /\ s[i].value \in Value
           /\ View(s)[s[i].key] = s[i].value
<1>1. s[i] \in Entry
  OBVIOUS
<1>2. s[i].key \in Key /\ s[i].value \in Value /\ s[i].key \in Keys(s)
  BY <1>1 DEF Entry, Keys
<1>3. Where(s, s[i].key) = i
  BY DEF Where, Distinct
<1> QED
  BY <1>2, <1>3 DEF View

\* The keys of a list of entries.
LEMMA KeysAreKeys ==
    ASSUME NEW s \in Seq(Entry)
    PROVE  Keys(s) \subseteq Key
<1>1. \A i \in DOMAIN s : s[i] \in Entry
  OBVIOUS
<1> QED
  BY <1>1 DEF Keys, Entry

\* Two lists that have the same entries but for one key.
LEMMA ViewElsewhere ==
    ASSUME NEW s \in Seq(Entry), Distinct(s), NEW t \in Seq(Entry), Distinct(t),
           NEW c \in Key,
           \A i \in DOMAIN t : t[i].key # c => \E j \in DOMAIN s : s[j] = t[i],
           \A j \in DOMAIN s : s[j].key # c => \E i \in DOMAIN t : s[j] = t[i]
    PROVE  \A k \in Key \ {c} : /\ View(t)[k] = View(s)[k]
                                /\ k \in Keys(t) <=> k \in Keys(s)
<1> SUFFICES ASSUME NEW k \in Key \ {c}
             PROVE  View(t)[k] = View(s)[k] /\ (k \in Keys(t) <=> k \in Keys(s))
    OBVIOUS
<1>1. CASE k \in Keys(t)
  <2>1. PICK i \in DOMAIN t : t[i].key = k
    BY <1>1 DEF Keys
  <2>2. PICK j \in DOMAIN s : s[j] = t[i]
    BY <2>1
  <2>3. View(t)[k] = t[i].value
    BY <2>1, ViewAt
  <2>4. View(s)[k] = s[j].value /\ k \in Keys(s)
    BY <2>1, <2>2, ViewAt DEF Keys
  <2> QED
    BY <1>1, <2>2, <2>3, <2>4
<1>2. CASE k \notin Keys(t)
  <2>1. k \notin Keys(s)
    BY <1>2 DEF Keys
  <2> QED
    BY <1>2, <2>1 DEF View
<1> QED
  BY <1>1, <1>2

\* A new element at the front.
LEMMA InsertedFront ==
    ASSUME NEW s \in Seq(Entry), Distinct(s), NEW e \in Entry, e.key \notin Keys(s)
    PROVE  LET t == <<e>> \o s IN
           /\ t \in Seq(Entry) /\ Distinct(t)
           /\ Keys(t) = Keys(s) \cup {e.key}
           /\ View(t) = [View(s) EXCEPT ![e.key] = e.value]
<1> DEFINE t == <<e>> \o s
<1>1. /\ t \in Seq(Entry) /\ Len(t) = Len(s) + 1
      /\ t[1] = e
      /\ \A i \in 1 .. Len(s) : t[i + 1] = s[i]
  OBVIOUS
<1> HIDE DEF t
<1>2. DOMAIN t = 1 .. Len(s) + 1 /\ DOMAIN s = 1 .. Len(s) /\ Len(s) \in Nat
  BY <1>1
<1>3. \A i \in DOMAIN t : i = 1 \/ (i - 1 \in DOMAIN s /\ t[i] = s[i - 1])
  BY <1>1, <1>2
<1>4. Distinct(t)
  <2>1. \A i \in DOMAIN s : s[i].key # e.key
    BY DEF Keys
  <2> SUFFICES ASSUME NEW i \in DOMAIN t, NEW j \in DOMAIN t, i < j
               PROVE  t[i].key # t[j].key
    BY <1>2 DEF Distinct
  <2>2. j - 1 \in DOMAIN s /\ t[j] = s[j - 1]
    BY <1>2, <1>3
  <2>3. CASE i = 1
    BY <1>1, <2>1, <2>2, <2>3
  <2>4. CASE i # 1
    <3>1. i - 1 \in DOMAIN s /\ t[i] = s[i - 1] /\ i - 1 # j - 1
      BY <1>2, <1>3, <2>4
    <3> QED
      BY <2>2, <3>1 DEF Distinct
  <2> QED
    BY <2>3, <2>4
<1>5. e.key \in Key /\ 1 \in DOMAIN t
  BY <1>2 DEF Entry
<1>6. \A k \in Key \ {e.key} : /\ View(t)[k] = View(s)[k]
                               /\ k \in Keys(t) <=> k \in Keys(s)
  <2>1. \A i \in DOMAIN t : t[i].key # e.key => \E j \in DOMAIN s : s[j] = t[i]
    BY <1>1, <1>3
  <2>2. ASSUME NEW j \in DOMAIN s, s[j].key # e.key
        PROVE  \E i \in DOMAIN t : s[j] = t[i]
    <3>1. j + 1 \in DOMAIN t /\ t[j + 1] = s[j]
      BY <1>1, <1>2
    <3> QED
      BY <3>1
  <2> QED
    <3>1. e.key \in Key /\ t \in Seq(Entry) /\ Distinct(t)
      BY <1>1, <1>4, <1>5
    <3> QED
      BY <2>1, <2>2, <3>1, ViewElsewhere
<1>7. View(t)[e.key] = e.value /\ e.key \in Keys(t)
  BY <1>1, <1>4, <1>5, ViewAt DEF Keys
<1>8. Keys(t) \subseteq Key /\ Keys(s) \subseteq Key
  BY <1>1, KeysAreKeys
<1>9. View(t) = [View(s) EXCEPT ![e.key] = e.value]
  <2> DEFINE v == View(s)
             w == View(t)
  <2>1. v = [k \in Key |-> v[k]] /\ w = [k \in Key |-> w[k]]
    BY DEF View
  <2>2. \A k \in Key : w[k] = IF k = e.key THEN e.value ELSE v[k]
    BY <1>6, <1>7
  <2> HIDE DEF v, w
  <2>3. w = [v EXCEPT ![e.key] = e.value]
    BY <2>1, <2>2
  <2> QED BY <2>3 DEF v, w
<1>10. Keys(t) = Keys(s) \cup {e.key}
  BY <1>6, <1>7, <1>8
<1> QED
  BY <1>1, <1>4, <1>9, <1>10 DEF t

\* A sequence whose n-th element has moved to the front, as e.
Moved(s, n, e) == <<e>> \o RemoveAt(s, n)

\* Where the elements of s are in t when the n-th one has moved to the front.
Shifted(t, s, n, e) ==
    /\ Len(t) = Len(s) /\ t[1] = e
    /\ \A i \in 2 .. n : t[i] = s[i - 1]
    /\ \A i \in n + 1 .. Len(s) : t[i] = s[i]

LEMMA MovedElements ==
    ASSUME NEW S, NEW s \in Seq(S), NEW n \in DOMAIN s, NEW e \in S
    PROVE  Moved(s, n, e) \in Seq(S) /\ Shifted(Moved(s, n, e), s, n, e)
<1> DEFINE a == SubSeq(s, 1, n - 1)
           b == SubSeq(s, n + 1, Len(s))
           t == Moved(s, n, e)
<1>1. n \in 1 .. Len(s) /\ Len(s) \in Nat /\ DOMAIN s = 1 .. Len(s)
  OBVIOUS
<1>2. /\ a \in Seq(S) /\ Len(a) = n - 1
      /\ \A i \in 1 .. n - 1 : a[i] = s[i]
  BY <1>1
<1>3. /\ b \in Seq(S) /\ Len(b) = Len(s) - n
      /\ \A i \in 1 .. Len(s) - n : b[i] = s[n + i]
  BY <1>1
<1>4. /\ t \in Seq(S) /\ Len(t) = Len(s) /\ t[1] = e
      /\ \A i \in 2 .. n : t[i] = s[i - 1]
      /\ \A i \in n + 1 .. Len(s) : t[i] = s[i]
  <2>1. t = <<e>> \o (a \o b)
    BY DEF Moved, RemoveAt
  <2> DEFINE c == a \o b
  <2> HIDE DEF a, b, t
  <2>2. /\ c \in Seq(S) /\ Len(c) = Len(s) - 1
        /\ \A i \in 1 .. n - 1 : c[i] = s[i]
        /\ \A i \in n .. Len(s) - 1 : c[i] = b[i - (n - 1)]
    <3>1. /\ c \in Seq(S) /\ Len(c) = Len(a) + Len(b)
          /\ \A i \in 1 .. Len(a) + Len(b) :
                c[i] = IF i <= Len(a) THEN a[i] ELSE b[i - Len(a)]
      BY <1>2, <1>3, ConcatProperties
    <3> HIDE DEF c
    <3>2. Len(a) = n - 1 /\ Len(a) + Len(b) = Len(s) - 1
      BY <1>1, <1>2, <1>3
    <3>3. ASSUME NEW i \in 1 .. n - 1
          PROVE  c[i] = s[i]
      <4>1. i \in 1 .. Len(a) + Len(b) /\ i <= Len(a)
        BY <1>1, <3>2
      <4> QED
        BY <1>2, <3>1, <4>1
    <3>4. ASSUME NEW i \in n .. Len(s) - 1
          PROVE  c[i] = b[i - (n - 1)]
      <4>1. i \in 1 .. Len(a) + Len(b) /\ ~(i <= Len(a)) /\ i - Len(a) = i - (n - 1)
        BY <1>1, <3>2
      <4> QED
        BY <3>1, <4>1
    <3> QED
      BY <3>1, <3>2, <3>3, <3>4
  <2>3. \A i \in n .. Len(s) - 1 : c[i] = s[i + 1]
    <3> SUFFICES ASSUME NEW i \in n .. Len(s) - 1
                 PROVE  c[i] = s[i + 1]
      OBVIOUS
    <3>1. i - (n - 1) \in 1 .. Len(s) - n /\ n + (i - (n - 1)) = i + 1
      BY <1>1
    <3> QED
      BY <1>3, <2>2, <3>1
  <2> HIDE DEF c
  <2>4. /\ t \in Seq(S) /\ Len(t) = Len(s) /\ t[1] = e
        /\ \A i \in 2 .. Len(s) : t[i] = c[i - 1]
    <3>1. t = <<e>> \o c /\ <<e>> \in Seq(S) /\ Len(<<e>>) = 1 /\ <<e>>[1] = e
      BY <2>1 DEF c
    <3>2. /\ t \in Seq(S) /\ Len(t) = 1 + Len(c)
          /\ \A i \in 1 .. 1 + Len(c) : t[i] = IF i <= 1 THEN <<e>>[i] ELSE c[i - 1]
      BY <2>2, <3>1, ConcatProperties
    <3>3. 1 + Len(c) = Len(s)
      BY <1>1, <2>2
    <3>4. t[1] = e
      BY <1>1, <3>1, <3>2, <3>3
    <3>5. ASSUME NEW i \in 2 .. Len(s)
          PROVE  t[i] = c[i - 1]
      <4>1. i \in 1 .. 1 + Len(c) /\ ~(i <= 1)
        BY <1>1, <3>3
      <4> QED
        BY <3>2, <4>1
    <3> QED
      BY <3>2, <3>3, <3>4, <3>5
  <2>5. ASSUME NEW i \in 2 .. n
        PROVE  t[i] = s[i - 1]
    <3>1. i \in 2 .. Len(s) /\ i - 1 \in 1 .. n - 1
      BY <1>1
    <3> QED
      BY <2>2, <2>4, <3>1
  <2>6. ASSUME NEW i \in n + 1 .. Len(s)
        PROVE  t[i] = s[i]
    <3>1. i \in 2 .. Len(s) /\ i - 1 \in n .. Len(s) - 1 /\ (i - 1) + 1 = i
      BY <1>1
    <3> QED
      BY <2>3, <2>4, <3>1
  <2> QED
    BY <2>4, <2>5, <2>6
<1> HIDE DEF t
<1>5. t \in Seq(S) /\ Shifted(t, s, n, e)
  BY <1>4 DEF Shifted
<1> QED
  BY <1>5 DEF t

\* The i-th element moves to the front, with a value that may be new.
LEMMA MovedToFront ==
    ASSUME NEW s \in Seq(Entry), Distinct(s), NEW n \in DOMAIN s,
           NEW e \in Entry, e.key = s[n].key
    PROVE  LET t == Moved(s, n, e) IN
           /\ t \in Seq(Entry) /\ Distinct(t)
           /\ Keys(t) = Keys(s)
           /\ View(t) = [View(s) EXCEPT ![e.key] = e.value]
<1> DEFINE t == Moved(s, n, e)
<1>1. n \in 1 .. Len(s) /\ Len(s) \in Nat /\ DOMAIN s = 1 .. Len(s)
  OBVIOUS
<1>3. t \in Seq(Entry) /\ Shifted(t, s, n, e)
  BY MovedElements
<1> HIDE DEF t
<1>4. /\ t \in Seq(Entry) /\ Len(t) = Len(s) /\ t[1] = e
      /\ \A i \in 2 .. n : t[i] = s[i - 1]
      /\ \A i \in n + 1 .. Len(s) : t[i] = s[i]
  BY <1>3 DEF Shifted
<1>5. DOMAIN t = 1 .. Len(s)
  BY <1>4
\* Where the elements of t but the first come from.
<1> DEFINE from(i) == IF i <= n THEN i - 1 ELSE i
<1>6. ASSUME NEW i \in DOMAIN t, i # 1
      PROVE  from(i) \in DOMAIN s \ {n} /\ t[i] = s[from(i)]
  <2>1. CASE i <= n
    BY <1>1, <1>4, <1>5, <1>6, <2>1
  <2>2. CASE i > n
    BY <1>1, <1>4, <1>5, <1>6, <2>2
  <2> QED
    BY <1>5, <1>1, <2>1, <2>2
<1>7. Distinct(t)
  <2> SUFFICES ASSUME NEW i \in DOMAIN t, NEW j \in DOMAIN t, i < j
               PROVE  t[i].key # t[j].key
    BY <1>5 DEF Distinct
  <2>1. j # 1 /\ from(j) \in DOMAIN s \ {n} /\ t[j] = s[from(j)]
    BY <1>5, <1>6
  <2>2. CASE i = 1
    BY <1>4, <2>1, <2>2 DEF Distinct
  <2>3. CASE i # 1
    <3>1. from(i) \in DOMAIN s /\ t[i] = s[from(i)] /\ from(i) # from(j)
      BY <1>1, <1>5, <1>6, <2>3
    <3> HIDE DEF from
    <3> QED
      BY <2>1, <3>1 DEF Distinct
  <2> QED
    BY <2>2, <2>3
<1>8. e.key \in Key /\ 1 \in DOMAIN t
  BY <1>1, <1>5 DEF Entry
<1>9. \A k \in Key \ {e.key} : /\ View(t)[k] = View(s)[k]
                               /\ k \in Keys(t) <=> k \in Keys(s)
  <2>1. \A i \in DOMAIN t : t[i].key # e.key => \E j \in DOMAIN s : s[j] = t[i]
    BY <1>4, <1>6
  <2>2. ASSUME NEW j \in DOMAIN s, s[j].key # e.key
        PROVE  \E i \in DOMAIN t : s[j] = t[i]
    <3>1. CASE j < n
      <4>1. j + 1 \in 2 .. n /\ j + 1 \in DOMAIN t
        BY <1>1, <1>5, <3>1
      <4> QED
        BY <1>1, <1>4, <4>1
    <3>2. CASE j > n
      BY <1>1, <1>4, <1>5, <3>2
    <3> QED
      BY <1>1, <2>2, <3>1, <3>2
  <2> QED
    <3>1. e.key \in Key /\ t \in Seq(Entry) /\ Distinct(t)
      BY <1>4, <1>7, <1>8
    <3> QED
      BY <2>1, <2>2, <3>1, ViewElsewhere
<1>10. View(t)[e.key] = e.value /\ e.key \in Keys(t) /\ e.key \in Keys(s)
  BY <1>4, <1>7, <1>8, ViewAt DEF Keys
<1>11. Keys(t) \subseteq Key /\ Keys(s) \subseteq Key
  BY <1>4, KeysAreKeys
<1>12. View(t) = [View(s) EXCEPT ![e.key] = e.value]
  BY <1>8, <1>9, <1>10 DEF View
<1>13. Keys(t) = Keys(s)
  <2>1. \A k \in Key : k \in Keys(t) <=> k \in Keys(s)
    BY <1>9, <1>10
  <2> QED
    BY <1>11, <2>1
<1> QED
  BY <1>4, <1>7, <1>12, <1>13 DEF t

\* The back is cut off.
LEMMA BackDropped ==
    ASSUME NEW s \in Seq(Entry), Distinct(s), s # <<>>
    PROVE  /\ Front(s) \in Seq(Entry) /\ Distinct(Front(s))
           /\ Keys(Front(s)) = Keys(s) \ {Last(s).key}
           /\ Last(s) \in Entry
           /\ View(s)[Last(s).key] = Last(s).value
           /\ View(Front(s)) = [View(s) EXCEPT ![Last(s).key] = Missing]
<1> DEFINE t == Front(s)
           e == Last(s)
<1>1. Len(s) \in Nat \ {0} /\ DOMAIN s = 1 .. Len(s)
  BY EmptySeq
<1>2. /\ t \in Seq(Entry) /\ DOMAIN t = 1 .. Len(s) - 1
      /\ \A i \in 1 .. Len(s) - 1 : t[i] = s[i]
  BY <1>1 DEF Front
<1>3. Len(s) \in DOMAIN s /\ e = s[Len(s)] /\ e \in Entry
  BY <1>1 DEF Last
<1> HIDE DEF t, e
<1>4. Distinct(t)
  BY <1>1, <1>2 DEF Distinct
<1>5. e.key \notin Keys(t) /\ e.key \in Key /\ e.key \in Keys(s)
  BY <1>1, <1>2, <1>3 DEF Distinct, Keys, Entry
<1>6. \A k \in Key \ {e.key} : /\ View(t)[k] = View(s)[k]
                               /\ k \in Keys(t) <=> k \in Keys(s)
  <2>1. \A i \in DOMAIN t : t[i].key # e.key => \E j \in DOMAIN s : s[j] = t[i]
    BY <1>1, <1>2
  <2>2. \A j \in DOMAIN s : s[j].key # e.key => \E i \in DOMAIN t : s[j] = t[i]
    BY <1>1, <1>2, <1>3
  <2> QED
    <3>1. e.key \in Key /\ t \in Seq(Entry) /\ Distinct(t)
      BY <1>2, <1>4, <1>5
    <3> QED
      BY <2>1, <2>2, <3>1, ViewElsewhere
<1>7. View(t)[e.key] = Missing /\ View(s)[e.key] = e.value
  BY <1>3, <1>5, ViewAt DEF View
<1>8. Keys(t) \subseteq Key /\ Keys(s) \subseteq Key
  BY <1>2, KeysAreKeys
<1>9. View(t) = [View(s) EXCEPT ![e.key] = Missing]
  BY <1>5, <1>6, <1>7 DEF View
<1>10. Keys(t) = Keys(s) \ {e.key}
  BY <1>5, <1>6, <1>8
<1> QED
  BY <1>2, <1>3, <1>4, <1>7, <1>9, <1>10 DEF t, e

-----------------------------------------------------------------------------
(* The invariant: the map and the list have the same keys, one element each. *)

IInv ==
    /\ maxBytes \in Limits
    /\ ll \in Seq(Entry)
    /\ Distinct(ll)
    /\ cache = Keys(ll)

\* The element the map has for a key is in the list, under that key.
LEMMA AtFinds ==
    ASSUME IInv, NEW k \in cache
    PROVE  At(k) \in DOMAIN ll /\ ll[At(k)].key = k /\ ll[At(k)] \in Entry
<1>1. PICK i \in DOMAIN ll : ll[i].key = k
  BY DEF IInv, Keys
<1>2. At(k) = i
  BY <1>1 DEF At, IInv, Distinct
<1> QED
  BY <1>1, <1>2 DEF IInv

\* A hit moves the element and leaves the map as it is.
LEMMA HitKeeps ==
    ASSUME IInv, NEW k \in Key, GetHit(k)
    PROVE  IInv' /\ View(ll') = View(ll) /\ answer' = View(ll)[k]
<1>1. /\ k \in cache /\ ll \in Seq(Entry) /\ Distinct(ll) /\ At(k) \in DOMAIN ll
      /\ ll[At(k)] \in Entry /\ ll[At(k)].key = k
  BY AtFinds DEF GetHit, IInv
<1>2. View(ll)[k] = ll[At(k)].value
  BY <1>1, ViewAt
<1>3. ll' = Moved(ll, At(k), ll[At(k)])
  BY DEF GetHit, ToFront, Moved
<1>4. /\ ll' \in Seq(Entry) /\ Distinct(ll') /\ Keys(ll') = Keys(ll)
      /\ View(ll') = [View(ll) EXCEPT ![k] = ll[At(k)].value]
  <2> DEFINE n == At(k)
             e == ll[n]
  <2> HIDE DEF n, e
  <2>1. n \in DOMAIN ll /\ e \in Entry /\ e.key = ll[n].key /\ e.key = k
    BY <1>1 DEF n, e
  <2>2. ll' = Moved(ll, n, e)
    BY <1>3 DEF n, e
  <2>3. /\ ll' \in Seq(Entry) /\ Distinct(ll') /\ Keys(ll') = Keys(ll)
        /\ View(ll') = [View(ll) EXCEPT ![e.key] = e.value]
    BY <1>1, <2>1, <2>2, MovedToFront
  <2> QED
    BY <2>1, <2>3 DEF n, e
<1>5. View(ll') = View(ll)
  BY <1>2, <1>4 DEF View
<1> QED
  BY <1>2, <1>4, <1>5 DEF GetHit, IInv

\* Add puts its value under its key, before the loop evicts anything.
LEMMA AddPuts ==
    ASSUME IInv, NEW k \in Key, NEW v \in Value, AddUpdate(k, v) \/ AddInsert(k, v)
    PROVE  IInv' /\ View(ll') = [View(ll) EXCEPT ![k] = v]
<1> DEFINE e == [key |-> k, value |-> v]
<1>1. ll \in Seq(Entry) /\ Distinct(ll) /\ cache = Keys(ll) /\ e \in Entry
  BY DEF IInv, Entry
<1>2. CASE AddUpdate(k, v)
  <2>1. /\ At(k) \in DOMAIN ll /\ ll[At(k)].key = k
        /\ [ll[At(k)] EXCEPT !.value = v] = e
    BY <1>2, AtFinds DEF AddUpdate, Entry
  <2>2. ll' = Moved(ll, At(k), e)
    BY <1>2, <2>1 DEF AddUpdate, ToFront, Moved
  <2>3. /\ ll' \in Seq(Entry) /\ Distinct(ll') /\ Keys(ll') = Keys(ll)
        /\ View(ll') = [View(ll) EXCEPT ![e.key] = e.value]
    <3> DEFINE n == At(k)
    <3>1. n \in DOMAIN ll /\ e.key = ll[n].key /\ ll' = Moved(ll, n, e)
      BY <2>1, <2>2
    <3> HIDE DEF n, e
    <3> QED
      BY <1>1, <3>1, MovedToFront
  <2> QED
    BY <1>1, <1>2, <2>3 DEF AddUpdate, IInv
<1>3. CASE AddInsert(k, v)
  <2>1. ll' = <<e>> \o ll /\ e.key \notin Keys(ll) /\ cache' = cache \cup {e.key}
    BY <1>1, <1>3 DEF AddInsert
  <2>2. /\ ll' \in Seq(Entry) /\ Distinct(ll') /\ Keys(ll') = Keys(ll) \cup {e.key}
        /\ View(ll') = [View(ll) EXCEPT ![e.key] = e.value]
    BY <1>1, <2>1, InsertedFront
  <2> QED
    BY <1>1, <1>3, <2>1, <2>2 DEF AddInsert, IInv
<1> QED
  BY <1>2, <1>3

\* A turn of the loop takes one entry away, which is the one reported.
LEMMA EvictForgets ==
    ASSUME IInv, Evict, ll # <<>>
    PROVE  /\ IInv' /\ maxBytes # 0
           /\ \E e \in Entry : /\ View(ll)[e.key] = e.value /\ reported' = e
                               /\ View(ll') = [View(ll) EXCEPT ![e.key] = Missing]
<1>1. ll \in Seq(Entry) /\ Distinct(ll) /\ cache = Keys(ll)
  BY DEF IInv
<1>2. /\ maxBytes # 0 /\ UNCHANGED maxBytes
      /\ ll' = Front(ll) /\ cache' = cache \ {Last(ll).key} /\ reported' = Last(ll)
  BY DEF Evict, OverLimit, RemoveOldest
<1> QED
  BY <1>1, <1>2, BackDropped DEF IInv

\* IInv is inductive: one step per action.
LEMMA InvStep == IInv /\ [Next]_vars => IInv'
<1> SUFFICES ASSUME IInv, [Next]_vars
             PROVE  IInv'
    OBVIOUS
<1>1. ASSUME NEW k \in Key, GetHit(k)
      PROVE  IInv'
  BY <1>1, HitKeeps
<1>2. ASSUME NEW k \in Key, NEW v \in Value, AddUpdate(k, v) \/ AddInsert(k, v)
      PROVE  IInv'
  BY <1>2, AddPuts
<1>3. CASE Evict
  BY <1>3, EvictForgets DEF Evict, RemoveOldest, IInv
<1>4. CASE (\E k \in Key : GetMiss(k)) \/ AddReturn \/ UNCHANGED vars
  BY <1>4 DEF GetMiss, AddReturn, vars, IInv
<1> QED
  BY <1>1, <1>2, <1>3, <1>4 DEF Next

LEMMA InvInit == Init => IInv
  BY DEF Init, IInv, Distinct, Keys

\* The map and the list have the same keys at every step, inside Add's loop too,
\* and no key has two elements in the list.
THEOREM MapAgrees == Spec => []MapIsList
<1>1. IInv => MapIsList
  BY DEF IInv, Distinct, Keys, MapIsList
<1> QED
  BY <1>1, InvInit, InvStep, PTL DEF Spec

\* The abstract store is the list as a map.
AbsStore == [k \in Key |-> IF k \in cache THEN ll[At(k)].value ELSE Missing]

LEMMA StoreIsView == IInv => AbsStore = View(ll)
  BY DEF IInv, AbsStore, View, At, Where

LEMMA AbsStep == IInv /\ IInv' /\ [Next]_vars => [Abs!Next]_(Abs!vars)
<1> SUFFICES ASSUME IInv, IInv', [Next]_vars
             PROVE  Abs!Next \/ UNCHANGED Abs!vars
    OBVIOUS
<1>1. AbsStore = View(ll) /\ AbsStore' = View(ll')
  BY StoreIsView DEF IInv, AbsStore, View, At, Where
<1>2. ASSUME NEW k \in Key, GetHit(k)
      PROVE  Abs!Next
  <2>1. AbsStore' = AbsStore /\ answer' = AbsStore[k]
    BY <1>1, <1>2, HitKeeps
  <2>2. Abs!Get(k)
    BY <1>2, <2>1 DEF GetHit, AbsStore, Abs!Get
  <2> QED
    BY <2>2 DEF Abs!Next
<1>3. ASSUME NEW k \in Key, GetMiss(k)
      PROVE  Abs!Next
  <2>1. AbsStore' = AbsStore /\ answer' = AbsStore[k]
    BY <1>3 DEF GetMiss, AbsStore, At
  <2>2. Abs!Get(k)
    BY <1>3, <2>1 DEF GetMiss, AbsStore, Abs!Get
  <2> QED
    BY <2>2 DEF Abs!Next
<1>4. ASSUME NEW k \in Key, NEW v \in Value, AddUpdate(k, v) \/ AddInsert(k, v)
      PROVE  Abs!Next
  <2>1. AbsStore' = [AbsStore EXCEPT ![k] = v]
    BY <1>1, <1>4, AddPuts
  <2>2. Abs!Put(k, v)
    BY <1>4, <2>1 DEF AddUpdate, AddInsert, AbsStore, Abs!Put
  <2> QED
    BY <2>2 DEF Abs!Next
<1>5. CASE Evict /\ ll # <<>>
  <2>1. PICK e \in Entry : /\ AbsStore[e.key] = e.value /\ reported' = e
                           /\ AbsStore' = [AbsStore EXCEPT ![e.key] = Missing]
    BY <1>1, <1>5, EvictForgets
  <2>2. /\ e = [key |-> e.key, value |-> e.value]
        /\ e.key \in Key /\ e.value # Missing
    BY MissingAssumption DEF Entry
  <2>3. maxBytes # 0 /\ UNCHANGED <<maxBytes, answer, added>>
    BY <1>5, EvictForgets DEF Evict
  <2>4. Abs!Forget(e.key)
    BY <2>1, <2>2, <2>3 DEF AbsStore, Abs!Forget
  <2> QED
    BY <2>2, <2>4 DEF Abs!Next
<1>6. CASE (Evict /\ ll = <<>>) \/ AddReturn \/ UNCHANGED vars
  <2>1. UNCHANGED <<maxBytes, ll, cache, answer, added, reported>>
    BY <1>6 DEF Evict, RemoveOldest, AddReturn, vars
  <2> QED
    BY <2>1 DEF Abs!vars, At
<1> QED
  BY <1>2, <1>3, <1>4, <1>5, <1>6 DEF Next

\* The cache is a map that may forget: Get finds what was last added under the
\* key or, when there is a limit, nothing, and what is forgotten is reported.
THEOREM Implements == Spec => ImplementsCacheStore
<1>1. Init => Abs!Init
  BY DEF Init, Abs!Init
<1> QED
  BY <1>1, AbsStep, InvInit, InvStep, PTL DEF Spec, ImplementsCacheStore, Abs!Spec

-----------------------------------------------------------------------------
(* The bytes of a list, counted by key: the order does not matter. *)

Sizes(v) == [k \in Key |-> KeyLen[k] + ValLen[v[k]]]

LEMMA BytesByKey ==
    ASSUME NEW s \in Seq(Entry), Distinct(s)
    PROVE  /\ TotalSize(s) = SumFunctionOnSet(Sizes(View(s)), Keys(s))
           /\ IsFiniteSet(Keys(s)) /\ Keys(s) \subseteq Key
           /\ \A k \in Keys(s) : Sizes(View(s))[k] \in Nat
           /\ TotalSize(s) \in Nat
<1> DEFINE S == DOMAIN s
           f == [i \in S |-> EntrySize(s[i])]
           r == [i \in S |-> s[i].key]
           e == Sizes(View(s))
<1>1. IsFiniteSet(S)
  <2>1. S = 1 .. Len(s) /\ Len(s) \in Nat
    OBVIOUS
  <2> HIDE DEF S
  <2> QED
    BY <2>1, FS_Interval
<1>2. \A i \in S : f[i] \in Nat /\ f[i] = e[r[i]] /\ r[i] \in Key
  <2> SUFFICES ASSUME NEW i \in S
               PROVE  f[i] \in Nat /\ f[i] = e[r[i]] /\ r[i] \in Key
    OBVIOUS
  <2>1. s[i].key \in Key /\ s[i].value \in Value /\ View(s)[s[i].key] = s[i].value
    BY ViewAt
  <2>2. KeyLen[s[i].key] \in Nat /\ ValLen[s[i].value] \in Nat
    BY <2>1, LenAssumption
  <2> QED
    BY <2>1, <2>2 DEF EntrySize, Sizes
<1>3. \A i, j \in S : r[i] = r[j] => i = j
  BY DEF Distinct
<1>4. Keys(s) = {r[i] : i \in S}
  BY DEF Keys
<1>5. TotalSize(s) = SumFunctionOnSet(f, S)
  BY DEF TotalSize
<1>6. r \in Surjection(S, Keys(s))
  BY <1>4 DEF Surjection
<1>7. \A k \in Keys(s) : e[k] \in Nat
  BY <1>2, <1>4
<1> HIDE DEF S, f, r, e
<1>8. SumFunctionOnSet(f, S) = SumFunctionOnSet(e, Keys(s))
  <2>1. \A i \in S : f[i] \in Int /\ f[i] = e[r[i]]
    BY <1>2
  <2> QED
    BY <1>1, <1>3, <1>4, <2>1, SumRenamed
<1>9. IsFiniteSet(Keys(s))
  BY <1>1, <1>6, FS_Surjection
<1>10. SumFunctionOnSet(e, Keys(s)) \in Nat
  BY <1>7, <1>9, SumType
<1> QED
  BY <1>2, <1>4, <1>5, <1>7, <1>8, <1>9, <1>10 DEF e

\* Two lists with the same entries but for one key, which only t may have.
LEMMA BytesElsewhere ==
    ASSUME NEW s \in Seq(Entry), Distinct(s), NEW t \in Seq(Entry), Distinct(t),
           NEW k \in Key, k \in Keys(t), Keys(s) \ {k} = Keys(t) \ {k},
           \A c \in Keys(s) \ {k} : View(t)[c] = View(s)[c]
    PROVE  /\ k \in Keys(s) =>
                TotalSize(t) = TotalSize(s) + (KeyLen[k] + ValLen[View(t)[k]])
                                            - (KeyLen[k] + ValLen[View(s)[k]])
           /\ k \notin Keys(s) =>
                TotalSize(t) = TotalSize(s) + (KeyLen[k] + ValLen[View(t)[k]])
<1> DEFINE f == Sizes(View(s))
           e == Sizes(View(t))
           R == Keys(s) \ {k}
<1>1. /\ TotalSize(s) = SumFunctionOnSet(f, Keys(s)) /\ IsFiniteSet(Keys(s))
      /\ \A c \in Keys(s) : f[c] \in Int
      /\ Keys(s) \subseteq Key
  BY BytesByKey
<1>2. /\ TotalSize(t) = SumFunctionOnSet(e, Keys(t)) /\ IsFiniteSet(Keys(t))
      /\ \A c \in Keys(t) : e[c] \in Int
  BY BytesByKey
<1>3. \A c \in R : f[c] = e[c]
  BY <1>1 DEF Sizes
<1>4. e[k] = KeyLen[k] + ValLen[View(t)[k]] /\ f[k] = KeyLen[k] + ValLen[View(s)[k]]
  BY DEF Sizes
<1>5. IsFiniteSet(R) /\ \A c \in R : f[c] \in Int
  BY <1>1, FS_Subset
<1> HIDE DEF f, e
<1>6. SumFunctionOnSet(f, R) = SumFunctionOnSet(e, R) /\ SumFunctionOnSet(f, R) \in Int
  <2> HIDE DEF R
  <2> QED
    BY <1>3, <1>5, SumEqual, SumType
<1>7. TotalSize(t) = e[k] + SumFunctionOnSet(e, R)
  BY <1>2, SumRemove
<1>8. CASE k \in Keys(s)
  <2>1. TotalSize(s) = f[k] + SumFunctionOnSet(f, R)
    BY <1>1, <1>8, SumRemove
  <2>2. f[k] \in Int /\ e[k] \in Int
    BY <1>1, <1>2, <1>8
  <2> QED
    BY <1>4, <1>6, <1>7, <1>8, <2>1, <2>2
<1>9. CASE k \notin Keys(s)
  <2>1. R = Keys(s) /\ e[k] \in Int
    BY <1>2, <1>9
  <2>2. TotalSize(s) = SumFunctionOnSet(e, R) /\ SumFunctionOnSet(e, R) \in Int
    BY <1>1, <1>6, <2>1
  <2> HIDE DEF R
  <2>3. TotalSize(t) = TotalSize(s) + e[k]
    BY <1>7, <2>1, <2>2
  <2> QED
    BY <1>4, <1>9, <2>1, <2>2, <2>3
<1> QED
  BY <1>8, <1>9

\* A longer part of a list has more bytes, the same part as many.
LEMMA BytesOfParts ==
    ASSUME NEW s \in Seq(Entry), NEW m \in 0 .. Len(s), NEW n \in m .. Len(s)
    PROVE  /\ TotalSize(SubSeq(s, 1, m)) \in Nat /\ TotalSize(SubSeq(s, 1, n)) \in Nat
           /\ TotalSize(SubSeq(s, 1, m)) <= TotalSize(SubSeq(s, 1, n))
<1> DEFINE f == [i \in DOMAIN s |-> EntrySize(s[i])]
<1>1. Len(s) \in Nat /\ m \in Nat /\ n \in Nat /\ m <= n /\ n <= Len(s)
  OBVIOUS
<1>2. \A i \in DOMAIN s : f[i] \in Nat
  <2> SUFFICES ASSUME NEW i \in DOMAIN s
               PROVE  EntrySize(s[i]) \in Nat
    OBVIOUS
  <2>1. s[i] \in Entry
    OBVIOUS
  <2>2. KeyLen[s[i].key] \in Nat /\ ValLen[s[i].value] \in Nat
    BY <2>1, LenAssumption DEF Entry
  <2>3. \A a, b \in Nat : a + b \in Nat
    OBVIOUS
  <2> QED
    BY <2>2, <2>3, Zenon DEF EntrySize
<1>3. ASSUME NEW l \in 0 .. Len(s)
      PROVE  TotalSize(SubSeq(s, 1, l)) = SumFunctionOnSet(f, 1 .. l) /\ 1 .. l \subseteq DOMAIN s
  <2> DEFINE t == SubSeq(s, 1, l)
             h == [i \in DOMAIN t |-> EntrySize(t[i])]
  <2>1. DOMAIN t = 1 .. l /\ \A i \in 1 .. l : t[i] = s[i] /\ i \in DOMAIN s
    OBVIOUS
  <2>2. \A i \in 1 .. l : h[i] = f[i]
    BY <2>1
  <2>3. TotalSize(t) = SumFunctionOnSet(h, 1 .. l)
    BY <2>1 DEF TotalSize
  <2>4. IsFiniteSet(1 .. l)
    BY FS_Interval
  <2> HIDE DEF h, f, t
  <2>5. SumFunctionOnSet(h, 1 .. l) = SumFunctionOnSet(f, 1 .. l)
    BY <2>2, <2>4, SumEqual
  <2> QED
    BY <2>1, <2>3, <2>5 DEF t
<1>4. IsFiniteSet(1 .. n) /\ IsFiniteSet(1 .. m) /\ 1 .. m \subseteq 1 .. n
  BY <1>1, FS_Interval
<1>5. \A i \in 1 .. n : f[i] \in Nat
  BY <1>1, <1>2, <1>3
<1>6. \A i \in 1 .. m : f[i] \in Nat
  BY <1>4, <1>5
<1>7. m \in 0 .. Len(s) /\ n \in 0 .. Len(s)
  BY <1>1
<1> HIDE DEF f
<1>8. SumFunctionOnSet(f, 1 .. m) <= SumFunctionOnSet(f, 1 .. n)
  BY <1>4, <1>5, SumPart
<1>9. SumFunctionOnSet(f, 1 .. m) \in Nat /\ SumFunctionOnSet(f, 1 .. n) \in Nat
  BY <1>4, <1>5, <1>6, SumType
<1>10. /\ TotalSize(SubSeq(s, 1, m)) = SumFunctionOnSet(f, 1 .. m)
       /\ TotalSize(SubSeq(s, 1, n)) = SumFunctionOnSet(f, 1 .. n)
  BY <1>3, <1>7
<1> QED
  BY <1>8, <1>9, <1>10

-----------------------------------------------------------------------------
(* The rest of the invariant: the byte count is that of the list, the list *)
(* is the front of the history of uses, and in Add's loop it is what the   *)
(* loop has left of the list it began with, the last entry to go having    *)
(* been one too many.                                                      *)

BytesInv == nBytes = TotalSize(ll)

RecencyInv ==
    /\ use \in Seq(Key)
    /\ \A i, j \in DOMAIN use : use[i] = use[j] => i = j
    /\ Len(ll) <= Len(use)
    /\ \A i \in DOMAIN ll : ll[i].key = use[i]

LoopInv ==
    /\ placed \in Seq(Entry)
    /\ pc \in {"idle", "evict"}
    /\ pc = "evict" =>
        /\ Len(ll) <= Len(placed)
        /\ ll = SubSeq(placed, 1, Len(ll))
        /\ Len(ll) < Len(placed) =>
            maxBytes # 0 /\ TotalSize(SubSeq(placed, 1, Len(ll) + 1)) > maxBytes

CallInv ==
    /\ answer \in Value \cup {Missing}
    /\ added \in Entry \cup {Missing}
    /\ reported \in Entry \cup {Missing}

FullInv == IInv /\ BytesInv /\ RecencyInv /\ LoopInv /\ CallInv

\* Moving an element of a list without duplicates to the front makes none.
LEMMA UsedOnce ==
    ASSUME NEW s \in Seq(Key), \A i, j \in DOMAIN s : s[i] = s[j] => i = j,
           NEW n \in DOMAIN s, NEW t \in Seq(Key), Len(t) = Len(s), t[1] = s[n],
           \A i \in 2 .. n : t[i] = s[i - 1], \A i \in n + 1 .. Len(s) : t[i] = s[i]
    PROVE  \A i, j \in DOMAIN t : t[i] = t[j] => i = j
<1> DEFINE from(i) == IF i = 1 THEN n ELSE IF i <= n THEN i - 1 ELSE i
<1>1. n \in 1 .. Len(s) /\ Len(s) \in Nat /\ DOMAIN s = 1 .. Len(s) /\ DOMAIN t = 1 .. Len(s)
  OBVIOUS
<1>2. \A i \in DOMAIN t : from(i) \in DOMAIN s /\ t[i] = s[from(i)]
  <2> SUFFICES ASSUME NEW i \in DOMAIN t
               PROVE  from(i) \in DOMAIN s /\ t[i] = s[from(i)]
    OBVIOUS
  <2>1. i = 1 \/ i \in 2 .. n \/ i \in n + 1 .. Len(s)
    BY <1>1
  <2> QED
    BY <1>1, <2>1
<1>3. \A i, j \in DOMAIN t : from(i) = from(j) => i = j
  BY <1>1
<1> HIDE DEF from
<1> QED
  BY <1>2, <1>3

\* A hit and the update of Add move the element of a key and may change its value.
LEMMA MoveStep ==
    ASSUME IInv, BytesInv, RecencyInv, NEW k \in cache, NEW v \in Value,
           ll' = ToFront(At(k), [key |-> k, value |-> v]), Use(k),
           nBytes' = nBytes + ValLen[v] - ValLen[ll[At(k)].value]
    PROVE  BytesInv' /\ RecencyInv'
<1> DEFINE n == At(k)
           e == [key |-> k, value |-> v]
<1>0. /\ n \in DOMAIN ll /\ e \in Entry /\ e.key = ll[n].key
      /\ ll \in Seq(Entry) /\ Distinct(ll)
  BY AtFinds DEF Entry, IInv
<1>1. /\ n \in DOMAIN ll /\ ll[n].key = k /\ ll[n] \in Entry /\ k \in Key /\ e \in Entry
      /\ ll \in Seq(Entry) /\ Distinct(ll) /\ Len(ll) \in Nat /\ DOMAIN ll = 1 .. Len(ll)
  BY AtFinds DEF Entry, IInv
<1>2. ll' = Moved(ll, n, e)
  BY DEF ToFront, Moved
<1>3. BytesInv'
  <2>1. /\ ll' \in Seq(Entry) /\ Distinct(ll') /\ Keys(ll') = Keys(ll)
        /\ View(ll') = [View(ll) EXCEPT ![k] = v]
    <3>1. e.key = k /\ e.value = v /\ e.key = ll[n].key
      BY <1>1
    <3> DEFINE t == Moved(ll, n, e)
    <3> HIDE DEF n, e
    <3>2. /\ t \in Seq(Entry) /\ Distinct(t) /\ Keys(t) = Keys(ll)
          /\ View(t) = [View(ll) EXCEPT ![e.key] = e.value]
      BY <1>0, MovedToFront
    <3>3. ll' = t
      BY <1>2
    <3> HIDE DEF t
    <3> QED
      BY <3>1, <3>2, <3>3
  <2>2. View(ll)[k] = ll[n].value /\ k \in Keys(ll) /\ ll[n].value \in Value
    BY <1>1, ViewAt DEF Keys
  <2>3. View(ll')[k] = v /\ \A c \in Keys(ll) \ {k} : View(ll')[c] = View(ll)[c]
    <3>1. Keys(ll) \subseteq Key
      BY <1>1, KeysAreKeys
    <3> QED
      BY <1>1, <2>1, <3>1 DEF View
  <2>4. TotalSize(ll') = TotalSize(ll) + (KeyLen[k] + ValLen[v]) - (KeyLen[k] + ValLen[ll[n].value])
    <3> HIDE DEF n
    <3> QED
      BY <1>1, <2>1, <2>2, <2>3, BytesElsewhere
  <2>5. KeyLen[k] \in Nat /\ ValLen[v] \in Nat /\ ValLen[ll[n].value] \in Nat
    BY <1>1, <2>2, LenAssumption
  <2>6. TotalSize(ll) \in Nat
    BY <1>1, BytesByKey
  <2> HIDE DEF n
  <2>7. nBytes' = TotalSize(ll')
    BY <2>4, <2>5, <2>6 DEF BytesInv, n
  <2> QED
    BY <2>7 DEF BytesInv, TotalSize, EntrySize
<1>4. RecencyInv'
  <2>1. /\ ll' \in Seq(Entry) /\ Len(ll') = Len(ll) /\ ll'[1] = e
        /\ \A i \in 2 .. n : ll'[i] = ll[i - 1]
        /\ \A i \in n + 1 .. Len(ll) : ll'[i] = ll[i]
    <3> HIDE DEF n, e
    <3>1. ll' \in Seq(Entry) /\ Shifted(ll', ll, n, e)
      BY <1>0, <1>2, MovedElements
    <3> QED
      BY <3>1 DEF Shifted
  <2>2. n \in DOMAIN use /\ use[n] = k /\ Len(use) \in Nat /\ DOMAIN use = 1 .. Len(use)
    <3> HIDE DEF n
    <3> QED
      BY <1>1 DEF RecencyInv
  <2>3. use' = Moved(use, n, k)
    <3> HIDE DEF n
    <3> QED
      BY <2>2 DEF Use, RecencyInv, Moved
  <2>4. /\ use' \in Seq(Key) /\ Len(use') = Len(use) /\ use'[1] = k
        /\ \A i \in 2 .. n : use'[i] = use[i - 1]
        /\ \A i \in n + 1 .. Len(use) : use'[i] = use[i]
    <3> HIDE DEF n
    <3>1. use \in Seq(Key) /\ n \in DOMAIN use /\ k \in Key
      BY <1>1, <2>2 DEF RecencyInv
    <3>2. use' \in Seq(Key) /\ Shifted(use', use, n, k)
      BY <2>3, <3>1, MovedElements
    <3> QED
      BY <3>2 DEF Shifted
  <2> HIDE DEF n
  <2>5. Len(ll') <= Len(use')
    BY <2>1, <2>4 DEF RecencyInv
  <2>6. \A i \in DOMAIN ll' : ll'[i].key = use'[i]
    <3> SUFFICES ASSUME NEW i \in 1 .. Len(ll)
                 PROVE  ll'[i].key = use'[i]
      BY <2>1
    <3>1. CASE i = 1
      BY <2>1, <2>4, <3>1
    <3>2. CASE i \in 2 .. n
      <4>1. i - 1 \in DOMAIN ll
        BY <1>1, <3>2
      <4>2. ll[i - 1].key = use[i - 1]
        BY <4>1 DEF RecencyInv
      <4>3. ll'[i] = ll[i - 1] /\ use'[i] = use[i - 1]
        BY <2>1, <2>4, <3>2
      <4> QED BY <4>2, <4>3
    <3>3. CASE i \in n + 1 .. Len(ll)
      <4>1. i \in n + 1 .. Len(use) /\ i \in DOMAIN ll
        BY <1>1, <2>2, <3>3 DEF RecencyInv
      <4> QED
        BY <2>1, <2>4, <3>3, <4>1 DEF RecencyInv
    <3> QED
      BY <1>1, <3>1, <3>2, <3>3
  <2>7. \A i, j \in DOMAIN use' : use'[i] = use'[j] => i = j
    <3> DEFINE s == use
               t == use'
    <3>1. s \in Seq(Key) /\ \A i, j \in DOMAIN s : s[i] = s[j] => i = j
      BY DEF RecencyInv
    <3>2. /\ n \in DOMAIN s /\ t \in Seq(Key) /\ Len(t) = Len(s) /\ t[1] = s[n]
          /\ \A i \in 2 .. n : t[i] = s[i - 1]
          /\ \A i \in n + 1 .. Len(s) : t[i] = s[i]
      BY <2>2, <2>4
    <3> HIDE DEF s, t
    <3>3. \A i, j \in DOMAIN t : t[i] = t[j] => i = j
      BY <3>1, <3>2, UsedOnce
    <3> QED
      BY <3>3 DEF t
  <2> QED
    BY <2>4, <2>5, <2>6, <2>7 DEF RecencyInv
<1> QED
  BY <1>3, <1>4

\* Add of a new key.
LEMMA InsertStep ==
    ASSUME IInv, BytesInv, RecencyInv, NEW k \in Key, NEW v \in Value, AddInsert(k, v)
    PROVE  BytesInv' /\ RecencyInv'
<1> DEFINE e == [key |-> k, value |-> v]
<1>1. /\ ll \in Seq(Entry) /\ Distinct(ll) /\ cache = Keys(ll) /\ e \in Entry
      /\ e.key = k /\ e.value = v /\ k \notin Keys(ll)
  BY DEF IInv, Entry, AddInsert
<1>2. ll' = <<e>> \o ll /\ nBytes' = nBytes + EntrySize(e) /\ Use(k)
  BY DEF AddInsert
<1> HIDE DEF e
<1>3. BytesInv'
  <2>1. /\ ll' \in Seq(Entry) /\ Distinct(ll') /\ Keys(ll') = Keys(ll) \cup {k}
        /\ View(ll') = [View(ll) EXCEPT ![k] = v]
    BY <1>1, <1>2, InsertedFront
  <2>2. /\ k \in Keys(ll') /\ Keys(ll) \ {k} = Keys(ll') \ {k} /\ View(ll')[k] = v
        /\ \A c \in Keys(ll) \ {k} : View(ll')[c] = View(ll)[c]
    <3>1. Keys(ll) \subseteq Key
      BY <1>1, KeysAreKeys
    <3> QED
      BY <2>1, <3>1 DEF View
  <2>3. TotalSize(ll') = TotalSize(ll) + (KeyLen[k] + ValLen[v])
    <3> DEFINE t == ll'
    <3>1. /\ t \in Seq(Entry) /\ Distinct(t) /\ k \in Keys(t) /\ View(t)[k] = v
          /\ Keys(ll) \ {k} = Keys(t) \ {k}
          /\ \A c \in Keys(ll) \ {k} : View(t)[c] = View(ll)[c]
      BY <2>1, <2>2
    <3> HIDE DEF t
    <3>2. TotalSize(t) = TotalSize(ll) + (KeyLen[k] + ValLen[v])
      BY <1>1, <3>1, BytesElsewhere
    <3> QED
      BY <3>2 DEF t
  <2>4. KeyLen[k] \in Nat /\ ValLen[v] \in Nat /\ TotalSize(ll) \in Nat
    BY <1>1, BytesByKey, LenAssumption
  <2>5. nBytes' = TotalSize(ll')
    BY <1>1, <1>2, <2>3, <2>4 DEF BytesInv, EntrySize
  <2> QED
    BY <2>5 DEF BytesInv, TotalSize, EntrySize
<1>4. RecencyInv'
  <2>1. /\ use \in Seq(Key) /\ Len(use) \in Nat /\ DOMAIN use = 1 .. Len(use)
        /\ Len(ll) <= Len(use) /\ Len(ll) \in Nat /\ DOMAIN ll = 1 .. Len(ll)
        /\ \A i, j \in DOMAIN use : use[i] = use[j] => i = j
        /\ \A i \in 1 .. Len(ll) : ll[i].key = use[i]
    BY <1>1 DEF RecencyInv
  <2>2. /\ ll' \in Seq(Entry) /\ Len(ll') = Len(ll) + 1 /\ ll'[1] = e
        /\ \A i \in 2 .. Len(ll) + 1 : ll'[i] = ll[i - 1]
    BY <1>1, <1>2
  <2>3. \A i \in 1 .. Len(ll) : use[i] # k
    BY <1>1, <2>1 DEF Keys
  <2>4. CASE \E i \in DOMAIN use : use[i] = k /\ use' = Moved(use, i, k)
    <3>1. PICK n \in DOMAIN use : use[n] = k /\ use' = Moved(use, n, k)
      BY <2>4
    <3> DEFINE t == Moved(use, n, k)
    <3>2. /\ t \in Seq(Key) /\ Len(t) = Len(use) /\ t[1] = k
          /\ \A i \in 2 .. n : t[i] = use[i - 1]
          /\ \A i \in n + 1 .. Len(use) : t[i] = use[i]
      <4>1. use \in Seq(Key) /\ k \in Key
        BY <1>1, <2>1
      <4> HIDE DEF t
      <4>2. t \in Seq(Key) /\ Shifted(t, use, n, k)
        BY <4>1, MovedElements DEF t
      <4> QED BY <4>2 DEF Shifted
    <3> HIDE DEF t
    <3>3. Len(ll) < n /\ n \in 1 .. Len(use)
      BY <2>1, <2>3, <3>1
    <3>4. Len(ll') <= Len(t)
      BY <2>1, <2>2, <3>2, <3>3
    <3>5. \A i \in DOMAIN ll' : ll'[i].key = t[i]
      <4> SUFFICES ASSUME NEW i \in 1 .. Len(ll) + 1
                   PROVE  ll'[i].key = t[i]
        BY <2>2
      <4>1. CASE i = 1
        BY <1>1, <2>2, <3>2, <4>1
      <4>2. CASE i \in 2 .. Len(ll) + 1
        <5>1. i \in 2 .. n /\ i - 1 \in 1 .. Len(ll)
          BY <2>1, <3>3, <4>2
        <5>2. ll'[i] = ll[i - 1] /\ ll[i - 1].key = use[i - 1]
          BY <2>1, <2>2, <4>2, <5>1
        <5>3. t[i] = use[i - 1]
          BY <3>2, <5>1
        <5> QED BY <5>2, <5>3
      <4> QED
        BY <2>1, <4>1, <4>2
    <3>6. \A i, j \in DOMAIN t : t[i] = t[j] => i = j
      <4> DEFINE s == use
      <4>1. s \in Seq(Key) /\ \A i, j \in DOMAIN s : s[i] = s[j] => i = j
        BY <2>1
      <4>2. /\ n \in DOMAIN s /\ t \in Seq(Key) /\ Len(t) = Len(s) /\ t[1] = s[n]
            /\ \A i \in 2 .. n : t[i] = s[i - 1]
            /\ \A i \in n + 1 .. Len(s) : t[i] = s[i]
        BY <3>1, <3>2
      <4> HIDE DEF s
      <4> QED
        BY <4>1, <4>2, UsedOnce
    <3>7. use' = t
      BY <3>1 DEF t
    <3> QED
      BY <3>2, <3>4, <3>5, <3>6, <3>7 DEF RecencyInv
  <2>5. CASE (\A i \in DOMAIN use : use[i] # k) /\ use' = <<k>> \o use
    <3>1. /\ use' \in Seq(Key) /\ Len(use') = Len(use) + 1 /\ use'[1] = k
          /\ \A i \in 2 .. Len(use) + 1 : use'[i] = use[i - 1]
      BY <2>1, <2>5
    <3>2. \A i \in DOMAIN ll' : ll'[i].key = use'[i]
      <4> SUFFICES ASSUME NEW i \in 1 .. Len(ll) + 1
                   PROVE  ll'[i].key = use'[i]
        BY <2>2
      <4>1. CASE i = 1
        BY <1>1, <2>2, <3>1, <4>1
      <4>2. CASE i \in 2 .. Len(ll) + 1
        BY <2>1, <2>2, <3>1, <4>2
      <4> QED
        BY <2>1, <4>1, <4>2
    <3>3. \A i, j \in DOMAIN use' : use'[i] = use'[j] => i = j
      <4> SUFFICES ASSUME NEW i \in 1 .. Len(use) + 1, NEW j \in 1 .. Len(use) + 1, i < j
                   PROVE  use'[i] # use'[j]
        BY <2>1, <3>1
      <4>1. j - 1 \in DOMAIN use /\ use'[j] = use[j - 1]
        BY <2>1, <3>1
      <4>2. CASE i = 1
        BY <2>5, <3>1, <4>1, <4>2
      <4>3. CASE i # 1
        <5>1. i - 1 \in DOMAIN use /\ use'[i] = use[i - 1] /\ i - 1 # j - 1
          BY <2>1, <3>1, <4>3
        <5> QED
          BY <2>1, <4>1, <5>1
      <4> QED
        BY <4>2, <4>3
    <3> QED
      BY <2>1, <2>2, <3>1, <3>2, <3>3 DEF RecencyInv
  <2> QED
    BY <1>2, <2>4, <2>5 DEF Use, Moved
<1> QED
  BY <1>3, <1>4

\* A turn of the loop.
LEMMA EvictStep ==
    ASSUME IInv, BytesInv, RecencyInv, LoopInv, CallInv, Evict, ll # <<>>
    PROVE  BytesInv' /\ RecencyInv' /\ LoopInv' /\ CallInv'
<1> DEFINE e == Last(ll)
           t == Front(ll)
<1>1. /\ ll \in Seq(Entry) /\ Distinct(ll) /\ Len(ll) \in Nat \ {0} /\ DOMAIN ll = 1 .. Len(ll)
      /\ maxBytes \in Int
  BY EmptySeq, LimitsAssumption DEF IInv
<1>2. /\ ll' = t /\ nBytes' = nBytes - EntrySize(e) /\ reported' = e
      /\ pc = "evict" /\ maxBytes # 0 /\ maxBytes < nBytes
      /\ UNCHANGED <<maxBytes, pc, answer, added, use, placed>>
  BY DEF Evict, OverLimit, RemoveOldest
<1>3. /\ t \in Seq(Entry) /\ Len(t) = Len(ll) - 1 /\ DOMAIN t = 1 .. Len(ll) - 1
      /\ \A i \in 1 .. Len(ll) - 1 : t[i] = ll[i]
      /\ e = ll[Len(ll)] /\ e \in Entry
  BY <1>1 DEF Front, Last
<1>4. /\ Distinct(t) /\ Keys(t) = Keys(ll) \ {e.key}
      /\ View(ll)[e.key] = e.value
      /\ View(t) = [View(ll) EXCEPT ![e.key] = Missing]
  BY <1>1, BackDropped
<1> HIDE DEF t, e
<1>5. BytesInv'
  <2>1. e.key \in Keys(ll) /\ e.key \in Key /\ e.value \in Value
    BY <1>1, <1>3 DEF Keys, Entry
  <2>2. e.key \notin Keys(t) /\ Keys(t) \ {e.key} = Keys(ll) \ {e.key}
    BY <1>4
  <2>3. \A c \in Keys(t) \ {e.key} : View(ll)[c] = View(t)[c]
    <3>1. Keys(t) \subseteq Key
      BY <1>3, KeysAreKeys
    <3> QED
      BY <1>4, <3>1 DEF View
  <2>4. TotalSize(ll) = TotalSize(t) + (KeyLen[e.key] + ValLen[e.value])
    <3> DEFINE k == e.key
    <3>1. /\ ll \in Seq(Entry) /\ Distinct(ll) /\ t \in Seq(Entry) /\ Distinct(t)
          /\ k \in Key /\ k \in Keys(ll) /\ Keys(t) \ {k} = Keys(ll) \ {k} /\ k \notin Keys(t)
          /\ View(ll)[k] = e.value /\ \A c \in Keys(t) \ {k} : View(ll)[c] = View(t)[c]
      BY <1>1, <1>3, <1>4, <2>1, <2>2, <2>3
    <3> HIDE DEF k
    <3>2. TotalSize(ll) = TotalSize(t) + (KeyLen[k] + ValLen[e.value])
      BY <3>1, BytesElsewhere
    <3> QED
      BY <3>2 DEF k
  <2>5. KeyLen[e.key] \in Nat /\ ValLen[e.value] \in Nat /\ TotalSize(t) \in Nat
    BY <1>3, <1>4, <2>1, BytesByKey, LenAssumption
  <2>6. nBytes' = TotalSize(ll')
    BY <1>2, <2>4, <2>5 DEF BytesInv, EntrySize
  <2> QED
    BY <2>6 DEF BytesInv, TotalSize, EntrySize
<1>6. RecencyInv'
  <2>1. /\ use \in Seq(Key) /\ Len(use) \in Nat
        /\ Len(ll) <= Len(use)
        /\ \A i \in DOMAIN ll : ll[i].key = use[i]
    BY DEF RecencyInv
  <2>2. Len(ll') <= Len(use)
    BY <1>1, <1>2, <1>3, <2>1
  <2>3. \A i \in DOMAIN ll' : i \in DOMAIN ll /\ ll'[i] = ll[i]
    BY <1>1, <1>2, <1>3
  <2>4. \A i \in DOMAIN ll' : ll'[i].key = use[i]
    BY <2>1, <2>3
  <2> QED BY <1>2, <2>2, <2>4 DEF RecencyInv
<1>7. LoopInv'
  <2>1. /\ placed \in Seq(Entry) /\ Len(placed) \in Nat /\ Len(ll) <= Len(placed)
        /\ ll = SubSeq(placed, 1, Len(ll))
    BY <1>2 DEF LoopInv
  <2>2. \A i \in 1 .. Len(ll) : ll[i] = placed[i]
    BY <1>1, <2>1
  <2>3. t = SubSeq(placed, 1, Len(t))
    <3> DEFINE u == SubSeq(placed, 1, Len(t))
    <3>1. u \in Seq(Entry) /\ Len(u) = Len(t) /\ \A i \in 1 .. Len(t) : u[i] = placed[i]
      BY <1>1, <1>3, <2>1
    <3>2. \A i \in 1 .. Len(t) : t[i] = u[i]
      BY <1>1, <1>3, <2>2, <3>1
    <3> HIDE DEF u
    <3>3. t = u
      BY <1>3, <3>1, <3>2, SeqEqual
    <3> QED
      BY <3>3 DEF u
  <2>4. TotalSize(SubSeq(placed, 1, Len(t) + 1)) > maxBytes
    <3>1. Len(t) + 1 = Len(ll)
      BY <1>1, <1>3
    <3>2. TotalSize(ll) > maxBytes
      <4>1. TotalSize(ll) \in Nat
        BY <1>1, BytesByKey
      <4> QED
        BY <1>1, <1>2, <4>1 DEF BytesInv
    <3> QED
      BY <2>1, <3>1, <3>2
  <2>5. Len(t) <= Len(placed)
    BY <1>1, <1>3, <2>1
  <2> QED
    BY <1>2, <2>1, <2>3, <2>4, <2>5 DEF LoopInv, TotalSize, EntrySize
<1>8. CallInv'
  BY <1>2, <1>3 DEF CallInv
<1> QED
  BY <1>5, <1>6, <1>7, <1>8

LEMMA FullInit == Init => FullInv
<1> SUFFICES ASSUME Init
             PROVE  FullInv
  OBVIOUS
<1>1. IInv
  BY InvInit
<1>2. BytesInv
  <2>1. DOMAIN ll = {}
    BY DEF Init
  <2>2. TotalSize(ll) = 0
    BY <2>1, SumEmpty DEF TotalSize
  <2> QED
    BY <2>2 DEF Init, BytesInv
<1>3. RecencyInv /\ LoopInv /\ CallInv
  BY DEF Init, RecencyInv, LoopInv, CallInv
<1> QED
  BY <1>1, <1>2, <1>3 DEF FullInv

\* Add enters its loop with the list as it is.
LEMMA LoopBegins ==
    ASSUME LoopInv, ll' \in Seq(Entry), placed' = ll', pc' = "evict"
    PROVE  LoopInv'
<1> DEFINE t == ll'
<1>1. Len(t) \in Nat /\ SubSeq(t, 1, Len(t)) = t
  OBVIOUS
<1> QED
  BY <1>1 DEF LoopInv

\* FullInv is inductive: one step per action.
LEMMA FullStep == FullInv /\ [Next]_vars => FullInv'
<1> SUFFICES ASSUME FullInv, [Next]_vars
             PROVE  FullInv'
  OBVIOUS
<1> USE DEF FullInv
<1>0. IInv'
  BY InvStep
<1>1. ASSUME NEW k \in Key, GetHit(k)
      PROVE  FullInv'
  <2> DEFINE v == ll[At(k)].value
  <2>1. /\ At(k) \in DOMAIN ll /\ ll[At(k)] = [key |-> k, value |-> v] /\ v \in Value
        /\ k \in cache
    BY <1>1, AtFinds DEF GetHit, Entry
  <2>2. /\ ll' = ToFront(At(k), [key |-> k, value |-> v]) /\ Use(k)
        /\ nBytes' = nBytes + ValLen[v] - ValLen[v]
    <3>1. nBytes \in Nat /\ ValLen[v] \in Nat
      BY <2>1, BytesByKey, LenAssumption DEF BytesInv, IInv
    <3> QED
      BY <1>1, <2>1, <3>1 DEF GetHit
  <2>3. BytesInv' /\ RecencyInv'
    BY <2>1, <2>2, MoveStep
  <2>4. LoopInv'
    BY <1>1 DEF GetHit, LoopInv
  <2>5. CallInv'
    BY <1>1, <2>1 DEF GetHit, CallInv
  <2> QED
    BY <1>0, <2>3, <2>4, <2>5
<1>2. ASSUME NEW k \in Key, NEW v \in Value, AddUpdate(k, v)
      PROVE  FullInv'
  <2>1. /\ At(k) \in DOMAIN ll /\ ll[At(k)] \in Entry /\ ll[At(k)].key = k
        /\ k \in cache
    BY <1>2, AtFinds DEF AddUpdate
  <2>2. ll' = ToFront(At(k), [key |-> k, value |-> v])
    BY <1>2, <2>1 DEF AddUpdate, Entry
  <2>3. Use(k) /\ nBytes' = nBytes + ValLen[v] - ValLen[ll[At(k)].value]
    BY <1>2 DEF AddUpdate
  <2>4. BytesInv' /\ RecencyInv'
    BY <2>1, <2>2, <2>3, MoveStep
  <2>5. LoopInv'
    <3>1. ll' \in Seq(Entry) /\ placed' = ll' /\ pc' = "evict"
      BY <1>0, <1>2 DEF AddUpdate, IInv
    <3> QED
      BY <3>1, LoopBegins
  <2>6. CallInv'
    BY <1>2 DEF AddUpdate, CallInv, Entry
  <2> QED
    BY <1>0, <2>4, <2>5, <2>6
<1>3. ASSUME NEW k \in Key, NEW v \in Value, AddInsert(k, v)
      PROVE  FullInv'
  <2>1. BytesInv' /\ RecencyInv'
    BY <1>3, InsertStep
  <2>2. LoopInv'
    <3>1. ll' \in Seq(Entry) /\ placed' = ll' /\ pc' = "evict"
      BY <1>0, <1>3 DEF AddInsert, IInv
    <3> QED
      BY <3>1, LoopBegins
  <2>3. CallInv'
    BY <1>3 DEF AddInsert, CallInv, Entry
  <2> QED
    BY <1>0, <2>1, <2>2, <2>3
<1>4. CASE Evict /\ ll # <<>>
  BY <1>0, <1>4, EvictStep
<1>5. CASE Evict /\ ll = <<>>
  <2>1. UNCHANGED vars
    BY <1>5 DEF Evict, RemoveOldest, vars
  <2> QED
    BY <1>0, <2>1 DEF vars, BytesInv, TotalSize, EntrySize, RecencyInv, LoopInv, CallInv
<1>6. ASSUME NEW k \in Key, GetMiss(k)
      PROVE  FullInv'
  BY <1>0, <1>6
     DEF GetMiss, BytesInv, TotalSize, EntrySize, RecencyInv, LoopInv, CallInv
<1>7. CASE AddReturn
  BY <1>0, <1>7
     DEF AddReturn, BytesInv, TotalSize, EntrySize, RecencyInv, LoopInv, CallInv
<1>8. CASE UNCHANGED vars
  BY <1>0, <1>8 DEF vars, BytesInv, TotalSize, EntrySize, RecencyInv, LoopInv, CallInv
<1> QED
  BY <1>1, <1>2, <1>3, <1>4, <1>5, <1>6, <1>7, <1>8 DEF Next

LEMMA FullAlways == Spec => []FullInv
  BY FullInit, FullStep, PTL DEF Spec

\* The map, the list and the byte count agree at every step, inside Add's loop
\* too: one element per key, and as many bytes counted as the entries have.
THEOREM BytesAddUp == Spec => []IndexMatchesList
<1>1. FullInv => IndexMatchesList
  <2> SUFFICES ASSUME FullInv
               PROVE  IndexMatchesList
    OBVIOUS
  <2>1. TotalSize(ll) \in Nat /\ Keys(ll) \subseteq Key
    BY BytesByKey DEF FullInv, IInv
  <2>2. TypeOK
    BY <2>1 DEF FullInv, IInv, BytesInv, RecencyInv, LoopInv, CallInv, TypeOK
  <2>3. MapIsList
    BY DEF FullInv, IInv, Distinct, Keys, MapIsList
  <2> QED
    BY <2>2, <2>3 DEF FullInv, BytesInv, IndexMatchesList
<1> QED
  BY <1>1, FullAlways, PTL

\* Whatever calls came before, the cache holds the most recently used keys, in
\* the order of their last use.
THEOREM RecentStay == Spec => []HoldsMostRecent
<1>1. FullInv => HoldsMostRecent
  <2> SUFFICES ASSUME FullInv
               PROVE  HoldsMostRecent
    OBVIOUS
  <2> DEFINE s == KeysOf(ll)
             a == SubSeq(s, 1, Len(s))
             b == SubSeq(use, 1, Len(s))
  <2>1. /\ use \in Seq(Key) /\ ll \in Seq(Entry) /\ Len(ll) \in Nat /\ Len(ll) <= Len(use)
        /\ \A i \in 1 .. Len(ll) : ll[i].key = use[i]
    BY DEF FullInv, IInv, RecencyInv
  <2>2. s \in Seq(Key) /\ Len(s) = Len(ll) /\ \A i \in 1 .. Len(ll) : s[i] = use[i]
    <3>1. \A i \in 1 .. Len(ll) : ll[i].key \in Key
      BY <2>1 DEF Entry
    <3>2. s = [i \in 1 .. Len(ll) |-> ll[i].key]
      BY <2>1 DEF KeysOf
    <3>3. s \in [1 .. Len(ll) -> Key]
      BY <3>1, <3>2
    <3> QED
      BY <2>1, <3>2, <3>3
  <2> HIDE DEF s
  <2>3. a \in Seq(Key) /\ b \in Seq(Key) /\ Len(a) = Len(s) /\ Len(b) = Len(s)
    BY <2>1, <2>2
  <2>4. \A i \in 1 .. Len(a) : a[i] = b[i]
    BY <2>1, <2>2, <2>3
  <2>5. a = b
    <3> HIDE DEF a, b
    <3> QED
      BY <2>3, <2>4, SeqEqual
  <2>6. IsPrefix(s, use)
    BY <2>1, <2>2, <2>5 DEF IsPrefix
  <2> QED
    BY <2>6 DEF HoldsMostRecent, s
<1> QED
  BY <1>1, FullAlways, PTL

\* Add returns with the longest run of most recent entries that fits the limit.
THEOREM EvictsNoMore == Spec => EvictsExactly
<1> DEFINE A == pc = "evict" /\ pc' = "idle" =>
                \A n \in 0 .. Len(placed) :
                    LET kept == SubSeq(placed, 1, n) IN
                    n > Len(ll) <=> maxBytes # 0 /\ TotalSize(kept) > maxBytes
<1>1. FullInv /\ [Next]_vars => A
  <2> SUFFICES ASSUME FullInv, [Next]_vars, pc = "evict", pc' = "idle",
                      NEW n \in 0 .. Len(placed)
               PROVE  n > Len(ll) <=>
                        maxBytes # 0 /\ TotalSize(SubSeq(placed, 1, n)) > maxBytes
    OBVIOUS
  <2>1. AddReturn
    BY DEF Next, vars, GetHit, GetMiss, AddUpdate, AddInsert, Evict
  <2>2. /\ placed \in Seq(Entry) /\ ll \in Seq(Entry) /\ Len(ll) \in Nat
        /\ Len(ll) <= Len(placed) /\ ll = SubSeq(placed, 1, Len(ll))
        /\ Len(ll) < Len(placed) =>
            maxBytes # 0 /\ TotalSize(SubSeq(placed, 1, Len(ll) + 1)) > maxBytes
        /\ maxBytes = 0 \/ ~(maxBytes < TotalSize(ll))
        /\ maxBytes \in Int /\ Len(placed) \in Nat
    BY <2>1, LimitsAssumption DEF FullInv, IInv, BytesInv, LoopInv, AddReturn, OverLimit
  <2>3. CASE n <= Len(ll)
    <3> DEFINE l == Len(ll)
    <3>1. n \in 0 .. Len(placed) /\ l \in n .. Len(placed)
      BY <2>2, <2>3
    <3> HIDE DEF l
    <3>2. /\ TotalSize(SubSeq(placed, 1, n)) \in Nat /\ TotalSize(SubSeq(placed, 1, l)) \in Nat
          /\ TotalSize(SubSeq(placed, 1, n)) <= TotalSize(SubSeq(placed, 1, l))
      BY <2>2, <3>1, BytesOfParts
    <3>3. TotalSize(SubSeq(placed, 1, l)) = TotalSize(ll)
      BY <2>2 DEF l
    <3> QED
      BY <2>2, <2>3, <3>2, <3>3
  <2>4. CASE n > Len(ll)
    <3> DEFINE l == Len(ll) + 1
    <3>1. l \in 0 .. Len(placed) /\ n \in l .. Len(placed) /\ Len(ll) < Len(placed)
      BY <2>2, <2>4
    <3>2. maxBytes # 0 /\ TotalSize(SubSeq(placed, 1, l)) > maxBytes
      BY <2>2, <3>1
    <3> HIDE DEF l
    <3>3. /\ TotalSize(SubSeq(placed, 1, n)) \in Nat /\ TotalSize(SubSeq(placed, 1, l)) \in Nat
          /\ TotalSize(SubSeq(placed, 1, l)) <= TotalSize(SubSeq(placed, 1, n))
      BY <2>2, <3>1, BytesOfParts
    <3> QED
      BY <2>2, <2>4, <3>2, <3>3
  <2> QED
    BY <2>2, <2>3, <2>4
<1>2. FullInv /\ [Next]_vars => [A]_vars
  BY <1>1
<1> HIDE DEF A
<1>3. Spec => [][A]_vars
  BY <1>2, FullAlways, PTL DEF Spec
<1> QED
  BY <1>3 DEF A, EvictsExactly

=============================================================================
