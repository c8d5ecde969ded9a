----------------------------- MODULE SumTheorems -----------------------------
(***************************************************************************)
(* Induction over numbers and finite sets, and what the sums of the module *)
(* Functions do when an element is added, removed or renamed.              *)
(*                                                                         *)
(* The library's induction theorems have an operator for a parameter,      *)
(* which the provers cannot instantiate.  Here a predicate is a set: a set *)
(* of numbers that is not empty has a least element, and a set of finite   *)
(* sets a minimal one.  A proof by induction takes the least counter-      *)
(* example and finds a smaller one.                                        *)
(***************************************************************************)
EXTENDS Integers, FiniteSetTheorems, TLAPS

\* A set of numbers that is not empty has a least element.
LEMMA LeastNumber ==
    ASSUME NEW S \in SUBSET Nat, S # {}
    PROVE  \E n \in S : \A m \in S : n <= m
<1> DEFINE R == OpToRel(<, Nat)
<1>1. IsWellFoundedOn(R, Nat)
  BY NatLessThanWellFounded
<1>2. \A x, y \in Nat : <<x, y>> \in R <=> x < y
  BY DEF OpToRel
<1> HIDE DEF R
<1>3. PICK n \in S : \A m \in S : ~ (<<m, n>> \in R)
  BY <1>1, WFMin
<1>4. \A m \in S : m \in Nat /\ n \in Nat
  OBVIOUS
<1>5. \A m \in S : ~(m < n)
  BY <1>2, <1>3, <1>4
<1> QED
  BY <1>4, <1>5

\* Induction over the natural numbers.
LEMMA NumberInduction ==
    ASSUME NEW S, 0 \in S, \A n \in Nat : n \in S => n + 1 \in S
    PROVE  Nat \subseteq S
<1> DEFINE bad == Nat \ S
<1> SUFFICES ASSUME bad # {}
             PROVE  FALSE
    OBVIOUS
<1>1. PICK n \in bad : \A m \in bad : n <= m
  <2>1. bad \in SUBSET Nat
    OBVIOUS
  <2> HIDE DEF bad
  <2> QED
    BY <2>1, LeastNumber
<1>2. n \in Nat /\ n # 0 /\ n - 1 \in Nat
  BY <1>1
<1>3. n - 1 \notin bad
  BY <1>1, <1>2
<1> QED
  BY <1>1, <1>2, <1>3

\* A set of subsets of a finite set that is not empty has a minimal element.
LEMMA MinimalSet ==
    ASSUME NEW S, IsFiniteSet(S), NEW C \in SUBSET SUBSET S, C # {}
    PROVE  \E T \in C : \A U \in C : U \subseteq T => U = T
<1> DEFINE R == StrictSubsetOrdering(S)
           F == FiniteSubsetsOf(S)
<1>1. IsWellFoundedOn(R, F) /\ C \subseteq F
  BY FS_StrictSubsetOrderingWellFounded, FS_FiniteSubsetsOfFinite
<1> HIDE DEF R, F
<1>2. PICK T \in C : \A U \in C : ~(<<U, T>> \in R)
  BY <1>1, WFMin
<1>3. \A U \in C : U \subseteq T /\ U # T => <<U, T>> \in R
  BY DEF R, StrictSubsetOrdering
<1>4. \A U \in C : U \subseteq T => U = T
  BY <1>2, <1>3
<1>5. T \in C
  OBVIOUS
<1> QED
  BY <1>4, <1>5

-----------------------------------------------------------------------------
(* The recursive function behind SumFunctionOnSet. *)

Pick(s) == CHOOSE x \in s : TRUE

\* g sums f over the subsets of S.
Sums(g, f, S) ==
    g = [s \in SUBSET S |-> IF s = {} THEN 0 ELSE f[Pick(s)] + g[s \ {Pick(s)}]]

LEMMA PickIn ==
    ASSUME NEW s, s # {}
    PROVE  Pick(s) \in s
  BY DEF Pick

LEMMA SumIsSums ==
    ASSUME NEW f, NEW S
    PROVE  SumFunctionOnSet(f, S) = (CHOOSE g : Sums(g, f, S))[S]
  BY DEF SumFunctionOnSet, FoldFunctionOnSet, MapThenFoldSet, Sums, Pick

\* Wherever two such functions are both defined they agree.
LEMMA SumsAgree ==
    ASSUME NEW S, IsFiniteSet(S), NEW f, NEW e, \A x \in S : f[x] = e[x],
           NEW T \in SUBSET S, NEW U \in SUBSET S,
           NEW g, Sums(g, f, T), NEW h, Sums(h, e, U)
    PROVE  \A s \in (SUBSET T) \cap (SUBSET U) : g[s] = h[s]
<1> DEFINE C == {s \in (SUBSET T) \cap (SUBSET U) : g[s] # h[s]}
<1> SUFFICES ASSUME C # {}
             PROVE  FALSE
    OBVIOUS
<1>1. PICK s \in C : \A t \in C : t \subseteq s => t = s
  <2>1. C \in SUBSET SUBSET S
    OBVIOUS
  <2> HIDE DEF C
  <2> QED
    BY <2>1, MinimalSet
<1>2. s \in SUBSET T /\ s \in SUBSET U /\ g[s] # h[s]
  BY <1>1
<1>3. s # {}
  BY <1>2 DEF Sums
<1> DEFINE t == s \ {Pick(s)}
<1>4. Pick(s) \in s /\ t \subseteq s /\ t # s /\ t \in SUBSET T /\ t \in SUBSET U
  BY <1>2, <1>3, PickIn
<1>5. g[s] = f[Pick(s)] + g[t] /\ h[s] = e[Pick(s)] + h[t]
  BY <1>2, <1>3 DEF Sums
<1>6. f[Pick(s)] = e[Pick(s)]
  BY <1>2, <1>4
<1>7. t \in C
  BY <1>2, <1>4, <1>5, <1>6
<1> QED
  BY <1>1, <1>4, <1>7

\* There is such a function.
LEMMA SumsExist ==
    ASSUME NEW S, IsFiniteSet(S), NEW f
    PROVE  \E g : Sums(g, f, S)
<1> DEFINE C == {T \in SUBSET S : ~ \E g : Sums(g, f, T)}
<1> SUFFICES ASSUME C # {}
             PROVE  FALSE
    OBVIOUS
<1>1. PICK T \in C : \A U \in C : U \subseteq T => U = T
  <2>1. C \in SUBSET SUBSET S
    OBVIOUS
  <2> HIDE DEF C
  <2> QED
    BY <2>1, MinimalSet
<1> DEFINE part(U) == CHOOSE g : Sums(g, f, U)
<1>2. \A U \in SUBSET T : U # T => Sums(part(U), f, U)
  <2> SUFFICES ASSUME NEW U \in SUBSET T, U # T
               PROVE  \E g : Sums(g, f, U)
      OBVIOUS
  <2> QED
    BY <1>1
<1> DEFINE below(s) == part(s \ {Pick(s)})[s \ {Pick(s)}]
           h == [s \in SUBSET T |-> IF s = {} THEN 0 ELSE f[Pick(s)] + below(s)]
<1>3. ASSUME NEW s \in SUBSET T, s # {}
      PROVE  h[s \ {Pick(s)}] = below(s)
  <2> DEFINE t == s \ {Pick(s)}
             u == t \ {Pick(t)}
  <2>1. t \in SUBSET T /\ t # T /\ Sums(part(t), f, t)
    BY <1>2, <1>3, PickIn
  <2>2. CASE t = {}
    <3>1. part(t)[t] = 0
      <4> HIDE DEF part, t
      <4> QED
        BY <2>1, <2>2 DEF Sums
    <3>2. h[t] = 0
      BY <2>2
    <3> QED
      BY <3>1, <3>2
  <2>3. CASE t # {}
    <3>1. u \in SUBSET t /\ u \in SUBSET T /\ u # T /\ t \subseteq S /\ u \subseteq S
      BY <2>1, <2>3, PickIn
    <3>2. Sums(part(u), f, u)
      BY <1>2, <3>1
    <3>3. IsFiniteSet(S) /\ u \in SUBSET S /\ t \in SUBSET S
      BY <3>1
    <3>4. part(t)[u] = part(u)[u]
      <4> HIDE DEF part, t, u
      <4> QED
        BY <2>1, <3>1, <3>2, <3>3, SumsAgree
    <3>5. part(t)[t] = f[Pick(t)] + part(t)[u]
      <4>1. \A g : Sums(g, f, t) => g[t] = f[Pick(t)] + g[u]
        <5> HIDE DEF part
        <5> QED
          BY <2>3 DEF Sums
      <4> HIDE DEF part, t, u
      <4> QED
        BY <2>1, <4>1
    <3>6. h[t] = f[Pick(t)] + part(u)[u]
      BY <2>1, <2>3
    <3> HIDE DEF part, h
    <3> QED
      BY <3>4, <3>5, <3>6
  <2> HIDE DEF part, h
  <2> QED
    BY <2>2, <2>3
<1>4. Sums(h, f, T)
  <2>1. h = [s \in SUBSET T |-> IF s = {} THEN 0 ELSE f[Pick(s)] + h[s \ {Pick(s)}]]
    <3>1. \A s \in SUBSET T : s # {} => h[s \ {Pick(s)}] = below(s)
      BY <1>3
    <3> HIDE DEF below
    <3> QED
      BY <3>1
  <2> QED
    BY <2>1 DEF Sums
<1> QED
  BY <1>1, <1>4

\* The function that sums f over the subsets of S gives SumFunctionOnSet.
LEMMA SumsAreSums ==
    ASSUME NEW S, IsFiniteSet(S), NEW f, NEW g, Sums(g, f, S)
    PROVE  \A T \in SUBSET S : SumFunctionOnSet(f, T) = g[T]
<1> SUFFICES ASSUME NEW T \in SUBSET S
             PROVE  SumFunctionOnSet(f, T) = g[T]
    OBVIOUS
<1> DEFINE h == CHOOSE e : Sums(e, f, T)
<1>1. IsFiniteSet(T)
  BY FS_Subset
<1>2. Sums(h, f, T)
  BY <1>1, SumsExist
<1>3. S \in SUBSET S /\ T \in SUBSET T /\ T \in SUBSET S
  OBVIOUS
<1>4. g[T] = h[T]
  <2> HIDE DEF h
  <2> QED
    BY <1>2, <1>3, SumsAgree
<1> QED
  BY <1>4, SumIsSums

LEMMA SumStep ==
    ASSUME NEW S, IsFiniteSet(S), NEW f
    PROVE  /\ S = {} => SumFunctionOnSet(f, S) = 0
           /\ S # {} => SumFunctionOnSet(f, S)
                            = f[Pick(S)] + SumFunctionOnSet(f, S \ {Pick(S)})
<1>1. PICK g : Sums(g, f, S)
  BY SumsExist
<1>2. \A T \in SUBSET S : SumFunctionOnSet(f, T) = g[T]
  BY <1>1, SumsAreSums
<1>3. S \in SUBSET S /\ S \ {Pick(S)} \in SUBSET S
  OBVIOUS
<1>4. g[S] = IF S = {} THEN 0 ELSE f[Pick(S)] + g[S \ {Pick(S)}]
  BY <1>1, <1>3 DEF Sums
<1> QED
  BY <1>2, <1>3, <1>4

-----------------------------------------------------------------------------
(* Sums of numbers. *)

\* The empty sum is 0.
LEMMA SumEmpty ==
    ASSUME NEW f
    PROVE  SumFunctionOnSet(f, {}) = 0
  BY SumStep, FS_EmptySet

\* A sum of integers is an integer, and one of natural numbers a natural number.
LEMMA SumType ==
    ASSUME NEW S, IsFiniteSet(S), NEW f, \A x \in S : f[x] \in Int
    PROVE  /\ SumFunctionOnSet(f, S) \in Int
           /\ (\A x \in S : f[x] >= 0) => SumFunctionOnSet(f, S) >= 0
<1> DEFINE good(T) == /\ SumFunctionOnSet(f, T) \in Int
                      /\ (\A x \in S : f[x] >= 0) => SumFunctionOnSet(f, T) >= 0
           C == {T \in SUBSET S : ~ good(T)}
<1> SUFFICES ASSUME C # {}
             PROVE  FALSE
    OBVIOUS
<1>1. PICK T \in C : \A U \in C : U \subseteq T => U = T
  <2>1. C \in SUBSET SUBSET S
    OBVIOUS
  <2> HIDE DEF C
  <2> QED
    BY <2>1, MinimalSet
<1> DEFINE t == T \ {Pick(T)}
<1>2. IsFiniteSet(T)
  BY FS_Subset
<1>3. T # {}
  <2>1. SumFunctionOnSet(f, {}) = 0
    BY SumEmpty
  <2>2. good({})
    BY <2>1
  <2>3. ~ good(T)
    OBVIOUS
  <2> HIDE DEF good
  <2> QED
    BY <2>2, <2>3
<1>4. Pick(T) \in T /\ Pick(T) \in S /\ t \in SUBSET S /\ t \subseteq T /\ t # T
  BY <1>3, PickIn
<1>5. good(t)
  BY <1>1, <1>4
<1>6. SumFunctionOnSet(f, T) = f[Pick(T)] + SumFunctionOnSet(f, t)
  BY <1>2, <1>3, SumStep
<1>7. good(T)
  <2> HIDE DEF t
  <2> QED
    BY <1>4, <1>5, <1>6
<1> QED
  BY <1>7

\* Any element may be taken out first.
LEMMA SumRemove ==
    ASSUME NEW S, IsFiniteSet(S), NEW f, \A x \in S : f[x] \in Int, NEW z \in S
    PROVE  SumFunctionOnSet(f, S) = f[z] + SumFunctionOnSet(f, S \ {z})
<1> DEFINE Sm(T) == SumFunctionOnSet(f, T)
           bad(T) == \E x \in T : Sm(T) # f[x] + Sm(T \ {x})
           C == {T \in SUBSET S : bad(T)}
<1> SUFFICES ASSUME C # {}
             PROVE  FALSE
    OBVIOUS
<1>1. PICK T \in C : \A U \in C : U \subseteq T => U = T
  <2>1. C \in SUBSET SUBSET S
    OBVIOUS
  <2> HIDE DEF C
  <2> QED
    BY <2>1, MinimalSet
<1>2. PICK x \in T : Sm(T) # f[x] + Sm(T \ {x})
  OBVIOUS
<1> DEFINE p == Pick(T)
<1>3. p \in T /\ IsFiniteSet(T)
  BY PickIn, FS_Subset
<1>4. Sm(T) = f[p] + Sm(T \ {p})
  BY <1>3, SumStep
<1>5. x # p
  BY <1>2, <1>4
<1> DEFINE a == T \ {p}
           b == T \ {x}
           c == (T \ {p}) \ {x}
<1>6. a \in SUBSET S /\ b \in SUBSET S /\ c \in SUBSET S /\ c = b \ {p} /\ c = a \ {x}
  OBVIOUS
<1>7. x \in a /\ p \in b /\ a # T /\ b # T /\ a \subseteq T /\ b \subseteq T
  BY <1>3, <1>5
<1>8. Sm(a) = f[x] + Sm(c)
  <2>1. ~ bad(a)
    BY <1>1, <1>6, <1>7
  <2> HIDE DEF a, b, c, Sm, p
  <2> QED
    BY <2>1, <1>6, <1>7
<1>9. Sm(b) = f[p] + Sm(c)
  <2>1. ~ bad(b)
    BY <1>1, <1>6, <1>7
  <2> HIDE DEF a, b, c, Sm, p
  <2> QED
    BY <2>1, <1>6, <1>7
<1>10. f[x] \in Int /\ f[p] \in Int /\ Sm(c) \in Int
  <2>1. IsFiniteSet(c) /\ \A y \in c : f[y] \in Int
    BY <1>6, FS_Subset
  <2>2. Sm(c) \in Int
    <3> HIDE DEF c
    <3> QED
      BY <2>1, SumType
  <2> QED
    BY <1>3, <2>2
<1>11. Sm(T) = f[x] + Sm(b)
  <2>1. Sm(T) = f[p] + Sm(a)
    BY <1>4
  <2> HIDE DEF a, b, c, Sm, p
  <2> QED
    BY <2>1, <1>8, <1>9, <1>10
<1> QED
  BY <1>2, <1>11

\* Adding an element adds its number.
LEMMA SumAdd ==
    ASSUME NEW S, IsFiniteSet(S), NEW f, NEW z, z \notin S,
           \A x \in S : f[x] \in Int, f[z] \in Int
    PROVE  SumFunctionOnSet(f, S \cup {z}) = f[z] + SumFunctionOnSet(f, S)
<1> DEFINE T == S \cup {z}
<1>1. IsFiniteSet(T) /\ z \in T /\ (\A x \in T : f[x] \in Int) /\ T \ {z} = S
  BY FS_AddElement
<1> HIDE DEF T
<1>2. SumFunctionOnSet(f, T) = f[z] + SumFunctionOnSet(f, T \ {z})
  BY <1>1, SumRemove
<1> QED
  BY <1>1, <1>2 DEF T

\* Functions that agree on a set have the same sum over it.
LEMMA SumEqual ==
    ASSUME NEW S, IsFiniteSet(S), NEW f, NEW e, \A x \in S : f[x] = e[x]
    PROVE  SumFunctionOnSet(f, S) = SumFunctionOnSet(e, S)
<1>1. PICK g : Sums(g, f, S)
  BY SumsExist
<1>2. PICK h : Sums(h, e, S)
  BY SumsExist
<1>3. S \in SUBSET S
  OBVIOUS
<1>4. g[S] = h[S]
  BY <1>1, <1>2, <1>3, SumsAgree
<1> QED
  BY <1>1, <1>2, <1>3, <1>4, SumsAreSums

\* A sum of numbers that are at most b is at most b times their number.
LEMMA SumBound ==
    ASSUME NEW S, IsFiniteSet(S), NEW f, NEW b \in Int,
           \A x \in S : f[x] \in Int /\ f[x] <= b
    PROVE  SumFunctionOnSet(f, S) <= Cardinality(S) * b
<1> DEFINE Sm(T) == SumFunctionOnSet(f, T)
           C == {T \in SUBSET S : ~(Sm(T) <= Cardinality(T) * b)}
<1> SUFFICES ASSUME C # {}
             PROVE  FALSE
    OBVIOUS
<1>1. PICK T \in C : \A U \in C : U \subseteq T => U = T
  <2>1. C \in SUBSET SUBSET S
    OBVIOUS
  <2> HIDE DEF C
  <2> QED
    BY <2>1, MinimalSet
<1>2. IsFiniteSet(T)
  BY FS_Subset
<1>3. T # {}
  <2>1. Sm({}) = 0 /\ Cardinality({}) = 0
    BY SumEmpty, FS_EmptySet
  <2>2. Sm({}) <= Cardinality({}) * b
    <3> HIDE DEF Sm
    <3> QED
      BY <2>1
  <2>3. ~(Sm(T) <= Cardinality(T) * b)
    OBVIOUS
  <2> HIDE DEF Sm
  <2> QED
    BY <2>2, <2>3
<1> DEFINE p == Pick(T)
           t == T \ {p}
<1>4. p \in T /\ p \in S /\ t \in SUBSET S /\ t \subseteq T /\ t # T
  BY <1>3, PickIn
<1>5. Sm(t) <= Cardinality(t) * b
  BY <1>1, <1>4
<1>6. Sm(T) = f[p] + Sm(t)
  BY <1>2, <1>3, SumStep
<1>7. Cardinality(t) = Cardinality(T) - 1 /\ Cardinality(T) \in Nat
  BY <1>2, <1>4, FS_RemoveElement, FS_CardinalityType
<1>8. Sm(t) \in Int /\ f[p] \in Int /\ f[p] <= b
  <2>1. IsFiniteSet(t) /\ \A y \in t : f[y] \in Int
    BY <1>4, FS_Subset
  <2>2. Sm(t) \in Int
    <3> HIDE DEF t
    <3> QED
      BY <2>1, SumType
  <2> QED
    BY <1>4, <2>2
<1>9. Sm(T) <= Cardinality(T) * b
  <2> DEFINE n == Cardinality(T)
  <2>1. (n - 1) * b = n * b - b /\ n * b \in Int
    <3> HIDE DEF n
    <3>1. n \in Int
      BY <1>7 DEF n
    <3> QED
      BY <3>1
  <2>2. Sm(t) <= n * b - b
    BY <1>5, <1>7, <2>1
  <2> HIDE DEF n, Sm, t, p
  <2>3. Sm(T) <= n * b
    BY <1>6, <1>8, <2>1, <2>2
  <2> QED
    BY <2>3 DEF n
<1> QED
  BY <1>9

\* A sum of natural numbers over a part is at most the sum over the whole.
LEMMA SumPart ==
    ASSUME NEW S, IsFiniteSet(S), NEW f, \A x \in S : f[x] \in Nat, NEW P \in SUBSET S
    PROVE  SumFunctionOnSet(f, P) <= SumFunctionOnSet(f, S)
<1> DEFINE Sm(T) == SumFunctionOnSet(f, T)
           C == {T \in SUBSET S : P \subseteq T /\ ~(Sm(P) <= Sm(T))}
<1> SUFFICES ASSUME C # {}
             PROVE  FALSE
    OBVIOUS
<1>1. PICK T \in C : \A U \in C : U \subseteq T => U = T
  <2>1. C \in SUBSET SUBSET S
    OBVIOUS
  <2> HIDE DEF C
  <2> QED
    BY <2>1, MinimalSet
<1>2. \A U \in SUBSET S : Sm(U) \in Int
  <2> SUFFICES ASSUME NEW U \in SUBSET S
               PROVE  Sm(U) \in Int
      OBVIOUS
  <2>1. IsFiniteSet(U) /\ \A x \in U : f[x] \in Int
    BY FS_Subset
  <2> QED
    BY <2>1, SumType
<1>3. P # T
  BY <1>1, <1>2
<1>4. PICK p \in T : p \notin P
  BY <1>1, <1>3
<1> DEFINE t == T \ {p}
<1>5. t \in SUBSET S /\ t \subseteq T /\ t # T /\ P \subseteq t
  BY <1>1, <1>4
<1>6. Sm(P) <= Sm(t)
  BY <1>1, <1>5
<1>7. IsFiniteSet(T) /\ (\A x \in T : f[x] \in Int) /\ f[p] \in Nat
  BY <1>1, <1>4, FS_Subset
<1>8. Sm(T) = f[p] + Sm(t)
  BY <1>4, <1>7, SumRemove
<1>9. Sm(T) \in Int /\ Sm(t) \in Int /\ Sm(P) \in Int /\ ~(Sm(P) <= Sm(T))
  BY <1>1, <1>2, <1>5
<1> HIDE DEF Sm, t
<1> QED
  BY <1>6, <1>7, <1>8, <1>9

\* Renaming the elements of the set, one to one, leaves the sum.
LEMMA SumRenamed ==
    ASSUME NEW S, IsFiniteSet(S), NEW f, NEW e, NEW r,
           \A x, y \in S : r[x] = r[y] => x = y,
           \A x \in S : f[x] \in Int /\ f[x] = e[r[x]]
    PROVE  SumFunctionOnSet(f, S) = SumFunctionOnSet(e, {r[x] : x \in S})
<1> DEFINE R(T) == {r[x] : x \in T}
           bad(T) == SumFunctionOnSet(f, T) # SumFunctionOnSet(e, R(T))
           C == {T \in SUBSET S : bad(T)}
<1> SUFFICES ASSUME C # {}
             PROVE  FALSE
    OBVIOUS
<1>1. PICK T \in C : \A U \in C : U \subseteq T => U = T
  <2>1. C \in SUBSET SUBSET S
    OBVIOUS
  <2> HIDE DEF C
  <2> QED
    BY <2>1, MinimalSet
<1>2. IsFiniteSet(T) /\ IsFiniteSet(R(T))
  <2>1. IsFiniteSet(T)
    BY FS_Subset
  <2>2. [x \in T |-> r[x]] \in Surjection(T, R(T))
    BY DEF Surjection
  <2> HIDE DEF R
  <2> QED
    BY <2>1, <2>2, FS_Surjection
<1>3. T # {}
  <2>1. R({}) = {}
    OBVIOUS
  <2>2. SumFunctionOnSet(f, {}) = 0 /\ SumFunctionOnSet(e, {}) = 0
    BY SumEmpty
  <2>3. bad(T)
    OBVIOUS
  <2>4. ~ bad({})
    BY <2>1, <2>2
  <2> HIDE DEF bad
  <2> QED
    BY <2>3, <2>4
<1>4. PICK p \in T : TRUE
  BY <1>3
<1> DEFINE t == T \ {p}
<1>5. t \in SUBSET S /\ t \subseteq T /\ t # T
  BY <1>4
<1>6. SumFunctionOnSet(f, t) = SumFunctionOnSet(e, R(t))
  BY <1>1, <1>5
<1>7. R(t) = R(T) \ {r[p]} /\ r[p] \in R(T)
  BY <1>4
<1>8. SumFunctionOnSet(f, T) = f[p] + SumFunctionOnSet(f, t)
  <2>1. \A x \in T : f[x] \in Int
    OBVIOUS
  <2> QED
    BY <1>2, <1>4, <2>1, SumRemove
<1>9. SumFunctionOnSet(e, R(T)) = e[r[p]] + SumFunctionOnSet(e, R(T) \ {r[p]})
  <2>1. \A y \in R(T) : e[y] \in Int
    OBVIOUS
  <2> HIDE DEF R
  <2> QED
    BY <1>2, <1>7, <2>1, SumRemove
<1>10. f[p] = e[r[p]]
  BY <1>4
<1>11. ~ bad(T)
  BY <1>6, <1>7, <1>8, <1>9, <1>10
<1> QED
  BY <1>11
==============================================================================
