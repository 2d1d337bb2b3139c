----------------------------- MODULE SumTheorems -----------------------------
(* Induction over numbers and over the subsets of a finite set, and sums    *)
(* over finite sets, SumFunctionOnSet of the community modules.             *)
EXTENDS Integers, FiniteSets, Functions, FiniteSetTheorems, WellFoundedInduction, TLAPS

\* A set of numbers that is not empty has a least one.
LEMMA LowestNumber ==
  ASSUME NEW T, T \subseteq Nat, T # {}
  PROVE  \E x \in T : \A y \in T : x <= y
<1> DEFINE Lower == { ss \in Nat \X Nat : ss[1] < ss[2] }
<1>1. IsWellFoundedOn(Lower, Nat)
  BY NatLessThanWellFounded DEF OpToRel
<1>2. \E x \in T : \A y \in T : ~ (<< y, x >> \in Lower)
  <2> HIDE DEF Lower
  <2> QED
    BY <1>1, WFMin
<1>3. ASSUME NEW x \in T, NEW y \in T, << y, x >> \notin Lower PROVE x <= y
  <2>1. << y, x >> \in Nat \X Nat
    OBVIOUS
  <2> QED
    BY <1>3, <2>1
<1> HIDE DEF Lower
<1> QED
  BY <1>2, <1>3

\* A set with 0 and the successor of each of its numbers has them all.
LEMMA EveryNumber ==
  ASSUME NEW S, 0 \in S, \A m \in Nat : m \in S => m + 1 \in S
  PROVE  Nat \subseteq S
<1> DEFINE T == Nat \ S
<1> SUFFICES ASSUME T # {} PROVE FALSE
  OBVIOUS
<1>1. PICK x \in T : \A y \in T : x <= y
  BY LowestNumber
<1>2. x - 1 \in Nat /\ x - 1 \notin T
  BY <1>1
<1> QED
  BY <1>1, <1>2

\* A set of subsets has all of them, if it has each subset whose smaller ones
\* it has.
LEMMA AllSubsets ==
  ASSUME NEW S, IsFiniteSet(S), NEW X, X \subseteq SUBSET S,
         \A s \in SUBSET S : (\A x \in s : s \ {x} \in X) => s \in X
  PROVE  X = SUBSET S
<1> DEFINE Bad == (SUBSET S) \ X
           T == {Cardinality(s) : s \in Bad}
<1> SUFFICES ASSUME Bad # {} PROVE FALSE
  OBVIOUS
<1>1. \A s \in SUBSET S : IsFiniteSet(s) /\ Cardinality(s) \in Nat
  BY FS_Subset, FS_CardinalityType
<1>2. T \subseteq Nat /\ T # {}
  BY <1>1
<1>3. PICK n \in T : \A m \in T : n <= m
  BY <1>2, LowestNumber
<1>4. PICK s \in Bad : n = Cardinality(s)
  OBVIOUS
<1>5. ASSUME NEW x \in s PROVE s \ {x} \in X
  <2>1. Cardinality(s \ {x}) = Cardinality(s) - 1
    BY <1>1, FS_RemoveElement
  <2>2. s \ {x} \in SUBSET S
    OBVIOUS
  <2>3. CASE s \ {x} \in Bad
    <3>1. n <= Cardinality(s \ {x})
      BY <1>3, <2>3
    <3> QED
      BY <1>1, <1>4, <2>1, <3>1
  <2> QED
    BY <2>2, <2>3
<1> QED
  BY <1>4, <1>5

\* What MapThenSumSet looks up: h[s] is the sum of v over s.
SumOf(h, v, s) ==
  IF s = {} THEN 0 ELSE v[CHOOSE x \in s : TRUE] + h[s \ {CHOOSE x \in s : TRUE}]
Sums(h, v, S) == h = [s \in SUBSET S |-> SumOf(h, v, s)]

\* n is the sum of v over S.
IsTotal(n, v, S) == \E h : Sums(h, v, S) /\ n = h[S]

\* There is a sum.
LEMMA SumExists ==
  ASSUME NEW S, IsFiniteSet(S), NEW T, S \subseteq T, NEW v \in [T -> Nat]
  PROVE  \E h \in [SUBSET S -> Nat] : Sums(h, v, S)
<1> DEFINE Upto(h, n) == \A s \in SUBSET S : Cardinality(s) <= n => h[s] = SumOf(h, v, s)
           X == {n \in Nat : \E h \in [SUBSET S -> Nat] : Upto(h, n)}
<1>1. \A s \in SUBSET S : IsFiniteSet(s) /\ Cardinality(s) \in Nat
  BY FS_Subset, FS_CardinalityType
<1>2. ASSUME NEW h \in [SUBSET S -> Nat], NEW s \in SUBSET S PROVE SumOf(h, v, s) \in Nat
  <2>1. CASE s = {}
    BY <2>1 DEF SumOf
  <2>2. CASE s # {}
    <3> DEFINE c == CHOOSE x \in s : TRUE
    <3>1. c \in s
      BY <2>2
    <3> HIDE DEF c
    <3>2. v[c] \in Nat /\ h[s \ {c}] \in Nat
      BY <3>1
    <3>3. SumOf(h, v, s) = v[c] + h[s \ {c}]
      BY <2>2 DEF SumOf, c
    <3> QED
      BY <3>2, <3>3
  <2> QED
    BY <2>1, <2>2
<1>3. 0 \in X
  <2> DEFINE h == [s \in SUBSET S |-> 0]
  <2>1. ASSUME NEW s \in SUBSET S, Cardinality(s) <= 0 PROVE h[s] = SumOf(h, v, s)
    <3>1. s = {}
      BY <1>1, <2>1, FS_EmptySet
    <3> QED
      BY <3>1 DEF SumOf
  <2>2. h \in [SUBSET S -> Nat]
    OBVIOUS
  <2> HIDE DEF h
  <2> QED
    BY <2>1, <2>2
<1>4. ASSUME NEW n \in Nat, n \in X PROVE n + 1 \in X
  <2>1. PICK h \in [SUBSET S -> Nat] : Upto(h, n)
    BY <1>4
  <2> DEFINE k == [s \in SUBSET S |-> SumOf(h, v, s)]
  <2>2. k \in [SUBSET S -> Nat]
    BY <1>2
  <2>3. ASSUME NEW s \in SUBSET S, Cardinality(s) <= n + 1 PROVE k[s] = SumOf(k, v, s)
    <3>1. CASE s = {}
      BY <3>1 DEF SumOf
    <3>2. CASE s # {}
      <4> DEFINE c == CHOOSE x \in s : TRUE
      <4>1. c \in s
        BY <3>2
      <4>2. k[s] = v[c] + h[s \ {c}]
        BY <3>2 DEF SumOf
      <4>3. SumOf(k, v, s) = v[c] + k[s \ {c}]
        BY <3>2 DEF SumOf
      <4> HIDE DEF c
      <4>4. s \ {c} \in SUBSET S
        OBVIOUS
      <4>5. Cardinality(s \ {c}) = Cardinality(s) - 1
        BY <1>1, <4>1, FS_RemoveElement
      <4>6. Cardinality(s \ {c}) <= n
        BY <1>1, <2>3, <4>4, <4>5
      <4>7. k[s \ {c}] = h[s \ {c}]
        BY <2>1, <4>4, <4>6
      <4> QED
        BY <4>2, <4>3, <4>7
    <3> QED
      BY <3>1, <3>2
  <2> HIDE DEF k
  <2> QED
    BY <2>2, <2>3
<1>5. Nat \subseteq X
  <2> HIDE DEF X
  <2> QED
    BY <1>3, <1>4, EveryNumber
<1>6. PICK h \in [SUBSET S -> Nat] : Upto(h, Cardinality(S))
  BY <1>1, <1>5
<1>7. ASSUME NEW s \in SUBSET S PROVE Cardinality(s) <= Cardinality(S)
  BY FS_Subset
<1>8. \A s \in SUBSET S : h[s] = SumOf(h, v, s)
  BY <1>6, <1>7
<1> QED
  BY <1>8 DEF Sums

LEMMA SumStep ==
  ASSUME NEW S, NEW v, NEW h, Sums(h, v, S), NEW s \in SUBSET S
  PROVE  /\ s = {} => h[s] = 0
         /\ s # {} => \E c \in s : c = (CHOOSE x \in s : TRUE) /\ h[s] = v[c] + h[s \ {c}]
<1>1. h[s] = SumOf(h, v, s)
  BY DEF Sums
<1> QED
  BY <1>1 DEF SumOf

\* Sums are numbers.
LEMMA SumNat ==
  ASSUME NEW S, IsFiniteSet(S), NEW v, \A x \in S : v[x] \in Nat, NEW h, Sums(h, v, S)
  PROVE  \A s \in SUBSET S : h[s] \in Nat
<1> DEFINE X == {s \in SUBSET S : h[s] \in Nat}
<1>1. ASSUME NEW s \in SUBSET S, \A x \in s : s \ {x} \in X PROVE s \in X
  <2>1. CASE s = {}
    BY <2>1, SumStep
  <2>2. CASE s # {}
    <3>1. PICK c \in s : h[s] = v[c] + h[s \ {c}]
      BY <2>2, SumStep
    <3>2. v[c] \in Nat /\ h[s \ {c}] \in Nat
      BY <1>1
    <3> QED
      BY <3>1, <3>2
  <2> QED
    BY <2>1, <2>2
<1>2. X = SUBSET S
  <2> HIDE DEF X
  <2>1. X \subseteq SUBSET S
    BY DEF X
  <2> QED
    BY <1>1, <2>1, AllSubsets
<1> QED
  BY <1>2

-----------------------------------------------------------------------------
(* The same, of SumFunctionOnSet.                                           *)

\* The natural numbers v has on S.
Nats(v, S) == \A x \in S : v[x] \in Nat

LEMMA SumIs ==
  ASSUME NEW S, NEW v, \E h : Sums(h, v, S)
  PROVE  \E h : Sums(h, v, S) /\ SumFunctionOnSet(v, S) = h[S]
<1> DEFINE Q(h) == h = [s \in SUBSET S |->
                           IF s = {} THEN 0 ELSE v[CHOOSE x \in s : TRUE] + h[s \ {CHOOSE x \in s : TRUE}]]
<1>1. SumFunctionOnSet(v, S) = (CHOOSE h : Q(h))[S]
  BY Zenon DEF SumFunctionOnSet, FoldFunctionOnSet, MapThenFoldSet
<1>2. \A h : Q(h) <=> Sums(h, v, S)
  BY Zenon DEF Sums, SumOf
<1> HIDE DEF Q
<1> QED
  BY <1>1, <1>2

\* Two tables of the sums of the same have the same sums.
LEMMA SumsAlike ==
  ASSUME NEW S, IsFiniteSet(S), NEW T, IsFiniteSet(T), NEW u, NEW v, NEW g, Sums(g, u, S), NEW h, Sums(h, v, T)
  PROVE  \A s \in SUBSET S : s \subseteq T /\ (\A x \in s : u[x] = v[x]) => g[s] = h[s]
<1> DEFINE X == {s \in SUBSET S : s \subseteq T /\ (\A x \in s : u[x] = v[x]) => g[s] = h[s]}
<1>1. ASSUME NEW s \in SUBSET S, \A x \in s : s \ {x} \in X, s \subseteq T, \A x \in s : u[x] = v[x]
      PROVE  g[s] = h[s]
  <2>1. CASE s = {}
    BY <1>1, <2>1, SumStep
  <2>2. CASE s # {}
    <3> DEFINE c == CHOOSE x \in s : TRUE
    <3>1. c \in s
      BY <2>2
    <3>2. g[s] = SumOf(g, u, s) /\ h[s] = SumOf(h, v, s)
      BY <1>1 DEF Sums
    <3>3. g[s] = u[c] + g[s \ {c}] /\ h[s] = v[c] + h[s \ {c}]
      BY <2>2, <3>2 DEF SumOf
    <3> HIDE DEF c
    <3>4. g[s \ {c}] = h[s \ {c}]
      BY <1>1, <3>1
    <3> QED
      BY <1>1, <3>1, <3>3, <3>4
  <2> QED
    BY <2>1, <2>2
<1>2. X = SUBSET S
  <2>1. \A s \in SUBSET S : (\A x \in s : s \ {x} \in X) => s \in X
    BY <1>1
  <2>2. X \subseteq SUBSET S
    OBVIOUS
  <2> HIDE DEF X
  <2> QED
    BY <2>1, <2>2, AllSubsets
<1> QED
  BY <1>2

\* The sums of all subsets of S.
IsTable(h, v, S) ==
  /\ h \in [SUBSET S -> Nat] /\ Sums(h, v, S)
  /\ \A s \in SUBSET S : SumFunctionOnSet(v, s) = h[s]

LEMMA SumTable ==
  ASSUME NEW S, IsFiniteSet(S), NEW v, Nats(v, S)
  PROVE  \E h : IsTable(h, v, S)
<1> DEFINE u == [x \in S |-> v[x]]
<1>1. u \in [S -> Nat]
  BY DEF Nats
<1>2. PICK h \in [SUBSET S -> Nat] : Sums(h, u, S)
  BY <1>1, SumExists
<1>3. ASSUME NEW s \in SUBSET S PROVE SumOf(h, u, s) = SumOf(h, v, s)
  <2>1. CASE s = {}
    BY <2>1 DEF SumOf
  <2>2. CASE s # {}
    <3>1. (CHOOSE x \in s : TRUE) \in S
      BY <2>2
    <3> QED
      BY <2>2, <3>1 DEF SumOf
  <2> QED
    BY <2>1, <2>2
<1>4. Sums(h, v, S)
  BY <1>2, <1>3 DEF Sums
<1>5. ASSUME NEW s \in SUBSET S PROVE SumFunctionOnSet(v, s) = h[s]
  <2>1. IsFiniteSet(s)
    BY FS_Subset
  <2>2. [x \in s |-> v[x]] \in [s -> Nat]
    BY DEF Nats
  <2>3. PICK k \in [SUBSET s -> Nat] : Sums(k, [x \in s |-> v[x]], s)
    BY <2>1, <2>2, SumExists
  <2>4. ASSUME NEW t \in SUBSET s PROVE SumOf(k, [x \in s |-> v[x]], t) = SumOf(k, v, t)
    <3>1. CASE t = {}
      BY <3>1 DEF SumOf
    <3>2. CASE t # {}
      <4>1. (CHOOSE x \in t : TRUE) \in s
        BY <3>2
      <4> QED
        BY <3>2, <4>1 DEF SumOf
    <3> QED
      BY <3>1, <3>2
  <2>5. Sums(k, v, s)
    BY <2>3, <2>4 DEF Sums
  <2>6. PICK g : Sums(g, v, s) /\ SumFunctionOnSet(v, s) = g[s]
    BY <2>5, SumIs
  <2>7. g[s] = h[s]
    BY <1>4, <2>1, <2>6, SumsAlike
  <2> QED
    BY <2>6, <2>7
<1> QED
  BY <1>2, <1>4, <1>5 DEF IsTable

LEMMA SumIsNat ==
  ASSUME NEW S, IsFiniteSet(S), NEW v, Nats(v, S)
  PROVE  SumFunctionOnSet(v, S) \in Nat
<1>1. PICK h : IsTable(h, v, S)
  BY SumTable
<1> QED
  BY <1>1 DEF IsTable

LEMMA SumIsEmpty ==
  ASSUME NEW v PROVE SumFunctionOnSet(v, {}) = 0
<1>1. IsFiniteSet({}) /\ Nats(v, {})
  BY FS_EmptySet DEF Nats
<1>2. PICK h : IsTable(h, v, {})
  BY <1>1, SumTable
<1>3. Sums(h, v, {}) /\ SumFunctionOnSet(v, {}) = h[{}]
  BY <1>2 DEF IsTable
<1>4. h[{}] = 0
  BY <1>3, SumStep
<1> QED
  BY <1>3, <1>4

LEMMA SumIsSame ==
  ASSUME NEW S, IsFiniteSet(S), NEW u, Nats(u, S), NEW v, \A x \in S : u[x] = v[x]
  PROVE  SumFunctionOnSet(u, S) = SumFunctionOnSet(v, S)
<1>1. Nats(v, S)
  BY DEF Nats
<1>2. PICK g : IsTable(g, u, S)
  BY SumTable
<1>3. PICK h : IsTable(h, v, S)
  BY <1>1, SumTable
<1>4. Sums(g, u, S) /\ Sums(h, v, S) /\ SumFunctionOnSet(u, S) = g[S] /\ SumFunctionOnSet(v, S) = h[S]
  BY <1>2, <1>3 DEF IsTable
<1>5. g[S] = h[S]
  BY <1>4, SumsAlike
<1> QED
  BY <1>4, <1>5

\* The order does not matter: any element may be taken apart.
LEMMA SumRemove ==
  ASSUME NEW S, IsFiniteSet(S), NEW v, Nats(v, S), NEW x \in S
  PROVE  SumFunctionOnSet(v, S) = v[x] + SumFunctionOnSet(v, S \ {x})
<1>1. PICK h : IsTable(h, v, S)
  BY SumTable
<1>2. h \in [SUBSET S -> Nat] /\ Sums(h, v, S)
  BY <1>1 DEF IsTable
<1> DEFINE X == {s \in SUBSET S : \A y \in s : h[s] = v[y] + h[s \ {y}]}
<1>3. ASSUME NEW s \in SUBSET S, \A y \in s : s \ {y} \in X, NEW y \in s
      PROVE  h[s] = v[y] + h[s \ {y}]
  <2>1. PICK c \in s : h[s] = v[c] + h[s \ {c}]
    BY <1>2, SumStep
  <2>2. CASE c = y
    BY <2>1, <2>2
  <2>3. CASE c # y
    <3>1. h[s \ {c}] = v[y] + h[(s \ {c}) \ {y}]
      BY <1>3, <2>3
    <3>2. h[s \ {y}] = v[c] + h[(s \ {y}) \ {c}]
      BY <1>3, <2>3
    <3>3. (s \ {c}) \ {y} = (s \ {y}) \ {c}
      OBVIOUS
    <3>4. v[c] \in Nat /\ v[y] \in Nat /\ h[(s \ {y}) \ {c}] \in Nat
      BY <1>2 DEF Nats
    <3>5. h[s] = v[c] + (v[y] + h[(s \ {y}) \ {c}])
      BY <2>1, <3>1, <3>3
    <3> QED
      BY <3>2, <3>4, <3>5
  <2> QED
    BY <2>2, <2>3
<1>4. X = SUBSET S
  <2>1. \A s \in SUBSET S : (\A y \in s : s \ {y} \in X) => s \in X
    BY <1>3
  <2>2. X \subseteq SUBSET S
    OBVIOUS
  <2> HIDE DEF X
  <2> QED
    BY <2>1, <2>2, AllSubsets
<1>5. h[S] = v[x] + h[S \ {x}]
  BY <1>4
<1>6. SumFunctionOnSet(v, S) = h[S] /\ SumFunctionOnSet(v, S \ {x}) = h[S \ {x}]
  BY <1>1 DEF IsTable
<1> QED
  BY <1>5, <1>6

\* The sum of a sum.
LEMMA SumPlus ==
  ASSUME NEW S, IsFiniteSet(S), NEW u, NEW v, Nats(v, S), NEW w, Nats(w, S),
         \A x \in S : u[x] = v[x] + w[x]
  PROVE  SumFunctionOnSet(u, S) = SumFunctionOnSet(v, S) + SumFunctionOnSet(w, S)
<1>1. Nats(u, S)
  BY DEF Nats
<1>2. \A s \in SUBSET S : /\ IsFiniteSet(s) /\ Nats(u, s) /\ Nats(v, s) /\ Nats(w, s)
                         /\ \A x \in s : u[x] = v[x] + w[x] /\ v[x] \in Nat /\ w[x] \in Nat
  BY <1>1, FS_Subset DEF Nats
<1> DEFINE X == {s \in SUBSET S : SumFunctionOnSet(u, s) = SumFunctionOnSet(v, s) + SumFunctionOnSet(w, s)}
<1>3. ASSUME NEW s \in SUBSET S, \A y \in s : s \ {y} \in X
      PROVE  SumFunctionOnSet(u, s) = SumFunctionOnSet(v, s) + SumFunctionOnSet(w, s)
  <2>1. CASE s = {}
    BY <2>1, SumIsEmpty
  <2>2. CASE s # {}
    <3>1. PICK x \in s : TRUE
      BY <2>2
    <3>2. SumFunctionOnSet(u, s) = u[x] + SumFunctionOnSet(u, s \ {x})
      BY <1>2, SumRemove
    <3>3. SumFunctionOnSet(v, s) = v[x] + SumFunctionOnSet(v, s \ {x})
      BY <1>2, SumRemove
    <3>4. SumFunctionOnSet(w, s) = w[x] + SumFunctionOnSet(w, s \ {x})
      BY <1>2, SumRemove
    <3>5. s \ {x} \in SUBSET S
      OBVIOUS
    <3>6. SumFunctionOnSet(v, s \ {x}) \in Nat /\ SumFunctionOnSet(w, s \ {x}) \in Nat
      BY <1>2, <3>5, SumIsNat
    <3>7. SumFunctionOnSet(u, s \ {x}) = SumFunctionOnSet(v, s \ {x}) + SumFunctionOnSet(w, s \ {x})
      BY <1>3
    <3>8. u[x] = v[x] + w[x] /\ v[x] \in Nat /\ w[x] \in Nat
      BY <1>2
    <3> QED
      BY <3>2, <3>3, <3>4, <3>6, <3>7, <3>8
  <2> QED
    BY <2>1, <2>2
<1>4. X = SUBSET S
  <2>1. \A s \in SUBSET S : (\A y \in s : s \ {y} \in X) => s \in X
    BY <1>3
  <2>2. X \subseteq SUBSET S
    OBVIOUS
  <2> HIDE DEF X
  <2> QED
    BY <2>1, <2>2, AllSubsets
<1>5. S \in X
  BY <1>4
<1> QED
  BY <1>5

\* What is nothing outside of a part of S.
LEMMA SumOfPart ==
  ASSUME NEW S, IsFiniteSet(S), NEW v, Nats(v, S), NEW t \in SUBSET S, \A x \in S \ t : v[x] = 0
  PROVE  SumFunctionOnSet(v, S) = SumFunctionOnSet(v, t)
<1> DEFINE X == {s \in SUBSET S : t \subseteq s => SumFunctionOnSet(v, s) = SumFunctionOnSet(v, t)}
<1>1. \A s \in SUBSET S : IsFiniteSet(s) /\ Nats(v, s)
  BY FS_Subset DEF Nats
<1>2. ASSUME NEW s \in SUBSET S, \A y \in s : s \ {y} \in X, t \subseteq s
      PROVE  SumFunctionOnSet(v, s) = SumFunctionOnSet(v, t)
  <2>1. CASE s = t
    BY <2>1
  <2>2. CASE s # t
    <3>1. PICK x \in s : x \notin t
      BY <1>2, <2>2
    <3>2. SumFunctionOnSet(v, s) = v[x] + SumFunctionOnSet(v, s \ {x})
      BY <1>1, SumRemove
    <3>3. v[x] = 0
      BY <3>1
    <3>4. SumFunctionOnSet(v, s \ {x}) = SumFunctionOnSet(v, t)
      BY <1>2, <3>1
    <3>5. SumFunctionOnSet(v, t) \in Nat
      BY <1>1, SumIsNat
    <3> QED
      BY <3>2, <3>3, <3>4, <3>5
  <2> QED
    BY <2>1, <2>2
<1>3. X = SUBSET S
  <2>1. \A s \in SUBSET S : (\A y \in s : s \ {y} \in X) => s \in X
    BY <1>2
  <2>2. X \subseteq SUBSET S
    OBVIOUS
  <2> HIDE DEF X
  <2> QED
    BY <2>1, <2>2, AllSubsets
<1>4. S \in X
  BY <1>3
<1> QED
  BY <1>4

LEMMA SumOfOne ==
  ASSUME NEW x, NEW v, v[x] \in Nat
  PROVE  SumFunctionOnSet(v, {x}) = v[x]
<1>1. IsFiniteSet({x}) /\ Nats(v, {x})
  BY FS_Singleton DEF Nats
<1>2. SumFunctionOnSet(v, {x}) = v[x] + SumFunctionOnSet(v, {x} \ {x})
  BY <1>1, SumRemove
<1>3. {x} \ {x} = {}
  OBVIOUS
<1> QED
  BY <1>2, <1>3, SumIsEmpty

\* The sums of what g puts together add up to the sum.
Fibre(g, s, t) == {x \in s : g[x] = t}
FibreSums(g, v, s, T) == [t \in T |-> SumFunctionOnSet(v, Fibre(g, s, t))]

LEMMA SumOfSums ==
  ASSUME NEW S, IsFiniteSet(S), NEW T, IsFiniteSet(T), NEW g \in [S -> T], NEW v, Nats(v, S)
  PROVE  SumFunctionOnSet(FibreSums(g, v, S, T), T) = SumFunctionOnSet(v, S)
<1> DEFINE X == {s \in SUBSET S : SumFunctionOnSet(FibreSums(g, v, s, T), T) = SumFunctionOnSet(v, s)}
<1>1. \A s \in SUBSET S : IsFiniteSet(s) /\ Nats(v, s)
  BY FS_Subset DEF Nats
<1>2. ASSUME NEW s \in SUBSET S
      PROVE  /\ \A t \in T : Fibre(g, s, t) \in SUBSET S /\ FibreSums(g, v, s, T)[t] = SumFunctionOnSet(v, Fibre(g, s, t))
             /\ Nats(FibreSums(g, v, s, T), T)
  <2>1. \A t \in T : Fibre(g, s, t) \in SUBSET S
    BY DEF Fibre
  <2>2. \A t \in T : SumFunctionOnSet(v, Fibre(g, s, t)) \in Nat
    BY <1>1, <2>1, SumIsNat
  <2> QED
    BY <2>1, <2>2 DEF FibreSums, Nats
<1>3. ASSUME NEW s \in SUBSET S, \A y \in s : s \ {y} \in X
      PROVE  SumFunctionOnSet(FibreSums(g, v, s, T), T) = SumFunctionOnSet(v, s)
  <2>1. CASE s = {}
    <3>1. \A t \in T : Fibre(g, s, t) = {}
      BY <2>1 DEF Fibre
    <3>2. \A t \in T : FibreSums(g, v, s, T)[t] = 0
      BY <1>2, <3>1, SumIsEmpty
    <3>3. SumFunctionOnSet(FibreSums(g, v, s, T), T) = SumFunctionOnSet(FibreSums(g, v, s, T), {})
      <4>1. {} \in SUBSET T /\ (\A t \in T \ {} : FibreSums(g, v, s, T)[t] = 0) /\ Nats(FibreSums(g, v, s, T), T)
        BY <1>2, <3>2
      <4> QED
        BY <4>1, SumOfPart
    <3> QED
      BY <2>1, <3>3, SumIsEmpty
  <2>2. CASE s # {}
    <3>1. PICK x \in s : TRUE
      BY <2>2
    <3> DEFINE r == s \ {x}
               one == [t \in T |-> IF t = g[x] THEN v[x] ELSE 0]
    <3>2. r \in SUBSET S /\ r \in X /\ x \in S
      BY <1>3
    <3>3. v[x] \in Nat /\ g[x] \in T
      BY <3>2 DEF Nats
    <3>4. ASSUME NEW t \in T PROVE FibreSums(g, v, s, T)[t] = FibreSums(g, v, r, T)[t] + one[t]
      <4>1. CASE t = g[x]
        <5>1. x \in Fibre(g, s, t) /\ Fibre(g, s, t) \ {x} = Fibre(g, r, t)
          BY <4>1 DEF Fibre
        <5>2. Fibre(g, s, t) \in SUBSET S
          BY <1>2
        <5>3. SumFunctionOnSet(v, Fibre(g, s, t)) = v[x] + SumFunctionOnSet(v, Fibre(g, s, t) \ {x})
          BY <1>1, <5>1, <5>2, SumRemove
        <5>4. FibreSums(g, v, s, T)[t] = v[x] + FibreSums(g, v, r, T)[t]
          BY <1>2, <3>2, <5>1, <5>3
        <5>5. FibreSums(g, v, r, T)[t] \in Nat
          BY <1>2, <3>2 DEF Nats
        <5>6. one[t] = v[x]
          BY <4>1
        <5> HIDE DEF one, r
        <5> QED
          BY <3>3, <5>4, <5>5, <5>6
      <4>2. CASE t # g[x]
        <5>1. Fibre(g, s, t) = Fibre(g, r, t)
          BY <4>2 DEF Fibre
        <5>2. FibreSums(g, v, r, T)[t] \in Nat
          BY <1>2, <3>2 DEF Nats
        <5>3. FibreSums(g, v, s, T)[t] = FibreSums(g, v, r, T)[t]
          BY <1>2, <3>2, <5>1
        <5>4. one[t] = 0
          BY <4>2
        <5> HIDE DEF one, r
        <5> QED
          BY <5>2, <5>3, <5>4
      <4> QED
        BY <4>1, <4>2
    <3>5. Nats(one, T) /\ one[g[x]] = v[x] /\ \A t \in T \ {g[x]} : one[t] = 0
      BY <3>3 DEF Nats
    <3>6. SumFunctionOnSet(one, T) = v[x]
      <4> HIDE DEF one
      <4>1. {g[x]} \in SUBSET T
        BY <3>3
      <4>2. SumFunctionOnSet(one, T) = SumFunctionOnSet(one, {g[x]})
        BY <3>5, <4>1, SumOfPart
      <4> QED
        BY <3>3, <3>5, <4>2, SumOfOne
    <3>7. Nats(FibreSums(g, v, r, T), T)
      BY <1>2, <3>2
    <3>8. SumFunctionOnSet(FibreSums(g, v, r, T), T) = SumFunctionOnSet(v, r)
      BY <3>2
    <3> HIDE DEF one, r
    <3>9. SumFunctionOnSet(FibreSums(g, v, s, T), T) = SumFunctionOnSet(FibreSums(g, v, r, T), T) + SumFunctionOnSet(one, T)
      BY <3>4, <3>5, <3>7, SumPlus
    <3>10. SumFunctionOnSet(v, s) = v[x] + SumFunctionOnSet(v, r)
      BY <1>1, SumRemove DEF r
    <3>11. SumFunctionOnSet(v, r) \in Nat
      BY <1>1, <3>2, SumIsNat
    <3> QED
      BY <3>3, <3>6, <3>8, <3>9, <3>10, <3>11
  <2> QED
    BY <2>1, <2>2
<1>4. X = SUBSET S
  <2>1. \A s \in SUBSET S : (\A y \in s : s \ {y} \in X) => s \in X
    BY <1>3
  <2>2. X \subseteq SUBSET S
    OBVIOUS
  <2> HIDE DEF X
  <2> QED
    BY <2>1, <2>2, AllSubsets
<1>5. S \in X
  BY <1>4
<1> QED
  BY <1>5

\* What is counted under other names.
LEMMA SumRenamed ==
  ASSUME NEW S, IsFiniteSet(S), NEW T, IsFiniteSet(T), NEW g \in [S -> T], NEW v, Nats(v, S),
         \A x, y \in S : g[x] = g[y] => x = y, \A t \in T : \E x \in S : g[x] = t,
         NEW u, \A x \in S : u[g[x]] = v[x]
  PROVE  SumFunctionOnSet(u, T) = SumFunctionOnSet(v, S)
<1>1. ASSUME NEW t \in T PROVE FibreSums(g, v, S, T)[t] = u[t] /\ u[t] \in Nat
  <2>1. PICK x \in S : g[x] = t
    OBVIOUS
  <2>2. Fibre(g, S, t) = {x}
    BY <2>1 DEF Fibre
  <2>3. v[x] \in Nat
    BY DEF Nats
  <2>4. SumFunctionOnSet(v, {x}) = v[x]
    BY <2>3, SumOfOne
  <2>5. FibreSums(g, v, S, T)[t] = SumFunctionOnSet(v, Fibre(g, S, t))
    BY DEF FibreSums
  <2> QED
    BY <2>1, <2>2, <2>3, <2>4, <2>5
<1>2. Nats(u, T) /\ \A t \in T : u[t] = FibreSums(g, v, S, T)[t]
  BY <1>1 DEF Nats
<1>3. SumFunctionOnSet(u, T) = SumFunctionOnSet(FibreSums(g, v, S, T), T)
  BY <1>2, SumIsSame
<1> QED
  BY <1>3, SumOfSums

\* The greatest a sum may be.
LEMMA SumBounded ==
  ASSUME NEW S, IsFiniteSet(S), NEW v, NEW b \in Nat, \A x \in S : v[x] \in 0..b
  PROVE  SumFunctionOnSet(v, S) <= Cardinality(S) * b
<1> DEFINE X == {s \in SUBSET S : SumFunctionOnSet(v, s) <= Cardinality(s) * b}
<1>1. \A s \in SUBSET S : IsFiniteSet(s) /\ Nats(v, s) /\ Cardinality(s) \in Nat
  BY FS_Subset, FS_CardinalityType DEF Nats
<1>2. ASSUME NEW s \in SUBSET S, \A y \in s : s \ {y} \in X
      PROVE  SumFunctionOnSet(v, s) <= Cardinality(s) * b
  <2>1. CASE s = {}
    <3>1. Cardinality(s) = 0
      BY <2>1, FS_EmptySet
    <3> QED
      BY <2>1, <3>1, SumIsEmpty
  <2>2. CASE s # {}
    <3>1. PICK x \in s : TRUE
      BY <2>2
    <3>2. SumFunctionOnSet(v, s) = v[x] + SumFunctionOnSet(v, s \ {x})
      BY <1>1, SumRemove
    <3>3. SumFunctionOnSet(v, s \ {x}) <= Cardinality(s \ {x}) * b
      BY <1>2
    <3>4. Cardinality(s \ {x}) = Cardinality(s) - 1
      BY <1>1, FS_RemoveElement
    <3>5. s \ {x} \in SUBSET S
      OBVIOUS
    <3>6. SumFunctionOnSet(v, s \ {x}) \in Nat
      BY <1>1, <3>5, SumIsNat
    <3>7. PICK n \in Nat : n = Cardinality(s)
      BY <1>1
    <3>8. (n - 1) * b + b = n * b
      OBVIOUS
    <3>9. v[x] \in Nat /\ v[x] <= b
      OBVIOUS
    <3>10. (n - 1) * b \in Int
      OBVIOUS
    <3>11. SumFunctionOnSet(v, s \ {x}) <= (n - 1) * b
      BY <3>3, <3>4, <3>7
    <3> QED
      BY <3>2, <3>6, <3>7, <3>8, <3>9, <3>10, <3>11
  <2> QED
    BY <2>1, <2>2
<1>3. X = SUBSET S
  <2>1. \A s \in SUBSET S : (\A y \in s : s \ {y} \in X) => s \in X
    BY <1>2
  <2>2. X \subseteq SUBSET S
    OBVIOUS
  <2> HIDE DEF X
  <2> QED
    BY <2>1, <2>2, AllSubsets
<1>4. S \in X
  BY <1>3
<1> QED
  BY <1>4
=============================================================================
