----------------------------- MODULE FiniteSums -----------------------------
(***************************************************************************)
(* What the proofs use of sums over finite sets.  The library's induction  *)
(* theorems take a predicate as an operator; here induction is stated for  *)
(* the set of the elements that satisfy it, which first-order provers can  *)
(* use: a family of subsets that is not all of them misses a smallest one. *)
(***************************************************************************)
EXTENDS Integers, FiniteSets, FiniteSetsExt, FiniteSetTheorems, TLAPS

\* The sum of f over S.
SumOver(S, f) == MapThenSumSet(LAMBDA x : f[x], S)

\* Induction over the subsets of a finite set: a family that has every set of which it
\* has all smaller subsets is the family of all subsets.
LEMMA SubsetInduction ==
  ASSUME NEW S, IsFiniteSet(S), NEW G,
         \A T \in SUBSET S : (\A U \in SUBSET T : U # T => U \in G) => T \in G
  PROVE  SUBSET S \subseteq G
  <1> DEFINE B == (SUBSET S) \ G
  <1> SUFFICES ASSUME B # {} PROVE FALSE
    OBVIOUS
  <1>1. B \subseteq FiniteSubsetsOf(S)
    BY FS_FiniteSubsetsOfFinite
  <1>2. IsWellFoundedOn(StrictSubsetOrdering(S), FiniteSubsetsOf(S))
    BY FS_StrictSubsetOrderingWellFounded
  <1>3. PICK T \in B : \A U \in B : ~(<<U, T>> \in StrictSubsetOrdering(S))
    <2> HIDE DEF B
    <2> QED
      BY <1>1, <1>2, WFMin
  <1>4. ASSUME NEW U \in SUBSET T, U # T PROVE U \in G
    BY <1>3, <1>4 DEF StrictSubsetOrdering
  <1> QED
    BY <1>4

-----------------------------------------------------------------------------
(* The sum exists: the recursive definition has a solution.  *)

\* The element a sum takes first.
First(s) == CHOOSE x \in s : TRUE

\* g gives the sum of f over every subset of S.
Sums(g, f, S) ==
  /\ g \in [SUBSET S -> Int]
  /\ \A s \in SUBSET S : g[s] = IF s = {} THEN 0 ELSE f[First(s)] + g[s \ {First(s)}]

\* A set that is not empty has its first element.
LEMMA FirstIn == ASSUME NEW s, s # {} PROVE First(s) \in s
  BY DEF First

\* Two solutions agree where both are defined.
LEMMA SumsAgree ==
  ASSUME NEW f, NEW S, NEW T, IsFiniteSet(S), NEW g, NEW h, Sums(g, f, S), Sums(h, f, T)
  PROVE  \A s \in SUBSET (S \cap T) : g[s] = h[s]
  <1> DEFINE V == S \cap T
             G == {s \in SUBSET V : g[s] = h[s]}
  <1>1. IsFiniteSet(V)
    BY FS_Subset
  <1>2. ASSUME NEW s \in SUBSET V, \A u \in SUBSET s : u # s => u \in G PROVE s \in G
    <2>1. CASE s = {}
      BY <2>1 DEF Sums
    <2>2. CASE s # {}
      <3>1. First(s) \in s
        BY <2>2, FirstIn
      <3>2. g[s \ {First(s)}] = h[s \ {First(s)}]
        BY <1>2, <3>1
      <3>3. g[s] = f[First(s)] + g[s \ {First(s)}] /\ h[s] = f[First(s)] + h[s \ {First(s)}]
        BY <2>2 DEF Sums
      <3> QED
        BY <3>2, <3>3
    <2> QED
      BY <2>1, <2>2
  <1>3. SUBSET V \subseteq G
    <2> HIDE DEF G, V
    <2> QED
      BY <1>1, <1>2, SubsetInduction
  <1> QED
    BY <1>3

\* A finite set has a solution.
LEMMA SumsExist ==
  ASSUME NEW S, IsFiniteSet(S), NEW f, \A x \in S : f[x] \in Int
  PROVE  \E g : Sums(g, f, S)
  <1> DEFINE G == {T \in SUBSET S : \E g : Sums(g, f, T)}
  <1>1. ASSUME NEW T \in SUBSET S, \A U \in SUBSET T : U # T => U \in G PROVE T \in G
    <2> DEFINE h(U) == CHOOSE g : Sums(g, f, U)
    <2>1. ASSUME NEW U \in SUBSET T, U # T PROVE Sums(h(U), f, U) /\ h(U)[U] \in Int
      <3>1. \E g : Sums(g, f, U)
        BY <1>1, <2>1
      <3>2. Sums(h(U), f, U)
        BY <3>1
      <3> QED
        BY <3>2 DEF Sums
    <2> DEFINE rest == T \ {First(T)}
    <2> DEFINE g == [s \in SUBSET T |-> IF s = T THEN (IF T = {} THEN 0 ELSE f[First(T)] + h(rest)[rest])
                                        ELSE h(s)[s]]
    <2>2. T # {} => First(T) \in T /\ f[First(T)] \in Int /\ h(rest)[rest] \in Int
      BY <2>1, FirstIn
    <2>3. g \in [SUBSET T -> Int]
      <3>1. ASSUME NEW s \in SUBSET T, s # T PROVE h(s)[s] \in Int
        BY <2>1, <3>1
      <3>2. T # {} => f[First(T)] + h(rest)[rest] \in Int
        BY <2>2
      <3> HIDE DEF h, rest
      <3> QED
        BY <3>1, <3>2
    <2>4. ASSUME NEW s \in SUBSET T
          PROVE  g[s] = IF s = {} THEN 0 ELSE f[First(s)] + g[s \ {First(s)}]
      <3>1. CASE s = T
        BY <2>2, <3>1
      <3>2. CASE s # T /\ s = {}
        <4>1. Sums(h(s), f, s)
          BY <2>1, <3>2
        <4>2. h(s)[s] = 0
          BY <3>2, <4>1 DEF Sums
        <4> QED
          BY <3>2, <4>2
      <3>3. CASE s # T /\ s # {}
        <4> DEFINE u == s \ {First(s)}
        <4>1. First(s) \in s /\ u \in SUBSET T /\ u # T /\ u \in SUBSET s
          BY <3>3, FirstIn
        <4>2. Sums(h(s), f, s) /\ Sums(h(u), f, u)
          BY <2>1, <3>3, <4>1
        <4>3. h(s)[u] = h(u)[u]
          <5>1. IsFiniteSet(s)
            BY FS_Subset
          <5> HIDE DEF u, h
          <5> QED
            BY <4>1, <4>2, <5>1, SumsAgree
        <4>4. h(s)[s] = f[First(s)] + h(s)[u]
          <5> HIDE DEF h
          <5> QED
            BY <3>3, <4>2 DEF Sums
        <4>5. g[s] = h(s)[s] /\ g[u] = h(u)[u]
          BY <3>3, <4>1
        <4> HIDE DEF g, h
        <4> QED
          BY <3>3, <4>3, <4>4, <4>5
      <3> QED
        BY <3>1, <3>2, <3>3
    <2>5. Sums(g, f, T)
      <3> HIDE DEF g
      <3> QED
        BY <2>3, <2>4 DEF Sums
    <2> QED
      BY <2>5
  <1>2. SUBSET S \subseteq G
    <2> HIDE DEF G
    <2> QED
      BY <1>1, SubsetInduction
  <1> QED
    BY <1>2

\* The sum is the value any solution gives.
LEMMA SumIsSolution ==
  ASSUME NEW S, IsFiniteSet(S), NEW f, \A x \in S : f[x] \in Int, NEW T, S \in SUBSET T,
         NEW g, Sums(g, f, T)
  PROVE  SumOver(S, f) = g[S]
  <1> DEFINE h == CHOOSE h : h = [s \in SUBSET S |->
                                    IF s = {} THEN 0 ELSE f[First(s)] + h[s \ {First(s)}]]
  <1>1. SumOver(S, f) = h[S]
    BY DEF SumOver, MapThenSumSet, MapThenFoldSet, First
  <1>2. PICK k : Sums(k, f, S)
    BY SumsExist
  <1>3. k = [s \in SUBSET S |-> IF s = {} THEN 0 ELSE f[First(s)] + k[s \ {First(s)}]]
    BY <1>2 DEF Sums
  <1>4. h = [s \in SUBSET S |-> IF s = {} THEN 0 ELSE f[First(s)] + h[s \ {First(s)}]]
    BY <1>3
  <1> HIDE DEF h
  <1>5. h = [s \in SUBSET S |-> h[s]]
    BY <1>4
  <1>6. ASSUME NEW s \in SUBSET S
        PROVE  h[s] = IF s = {} THEN 0 ELSE f[First(s)] + h[s \ {First(s)}]
    BY <1>4
  <1> DEFINE G == {s \in SUBSET S : h[s] = k[s]}
  <1>7. ASSUME NEW s \in SUBSET S, \A u \in SUBSET s : u # s => u \in G PROVE s \in G
    <2>1. CASE s = {}
      BY <1>2, <1>6, <2>1 DEF Sums
    <2>2. CASE s # {}
      <3>1. First(s) \in s
        BY <2>2, FirstIn
      <3>2. h[s \ {First(s)}] = k[s \ {First(s)}]
        BY <1>7, <3>1
      <3>3. k[s] = f[First(s)] + k[s \ {First(s)}]
        BY <1>2, <2>2 DEF Sums
      <3> QED
        BY <1>6, <2>2, <3>2, <3>3
    <2> QED
      BY <2>1, <2>2
  <1>8. SUBSET S \subseteq G
    <2> HIDE DEF G
    <2> QED
      BY <1>7, SubsetInduction
  <1>9. h[S] = k[S]
    BY <1>8
  <1>10. k[S] = g[S]
    <2>1. S \in SUBSET (S \cap T)
      OBVIOUS
    <2> QED
      BY <1>2, <2>1, SumsAgree
  <1> QED
    BY <1>1, <1>9, <1>10

-----------------------------------------------------------------------------
(* What a sum is.  *)

\* The empty sum.
LEMMA SumEmpty == ASSUME NEW f PROVE SumOver({}, f) = 0
  <1>1. IsFiniteSet({})
    BY FS_EmptySet
  <1>2. PICK g : Sums(g, f, {})
    BY <1>1, SumsExist
  <1>3. SumOver({}, f) = g[{}]
    BY <1>1, <1>2, SumIsSolution
  <1> QED
    BY <1>2, <1>3 DEF Sums

\* A sum of integers is one, and its first element may be taken out.
LEMMA SumFirst ==
  ASSUME NEW S, IsFiniteSet(S), NEW f, \A x \in S : f[x] \in Int
  PROVE  /\ SumOver(S, f) \in Int
         /\ S # {} => SumOver(S, f) = f[First(S)] + SumOver(S \ {First(S)}, f)
  <1>1. PICK g : Sums(g, f, S)
    BY SumsExist
  <1>2. SumOver(S, f) = g[S]
    BY <1>1, SumIsSolution
  <1>3. SumOver(S \ {First(S)}, f) = g[S \ {First(S)}]
    <2> DEFINE U == S \ {First(S)}
    <2>1. IsFiniteSet(U) /\ U \in SUBSET S
      BY FS_Subset
    <2>2. \A x \in U : f[x] \in Int
      OBVIOUS
    <2> HIDE DEF U
    <2>3. SumOver(U, f) = g[U]
      BY <1>1, <2>1, <2>2, SumIsSolution
    <2> QED
      BY <2>3 DEF U
  <1> QED
    BY <1>1, <1>2, <1>3 DEF Sums

\* Any element may be taken out: the order does not matter.
LEMMA SumRemove ==
  ASSUME NEW S, IsFiniteSet(S), NEW f, \A x \in S : f[x] \in Int
  PROVE  \A x \in S : SumOver(S, f) = f[x] + SumOver(S \ {x}, f)
  <1> DEFINE G == {T \in SUBSET S : \A x \in T : SumOver(T, f) = f[x] + SumOver(T \ {x}, f)}
  <1>0. ASSUME NEW T \in SUBSET S
        PROVE  /\ IsFiniteSet(T) /\ SumOver(T, f) \in Int
               /\ T # {} => SumOver(T, f) = f[First(T)] + SumOver(T \ {First(T)}, f)
    BY FS_Subset, SumFirst
  <1>1. ASSUME NEW T \in SUBSET S, \A U \in SUBSET T : U # T => U \in G PROVE T \in G
    <2> SUFFICES ASSUME NEW x \in T PROVE SumOver(T, f) = f[x] + SumOver(T \ {x}, f)
      OBVIOUS
    <2> DEFINE c == First(T)
               U == T \ {c}
               V == T \ {x}
               W == T \ {c, x}
    <2>1. c \in T /\ SumOver(T, f) = f[c] + SumOver(U, f)
      BY <1>0, FirstIn
    <2>2. CASE x = c
      BY <2>1, <2>2
    <2>3. CASE x # c
      <3>1. U \in SUBSET T /\ U # T /\ x \in U /\ U \ {x} = W
        BY <2>1, <2>3
      <3>2. V \in SUBSET T /\ V # T /\ c \in V /\ V \ {c} = W
        BY <2>1, <2>3
      <3>3. SumOver(U, f) = f[x] + SumOver(W, f)
        <4>1. U \in G
          BY <1>1, <3>1
        <4>2. SumOver(U, f) = f[x] + SumOver(U \ {x}, f)
          BY <3>1, <4>1
        <4> QED
          BY <3>1, <4>2
      <3>4. SumOver(V, f) = f[c] + SumOver(W, f)
        <4>1. V \in G
          BY <1>1, <3>2
        <4>2. SumOver(V, f) = f[c] + SumOver(V \ {c}, f)
          BY <3>2, <4>1
        <4> QED
          BY <3>2, <4>2
      <3>5. f[c] \in Int /\ f[x] \in Int /\ SumOver(W, f) \in Int
        BY <1>0, <2>1
      <3> HIDE DEF c, U, V, W
      <3>6. SumOver(T, f) = f[x] + SumOver(V, f)
        BY <2>1, <3>3, <3>4, <3>5
      <3> QED
        BY <3>6 DEF V
    <2> QED
      BY <2>2, <2>3
  <1>2. SUBSET S \subseteq G
    <2> HIDE DEF G
    <2> QED
      BY <1>1, SubsetInduction
  <1> QED
    BY <1>2

\* A sum of integers is an integer.
LEMMA SumInt ==
  ASSUME NEW S, IsFiniteSet(S), NEW f, \A x \in S : f[x] \in Int
  PROVE  SumOver(S, f) \in Int
  BY SumFirst

\* An element is added.
LEMMA SumAdd ==
  ASSUME NEW S, IsFiniteSet(S), NEW f, \A y \in S : f[y] \in Int, NEW x, x \notin S, f[x] \in Int
  PROVE  SumOver(S \cup {x}, f) = SumOver(S, f) + f[x]
  <1> DEFINE T == S \cup {x}
  <1>1. IsFiniteSet(T) /\ x \in T /\ T \ {x} = S /\ \A y \in T : f[y] \in Int
    BY FS_AddElement
  <1>2. SumOver(T, f) = f[x] + SumOver(T \ {x}, f)
    <2> HIDE DEF T
    <2> QED
      BY <1>1, SumRemove
  <1>3. SumOver(S, f) \in Int
    BY SumInt
  <1>4. SumOver(T \ {x}, f) = SumOver(S, f)
    BY <1>1
  <1> HIDE DEF T
  <1>5. SumOver(T, f) = SumOver(S, f) + f[x]
    BY <1>2, <1>3, <1>4
  <1> QED
    BY <1>5 DEF T

\* Functions that agree on a set have the same sum over it.
LEMMA SumSame ==
  ASSUME NEW S, IsFiniteSet(S), NEW f, NEW g, \A x \in S : f[x] \in Int /\ g[x] = f[x]
  PROVE  SumOver(S, g) = SumOver(S, f)
  <1> DEFINE G == {T \in SUBSET S : SumOver(T, g) = SumOver(T, f)}
  <1>1. ASSUME NEW T \in SUBSET S, \A U \in SUBSET T : U # T => U \in G PROVE T \in G
    <2>1. CASE T = {}
      BY <2>1, SumEmpty
    <2>2. CASE T # {}
      <3> DEFINE c == First(T)
                 U == T \ {c}
      <3>1. c \in T /\ U \in SUBSET T /\ U # T
        BY <2>2, FirstIn
      <3>2. SumOver(U, g) = SumOver(U, f)
        BY <1>1, <3>1
      <3>3. IsFiniteSet(T) /\ \A x \in T : f[x] \in Int /\ g[x] \in Int
        BY FS_Subset
      <3>4. SumOver(T, f) = f[c] + SumOver(U, f)
        BY <2>2, <3>3, SumFirst
      <3>5. SumOver(T, g) = g[c] + SumOver(U, g)
        BY <2>2, <3>3, SumFirst
      <3>6. g[c] = f[c]
        BY <3>1
      <3> HIDE DEF c, U
      <3> QED
        BY <3>2, <3>4, <3>5, <3>6
    <2> QED
      BY <2>1, <2>2
  <1>2. SUBSET S \subseteq G
    <2> HIDE DEF G
    <2> QED
      BY <1>1, SubsetInduction
  <1> QED
    BY <1>2

\* One term changes.
LEMMA SumChange ==
  ASSUME NEW S, IsFiniteSet(S), NEW f, NEW g, NEW x \in S, NEW c \in Int, g[x] = f[x] + c,
         \A y \in S : f[y] \in Int /\ (y # x => g[y] = f[y])
  PROVE  SumOver(S, g) = SumOver(S, f) + c
  <1> DEFINE U == S \ {x}
  <1>1. IsFiniteSet(U) /\ \A y \in U : f[y] \in Int /\ g[y] = f[y]
    BY FS_Subset
  <1>2. f[x] \in Int /\ \A y \in S : g[y] \in Int
    OBVIOUS
  <1>3. SumOver(U, g) = SumOver(U, f) /\ SumOver(U, f) \in Int
    <2> HIDE DEF U
    <2> QED
      BY <1>1, SumSame, SumInt
  <1>4. SumOver(S, f) = f[x] + SumOver(U, f)
    BY SumRemove
  <1>5. SumOver(S, g) = g[x] + SumOver(U, g)
    BY <1>2, SumRemove
  <1> HIDE DEF U
  <1> QED
    BY <1>2, <1>3, <1>4, <1>5

\* Nothing adds up to nothing.
LEMMA SumOfNothing ==
  ASSUME NEW S, IsFiniteSet(S), NEW f, \A x \in S : f[x] = 0
  PROVE  SumOver(S, f) = 0
  <1> DEFINE G == {T \in SUBSET S : SumOver(T, f) = 0}
  <1>1. ASSUME NEW T \in SUBSET S, \A U \in SUBSET T : U # T => U \in G PROVE T \in G
    <2>1. CASE T = {}
      BY <2>1, SumEmpty
    <2>2. CASE T # {}
      <3> DEFINE c == First(T)
                 U == T \ {c}
      <3>1. c \in T /\ U \in SUBSET T /\ U # T
        BY <2>2, FirstIn
      <3>2. SumOver(U, f) = 0 /\ f[c] = 0
        BY <1>1, <3>1
      <3>3. IsFiniteSet(T) /\ \A x \in T : f[x] \in Int
        BY FS_Subset
      <3>4. SumOver(T, f) = f[c] + SumOver(U, f)
        BY <2>2, <3>3, SumFirst
      <3> HIDE DEF c, U
      <3> QED
        BY <3>2, <3>4
    <2> QED
      BY <2>1, <2>2
  <1>2. SUBSET S \subseteq G
    <2> HIDE DEF G
    <2> QED
      BY <1>1, SubsetInduction
  <1> QED
    BY <1>2

\* A sum of naturals is one, and is at least the sum of each part.
LEMMA SumNat ==
  ASSUME NEW S, IsFiniteSet(S), NEW f, \A x \in S : f[x] \in Nat
  PROVE  SumOver(S, f) \in Nat /\ \A x \in S : f[x] <= SumOver(S, f)
  <1> DEFINE G == {T \in SUBSET S : SumOver(T, f) \in Nat}
  <1>1. ASSUME NEW T \in SUBSET S, \A U \in SUBSET T : U # T => U \in G PROVE T \in G
    <2>1. CASE T = {}
      BY <2>1, SumEmpty
    <2>2. CASE T # {}
      <3> DEFINE c == First(T)
                 U == T \ {c}
      <3>1. c \in T /\ U \in SUBSET T /\ U # T
        BY <2>2, FirstIn
      <3>2. SumOver(U, f) \in Nat /\ f[c] \in Nat
        BY <1>1, <3>1
      <3>3. IsFiniteSet(T) /\ \A x \in T : f[x] \in Int
        BY FS_Subset
      <3>4. SumOver(T, f) = f[c] + SumOver(U, f)
        BY <2>2, <3>3, SumFirst
      <3> HIDE DEF c, U
      <3> QED
        BY <3>2, <3>4
    <2> QED
      BY <2>1, <2>2
  <1>2. SUBSET S \subseteq G
    <2> HIDE DEF G
    <2> QED
      BY <1>1, SubsetInduction
  <1>3. ASSUME NEW x \in S PROVE f[x] <= SumOver(S, f)
    <2>1. SumOver(S, f) = f[x] + SumOver(S \ {x}, f)
      BY SumRemove
    <2>2. SumOver(S \ {x}, f) \in Nat
      BY <1>2
    <2> QED
      BY <2>1, <2>2
  <1> QED
    BY <1>2, <1>3

\* Sums over disjoint sets add up.
LEMMA SumUnion ==
  ASSUME NEW S, IsFiniteSet(S), NEW T, IsFiniteSet(T), S \cap T = {},
         NEW f, \A x \in S \cup T : f[x] \in Int
  PROVE  SumOver(S \cup T, f) = SumOver(S, f) + SumOver(T, f)
  <1> DEFINE G == {U \in SUBSET T : SumOver(S \cup U, f) = SumOver(S, f) + SumOver(U, f)}
  <1>0. SumOver(S, f) \in Int
    BY SumInt
  <1>1. ASSUME NEW U \in SUBSET T, \A V \in SUBSET U : V # U => V \in G PROVE U \in G
    <2>1. CASE U = {}
      <3>1. S \cup U = S
        BY <2>1
      <3> QED
        BY <1>0, <2>1, <3>1, SumEmpty
    <2>2. CASE U # {}
      <3> DEFINE c == First(U)
                 V == U \ {c}
      <3>1. c \in U /\ V \in SUBSET U /\ V # U /\ V \cup {c} = U /\ c \notin V
        BY <2>2, FirstIn
      <3>2. SumOver(S \cup V, f) = SumOver(S, f) + SumOver(V, f)
        BY <1>1, <3>1
      <3>3. IsFiniteSet(V) /\ IsFiniteSet(S \cup V) /\ c \notin S \cup V /\ f[c] \in Int
        BY <3>1, FS_Subset, FS_Union
      <3>4. SumOver(V \cup {c}, f) = SumOver(V, f) + f[c] /\ SumOver(V, f) \in Int
        <4>1. \A x \in V : f[x] \in Int
          OBVIOUS
        <4> HIDE DEF c, V
        <4> QED
          BY <3>1, <3>3, <4>1, SumAdd, SumInt
      <3>5. SumOver((S \cup V) \cup {c}, f) = SumOver(S \cup V, f) + f[c]
        <4> DEFINE W == S \cup V
        <4>1. \A x \in W : f[x] \in Int
          OBVIOUS
        <4>2. IsFiniteSet(W) /\ c \notin W
          BY <3>3
        <4> HIDE DEF c, W
        <4>3. SumOver(W \cup {c}, f) = SumOver(W, f) + f[c]
          BY <3>3, <4>1, <4>2, SumAdd
        <4> QED
          BY <4>3 DEF W
      <3>6. (S \cup V) \cup {c} = S \cup U
        BY <3>1
      <3>7. SumOver(S \cup U, f) = SumOver(S, f) + SumOver(U, f)
        <4>1. SumOver(S \cup U, f) = SumOver(S \cup V, f) + f[c]
          BY <3>5, <3>6
        <4>2. SumOver(U, f) = SumOver(V, f) + f[c]
          BY <3>1, <3>4
        <4> HIDE DEF c, V
        <4> QED
          BY <1>0, <3>2, <3>3, <3>4, <4>1, <4>2
      <3> QED
        BY <3>7
    <2> QED
      BY <2>1, <2>2
  <1>2. SUBSET T \subseteq G
    <2> HIDE DEF G
    <2> QED
      BY <1>1, SubsetInduction
  <1> QED
    BY <1>2

\* A part of a sum of naturals is no more than the sum.
LEMMA SumPart ==
  ASSUME NEW S, IsFiniteSet(S), NEW T \in SUBSET S, NEW f, \A x \in S : f[x] \in Nat
  PROVE  /\ SumOver(S, f) = SumOver(T, f) + SumOver(S \ T, f)
         /\ SumOver(T, f) \in Nat /\ SumOver(S \ T, f) \in Nat
  <1>1. IsFiniteSet(T) /\ IsFiniteSet(S \ T) /\ T \cup (S \ T) = S /\ T \cap (S \ T) = {}
    BY FS_Subset
  <1> DEFINE V == S \ T
  <1>2. SumOver(T, f) \in Nat /\ SumOver(V, f) \in Nat
    BY <1>1, SumNat
  <1>3. SumOver(T \cup V, f) = SumOver(T, f) + SumOver(V, f)
    <2>1. \A x \in T \cup V : f[x] \in Int
      OBVIOUS
    <2> QED
      BY <1>1, <2>1, SumUnion
  <1> QED
    BY <1>1, <1>2, <1>3

\* Equal terms.
LEMMA SumConstant ==
  ASSUME NEW S, IsFiniteSet(S), NEW c \in Int, NEW f, \A x \in S : f[x] = c
  PROVE  SumOver(S, f) = Cardinality(S) * c
  <1> DEFINE G == {T \in SUBSET S : SumOver(T, f) = Cardinality(T) * c}
  <1>1. ASSUME NEW T \in SUBSET S, \A U \in SUBSET T : U # T => U \in G PROVE T \in G
    <2>1. CASE T = {}
      <3>1. SumOver({}, f) = 0 /\ Cardinality({}) = 0
        BY SumEmpty, FS_EmptySet
      <3>2. 0 = 0 * c
        OBVIOUS
      <3> QED
        BY <2>1, <3>1, <3>2
    <2>2. CASE T # {}
      <3> DEFINE a == First(T)
                 U == T \ {a}
      <3>1. a \in T /\ U \in SUBSET T /\ U # T
        BY <2>2, FirstIn
      <3>2. SumOver(U, f) = Cardinality(U) * c /\ f[a] = c
        BY <1>1, <3>1
      <3>3. IsFiniteSet(T) /\ \A x \in T : f[x] \in Int
        BY FS_Subset
      <3>4. SumOver(T, f) = f[a] + SumOver(U, f)
        BY <2>2, <3>3, SumFirst
      <3>5. Cardinality(U) = Cardinality(T) - 1 /\ Cardinality(T) \in Nat
        BY <3>1, <3>3, FS_RemoveElement, FS_CardinalityType
      <3> HIDE DEF a, U
      <3>6. ASSUME NEW k \in Nat PROVE c + (k - 1) * c = k * c
        OBVIOUS
      <3> QED
        BY <3>2, <3>4, <3>5, <3>6
    <2> QED
      BY <2>1, <2>2
  <1>2. SUBSET S \subseteq G
    <2> HIDE DEF G
    <2> QED
      BY <1>1, SubsetInduction
  <1> QED
    BY <1>2

\* Larger terms.
LEMMA SumLarger ==
  ASSUME NEW S, IsFiniteSet(S), NEW f, NEW g,
         \A x \in S : f[x] \in Int /\ g[x] \in Int /\ f[x] <= g[x]
  PROVE  /\ SumOver(S, f) \in Int /\ SumOver(S, g) \in Int /\ SumOver(S, f) <= SumOver(S, g)
         /\ (\E x \in S : f[x] < g[x]) => SumOver(S, f) < SumOver(S, g)
  <1>0. ASSUME NEW T \in SUBSET S PROVE IsFiniteSet(T) /\ SumOver(T, f) \in Int /\ SumOver(T, g) \in Int
    BY FS_Subset, SumInt
  <1> DEFINE G == {T \in SUBSET S : SumOver(T, f) <= SumOver(T, g)}
  <1>1. ASSUME NEW T \in SUBSET S, \A U \in SUBSET T : U # T => U \in G PROVE T \in G
    <2>1. CASE T = {}
      BY <2>1, SumEmpty
    <2>2. CASE T # {}
      <3> DEFINE a == First(T)
                 U == T \ {a}
      <3>1. a \in T /\ U \in SUBSET T /\ U # T
        BY <2>2, FirstIn
      <3>2. SumOver(U, f) <= SumOver(U, g) /\ f[a] <= g[a] /\ f[a] \in Int /\ g[a] \in Int
        BY <1>1, <3>1
      <3>3. IsFiniteSet(T) /\ (\A x \in T : f[x] \in Int) /\ (\A x \in T : g[x] \in Int)
        BY FS_Subset
      <3>4. SumOver(T, f) = f[a] + SumOver(U, f) /\ SumOver(T, g) = g[a] + SumOver(U, g)
        BY <2>2, <3>3, SumFirst
      <3>5. SumOver(U, f) \in Int /\ SumOver(U, g) \in Int
        BY <1>0
      <3> HIDE DEF a, U
      <3>6. SumOver(T, f) <= SumOver(T, g)
        BY <3>2, <3>4, <3>5
      <3> QED
        BY <3>6
    <2> QED
      BY <2>1, <2>2
  <1>2. SUBSET S \subseteq G
    <2> HIDE DEF G
    <2> QED
      BY <1>1, SubsetInduction
  <1>3. ASSUME NEW x \in S, f[x] < g[x] PROVE SumOver(S, f) < SumOver(S, g)
    <2> DEFINE U == S \ {x}
    <2>1. SumOver(S, f) = f[x] + SumOver(U, f) /\ SumOver(S, g) = g[x] + SumOver(U, g)
      BY SumRemove
    <2>2. SumOver(U, f) <= SumOver(U, g) /\ SumOver(U, f) \in Int /\ SumOver(U, g) \in Int
      BY <1>0, <1>2
    <2>3. f[x] \in Int /\ g[x] \in Int
      OBVIOUS
    <2> HIDE DEF U
    <2> QED
      BY <1>3, <2>1, <2>2, <2>3
  <1> QED
    BY <1>0, <1>2, <1>3

\* The terms of two functions together.
LEMMA SumBoth ==
  ASSUME NEW S, IsFiniteSet(S), NEW f, NEW g, NEW h,
         \A x \in S : f[x] \in Int /\ g[x] \in Int /\ h[x] = f[x] + g[x]
  PROVE  SumOver(S, h) = SumOver(S, f) + SumOver(S, g)
  <1>0. ASSUME NEW T \in SUBSET S PROVE IsFiniteSet(T) /\ SumOver(T, f) \in Int /\ SumOver(T, g) \in Int
    BY FS_Subset, SumInt
  <1> DEFINE G == {T \in SUBSET S : SumOver(T, h) = SumOver(T, f) + SumOver(T, g)}
  <1>1. ASSUME NEW T \in SUBSET S, \A U \in SUBSET T : U # T => U \in G PROVE T \in G
    <2>1. CASE T = {}
      BY <2>1, SumEmpty
    <2>2. CASE T # {}
      <3> DEFINE a == First(T)
                 U == T \ {a}
      <3>1. a \in T /\ U \in SUBSET T /\ U # T
        BY <2>2, FirstIn
      <3>2. SumOver(U, h) = SumOver(U, f) + SumOver(U, g)
        BY <1>1, <3>1
      <3>3. f[a] \in Int /\ g[a] \in Int /\ h[a] = f[a] + g[a]
        BY <3>1
      <3>4. /\ IsFiniteSet(T)
            /\ (\A x \in T : f[x] \in Int) /\ (\A x \in T : g[x] \in Int) /\ (\A x \in T : h[x] \in Int)
        BY FS_Subset
      <3>5. /\ SumOver(T, f) = f[a] + SumOver(U, f) /\ SumOver(T, g) = g[a] + SumOver(U, g)
            /\ SumOver(T, h) = h[a] + SumOver(U, h)
        BY <2>2, <3>4, SumFirst
      <3>6. SumOver(U, f) \in Int /\ SumOver(U, g) \in Int
        BY <1>0
      <3> HIDE DEF a, U
      <3>7. SumOver(T, h) = SumOver(T, f) + SumOver(T, g)
        BY <3>2, <3>3, <3>5, <3>6
      <3> QED
        BY <3>7
    <2> QED
      BY <2>1, <2>2
  <1>2. SUBSET S \subseteq G
    <2> HIDE DEF G
    <2> QED
      BY <1>1, SubsetInduction
  <1> QED
    BY <1>2

\* The terms under other names.
LEMMA SumRenamed ==
  ASSUME NEW S, IsFiniteSet(S), NEW b, \A x, y \in S : b[x] = b[y] => x = y,
         NEW f, NEW g, \A x \in S : f[x] \in Int /\ g[b[x]] = f[x]
  PROVE  SumOver({b[x] : x \in S}, g) = SumOver(S, f) /\ IsFiniteSet({b[x] : x \in S})
  <1> DEFINE Im(T) == {b[x] : x \in T}
             G == {T \in SUBSET S : IsFiniteSet(Im(T)) /\ SumOver(Im(T), g) = SumOver(T, f)}
  <1>1. ASSUME NEW T \in SUBSET S, \A U \in SUBSET T : U # T => U \in G PROVE T \in G
    <2>1. CASE T = {}
      <3>1. Im(T) = {}
        BY <2>1
      <3> QED
        BY <2>1, <3>1, SumEmpty, FS_EmptySet
    <2>2. CASE T # {}
      <3> DEFINE a == First(T)
                 U == T \ {a}
      <3>1. a \in T /\ U \in SUBSET T /\ U # T
        BY <2>2, FirstIn
      <3>2. IsFiniteSet(Im(U)) /\ SumOver(Im(U), g) = SumOver(U, f)
        BY <1>1, <3>1
      <3>3. IsFiniteSet(T) /\ (\A x \in T : f[x] \in Int) /\ f[a] \in Int /\ g[b[a]] = f[a]
        BY <3>1, FS_Subset
      <3>4. SumOver(T, f) = f[a] + SumOver(U, f)
        BY <2>2, <3>3, SumFirst
      <3>5. Im(T) = Im(U) \cup {b[a]} /\ b[a] \notin Im(U) /\ \A y \in Im(U) : g[y] \in Int
        BY <3>1
      <3>6. IsFiniteSet(U) /\ SumOver(U, f) \in Int
        BY <3>3, FS_Subset, SumInt
      <3> DEFINE I == Im(U)
                 J == Im(T)
      <3>7. /\ IsFiniteSet(I) /\ SumOver(I, g) = SumOver(U, f) /\ J = I \cup {b[a]} /\ b[a] \notin I
            /\ \A y \in I : g[y] \in Int
        BY <3>2, <3>5
      <3> HIDE DEF a, U, I, J
      <3>8. SumOver(J, g) = SumOver(T, f) /\ IsFiniteSet(J)
        <4>1. SumOver(I \cup {b[a]}, g) = SumOver(I, g) + g[b[a]]
          BY <3>3, <3>7, SumAdd
        <4>2. IsFiniteSet(I \cup {b[a]})
          BY <3>7, FS_AddElement
        <4> QED
          BY <3>3, <3>4, <3>6, <3>7, <4>1, <4>2
      <3> QED
        BY <3>8 DEF J
    <2> QED
      BY <2>1, <2>2
  <1>2. SUBSET S \subseteq G
    <2> HIDE DEF G
    <2> QED
      BY <1>1, SubsetInduction
  <1> QED
    BY <1>2

\* The terms in groups.
Group(R, o, e) == {r \in R : o[r] = e}

LEMMA SumGrouped ==
  ASSUME NEW E, IsFiniteSet(E), NEW R, IsFiniteSet(R), NEW o, \A r \in R : o[r] \in E,
         NEW f, \A r \in R : f[r] \in Int,
         NEW g, \A e \in E : g[e] = SumOver(Group(R, o, e), f)
  PROVE  SumOver(E, g) = SumOver(R, f)
  <1> DEFINE Of(T) == {r \in R : o[r] \in T}
             G == {T \in SUBSET E : SumOver(T, g) = SumOver(Of(T), f)}
  <1>0. ASSUME NEW Q \in SUBSET R PROVE IsFiniteSet(Q) /\ SumOver(Q, f) \in Int
    BY FS_Subset, SumInt
  <1>1. ASSUME NEW T \in SUBSET E, \A U \in SUBSET T : U # T => U \in G PROVE T \in G
    <2>1. CASE T = {}
      <3>1. Of(T) = {}
        BY <2>1
      <3> QED
        BY <2>1, <3>1, SumEmpty
    <2>2. CASE T # {}
      <3> DEFINE a == First(T)
                 U == T \ {a}
                 P == Of(U)
                 Q == Group(R, o, a)
      <3>1. a \in T /\ U \in SUBSET T /\ U # T
        BY <2>2, FirstIn
      <3>2. SumOver(U, g) = SumOver(P, f)
        BY <1>1, <3>1
      <3>3. P \cap Q = {} /\ Of(T) = P \cup Q /\ P \in SUBSET R /\ Q \in SUBSET R
        BY <3>1 DEF Group
      <3>4. \A e \in T : g[e] \in Int
        <4>1. ASSUME NEW e \in T PROVE g[e] \in Int
          <5>1. Group(R, o, e) \in SUBSET R
            BY DEF Group
          <5> QED
            BY <1>0, <5>1
        <4> QED
          BY <4>1
      <3>5. IsFiniteSet(T) /\ g[a] = SumOver(Q, f)
        BY <3>1, FS_Subset
      <3>6. SumOver(T, g) = g[a] + SumOver(U, g)
        BY <2>2, <3>4, <3>5, SumFirst
      <3> HIDE DEF a, U, P, Q
      <3>7. SumOver(P \cup Q, f) = SumOver(P, f) + SumOver(Q, f)
        BY <1>0, <3>3, SumUnion
      <3>8. SumOver(P, f) \in Int /\ SumOver(Q, f) \in Int
        BY <1>0, <3>3
      <3>9. SumOver(T, g) = SumOver(P \cup Q, f)
        BY <3>2, <3>5, <3>6, <3>7, <3>8
      <3> QED
        BY <3>3, <3>9
    <2> QED
      BY <2>1, <2>2
  <1>2. SUBSET E \subseteq G
    <2> HIDE DEF G
    <2> QED
      BY <1>1, SubsetInduction
  <1>3. Of(E) = R
    OBVIOUS
  <1> QED
    BY <1>2, <1>3

\* Induction over the natural numbers, with the statement as a set.
LEMMA NatSetInduction ==
  ASSUME NEW G, 0 \in G, \A w \in Nat : w \in G => w + 1 \in G
  PROVE  Nat \subseteq G
  <1> SUFFICES ASSUME NEW n \in Nat PROVE n \in G
    OBVIOUS
  <1> DEFINE S == 0 .. n
             H == {T \in SUBSET S : \A k \in S : T = 0 .. k => k \in G}
  <1>1. IsFiniteSet(S)
    BY FS_Interval
  <1>2. ASSUME NEW T \in SUBSET S, \A U \in SUBSET T : U # T => U \in H PROVE T \in H
    <2> SUFFICES ASSUME NEW k \in S, T = 0 .. k PROVE k \in G
      OBVIOUS
    <2>1. CASE k = 0
      BY <2>1
    <2>2. CASE k # 0
      <3>1. k - 1 \in Nat /\ k - 1 \in S /\ 0 .. (k - 1) \in SUBSET T /\ 0 .. (k - 1) # T
        BY <2>2
      <3>2. 0 .. (k - 1) \in H
        BY <1>2, <3>1
      <3>3. k - 1 \in G
        BY <3>1, <3>2
      <3>4. (k - 1) + 1 \in G
        BY <3>1, <3>3
      <3> QED
        BY <3>4
    <2> QED
      BY <2>1, <2>2
  <1>3. SUBSET S \subseteq H
    <2> HIDE DEF S, H
    <2> QED
      BY <1>1, <1>2, SubsetInduction
  <1>4. S \in H
    BY <1>3
  <1> QED
    BY <1>4

\* The larger of two numbers.
LEMMA LargerOf == ASSUME NEW a \in Int, NEW b \in Int
                  PROVE  /\ Max({a, b}) \in Int /\ Max({a, b}) \in {a, b}
                         /\ Max({a, b}) >= a /\ Max({a, b}) >= b
  <1>1. \E x \in {a, b} : \A y \in {a, b} : x >= y
    <2>1. CASE a >= b
      BY <2>1
    <2>2. CASE b >= a
      BY <2>2
    <2> QED
      BY <2>1, <2>2
  <1> QED
    BY <1>1 DEF Max

\* The smaller of two numbers.
LEMMA SmallerOf == ASSUME NEW a \in Int, NEW b \in Int
                   PROVE  /\ Min({a, b}) \in Int /\ Min({a, b}) \in {a, b}
                          /\ Min({a, b}) <= a /\ Min({a, b}) <= b
  <1>1. \E x \in {a, b} : \A y \in {a, b} : x <= y
    <2>1. CASE a <= b
      BY <2>1
    <2>2. CASE b <= a
      BY <2>2
    <2> QED
      BY <2>1, <2>2
  <1> QED
    BY <1>1 DEF Min
============================================================================
