--------------------------- MODULE BandwidthProofs ---------------------------
(***************************************************************************)
(* The proofs about bandwidth.                                             *)
(*                                                                         *)
(* The schedule (ReservationTree, DestinationCapacity): the segment tree   *)
(* answers with exactly what is reserved, and what admission promises is   *)
(* kept, for any number of runs, destinations and slots.  The books of     *)
(* what is charged are exact, and the balanced tree of the shares          *)
(* (FairshareTree) gives the max-min fair level.                           *)
(*                                                                         *)
(* The policies (BandwidthDelivery): what the dispatcher believes of a     *)
(* session is so, a returned denial is enforced, and no step takes back    *)
(* what was delivered, answered or decided, for any number of executors,   *)
(* of their sessions, of changes under way at once and of failures.        *)
(* OwedIsDone is liveness and stays with TLC.                              *)
(***************************************************************************)
EXTENDS DestinationCapacity, BandwidthDelivery, FiniteSums, FiniteSetTheorems, TLAPS

-----------------------------------------------------------------------------
(* The segment tree of the schedule. *)

\* A node of several slots has two children that divide them.
LEMMA Halves ==
  ASSUME NEW i \in Spans
  PROVE  /\ i[1] \in Nat /\ i[2] \in Nat /\ i[1] <= i[2] /\ i[2] <= LastSlot /\ i = <<i[1], i[2]>>
         /\ i[1] < i[2] =>
              /\ Middle(i) \in Nat /\ i[1] <= Middle(i) /\ Middle(i) < i[2]
              /\ LeftOf(i) \in Spans /\ RightOf(i) \in Spans
              /\ LeftOf(i)[1] = i[1] /\ LeftOf(i)[2] = Middle(i)
              /\ RightOf(i)[1] = Middle(i) + 1 /\ RightOf(i)[2] = i[2]
  <1>1. i[1] \in Nat /\ i[2] \in Nat /\ i[1] <= i[2] /\ i[2] <= LastSlot /\ i = <<i[1], i[2]>>
    BY SlotAssumption DEF Spans, Slots
  <1>2. ASSUME i[1] < i[2]
        PROVE  Middle(i) \in Nat /\ i[1] <= Middle(i) /\ Middle(i) < i[2]
    <2>1. \A a, b \in Nat : a < b => LET h == (b - a) \div 2 IN h \in Nat /\ a + h < b
      OBVIOUS
    <2> QED
      BY <1>1, <1>2, <2>1 DEF Middle
  <1>3. ASSUME i[1] < i[2] PROVE LeftOf(i) \in Spans /\ RightOf(i) \in Spans
    BY <1>1, <1>2, <1>3, SlotAssumption DEF LeftOf, RightOf, Spans, Slots
  <1> QED
    BY <1>1, <1>2, <1>3 DEF LeftOf, RightOf

\* Recursion and induction from the children of a node.
LEMMA SpanInduction ==
  ASSUME NEW G,
         \A i \in Spans : (i[1] < i[2] => LeftOf(i) \in G /\ RightOf(i) \in G) => i \in G
  PROVE  Spans \subseteq G
  <1> DEFINE H == {w \in Nat : \A i \in Spans : i[2] - i[1] <= w => i \in G}
  <1>1. 0 \in H
    <2> SUFFICES ASSUME NEW i \in Spans, i[2] - i[1] <= 0 PROVE i \in G
      OBVIOUS
    <2>1. ~ (i[1] < i[2])
      BY Halves
    <2> QED
      BY <2>1
  <1>2. ASSUME NEW w \in Nat, w \in H PROVE w + 1 \in H
    <2> SUFFICES ASSUME NEW i \in Spans, i[2] - i[1] <= w + 1 PROVE i \in G
      OBVIOUS
    <2>1. ASSUME i[1] < i[2] PROVE LeftOf(i) \in G /\ RightOf(i) \in G
      <3>1. /\ LeftOf(i) \in Spans /\ LeftOf(i)[2] - LeftOf(i)[1] <= w
            /\ RightOf(i) \in Spans /\ RightOf(i)[2] - RightOf(i)[1] <= w
        BY <2>1, Halves
      <3> QED
        BY <1>2, <3>1
    <2> QED
      BY <2>1
  <1> HIDE DEF H
  <1>3. Nat \subseteq H
    BY <1>1, <1>2, NatSetInduction
  <1> SUFFICES ASSUME NEW i \in Spans PROVE i \in G
    OBVIOUS
  <1>4. i[2] - i[1] \in H /\ i[2] - i[1] \in Nat
    BY <1>3, Halves
  <1> QED
    BY <1>4 DEF H

Solves(f, F, e, i) ==
  f[i] = IF i[1] < i[2] THEN F[<<i, f[LeftOf(i)], f[RightOf(i)]>>] ELSE F[<<i, e, e>>]

LEMMA SpanRecursion ==
  ASSUME NEW V, NEW e \in V, NEW F \in [Spans \X V \X V -> V]
  PROVE  \E f \in [Spans -> V] : \A i \in Spans : Solves(f, F, e, i)
  <1> DEFINE H == {w \in Nat : \E f \in [Spans -> V] : \A i \in Spans : i[2] - i[1] <= w => Solves(f, F, e, i)}
  <1>1. 0 \in H
    <2> DEFINE f == [i \in Spans |-> F[<<i, e, e>>]]
    <2>1. f \in [Spans -> V]
      OBVIOUS
    <2>2. ASSUME NEW i \in Spans, i[2] - i[1] <= 0 PROVE Solves(f, F, e, i)
      <3>1. ~ (i[1] < i[2])
        BY <2>2, Halves
      <3> QED
        BY <3>1 DEF Solves
    <2> HIDE DEF f
    <2> QED
      BY <2>1, <2>2
  <1>2. ASSUME NEW w \in Nat, w \in H PROVE w + 1 \in H
    <2>1. PICK g \in [Spans -> V] : \A i \in Spans : i[2] - i[1] <= w => Solves(g, F, e, i)
      BY <1>2
    <2> DEFINE new(i) == IF i[1] < i[2] THEN F[<<i, g[LeftOf(i)], g[RightOf(i)]>>] ELSE F[<<i, e, e>>]
               f == [i \in Spans |-> new(i)]
    <2>2. f \in [Spans -> V]
      <3> SUFFICES ASSUME NEW i \in Spans PROVE new(i) \in V
        OBVIOUS
      <3> QED
        BY Halves
    <2>3. ASSUME NEW i \in Spans, i[2] - i[1] <= w PROVE f[i] = g[i]
      BY <2>1, <2>3 DEF Solves
    <2>4. ASSUME NEW i \in Spans, i[2] - i[1] <= w + 1 PROVE Solves(f, F, e, i)
      <3>1. CASE i[1] < i[2]
        <4>1. /\ LeftOf(i) \in Spans /\ LeftOf(i)[2] - LeftOf(i)[1] <= w
              /\ RightOf(i) \in Spans /\ RightOf(i)[2] - RightOf(i)[1] <= w
          BY <2>4, <3>1, Halves
        <4>2. f[LeftOf(i)] = g[LeftOf(i)] /\ f[RightOf(i)] = g[RightOf(i)]
          BY <2>3, <4>1
        <4>3. f[i] = F[<<i, g[LeftOf(i)], g[RightOf(i)]>>]
          BY <3>1
        <4> QED
          BY <3>1, <4>2, <4>3 DEF Solves
      <3>2. CASE ~ (i[1] < i[2])
        BY <3>2 DEF Solves
      <3> QED
        BY <3>1, <3>2
    <2> HIDE DEF f
    <2> QED
      BY <2>2, <2>4
  <1> HIDE DEF H
  <1>3. LastSlot \in H
    BY <1>1, <1>2, NatSetInduction, SlotAssumption
  <1>4. PICK f \in [Spans -> V] : \A i \in Spans : i[2] - i[1] <= LastSlot => Solves(f, F, e, i)
    BY <1>3 DEF H
  <1>5. \A i \in Spans : i[2] - i[1] <= LastSlot
    BY Halves, SlotAssumption
  <1> QED
    BY <1>4, <1>5

-----------------------------------------------------------------------------
(* The recursions of add and querymax have solutions. *)

\* The slots that the children of a node are asked for.
LEMMA CutsOf ==
  ASSUME NEW i \in Spans, i[1] < i[2], NEW l \in i[1] .. LastSlot, NEW r \in 0 .. i[2]
  PROVE  /\ <<l, Min({r, Middle(i)})>> \in Cut(LeftOf(i))
         /\ <<Max({l, Middle(i) + 1}), r>> \in Cut(RightOf(i))
  <1>1. /\ Middle(i) \in Nat /\ Middle(i) < i[2] /\ i[2] \in Nat /\ i[2] <= LastSlot /\ l \in Int /\ r \in Int
        /\ LeftOf(i)[1] = i[1] /\ LeftOf(i)[2] = Middle(i)
        /\ RightOf(i)[1] = Middle(i) + 1 /\ RightOf(i)[2] = i[2] /\ i[1] \in Nat
    BY Halves
  <1>2. /\ Min({r, Middle(i)}) \in Int /\ Min({r, Middle(i)}) \in {r, Middle(i)}
        /\ Min({r, Middle(i)}) <= Middle(i)
    <2>1. r \in Int /\ Middle(i) \in Int
      BY <1>1
    <2> QED
      BY <2>1, SmallerOf, Zenon
  <1>3. /\ Max({l, Middle(i) + 1}) \in Int /\ Max({l, Middle(i) + 1}) \in {l, Middle(i) + 1}
        /\ Max({l, Middle(i) + 1}) >= Middle(i) + 1
    <2>1. l \in Int /\ Middle(i) + 1 \in Int
      BY <1>1
    <2> QED
      BY <2>1, LargerOf, Zenon
  <1> QED
    BY <1>1, <1>2, <1>3, SlotAssumption DEF Cut

\* add stops at a node of one slot.
LEMMA OneSlot ==
  ASSUME NEW i \in Spans, NEW l \in i[1] .. LastSlot, NEW r \in 0 .. i[2], l <= r, ~ (l = i[1] /\ r = i[2])
  PROVE  i[1] < i[2]
  BY Halves, SlotAssumption

\* What add makes of a tree below node i, from what it makes of it below the children.
AddStep(a, b, i, n, c, use) ==
  IF c[1] > c[2] THEN n
  ELSE IF c[1] = i[1] /\ c[2] = i[2] THEN Lift(n, i, use)
  ELSE Settle(b[<<a[<<PushDown(n, i), <<c[1], Min({c[2], Middle(i)})>>, use>>],
                  <<Max({c[1], Middle(i) + 1}), c[2]>>, use>>], i)

LEMMA TreeOps ==
  ASSUME NEW n \in Tree, NEW i \in Spans, NEW c \in Int
  PROVE  /\ Lift(n, i, c) \in Tree
         /\ i[1] < i[2] => PushDown(n, i) \in Tree /\ Settle(n, i) \in Tree
  <1>1. n[i].t \in Int /\ n[i].lazy \in Int
    BY DEF Tree
  <1>2. \A m \in Tree, j \in Spans, k \in Int : Lift(m, j, k) \in Tree
    BY DEF Lift, Tree
  <1>3. ASSUME i[1] < i[2] PROVE PushDown(n, i) \in Tree
    <2>1. [n EXCEPT ![i].lazy = 0] \in Tree
      BY DEF Tree
    <2>2. LeftOf(i) \in Spans /\ RightOf(i) \in Spans
      BY <1>3, Halves
    <2> QED
      BY <1>1, <1>2, <2>1, <2>2 DEF PushDown
  <1>4. ASSUME i[1] < i[2] PROVE Settle(n, i) \in Tree
    <2>1. LeftOf(i) \in Spans /\ RightOf(i) \in Spans
      BY <1>4, Halves
    <2>2. Largest(n, i) \in Int
      BY <2>1, LargerOf DEF Largest, Tree
    <2> QED
      BY <2>2 DEF Settle, Tree, NilNode
  <1> QED
    BY <1>2, <1>3, <1>4

LEMMA AddStepTree ==
  ASSUME NEW i \in Spans, NEW c \in Cut(i), NEW n \in Tree, NEW use \in Int, NEW a, NEW b,
         i[1] < i[2] => /\ \A x \in Tree \X Cut(LeftOf(i)) \X Int : a[x] \in Tree
                        /\ \A x \in Tree \X Cut(RightOf(i)) \X Int : b[x] \in Tree
  PROVE  AddStep(a, b, i, n, c, use) \in Tree
  <1>1. c[1] \in i[1] .. LastSlot /\ c[2] \in 0 .. i[2]
    BY DEF Cut
  <1>2. CASE c[1] > c[2] \/ (c[1] = i[1] /\ c[2] = i[2])
    BY <1>2, TreeOps DEF AddStep
  <1>3. CASE ~ (c[1] > c[2]) /\ ~ (c[1] = i[1] /\ c[2] = i[2])
    <2>1. i[1] < i[2]
      <3>1. c[1] <= c[2]
        BY <1>1, <1>3, Halves, SlotAssumption
      <3> QED
        BY <1>1, <1>3, <3>1, OneSlot
    <2>2. PushDown(n, i) \in Tree
      BY <2>1, TreeOps
    <2> DEFINE cl == <<c[1], Min({c[2], Middle(i)})>>
               cr == <<Max({c[1], Middle(i) + 1}), c[2]>>
               lc == a[<<PushDown(n, i), cl, use>>]
               rc == b[<<lc, cr, use>>]
    <2>3. cl \in Cut(LeftOf(i)) /\ cr \in Cut(RightOf(i))
      BY <1>1, <2>1, CutsOf
    <2> HIDE DEF cl, cr
    <2>4. lc \in Tree
      BY <2>1, <2>2, <2>3
    <2> HIDE DEF lc
    <2>5. rc \in Tree
      BY <2>1, <2>3, <2>4
    <2> HIDE DEF rc
    <2>6. Settle(rc, i) \in Tree
      <3>1. 0 \in Int
        OBVIOUS
      <3> QED
        BY <2>1, <2>5, <3>1, TreeOps
    <2> QED
      BY <1>3, <2>6 DEF AddStep, rc, lc, cl, cr
  <1> QED
    BY <1>2, <1>3

\* The same below a node for two ways to add below the children that agree.
LEMMA AddStepSame ==
  ASSUME NEW i \in Spans, NEW c \in Cut(i), NEW n \in Tree, NEW use \in Int,
         NEW a, NEW b, NEW d, NEW e,
         i[1] < i[2] => /\ \A x \in Tree \X Cut(LeftOf(i)) \X Int : a[x] \in Tree /\ d[x] = a[x]
                        /\ \A x \in Tree \X Cut(RightOf(i)) \X Int : e[x] = b[x]
  PROVE  AddStep(a, b, i, n, c, use) = AddStep(d, e, i, n, c, use)
  <1>1. c[1] \in i[1] .. LastSlot /\ c[2] \in 0 .. i[2]
    BY DEF Cut
  <1>2. CASE c[1] > c[2] \/ (c[1] = i[1] /\ c[2] = i[2])
    BY <1>2 DEF AddStep
  <1>3. CASE ~ (c[1] > c[2]) /\ ~ (c[1] = i[1] /\ c[2] = i[2])
    <2>1. i[1] < i[2]
      <3>1. c[1] <= c[2]
        BY <1>1, <1>3, Halves, SlotAssumption
      <3> QED
        BY <1>1, <1>3, <3>1, OneSlot
    <2>2. PushDown(n, i) \in Tree
      BY <2>1, TreeOps
    <2> DEFINE cl == <<c[1], Min({c[2], Middle(i)})>>
               cr == <<Max({c[1], Middle(i) + 1}), c[2]>>
               lc == a[<<PushDown(n, i), cl, use>>]
    <2>3. cl \in Cut(LeftOf(i)) /\ cr \in Cut(RightOf(i))
      BY <1>1, <2>1, CutsOf
    <2> HIDE DEF cl, cr
    <2>4. lc \in Tree /\ d[<<PushDown(n, i), cl, use>>] = lc
      BY <2>1, <2>2, <2>3
    <2> HIDE DEF lc
    <2>5. e[<<lc, cr, use>>] = b[<<lc, cr, use>>]
      BY <2>1, <2>3, <2>4
    <2> QED
      BY <1>3, <2>4, <2>5 DEF AddStep, lc, cl, cr
  <1> QED
    BY <1>2, <1>3

LEMMA AddEquation ==
  ASSUME NEW i \in Spans, NEW n \in Tree, NEW c \in Cut(i), NEW use \in Int
  PROVE  Added[i][<<n, c, use>>] = AddStep(Added[LeftOf(i)], Added[RightOf(i)], i, n, c, use)
  <1> DEFINE D(j) == Tree \X Cut(j) \X Int
             All == Tree \X (Int \X Int) \X Int
             V == [All -> Tree]
             e == [x \in All |-> x[1]]
             step(y, x) == IF x[2] \in Cut(y[1]) THEN AddStep(y[2], y[3], y[1], x[1], x[2], x[3]) ELSE x[1]
             F == [y \in Spans \X V \X V |-> [x \in All |-> step(y, x)]]
             Body(g) == [j \in Spans |-> [x \in D(j) |-> AddStep(g[LeftOf(j)], g[RightOf(j)], j, x[1], x[2], x[3])]]
  <1>1. ASSUME NEW j \in Spans PROVE D(j) \subseteq All
    <2>1. Cut(j) \subseteq Int \X Int
      BY Halves, SlotAssumption DEF Cut
    <2> QED
      BY <2>1
  <1>2. e \in V /\ F \in [Spans \X V \X V -> V]
    <2>1. ASSUME NEW y \in Spans \X V \X V, NEW x \in All PROVE step(y, x) \in Tree
      <3>1. CASE x[2] \in Cut(y[1])
        <4> DEFINE j == y[1]
                   a == y[2]
                   b == y[3]
        <4>1. j \in Spans /\ a \in V /\ b \in V /\ x[1] \in Tree /\ x[3] \in Int
          OBVIOUS
        <4>2. j[1] < j[2] => /\ \A z \in Tree \X Cut(LeftOf(j)) \X Int : a[z] \in Tree
                             /\ \A z \in Tree \X Cut(RightOf(j)) \X Int : b[z] \in Tree
          BY <1>1, <4>1, Halves
        <4> HIDE DEF j, a, b, V, All
        <4>3. AddStep(a, b, j, x[1], x[2], x[3]) \in Tree
          BY <3>1, <4>1, <4>2, AddStepTree DEF j
        <4> QED
          BY <3>1, <4>3 DEF j, a, b
      <3>2. CASE x[2] \notin Cut(y[1])
        BY <3>2
      <3> QED
        BY <3>1, <3>2
    <2> HIDE DEF step
    <2> QED
      BY <2>1
  <1>3. PICK f \in [Spans -> V] : \A j \in Spans : Solves(f, F, e, j)
    <2> HIDE DEF V, F, e
    <2> QED
      BY <1>2, SpanRecursion
  <1> DEFINE g == [j \in Spans |-> [x \in D(j) |-> f[j][x]]]
  <1>4. ASSUME NEW j \in Spans, NEW x \in D(j)
        PROVE  f[j][x] = AddStep(g[LeftOf(j)], g[RightOf(j)], j, x[1], x[2], x[3])
    <2>0. x \in All /\ x[2] \in Cut(j) /\ x[1] \in Tree /\ x[3] \in Int
      BY <1>1
    <2> DEFINE a == IF j[1] < j[2] THEN f[LeftOf(j)] ELSE e
               b == IF j[1] < j[2] THEN f[RightOf(j)] ELSE e
    <2>1. a \in V /\ b \in V
      BY <1>2, Halves
    <2>2. f[j] = F[<<j, a, b>>]
      BY <1>3 DEF Solves
    <2>3. f[j][x] = AddStep(a, b, j, x[1], x[2], x[3])
      <3> HIDE DEF a, b, V
      <3>1. <<j, a, b>> \in Spans \X V \X V
        BY <2>1
      <3>2. F[<<j, a, b>>] = [z \in All |-> step(<<j, a, b>>, z)]
        BY <3>1
      <3>3. f[j][x] = step(<<j, a, b>>, x)
        BY <2>0, <2>2, <3>2
      <3> QED
        BY <2>0, <3>3
    <2>4. j[1] < j[2] => /\ \A z \in D(LeftOf(j)) : a[z] \in Tree /\ g[LeftOf(j)][z] = a[z]
                         /\ \A z \in D(RightOf(j)) : g[RightOf(j)][z] = b[z]
      BY <1>1, <2>1, Halves
    <2> HIDE DEF a, b, g
    <2>5. AddStep(a, b, j, x[1], x[2], x[3]) = AddStep(g[LeftOf(j)], g[RightOf(j)], j, x[1], x[2], x[3])
      BY <2>0, <2>4, AddStepSame
    <2> QED
      BY <2>3, <2>5
  <1>5. g = Body(g)
    <2>1. \A j \in Spans : g[j] = [x \in D(j) |-> AddStep(g[LeftOf(j)], g[RightOf(j)], j, x[1], x[2], x[3])]
      <3> SUFFICES ASSUME NEW j \in Spans
                   PROVE  g[j] = [x \in D(j) |-> AddStep(g[LeftOf(j)], g[RightOf(j)], j, x[1], x[2], x[3])]
        OBVIOUS
      <3>1. g[j] = [x \in D(j) |-> f[j][x]]
        OBVIOUS
      <3> HIDE DEF g
      <3> QED
        BY <1>4, <3>1
    <2>2. g = [j \in Spans |-> g[j]]
      OBVIOUS
    <2> HIDE DEF g
    <2> QED
      BY <2>1, <2>2
  <1>6. Added = CHOOSE h : h = Body(h)
    BY DEF Added, AddStep
  <1> HIDE DEF Body, g
  <1>7. Added = Body(Added)
    BY <1>5, <1>6
  <1>8. ASSUME NEW h, h = Body(h)
        PROVE  h[i][<<n, c, use>>] = AddStep(h[LeftOf(i)], h[RightOf(i)], i, n, c, use)
    <2>1. Body(h)[i] = [x \in D(i) |-> AddStep(h[LeftOf(i)], h[RightOf(i)], i, x[1], x[2], x[3])]
      BY DEF Body
    <2>2. <<n, c, use>> \in D(i)
      OBVIOUS
    <2>3. Body(h)[i][<<n, c, use>>] = AddStep(h[LeftOf(i)], h[RightOf(i)], i, n, c, use)
      BY <2>1, <2>2
    <2> QED
      BY <1>8, <2>3
  <1> QED
    BY <1>7, <1>8

\* The same for the largest use, of a tree n.
MaxStep(a, b, n, i, c, owed) ==
  IF c[1] > c[2] THEN 0
  ELSE IF c[1] <= i[1] /\ i[2] <= c[2] THEN n[i].t + owed
  ELSE Max({a[<<<<c[1], Min({c[2], Middle(i)})>>, owed + n[i].lazy>>],
            b[<<<<Max({c[1], Middle(i) + 1}), c[2]>>, owed + n[i].lazy>>]})

LEMMA MaxStepSame ==
  ASSUME NEW n \in Tree, NEW i \in Spans, NEW c \in Cut(i), NEW owed \in Int,
         NEW a, NEW b, NEW d, NEW e,
         i[1] < i[2] => /\ \A x \in Cut(LeftOf(i)) \X Int : a[x] \in Int /\ d[x] = a[x]
                        /\ \A x \in Cut(RightOf(i)) \X Int : b[x] \in Int /\ e[x] = b[x]
  PROVE  /\ MaxStep(a, b, n, i, c, owed) = MaxStep(d, e, n, i, c, owed)
         /\ MaxStep(a, b, n, i, c, owed) \in Int
  <1>1. c[1] \in i[1] .. LastSlot /\ c[2] \in 0 .. i[2] /\ n[i].t \in Int /\ n[i].lazy \in Int
    BY DEF Cut, Tree
  <1>2. CASE c[1] > c[2] \/ (c[1] <= i[1] /\ i[2] <= c[2])
    BY <1>1, <1>2 DEF MaxStep
  <1>3. CASE ~ (c[1] > c[2]) /\ ~ (c[1] <= i[1] /\ i[2] <= c[2])
    <2>1. i[1] < i[2]
      <3>1. c[1] <= c[2] /\ ~ (c[1] = i[1] /\ c[2] = i[2])
        BY <1>1, <1>3, Halves, SlotAssumption
      <3> QED
        BY <1>1, <3>1, OneSlot
    <2> DEFINE cl == <<c[1], Min({c[2], Middle(i)})>>
               cr == <<Max({c[1], Middle(i) + 1}), c[2]>>
               o == owed + n[i].lazy
    <2>2. cl \in Cut(LeftOf(i)) /\ cr \in Cut(RightOf(i)) /\ o \in Int
      BY <1>1, <2>1, CutsOf
    <2> HIDE DEF cl, cr, o
    <2>3. /\ a[<<cl, o>>] \in Int /\ d[<<cl, o>>] = a[<<cl, o>>]
          /\ b[<<cr, o>>] \in Int /\ e[<<cr, o>>] = b[<<cr, o>>]
      BY <2>1, <2>2
    <2>4. Max({a[<<cl, o>>], b[<<cr, o>>]}) \in Int
      BY <2>3, LargerOf
    <2>5. /\ MaxStep(a, b, n, i, c, owed) = Max({a[<<cl, o>>], b[<<cr, o>>]})
          /\ MaxStep(d, e, n, i, c, owed) = Max({d[<<cl, o>>], e[<<cr, o>>]})
      BY <1>3 DEF MaxStep, cl, cr, o
    <2> QED
      BY <2>3, <2>4, <2>5
  <1> QED
    BY <1>2, <1>3

LEMMA MaxEquation ==
  ASSUME NEW n \in Tree, NEW i \in Spans, NEW c \in Cut(i), NEW owed \in Int
  PROVE  MaxIn(n)[i][<<c, owed>>] = MaxStep(MaxIn(n)[LeftOf(i)], MaxIn(n)[RightOf(i)], n, i, c, owed)
  <1> DEFINE D(j) == Cut(j) \X Int
             All == (Int \X Int) \X Int
             V == [All -> Int]
             e == [x \in All |-> 0]
             step(y, x) == IF x[1] \in Cut(y[1]) THEN MaxStep(y[2], y[3], n, y[1], x[1], x[2]) ELSE 0
             F == [y \in Spans \X V \X V |-> [x \in All |-> step(y, x)]]
             Body(g) == [j \in Spans |-> [x \in D(j) |-> MaxStep(g[LeftOf(j)], g[RightOf(j)], n, j, x[1], x[2])]]
  <1>1. ASSUME NEW j \in Spans PROVE D(j) \subseteq All
    <2>1. Cut(j) \subseteq Int \X Int
      BY Halves, SlotAssumption DEF Cut
    <2> QED
      BY <2>1
  <1>2. e \in V /\ F \in [Spans \X V \X V -> V]
    <2>1. ASSUME NEW y \in Spans \X V \X V, NEW x \in All PROVE step(y, x) \in Int
      <3>1. CASE x[1] \in Cut(y[1])
        <4> DEFINE j == y[1]
                   a == y[2]
                   b == y[3]
        <4>1. j \in Spans /\ a \in V /\ b \in V /\ x[2] \in Int
          OBVIOUS
        <4>2. j[1] < j[2] => /\ \A z \in Cut(LeftOf(j)) \X Int : a[z] \in Int /\ a[z] = a[z]
                             /\ \A z \in Cut(RightOf(j)) \X Int : b[z] \in Int /\ b[z] = b[z]
          BY <1>1, <4>1, Halves
        <4> HIDE DEF j, a, b, V, All
        <4>3. MaxStep(a, b, n, j, x[1], x[2]) \in Int
          BY <3>1, <4>1, <4>2, MaxStepSame DEF j
        <4> QED
          BY <3>1, <4>3 DEF j, a, b
      <3>2. CASE x[1] \notin Cut(y[1])
        BY <3>2
      <3> QED
        BY <3>1, <3>2
    <2> HIDE DEF step
    <2> QED
      BY <2>1
  <1>3. PICK f \in [Spans -> V] : \A j \in Spans : Solves(f, F, e, j)
    <2> HIDE DEF V, F, e
    <2> QED
      BY <1>2, SpanRecursion
  <1> DEFINE g == [j \in Spans |-> [x \in D(j) |-> f[j][x]]]
  <1>4. ASSUME NEW j \in Spans, NEW x \in D(j)
        PROVE  f[j][x] = MaxStep(g[LeftOf(j)], g[RightOf(j)], n, j, x[1], x[2])
    <2>0. x \in All /\ x[1] \in Cut(j) /\ x[2] \in Int
      BY <1>1
    <2> DEFINE a == IF j[1] < j[2] THEN f[LeftOf(j)] ELSE e
               b == IF j[1] < j[2] THEN f[RightOf(j)] ELSE e
    <2>1. a \in V /\ b \in V
      BY <1>2, Halves
    <2>2. f[j] = F[<<j, a, b>>]
      BY <1>3 DEF Solves
    <2>3. f[j][x] = MaxStep(a, b, n, j, x[1], x[2])
      <3> HIDE DEF a, b, V
      <3>1. <<j, a, b>> \in Spans \X V \X V
        BY <2>1
      <3>2. F[<<j, a, b>>] = [z \in All |-> step(<<j, a, b>>, z)]
        BY <3>1
      <3>3. f[j][x] = step(<<j, a, b>>, x)
        BY <2>0, <2>2, <3>2
      <3> QED
        BY <2>0, <3>3
    <2>4. j[1] < j[2] => /\ \A z \in D(LeftOf(j)) : a[z] \in Int /\ g[LeftOf(j)][z] = a[z]
                         /\ \A z \in D(RightOf(j)) : b[z] \in Int /\ g[RightOf(j)][z] = b[z]
      BY <1>1, <2>1, Halves
    <2> HIDE DEF a, b, g
    <2>5. MaxStep(a, b, n, j, x[1], x[2]) = MaxStep(g[LeftOf(j)], g[RightOf(j)], n, j, x[1], x[2])
      BY <2>0, <2>4, MaxStepSame
    <2> QED
      BY <2>3, <2>5
  <1>5. g = Body(g)
    <2>1. \A j \in Spans : g[j] = [x \in D(j) |-> MaxStep(g[LeftOf(j)], g[RightOf(j)], n, j, x[1], x[2])]
      <3> SUFFICES ASSUME NEW j \in Spans
                   PROVE  g[j] = [x \in D(j) |-> MaxStep(g[LeftOf(j)], g[RightOf(j)], n, j, x[1], x[2])]
        OBVIOUS
      <3>1. g[j] = [x \in D(j) |-> f[j][x]]
        OBVIOUS
      <3> HIDE DEF g
      <3> QED
        BY <1>4, <3>1
    <2>2. g = [j \in Spans |-> g[j]]
      OBVIOUS
    <2> HIDE DEF g
    <2> QED
      BY <2>1, <2>2
  <1>6. MaxIn(n) = CHOOSE h : h = Body(h)
    BY DEF MaxIn, MaxStep
  <1> HIDE DEF Body, g
  <1>7. MaxIn(n) = Body(MaxIn(n))
    BY <1>5, <1>6
  <1>8. ASSUME NEW h, h = Body(h)
        PROVE  h[i][<<c, owed>>] = MaxStep(h[LeftOf(i)], h[RightOf(i)], n, i, c, owed)
    <2>1. Body(h)[i] = [x \in D(i) |-> MaxStep(h[LeftOf(i)], h[RightOf(i)], n, i, x[1], x[2])]
      BY DEF Body
    <2>2. <<c, owed>> \in D(i)
      OBVIOUS
    <2>3. Body(h)[i][<<c, owed>>] = MaxStep(h[LeftOf(i)], h[RightOf(i)], n, i, c, owed)
      BY <2>1, <2>2
    <2> QED
      BY <1>8, <2>3
  <1> QED
    BY <1>7, <1>8

-----------------------------------------------------------------------------
(* What a tree says.  Below node i, tree n and use u of the slots belong     *)
(* together: the largest use is the node's, and the children hold the use    *)
(* that the node does not owe them.                                          *)

Uses == [Slots -> Int]

IsLargest(t, u, i) ==
  /\ \A s \in i[1] .. i[2] : u[s] <= t
  /\ \E s \in i[1] .. i[2] : u[s] = t

Less(u, owed) == [s \in Slots |-> u[s] - owed]

Agree(A, B, n, u, i) ==
  /\ IsLargest(n[i].t, u, i)
  /\ i[1] < i[2] => <<n, Less(u, n[i].lazy)>> \in A /\ <<n, Less(u, n[i].lazy)>> \in B

Exact[i \in Spans] ==
  {x \in Tree \X Uses : Agree(Exact[LeftOf(i)], Exact[RightOf(i)], x[1], x[2], i)}

LEMMA ExactEquation ==
  ASSUME NEW i \in Spans, NEW n \in Tree, NEW u \in Uses
  PROVE  <<n, u>> \in Exact[i] <=> Agree(Exact[LeftOf(i)], Exact[RightOf(i)], n, u, i)
  <1> DEFINE V == SUBSET (Tree \X Uses)
             e == {}
             step(y) == {x \in Tree \X Uses : Agree(y[2], y[3], x[1], x[2], y[1])}
             F == [y \in Spans \X V \X V |-> step(y)]
             Body(g) == [j \in Spans |-> {x \in Tree \X Uses : Agree(g[LeftOf(j)], g[RightOf(j)], x[1], x[2], j)}]
  <1>1. e \in V /\ F \in [Spans \X V \X V -> V]
    OBVIOUS
  <1>2. PICK f \in [Spans -> V] : \A j \in Spans : Solves(f, F, e, j)
    <2> HIDE DEF V, F, e
    <2> QED
      BY <1>1, SpanRecursion
  <1>3. ASSUME NEW j \in Spans
        PROVE  f[j] = {x \in Tree \X Uses : Agree(f[LeftOf(j)], f[RightOf(j)], x[1], x[2], j)}
    <2> DEFINE a == IF j[1] < j[2] THEN f[LeftOf(j)] ELSE e
               b == IF j[1] < j[2] THEN f[RightOf(j)] ELSE e
    <2>1. <<j, a, b>> \in Spans \X V \X V
      BY <1>1, Halves
    <2>2. f[j] = F[<<j, a, b>>]
      BY <1>2 DEF Solves
    <2>3. F[<<j, a, b>>] = step(<<j, a, b>>)
      <3> HIDE DEF V, a, b, step
      <3> QED
        BY <2>1
    <2>4. \A x \in Tree \X Uses : Agree(a, b, x[1], x[2], j) <=> Agree(f[LeftOf(j)], f[RightOf(j)], x[1], x[2], j)
      BY DEF Agree
    <2> HIDE DEF a, b, F
    <2> QED
      BY <2>2, <2>3, <2>4
  <1>4. f = Body(f)
    <2>1. f = [j \in Spans |-> f[j]]
      OBVIOUS
    <2> QED
      BY <1>3, <2>1
  <1>5. Exact = CHOOSE h : h = Body(h)
    BY DEF Exact
  <1> HIDE DEF Body
  <1>6. Exact = Body(Exact)
    BY <1>4, <1>5
  <1>7. ASSUME NEW h, h = Body(h)
        PROVE  <<n, u>> \in h[i] <=> Agree(h[LeftOf(i)], h[RightOf(i)], n, u, i)
    <2>1. Body(h)[i] = {x \in Tree \X Uses : Agree(h[LeftOf(i)], h[RightOf(i)], x[1], x[2], i)}
      BY DEF Body
    <2>2. <<n, u>> \in Body(h)[i] <=> Agree(h[LeftOf(i)], h[RightOf(i)], n, u, i)
      BY <2>1
    <2> QED
      BY <1>7, <2>2
  <1> QED
    BY <1>6, <1>7

\* One equation for the halves, with what is owed spelled out.
LEMMA ExactParts ==
  ASSUME NEW i \in Spans, NEW n \in Tree, NEW u \in Uses
  PROVE  /\ Less(u, n[i].lazy) \in Uses
         /\ <<n, u>> \in Exact[i] <=>
               /\ IsLargest(n[i].t, u, i)
               /\ i[1] < i[2] => /\ <<n, Less(u, n[i].lazy)>> \in Exact[LeftOf(i)]
                                 /\ <<n, Less(u, n[i].lazy)>> \in Exact[RightOf(i)]
  <1>1. n[i].lazy \in Int
    BY DEF Tree
  <1>2. Less(u, n[i].lazy) \in Uses
    BY <1>1 DEF Less, Uses
  <1> QED
    BY <1>2, ExactEquation DEF Agree

\* Span j lies within span i.
Within(j, i) == i[1] <= j[1] /\ j[2] <= i[2]

SlotsOf(i) == i[1] .. i[2]

LEMMA WithinHalves ==
  ASSUME NEW i \in Spans, i[1] < i[2], NEW j \in Spans
  PROVE  /\ Within(j, LeftOf(i)) => Within(j, i) /\ j # i /\ ~ Within(j, RightOf(i))
         /\ Within(j, RightOf(i)) => Within(j, i) /\ j # i
         /\ ~ Within(i, LeftOf(i)) /\ ~ Within(i, RightOf(i))
         /\ Within(LeftOf(i), LeftOf(i)) /\ Within(RightOf(i), RightOf(i))
         /\ LeftOf(i) # i /\ RightOf(i) # i /\ LeftOf(i) # RightOf(i)
  BY Halves DEF Within

LEMMA SlotHalves ==
  ASSUME NEW i \in Spans
  PROVE  /\ SlotsOf(i) \subseteq Slots
         /\ i[1] < i[2] => /\ SlotsOf(i) = SlotsOf(LeftOf(i)) \cup SlotsOf(RightOf(i))
                           /\ SlotsOf(LeftOf(i)) \cap SlotsOf(RightOf(i)) = {}
  BY Halves, SlotAssumption DEF SlotsOf, Slots

\* Only what lies within a span matters.
LEMMA ExactFrame ==
  ASSUME NEW i \in Spans, NEW n \in Tree, NEW m \in Tree, NEW u \in Uses, NEW v \in Uses,
         \A j \in Spans : Within(j, i) => m[j] = n[j], \A s \in SlotsOf(i) : v[s] = u[s],
         <<n, u>> \in Exact[i]
  PROVE  <<m, v>> \in Exact[i]
  <1> DEFINE Same(j, a, b, x, y) == /\ \A k \in Spans : Within(k, j) => b[k] = a[k]
                                    /\ \A s \in SlotsOf(j) : y[s] = x[s]
             G == {j \in Spans : \A a, b \in Tree : \A x, y \in Uses :
                     Same(j, a, b, x, y) /\ <<a, x>> \in Exact[j] => <<b, y>> \in Exact[j]}
  <1>1. ASSUME NEW j \in Spans, j[1] < j[2] => LeftOf(j) \in G /\ RightOf(j) \in G PROVE j \in G
    <2> SUFFICES ASSUME NEW a \in Tree, NEW b \in Tree, NEW x \in Uses, NEW y \in Uses,
                        Same(j, a, b, x, y), <<a, x>> \in Exact[j]
                 PROVE  <<b, y>> \in Exact[j]
      OBVIOUS
    <2>1. b[j] = a[j]
      BY Halves DEF Within
    <2>2. IsLargest(b[j].t, y, j)
      <3>1. IsLargest(a[j].t, x, j)
        BY ExactParts
      <3> QED
        BY <2>1, <3>1 DEF IsLargest, SlotsOf
    <2> DEFINE p == Less(x, a[j].lazy)
               q == Less(y, b[j].lazy)
    <2>3. p \in Uses /\ q \in Uses
      BY ExactParts
    <2>4. \A s \in SlotsOf(j) : q[s] = p[s]
      BY <2>1, SlotHalves DEF Less
    <2>5. ASSUME j[1] < j[2] PROVE <<b, q>> \in Exact[LeftOf(j)] /\ <<b, q>> \in Exact[RightOf(j)]
      <3>1. <<a, p>> \in Exact[LeftOf(j)] /\ <<a, p>> \in Exact[RightOf(j)]
        BY <2>5, ExactParts
      <3> HIDE DEF p, q
      <3>2. Same(LeftOf(j), a, b, p, q) /\ Same(RightOf(j), a, b, p, q)
        BY <2>4, <2>5, WithinHalves, SlotHalves
      <3> QED
        BY <1>1, <2>3, <2>5, <3>1, <3>2
    <2> QED
      BY <2>2, <2>5, ExactParts
  <1> HIDE DEF G
  <1>2. Spans \subseteq G
    BY <1>1, SpanInduction
  <1>3. i \in G
    BY <1>2
  <1> QED
    BY <1>3 DEF G

\* A node that is lifted: every slot uses more.
LEMMA ExactLift ==
  ASSUME NEW i \in Spans, NEW n \in Tree, NEW u \in Uses, NEW c \in Int, NEW v \in Uses,
         <<n, u>> \in Exact[i], \A s \in SlotsOf(i) : v[s] = u[s] + c
  PROVE  <<Lift(n, i, c), v>> \in Exact[i]
  <1> DEFINE m == Lift(n, i, c)
  <1>1. m \in Tree
    BY TreeOps
  <1>2. n[i].t \in Int /\ n[i].lazy \in Int
    BY DEF Tree
  <1>3. /\ m[i].t = n[i].t + c /\ m[i].lazy = n[i].lazy + c
        /\ \A j \in Spans : j # i => m[j] = n[j]
    BY DEF Lift, Tree
  <1>4. SlotsOf(i) \subseteq Slots
    BY SlotHalves
  <1>5. IsLargest(m[i].t, v, i)
    <2>1. IsLargest(n[i].t, u, i)
      BY ExactParts
    <2>2. \A s \in SlotsOf(i) : u[s] \in Int
      BY <1>4 DEF Uses
    <2> HIDE DEF m
    <2> QED
      BY <1>2, <1>3, <2>1, <2>2 DEF IsLargest, SlotsOf
  <1> DEFINE p == Less(u, n[i].lazy)
             q == Less(v, m[i].lazy)
  <1>6. p \in Uses /\ q \in Uses
    BY <1>1, ExactParts
  <1>7. \A s \in SlotsOf(i) : q[s] = p[s]
    <2> SUFFICES ASSUME NEW s \in SlotsOf(i) PROVE q[s] = p[s]
      OBVIOUS
    <2>1. u[s] \in Int /\ v[s] = u[s] + c /\ s \in Slots
      BY <1>4 DEF Uses
    <2>2. q[s] = v[s] - m[i].lazy /\ p[s] = u[s] - n[i].lazy
      BY <2>1 DEF Less
    <2> HIDE DEF m, p, q
    <2> QED
      BY <1>2, <1>3, <2>1, <2>2
  <1>8. ASSUME i[1] < i[2] PROVE <<m, q>> \in Exact[LeftOf(i)] /\ <<m, q>> \in Exact[RightOf(i)]
    <2>1. <<n, p>> \in Exact[LeftOf(i)] /\ <<n, p>> \in Exact[RightOf(i)]
      BY <1>8, ExactParts
    <2> HIDE DEF m, p, q
    <2>2. \A j \in Spans : Within(j, LeftOf(i)) \/ Within(j, RightOf(i)) => m[j] = n[j]
      BY <1>3, <1>8, WithinHalves
    <2>3. (\A s \in SlotsOf(LeftOf(i)) : q[s] = p[s]) /\ (\A s \in SlotsOf(RightOf(i)) : q[s] = p[s])
      BY <1>7, <1>8, SlotHalves
    <2>4. LeftOf(i) \in Spans /\ RightOf(i) \in Spans
      BY <1>8, Halves
    <2>5. <<m, q>> \in Exact[LeftOf(i)]
      BY <1>1, <1>6, <2>1, <2>2, <2>3, <2>4, ExactFrame
    <2>6. <<m, q>> \in Exact[RightOf(i)]
      BY <1>1, <1>6, <2>1, <2>2, <2>3, <2>4, ExactFrame
    <2> QED
      BY <2>5, <2>6
  <1>9. <<m, v>> \in Exact[i]
    <2> HIDE DEF m
    <2> QED
      BY <1>1, <1>5, <1>8, ExactParts
  <1> QED
    BY <1>9

\* A node that pays its debt: the children then hold the use itself.
LEMMA ExactPush ==
  ASSUME NEW i \in Spans, i[1] < i[2], NEW n \in Tree, NEW u \in Uses, <<n, u>> \in Exact[i]
  PROVE  /\ PushDown(n, i) \in Tree /\ PushDown(n, i)[i].lazy = 0
         /\ \A j \in Spans : ~ Within(j, i) => PushDown(n, i)[j] = n[j]
         /\ <<PushDown(n, i), u>> \in Exact[LeftOf(i)] /\ <<PushDown(n, i), u>> \in Exact[RightOf(i)]
  <1> DEFINE L == LeftOf(i)
             R == RightOf(i)
             w == n[i].lazy
             p == Less(u, w)
  <1>1. w \in Int /\ p \in Uses /\ L \in Spans /\ R \in Spans /\ PushDown(n, i) \in Tree
    BY Halves, ExactParts, TreeOps DEF Tree
  <1>2. <<n, p>> \in Exact[L] /\ <<n, p>> \in Exact[R]
    BY ExactParts
  <1>3. \A s \in SlotsOf(L) \cup SlotsOf(R) : u[s] = p[s] + w
    <2> SUFFICES ASSUME NEW s \in SlotsOf(L) \cup SlotsOf(R) PROVE u[s] = p[s] + w
      OBVIOUS
    <2>1. s \in Slots
      BY SlotHalves
    <2>2. u[s] \in Int /\ p[s] = u[s] - w
      BY <2>1 DEF Less, Uses
    <2> HIDE DEF p, w
    <2> QED
      BY <1>1, <2>2
  <1>4. CASE w = 0
    <2>1. PushDown(n, i) = n
      BY <1>4 DEF PushDown
    <2>2. (\A s \in SlotsOf(L) : u[s] = p[s]) /\ (\A s \in SlotsOf(R) : u[s] = p[s])
      <3>1. \A s \in SlotsOf(L) \cup SlotsOf(R) : p[s] \in Int
        BY <1>1, SlotHalves DEF Uses
      <3> HIDE DEF p, w
      <3> QED
        BY <1>3, <1>4, <3>1
    <2> HIDE DEF L, R, p
    <2>3. <<n, u>> \in Exact[L]
      BY <1>1, <1>2, <2>2, ExactFrame
    <2>4. <<n, u>> \in Exact[R]
      BY <1>1, <1>2, <2>2, ExactFrame
    <2> QED
      BY <1>4, <2>1, <2>3, <2>4 DEF L, R, w
  <1>5. CASE w # 0
    <2> DEFINE a == [n EXCEPT ![i].lazy = 0]
               b == Lift(a, L, w)
               c == Lift(b, R, w)
    <2>1. PushDown(n, i) = c
      <3>1. i[1] # i[2]
        BY Halves
      <3> QED
        BY <1>5, <3>1 DEF PushDown
    <2>2. a \in Tree
      BY DEF Tree
    <2>3. b \in Tree
      <3> HIDE DEF a
      <3> QED
        BY <1>1, <2>2, TreeOps
    <2>4. c \in Tree
      <3> HIDE DEF b
      <3> QED
        BY <1>1, <2>3, TreeOps
    <2>5. a[i].lazy = 0 /\ \A j \in Spans : j # i => a[j] = n[j]
      BY DEF Tree
    <2>6. \A j \in Spans : j # L => b[j] = a[j]
      BY <2>2 DEF Lift, Tree
    <2>7. \A j \in Spans : j # R => c[j] = b[j]
      <3> HIDE DEF b
      <3> QED
        BY <2>3 DEF Lift, Tree
    <2>8. <<b, u>> \in Exact[L] /\ <<b, p>> \in Exact[R]
      <3>1. \A j \in Spans : Within(j, L) \/ Within(j, R) => a[j] = n[j]
        BY <2>5, WithinHalves
      <3>2. \A j \in Spans : Within(j, R) => b[j] = a[j]
        BY <2>6, WithinHalves
      <3> HIDE DEF a, b, L, R, p, w
      <3>3. <<a, p>> \in Exact[L]
        BY <1>1, <1>2, <2>2, <3>1, ExactFrame
      <3>4. <<a, p>> \in Exact[R]
        BY <1>1, <1>2, <2>2, <3>1, ExactFrame
      <3>5. <<b, p>> \in Exact[R]
        BY <1>1, <2>2, <2>3, <3>2, <3>4, ExactFrame
      <3>6. <<b, u>> \in Exact[L]
        <4>1. \A s \in SlotsOf(L) : u[s] = p[s] + w
          BY <1>3
        <4> QED
          BY <1>1, <2>2, <3>3, <4>1, ExactLift DEF b
      <3> QED
        BY <3>5, <3>6
    <2>9. <<c, u>> \in Exact[L] /\ <<c, u>> \in Exact[R]
      <3>1. \A j \in Spans : Within(j, L) => c[j] = b[j]
        BY <2>7, WithinHalves
      <3> HIDE DEF b, c, L, R, p, w
      <3>2. <<c, u>> \in Exact[L]
        BY <1>1, <2>3, <2>4, <2>8, <3>1, ExactFrame
      <3>3. <<c, u>> \in Exact[R]
        <4>1. \A s \in SlotsOf(R) : u[s] = p[s] + w
          BY <1>3
        <4> QED
          BY <1>1, <2>3, <2>8, <4>1, ExactLift DEF c
      <3> QED
        BY <3>2, <3>3
    <2>10. c[i].lazy = 0 /\ \A j \in Spans : ~ Within(j, i) => c[j] = n[j]
      <3>1. \A j \in Spans : ~ Within(j, i) => j # i /\ j # L /\ j # R
        BY WithinHalves, Halves DEF Within
      <3>2. i # L /\ i # R
        BY WithinHalves
      <3> HIDE DEF a, b, c, L, R, w
      <3> QED
        BY <2>5, <2>6, <2>7, <3>1, <3>2
    <2> HIDE DEF c, L, R
    <2> QED
      BY <2>1, <2>4, <2>9, <2>10 DEF L, R
  <1> QED
    BY <1>4, <1>5

\* A tree without a node says that nothing is used.
LEMMA ExactNothing ==
  ASSUME NEW i \in Spans, NEW n \in Tree, NEW u \in Uses,
         \A j \in Spans : Within(j, i) => n[j] = NilNode, \A s \in SlotsOf(i) : u[s] = 0
  PROVE  <<n, u>> \in Exact[i]
  <1> DEFINE Idle(j, x) == \A s \in SlotsOf(j) : x[s] = 0
             G == {j \in Spans : Within(j, i) => \A x \in Uses : Idle(j, x) => <<n, x>> \in Exact[j]}
  <1>1. ASSUME NEW j \in Spans, j[1] < j[2] => LeftOf(j) \in G /\ RightOf(j) \in G PROVE j \in G
    <2> SUFFICES ASSUME Within(j, i), NEW x \in Uses, Idle(j, x) PROVE <<n, x>> \in Exact[j]
      OBVIOUS
    <2>1. n[j].t = 0 /\ n[j].lazy = 0
      BY DEF NilNode
    <2>2. IsLargest(n[j].t, x, j)
      <3>1. j[1] \in SlotsOf(j)
        BY Halves DEF SlotsOf
      <3> QED
        BY <2>1, <3>1 DEF IsLargest, SlotsOf
    <2> DEFINE y == Less(x, n[j].lazy)
    <2>3. y \in Uses
      BY ExactParts
    <2>4. \A s \in SlotsOf(j) : y[s] = 0
      BY <2>1, SlotHalves DEF Less
    <2>5. ASSUME j[1] < j[2] PROVE <<n, y>> \in Exact[LeftOf(j)] /\ <<n, y>> \in Exact[RightOf(j)]
      <3> HIDE DEF y
      <3>1. Idle(LeftOf(j), y) /\ Idle(RightOf(j), y)
        BY <2>4, <2>5, SlotHalves
      <3>2. Within(LeftOf(j), i) /\ Within(RightOf(j), i)
        BY <2>5, Halves DEF Within
      <3> QED
        BY <1>1, <2>3, <2>5, <3>1, <3>2
    <2> QED
      BY <2>2, <2>5, ExactParts
  <1> HIDE DEF G
  <1>2. Spans \subseteq G
    BY <1>1, SpanInduction
  <1>3. i \in G /\ Within(i, i)
    BY <1>2, Halves DEF Within
  <1> QED
    BY <1>3 DEF G

\* The larger of the two children is the largest use of both.
LEMMA LargestOfHalves ==
  ASSUME NEW i \in Spans, i[1] < i[2], NEW u \in Uses, NEW a \in Int, NEW b \in Int,
         IsLargest(a, u, LeftOf(i)), IsLargest(b, u, RightOf(i))
  PROVE  IsLargest(Max({a, b}), u, i)
  <1>1. /\ Max({a, b}) \in Int /\ Max({a, b}) \in {a, b}
        /\ Max({a, b}) >= a /\ Max({a, b}) >= b
    BY LargerOf
  <1>2. SlotsOf(i) = SlotsOf(LeftOf(i)) \cup SlotsOf(RightOf(i)) /\ SlotsOf(i) \subseteq Slots
    BY SlotHalves
  <1>3. \A s \in SlotsOf(i) : u[s] \in Int
    BY <1>2 DEF Uses
  <1>4. /\ \A s \in SlotsOf(LeftOf(i)) : u[s] <= a
        /\ \E s \in SlotsOf(LeftOf(i)) : u[s] = a
        /\ \A s \in SlotsOf(RightOf(i)) : u[s] <= b
        /\ \E s \in SlotsOf(RightOf(i)) : u[s] = b
    BY DEF IsLargest, SlotsOf
  <1> DEFINE t == Max({a, b})
  <1> HIDE DEF t
  <1>5. (\A s \in SlotsOf(i) : u[s] <= t) /\ (\E s \in SlotsOf(i) : u[s] = t)
    BY <1>1, <1>2, <1>3, <1>4 DEF t
  <1> QED
    BY <1>5 DEF IsLargest, SlotsOf, t

\* Use u, with use more in the slots of c: no slot is left with less than none.
Changed(u, v, c, use, i) ==
  \A s \in SlotsOf(i) :
    /\ v[s] = IF c[1] <= s /\ s <= c[2] THEN u[s] + use ELSE u[s]
    /\ v[s] >= 0

LEMMA ChangedHalves ==
  ASSUME NEW i \in Spans, i[1] < i[2], NEW c \in Cut(i), NEW u, NEW v, NEW use, Changed(u, v, c, use, i)
  PROVE  /\ Changed(u, v, <<c[1], Min({c[2], Middle(i)})>>, use, LeftOf(i))
         /\ Changed(u, v, <<Max({c[1], Middle(i) + 1}), c[2]>>, use, RightOf(i))
  <1>1. /\ c[1] \in Int /\ c[2] \in Int /\ Middle(i) \in Int
        /\ i[1] \in Int /\ i[2] \in Int /\ i[1] <= Middle(i) /\ Middle(i) < i[2]
    BY Halves, SlotAssumption DEF Cut
  <1> DEFINE x == Min({c[2], Middle(i)})
             y == Max({c[1], Middle(i) + 1})
  <1>2. x \in Int /\ x \in {c[2], Middle(i)} /\ x <= c[2] /\ x <= Middle(i)
    BY <1>1, SmallerOf
  <1>3. y \in Int /\ y \in {c[1], Middle(i) + 1} /\ y >= c[1] /\ y >= Middle(i) + 1
    <2>1. Middle(i) + 1 \in Int
      BY <1>1
    <2> QED
      BY <1>1, <2>1, LargerOf
  <1>4. SlotsOf(LeftOf(i)) = i[1] .. Middle(i) /\ SlotsOf(RightOf(i)) = (Middle(i) + 1) .. i[2]
    BY Halves DEF SlotsOf
  <1>5. SlotsOf(i) = i[1] .. i[2]
    BY DEF SlotsOf
  <1> HIDE DEF x, y
  <1>6. \A s \in i[1] .. Middle(i) : s \in SlotsOf(i) /\ (s <= x <=> s <= c[2])
    BY <1>1, <1>2, <1>5
  <1>7. \A s \in (Middle(i) + 1) .. i[2] : s \in SlotsOf(i) /\ (y <= s <=> c[1] <= s)
    BY <1>1, <1>3, <1>5
  <1>8. Changed(u, v, <<c[1], x>>, use, LeftOf(i))
    BY <1>4, <1>6 DEF Changed
  <1>9. Changed(u, v, <<y, c[2]>>, use, RightOf(i))
    BY <1>4, <1>7 DEF Changed
  <1> QED
    BY <1>8, <1>9 DEF x, y

\* The end of add: both children say what is used, the node owes them nothing.
LEMMA ExactSettle ==
  ASSUME NEW i \in Spans, i[1] < i[2], NEW n \in Tree, NEW u \in Uses, n[i].lazy = 0,
         <<n, u>> \in Exact[LeftOf(i)], <<n, u>> \in Exact[RightOf(i)],
         \A s \in SlotsOf(i) : u[s] >= 0
  PROVE  /\ Settle(n, i) \in Tree /\ <<Settle(n, i), u>> \in Exact[i]
         /\ \A j \in Spans : ~ Within(j, i) => Settle(n, i)[j] = n[j]
  <1> DEFINE m == Settle(n, i)
             t == Largest(n, i)
  <1>1. LeftOf(i) \in Spans /\ RightOf(i) \in Spans /\ Within(i, i)
    BY Halves DEF Within
  <1>2. m \in Tree
    <2>1. 0 \in Int
      OBVIOUS
    <2> QED
      BY <2>1, TreeOps
  <1>3. IsLargest(t, u, i) /\ t \in Int
    <2>1. n[LeftOf(i)].t \in Int /\ n[RightOf(i)].t \in Int
      BY <1>1 DEF Tree
    <2>2. IsLargest(n[LeftOf(i)].t, u, LeftOf(i)) /\ IsLargest(n[RightOf(i)].t, u, RightOf(i))
      BY <1>1, ExactParts
    <2> QED
      BY <2>1, <2>2, LargestOfHalves, LargerOf DEF Largest
  <1>4. /\ m[i].t = t /\ m[i].lazy = 0
        /\ \A j \in Spans : ~ Within(j, i) => m[j] = n[j]
        /\ t # 0 => \A j \in Spans : j # i => m[j] = n[j]
        /\ t = 0 => \A j \in Spans : Within(j, i) /\ j # i => m[j] = NilNode
    <2>1. n[i] \in [t : Int, lazy : Int]
      BY DEF Tree
    <2> HIDE DEF t
    <2>2. m[i] = [n[i] EXCEPT !.t = t]
      BY DEF Settle, t
    <2>3. \A j \in Spans : j # i => m[j] = IF t = 0 /\ Within(j, i) THEN NilNode ELSE n[j]
      BY DEF Settle, t, Within
    <2> HIDE DEF m
    <2> QED
      BY <1>1, <2>1, <2>2, <2>3
  <1>5. CASE t = 0
    <2>1. m[i] = NilNode
      <3>1. m[i] \in [t : Int, lazy : Int]
        BY <1>2 DEF Tree
      <3> HIDE DEF m, t
      <3> QED
        BY <1>4, <1>5, <3>1 DEF NilNode
    <2> HIDE DEF m
    <2>2. \A j \in Spans : Within(j, i) => m[j] = NilNode
      BY <1>4, <1>5, <2>1
    <2>3. \A s \in SlotsOf(i) : u[s] = 0
      <3>1. SlotsOf(i) \subseteq Slots
        BY SlotHalves
      <3> HIDE DEF t
      <3>2. \A s \in SlotsOf(i) : u[s] \in Int /\ u[s] <= 0
        BY <1>3, <1>5, <3>1 DEF IsLargest, SlotsOf, Uses
      <3> QED
        BY <3>2
    <2>4. <<m, u>> \in Exact[i]
      BY <1>2, <2>2, <2>3, ExactNothing
    <2> QED
      BY <1>2, <1>4, <2>4 DEF m
  <1>6. CASE t # 0
    <2> HIDE DEF m, t
    <2>1. \A j \in Spans : Within(j, LeftOf(i)) \/ Within(j, RightOf(i)) => m[j] = n[j]
      BY <1>4, <1>6, WithinHalves
    <2>2. <<m, u>> \in Exact[LeftOf(i)]
      BY <1>1, <1>2, <2>1, ExactFrame
    <2>3. <<m, u>> \in Exact[RightOf(i)]
      BY <1>1, <1>2, <2>1, ExactFrame
    <2>4. Less(u, m[i].lazy) = u
      BY <1>4 DEF Less, Uses
    <2>5. <<m, u>> \in Exact[i]
      BY <1>2, <1>3, <1>4, <2>2, <2>3, <2>4, ExactParts
    <2> QED
      BY <1>2, <1>4, <2>5 DEF m
  <1> QED
    BY <1>5, <1>6

\* add changes the slots it is asked to change, below any node, and nothing else.
LEMMA AddExact ==
  ASSUME NEW i \in Spans, NEW n \in Tree, NEW u \in Uses, NEW v \in Uses, NEW c \in Cut(i), NEW use \in Int,
         <<n, u>> \in Exact[i], Changed(u, v, c, use, i)
  PROVE  /\ Added[i][<<n, c, use>>] \in Tree
         /\ <<Added[i][<<n, c, use>>], v>> \in Exact[i]
         /\ \A j \in Spans : ~ Within(j, i) => Added[i][<<n, c, use>>][j] = n[j]
  <1> DEFINE Right(j, a, x, y, d, w) ==
               /\ Added[j][<<a, d, w>>] \in Tree
               /\ <<Added[j][<<a, d, w>>], y>> \in Exact[j]
               /\ \A k \in Spans : ~ Within(k, j) => Added[j][<<a, d, w>>][k] = a[k]
             G == {j \in Spans : \A a \in Tree : \A x, y \in Uses : \A d \in Cut(j) : \A w \in Int :
                     <<a, x>> \in Exact[j] /\ Changed(x, y, d, w, j) => Right(j, a, x, y, d, w)}
  <1>1. ASSUME NEW j \in Spans, j[1] < j[2] => LeftOf(j) \in G /\ RightOf(j) \in G PROVE j \in G
    <2> SUFFICES ASSUME NEW a \in Tree, NEW x \in Uses, NEW y \in Uses, NEW d \in Cut(j), NEW w \in Int,
                        <<a, x>> \in Exact[j], Changed(x, y, d, w, j)
                 PROVE  Right(j, a, x, y, d, w)
      OBVIOUS
    <2> DEFINE m == Added[j][<<a, d, w>>]
    <2>1. m = AddStep(Added[LeftOf(j)], Added[RightOf(j)], j, a, d, w)
      BY AddEquation
    <2>2. d[1] \in j[1] .. LastSlot /\ d[2] \in 0 .. j[2]
      BY DEF Cut
    <2>3. d[1] \in Int /\ d[2] \in Int /\ j[1] \in Int /\ j[2] \in Int
      BY <2>2, Halves, SlotAssumption
    <2>4. CASE d[1] > d[2]
      <3>1. m = a
        BY <2>1, <2>4 DEF AddStep
      <3>2. \A s \in SlotsOf(j) : y[s] = x[s]
        BY <2>3, <2>4 DEF Changed, SlotsOf
      <3>3. <<a, y>> \in Exact[j]
        BY <3>2, ExactFrame
      <3> QED
        BY <3>1, <3>3
    <2>5. CASE ~ (d[1] > d[2]) /\ d[1] = j[1] /\ d[2] = j[2]
      <3>1. m = Lift(a, j, w)
        BY <2>1, <2>5 DEF AddStep
      <3>2. \A s \in SlotsOf(j) : y[s] = x[s] + w
        BY <2>5 DEF Changed, SlotsOf
      <3>3. Lift(a, j, w) \in Tree
        BY TreeOps
      <3>4. <<Lift(a, j, w), y>> \in Exact[j]
        BY <3>2, ExactLift
      <3>5. \A k \in Spans : ~ Within(k, j) => Lift(a, j, w)[k] = a[k]
        <4>1. Within(j, j)
          BY Halves DEF Within
        <4> QED
          BY <4>1 DEF Lift, Tree
      <3> QED
        BY <3>1, <3>3, <3>4, <3>5
    <2>6. CASE ~ (d[1] > d[2]) /\ ~ (d[1] = j[1] /\ d[2] = j[2])
      <3> DEFINE L == LeftOf(j)
                 R == RightOf(j)
                 dl == <<d[1], Min({d[2], Middle(j)})>>
                 dr == <<Max({d[1], Middle(j) + 1}), d[2]>>
                 p == PushDown(a, j)
                 lc == Added[L][<<p, dl, w>>]
                 rc == Added[R][<<lc, dr, w>>]
      <3>1. j[1] < j[2]
        <4>1. d[1] <= d[2]
          BY <2>3, <2>6
        <4> QED
          BY <2>2, <2>6, <4>1, OneSlot
      <3>2. m = Settle(rc, j)
        BY <2>1, <2>6 DEF AddStep
      <3>3. L \in Spans /\ R \in Spans /\ L \in G /\ R \in G
        BY <1>1, <3>1, Halves
      <3>4. dl \in Cut(L) /\ dr \in Cut(R)
        BY <2>2, <3>1, CutsOf
      <3>5. Changed(x, y, dl, w, L) /\ Changed(x, y, dr, w, R)
        BY <3>1, ChangedHalves
      <3>6. /\ p \in Tree /\ p[j].lazy = 0
            /\ \A k \in Spans : ~ Within(k, j) => p[k] = a[k]
            /\ <<p, x>> \in Exact[L] /\ <<p, x>> \in Exact[R]
        BY <3>1, ExactPush
      <3>7. /\ \A k \in Spans : Within(k, R) => ~ Within(k, L) /\ Within(k, j)
            /\ \A k \in Spans : Within(k, L) => ~ Within(k, R) /\ Within(k, j)
            /\ ~ Within(j, L) /\ ~ Within(j, R)
        BY <3>1, WithinHalves
      <3> HIDE DEF dl, dr, p, L, R
      <3>8. Right(L, p, x, y, dl, w)
        BY <3>3, <3>4, <3>5, <3>6
      <3>9. lc \in Tree /\ <<lc, y>> \in Exact[L] /\ \A k \in Spans : ~ Within(k, L) => lc[k] = p[k]
        BY <3>8
      <3> HIDE DEF lc
      <3>10. <<lc, x>> \in Exact[R]
        <4>1. \A k \in Spans : Within(k, R) => lc[k] = p[k]
          BY <3>7, <3>9
        <4> QED
          BY <3>3, <3>6, <3>9, <4>1, ExactFrame
      <3>11. Right(R, lc, x, y, dr, w)
        BY <3>3, <3>4, <3>5, <3>9, <3>10
      <3>12. rc \in Tree /\ <<rc, y>> \in Exact[R] /\ \A k \in Spans : ~ Within(k, R) => rc[k] = lc[k]
        BY <3>11
      <3> HIDE DEF rc
      <3>13. <<rc, y>> \in Exact[L]
        <4>1. \A k \in Spans : Within(k, L) => rc[k] = lc[k]
          BY <3>7, <3>12
        <4> QED
          BY <3>3, <3>9, <3>12, <4>1, ExactFrame
      <3>14. rc[j].lazy = 0 /\ \A k \in Spans : ~ Within(k, j) => rc[k] = a[k]
        BY <3>6, <3>7, <3>9, <3>12
      <3>15. \A s \in SlotsOf(j) : y[s] >= 0
        BY DEF Changed
      <3>16. /\ Settle(rc, j) \in Tree /\ <<Settle(rc, j), y>> \in Exact[j]
             /\ \A k \in Spans : ~ Within(k, j) => Settle(rc, j)[k] = rc[k]
        BY <3>1, <3>12, <3>13, <3>14, <3>15, ExactSettle DEF L, R
      <3> HIDE DEF m
      <3> QED
        BY <3>2, <3>14, <3>16 DEF m
    <2> QED
      BY <2>4, <2>5, <2>6
  <1> HIDE DEF G
  <1>2. Spans \subseteq G
    BY <1>1, SpanInduction
  <1>3. i \in G
    BY <1>2
  <1> QED
    BY <1>3 DEF G

\* What querymax answers for slots c: nothing when there are none.
Answers(q, u, c) ==
  /\ q \in Int
  /\ c[1] > c[2] => q = 0
  /\ c[1] <= c[2] => IsLargest(q, u, c)

\* The answers of two children are the answer of their parent.
LEMMA AnswerOfHalves ==
  ASSUME NEW i \in Spans, i[1] < i[2], NEW c \in Cut(i), c[1] <= c[2], NEW u,
         \A s \in SlotsOf(i) : u[s] \in Nat,
         NEW a, NEW b, Answers(a, u, <<c[1], Min({c[2], Middle(i)})>>),
         Answers(b, u, <<Max({c[1], Middle(i) + 1}), c[2]>>)
  PROVE  Answers(Max({a, b}), u, c)
  <1>1. /\ c[1] \in Int /\ c[2] \in Int /\ Middle(i) \in Int
        /\ i[1] \in Int /\ i[2] \in Int /\ i[1] <= c[1] /\ c[2] <= i[2]
    BY Halves, SlotAssumption DEF Cut
  <1> DEFINE x == Min({c[2], Middle(i)})
             y == Max({c[1], Middle(i) + 1})
             q == Max({a, b})
  <1>2. x \in Int /\ x \in {c[2], Middle(i)} /\ x <= c[2] /\ x <= Middle(i)
    BY <1>1, SmallerOf
  <1>3. y \in Int /\ y \in {c[1], Middle(i) + 1} /\ y >= c[1] /\ y >= Middle(i) + 1
    <2>1. Middle(i) + 1 \in Int
      BY <1>1
    <2> QED
      BY <1>1, <2>1, LargerOf
  <1>4. a \in Int /\ b \in Int
    BY DEF Answers
  <1>5. q \in Int /\ q \in {a, b} /\ q >= a /\ q >= b
    BY <1>4, LargerOf
  <1>6. /\ c[1] > x => a = 0
        /\ c[1] <= x => (\A s \in c[1] .. x : u[s] <= a) /\ (\E s \in c[1] .. x : u[s] = a)
    BY DEF Answers, IsLargest
  <1>7. /\ y > c[2] => b = 0
        /\ y <= c[2] => (\A s \in y .. c[2] : u[s] <= b) /\ (\E s \in y .. c[2] : u[s] = b)
    BY DEF Answers, IsLargest
  <1>8. \A s \in c[1] .. c[2] : u[s] \in Nat
    BY <1>1 DEF SlotsOf
  <1> HIDE DEF x, y, q
  <1>9. c[1] .. c[2] = (c[1] .. x) \cup (y .. c[2])
    BY <1>1, <1>2, <1>3
  <1>10. \A s \in c[1] .. c[2] : u[s] <= q
    <2> SUFFICES ASSUME NEW s \in c[1] .. c[2] PROVE u[s] <= q
      OBVIOUS
    <2>1. CASE s \in c[1] .. x
      <3>1. u[s] <= a
        BY <1>1, <1>2, <1>6, <2>1
      <3> QED
        BY <1>4, <1>5, <1>8, <3>1
    <2>2. CASE s \in y .. c[2]
      <3>1. u[s] <= b
        BY <1>1, <1>3, <1>7, <2>2
      <3> QED
        BY <1>4, <1>5, <1>8, <3>1
    <2> QED
      BY <1>9, <2>1, <2>2
  <1>11. \E s \in c[1] .. c[2] : u[s] = q
    <2>1. CASE c[1] <= x /\ y <= c[2]
      BY <1>5, <1>6, <1>7, <1>9, <2>1
    <2>2. CASE c[1] > x
      <3>1. a = 0 /\ y <= c[2]
        BY <1>1, <1>2, <1>3, <1>6, <2>2
      <3>2. PICK s \in y .. c[2] : u[s] = b
        BY <1>7, <3>1
      <3>3. b >= 0 /\ s \in c[1] .. c[2]
        BY <1>8, <1>9, <3>2
      <3>4. q = b
        BY <1>4, <1>5, <3>1, <3>3
      <3> QED
        BY <3>2, <3>3, <3>4
    <2>3. CASE y > c[2]
      <3>1. b = 0 /\ c[1] <= x
        BY <1>1, <1>2, <1>3, <1>7, <2>3
      <3>2. PICK s \in c[1] .. x : u[s] = a
        BY <1>6, <3>1
      <3>3. a >= 0 /\ s \in c[1] .. c[2]
        BY <1>8, <1>9, <3>2
      <3>4. q = a
        BY <1>4, <1>5, <3>1, <3>3
      <3> QED
        BY <3>2, <3>3, <3>4
    <2> QED
      BY <1>1, <1>2, <1>3, <2>1, <2>2, <2>3
  <1>12. c[1] > c[2] => q = 0
    BY <1>1
  <1> QED
    BY <1>5, <1>10, <1>11, <1>12 DEF Answers, IsLargest, q

\* querymax finds the largest use, below any node, with what is owed from above.
LEMMA QueryExact ==
  ASSUME NEW i \in Spans, NEW n \in Tree, NEW u \in Uses, NEW v \in Uses, NEW c \in Cut(i), NEW owed \in Int,
         <<n, v>> \in Exact[i], \A s \in SlotsOf(i) : u[s] = v[s] + owed /\ u[s] >= 0
  PROVE  Answers(MaxIn(n)[i][<<c, owed>>], u, c)
  <1> DEFINE Above(j, y, w) == \A s \in SlotsOf(j) : u[s] = y[s] + w /\ u[s] >= 0
             G == {j \in Spans : \A y \in Uses : \A d \in Cut(j) : \A w \in Int :
                     <<n, y>> \in Exact[j] /\ Above(j, y, w) => Answers(MaxIn(n)[j][<<d, w>>], u, d)}
  <1>1. ASSUME NEW j \in Spans, j[1] < j[2] => LeftOf(j) \in G /\ RightOf(j) \in G PROVE j \in G
    <2> SUFFICES ASSUME NEW y \in Uses, NEW d \in Cut(j), NEW w \in Int,
                        <<n, y>> \in Exact[j], Above(j, y, w)
                 PROVE  Answers(MaxIn(n)[j][<<d, w>>], u, d)
      OBVIOUS
    <2> DEFINE q == MaxIn(n)[j][<<d, w>>]
    <2>1. q = MaxStep(MaxIn(n)[LeftOf(j)], MaxIn(n)[RightOf(j)], n, j, d, w)
      BY MaxEquation
    <2>2. d[1] \in j[1] .. LastSlot /\ d[2] \in 0 .. j[2]
      BY DEF Cut
    <2>3. /\ d[1] \in Int /\ d[2] \in Int /\ j[1] \in Int /\ j[2] \in Int
          /\ n[j].t \in Int /\ n[j].lazy \in Int
      BY <2>2, Halves, SlotAssumption DEF Tree
    <2>4. \A s \in SlotsOf(j) : u[s] \in Nat /\ y[s] \in Int /\ s \in Slots
      BY SlotHalves DEF Uses
    <2>5. CASE d[1] > d[2]
      <3>1. q = 0
        BY <2>1, <2>5 DEF MaxStep
      <3> QED
        BY <2>3, <2>5, <3>1 DEF Answers
    <2>6. CASE ~ (d[1] > d[2]) /\ d[1] <= j[1] /\ j[2] <= d[2]
      <3>1. q = n[j].t + w
        BY <2>1, <2>6 DEF MaxStep
      <3>2. d[1] = j[1] /\ d[2] = j[2]
        BY <2>2, <2>3, <2>6
      <3>3. IsLargest(n[j].t, y, j)
        BY ExactParts
      <3>4. IsLargest(n[j].t + w, u, d)
        BY <2>3, <2>4, <3>2, <3>3 DEF IsLargest, SlotsOf
      <3> QED
        BY <2>3, <2>6, <3>1, <3>4 DEF Answers
    <2>7. CASE ~ (d[1] > d[2]) /\ ~ (d[1] <= j[1] /\ j[2] <= d[2])
      <3> DEFINE L == LeftOf(j)
                 R == RightOf(j)
                 dl == <<d[1], Min({d[2], Middle(j)})>>
                 dr == <<Max({d[1], Middle(j) + 1}), d[2]>>
                 o == w + n[j].lazy
                 z == Less(y, n[j].lazy)
                 a == MaxIn(n)[L][<<dl, o>>]
                 b == MaxIn(n)[R][<<dr, o>>]
      <3>1. d[1] <= d[2]
        BY <2>3, <2>7
      <3>2. j[1] < j[2]
        <4>1. ~ (d[1] = j[1] /\ d[2] = j[2])
          BY <2>3, <2>7
        <4> QED
          BY <2>2, <3>1, <4>1, OneSlot
      <3>3. q = Max({a, b})
        BY <2>1, <2>7 DEF MaxStep
      <3>4. L \in Spans /\ R \in Spans /\ L \in G /\ R \in G
        BY <1>1, <3>2, Halves
      <3>5. dl \in Cut(L) /\ dr \in Cut(R) /\ o \in Int
        BY <2>2, <2>3, <3>2, CutsOf
      <3>6. z \in Uses /\ <<n, z>> \in Exact[L] /\ <<n, z>> \in Exact[R]
        BY <3>2, ExactParts
      <3>7. Above(L, z, o) /\ Above(R, z, o)
        <4>1. \A s \in SlotsOf(j) : z[s] = y[s] - n[j].lazy
          BY <2>4 DEF Less
        <4>2. SlotsOf(j) = SlotsOf(L) \cup SlotsOf(R)
          BY <3>2, SlotHalves
        <4> HIDE DEF z, L, R
        <4> QED
          BY <2>3, <2>4, <4>1, <4>2
      <3> HIDE DEF L, R, dl, dr, o, z
      <3>8. Answers(a, u, dl) /\ Answers(b, u, dr)
        BY <3>4, <3>5, <3>6, <3>7
      <3> HIDE DEF a, b
      <3>9. Answers(Max({a, b}), u, d)
        BY <2>4, <3>1, <3>2, <3>8, AnswerOfHalves DEF dl, dr
      <3> HIDE DEF q
      <3> QED
        BY <3>3, <3>9 DEF q
    <2> QED
      BY <2>5, <2>6, <2>7
  <1> HIDE DEF G
  <1>2. Spans \subseteq G
    BY <1>1, SpanInduction
  <1>3. i \in G
    BY <1>2
  <1> QED
    BY <1>3 DEF G

-----------------------------------------------------------------------------
(* The tree as its users see it. *)

\* Tree n holds use u of every slot.
Represents(n, u) == n \in Tree /\ u \in [Slots -> Nat] /\ <<n, u>> \in Exact[<<0, LastSlot>>]

LEMMA Whole == /\ <<0, LastSlot>> \in Spans /\ SlotsOf(<<0, LastSlot>>) = Slots
               /\ Cut(<<0, LastSlot>>) = Slots \X Slots /\ [Slots -> Nat] \subseteq Uses
  BY SlotAssumption DEF Spans, SlotsOf, Slots, Cut, Uses

LEMMA BlankRepresents == Represents(Blank, [s \in Slots |-> 0])
  <1>1. Blank \in Tree
    BY DEF Blank, Tree, NilNode
  <1>2. [s \in Slots |-> 0] \in [Slots -> Nat]
    OBVIOUS
  <1> DEFINE u == [s \in Slots |-> 0]
  <1>3. \A s \in Slots : u[s] = 0
    OBVIOUS
  <1>4. \A j \in Spans : Blank[j] = NilNode
    BY DEF Blank
  <1> HIDE DEF u
  <1>5. <<Blank, u>> \in Exact[<<0, LastSlot>>]
    BY <1>1, <1>2, <1>3, <1>4, Whole, ExactNothing DEF u
  <1> QED
    BY <1>1, <1>2, <1>5 DEF Represents, u

\* Book: the use of the slots asked for, and of no other, is changed.
LEMMA BookRepresents ==
  ASSUME NEW n, NEW u, Represents(n, u), NEW v \in [Slots -> Nat],
         NEW l \in Slots, NEW r \in Slots, NEW use \in Int,
         \A s \in Slots : v[s] = IF l <= s /\ s <= r THEN u[s] + use ELSE u[s]
  PROVE  Represents(Book(n, l, r, use), v)
  <1> DEFINE i == <<0, LastSlot>>
             c == <<l, r>>
  <1>1. i \in Spans /\ c \in Cut(i) /\ n \in Tree /\ u \in Uses /\ v \in Uses /\ <<n, u>> \in Exact[i]
    BY Whole DEF Represents
  <1>2. Changed(u, v, c, use, i)
    <2>1. SlotsOf(i) = Slots
      BY Whole
    <2> QED
      BY <2>1 DEF Changed
  <1> HIDE DEF i, c
  <1>3. Added[i][<<n, c, use>>] \in Tree /\ <<Added[i][<<n, c, use>>], v>> \in Exact[i]
    BY <1>1, <1>2, AddExact
  <1> QED
    BY <1>3 DEF Book, Represents, i, c

\* QueryMax: the largest use of the slots asked for.
LEMMA QueryRepresents ==
  ASSUME NEW n, NEW u, Represents(n, u), NEW l \in Slots, NEW r \in l .. LastSlot
  PROVE  /\ QueryMax(n, l, r) \in Nat
         /\ \A s \in l .. r : u[s] <= QueryMax(n, l, r)
         /\ \E s \in l .. r : u[s] = QueryMax(n, l, r)
  <1> DEFINE i == <<0, LastSlot>>
             c == <<l, r>>
             q == MaxIn(n)[i][<<c, 0>>]
  <1>1. l \in Int /\ r \in Int /\ l <= r /\ r \in Slots /\ l .. r \subseteq Slots
    BY SlotAssumption DEF Slots
  <1>2. i \in Spans /\ c \in Cut(i) /\ n \in Tree /\ u \in Uses /\ <<n, u>> \in Exact[i]
    BY <1>1, Whole DEF Represents
  <1>3. \A s \in SlotsOf(i) : u[s] = u[s] + 0 /\ u[s] >= 0
    <2>1. SlotsOf(i) = Slots
      BY Whole
    <2> QED
      BY <2>1 DEF Represents
  <1>4. QueryMax(n, l, r) = q
    BY DEF QueryMax
  <1>5. c[1] = l /\ c[2] = r /\ 0 \in Int
    OBVIOUS
  <1> HIDE DEF i, c
  <1>6. Answers(q, u, c)
    BY <1>2, <1>3, <1>5, QueryExact
  <1> HIDE DEF q
  <1>7. q \in Int /\ (\A s \in l .. r : u[s] <= q) /\ (\E s \in l .. r : u[s] = q)
    BY <1>1, <1>5, <1>6 DEF Answers, IsLargest
  <1>8. \A s \in l .. r : u[s] \in Nat
    BY <1>1 DEF Represents
  <1>9. q \in Nat
    BY <1>7, <1>8
  <1> QED
    BY <1>4, <1>7, <1>9

-----------------------------------------------------------------------------
(* The balanced tree of the shares.  A node is what it caches of its        *)
(* children, and a tree is what its nodes hold: each member once, in order, *)
(* with sides that differ in height by at most one.                          *)

\* A node that caches what its children are.
Mk(i, v, l, r) ==
  [id |-> i, value |-> v, sum |-> v + l.sum + r.sum, count |-> 1 + l.count + r.count,
   bal |-> r.h - l.h, h |-> Max({l.h, r.h}) + 1, L |-> l, R |-> r]

\* A node whatever it caches.
Rec(i, v, s, c, b, h, l, r) ==
  [id |-> i, value |-> v, sum |-> s, count |-> c, bal |-> b, h |-> h, L |-> l, R |-> r]

\* The fields of a node.
LEMMA MkFields ==
  ASSUME NEW i, NEW v, NEW l, NEW r
  PROVE  /\ Mk(i, v, l, r).id = i /\ Mk(i, v, l, r).value = v /\ Mk(i, v, l, r).L = l /\ Mk(i, v, l, r).R = r
         /\ Mk(i, v, l, r).sum = v + l.sum + r.sum /\ Mk(i, v, l, r).count = 1 + l.count + r.count
         /\ Mk(i, v, l, r).bal = r.h - l.h /\ Mk(i, v, l, r).h = Max({l.h, r.h}) + 1
  BY DEF Mk

LEMMA RecFields ==
  ASSUME NEW i, NEW v, NEW s, NEW c, NEW b, NEW h, NEW l, NEW r
  PROVE  /\ Rec(i, v, s, c, b, h, l, r).id = i /\ Rec(i, v, s, c, b, h, l, r).value = v
         /\ Rec(i, v, s, c, b, h, l, r).L = l /\ Rec(i, v, s, c, b, h, l, r).R = r
         /\ Rec(i, v, s, c, b, h, l, r).bal = b
  BY DEF Rec

\* One field of a node is changed.
LEMMA RecId ==
  ASSUME NEW i, NEW v, NEW s, NEW c, NEW b, NEW h, NEW l, NEW r, NEW x
  PROVE  [Rec(i, v, s, c, b, h, l, r) EXCEPT !.id = x] = Rec(x, v, s, c, b, h, l, r)
  BY DEF Rec

LEMMA RecValue ==
  ASSUME NEW i, NEW v, NEW s, NEW c, NEW b, NEW h, NEW l, NEW r, NEW x
  PROVE  [Rec(i, v, s, c, b, h, l, r) EXCEPT !.value = x] = Rec(i, x, s, c, b, h, l, r)
  BY DEF Rec

LEMMA RecSum ==
  ASSUME NEW i, NEW v, NEW s, NEW c, NEW b, NEW h, NEW l, NEW r, NEW x
  PROVE  [Rec(i, v, s, c, b, h, l, r) EXCEPT !.sum = x] = Rec(i, v, x, c, b, h, l, r)
  BY DEF Rec

LEMMA RecCount ==
  ASSUME NEW i, NEW v, NEW s, NEW c, NEW b, NEW h, NEW l, NEW r, NEW x
  PROVE  [Rec(i, v, s, c, b, h, l, r) EXCEPT !.count = x] = Rec(i, v, s, x, b, h, l, r)
  BY DEF Rec

LEMMA RecBal ==
  ASSUME NEW i, NEW v, NEW s, NEW c, NEW b, NEW h, NEW l, NEW r, NEW x
  PROVE  [Rec(i, v, s, c, b, h, l, r) EXCEPT !.bal = x] = Rec(i, v, s, c, x, h, l, r)
  BY DEF Rec

LEMMA RecHeight ==
  ASSUME NEW i, NEW v, NEW s, NEW c, NEW b, NEW h, NEW l, NEW r, NEW x
  PROVE  [Rec(i, v, s, c, b, h, l, r) EXCEPT !.h = x] = Rec(i, v, s, c, b, x, l, r)
  BY DEF Rec

LEMMA RecL ==
  ASSUME NEW i, NEW v, NEW s, NEW c, NEW b, NEW h, NEW l, NEW r, NEW x
  PROVE  [Rec(i, v, s, c, b, h, l, r) EXCEPT !.L = x] = Rec(i, v, s, c, b, h, x, r)
  BY DEF Rec

LEMMA RecR ==
  ASSUME NEW i, NEW v, NEW s, NEW c, NEW b, NEW h, NEW l, NEW r, NEW x
  PROVE  [Rec(i, v, s, c, b, h, l, r) EXCEPT !.R = x] = Rec(i, v, s, c, b, h, l, x)
  BY DEF Rec

\* A node with its caches overwritten.
LEMMA MkRec ==
  ASSUME NEW i, NEW v, NEW l, NEW r
  PROVE  Mk(i, v, l, r) = Rec(i, v, v + l.sum + r.sum, 1 + l.count + r.count, r.h - l.h, Max({l.h, r.h}) + 1, l, r)
  BY DEF Mk, Rec

\* recompute makes a node cache what its children are, whatever it cached before.
LEMMA RecomputeRec ==
  ASSUME NEW i, NEW v, NEW s, NEW c, NEW b, NEW h, NEW l, NEW r
  PROVE  Recompute(Rec(i, v, s, c, b, h, l, r)) = Mk(i, v, l, r)
  <1> DEFINE n == Rec(i, v, s, c, b, h, l, r)
  <1>1. n.R = r /\ n.L = l /\ n.value = v
    BY RecFields
  <1>2. ASSUME NEW s2, NEW c2, NEW b2, NEW h2
        PROVE  [n EXCEPT !.bal = b2, !.h = h2, !.sum = s2, !.count = c2] = Rec(i, v, s2, c2, b2, h2, l, r)
    <2>1. [n EXCEPT !.bal = b2] = Rec(i, v, s, c, b2, h, l, r)
      BY RecBal
    <2>2. [Rec(i, v, s, c, b2, h, l, r) EXCEPT !.h = h2] = Rec(i, v, s, c, b2, h2, l, r)
      BY RecHeight
    <2>3. [Rec(i, v, s, c, b2, h2, l, r) EXCEPT !.sum = s2] = Rec(i, v, s2, c, b2, h2, l, r)
      BY RecSum
    <2>4. [Rec(i, v, s2, c, b2, h2, l, r) EXCEPT !.count = c2] = Rec(i, v, s2, c2, b2, h2, l, r)
      BY RecCount
    <2> HIDE DEF n
    <2>5. [n EXCEPT !.bal = b2, !.h = h2, !.sum = s2, !.count = c2]
          = [[[[n EXCEPT !.bal = b2] EXCEPT !.h = h2] EXCEPT !.sum = s2] EXCEPT !.count = c2]
      OBVIOUS
    <2> QED
      BY <2>1, <2>2, <2>3, <2>4, <2>5
  <1> HIDE DEF n
  <1> DEFINE s2 == v + l.sum + r.sum
             c2 == 1 + l.count + r.count
             b2 == r.h - l.h
             h2 == Max({l.h, r.h}) + 1
  <1>3. Recompute(n) = [n EXCEPT !.bal = b2, !.h = h2, !.sum = s2, !.count = c2]
    BY <1>1 DEF Recompute
  <1>4. Mk(i, v, l, r) = Rec(i, v, s2, c2, b2, h2, l, r)
    BY MkRec
  <1> HIDE DEF s2, c2, b2, h2
  <1>5. Recompute(n) = Mk(i, v, l, r)
    BY <1>2, <1>3, <1>4
  <1> QED
    BY <1>5 DEF n

\* rotLeft and rotRight of a node whatever it caches.
LEMMA RotLeftRec ==
  ASSUME NEW i, NEW v, NEW s, NEW c, NEW b, NEW h, NEW l, NEW j, NEW w, NEW s2, NEW c2, NEW b2, NEW h2, NEW a, NEW d
  PROVE  RotLeft(Rec(i, v, s, c, b, h, l, Rec(j, w, s2, c2, b2, h2, a, d))) = Mk(j, w, Mk(i, v, l, a), d)
  <1> DEFINE k == Rec(j, w, s2, c2, b2, h2, a, d)
             n == Rec(i, v, s, c, b, h, l, k)
  <1>1. n.R = k /\ k.L = a
    BY RecFields
  <1>2. Recompute([n EXCEPT !.R = a]) = Mk(i, v, l, a)
    <2> HIDE DEF k
    <2>1. [n EXCEPT !.R = a] = Rec(i, v, s, c, b, h, l, a)
      BY RecR
    <2> QED
      BY <2>1, RecomputeRec
  <1>3. [k EXCEPT !.L = Mk(i, v, l, a)] = Rec(j, w, s2, c2, b2, h2, Mk(i, v, l, a), d)
    BY RecL
  <1> HIDE DEF n, k
  <1>4. RotLeft(n) = Recompute([k EXCEPT !.L = Recompute([n EXCEPT !.R = a])])
    BY <1>1 DEF RotLeft
  <1> QED
    BY <1>2, <1>3, <1>4, RecomputeRec DEF n, k

LEMMA RotRightRec ==
  ASSUME NEW i, NEW v, NEW s, NEW c, NEW b, NEW h, NEW r, NEW j, NEW w, NEW s2, NEW c2, NEW b2, NEW h2, NEW a, NEW d
  PROVE  RotRight(Rec(i, v, s, c, b, h, Rec(j, w, s2, c2, b2, h2, a, d), r)) = Mk(j, w, a, Mk(i, v, d, r))
  <1> DEFINE k == Rec(j, w, s2, c2, b2, h2, a, d)
             n == Rec(i, v, s, c, b, h, k, r)
  <1>1. n.L = k /\ k.R = d
    BY RecFields
  <1>2. Recompute([n EXCEPT !.L = d]) = Mk(i, v, d, r)
    <2> HIDE DEF k
    <2>1. [n EXCEPT !.L = d] = Rec(i, v, s, c, b, h, d, r)
      BY RecL
    <2> QED
      BY <2>1, RecomputeRec
  <1>3. [k EXCEPT !.R = Mk(i, v, d, r)] = Rec(j, w, s2, c2, b2, h2, a, Mk(i, v, d, r))
    <2> DEFINE x == Mk(i, v, d, r)
    <2> HIDE DEF x
    <2>1. [k EXCEPT !.R = x] = Rec(j, w, s2, c2, b2, h2, a, x)
      BY RecR
    <2> QED
      BY <2>1 DEF x
  <1> HIDE DEF n, k
  <1>4. RotRight(n) = Recompute([k EXCEPT !.R = Recompute([n EXCEPT !.L = d])])
    BY <1>1 DEF RotRight
  <1> QED
    BY <1>2, <1>3, <1>4, RecomputeRec DEF n, k

\* A node that caches what its children are, as a record.
LEMMA MkIsRec ==
  ASSUME NEW i, NEW v, NEW l, NEW r
  PROVE  \E s, c, b, h : Mk(i, v, l, r) = Rec(i, v, s, c, b, h, l, r)
  BY MkRec

\* rotLeft and rotRight of a node over two trees.
LEMMA RotLeftMk ==
  ASSUME NEW i, NEW v, NEW l, NEW j, NEW w, NEW a, NEW d
  PROVE  RotLeft(Mk(i, v, l, Mk(j, w, a, d))) = Mk(j, w, Mk(i, v, l, a), d)
  <1> DEFINE z == Mk(j, w, a, d)
  <1>1. PICK s2, c2, b2, h2 : z = Rec(j, w, s2, c2, b2, h2, a, d)
    BY MkIsRec
  <1> HIDE DEF z
  <1>2. PICK s, c, b, h : Mk(i, v, l, z) = Rec(i, v, s, c, b, h, l, z)
    BY MkIsRec
  <1>3. RotLeft(Rec(i, v, s, c, b, h, l, Rec(j, w, s2, c2, b2, h2, a, d))) = Mk(j, w, Mk(i, v, l, a), d)
    BY RotLeftRec
  <1>4. RotLeft(Mk(i, v, l, z)) = Mk(j, w, Mk(i, v, l, a), d)
    BY <1>1, <1>2, <1>3
  <1> QED
    BY <1>4 DEF z

LEMMA RotRightMk ==
  ASSUME NEW i, NEW v, NEW r, NEW j, NEW w, NEW a, NEW d
  PROVE  RotRight(Mk(i, v, Mk(j, w, a, d), r)) = Mk(j, w, a, Mk(i, v, d, r))
  <1> DEFINE z == Mk(j, w, a, d)
  <1>1. PICK s2, c2, b2, h2 : z = Rec(j, w, s2, c2, b2, h2, a, d)
    BY MkIsRec
  <1> HIDE DEF z
  <1>2. PICK s, c, b, h : Mk(i, v, z, r) = Rec(i, v, s, c, b, h, z, r)
    BY MkIsRec
  <1>3. RotRight(Rec(i, v, s, c, b, h, Rec(j, w, s2, c2, b2, h2, a, d), r)) = Mk(j, w, a, Mk(i, v, d, r))
    BY RotRightRec
  <1>4. RotRight(Mk(i, v, z, r)) = Mk(j, w, a, Mk(i, v, d, r))
    BY <1>1, <1>2, <1>3
  <1> QED
    BY <1>4 DEF z

\* The same when the other side is replaced first.
LEMMA RotLeftOther ==
  ASSUME NEW i, NEW v, NEW l, NEW g, NEW j, NEW w, NEW a, NEW d
  PROVE  RotLeft([Mk(i, v, l, g) EXCEPT !.R = Mk(j, w, a, d)]) = Mk(j, w, Mk(i, v, l, a), d)
  <1> DEFINE z == Mk(j, w, a, d)
  <1>1. PICK s2, c2, b2, h2 : z = Rec(j, w, s2, c2, b2, h2, a, d)
    BY MkIsRec
  <1> HIDE DEF z
  <1>2. PICK s, c, b, h : Mk(i, v, l, g) = Rec(i, v, s, c, b, h, l, g)
    BY MkIsRec
  <1>3. RotLeft(Rec(i, v, s, c, b, h, l, Rec(j, w, s2, c2, b2, h2, a, d))) = Mk(j, w, Mk(i, v, l, a), d)
    BY RotLeftRec
  <1>4. [Rec(i, v, s, c, b, h, l, g) EXCEPT !.R = z] = Rec(i, v, s, c, b, h, l, z)
    BY RecR
  <1>5. RotLeft([Mk(i, v, l, g) EXCEPT !.R = z]) = Mk(j, w, Mk(i, v, l, a), d)
    BY <1>1, <1>2, <1>3, <1>4
  <1> QED
    BY <1>5 DEF z

LEMMA RotRightOther ==
  ASSUME NEW i, NEW v, NEW g, NEW r, NEW j, NEW w, NEW a, NEW d
  PROVE  RotRight([Mk(i, v, g, r) EXCEPT !.L = Mk(j, w, a, d)]) = Mk(j, w, a, Mk(i, v, d, r))
  <1> DEFINE z == Mk(j, w, a, d)
  <1>1. PICK s2, c2, b2, h2 : z = Rec(j, w, s2, c2, b2, h2, a, d)
    BY MkIsRec
  <1> HIDE DEF z
  <1>2. PICK s, c, b, h : Mk(i, v, g, r) = Rec(i, v, s, c, b, h, g, r)
    BY MkIsRec
  <1>3. RotRight(Rec(i, v, s, c, b, h, Rec(j, w, s2, c2, b2, h2, a, d), r)) = Mk(j, w, a, Mk(i, v, d, r))
    BY RotRightRec
  <1>4. [Rec(i, v, s, c, b, h, g, r) EXCEPT !.L = z] = Rec(i, v, s, c, b, h, z, r)
    BY RecL
  <1>5. RotRight([Mk(i, v, g, r) EXCEPT !.L = z]) = Mk(j, w, a, Mk(i, v, d, r))
    BY <1>1, <1>2, <1>3, <1>4
  <1> QED
    BY <1>5 DEF z

-----------------------------------------------------------------------------
(* The levels and the nodes of a tree.  *)

\* The children of the nodes in S.
Below(S) == {m.L : m \in {m \in S : ~IsNil(m)}} \cup {m.R : m \in {m \in S : ~IsNil(m)}}

UpTo(g, n, k) == g[0] = {n} /\ \A j \in Nat : j < k => g[j + 1] = Below(g[j])

\* The recursion of the levels has a solution, and one only.
LEMMA LevelsExist == ASSUME NEW n PROVE \A k \in Nat : \E g : UpTo(g, n, k)
  <1> DEFINE H == {k \in Nat : \E g : UpTo(g, n, k)}
  <1>1. 0 \in H
    <2> DEFINE g == [j \in Nat |-> {n}]
    <2>1. UpTo(g, n, 0)
      BY DEF UpTo
    <2> HIDE DEF g
    <2> QED
      BY <2>1
  <1>2. ASSUME NEW k \in Nat, k \in H PROVE k + 1 \in H
    <2>1. PICK g : UpTo(g, n, k)
      BY <1>2
    <2> DEFINE f == [j \in Nat |-> IF j = k + 1 THEN Below(g[k]) ELSE g[j]]
    <2>2. f[0] = {n}
      BY <2>1 DEF UpTo
    <2>3. ASSUME NEW j \in Nat, j < k + 1 PROVE f[j + 1] = Below(f[j])
      <3>1. f[j] = g[j]
        BY <2>3
      <3>2. CASE j = k
        BY <3>1, <3>2
      <3>3. CASE j # k
        <4>1. j < k /\ j + 1 # k + 1
          BY <2>3, <3>3
        <4>2. f[j + 1] = g[j + 1]
          BY <4>1
        <4> QED
          BY <2>1, <3>1, <4>1, <4>2 DEF UpTo
      <3> QED
        BY <3>2, <3>3
    <2> HIDE DEF f
    <2>4. UpTo(f, n, k + 1)
      BY <2>2, <2>3 DEF UpTo
    <2> QED
      BY <2>4
  <1> HIDE DEF H
  <1>3. Nat \subseteq H
    BY <1>1, <1>2, NatSetInduction
  <1> QED
    BY <1>3 DEF H

LEMMA LevelsAgree ==
  ASSUME NEW n, NEW g, NEW f, NEW k \in Nat, NEW l \in Nat, k <= l, UpTo(g, n, k), UpTo(f, n, l)
  PROVE  \A j \in Nat : j <= k => g[j] = f[j]
  <1> DEFINE H == {j \in Nat : j <= k => g[j] = f[j]}
  <1>1. 0 \in H
    BY DEF UpTo
  <1>2. ASSUME NEW j \in Nat, j \in H PROVE j + 1 \in H
    <2> SUFFICES ASSUME j + 1 <= k PROVE g[j + 1] = f[j + 1]
      OBVIOUS
    <2>1. j < k /\ j < l /\ g[j] = f[j]
      BY <1>2
    <2> QED
      BY <2>1 DEF UpTo
  <1> HIDE DEF H
  <1>3. Nat \subseteq H
    BY <1>1, <1>2, NatSetInduction
  <1> QED
    BY <1>3 DEF H

\* The levels are what their definition says.
LEMMA LevelEquation ==
  ASSUME NEW n
  PROVE  /\ LevelsOf(n)[0] = {n}
         /\ \A k \in Nat : LevelsOf(n)[k + 1] = Below(LevelsOf(n)[k])
  <1> DEFINE at(k) == CHOOSE g : UpTo(g, n, k)
             f == [k \in Nat |-> at(k)[k]]
             Step(g) == [k \in Nat |-> IF k = 0 THEN {n} ELSE Below(g[k - 1])]
  <1>1. ASSUME NEW k \in Nat PROVE UpTo(at(k), n, k)
    BY LevelsExist
  <1>2. f[0] = {n}
    BY <1>1 DEF UpTo
  <1>3. ASSUME NEW k \in Nat PROVE f[k + 1] = Below(f[k])
    <2> HIDE DEF at
    <2>1. f[k + 1] = at(k + 1)[k + 1] /\ f[k] = at(k)[k]
      OBVIOUS
    <2>2. UpTo(at(k), n, k) /\ UpTo(at(k + 1), n, k + 1)
      BY <1>1
    <2>3. at(k + 1)[k + 1] = Below(at(k + 1)[k])
      BY <2>2 DEF UpTo
    <2>4. at(k)[k] = at(k + 1)[k]
      BY <2>2, LevelsAgree
    <2> QED
      BY <2>1, <2>3, <2>4
  <1>4. f = Step(f)
    <2>1. ASSUME NEW k \in Nat PROVE f[k] = IF k = 0 THEN {n} ELSE Below(f[k - 1])
      <3>1. CASE k = 0
        BY <1>2, <3>1
      <3>2. CASE k # 0
        <4>1. k - 1 \in Nat /\ (k - 1) + 1 = k
          BY <3>2
        <4>2. f[(k - 1) + 1] = Below(f[k - 1])
          BY <1>3, <4>1
        <4> QED
          BY <3>2, <4>1, <4>2
      <3> QED
        BY <3>1, <3>2
    <2>2. f = [k \in Nat |-> f[k]]
      OBVIOUS
    <2> HIDE DEF f
    <2> QED
      BY <2>1, <2>2
  <1> HIDE DEF f
  <1>5. LevelsOf(n) = CHOOSE g : g = Step(g)
    BY DEF LevelsOf, Below
  <1>6. LevelsOf(n) = Step(LevelsOf(n))
    BY <1>4, <1>5
  <1>7. ASSUME NEW g PROVE Step(g)[0] = {n} /\ \A k \in Nat : Step(g)[k + 1] = Below(g[k])
    <2>1. Step(g)[0] = {n}
      OBVIOUS
    <2>2. ASSUME NEW k \in Nat PROVE Step(g)[k + 1] = Below(g[k])
      <3>1. k + 1 \in Nat /\ k + 1 # 0 /\ (k + 1) - 1 = k
        OBVIOUS
      <3>2. Step(g)[k + 1] = Below(g[(k + 1) - 1])
        BY <3>1
      <3> QED
        BY <3>1, <3>2
    <2> QED
      BY <2>1, <2>2
  <1> HIDE DEF Step
  <1> QED
    BY <1>6, <1>7

\* The members on the two sides of a node: in order, and each once.
Sides(i, v, A, B) ==
  /\ \A p \in A : p.value <= v /\ p.id # i
  /\ \A p \in B : p.value >= v /\ p.id # i
  /\ \A p \in A, q \in B : p.id # q.id

\* The same of two trees.
Apart(i, v, l, r) == Sides(i, v, Members(l), Members(r))

\* A member as the nodes hold it.
Entry(i, v) == [id |-> i, value |-> v]

\* A node in order, in balance and with exact caches.
IsNode(m) ==
  /\ m = Mk(m.id, m.value, m.L, m.R)
  /\ m.value \in Nat /\ m.sum \in Nat /\ m.count \in Nat \ {0} /\ m.h \in Nat
  /\ m.R.h - m.L.h \in -1 .. 1
  /\ Apart(m.id, m.value, m.L, m.R)

\* A set of nodes that has their children.
Closed(N) == \A m \in N : m = Nil \/ (IsNode(m) /\ m.L \in N /\ m.R \in N)

\* A balanced tree: its root is in a set of nodes that has their children.
Good(n) == \E N : n \in N /\ Closed(N)

LEMMA NilFacts == Nil.h = -1 /\ Nil.count = 0 /\ Nil.sum = 0 /\ IsNil(Nil)
  BY DEF Nil, IsNil

\* What is known of a node in such a set.
LEMMA ClosedFacts ==
  ASSUME NEW N, Closed(N), NEW m \in N
  PROVE  /\ m.h \in Int /\ m.h >= -1 /\ m.sum \in Nat /\ m.count \in Nat
         /\ m = Nil <=> IsNil(m)
         /\ m # Nil => /\ IsNode(m) /\ m.L \in N /\ m.R \in N /\ m.h \in Nat
                       /\ m.L.h < m.h /\ m.R.h < m.h
  <1>1. ASSUME NEW x \in N
        PROVE  x.h \in Int /\ x.h >= -1 /\ x.sum \in Nat /\ x.count \in Nat /\ (x = Nil <=> IsNil(x))
    <2>1. CASE x = Nil
      BY <2>1, NilFacts
    <2>2. CASE x # Nil
      <3>1. IsNode(x)
        BY <2>2 DEF Closed
      <3> QED
        BY <2>2, <3>1 DEF IsNode, IsNil
    <2> QED
      BY <2>1, <2>2
  <1>2. ASSUME m # Nil
        PROVE  IsNode(m) /\ m.L \in N /\ m.R \in N /\ m.h \in Nat /\ m.L.h < m.h /\ m.R.h < m.h
    <2>1. IsNode(m) /\ m.L \in N /\ m.R \in N
      BY <1>2 DEF Closed
    <2>2. m.h = Max({m.L.h, m.R.h}) + 1
      BY <2>1, MkFields DEF IsNode
    <2>3. m.L.h \in Int /\ m.R.h \in Int
      BY <1>1, <2>1
    <2>4. /\ Max({m.L.h, m.R.h}) \in Int
          /\ Max({m.L.h, m.R.h}) >= m.L.h /\ Max({m.L.h, m.R.h}) >= m.R.h
      BY <2>3, LargerOf
    <2>5. m.L.h < m.h /\ m.R.h < m.h
      BY <2>2, <2>3, <2>4
    <2> QED
      BY <2>1, <2>5 DEF IsNode
  <1> QED
    BY <1>1, <1>2

\* Induction from the children of a node.
LEMMA TreeInduction ==
  ASSUME NEW N, Closed(N), NEW G,
         \A m \in N : (m # Nil => m.L \in G /\ m.R \in G) => m \in G
  PROVE  N \subseteq G
  <1> DEFINE H == {k \in Nat : \A m \in N : m.h < k => m \in G}
  <1>1. 0 \in H
    <2> SUFFICES ASSUME NEW m \in N, m.h < 0 PROVE m \in G
      OBVIOUS
    <2>1. m = Nil
      BY ClosedFacts
    <2> QED
      BY <2>1
  <1>2. ASSUME NEW k \in Nat, k \in H PROVE k + 1 \in H
    <2> SUFFICES ASSUME NEW m \in N, m.h < k + 1 PROVE m \in G
      OBVIOUS
    <2>1. ASSUME m # Nil PROVE m.L \in G /\ m.R \in G
      <3>1. m.L \in N /\ m.R \in N /\ m.L.h < m.h /\ m.R.h < m.h /\ m.h \in Int
        BY <2>1, ClosedFacts
      <3>2. m.L.h \in Int /\ m.R.h \in Int
        BY <3>1, ClosedFacts
      <3>3. m.L.h < k /\ m.R.h < k
        BY <3>1, <3>2
      <3> QED
        BY <1>2, <3>1, <3>3
    <2> QED
      BY <2>1
  <1> HIDE DEF H
  <1>3. Nat \subseteq H
    BY <1>1, <1>2, NatSetInduction
  <1> SUFFICES ASSUME NEW m \in N PROVE m \in G
    OBVIOUS
  <1>4. m.h + 1 \in Nat /\ m.h < m.h + 1
    BY ClosedFacts
  <1> QED
    BY <1>3, <1>4 DEF H

\* The children of two sets, and of one node.
LEMMA BelowUnion == ASSUME NEW S, NEW T PROVE Below(S \cup T) = Below(S) \cup Below(T)
  BY DEF Below

LEMMA BelowOne == ASSUME NEW n PROVE Below({n}) = IF IsNil(n) THEN {} ELSE {n.L, n.R}
  BY DEF Below

\* The levels below the root are those of its two sides.
LEMMA LevelShift ==
  ASSUME NEW n, ~IsNil(n)
  PROVE  \A k \in Nat : LevelsOf(n)[k + 1] = LevelsOf(n.L)[k] \cup LevelsOf(n.R)[k]
  <1> DEFINE H == {k \in Nat : LevelsOf(n)[k + 1] = LevelsOf(n.L)[k] \cup LevelsOf(n.R)[k]}
  <1>1. 0 \in H
    <2>1. LevelsOf(n)[0 + 1] = Below({n})
      BY LevelEquation
    <2>2. LevelsOf(n.L)[0] = {n.L} /\ LevelsOf(n.R)[0] = {n.R}
      BY LevelEquation
    <2> QED
      BY <2>1, <2>2, BelowOne
  <1>2. ASSUME NEW k \in Nat, k \in H PROVE k + 1 \in H
    <2>1. LevelsOf(n)[(k + 1) + 1] = Below(LevelsOf(n)[k + 1])
      BY LevelEquation
    <2>2. LevelsOf(n.L)[k + 1] = Below(LevelsOf(n.L)[k]) /\ LevelsOf(n.R)[k + 1] = Below(LevelsOf(n.R)[k])
      BY LevelEquation
    <2> QED
      BY <1>2, <2>1, <2>2, BelowUnion
  <1> HIDE DEF H
  <1>3. Nat \subseteq H
    BY <1>1, <1>2, NatSetInduction
  <1> QED
    BY <1>3 DEF H

\* There is nothing below the nil pointer.
LEMMA NilLevels == ASSUME NEW k \in Nat PROVE LevelsOf(Nil)[k + 1] = {}
  <1> DEFINE H == {j \in Nat : LevelsOf(Nil)[j + 1] = {}}
  <1>1. 0 \in H
    <2>1. LevelsOf(Nil)[0] = {Nil} /\ LevelsOf(Nil)[0 + 1] = Below(LevelsOf(Nil)[0])
      BY LevelEquation
    <2>2. Below({Nil}) = {}
      BY BelowOne, NilFacts
    <2> QED
      BY <2>1, <2>2
  <1>2. ASSUME NEW j \in Nat, j \in H PROVE j + 1 \in H
    <2>1. LevelsOf(Nil)[(j + 1) + 1] = Below(LevelsOf(Nil)[j + 1])
      BY LevelEquation
    <2>2. Below({}) = {}
      BY DEF Below
    <2> QED
      BY <1>2, <2>1, <2>2
  <1> HIDE DEF H
  <1>3. Nat \subseteq H
    BY <1>1, <1>2, NatSetInduction
  <1> QED
    BY <1>3 DEF H

\* There is nothing below the height of a tree.
LEMMA LevelsEnd ==
  ASSUME NEW N, Closed(N)
  PROVE  \A m \in N : \A k \in Nat : k > m.h + 1 => LevelsOf(m)[k] = {}
  <1> DEFINE G == {m \in N : \A k \in Nat : k > m.h + 1 => LevelsOf(m)[k] = {}}
  <1>1. ASSUME NEW m \in N, m # Nil => m.L \in G /\ m.R \in G PROVE m \in G
    <2> SUFFICES ASSUME NEW k \in Nat, k > m.h + 1 PROVE LevelsOf(m)[k] = {}
      OBVIOUS
    <2>1. m.h \in Int /\ m.h >= -1 /\ k - 1 \in Nat /\ (k - 1) + 1 = k
      BY ClosedFacts
    <2>2. CASE m = Nil
      BY <2>1, <2>2, NilLevels
    <2>3. CASE m # Nil
      <3>1. /\ ~IsNil(m) /\ m.L \in N /\ m.R \in N /\ m.L \in G /\ m.R \in G
            /\ m.L.h < m.h /\ m.R.h < m.h
        BY <1>1, <2>3, ClosedFacts
      <3>2. m.L.h \in Int /\ m.R.h \in Int
        BY <3>1, ClosedFacts
      <3>3. k - 1 > m.L.h + 1 /\ k - 1 > m.R.h + 1
        BY <2>1, <3>1, <3>2
      <3>4. LevelsOf(m.L)[k - 1] = {} /\ LevelsOf(m.R)[k - 1] = {}
        BY <2>1, <3>1, <3>3
      <3>5. LevelsOf(m)[(k - 1) + 1] = LevelsOf(m.L)[k - 1] \cup LevelsOf(m.R)[k - 1]
        BY <2>1, <3>1, LevelShift
      <3> QED
        BY <2>1, <3>4, <3>5
    <2> QED
      BY <2>2, <2>3
  <1> HIDE DEF G
  <1>2. N \subseteq G
    BY <1>1, TreeInduction
  <1> QED
    BY <1>2 DEF G

\* Every node of a tree is on one of its levels.
LEMMA NodesAll ==
  ASSUME NEW N, Closed(N), NEW n \in N
  PROVE  \A x : x \in NodesOf(n) <=> \E k \in Nat : x \in LevelsOf(n)[k]
  <1>1. n.h \in Int /\ n.h >= -1
    BY ClosedFacts
  <1>2. ASSUME NEW x, NEW k \in Nat, x \in LevelsOf(n)[k] PROVE x \in NodesOf(n)
    <2>1. ~(k > n.h + 1)
      BY <1>2, LevelsEnd
    <2>2. k \in 0 .. n.h + 1
      BY <1>1, <2>1
    <2> QED
      BY <1>2, <2>2 DEF NodesOf
  <1>3. ASSUME NEW x, x \in NodesOf(n) PROVE \E k \in Nat : x \in LevelsOf(n)[k]
    BY <1>1, <1>3 DEF NodesOf
  <1> QED
    BY <1>2, <1>3

\* The nodes of a tree are its root and those of its two sides.
LEMMA NodesEquation ==
  ASSUME NEW N, Closed(N), NEW n \in N
  PROVE  NodesOf(n) = IF IsNil(n) THEN {n} ELSE {n} \cup NodesOf(n.L) \cup NodesOf(n.R)
  <1>1. \A x : x \in NodesOf(n) <=> \E k \in Nat : x \in LevelsOf(n)[k]
    BY NodesAll
  <1>2. LevelsOf(n)[0] = {n}
    BY LevelEquation
  <1>3. CASE IsNil(n)
    <2>1. n = Nil
      BY <1>3, ClosedFacts
    <2>2. ASSUME NEW k \in Nat, k # 0 PROVE LevelsOf(n)[k] = {}
      <3>1. k - 1 \in Nat /\ (k - 1) + 1 = k
        BY <2>2
      <3>2. LevelsOf(Nil)[(k - 1) + 1] = {}
        BY <3>1, NilLevels
      <3> QED
        BY <2>1, <3>1, <3>2
    <2> QED
      BY <1>1, <1>2, <1>3, <2>2
  <1>4. CASE ~IsNil(n)
    <2>1. n.L \in N /\ n.R \in N
      BY <1>4, ClosedFacts
    <2>2. /\ \A x : x \in NodesOf(n.L) <=> \E k \in Nat : x \in LevelsOf(n.L)[k]
          /\ \A x : x \in NodesOf(n.R) <=> \E k \in Nat : x \in LevelsOf(n.R)[k]
      BY <2>1, NodesAll
    <2>3. \A k \in Nat : LevelsOf(n)[k + 1] = LevelsOf(n.L)[k] \cup LevelsOf(n.R)[k]
      BY <1>4, LevelShift
    <2>4. ASSUME NEW x, x \in NodesOf(n), x # n PROVE x \in NodesOf(n.L) \cup NodesOf(n.R)
      <3>1. PICK k \in Nat : x \in LevelsOf(n)[k]
        BY <1>1, <2>4
      <3>2. k - 1 \in Nat /\ (k - 1) + 1 = k
        BY <1>2, <2>4, <3>1
      <3>3. x \in LevelsOf(n.L)[k - 1] \cup LevelsOf(n.R)[k - 1]
        BY <2>3, <3>1, <3>2
      <3> QED
        BY <2>2, <3>2, <3>3
    <2>5. ASSUME NEW x, x \in NodesOf(n.L) \cup NodesOf(n.R) PROVE x \in NodesOf(n)
      <3>1. PICK k \in Nat : x \in LevelsOf(n.L)[k] \cup LevelsOf(n.R)[k]
        BY <2>2, <2>5
      <3>2. x \in LevelsOf(n)[k + 1] /\ k + 1 \in Nat
        BY <2>3, <3>1
      <3> QED
        BY <1>1, <3>2
    <2>6. n \in NodesOf(n)
      BY <1>1, <1>2
    <2> QED
      BY <1>4, <2>4, <2>5, <2>6
  <1> QED
    BY <1>3, <1>4

-----------------------------------------------------------------------------
(* Balanced trees. *)

\* The empty tree.
LEMMA GoodNil == Good(Nil) /\ Members(Nil) = {}
  <1>1. Closed({Nil})
    BY DEF Closed
  <1>2. NodesOf(Nil) = {Nil}
    BY <1>1, NodesEquation, NilFacts
  <1> QED
    BY <1>1, <1>2, NilFacts DEF Good, Members, Inner

\* What a balanced tree is.
LEMMA GoodFacts ==
  ASSUME NEW n, Good(n)
  PROVE  /\ n.h \in Int /\ n.h >= -1 /\ n.sum \in Nat /\ n.count \in Nat
         /\ n = Nil <=> IsNil(n)
         /\ n = Nil => n.h = -1 /\ n.count = 0 /\ n.sum = 0 /\ Members(n) = {}
         /\ n # Nil => /\ IsNode(n) /\ Good(n.L) /\ Good(n.R) /\ n.h \in Nat
                       /\ n.L.h < n.h /\ n.R.h < n.h
                       /\ Members(n) = {Member(n)} \cup Members(n.L) \cup Members(n.R)
  <1>1. PICK N : n \in N /\ Closed(N)
    BY DEF Good
  <1>2. ASSUME n # Nil
        PROVE  Good(n.L) /\ Good(n.R) /\ Members(n) = {Member(n)} \cup Members(n.L) \cup Members(n.R)
    <2>1. n.L \in N /\ n.R \in N /\ ~IsNil(n)
      BY <1>1, <1>2, ClosedFacts
    <2>2. NodesOf(n) = {n} \cup NodesOf(n.L) \cup NodesOf(n.R)
      BY <1>1, <2>1, NodesEquation
    <2>3. Members(n) = {Member(n)} \cup Members(n.L) \cup Members(n.R)
      BY <2>1, <2>2 DEF Members, Inner
    <2> QED
      BY <1>1, <2>1, <2>3 DEF Good
  <1>3. n.h \in Int /\ n.h >= -1 /\ n.sum \in Nat /\ n.count \in Nat /\ (n = Nil <=> IsNil(n))
    BY <1>1, ClosedFacts
  <1>4. n # Nil => IsNode(n) /\ n.h \in Nat /\ n.L.h < n.h /\ n.R.h < n.h
    BY <1>1, ClosedFacts
  <1> QED
    BY <1>2, <1>3, <1>4, GoodNil, NilFacts

\* The height of a node over two trees.
LEMMA HeightOf ==
  ASSUME NEW l, NEW r, l.h \in Int, r.h \in Int
  PROVE  /\ Max({l.h, r.h}) \in Int /\ Max({l.h, r.h}) >= l.h /\ Max({l.h, r.h}) >= r.h
         /\ l.h >= r.h => Max({l.h, r.h}) = l.h
         /\ r.h >= l.h => Max({l.h, r.h}) = r.h
  <1>1. /\ Max({l.h, r.h}) \in Int /\ Max({l.h, r.h}) \in {l.h, r.h}
        /\ Max({l.h, r.h}) >= l.h /\ Max({l.h, r.h}) >= r.h
    BY LargerOf
  <1> QED
    BY <1>1

\* T is a balanced tree of (i, v) and the members of l and r.
Over(T, i, v, l, r) ==
  /\ Good(T) /\ T # Nil
  /\ Members(T) = {Entry(i, v)} \cup Members(l) \cup Members(r)

\* A node over two balanced trees of almost the same height.
LEMMA GoodMk ==
  ASSUME NEW i, NEW v \in Nat, NEW l, NEW r, Good(l), Good(r), r.h - l.h \in -1 .. 1, Apart(i, v, l, r)
  PROVE  Over(Mk(i, v, l, r), i, v, l, r)
  <1> DEFINE n == Mk(i, v, l, r)
  <1>1. /\ n.id = i /\ n.value = v /\ n.L = l /\ n.R = r
        /\ n.sum = v + l.sum + r.sum /\ n.count = 1 + l.count + r.count /\ n.h = Max({l.h, r.h}) + 1
    BY MkFields
  <1>2. /\ l.h \in Int /\ l.h >= -1 /\ l.sum \in Nat /\ l.count \in Nat
        /\ r.h \in Int /\ r.h >= -1 /\ r.sum \in Nat /\ r.count \in Nat
    BY GoodFacts
  <1>3. Max({l.h, r.h}) \in Int /\ Max({l.h, r.h}) >= l.h
    BY <1>2, LargerOf
  <1>4. n = Mk(n.id, n.value, n.L, n.R)
    BY <1>1
  <1> HIDE DEF n
  <1>5. n.value \in Nat /\ n.sum \in Nat /\ n.count \in Nat \ {0} /\ n.h \in Nat
    BY <1>1, <1>2, <1>3
  <1>6. IsNode(n)
    BY <1>1, <1>4, <1>5 DEF IsNode
  <1>7. PICK A : l \in A /\ Closed(A)
    BY DEF Good
  <1>8. PICK B : r \in B /\ Closed(B)
    BY DEF Good
  <1> DEFINE N == A \cup B \cup {n}
  <1>9. Closed(N)
    BY <1>1, <1>6, <1>7, <1>8 DEF Closed
  <1>10. Good(n)
    BY <1>9 DEF Good
  <1>11. n # Nil
    BY <1>5, NilFacts
  <1>12. Members(n) = {Member(n)} \cup Members(l) \cup Members(r)
    BY <1>1, <1>10, <1>11, GoodFacts
  <1> QED
    BY <1>1, <1>10, <1>11, <1>12 DEF n, Member, Entry, Over

\* The nodes of a tree are a closed set of trees, with members of the tree.
LEMMA NodesWithin ==
  ASSUME NEW N, Closed(N)
  PROVE  \A n \in N : n \in NodesOf(n) /\ \A m \in NodesOf(n) : m \in N /\ NodesOf(m) \subseteq NodesOf(n)
  <1> DEFINE G == {n \in N : n \in NodesOf(n) /\ \A m \in NodesOf(n) : m \in N /\ NodesOf(m) \subseteq NodesOf(n)}
  <1>1. ASSUME NEW n \in N, n # Nil => n.L \in G /\ n.R \in G PROVE n \in G
    <2>1. NodesOf(n) = IF IsNil(n) THEN {n} ELSE {n} \cup NodesOf(n.L) \cup NodesOf(n.R)
      BY NodesEquation
    <2>2. n = Nil <=> IsNil(n)
      BY ClosedFacts
    <2> QED
      BY <1>1, <2>1, <2>2
  <1> HIDE DEF G
  <1>2. N \subseteq G
    BY <1>1, TreeInduction
  <1> QED
    BY <1>2 DEF G

\* The nodes of a balanced tree are balanced trees.
LEMMA NodesClosed ==
  ASSUME NEW n, Good(n)
  PROVE  /\ n \in NodesOf(n) /\ Closed(NodesOf(n))
         /\ \A m \in NodesOf(n) : Good(m) /\ Members(m) \subseteq Members(n)
  <1>1. PICK N : n \in N /\ Closed(N)
    BY DEF Good
  <1>2. n \in NodesOf(n) /\ \A m \in NodesOf(n) : m \in N /\ NodesOf(m) \subseteq NodesOf(n)
    BY <1>1, NodesWithin
  <1>3. \A m \in NodesOf(n) : Good(m) /\ Members(m) \subseteq Members(n)
    BY <1>1, <1>2 DEF Good, Members, Inner
  <1>4. ASSUME NEW m \in NodesOf(n), m # Nil PROVE IsNode(m) /\ m.L \in NodesOf(n) /\ m.R \in NodesOf(n)
    <2>1. m \in N /\ NodesOf(m) \subseteq NodesOf(n)
      BY <1>2
    <2>2. IsNode(m) /\ m.L \in N /\ m.R \in N /\ ~IsNil(m)
      BY <1>1, <1>4, <2>1, ClosedFacts
    <2>3. NodesOf(m) = {m} \cup NodesOf(m.L) \cup NodesOf(m.R)
      BY <1>1, <2>1, <2>2, NodesEquation
    <2>4. m.L \in NodesOf(m.L) /\ m.R \in NodesOf(m.R)
      BY <1>1, <2>2, NodesWithin
    <2> QED
      BY <2>1, <2>2, <2>3, <2>4
  <1>5. Closed(NodesOf(n))
    BY <1>4 DEF Closed
  <1> QED
    BY <1>2, <1>3, <1>5

\* The fields of a member.
LEMMA EntryFields == ASSUME NEW i, NEW v PROVE Entry(i, v).id = i /\ Entry(i, v).value = v
  BY DEF Entry

\* The members of a tree are pairs of an identity and a number.
LEMMA MemberTypes ==
  ASSUME NEW n, Good(n)
  PROVE  \A p \in Members(n) : p.value \in Nat /\ p = Entry(p.id, p.value)
  <1> SUFFICES ASSUME NEW p \in Members(n) PROVE p.value \in Nat /\ p = Entry(p.id, p.value)
    OBVIOUS
  <1>1. PICK m \in NodesOf(n) : ~IsNil(m) /\ p = Member(m)
    BY DEF Members, Inner
  <1>2. Good(m)
    BY NodesClosed
  <1>3. m.value \in Nat
    BY <1>1, <1>2, GoodFacts DEF IsNode
  <1>4. p = Entry(m.id, m.value)
    BY <1>1 DEF Member, Entry
  <1> QED
    BY <1>3, <1>4, EntryFields

\* The values of a set of members are numbers.
Numbers(A) == \A p \in A : p.value \in Nat

\* The order around a node and its left child, and its right one, when they turn.
LEMMA SidesLeft ==
  ASSUME NEW i, NEW v \in Nat, NEW j, NEW w \in Nat, NEW A, NEW B, NEW C, Numbers(A), Numbers(B), Numbers(C),
         Sides(i, v, A, {Entry(j, w)} \cup B \cup C), Sides(j, w, B, C)
  PROVE  Sides(i, v, A, B) /\ Sides(j, w, {Entry(i, v)} \cup A \cup B, C) /\ v <= w
  <1>1. /\ Entry(j, w).id = j /\ Entry(j, w).value = w
        /\ Entry(i, v).id = i /\ Entry(i, v).value = v
    BY EntryFields
  <1>2. Sides(i, v, A, B)
    BY DEF Sides
  <1>3. v <= w /\ i # j
    BY <1>1 DEF Sides
  <1>4. ASSUME NEW p \in {Entry(i, v)} \cup A \cup B PROVE p.value <= w /\ p.id # j
    <2>1. CASE p \in A
      <3>1. p.value <= v /\ p.value \in Nat /\ p.id # j
        BY <1>1, <2>1 DEF Sides, Numbers
      <3> QED
        BY <1>3, <3>1
    <2> QED
      BY <1>1, <1>3, <1>4, <2>1 DEF Sides
  <1>5. ASSUME NEW p \in {Entry(i, v)} \cup A \cup B, NEW q \in C PROVE p.id # q.id
    BY <1>1, <1>5 DEF Sides
  <1>6. \A p \in C : p.value >= w /\ p.id # j
    BY DEF Sides
  <1>7. Sides(j, w, {Entry(i, v)} \cup A \cup B, C)
    BY <1>4, <1>5, <1>6 DEF Sides
  <1> QED
    BY <1>2, <1>3, <1>7

LEMMA SidesRight ==
  ASSUME NEW i, NEW v \in Nat, NEW j, NEW w \in Nat, NEW A, NEW B, NEW C, Numbers(A), Numbers(B), Numbers(C),
         Sides(i, v, {Entry(j, w)} \cup A \cup B, C), Sides(j, w, A, B)
  PROVE  Sides(i, v, B, C) /\ Sides(j, w, A, {Entry(i, v)} \cup B \cup C) /\ w <= v
  <1>1. /\ Entry(j, w).id = j /\ Entry(j, w).value = w
        /\ Entry(i, v).id = i /\ Entry(i, v).value = v
    BY EntryFields
  <1>2. Sides(i, v, B, C)
    BY DEF Sides
  <1>3. w <= v /\ i # j
    BY <1>1 DEF Sides
  <1>4. ASSUME NEW p \in {Entry(i, v)} \cup B \cup C PROVE p.value >= w /\ p.id # j
    <2>1. CASE p \in C
      <3>1. p.value >= v /\ p.value \in Nat /\ p.id # j
        BY <1>1, <2>1 DEF Sides, Numbers
      <3> QED
        BY <1>3, <3>1
    <2> QED
      BY <1>1, <1>3, <1>4, <2>1 DEF Sides
  <1>5. ASSUME NEW p \in A, NEW q \in {Entry(i, v)} \cup B \cup C PROVE p.id # q.id
    BY <1>1, <1>5 DEF Sides
  <1>6. \A p \in A : p.value <= w /\ p.id # j
    BY DEF Sides
  <1>7. Sides(j, w, A, {Entry(i, v)} \cup B \cup C)
    BY <1>4, <1>5, <1>6 DEF Sides
  <1> QED
    BY <1>2, <1>3, <1>7

\* What a node that is not nil consists of.
LEMMA NodeParts ==
  ASSUME NEW n, Good(n), n # Nil
  PROVE  /\ n = Mk(n.id, n.value, n.L, n.R) /\ n.value \in Nat
         /\ Good(n.L) /\ Good(n.R) /\ Sides(n.id, n.value, Members(n.L), Members(n.R))
         /\ Members(n) = {Entry(n.id, n.value)} \cup Members(n.L) \cup Members(n.R)
         /\ Numbers(Members(n)) /\ Numbers(Members(n.L)) /\ Numbers(Members(n.R))
         /\ n.h \in Nat /\ n.L.h \in Int /\ n.R.h \in Int /\ n.L.h >= -1 /\ n.R.h >= -1
         /\ n.bal = n.R.h - n.L.h /\ n.bal \in -1 .. 1
         /\ n.h = Max({n.L.h, n.R.h}) + 1
         /\ n.L.h < n.h /\ n.R.h < n.h /\ (n.h = n.L.h + 1 \/ n.h = n.R.h + 1)
  <1>1. IsNode(n) /\ Good(n.L) /\ Good(n.R) /\ n.L.h < n.h /\ n.R.h < n.h
    BY GoodFacts
  <1>2. n = Mk(n.id, n.value, n.L, n.R)
    BY <1>1 DEF IsNode
  <1>3. n.bal = n.R.h - n.L.h /\ n.h = Max({n.L.h, n.R.h}) + 1
    BY <1>2, MkFields
  <1>4. Members(n) = {Entry(n.id, n.value)} \cup Members(n.L) \cup Members(n.R)
    BY GoodFacts DEF Member, Entry
  <1>5. n.h \in Nat /\ n.value \in Nat /\ n.R.h - n.L.h \in -1 .. 1 /\ Sides(n.id, n.value, Members(n.L), Members(n.R))
    BY <1>1 DEF IsNode, Apart
  <1>6. n.L.h \in Int /\ n.R.h \in Int /\ n.L.h >= -1 /\ n.R.h >= -1
    BY <1>1, GoodFacts
  <1>7. Max({n.L.h, n.R.h}) \in {n.L.h, n.R.h}
    BY <1>6, LargerOf
  <1>8. Numbers(Members(n)) /\ Numbers(Members(n.L)) /\ Numbers(Members(n.R))
    BY <1>1, MemberTypes DEF Numbers
  <1>9. n.h = n.L.h + 1 \/ n.h = n.R.h + 1
    BY <1>3, <1>7
  <1> QED
    BY <1>1, <1>2, <1>3, <1>4, <1>5, <1>6, <1>8, <1>9

\* T is a balanced tree of (i, v), l and r, of height h or one more.
Carries(T, i, v, l, r, h) == Over(T, i, v, l, r) /\ T.h \in {h, h + 1}

\* The height of a node over two trees, by their difference.
LEMMA HeightMk ==
  ASSUME NEW i, NEW v, NEW l, NEW r, l.h \in Int, r.h \in Int
  PROVE  /\ Mk(i, v, l, r).h \in Int /\ Mk(i, v, l, r).h >= l.h + 1 /\ Mk(i, v, l, r).h >= r.h + 1
         /\ Mk(i, v, l, r).h = l.h + 1 \/ Mk(i, v, l, r).h = r.h + 1
  <1>1. Mk(i, v, l, r).h = Max({l.h, r.h}) + 1
    BY MkFields
  <1>2. /\ Max({l.h, r.h}) \in Int /\ Max({l.h, r.h}) \in {l.h, r.h}
        /\ Max({l.h, r.h}) >= l.h /\ Max({l.h, r.h}) >= r.h
    BY LargerOf
  <1> QED
    BY <1>1, <1>2

-----------------------------------------------------------------------------
(* Rotations and rebalancing.  *)

\* A node whose right side is two higher is turned left: once, or twice when that side leans left.
LEMMA LeftTurn ==
  ASSUME NEW i, NEW v \in Nat, NEW l, NEW r, Good(l), Good(r), Apart(i, v, l, r),
         r.h = l.h + 2, r.bal >= 0
  PROVE  Carries(RotLeft(Mk(i, v, l, r)), i, v, l, r, r.h)
  <1> DEFINE j == r.id
             w == r.value
             a == Mk(i, v, l, r.L)
             T == Mk(j, w, a, r.R)
  <1>0. l.h \in Int /\ l.h >= -1 /\ Numbers(Members(l))
    BY GoodFacts, MemberTypes DEF Numbers
  <1>1. r # Nil
    BY <1>0, NilFacts
  <1>2. RotLeft(Mk(i, v, l, r)) = T
    <2>1. r = Mk(j, w, r.L, r.R)
      BY <1>1, NodeParts
    <2>2. ASSUME NEW x, NEW y PROVE RotLeft(Mk(i, v, l, Mk(j, w, x, y))) = Mk(j, w, Mk(i, v, l, x), y)
      BY RotLeftMk
    <2> QED
      BY <2>1, <2>2
  <1>3. /\ w \in Nat /\ Good(r.L) /\ Good(r.R) /\ Sides(j, w, Members(r.L), Members(r.R))
        /\ Members(r) = {Entry(j, w)} \cup Members(r.L) \cup Members(r.R)
        /\ Numbers(Members(r.L)) /\ Numbers(Members(r.R))
    BY <1>1, NodeParts
  <1>4. /\ r.L.h \in Int /\ r.R.h \in Int /\ r.R.h = l.h + 1 /\ (r.L.h = l.h \/ r.L.h = l.h + 1)
    <2>1. /\ r.h \in Nat /\ r.L.h \in Int /\ r.R.h \in Int /\ r.L.h < r.h /\ r.R.h < r.h
          /\ r.bal = r.R.h - r.L.h /\ r.bal \in -1 .. 1 /\ (r.h = r.L.h + 1 \/ r.h = r.R.h + 1)
      BY <1>1, NodeParts
    <2> QED
      BY <1>0, <2>1
  <1>5. Sides(i, v, Members(l), Members(r.L)) /\ Sides(j, w, {Entry(i, v)} \cup Members(l) \cup Members(r.L), Members(r.R))
    <2>1. Sides(i, v, Members(l), {Entry(j, w)} \cup Members(r.L) \cup Members(r.R))
      BY <1>3 DEF Apart
    <2> HIDE DEF j, w
    <2> QED
      BY <1>0, <1>3, <2>1, SidesLeft
  <1>6. Good(a) /\ Members(a) = {Entry(i, v)} \cup Members(l) \cup Members(r.L)
    <2>1. r.L.h - l.h \in -1 .. 1
      BY <1>0, <1>4
    <2>2. Over(a, i, v, l, r.L)
      BY <1>3, <1>5, <2>1, GoodMk DEF Apart
    <2> QED
      BY <2>2 DEF Over
  <1>7. a.h \in Int /\ a.h = r.L.h + 1
    BY <1>0, <1>4, HeightMk
  <1> HIDE DEF a, j, w
  <1>8. r.R.h - a.h \in -1 .. 1
    BY <1>0, <1>4, <1>7
  <1>9. Good(T) /\ T # Nil /\ Members(T) = {Entry(j, w)} \cup Members(a) \cup Members(r.R)
    <2>1. Apart(j, w, a, r.R)
      BY <1>5, <1>6 DEF Apart
    <2>2. w \in Nat /\ Good(r.R)
      BY <1>3
    <2> DEFINE y == r.R
    <2>3. Good(a) /\ Good(y) /\ y.h - a.h \in -1 .. 1 /\ Apart(j, w, a, y)
      BY <1>6, <1>8, <2>1, <2>2
    <2> HIDE DEF y
    <2>4. Over(Mk(j, w, a, y), j, w, a, y)
      BY <2>2, <2>3, GoodMk
    <2> QED
      BY <2>4 DEF y, Over
  <1>10. T.h \in {r.h, r.h + 1}
    <2>1. T.h \in Int /\ T.h >= a.h + 1 /\ T.h >= r.R.h + 1 /\ (T.h = a.h + 1 \/ T.h = r.R.h + 1)
      BY <1>4, <1>7, HeightMk
    <2> QED
      BY <1>0, <1>4, <1>7, <2>1
  <1> HIDE DEF T
  <1>11. Members(T) = {Entry(i, v)} \cup Members(l) \cup Members(r)
    BY <1>3, <1>6, <1>9
  <1> QED
    BY <1>2, <1>9, <1>10, <1>11 DEF Carries, Over

LEMMA LeftTwice ==
  ASSUME NEW i, NEW v \in Nat, NEW l, NEW r, Good(l), Good(r), Apart(i, v, l, r),
         r.h = l.h + 2, r.bal < 0
  PROVE  Carries(RotLeft([Mk(i, v, l, r) EXCEPT !.R = RotRight(r)]), i, v, l, r, r.h)
  <1> DEFINE j == r.id
             w == r.value
             x == r.L
             k == x.id
             u == x.value
             a == Mk(i, v, l, x.L)
             b == Mk(j, w, x.R, r.R)
             T == Mk(k, u, a, b)
  <1>0. l.h \in Int /\ l.h >= -1 /\ Numbers(Members(l))
    BY GoodFacts, MemberTypes DEF Numbers
  <1>1. r # Nil
    BY <1>0, NilFacts
  <1>2. /\ r = Mk(j, w, x, r.R) /\ w \in Nat /\ Good(x) /\ Good(r.R) /\ Sides(j, w, Members(x), Members(r.R))
        /\ Members(r) = {Entry(j, w)} \cup Members(x) \cup Members(r.R)
        /\ Numbers(Members(x)) /\ Numbers(Members(r.R))
        /\ r.h \in Nat /\ x.h \in Int /\ r.R.h \in Int /\ x.h < r.h /\ r.R.h < r.h
        /\ r.bal = r.R.h - x.h /\ r.bal \in -1 .. 1 /\ (r.h = x.h + 1 \/ r.h = r.R.h + 1)
    BY <1>1, NodeParts
  <1>3. x.h = l.h + 1 /\ r.R.h = l.h
    BY <1>0, <1>2
  <1>4. x # Nil
    BY <1>0, <1>3, NilFacts
  <1>5. /\ x = Mk(k, u, x.L, x.R) /\ u \in Nat /\ Good(x.L) /\ Good(x.R) /\ Sides(k, u, Members(x.L), Members(x.R))
        /\ Members(x) = {Entry(k, u)} \cup Members(x.L) \cup Members(x.R)
        /\ Numbers(Members(x.L)) /\ Numbers(Members(x.R))
        /\ x.L.h \in Int /\ x.R.h \in Int /\ x.L.h < x.h /\ x.R.h < x.h
        /\ x.bal = x.R.h - x.L.h /\ x.bal \in -1 .. 1 /\ (x.h = x.L.h + 1 \/ x.h = x.R.h + 1)
    BY <1>2, <1>4, NodeParts
  <1>6. RotLeft([Mk(i, v, l, r) EXCEPT !.R = RotRight(r)]) = T
    <2>1. ASSUME NEW e, NEW f, NEW g PROVE RotRight(Mk(j, w, Mk(k, u, e, f), g)) = Mk(k, u, e, Mk(j, w, f, g))
      BY RotRightMk
    <2>2. RotRight(r) = Mk(k, u, x.L, b)
      BY <1>2, <1>5, <2>1
    <2>3. ASSUME NEW e, NEW f, NEW g
          PROVE  RotLeft([Mk(i, v, l, g) EXCEPT !.R = Mk(k, u, e, f)]) = Mk(k, u, Mk(i, v, l, e), f)
      BY RotLeftOther
    <2> HIDE DEF b
    <2> QED
      BY <2>2, <2>3
  <1> HIDE DEF k, u, j, w
  <1>7. /\ Sides(j, w, Members(x.R), Members(r.R))
        /\ Sides(k, u, Members(x.L), {Entry(j, w)} \cup Members(x.R) \cup Members(r.R))
    <2>1. Sides(j, w, {Entry(k, u)} \cup Members(x.L) \cup Members(x.R), Members(r.R))
      BY <1>2, <1>5
    <2>2. /\ w \in Nat /\ u \in Nat /\ Sides(k, u, Members(x.L), Members(x.R))
          /\ Numbers(Members(x.L)) /\ Numbers(Members(x.R)) /\ Numbers(Members(r.R))
      BY <1>2, <1>5
    <2> HIDE DEF x
    <2> QED
      BY <2>1, <2>2, SidesRight
  <1> DEFINE B == {Entry(j, w)} \cup Members(x.R) \cup Members(r.R)
  <1>8. Members(r) = {Entry(k, u)} \cup Members(x.L) \cup B
    BY <1>2, <1>5
  <1>9. Numbers(B)
    BY <1>2, <1>5, EntryFields DEF Numbers
  <1>10. /\ Sides(i, v, Members(l), Members(x.L))
         /\ Sides(k, u, {Entry(i, v)} \cup Members(l) \cup Members(x.L), B)
    <2>1. Sides(i, v, Members(l), {Entry(k, u)} \cup Members(x.L) \cup B)
      BY <1>8 DEF Apart
    <2>2. Sides(k, u, Members(x.L), B)
      BY <1>7
    <2>3. u \in Nat /\ Numbers(Members(x.L)) /\ Numbers(Members(l))
      BY <1>0, <1>5
    <2> HIDE DEF B, x
    <2> QED
      BY <1>9, <2>1, <2>2, <2>3, SidesLeft
  <1>11. Good(a) /\ Members(a) = {Entry(i, v)} \cup Members(l) \cup Members(x.L)
    <2>1. x.L.h - l.h \in -1 .. 1
      BY <1>0, <1>3, <1>5
    <2>2. Over(a, i, v, l, x.L)
      BY <1>5, <1>10, <2>1, GoodMk DEF Apart
    <2> QED
      BY <2>2 DEF Over
  <1>12. Good(b) /\ Members(b) = B
    <2>1. r.R.h - x.R.h \in -1 .. 1
      BY <1>0, <1>2, <1>3, <1>5
    <2>2. Apart(j, w, x.R, r.R)
      BY <1>7 DEF Apart
    <2>3. w \in Nat /\ Good(x.R) /\ Good(r.R)
      BY <1>2, <1>5
    <2>4. Over(b, j, w, x.R, r.R)
      BY <2>1, <2>2, <2>3, GoodMk
    <2> QED
      BY <2>4 DEF Over
  <1>13. a.h = l.h + 1 /\ b.h = l.h + 1
    <2>1. a.h \in Int /\ a.h >= l.h + 1 /\ a.h >= x.L.h + 1 /\ (a.h = l.h + 1 \/ a.h = x.L.h + 1)
      BY <1>0, <1>5, HeightMk
    <2>2. b.h \in Int /\ b.h >= x.R.h + 1 /\ b.h >= r.R.h + 1 /\ (b.h = x.R.h + 1 \/ b.h = r.R.h + 1)
      BY <1>2, <1>5, HeightMk
    <2> HIDE DEF a, b
    <2> QED
      BY <1>0, <1>3, <1>5, <2>1, <2>2
  <1> HIDE DEF a, b, B
  <1>14. b.h - a.h \in -1 .. 1
    BY <1>0, <1>13
  <1>15. Good(T) /\ T # Nil /\ Members(T) = {Entry(k, u)} \cup Members(a) \cup Members(b)
    <2>1. Apart(k, u, a, b)
      BY <1>10, <1>11, <1>12 DEF Apart
    <2>2. u \in Nat
      BY <1>5
    <2>3. Good(a) /\ Good(b) /\ b.h - a.h \in -1 .. 1
      BY <1>11, <1>12, <1>14
    <2> HIDE DEF x
    <2>4. Over(T, k, u, a, b)
      BY <2>1, <2>2, <2>3, GoodMk
    <2> QED
      BY <2>4 DEF Over
  <1>16. T.h = r.h
    <2>1. T.h = a.h + 1 \/ T.h = b.h + 1
      BY <1>0, <1>13, HeightMk
    <2> HIDE DEF T
    <2> QED
      BY <1>0, <1>13, <2>1
  <1> HIDE DEF T
  <1>17. Members(T) = {Entry(i, v)} \cup Members(l) \cup Members(r)
    BY <1>8, <1>11, <1>12, <1>15
  <1> QED
    BY <1>6, <1>15, <1>16, <1>17 DEF Carries, Over

\* The same to the right.
LEMMA RightTurn ==
  ASSUME NEW i, NEW v \in Nat, NEW l, NEW r, Good(l), Good(r), Apart(i, v, l, r),
         l.h = r.h + 2, l.bal <= 0
  PROVE  Carries(RotRight(Mk(i, v, l, r)), i, v, l, r, l.h)
  <1> DEFINE j == l.id
             w == l.value
             a == Mk(i, v, l.R, r)
             T == Mk(j, w, l.L, a)
  <1>0. r.h \in Int /\ r.h >= -1 /\ Numbers(Members(r))
    BY GoodFacts, MemberTypes DEF Numbers
  <1>1. l # Nil
    BY <1>0, NilFacts
  <1>2. RotRight(Mk(i, v, l, r)) = T
    <2>1. l = Mk(j, w, l.L, l.R)
      BY <1>1, NodeParts
    <2>2. ASSUME NEW x, NEW y PROVE RotRight(Mk(i, v, Mk(j, w, x, y), r)) = Mk(j, w, x, Mk(i, v, y, r))
      BY RotRightMk
    <2> QED
      BY <2>1, <2>2
  <1>3. /\ w \in Nat /\ Good(l.L) /\ Good(l.R) /\ Sides(j, w, Members(l.L), Members(l.R))
        /\ Members(l) = {Entry(j, w)} \cup Members(l.L) \cup Members(l.R)
        /\ Numbers(Members(l.L)) /\ Numbers(Members(l.R))
    BY <1>1, NodeParts
  <1>4. l.L.h \in Int /\ l.R.h \in Int /\ l.L.h = r.h + 1 /\ (l.R.h = r.h \/ l.R.h = r.h + 1)
    <2>1. /\ l.h \in Nat /\ l.L.h \in Int /\ l.R.h \in Int /\ l.L.h < l.h /\ l.R.h < l.h
          /\ l.bal = l.R.h - l.L.h /\ l.bal \in -1 .. 1 /\ (l.h = l.L.h + 1 \/ l.h = l.R.h + 1)
      BY <1>1, NodeParts
    <2> QED
      BY <1>0, <2>1
  <1>5. Sides(i, v, Members(l.R), Members(r)) /\ Sides(j, w, Members(l.L), {Entry(i, v)} \cup Members(l.R) \cup Members(r))
    <2>1. Sides(i, v, {Entry(j, w)} \cup Members(l.L) \cup Members(l.R), Members(r))
      BY <1>3 DEF Apart
    <2> HIDE DEF j, w
    <2> QED
      BY <1>0, <1>3, <2>1, SidesRight
  <1>6. Good(a) /\ Members(a) = {Entry(i, v)} \cup Members(l.R) \cup Members(r)
    <2>1. r.h - l.R.h \in -1 .. 1
      BY <1>0, <1>4
    <2>2. Over(a, i, v, l.R, r)
      BY <1>3, <1>5, <2>1, GoodMk DEF Apart
    <2> QED
      BY <2>2 DEF Over
  <1>7. a.h \in Int /\ a.h = l.R.h + 1
    BY <1>0, <1>4, HeightMk
  <1> HIDE DEF a, j, w
  <1>8. a.h - l.L.h \in -1 .. 1
    BY <1>0, <1>4, <1>7
  <1>9. Good(T) /\ T # Nil /\ Members(T) = {Entry(j, w)} \cup Members(l.L) \cup Members(a)
    <2>1. Apart(j, w, l.L, a)
      BY <1>5, <1>6 DEF Apart
    <2>2. w \in Nat /\ Good(l.L)
      BY <1>3
    <2> DEFINE y == l.L
    <2>3. Good(a) /\ Good(y) /\ a.h - y.h \in -1 .. 1 /\ Apart(j, w, y, a)
      BY <1>6, <1>8, <2>1, <2>2
    <2> HIDE DEF y
    <2>4. Over(Mk(j, w, y, a), j, w, y, a)
      BY <2>2, <2>3, GoodMk
    <2> QED
      BY <2>4 DEF y, Over
  <1>10. T.h \in {l.h, l.h + 1}
    <2>1. T.h \in Int /\ T.h >= a.h + 1 /\ T.h >= l.L.h + 1 /\ (T.h = a.h + 1 \/ T.h = l.L.h + 1)
      BY <1>4, <1>7, HeightMk
    <2> QED
      BY <1>0, <1>4, <1>7, <2>1
  <1> HIDE DEF T
  <1>11. Members(T) = {Entry(i, v)} \cup Members(l) \cup Members(r)
    BY <1>3, <1>6, <1>9
  <1> QED
    BY <1>2, <1>9, <1>10, <1>11 DEF Carries, Over

LEMMA RightTwice ==
  ASSUME NEW i, NEW v \in Nat, NEW l, NEW r, Good(l), Good(r), Apart(i, v, l, r),
         l.h = r.h + 2, l.bal > 0
  PROVE  Carries(RotRight([Mk(i, v, l, r) EXCEPT !.L = RotLeft(l)]), i, v, l, r, l.h)
  <1> DEFINE j == l.id
             w == l.value
             x == l.R
             k == x.id
             u == x.value
             a == Mk(i, v, x.R, r)
             b == Mk(j, w, l.L, x.L)
             T == Mk(k, u, b, a)
  <1>0. r.h \in Int /\ r.h >= -1 /\ Numbers(Members(r))
    BY GoodFacts, MemberTypes DEF Numbers
  <1>1. l # Nil
    BY <1>0, NilFacts
  <1>2. /\ l = Mk(j, w, l.L, x) /\ w \in Nat /\ Good(x) /\ Good(l.L) /\ Sides(j, w, Members(l.L), Members(x))
        /\ Members(l) = {Entry(j, w)} \cup Members(l.L) \cup Members(x)
        /\ Numbers(Members(x)) /\ Numbers(Members(l.L))
        /\ l.h \in Nat /\ x.h \in Int /\ l.L.h \in Int /\ x.h < l.h /\ l.L.h < l.h
        /\ l.bal = x.h - l.L.h /\ l.bal \in -1 .. 1 /\ (l.h = x.h + 1 \/ l.h = l.L.h + 1)
    BY <1>1, NodeParts
  <1>3. x.h = r.h + 1 /\ l.L.h = r.h
    BY <1>0, <1>2
  <1>4. x # Nil
    BY <1>0, <1>3, NilFacts
  <1>5. /\ x = Mk(k, u, x.L, x.R) /\ u \in Nat /\ Good(x.L) /\ Good(x.R) /\ Sides(k, u, Members(x.L), Members(x.R))
        /\ Members(x) = {Entry(k, u)} \cup Members(x.L) \cup Members(x.R)
        /\ Numbers(Members(x.L)) /\ Numbers(Members(x.R))
        /\ x.L.h \in Int /\ x.R.h \in Int /\ x.L.h < x.h /\ x.R.h < x.h
        /\ x.bal = x.R.h - x.L.h /\ x.bal \in -1 .. 1 /\ (x.h = x.L.h + 1 \/ x.h = x.R.h + 1)
    BY <1>2, <1>4, NodeParts
  <1>6. RotRight([Mk(i, v, l, r) EXCEPT !.L = RotLeft(l)]) = T
    <2>1. ASSUME NEW e, NEW f, NEW g PROVE RotLeft(Mk(j, w, g, Mk(k, u, e, f))) = Mk(k, u, Mk(j, w, g, e), f)
      BY RotLeftMk
    <2>2. RotLeft(l) = Mk(k, u, b, x.R)
      BY <1>2, <1>5, <2>1
    <2>3. ASSUME NEW e, NEW f, NEW g
          PROVE  RotRight([Mk(i, v, g, r) EXCEPT !.L = Mk(k, u, e, f)]) = Mk(k, u, e, Mk(i, v, f, r))
      BY RotRightOther
    <2> HIDE DEF b
    <2> QED
      BY <2>2, <2>3
  <1> HIDE DEF k, u, j, w
  <1>7. /\ Sides(j, w, Members(l.L), Members(x.L))
        /\ Sides(k, u, {Entry(j, w)} \cup Members(l.L) \cup Members(x.L), Members(x.R))
    <2>1. Sides(j, w, Members(l.L), {Entry(k, u)} \cup Members(x.L) \cup Members(x.R))
      BY <1>2, <1>5
    <2>2. /\ w \in Nat /\ u \in Nat /\ Sides(k, u, Members(x.L), Members(x.R))
          /\ Numbers(Members(x.L)) /\ Numbers(Members(x.R)) /\ Numbers(Members(l.L))
      BY <1>2, <1>5
    <2> HIDE DEF x
    <2> QED
      BY <2>1, <2>2, SidesLeft
  <1> DEFINE B == {Entry(j, w)} \cup Members(l.L) \cup Members(x.L)
  <1>8. Members(l) = {Entry(k, u)} \cup B \cup Members(x.R)
    BY <1>2, <1>5
  <1>9. Numbers(B)
    BY <1>2, <1>5, EntryFields DEF Numbers
  <1>10. /\ Sides(i, v, Members(x.R), Members(r))
         /\ Sides(k, u, B, {Entry(i, v)} \cup Members(x.R) \cup Members(r))
    <2>1. Sides(i, v, {Entry(k, u)} \cup B \cup Members(x.R), Members(r))
      BY <1>8 DEF Apart
    <2>2. Sides(k, u, B, Members(x.R))
      BY <1>7
    <2>3. u \in Nat /\ Numbers(Members(x.R)) /\ Numbers(Members(r))
      BY <1>0, <1>5
    <2> HIDE DEF B, x
    <2> QED
      BY <1>9, <2>1, <2>2, <2>3, SidesRight
  <1>11. Good(a) /\ Members(a) = {Entry(i, v)} \cup Members(x.R) \cup Members(r)
    <2>1. r.h - x.R.h \in -1 .. 1
      BY <1>0, <1>3, <1>5
    <2>2. Over(a, i, v, x.R, r)
      BY <1>5, <1>10, <2>1, GoodMk DEF Apart
    <2> QED
      BY <2>2 DEF Over
  <1>12. Good(b) /\ Members(b) = B
    <2>1. x.L.h - l.L.h \in -1 .. 1
      BY <1>0, <1>2, <1>3, <1>5
    <2>2. Apart(j, w, l.L, x.L)
      BY <1>7 DEF Apart
    <2>3. w \in Nat /\ Good(x.L) /\ Good(l.L)
      BY <1>2, <1>5
    <2>4. Over(b, j, w, l.L, x.L)
      BY <2>1, <2>2, <2>3, GoodMk
    <2> QED
      BY <2>4 DEF Over
  <1>13. a.h = r.h + 1 /\ b.h = r.h + 1
    <2>1. a.h \in Int /\ a.h >= r.h + 1 /\ a.h >= x.R.h + 1 /\ (a.h = r.h + 1 \/ a.h = x.R.h + 1)
      BY <1>0, <1>5, HeightMk
    <2>2. b.h \in Int /\ b.h >= x.L.h + 1 /\ b.h >= l.L.h + 1 /\ (b.h = x.L.h + 1 \/ b.h = l.L.h + 1)
      BY <1>2, <1>5, HeightMk
    <2> HIDE DEF a, b
    <2> QED
      BY <1>0, <1>3, <1>5, <2>1, <2>2
  <1> HIDE DEF a, b, B
  <1>14. a.h - b.h \in -1 .. 1
    BY <1>0, <1>13
  <1>15. Good(T) /\ T # Nil /\ Members(T) = {Entry(k, u)} \cup Members(b) \cup Members(a)
    <2>1. Apart(k, u, b, a)
      BY <1>10, <1>11, <1>12 DEF Apart
    <2>2. u \in Nat
      BY <1>5
    <2>3. Good(a) /\ Good(b) /\ a.h - b.h \in -1 .. 1
      BY <1>11, <1>12, <1>14
    <2> HIDE DEF x
    <2>4. Over(T, k, u, b, a)
      BY <2>1, <2>2, <2>3, GoodMk
    <2> QED
      BY <2>4 DEF Over
  <1>16. T.h = l.h
    <2>1. T.h = a.h + 1 \/ T.h = b.h + 1
      BY <1>0, <1>13, HeightMk
    <2> HIDE DEF T
    <2> QED
      BY <1>0, <1>13, <2>1
  <1> HIDE DEF T
  <1>17. Members(T) = {Entry(i, v)} \cup Members(l) \cup Members(r)
    BY <1>8, <1>11, <1>12, <1>15
  <1> QED
    BY <1>6, <1>15, <1>16, <1>17 DEF Carries, Over

\* A node whose sides differ by two in height at most is rebalanced to a tree of the same
\* members; it is no higher than the node, and loses a level only when it was turned.
LEMMA RotateHolds ==
  ASSUME NEW i, NEW v \in Nat, NEW l, NEW r, Good(l), Good(r), Apart(i, v, l, r),
         r.h - l.h \in -2 .. 2
  PROVE  /\ Over(Rotate(Mk(i, v, l, r)), i, v, l, r)
         /\ r.h - l.h \in -1 .. 1 => Rotate(Mk(i, v, l, r)).h = Max({l.h, r.h}) + 1
         /\ r.h - l.h = 2 => Rotate(Mk(i, v, l, r)).h \in {r.h, r.h + 1}
         /\ r.h - l.h = -2 => Rotate(Mk(i, v, l, r)).h \in {l.h, l.h + 1}
  <1> DEFINE n == Mk(i, v, l, r)
  <1>1. n.bal = r.h - l.h /\ n.L = l /\ n.R = r /\ n.h = Max({l.h, r.h}) + 1
    BY MkFields
  <1>2. l.h \in Int /\ r.h \in Int
    BY GoodFacts
  <1>3. CASE r.h - l.h = 2
    <2>1. Rotate(n) = RotLeft(IF r.bal < 0 THEN [n EXCEPT !.R = RotRight(r)] ELSE n)
      BY <1>1, <1>3 DEF Rotate
    <2>2. r.h = l.h + 2
      BY <1>2, <1>3
    <2>3. r # Nil
      BY <1>2, <2>2, GoodFacts, NilFacts
    <2>4. r.bal \in -1 .. 1
      BY <2>3, NodeParts
    <2>5. Carries(Rotate(n), i, v, l, r, r.h)
      <3>1. CASE r.bal < 0
        <4>1. Carries(RotLeft([n EXCEPT !.R = RotRight(r)]), i, v, l, r, r.h)
          BY <2>2, <3>1, LeftTwice
        <4> QED
          BY <2>1, <3>1, <4>1
      <3>2. CASE ~(r.bal < 0)
        <4>1. Carries(RotLeft(n), i, v, l, r, r.h)
          BY <2>2, <2>4, <3>2, LeftTurn
        <4> QED
          BY <2>1, <3>2, <4>1
      <3> QED
        BY <3>1, <3>2
    <2> HIDE DEF n
    <2>6. Over(Rotate(n), i, v, l, r) /\ Rotate(n).h \in {r.h, r.h + 1}
      BY <2>5 DEF Carries
    <2> QED
      BY <1>3, <2>6 DEF n
  <1>4. CASE r.h - l.h = -2
    <2>1. Rotate(n) = RotRight(IF l.bal > 0 THEN [n EXCEPT !.L = RotLeft(l)] ELSE n)
      BY <1>1, <1>4 DEF Rotate
    <2>2. l.h = r.h + 2
      BY <1>2, <1>4
    <2>3. l # Nil
      BY <1>2, <2>2, GoodFacts, NilFacts
    <2>4. l.bal \in -1 .. 1
      BY <2>3, NodeParts
    <2>5. Carries(Rotate(n), i, v, l, r, l.h)
      <3>1. CASE l.bal > 0
        <4>1. Carries(RotRight([n EXCEPT !.L = RotLeft(l)]), i, v, l, r, l.h)
          BY <2>2, <3>1, RightTwice
        <4> QED
          BY <2>1, <3>1, <4>1
      <3>2. CASE ~(l.bal > 0)
        <4>1. Carries(RotRight(n), i, v, l, r, l.h)
          BY <2>2, <2>4, <3>2, RightTurn
        <4> QED
          BY <2>1, <3>2, <4>1
      <3> QED
        BY <3>1, <3>2
    <2> HIDE DEF n
    <2>6. Over(Rotate(n), i, v, l, r) /\ Rotate(n).h \in {l.h, l.h + 1}
      BY <2>5 DEF Carries
    <2> QED
      BY <1>4, <2>6 DEF n
  <1>5. CASE r.h - l.h \in -1 .. 1
    <2>1. n.bal # 2 /\ n.bal # -2
      BY <1>1, <1>2, <1>5
    <2>2. Rotate(n) = n
      BY <2>1 DEF Rotate
    <2>3. Over(n, i, v, l, r)
      BY <1>5, GoodMk
    <2> HIDE DEF n
    <2>4. r.h - l.h # 2 /\ r.h - l.h # -2
      BY <1>5
    <2> QED
      BY <1>1, <2>2, <2>3, <2>4 DEF n
  <1> QED
    BY <1>3, <1>4, <1>5

\* One side of a node over l and r is replaced by a tree whose height differs by at most
\* one: what is rebalanced changes its height the same way, by at most one.
LEMMA RefitLeft ==
  ASSUME NEW i, NEW v \in Nat, NEW l, NEW r, NEW x, l.h \in Int, Good(r), Good(x),
         r.h - l.h \in -1 .. 1, x.h - l.h \in -1 .. 1, Apart(i, v, x, r)
  PROVE  /\ Over(Rotate(Mk(i, v, x, r)), i, v, x, r)
         /\ x.h >= l.h => Rotate(Mk(i, v, x, r)).h \in {Max({l.h, r.h}) + 1, Max({l.h, r.h}) + 2}
         /\ x.h <= l.h => Rotate(Mk(i, v, x, r)).h \in {Max({l.h, r.h}), Max({l.h, r.h}) + 1}
  <1>1. x.h \in Int /\ r.h \in Int
    BY GoodFacts
  <1>2. r.h - x.h \in -2 .. 2
    BY <1>1
  <1> DEFINE T == Rotate(Mk(i, v, x, r))
             H == Max({l.h, r.h})
             K == Max({x.h, r.h})
  <1>3. /\ Over(T, i, v, x, r)
        /\ r.h - x.h \in -1 .. 1 => T.h = K + 1
        /\ r.h - x.h = 2 => T.h \in {r.h, r.h + 1}
        /\ r.h - x.h = -2 => T.h \in {x.h, x.h + 1}
    BY <1>2, RotateHolds
  <1>4. H \in Int /\ H \in {l.h, r.h} /\ H >= l.h /\ H >= r.h
    BY <1>1, LargerOf
  <1>5. K \in Int /\ K \in {x.h, r.h} /\ K >= x.h /\ K >= r.h
    BY <1>1, LargerOf
  <1> HIDE DEF T, H, K
  <1>6. x.h >= l.h => T.h \in {H + 1, H + 2}
    BY <1>1, <1>2, <1>3, <1>4, <1>5
  <1>7. x.h <= l.h => T.h \in {H, H + 1}
    BY <1>1, <1>2, <1>3, <1>4, <1>5
  <1> QED
    BY <1>3, <1>6, <1>7 DEF T, H

LEMMA RefitRight ==
  ASSUME NEW i, NEW v \in Nat, NEW l, NEW r, NEW x, r.h \in Int, Good(l), Good(x),
         r.h - l.h \in -1 .. 1, x.h - r.h \in -1 .. 1, Apart(i, v, l, x)
  PROVE  /\ Over(Rotate(Mk(i, v, l, x)), i, v, l, x)
         /\ x.h >= r.h => Rotate(Mk(i, v, l, x)).h \in {Max({l.h, r.h}) + 1, Max({l.h, r.h}) + 2}
         /\ x.h <= r.h => Rotate(Mk(i, v, l, x)).h \in {Max({l.h, r.h}), Max({l.h, r.h}) + 1}
  <1>1. x.h \in Int /\ l.h \in Int
    BY GoodFacts
  <1>2. x.h - l.h \in -2 .. 2
    BY <1>1
  <1> DEFINE T == Rotate(Mk(i, v, l, x))
             H == Max({l.h, r.h})
             K == Max({l.h, x.h})
  <1>3. /\ Over(T, i, v, l, x)
        /\ x.h - l.h \in -1 .. 1 => T.h = K + 1
        /\ x.h - l.h = 2 => T.h \in {x.h, x.h + 1}
        /\ x.h - l.h = -2 => T.h \in {l.h, l.h + 1}
    BY <1>2, RotateHolds
  <1>4. H \in Int /\ H \in {l.h, r.h} /\ H >= l.h /\ H >= r.h
    BY <1>1, LargerOf
  <1>5. K \in Int /\ K \in {l.h, x.h} /\ K >= l.h /\ K >= x.h
    BY <1>1, LargerOf
  <1> HIDE DEF T, H, K
  <1>6. x.h >= r.h => T.h \in {H + 1, H + 2}
    BY <1>1, <1>2, <1>3, <1>4, <1>5
  <1>7. x.h <= r.h => T.h \in {H, H + 1}
    BY <1>1, <1>2, <1>3, <1>4, <1>5
  <1> QED
    BY <1>3, <1>6, <1>7 DEF T, H

\* What rebalancing a node does after one of its sides was replaced.
LEMMA RebalanceLeft ==
  ASSUME NEW i, NEW v, NEW l, NEW r, NEW x
  PROVE  Rebalance([Mk(i, v, l, r) EXCEPT !.L = x]) = Rotate(Mk(i, v, x, r))
  <1>1. PICK s, c, b, h : Mk(i, v, l, r) = Rec(i, v, s, c, b, h, l, r)
    BY MkIsRec
  <1>2. [Rec(i, v, s, c, b, h, l, r) EXCEPT !.L = x] = Rec(i, v, s, c, b, h, x, r)
    BY RecL
  <1>3. Recompute(Rec(i, v, s, c, b, h, x, r)) = Mk(i, v, x, r)
    BY RecomputeRec
  <1> QED
    BY <1>1, <1>2, <1>3 DEF Rebalance

LEMMA RebalanceRight ==
  ASSUME NEW i, NEW v, NEW l, NEW r, NEW x
  PROVE  Rebalance([Mk(i, v, l, r) EXCEPT !.R = x]) = Rotate(Mk(i, v, l, x))
  <1>1. PICK s, c, b, h : Mk(i, v, l, r) = Rec(i, v, s, c, b, h, l, r)
    BY MkIsRec
  <1>2. [Rec(i, v, s, c, b, h, l, r) EXCEPT !.R = x] = Rec(i, v, s, c, b, h, l, x)
    BY RecR
  <1>3. Recompute(Rec(i, v, s, c, b, h, l, x)) = Mk(i, v, l, x)
    BY RecomputeRec
  <1> QED
    BY <1>1, <1>2, <1>3 DEF Rebalance

\* A node that takes the place of the smallest member on its right.
Heired(m, j, w, x) == [m EXCEPT !.id = j, !.value = w, !.R = x]

LEMMA RebalanceHeir ==
  ASSUME NEW i, NEW v, NEW l, NEW r, NEW j, NEW w, NEW x
  PROVE  Rebalance(Heired(Mk(i, v, l, r), j, w, x)) = Rotate(Mk(j, w, l, x))
  <1> DEFINE n == Mk(i, v, l, r)
  <1>1. PICK s, c, b, h : n = Rec(i, v, s, c, b, h, l, r)
    BY MkIsRec
  <1> HIDE DEF n
  <1>2. [Rec(i, v, s, c, b, h, l, r) EXCEPT !.id = j] = Rec(j, v, s, c, b, h, l, r)
    BY RecId
  <1>3. [Rec(j, v, s, c, b, h, l, r) EXCEPT !.value = w] = Rec(j, w, s, c, b, h, l, r)
    BY RecValue
  <1>4. [Rec(j, w, s, c, b, h, l, r) EXCEPT !.R = x] = Rec(j, w, s, c, b, h, l, x)
    BY RecR
  <1>5. [n EXCEPT !.id = j, !.value = w, !.R = x] = [[[n EXCEPT !.id = j] EXCEPT !.value = w] EXCEPT !.R = x]
    OBVIOUS
  <1>6. Recompute(Rec(j, w, s, c, b, h, l, x)) = Mk(j, w, l, x)
    BY RecomputeRec
  <1>7. [n EXCEPT !.id = j, !.value = w, !.R = x] = Rec(j, w, s, c, b, h, l, x)
    BY <1>1, <1>2, <1>3, <1>4, <1>5
  <1>8. Rebalance([n EXCEPT !.id = j, !.value = w, !.R = x]) = Rotate(Mk(j, w, l, x))
    BY <1>6, <1>7 DEF Rebalance
  <1> QED
    BY <1>8 DEF n, Heired

\* A node of a tree is no higher than the tree.
LEMMA NodesBelow ==
  ASSUME NEW n, Good(n)
  PROVE  \A m \in NodesOf(n) : m.h <= n.h
  <1> DEFINE N == NodesOf(n)
             G == {q \in N : \A m \in NodesOf(q) : m.h <= q.h}
  <1>1. n \in N /\ Closed(N)
    BY NodesClosed
  <1> HIDE DEF N
  <1>2. ASSUME NEW q \in N, q # Nil => q.L \in G /\ q.R \in G PROVE q \in G
    <2> SUFFICES ASSUME NEW m \in NodesOf(q) PROVE m.h <= q.h
      OBVIOUS
    <2>1. NodesOf(q) = IF IsNil(q) THEN {q} ELSE {q} \cup NodesOf(q.L) \cup NodesOf(q.R)
      BY <1>1, NodesEquation
    <2>2. q.h \in Int /\ (q = Nil <=> IsNil(q)) /\ m \in N
      BY <1>1, ClosedFacts, NodesWithin
    <2>3. m.h \in Int
      BY <1>1, <2>2, ClosedFacts
    <2>4. CASE m = q
      BY <2>2, <2>4
    <2>5. CASE m # q
      <3>1. q # Nil /\ (m \in NodesOf(q.L) \/ m \in NodesOf(q.R))
        BY <2>1, <2>2, <2>5
      <3>2. q.L.h < q.h /\ q.R.h < q.h /\ q.L \in N /\ q.R \in N
        BY <1>1, <3>1, ClosedFacts
      <3>3. q.L.h \in Int /\ q.R.h \in Int
        BY <1>1, <3>2, ClosedFacts
      <3>4. m.h <= q.L.h \/ m.h <= q.R.h
        BY <1>2, <3>1
      <3> QED
        BY <2>2, <2>3, <3>2, <3>3, <3>4
    <2> QED
      BY <2>4, <2>5
  <1> HIDE DEF G
  <1>3. N \subseteq G
    BY <1>1, <1>2, TreeInduction
  <1> QED
    BY <1>1, <1>3 DEF G, N

-----------------------------------------------------------------------------
(* Insertion.  *)

\* What insert makes of a node, from what it makes of the children.
InsertStep(f, m, id, v) ==
  IF IsNil(m) THEN Leaf(id, v)
  ELSE Rebalance(IF v <= m.value THEN [m EXCEPT !.L = f[m.L]] ELSE [m EXCEPT !.R = f[m.R]])

\* A step depends on the nodes below only.
LEMMA InsertStepSame ==
  ASSUME NEW f, NEW g, NEW m, NEW id, NEW v, ~IsNil(m) => f[m.L] = g[m.L] /\ f[m.R] = g[m.R]
  PROVE  InsertStep(f, m, id, v) = InsertStep(g, m, id, v)
  BY DEF InsertStep

\* The recursion of insert has a solution.
LEMMA InsertExists ==
  ASSUME NEW n, Good(n), NEW id, NEW v
  PROVE  \E f : f = [m \in NodesOf(n) |-> InsertStep(f, m, id, v)]
  <1> DEFINE N == NodesOf(n)
             Done(g, k) == \A m \in N : m.h < k => g[m] = InsertStep(g, m, id, v)
             H == {k \in Nat : \E g : Done(g, k)}
  <1>1. n \in N /\ Closed(N) /\ \A m \in N : m.h <= n.h
    BY NodesClosed, NodesBelow
  <1> HIDE DEF N
  <1>2. ASSUME NEW m \in N
        PROVE  /\ m.h \in Int /\ m.h >= -1 /\ m.h <= n.h /\ n.h \in Int
               /\ ~IsNil(m) => /\ m.L \in N /\ m.R \in N /\ m.L.h \in Int /\ m.R.h \in Int
                               /\ m.L.h < m.h /\ m.R.h < m.h
    BY <1>1, ClosedFacts
  <1>3. ASSUME NEW g, NEW k \in Int, Done(g, k)
        PROVE  \E f : f = [m \in N |-> f[m]] /\ Done(f, k + 1)
    <2> DEFINE f == [m \in N |-> InsertStep(g, m, id, v)]
    <2>1. ASSUME NEW m \in N, m.h < k PROVE f[m] = g[m]
      BY <1>3, <2>1
    <2>2. ASSUME NEW m \in N, m.h < k + 1 PROVE f[m] = InsertStep(f, m, id, v)
      <3>1. ~IsNil(m) => f[m.L] = g[m.L] /\ f[m.R] = g[m.R]
        <4> SUFFICES ASSUME ~IsNil(m) PROVE f[m.L] = g[m.L] /\ f[m.R] = g[m.R]
          OBVIOUS
        <4>1. m.L \in N /\ m.R \in N /\ m.L.h < k /\ m.R.h < k
          BY <1>2, <2>2
        <4> HIDE DEF f
        <4> QED
          BY <2>1, <4>1
      <3>2. f[m] = InsertStep(g, m, id, v)
        OBVIOUS
      <3> HIDE DEF f
      <3> QED
        BY <3>1, <3>2, InsertStepSame
    <2>3. f = [m \in N |-> f[m]]
      OBVIOUS
    <2> HIDE DEF f
    <2> QED
      BY <2>2, <2>3
  <1>4. 0 \in H
    <2>2. Done([m \in N |-> 0], -1)
      BY <1>2
    <2>3. \E g : Done(g, -1)
      BY <2>2
    <2> HIDE DEF Done
    <2>4. PICK g : Done(g, -1)
      BY <2>3
    <2>5. \E f : Done(f, -1 + 1)
      BY <1>3, <2>4
    <2>6. -1 + 1 = 0
      OBVIOUS
    <2> QED
      BY <2>5, <2>6
  <1> HIDE DEF Done
  <1>5. ASSUME NEW k \in Nat, k \in H PROVE k + 1 \in H
    <2>1. PICK g : Done(g, k)
      BY <1>5
    <2>2. \E f : Done(f, k + 1)
      BY <1>3, <2>1
    <2> QED
      BY <2>2
  <1> HIDE DEF H
  <1>6. Nat \subseteq H
    BY <1>4, <1>5, NatSetInduction
  <1>7. n.h + 1 \in H
    BY <1>1, <1>2, <1>6
  <1>8. PICK g : Done(g, n.h + 1)
    BY <1>7 DEF H
  <1>9. PICK f : f = [m \in N |-> f[m]] /\ Done(f, (n.h + 1) + 1)
    BY <1>1, <1>2, <1>3, <1>8
  <1>10. ASSUME NEW m \in N PROVE f[m] = InsertStep(f, m, id, v)
    <2>1. m.h < (n.h + 1) + 1
      BY <1>2
    <2> QED
      BY <1>9, <2>1 DEF Done
  <1>11. f = [m \in N |-> InsertStep(f, m, id, v)]
    BY <1>9, <1>10
  <1> QED
    BY <1>11 DEF N

\* A new leaf.
LEMMA LeafMk == ASSUME NEW id, NEW v \in Nat PROVE Leaf(id, v) = Mk(id, v, Nil, Nil)
  <1>1. Nil.h = -1 /\ Nil.count = 0 /\ Nil.sum = 0
    BY NilFacts
  <1> HIDE DEF Nil
  <1>2. Max({Nil.h, Nil.h}) = -1
    <2>1. Nil.h \in Int
      BY <1>1
    <2>2. Max({Nil.h, Nil.h}) \in {Nil.h, Nil.h}
      BY <2>1, LargerOf
    <2> QED
      BY <1>1, <2>2
  <1>3. /\ v + Nil.sum + Nil.sum = v /\ 1 + Nil.count + Nil.count = 1 /\ Nil.h - Nil.h = 0
        /\ Max({Nil.h, Nil.h}) + 1 = 0
    BY <1>1, <1>2
  <1> QED
    BY <1>3 DEF Leaf, Mk

\* A member is inserted: a balanced tree with it, at most one level higher.
LEMMA InsertHolds ==
  ASSUME NEW n, Good(n), NEW id, NEW v \in Nat, \A p \in Members(n) : p.id # id
  PROVE  /\ Good(Insert(n, id, v)) /\ Insert(n, id, v) # Nil
         /\ Members(Insert(n, id, v)) = Members(n) \cup {Entry(id, v)}
  <1> DEFINE N == NodesOf(n)
             f == CHOOSE f : f = [m \in N |-> InsertStep(f, m, id, v)]
             E == Entry(id, v)
  <1>1. Insert(n, id, v) = f[n]
    BY DEF Insert, InsertStep
  <1>2. f = [m \in N |-> InsertStep(f, m, id, v)]
    BY InsertExists
  <1> HIDE DEF f
  <1>3. n \in N /\ Closed(N) /\ \A m \in N : Good(m) /\ Members(m) \subseteq Members(n)
    BY NodesClosed
  <1> HIDE DEF N
  <1> DEFINE Fine(T, m) == /\ Good(T) /\ T # Nil /\ Members(T) = Members(m) \cup {E}
                           /\ T.h \in {m.h, m.h + 1}
             G == {m \in N : Fine(f[m], m)}
  <1>4. E.id = id /\ E.value = v
    BY EntryFields
  <1>5. ASSUME NEW m \in N, m # Nil => m.L \in G /\ m.R \in G PROVE m \in G
    <2>1. f[m] = InsertStep(f, m, id, v)
      BY <1>2
    <2>2. Good(m) /\ \A p \in Members(m) : p.id # id
      BY <1>3
    <2>3. CASE m = Nil
      <3>1. f[m] = Mk(id, v, Nil, Nil)
        BY <2>1, <2>3, NilFacts, LeafMk DEF InsertStep
      <3>2. Members(Nil) = {} /\ Good(Nil) /\ Nil.h = -1
        BY GoodNil, NilFacts
      <3> HIDE DEF Nil
      <3>3. Apart(id, v, Nil, Nil) /\ Nil.h - Nil.h \in -1 .. 1
        BY <3>2 DEF Apart, Sides
      <3>4. Over(f[m], id, v, Nil, Nil)
        BY <3>1, <3>2, <3>3, GoodMk
      <3>5. f[m].h = 0
        <4>1. f[m].h = Nil.h + 1
          BY <3>1, <3>2, HeightMk
        <4> QED
          BY <3>2, <4>1
      <3>6. f[m].h \in {m.h, m.h + 1}
        BY <2>3, <3>2, <3>5
      <3> QED
        BY <2>3, <3>2, <3>4, <3>6 DEF Over
    <2>4. CASE m # Nil
      <3> DEFINE i == m.id
                 w == m.value
                 l == m.L
                 r == m.R
      <3>1. /\ m = Mk(i, w, l, r) /\ w \in Nat /\ Good(l) /\ Good(r) /\ Sides(i, w, Members(l), Members(r))
            /\ Members(m) = {Entry(i, w)} \cup Members(l) \cup Members(r)
            /\ m.h \in Nat /\ l.h \in Int /\ r.h \in Int
            /\ r.h - l.h \in -1 .. 1 /\ m.h = Max({l.h, r.h}) + 1
        <4>1. m.bal = r.h - l.h /\ m.bal \in -1 .. 1
          BY <2>2, <2>4, NodeParts
        <4> QED
          BY <2>2, <2>4, <4>1, NodeParts
      <3>2. ~IsNil(m)
        BY <2>2, <2>4, GoodFacts
      <3>3. l \in G /\ r \in G
        BY <1>5, <2>4
      <3>4. i # id /\ \A p \in Members(l) \cup Members(r) : p.id # id
        <4>1. Entry(i, w) \in Members(m)
          BY <3>1
        <4> QED
          BY <2>2, <3>1, <4>1, EntryFields
      <3> DEFINE M == Max({l.h, r.h})
      <3>5. M \in Int
        BY <3>1, LargerOf
      <3>6. CASE v <= w
        <4> DEFINE x == f[l]
        <4>1. Good(x) /\ Members(x) = Members(l) \cup {E} /\ x.h \in {l.h, l.h + 1}
          BY <3>3
        <4>2. f[m] = Rebalance([m EXCEPT !.L = x])
          BY <2>1, <3>2, <3>6 DEF InsertStep
        <4> HIDE DEF i, w, l, r, x
        <4>3. f[m] = Rotate(Mk(i, w, x, r))
          BY <3>1, <4>2, RebalanceLeft
        <4>4. Apart(i, w, x, r)
          BY <1>4, <3>1, <3>4, <3>6, <4>1 DEF Apart, Sides
        <4>5. x.h - l.h \in -1 .. 1 /\ x.h >= l.h
          BY <3>1, <4>1
        <4>6. Over(f[m], i, w, x, r) /\ f[m].h \in {M + 1, M + 2}
          BY <3>1, <4>1, <4>3, <4>4, <4>5, RefitLeft
        <4>7. f[m].h \in {m.h, m.h + 1}
          BY <3>1, <3>5, <4>6
        <4>8. Members(f[m]) = Members(m) \cup {E} /\ Good(f[m]) /\ f[m] # Nil
          BY <3>1, <4>1, <4>6 DEF Over
        <4> QED
          BY <4>7, <4>8
      <3>7. CASE ~(v <= w)
        <4> DEFINE x == f[r]
        <4>1. Good(x) /\ Members(x) = Members(r) \cup {E} /\ x.h \in {r.h, r.h + 1}
          BY <3>3
        <4>2. f[m] = Rebalance([m EXCEPT !.R = x])
          BY <2>1, <3>2, <3>7 DEF InsertStep
        <4> HIDE DEF i, w, l, r, x
        <4>3. f[m] = Rotate(Mk(i, w, l, x))
          BY <3>1, <4>2, RebalanceRight
        <4>4. Apart(i, w, l, x)
          BY <1>4, <3>1, <3>4, <3>7, <4>1 DEF Apart, Sides
        <4>5. x.h - r.h \in -1 .. 1 /\ x.h >= r.h
          BY <3>1, <4>1
        <4>6. Over(f[m], i, w, l, x) /\ f[m].h \in {M + 1, M + 2}
          BY <3>1, <4>1, <4>3, <4>4, <4>5, RefitRight
        <4>7. f[m].h \in {m.h, m.h + 1}
          BY <3>1, <3>5, <4>6
        <4>8. Members(f[m]) = Members(m) \cup {E} /\ Good(f[m]) /\ f[m] # Nil
          BY <3>1, <4>1, <4>6 DEF Over
        <4> QED
          BY <4>7, <4>8
      <3> QED
        BY <3>6, <3>7
    <2> QED
      BY <2>3, <2>4
  <1> HIDE DEF G
  <1>6. N \subseteq G
    BY <1>3, <1>5, TreeInduction
  <1>7. Fine(f[n], n)
    BY <1>3, <1>6 DEF G
  <1> QED
    BY <1>1, <1>7

-----------------------------------------------------------------------------
(* Deletion.  *)

\* What minNode makes of a node.
MinStep(f, m) == IF IsNil(m.L) THEN m ELSE f[m.L]

\* The recursion of minNode has a solution.
LEMMA MinExists ==
  ASSUME NEW n, Good(n)
  PROVE  \E f : f = [m \in Inner(n) |-> MinStep(f, m)]
  <1> DEFINE N == NodesOf(n)
             I == Inner(n)
             Done(g, k) == \A m \in I : m.h < k => g[m] = MinStep(g, m)
             H == {k \in Nat : \E g : g = [m \in I |-> g[m]] /\ Done(g, k)}
  <1>1. n \in N /\ Closed(N) /\ \A m \in N : m.h <= n.h
    BY NodesClosed, NodesBelow
  <1>2. ASSUME NEW m \in I
        PROVE  /\ m.h \in Nat /\ m.h <= n.h /\ n.h \in Int
               /\ ~IsNil(m.L) => m.L \in I /\ m.L.h \in Int /\ m.L.h < m.h
    <2>1. m \in N /\ m # Nil
      BY <1>1, ClosedFacts DEF Inner
    <2> HIDE DEF N
    <2>2. m.h \in Nat /\ m.L \in N /\ m.L.h < m.h
      BY <1>1, <2>1, ClosedFacts
    <2>3. n.h \in Int /\ m.L.h \in Int /\ m.h <= n.h
      BY <1>1, <2>1, <2>2, ClosedFacts
    <2> QED
      BY <2>2, <2>3 DEF N, Inner
  <1> HIDE DEF N, I
  <1>3. ASSUME NEW g, NEW k \in Int, Done(g, k)
        PROVE  \E f : f = [m \in I |-> f[m]] /\ Done(f, k + 1)
    <2> DEFINE f == [m \in I |-> MinStep(g, m)]
    <2>1. ASSUME NEW m \in I, m.h < k PROVE f[m] = g[m]
      BY <1>3, <2>1
    <2>2. ASSUME NEW m \in I, m.h < k + 1 PROVE f[m] = MinStep(f, m)
      <3>1. ~IsNil(m.L) => f[m.L] = g[m.L]
        <4> SUFFICES ASSUME ~IsNil(m.L) PROVE f[m.L] = g[m.L]
          OBVIOUS
        <4>1. m.L \in I /\ m.L.h < k
          BY <1>2, <2>2
        <4> HIDE DEF f
        <4> QED
          BY <2>1, <4>1
      <3>2. f[m] = MinStep(g, m)
        OBVIOUS
      <3> HIDE DEF f
      <3> QED
        BY <3>1, <3>2 DEF MinStep
    <2>3. f = [m \in I |-> f[m]]
      OBVIOUS
    <2> HIDE DEF f
    <2> QED
      BY <2>2, <2>3
  <1>4. 0 \in H
    <2> DEFINE g == [m \in I |-> 0]
    <2>1. Done(g, 0)
      BY <1>2
    <2>2. g = [m \in I |-> g[m]]
      OBVIOUS
    <2> HIDE DEF g, Done
    <2> QED
      BY <2>1, <2>2
  <1> HIDE DEF Done
  <1>5. ASSUME NEW k \in Nat, k \in H PROVE k + 1 \in H
    BY <1>3, <1>5
  <1> HIDE DEF H
  <1>6. Nat \subseteq H
    BY <1>4, <1>5, NatSetInduction
  <1>7. n.h + 1 \in Nat
    BY GoodFacts
  <1>8. PICK f : f = [m \in I |-> f[m]] /\ Done(f, n.h + 1)
    BY <1>6, <1>7 DEF H
  <1>9. ASSUME NEW m \in I PROVE f[m] = MinStep(f, m)
    <2>1. m.h < n.h + 1
      BY <1>2
    <2> QED
      BY <1>8, <2>1 DEF Done
  <1>10. f = [m \in I |-> MinStep(f, m)]
    BY <1>8, <1>9
  <1> QED
    BY <1>10 DEF I

\* The leftmost node holds a smallest member.
LEMMA MinNodeHolds ==
  ASSUME NEW n, Good(n), n # Nil
  PROVE  /\ Member(MinNode(n)) \in Members(n)
         /\ \A p \in Members(n) : Member(MinNode(n)).value <= p.value
  <1> DEFINE N == NodesOf(n)
             f == CHOOSE f : f = [m \in Inner(n) |-> MinStep(f, m)]
             Least(p, A) == p \in A /\ \A q \in A : p.value <= q.value
             G == {m \in N : m # Nil => Least(Member(f[m]), Members(m))}
  <1>1. MinNode(n) = f[n]
    BY DEF MinNode, MinStep
  <1>2. f = [m \in Inner(n) |-> MinStep(f, m)]
    BY MinExists
  <1> HIDE DEF f
  <1>3. n \in N /\ Closed(N) /\ \A m \in N : Good(m)
    BY NodesClosed
  <1>4. ASSUME NEW m \in N, m # Nil PROVE f[m] = MinStep(f, m)
    <2>1. m \in Inner(n)
      BY <1>3, <1>4, ClosedFacts DEF Inner
    <2> QED
      BY <1>2, <2>1
  <1> HIDE DEF N
  <1>5. ASSUME NEW m \in N, m # Nil => m.L \in G /\ m.R \in G PROVE m \in G
    <2> SUFFICES ASSUME m # Nil PROVE Least(Member(f[m]), Members(m))
      OBVIOUS
    <2>1. Good(m)
      BY <1>3
    <2>2. /\ m.value \in Nat /\ Good(m.L) /\ Sides(m.id, m.value, Members(m.L), Members(m.R))
          /\ Members(m) = {Entry(m.id, m.value)} \cup Members(m.L) \cup Members(m.R)
          /\ Numbers(Members(m.L)) /\ Numbers(Members(m.R))
      BY <2>1, NodeParts
    <2>3. CASE IsNil(m.L)
      <3>1. Members(m.L) = {}
        BY <2>2, <2>3, GoodFacts
      <3>2. Member(f[m]) = Entry(m.id, m.value)
        BY <1>4, <2>3 DEF MinStep, Member, Entry
      <3>3. Member(f[m]).value = m.value
        BY <3>2, EntryFields
      <3> QED
        BY <2>2, <3>1, <3>2, <3>3 DEF Sides
    <2>4. CASE ~IsNil(m.L)
      <3>1. m.L # Nil /\ f[m] = f[m.L]
        BY <1>4, <2>4, NilFacts DEF MinStep
      <3> DEFINE y == Member(f[m.L])
      <3>2. Least(y, Members(m.L))
        BY <1>5, <3>1
      <3> HIDE DEF y
      <3>3. y.value \in Nat /\ y.value <= m.value
        BY <2>2, <3>2 DEF Sides, Numbers
      <3>4. ASSUME NEW q \in Members(m) PROVE y.value <= q.value
        <4>1. CASE q \in Members(m.L)
          BY <3>2, <4>1
        <4>2. CASE q = Entry(m.id, m.value)
          BY <3>3, <4>2, EntryFields
        <4>3. CASE q \in Members(m.R)
          <5>1. q.value >= m.value /\ q.value \in Nat
            BY <2>2, <4>3 DEF Sides, Numbers
          <5> QED
            BY <2>2, <3>3, <5>1
        <4> QED
          BY <2>2, <4>1, <4>2, <4>3
      <3>5. y \in Members(m)
        BY <2>2, <3>2
      <3>6. Least(y, Members(m))
        BY <3>4, <3>5
      <3> QED
        BY <3>1, <3>6 DEF y
    <2> QED
      BY <2>3, <2>4
  <1> HIDE DEF G
  <1>6. N \subseteq G
    BY <1>3, <1>5, TreeInduction
  <1>7. Least(Member(f[n]), Members(n))
    BY <1>3, <1>6 DEF G
  <1> QED
    BY <1>1, <1>7

\* A member has one node.
LEMMA OneNode ==
  ASSUME NEW n, Good(n)
  PROVE  \A p, q \in Members(n) : p.id = q.id => p = q
  <1> DEFINE N == NodesOf(n)
             G == {m \in N : \A p, q \in Members(m) : p.id = q.id => p = q}
  <1>1. n \in N /\ Closed(N) /\ \A m \in N : Good(m)
    BY NodesClosed
  <1> HIDE DEF N
  <1>2. ASSUME NEW m \in N, m # Nil => m.L \in G /\ m.R \in G PROVE m \in G
    <2>1. Good(m)
      BY <1>1
    <2>2. CASE m = Nil
      BY <2>2, GoodNil
    <2>3. CASE m # Nil
      <3>1. /\ Sides(m.id, m.value, Members(m.L), Members(m.R))
            /\ Members(m) = {Entry(m.id, m.value)} \cup Members(m.L) \cup Members(m.R)
        BY <2>1, <2>3, NodeParts
      <3>2. Entry(m.id, m.value).id = m.id
        BY EntryFields
      <3>3. m.L \in G /\ m.R \in G
        BY <1>2, <2>3
      <3> QED
        BY <3>1, <3>2, <3>3 DEF Sides
    <2> QED
      BY <2>2, <2>3
  <1> HIDE DEF G
  <1>3. N \subseteq G
    BY <1>1, <1>2, TreeInduction
  <1> QED
    BY <1>1, <1>3 DEF G

\* What delete makes of a node, from what it makes of the children.
DeleteStep(f, m, x) ==
  LET left  == f[m.L][x]
      right == f[m.R][x]
      heir  == MinNode(m.R)
  IN  IF IsNil(m) THEN m
      ELSE IF m.id = x.id THEN
          IF IsNil(m.L) THEN m.R
          ELSE IF IsNil(m.R) THEN m.L
          ELSE Rebalance([m EXCEPT !.id = heir.id, !.value = heir.value,
                                   !.R = f[m.R][Member(heir)]])
      ELSE IF SearchesLeft(m, x.value) /\ left # m.L THEN Rebalance([m EXCEPT !.L = left])
      ELSE IF SearchesRight(m, x.value) /\ right # m.R THEN Rebalance([m EXCEPT !.R = right])
      ELSE m

\* A step depends on the nodes below only.
LEMMA DeleteStepSame ==
  ASSUME NEW f, NEW g, NEW m, NEW x,
         ~IsNil(m) => /\ f[m.L][x] = g[m.L][x] /\ f[m.R][x] = g[m.R][x]
                      /\ ~IsNil(m.R) => f[m.R][Member(MinNode(m.R))] = g[m.R][Member(MinNode(m.R))]
  PROVE  DeleteStep(f, m, x) = DeleteStep(g, m, x)
  BY DEF DeleteStep

\* The recursion of delete has a solution.
LEMMA DeleteExists ==
  ASSUME NEW n, Good(n), NEW X, Members(n) \subseteq X
  PROVE  \E f : f = [m \in NodesOf(n) |-> [x \in X |-> DeleteStep(f, m, x)]]
  <1> DEFINE N == NodesOf(n)
             Done(g, k) == \A m \in N, x \in X : m.h < k => g[m][x] = DeleteStep(g, m, x)
             H == {k \in Nat : \E g : g = [m \in N |-> [x \in X |-> g[m][x]]] /\ Done(g, k)}
  <1>1. n \in N /\ Closed(N) /\ \A m \in N : m.h <= n.h /\ Good(m) /\ Members(m) \subseteq X
    BY NodesClosed, NodesBelow
  <1> HIDE DEF N
  <1>2. ASSUME NEW m \in N
        PROVE  /\ m.h \in Int /\ m.h >= -1 /\ m.h <= n.h /\ n.h \in Int
               /\ ~IsNil(m) => /\ m.L \in N /\ m.R \in N /\ m.L.h \in Int /\ m.R.h \in Int
                               /\ m.L.h < m.h /\ m.R.h < m.h
                               /\ ~IsNil(m.R) => Member(MinNode(m.R)) \in X
    <2>1. m.h \in Int /\ m.h >= -1 /\ m.h <= n.h /\ n.h \in Int
      BY <1>1, ClosedFacts
    <2>2. ASSUME ~IsNil(m)
          PROVE  /\ m.L \in N /\ m.R \in N /\ m.L.h \in Int /\ m.R.h \in Int
                 /\ m.L.h < m.h /\ m.R.h < m.h
      BY <1>1, <2>2, ClosedFacts
    <2>3. ASSUME ~IsNil(m), ~IsNil(m.R) PROVE Member(MinNode(m.R)) \in X
      <3>1. Good(m.R) /\ m.R # Nil /\ Members(m.R) \subseteq X
        BY <1>1, <2>2, <2>3, NilFacts
      <3> QED
        BY <3>1, MinNodeHolds
    <2> QED
      BY <2>1, <2>2, <2>3
  <1>3. ASSUME NEW g, NEW k \in Int, Done(g, k)
        PROVE  \E f : f = [m \in N |-> [x \in X |-> f[m][x]]] /\ Done(f, k + 1)
    <2> DEFINE f == [m \in N |-> [x \in X |-> DeleteStep(g, m, x)]]
    <2>1. ASSUME NEW m \in N, NEW x \in X, m.h < k PROVE f[m][x] = g[m][x]
      <3>1. f[m][x] = DeleteStep(g, m, x)
        OBVIOUS
      <3> QED
        BY <1>3, <2>1, <3>1
    <2>2. ASSUME NEW m \in N, NEW x \in X, m.h < k + 1 PROVE f[m][x] = DeleteStep(f, m, x)
      <3>2. f[m][x] = DeleteStep(g, m, x)
        OBVIOUS
      <3> HIDE DEF f
      <3>1. ~IsNil(m) => /\ f[m.L][x] = g[m.L][x] /\ f[m.R][x] = g[m.R][x]
                         /\ ~IsNil(m.R) => f[m.R][Member(MinNode(m.R))] = g[m.R][Member(MinNode(m.R))]
        <4>1. ~IsNil(m) => m.L \in N /\ m.R \in N /\ m.L.h < k /\ m.R.h < k
          BY <1>2, <2>2
        <4>2. ~IsNil(m) /\ ~IsNil(m.R) => Member(MinNode(m.R)) \in X
          BY <1>2
        <4> QED
          BY <2>1, <4>1, <4>2
      <3> QED
        BY <3>1, <3>2, DeleteStepSame
    <2>3. f = [m \in N |-> [x \in X |-> f[m][x]]]
      OBVIOUS
    <2> HIDE DEF f
    <2> QED
      BY <2>2, <2>3
  <1>4. 0 \in H
    <2> DEFINE g == [m \in N |-> [x \in X |-> 0]]
    <2>1. Done(g, -1)
      BY <1>2
    <2> HIDE DEF g, Done
    <2>2. PICK f : f = [m \in N |-> [x \in X |-> f[m][x]]] /\ Done(f, -1 + 1)
      BY <1>3, <2>1
    <2>3. -1 + 1 = 0
      OBVIOUS
    <2> QED
      BY <2>2, <2>3
  <1> HIDE DEF Done
  <1>5. ASSUME NEW k \in Nat, k \in H PROVE k + 1 \in H
    BY <1>3, <1>5
  <1> HIDE DEF H
  <1>6. Nat \subseteq H
    BY <1>4, <1>5, NatSetInduction
  <1>7. n.h + 1 \in Nat
    BY GoodFacts
  <1>8. PICK f : f = [m \in N |-> [x \in X |-> f[m][x]]] /\ Done(f, n.h + 1)
    BY <1>6, <1>7 DEF H
  <1>9. ASSUME NEW m \in N, NEW x \in X PROVE f[m][x] = DeleteStep(f, m, x)
    <2>1. m.h < n.h + 1
      BY <1>2
    <2> QED
      BY <1>8, <2>1 DEF Done
  <1>10. f = [m \in N |-> [x \in X |-> DeleteStep(f, m, x)]]
    BY <1>8, <1>9
  <1> QED
    BY <1>10 DEF N

\* T is the tree m without the member x.
Lacks(T, m, x) == Good(T) /\ Members(T) = Members(m) \ {x} /\ T.h \in {m.h - 1, m.h}

\* The node of the member itself is deleted.
LEMMA DeleteHere ==
  ASSUME NEW f, NEW m, Good(m), m # Nil, NEW x \in Members(m), x.id = m.id,
         ~IsNil(m.R) => Lacks(f[m.R][Member(MinNode(m.R))], m.R, Member(MinNode(m.R)))
  PROVE  Lacks(DeleteStep(f, m, x), m, x)
  <1> DEFINE i == m.id
             w == m.value
             l == m.L
             r == m.R
             T == DeleteStep(f, m, x)
  <1>1. /\ m = Mk(i, w, l, r) /\ w \in Nat /\ Good(l) /\ Good(r) /\ Sides(i, w, Members(l), Members(r))
        /\ Members(m) = {Entry(i, w)} \cup Members(l) \cup Members(r)
        /\ Numbers(Members(l)) /\ Numbers(Members(r))
        /\ m.h \in Nat /\ l.h \in Int /\ r.h \in Int /\ l.h >= -1 /\ r.h >= -1
        /\ m.h = Max({l.h, r.h}) + 1 /\ l.h < m.h /\ r.h < m.h /\ (m.h = l.h + 1 \/ m.h = r.h + 1)
    BY NodeParts
  <1>2. r.h - l.h \in -1 .. 1
    <2>1. m.bal = r.h - l.h /\ m.bal \in -1 .. 1
      BY NodeParts
    <2> QED
      BY <2>1
  <1>3. ~IsNil(m)
    BY GoodFacts
  <1>4. Members(m) \ {x} = Members(l) \cup Members(r)
    <2>1. x = Entry(i, w)
      BY <1>1 DEF Sides
    <2>2. x \notin Members(l) /\ x \notin Members(r)
      BY <1>1 DEF Sides
    <2> QED
      BY <1>1, <2>1, <2>2
  <1>5. CASE IsNil(l)
    <2>1. l.h = -1 /\ Members(l) = {}
      BY <1>1, <1>5, GoodFacts
    <2>2. T = r
      BY <1>3, <1>5 DEF DeleteStep
    <2>3. r.h = m.h - 1
      BY <1>1, <1>2, <2>1
    <2> HIDE DEF T
    <2> QED
      BY <1>1, <1>4, <2>1, <2>2, <2>3 DEF Lacks, T
  <1>6. CASE ~IsNil(l) /\ IsNil(r)
    <2>1. r.h = -1 /\ Members(r) = {}
      BY <1>1, <1>6, GoodFacts
    <2>2. T = l
      BY <1>3, <1>6 DEF DeleteStep
    <2>3. l.h = m.h - 1
      BY <1>1, <1>2, <2>1
    <2> HIDE DEF T
    <2> QED
      BY <1>1, <1>4, <2>1, <2>2, <2>3 DEF Lacks, T
  <1>7. CASE ~IsNil(l) /\ ~IsNil(r)
    <2> DEFINE heir == MinNode(r)
               y == Member(heir)
               z == f[r][y]
               M == Max({l.h, r.h})
    <2>1. r # Nil
      BY <1>7, NilFacts
    <2>2. y \in Members(r) /\ \A p \in Members(r) : y.value <= p.value
      BY <1>1, <2>1, MinNodeHolds
    <2>3. y = Entry(heir.id, heir.value) /\ y.id = heir.id /\ y.value = heir.value
      BY DEF Member, Entry
    <2>4. Good(z) /\ Members(z) = Members(r) \ {y} /\ z.h \in {r.h - 1, r.h}
      BY <1>7 DEF Lacks
    <2>5. T = Rebalance([m EXCEPT !.id = heir.id, !.value = heir.value, !.R = z])
      BY <1>3, <1>7 DEF DeleteStep
    <2>6. T = Rotate(Mk(heir.id, heir.value, l, z))
      <3>1. T = Rebalance(Heired(m, heir.id, heir.value, z)) /\ m = Mk(i, w, l, r)
        BY <1>1, <2>5 DEF Heired
      <3> HIDE DEF T, z, heir, i, w, l, r
      <3> QED
        BY <3>1, RebalanceHeir
    <2> HIDE DEF heir, y, z, T
    <2>7. y.value \in Nat /\ y.value >= w /\ y.id # i
      BY <1>1, <2>2 DEF Sides, Numbers
    <2>8. \A p, q \in Members(r) : p.id = q.id => p = q
      BY <1>1, OneNode
    <2>9. Apart(heir.id, heir.value, l, z)
      <3>1. ASSUME NEW p \in Members(l) PROVE p.value <= y.value /\ p.id # y.id
        <4>1. p.value <= w /\ p.value \in Nat /\ p.id # y.id
          BY <1>1, <2>2 DEF Sides, Numbers
        <4> QED
          BY <1>1, <2>7, <4>1
      <3>2. ASSUME NEW p \in Members(z) PROVE p.value >= y.value /\ p.id # y.id
        <4>1. p \in Members(r) /\ p # y
          BY <2>4
        <4>2. y.value <= p.value /\ p.value \in Nat /\ p.id # y.id
          BY <1>1, <2>2, <2>8, <4>1 DEF Numbers
        <4> QED
          BY <2>7, <4>2
      <3>3. \A p \in Members(l), q \in Members(z) : p.id # q.id
        BY <1>1, <2>4 DEF Sides
      <3> QED
        BY <2>3, <3>1, <3>2, <3>3 DEF Apart, Sides
    <2>10. z.h - r.h \in -1 .. 1 /\ z.h <= r.h
      BY <1>1, <2>4
    <2>11. Over(T, heir.id, heir.value, l, z) /\ T.h \in {M, M + 1}
      <3>1. heir.value \in Nat
        BY <2>3, <2>7
      <3> HIDE DEF l, r
      <3> QED
        BY <1>1, <1>2, <2>4, <2>6, <2>9, <2>10, <3>1, RefitRight
    <2>12. M \in Int
      BY <1>1, LargerOf
    <2>13. T.h \in {m.h - 1, m.h}
      BY <1>1, <2>11, <2>12
    <2>14. Good(T) /\ Members(T) = Members(l) \cup Members(r)
      BY <2>2, <2>3, <2>4, <2>11 DEF Over
    <2> QED
      BY <1>4, <2>13, <2>14 DEF Lacks, T
  <1> QED
    BY <1>5, <1>6, <1>7

\* The member is deleted on the side that has it.
LEMMA DeleteBelow ==
  ASSUME NEW f, NEW m, Good(m), m # Nil, NEW x \in Members(m), x.id # m.id,
         x \in Members(m.L) => Lacks(f[m.L][x], m.L, x),
         x \in Members(m.R) => Lacks(f[m.R][x], m.R, x),
         (\A p \in Members(m.L) : p.id # x.id) => f[m.L][x] = m.L
  PROVE  Lacks(DeleteStep(f, m, x), m, x)
  <1> DEFINE i == m.id
             w == m.value
             l == m.L
             r == m.R
             T == DeleteStep(f, m, x)
             M == Max({l.h, r.h})
  <1>1. /\ m = Mk(i, w, l, r) /\ w \in Nat /\ Good(l) /\ Good(r) /\ Sides(i, w, Members(l), Members(r))
        /\ Members(m) = {Entry(i, w)} \cup Members(l) \cup Members(r)
        /\ m.h \in Nat /\ l.h \in Int /\ r.h \in Int
        /\ m.h = Max({l.h, r.h}) + 1
    BY NodeParts
  <1>2. r.h - l.h \in -1 .. 1
    <2>1. m.bal = r.h - l.h /\ m.bal \in -1 .. 1
      BY NodeParts
    <2> QED
      BY <2>1
  <1>3. ~IsNil(m) /\ M \in Int
    BY <1>1, GoodFacts, LargerOf
  <1>4. Entry(i, w).id = i
    BY EntryFields
  <1>5. CASE x \in Members(l)
    <2> DEFINE z == f[l][x]
    <2>1. Good(z) /\ Members(z) = Members(l) \ {x} /\ z.h \in {l.h - 1, l.h}
      BY <1>5 DEF Lacks
    <2>2. z # l
      BY <1>5, <2>1
    <2>3. SearchesLeft(m, x.value)
      BY <1>1, <1>5 DEF Sides, SearchesLeft
    <2>4. T = Rebalance([m EXCEPT !.L = z])
      BY <1>3, <2>2, <2>3 DEF DeleteStep
    <2> HIDE DEF T, z, i, w, l, r
    <2>5. T = Rotate(Mk(i, w, z, r))
      BY <1>1, <2>4, RebalanceLeft
    <2>6. Apart(i, w, z, r)
      BY <1>1, <2>1 DEF Apart, Sides
    <2>7. z.h - l.h \in -1 .. 1 /\ z.h <= l.h
      BY <1>1, <2>1
    <2>8. Over(T, i, w, z, r) /\ T.h \in {M, M + 1}
      BY <1>1, <1>2, <2>1, <2>5, <2>6, <2>7, RefitLeft
    <2>9. T.h \in {m.h - 1, m.h}
      BY <1>1, <1>3, <2>8
    <2>10. x # Entry(i, w) /\ x \notin Members(r)
      <3>1. x.id # i
        BY DEF i
      <3> QED
        BY <1>1, <1>4, <1>5, <3>1 DEF Sides
    <2>11. Good(T) /\ Members(T) = Members(m) \ {x}
      BY <1>1, <2>1, <2>8, <2>10 DEF Over
    <2> QED
      BY <2>9, <2>11 DEF Lacks, T
  <1>6. CASE x \in Members(r)
    <2> DEFINE z == f[r][x]
    <2>1. Good(z) /\ Members(z) = Members(r) \ {x} /\ z.h \in {r.h - 1, r.h}
      BY <1>6 DEF Lacks
    <2>2. z # r
      BY <1>6, <2>1
    <2>3. SearchesRight(m, x.value)
      BY <1>1, <1>6 DEF Sides, SearchesRight
    <2>4. f[l][x] = l
      BY <1>1, <1>6 DEF Sides
    <2>5. T = Rebalance([m EXCEPT !.R = z])
      BY <1>3, <2>2, <2>3, <2>4 DEF DeleteStep
    <2>6. x.id # i /\ x \notin Members(l)
      BY <1>1, <1>6 DEF Sides
    <2> HIDE DEF T, z, i, w, l, r
    <2>7. T = Rotate(Mk(i, w, l, z))
      BY <1>1, <2>5, RebalanceRight
    <2>8. Apart(i, w, l, z)
      BY <1>1, <2>1 DEF Apart, Sides
    <2>9. z.h - r.h \in -1 .. 1 /\ z.h <= r.h
      BY <1>1, <2>1
    <2>10. Over(T, i, w, l, z) /\ T.h \in {M, M + 1}
      BY <1>1, <1>2, <2>1, <2>7, <2>8, <2>9, RefitRight
    <2>11. T.h \in {m.h - 1, m.h}
      BY <1>1, <1>3, <2>10
    <2>12. Good(T) /\ Members(T) = Members(m) \ {x}
      BY <1>1, <1>4, <2>1, <2>6, <2>10 DEF Over
    <2> QED
      BY <2>11, <2>12 DEF Lacks, T
  <1> QED
    BY <1>1, <1>4, <1>5, <1>6

\* A member is deleted: a balanced tree without it.  Deleting another changes nothing.
LEMMA DeleteHolds ==
  ASSUME NEW n, Good(n), NEW id, NEW v
  PROVE  /\ Entry(id, v) \in Members(n) => /\ Good(Delete(n, id, v))
                                           /\ Members(Delete(n, id, v)) = Members(n) \ {Entry(id, v)}
         /\ (\A p \in Members(n) : p.id # id) => Delete(n, id, v) = n
  <1> DEFINE N == NodesOf(n)
             X == Members(n) \cup {Entry(id, v)}
             f == CHOOSE f : f = [m \in N |-> [x \in X |-> DeleteStep(f, m, x)]]
             Without(m, x) == \A p \in Members(m) : p.id # x.id
             Fine(m, x) == /\ x \in Members(m) => Lacks(f[m][x], m, x)
                           /\ Without(m, x) => f[m][x] = m
             G == {m \in N : \A x \in X : Fine(m, x)}
  <1>1. Delete(n, id, v) = f[n][Entry(id, v)]
    BY DEF Delete, DeleteStep, Entry
  <1>2. f = [m \in N |-> [x \in X |-> DeleteStep(f, m, x)]]
    <2>1. Members(n) \subseteq X
      OBVIOUS
    <2> HIDE DEF X
    <2>2. \E g : g = [m \in N |-> [x \in X |-> DeleteStep(g, m, x)]]
      BY <2>1, DeleteExists
    <2> QED
      BY <2>2
  <1> HIDE DEF f
  <1>3. n \in N /\ Closed(N) /\ \A m \in N : Good(m) /\ Members(m) \subseteq X
    BY NodesClosed
  <1>4. ASSUME NEW m \in N, NEW x \in X PROVE f[m][x] = DeleteStep(f, m, x)
    <2>1. f[m] = [y \in X |-> DeleteStep(f, m, y)]
      BY <1>2
    <2> QED
      BY <2>1
  <1> HIDE DEF N, X
  <1>5. ASSUME NEW m \in N, m # Nil => m.L \in G /\ m.R \in G PROVE m \in G
    <2> SUFFICES ASSUME NEW x \in X PROVE Fine(m, x)
      OBVIOUS
    <2>1. Good(m) /\ f[m][x] = DeleteStep(f, m, x)
      BY <1>3, <1>4
    <2>2. CASE m = Nil
      <3>1. f[m][x] = m /\ Members(m) = {}
        BY <2>1, <2>2, NilFacts, GoodNil DEF DeleteStep
      <3> QED
        BY <3>1
    <2>3. CASE m # Nil
      <3>1. m.L \in G /\ m.R \in G /\ ~IsNil(m)
        BY <1>5, <2>1, <2>3, GoodFacts
      <3>2. Fine(m.L, x) /\ Fine(m.R, x)
        BY <3>1
      <3>3. /\ Good(m.R) /\ Members(m) = {Entry(m.id, m.value)} \cup Members(m.L) \cup Members(m.R)
        BY <2>1, <2>3, NodeParts
      <3>4. ASSUME ~IsNil(m.R) PROVE Lacks(f[m.R][Member(MinNode(m.R))], m.R, Member(MinNode(m.R)))
        <4> DEFINE y == Member(MinNode(m.R))
        <4>1. m.R # Nil
          BY <3>4, NilFacts
        <4>2. y \in Members(m.R)
          BY <3>3, <4>1, MinNodeHolds
        <4>3. y \in X
          BY <1>3, <3>3, <4>2
        <4>4. Fine(m.R, y)
          BY <3>1, <4>3
        <4> HIDE DEF y
        <4>5. Lacks(f[m.R][y], m.R, y)
          BY <4>2, <4>4
        <4> QED
          BY <4>5 DEF y
      <3>5. ASSUME x \in Members(m) PROVE Lacks(f[m][x], m, x)
        <4>1. CASE x.id = m.id
          BY <2>1, <2>3, <3>4, <3>5, <4>1, DeleteHere
        <4>2. CASE x.id # m.id
          BY <2>1, <2>3, <3>2, <3>5, <4>2, DeleteBelow
        <4> QED
          BY <4>1, <4>2
      <3>6. ASSUME Without(m, x) PROVE f[m][x] = m
        <4>1. m.id # x.id /\ Without(m.L, x) /\ Without(m.R, x)
          <5>1. Entry(m.id, m.value) \in Members(m) /\ Entry(m.id, m.value).id = m.id
            BY <3>3, EntryFields
          <5> QED
            BY <3>3, <3>6, <5>1
        <4>2. f[m.L][x] = m.L /\ f[m.R][x] = m.R
          BY <3>2, <4>1
        <4> QED
          BY <2>1, <3>1, <4>1, <4>2 DEF DeleteStep
      <3> QED
        BY <3>5, <3>6
    <2> QED
      BY <2>2, <2>3
  <1> HIDE DEF G
  <1>6. N \subseteq G
    BY <1>3, <1>5, TreeInduction
  <1>7. Fine(n, Entry(id, v))
    BY <1>3, <1>6 DEF G, X
  <1> QED
    BY <1>1, <1>7, EntryFields DEF Lacks

-----------------------------------------------------------------------------
(* What a tree caches.  *)

\* The members of a tree, by identity.
IdsOf(n) == {p.id : p \in Members(n)}

\* The pairs of a node are its own and those of its sides, each once.
LEMMA ValuesSplit ==
  ASSUME NEW n, Good(n), n # Nil
  PROVE  /\ ValuesOf(n) = {<<n.id, n.value>>} \cup ValuesOf(n.L) \cup ValuesOf(n.R)
         /\ IdsOf(n) = {n.id} \cup IdsOf(n.L) \cup IdsOf(n.R)
         /\ n.id \notin IdsOf(n.L) /\ n.id \notin IdsOf(n.R) /\ IdsOf(n.L) \cap IdsOf(n.R) = {}
         /\ <<n.id, n.value>> \notin ValuesOf(n.L) /\ <<n.id, n.value>> \notin ValuesOf(n.R)
         /\ ValuesOf(n.L) \cap ValuesOf(n.R) = {}
         /\ \A p \in ValuesOf(n.L) : p[2] \in Nat /\ p[2] <= n.value
         /\ \A p \in ValuesOf(n.R) : p[2] \in Nat /\ p[2] >= n.value
  <1>1. /\ n.value \in Nat /\ Sides(n.id, n.value, Members(n.L), Members(n.R))
        /\ Members(n) = {Entry(n.id, n.value)} \cup Members(n.L) \cup Members(n.R)
        /\ Numbers(Members(n.L)) /\ Numbers(Members(n.R))
    BY NodeParts
  <1>2. Entry(n.id, n.value).id = n.id /\ Entry(n.id, n.value).value = n.value
    BY EntryFields
  <1>3. ValuesOf(n) = {<<n.id, n.value>>} \cup ValuesOf(n.L) \cup ValuesOf(n.R)
    BY <1>1, <1>2 DEF ValuesOf
  <1>4. IdsOf(n) = {n.id} \cup IdsOf(n.L) \cup IdsOf(n.R)
    BY <1>1, <1>2 DEF IdsOf
  <1>5. n.id \notin IdsOf(n.L) /\ n.id \notin IdsOf(n.R) /\ IdsOf(n.L) \cap IdsOf(n.R) = {}
    BY <1>1 DEF IdsOf, Sides
  <1>6. ASSUME NEW m PROVE \A p \in ValuesOf(m) : p[1] \in IdsOf(m)
    BY DEF ValuesOf, IdsOf
  <1>7. <<n.id, n.value>> \notin ValuesOf(n.L) /\ <<n.id, n.value>> \notin ValuesOf(n.R)
    BY <1>5, <1>6
  <1>8. ValuesOf(n.L) \cap ValuesOf(n.R) = {}
    BY <1>5, <1>6
  <1>9. \A p \in ValuesOf(n.L) : p[2] \in Nat /\ p[2] <= n.value
    BY <1>1 DEF ValuesOf, Sides, Numbers
  <1>10. \A p \in ValuesOf(n.R) : p[2] \in Nat /\ p[2] >= n.value
    BY <1>1 DEF ValuesOf, Sides, Numbers
  <1> QED
    BY <1>3, <1>4, <1>5, <1>7, <1>8, <1>9, <1>10

\* Counting a node and its two sides.
LEMMA DisjointCount ==
  ASSUME NEW x, NEW A, NEW B, IsFiniteSet(A), IsFiniteSet(B), x \notin A, x \notin B, A \cap B = {}
  PROVE  /\ IsFiniteSet({x} \cup A \cup B)
         /\ Cardinality({x} \cup A \cup B) = 1 + Cardinality(A) + Cardinality(B)
         /\ Cardinality(A) \in Nat /\ Cardinality(B) \in Nat
  <1>1. IsFiniteSet(A \cup B) /\ Cardinality(A \cup B) = Cardinality(A) + Cardinality(B) - Cardinality(A \cap B)
    BY FS_Union
  <1>2. Cardinality(A \cap B) = 0
    BY FS_EmptySet
  <1>3. Cardinality(A) \in Nat /\ Cardinality(B) \in Nat
    BY FS_CardinalityType
  <1>4. x \notin A \cup B /\ {x} \cup A \cup B = (A \cup B) \cup {x}
    OBVIOUS
  <1>5. /\ IsFiniteSet((A \cup B) \cup {x}) /\ Cardinality((A \cup B) \cup {x}) = Cardinality(A \cup B) + 1
    <2> DEFINE C == A \cup B
    <2>1. IsFiniteSet(C) /\ x \notin C
      BY <1>1, <1>4
    <2> HIDE DEF C
    <2>2. IsFiniteSet(C \cup {x}) /\ Cardinality(C \cup {x}) = Cardinality(C) + 1
      BY <2>1, FS_AddElement
    <2> QED
      BY <2>2 DEF C
  <1> QED
    BY <1>1, <1>2, <1>3, <1>4, <1>5

\* The sum and the count that a node caches.
LEMMA MkCaches ==
  ASSUME NEW m, NEW i, NEW v, NEW l, NEW r, m = Mk(i, v, l, r)
  PROVE  m.sum = v + l.sum + r.sum /\ m.count = 1 + l.count + r.count
  <1>1. Mk(i, v, l, r).sum = v + l.sum + r.sum /\ Mk(i, v, l, r).count = 1 + l.count + r.count
    BY DEF Mk
  <1> QED
    BY <1>1, Zenon

\* A node counts and sums up its subtree.
LEMMA NodeCounts ==
  ASSUME NEW n, Good(n), NEW val, \A p \in ValuesOf(n) : val[p] = p[2]
  PROVE  /\ IsFiniteSet(ValuesOf(n)) /\ n.count = Cardinality(ValuesOf(n))
         /\ n.sum = SumOver(ValuesOf(n), val)
         /\ IsFiniteSet(IdsOf(n)) /\ n.count = Cardinality(IdsOf(n))
         /\ \A p \in ValuesOf(n) : p[2] \in Nat
  <1> DEFINE N == NodesOf(n)
             Cached(m) == /\ IsFiniteSet(ValuesOf(m)) /\ m.count = Cardinality(ValuesOf(m))
                         /\ m.sum = SumOver(ValuesOf(m), val)
                         /\ IsFiniteSet(IdsOf(m)) /\ m.count = Cardinality(IdsOf(m))
                         /\ \A p \in ValuesOf(m) : p[2] \in Nat
             G == {m \in N : Cached(m)}
  <1>1. n \in N /\ Closed(N) /\ \A m \in N : Good(m) /\ Members(m) \subseteq Members(n)
    BY NodesClosed
  <1> HIDE DEF N
  <1>2. ASSUME NEW m \in N PROVE \A p \in ValuesOf(m) : val[p] = p[2]
    BY <1>1 DEF ValuesOf
  <1>3. ASSUME NEW m \in N, m # Nil => m.L \in G /\ m.R \in G PROVE m \in G
    <2>1. Good(m)
      BY <1>1
    <2>2. CASE m = Nil
      <3>1. Members(m) = {} /\ m.count = 0 /\ m.sum = 0
        BY <2>2, GoodNil, NilFacts
      <3>2. ValuesOf(m) = {} /\ IdsOf(m) = {}
        BY <3>1 DEF ValuesOf, IdsOf
      <3> QED
        BY <3>1, <3>2, FS_EmptySet, SumEmpty
    <2>3. CASE m # Nil
      <3> DEFINE p == <<m.id, m.value>>
                 A == ValuesOf(m.L)
                 B == ValuesOf(m.R)
                 C == IdsOf(m.L)
                 D == IdsOf(m.R)
      <3>1. Cached(m.L) /\ Cached(m.R)
        BY <1>3, <2>3
      <3>2. /\ ValuesOf(m) = {p} \cup A \cup B /\ IdsOf(m) = {m.id} \cup C \cup D
            /\ m.id \notin C /\ m.id \notin D /\ C \cap D = {}
            /\ p \notin A /\ p \notin B /\ A \cap B = {}
        BY <2>1, <2>3, ValuesSplit
      <3>3. m.sum = m.value + m.L.sum + m.R.sum /\ m.count = 1 + m.L.count + m.R.count /\ m.value \in Nat
        <4>1. m = Mk(m.id, m.value, m.L, m.R) /\ m.value \in Nat
          BY <2>1, <2>3, NodeParts
        <4>2. m.sum = m.value + m.L.sum + m.R.sum /\ m.count = 1 + m.L.count + m.R.count
          BY <4>1, MkCaches
        <4> QED
          BY <4>1, <4>2
      <3>4. p[2] = m.value
        OBVIOUS
      <3>5. val[p] = m.value /\ \A x \in A \cup B : val[x] = x[2]
        BY <1>2, <3>2, <3>4
      <3>6. /\ IsFiniteSet(A) /\ IsFiniteSet(B) /\ IsFiniteSet(C) /\ IsFiniteSet(D)
            /\ m.L.count = Cardinality(A) /\ m.R.count = Cardinality(B)
            /\ m.L.count = Cardinality(C) /\ m.R.count = Cardinality(D)
            /\ m.L.sum = SumOver(A, val) /\ m.R.sum = SumOver(B, val)
            /\ (\A x \in A : x[2] \in Nat) /\ (\A x \in B : x[2] \in Nat)
        BY <3>1
      <3> HIDE DEF A, B, C, D, p
      <3>7. IsFiniteSet(ValuesOf(m)) /\ m.count = Cardinality(ValuesOf(m))
        <4>0. IsFiniteSet(A) /\ IsFiniteSet(B) /\ p \notin A /\ p \notin B /\ A \cap B = {}
          BY <3>2, <3>6
        <4>1. IsFiniteSet({p} \cup A \cup B) /\ Cardinality({p} \cup A \cup B) = 1 + Cardinality(A) + Cardinality(B)
          BY <4>0, DisjointCount
        <4> QED
          BY <3>2, <3>3, <3>6, <4>1
      <3>8. IsFiniteSet(IdsOf(m)) /\ m.count = Cardinality(IdsOf(m))
        <4>1. IsFiniteSet({m.id} \cup C \cup D) /\ Cardinality({m.id} \cup C \cup D) = 1 + Cardinality(C) + Cardinality(D)
          BY <3>2, <3>6, DisjointCount
        <4> QED
          BY <3>2, <3>3, <3>6, <4>1
      <3>9. m.sum = SumOver(ValuesOf(m), val)
        <4>1. SumOver(A \cup B, val) = SumOver(A, val) + SumOver(B, val)
          BY <3>2, <3>5, <3>6, SumUnion
        <4> DEFINE Q == A \cup B
        <4>2. IsFiniteSet(Q) /\ p \notin Q /\ (\A x \in Q : val[x] \in Int) /\ val[p] \in Int
          <5>1. IsFiniteSet(Q)
            BY <3>6, FS_Union
          <5>2. \A x \in Q : val[x] \in Int
            BY <3>5, <3>6
          <5> QED
            BY <3>2, <3>3, <3>5, <5>1, <5>2
        <4>3. ValuesOf(m) = Q \cup {p}
          BY <3>2
        <4>4. SumOver(A, val) \in Int /\ SumOver(B, val) \in Int
          BY <3>5, <3>6, SumInt
        <4> HIDE DEF Q
        <4>5. SumOver(Q \cup {p}, val) = SumOver(Q, val) + val[p]
          BY <4>2, SumAdd
        <4>6. SumOver(Q, val) = SumOver(A, val) + SumOver(B, val)
          BY <4>1 DEF Q
        <4> QED
          BY <3>3, <3>5, <3>6, <4>3, <4>4, <4>5, <4>6
      <3>10. \A x \in ValuesOf(m) : x[2] \in Nat
        BY <3>2, <3>3, <3>4, <3>6
      <3> QED
        BY <3>7, <3>8, <3>9, <3>10
    <2> QED
      BY <2>2, <2>3
  <1> HIDE DEF G
  <1>4. N \subseteq G
    BY <1>1, <1>3, TreeInduction
  <1>5. Cached(n)
    BY <1>1, <1>4 DEF G
  <1> QED
    BY <1>5

-----------------------------------------------------------------------------
(* The tree and its references.  *)

\* The members that references record.
Recorded(refs) == {Entry(i, refs[i]) : i \in DOMAIN refs}

\* The nodes hold what the references say.
Tidy(a) == Good(a.root) /\ Members(a.root) = Recorded(a.refs)

\* References with one more, or one replaced.
With(refs, id, v) == [i \in DOMAIN refs \cup {id} |-> IF i = id THEN v ELSE refs[i]]

\* The empty tree and its references.
LEMMA NoTreeTidy == Tidy(NoTree) /\ NoTree.refs = [i \in {} |-> 0]
  <1>1. NoTree.root = Nil /\ NoTree.refs = <<>> /\ DOMAIN <<>> = {}
    BY DEF NoTree
  <1>2. Recorded(<<>>) = {}
    BY <1>1 DEF Recorded
  <1> QED
    BY <1>1, <1>2, GoodNil DEF Tidy

\* AddMember, DeleteMember and Replace keep the nodes and the references together.
LEMMA AddTidy ==
  ASSUME NEW a, Tidy(a), NEW id, NEW v \in Nat, id \notin DOMAIN a.refs
  PROVE  Tidy(AddMember(a, id, v)) /\ AddMember(a, id, v).refs = With(a.refs, id, v)
  <1> DEFINE b == AddMember(a, id, v)
  <1>1. b.root = Insert(a.root, id, v) /\ b.refs = With(a.refs, id, v)
    BY DEF AddMember, With
  <1>2. \A p \in Members(a.root) : p.id # id
    BY EntryFields DEF Tidy, Recorded
  <1>3. Good(b.root) /\ Members(b.root) = Members(a.root) \cup {Entry(id, v)}
    BY <1>1, <1>2, InsertHolds DEF Tidy
  <1>4. Recorded(With(a.refs, id, v)) = Recorded(a.refs) \cup {Entry(id, v)}
    BY DEF Recorded, With
  <1> HIDE DEF b
  <1>5. Tidy(b)
    BY <1>1, <1>3, <1>4 DEF Tidy
  <1> QED
    BY <1>1, <1>5 DEF b

LEMMA DeleteTidy ==
  ASSUME NEW a, Tidy(a), NEW id
  PROVE  /\ Tidy(DeleteMember(a, id)) /\ DOMAIN DeleteMember(a, id).refs = DOMAIN a.refs \ {id}
         /\ \A i \in DOMAIN a.refs \ {id} : DeleteMember(a, id).refs[i] = a.refs[i]
         /\ id \in DOMAIN a.refs => DeleteMember(a, id).refs = [i \in DOMAIN a.refs \ {id} |-> a.refs[i]]
         /\ id \notin DOMAIN a.refs => DeleteMember(a, id) = a
  <1> DEFINE b == DeleteMember(a, id)
             v == a.refs[id]
             rest == [i \in DOMAIN a.refs \ {id} |-> a.refs[i]]
  <1>1. CASE id \notin DOMAIN a.refs
    <2>1. b = a
      BY <1>1 DEF DeleteMember
    <2> HIDE DEF b
    <2> QED
      BY <1>1, <2>1 DEF b
  <1>2. CASE id \in DOMAIN a.refs
    <2>1. Entry(id, v) \in Members(a.root)
      BY <1>2 DEF Tidy, Recorded
    <2>2. Good(Delete(a.root, id, v)) /\ Members(Delete(a.root, id, v)) = Members(a.root) \ {Entry(id, v)}
      BY <2>1, DeleteHolds DEF Tidy
    <2>3. Delete(a.root, id, v) # a.root
      BY <2>1, <2>2
    <2>4. b.root = Delete(a.root, id, v) /\ b.refs = rest
      BY <1>2, <2>3 DEF DeleteMember
    <2>5. Recorded(rest) = Recorded(a.refs) \ {Entry(id, v)}
      <3>1. \A i \in DOMAIN a.refs : Entry(i, a.refs[i]) = Entry(id, v) => i = id
        BY EntryFields
      <3>2. DOMAIN rest = DOMAIN a.refs \ {id} /\ \A i \in DOMAIN a.refs \ {id} : rest[i] = a.refs[i]
        OBVIOUS
      <3> HIDE DEF rest
      <3> QED
        BY <3>1, <3>2 DEF Recorded
    <2>6. DOMAIN rest = DOMAIN a.refs \ {id} /\ \A i \in DOMAIN a.refs \ {id} : rest[i] = a.refs[i]
      OBVIOUS
    <2> HIDE DEF b, rest
    <2>7. Tidy(b)
      BY <2>2, <2>4, <2>5 DEF Tidy
    <2> QED
      BY <1>2, <2>4, <2>6, <2>7 DEF b, rest
  <1> QED
    BY <1>1, <1>2

LEMMA ReplaceTidy ==
  ASSUME NEW a, Tidy(a), NEW id, NEW v \in Nat
  PROVE  Tidy(Replace(a, id, v)) /\ Replace(a, id, v).refs = With(a.refs, id, v)
  <1> DEFINE b == DeleteMember(a, id)
  <1>1. /\ Tidy(b) /\ DOMAIN b.refs = DOMAIN a.refs \ {id}
        /\ \A i \in DOMAIN a.refs \ {id} : b.refs[i] = a.refs[i]
    BY DeleteTidy
  <1>2. Replace(a, id, v) = AddMember(b, id, v)
    BY DEF Replace
  <1> HIDE DEF b
  <1>3. Tidy(AddMember(b, id, v)) /\ AddMember(b, id, v).refs = With(b.refs, id, v)
    BY <1>1, AddTidy
  <1>4. With(b.refs, id, v) = With(a.refs, id, v)
    BY <1>1 DEF With
  <1> QED
    BY <1>2, <1>3, <1>4

\* A node that caches what its children are is not changed by recompute.
LEMMA RecomputeMk == ASSUME NEW i, NEW v, NEW l, NEW r PROVE Recompute(Mk(i, v, l, r)) = Mk(i, v, l, r)
  BY MkIsRec, RecomputeRec

\* A tidy tree is sound.
LEMMA TidySound ==
  ASSUME NEW a, Tidy(a)
  PROVE  Sound(a) /\ ValuesOf(a.root) = {<<i, a.refs[i]>> : i \in DOMAIN a.refs}
  <1> DEFINE n == a.root
             V == ValuesOf(n)
  <1>1. Good(n) /\ Members(n) = Recorded(a.refs)
    BY DEF Tidy
  <1>2. V = {<<i, a.refs[i]>> : i \in DOMAIN a.refs}
    BY <1>1, EntryFields DEF ValuesOf, Recorded
  <1>3. IdsOf(n) = DOMAIN a.refs
    BY <1>1, EntryFields DEF IdsOf, Recorded
  <1>4. n.count = Cardinality(IdsOf(n))
    <2> DEFINE val == [p \in V |-> p[2]]
    <2>1. \A p \in V : val[p] = p[2]
      OBVIOUS
    <2> HIDE DEF val
    <2> QED
      BY <1>1, <2>1, NodeCounts
  <1>5. ASSUME NEW m \in Inner(n)
        PROVE  /\ Recompute(m) = m /\ m.bal \in -1 .. 1
               /\ \A p \in Members(m.L) : p.value <= m.value
               /\ \A p \in Members(m.R) : p.value >= m.value
    <2>1. Good(m) /\ m # Nil
      BY <1>1, NodesClosed, NilFacts DEF Inner
    <2>2. m = Mk(m.id, m.value, m.L, m.R) /\ m.bal \in -1 .. 1 /\ Sides(m.id, m.value, Members(m.L), Members(m.R))
      BY <2>1, NodeParts
    <2>3. Recompute(m) = m
      BY <2>2, RecomputeMk
    <2> QED
      BY <2>2, <2>3 DEF Sides
  <1>6. Balanced(n)
    BY <1>5 DEF Balanced
  <1> HIDE DEF n
  <1> QED
    BY <1>2, <1>3, <1>4, <1>6 DEF Sound, n

-----------------------------------------------------------------------------
(* The fair level.  *)

\* Facts of division and multiplication.
LEMMA Division ==
  ASSUME NEW a \in Nat, NEW g \in Nat \ {0}
  PROVE  a \div g \in Nat /\ (a \div g) * g <= a /\ a < (a \div g) * g + g
  OBVIOUS

LEMMA Scale ==
  ASSUME NEW x \in Int, NEW y \in Int, NEW g \in Nat \ {0}
  PROVE  /\ x \in Int /\ x * g \in Int
         /\ x <= y => x * g <= y * g
         /\ x + 1 <= y => x * g + g <= y * g
  <1>1. x * g \in Int /\ y * g \in Int /\ (y - x) * g = y * g - x * g
    OBVIOUS
  <1>2. \A n \in Nat : n * g >= 0 /\ (n >= 1 => n * g >= g)
    OBVIOUS
  <1> QED
    BY <1>1, <1>2

\* The largest number of a finite set.
LEMMA LargestIn ==
  ASSUME NEW S, IsFiniteSet(S), S # {}, \A x \in S : x \in Nat
  PROVE  Max(S) \in S /\ Max(S) \in Nat /\ \A y \in S : y <= Max(S)
  <1> DEFINE G == {T \in SUBSET S : T # {} => \E x \in T : \A y \in T : x >= y}
  <1>1. ASSUME NEW T \in SUBSET S, \A U \in SUBSET T : U # T => U \in G PROVE T \in G
    <2> SUFFICES ASSUME T # {} PROVE \E x \in T : \A y \in T : x >= y
      OBVIOUS
    <2>1. PICK a \in T : TRUE
      OBVIOUS
    <2> DEFINE U == T \ {a}
    <2>2. CASE U = {}
      BY <2>1, <2>2
    <2>3. CASE U # {}
      <3>0. U \in SUBSET T /\ U # T /\ U \in G
        BY <1>1, <2>1
      <3>1. PICK x \in U : \A y \in U : x >= y
        BY <2>3, <3>0
      <3>2. x \in Nat /\ a \in Nat /\ \A y \in U : y \in Nat
        OBVIOUS
      <3>3. CASE x >= a
        BY <3>1, <3>3
      <3>4. CASE a > x
        BY <2>1, <3>1, <3>2, <3>4
      <3> QED
        BY <3>2, <3>3, <3>4
    <2> QED
      BY <2>2, <2>3
  <1>2. SUBSET S \subseteq G
    <2> HIDE DEF G
    <2> QED
      BY <1>1, SubsetInduction
  <1>3. \E x \in S : \A y \in S : x >= y
    BY <1>2
  <1>4. Max(S) \in S /\ \A y \in S : Max(S) >= y
    BY <1>3 DEF Max
  <1> QED
    BY <1>4

\* What a level hands out to each pair.
Parts(V, x) == [p \in V |-> Min({p[2], x})]

\* What a level hands out, as a sum of parts.
LEMMA HandedOutIs == ASSUME NEW V, NEW x PROVE HandedOut(V, x) = SumOver(V, Parts(V, x))
  BY DEF HandedOut, Total, SumOver, Parts

LEMMA PartIs ==
  ASSUME NEW V, NEW x \in Nat, NEW p \in V, p[2] \in Nat
  PROVE  /\ Parts(V, x)[p] \in Nat
         /\ p[2] <= x => Parts(V, x)[p] = p[2]
         /\ x <= p[2] => Parts(V, x)[p] = x
  <1>1. Parts(V, x)[p] = Min({p[2], x})
    BY DEF Parts
  <1>2. /\ Min({p[2], x}) \in {p[2], x} /\ Min({p[2], x}) <= p[2] /\ Min({p[2], x}) <= x
    <2>1. p[2] \in Int /\ x \in Int
      OBVIOUS
    <2> QED
      BY <2>1, SmallerOf
  <1> QED
    BY <1>1, <1>2

\* A level between the small pairs and the large ones.
LEMMA HandedOutSplit ==
  ASSUME NEW V, NEW A, NEW C, IsFiniteSet(A), IsFiniteSet(C), V = A \cup C, A \cap C = {},
         \A p \in V : p[2] \in Nat, NEW val, \A p \in V : val[p] = p[2],
         NEW x \in Nat, \A p \in A : p[2] <= x, \A p \in C : x <= p[2]
  PROVE  HandedOut(V, x) = SumOver(A, val) + Cardinality(C) * x
  <1> DEFINE f == Parts(V, x)
  <1>1. HandedOut(V, x) = SumOver(A \cup C, f)
    BY HandedOutIs
  <1>2. \A p \in A : val[p] \in Int /\ f[p] = val[p]
    BY PartIs
  <1>3. \A p \in C : f[p] = x
    BY PartIs
  <1> HIDE DEF f
  <1>4. SumOver(A \cup C, f) = SumOver(A, f) + SumOver(C, f)
    BY <1>2, <1>3, SumUnion
  <1>5. SumOver(A, f) = SumOver(A, val)
    BY <1>2, SumSame
  <1>6. SumOver(C, f) = Cardinality(C) * x
    BY <1>3, SumConstant
  <1> QED
    BY <1>1, <1>4, <1>5, <1>6

\* A higher level hands out more.
LEMMA HandedOutMore ==
  ASSUME NEW V, IsFiniteSet(V), \A p \in V : p[2] \in Nat, NEW x \in Nat, NEW y \in Nat, x <= y
  PROVE  /\ HandedOut(V, x) \in Int /\ HandedOut(V, y) \in Int /\ HandedOut(V, x) <= HandedOut(V, y)
         /\ x < y /\ (\E p \in V : x < p[2]) => HandedOut(V, x) < HandedOut(V, y)
  <1> DEFINE f == Parts(V, x)
             g == Parts(V, y)
  <1>1. HandedOut(V, x) = SumOver(V, f) /\ HandedOut(V, y) = SumOver(V, g)
    BY HandedOutIs
  <1>2. ASSUME NEW p \in V
        PROVE  f[p] \in Int /\ g[p] \in Int /\ f[p] <= g[p] /\ (x < y /\ x < p[2] => f[p] < g[p])
    <2>1. p[2] \in Nat
      OBVIOUS
    <2>2. f[p] \in Nat /\ (p[2] <= x => f[p] = p[2]) /\ (x <= p[2] => f[p] = x)
      BY <2>1, PartIs
    <2>3. g[p] \in Nat /\ (p[2] <= y => g[p] = p[2]) /\ (y <= p[2] => g[p] = y)
      BY <2>1, PartIs
    <2> HIDE DEF f, g
    <2> QED
      BY <2>1, <2>2, <2>3
  <1> HIDE DEF f, g
  <1>3. /\ SumOver(V, f) \in Int /\ SumOver(V, g) \in Int /\ SumOver(V, f) <= SumOver(V, g)
        /\ (\E p \in V : f[p] < g[p]) => SumOver(V, f) < SumOver(V, g)
    BY <1>2, SumLarger
  <1> QED
    BY <1>1, <1>2, <1>3

\* How a fair level is recognised.
LEMMA FairLevelIs ==
  ASSUME NEW V, IsFiniteSet(V), V # {}, \A p \in V : p[2] \in Nat, NEW cap \in Nat, NEW q \in Nat,
         HandedOut(V, q) <= cap, \E p \in V : q <= p[2],
         (\A p \in V : p[2] <= q) \/ HandedOut(V, q + 1) > cap
  PROVE  FairLevel(V, cap) = q
  <1> DEFINE W == {p[2] : p \in V}
             M == Max(W)
             F == {x \in 0 .. M : HandedOut(V, x) <= cap}
  <1>1. IsFiniteSet(W) /\ W # {} /\ \A x \in W : x \in Nat
    <2>1. IsFiniteSet({p[2] : p \in V})
      <3> DEFINE b == [p \in V |-> p[2]]
      <3>1. b \in Surjection(V, W)
        BY DEF Surjection
      <3> HIDE DEF b
      <3> QED
        BY <3>1, FS_Surjection
    <2> QED
      BY <2>1
  <1>2. M \in W /\ M \in Nat /\ \A y \in W : y <= M
    <2> HIDE DEF W
    <2> QED
      BY <1>1, LargestIn
  <1>3. \A p \in V : p[2] <= M
    BY <1>2
  <1>4. q \in F
    <2>1. PICK p \in V : q <= p[2]
      OBVIOUS
    <2>2. q <= M
      BY <1>2, <1>3, <2>1
    <2> QED
      BY <1>2, <2>2
  <1>5. ASSUME NEW x \in F PROVE q >= x
    <2> SUFFICES ASSUME x > q PROVE FALSE
      BY <1>2
    <2>1. x \in Nat /\ x <= M /\ HandedOut(V, x) <= cap
      BY <1>2
    <2>2. ~(\A p \in V : p[2] <= q)
      BY <1>2, <2>1
    <2>3. HandedOut(V, q + 1) > cap
      BY <2>2
    <2>4. /\ HandedOut(V, q + 1) \in Int /\ HandedOut(V, x) \in Int
          /\ HandedOut(V, q + 1) <= HandedOut(V, x)
      BY <2>1, HandedOutMore
    <2> QED
      BY <2>1, <2>3, <2>4
  <1>6. F \subseteq Nat
    BY <1>2
  <1>7. Max(F) = q
    <2> HIDE DEF F
    <2>1. \E x \in F : \A y \in F : x >= y
      BY <1>4, <1>5
    <2>2. Max(F) \in F /\ \A y \in F : Max(F) >= y
      BY <2>1 DEF Max
    <2>3. Max(F) >= q /\ q >= Max(F) /\ Max(F) \in Nat
      BY <1>4, <1>5, <1>6, <2>2
    <2> QED
      BY <2>3
  <1> QED
    BY <1>7 DEF FairLevel

\* The walk ends: the level at which the large pairs use up what the small ones leave.
LEMMA WalkEnds ==
  ASSUME NEW V, NEW A, NEW C, IsFiniteSet(A), IsFiniteSet(C), V = A \cup C, A \cap C = {}, C # {},
         \A p \in V : p[2] \in Nat, NEW val, \A p \in V : val[p] = p[2],
         NEW cap \in Nat, NEW lo \in Nat, NEW hi \in Nat, lo <= hi,
         \A p \in A : p[2] <= lo, \A p \in C : hi <= p[2],
         NEW s, s = SumOver(A, val), NEW k, k = Cardinality(C),
         s + k * lo <= cap, cap <= s + k * hi
  PROVE  FairLevel(V, cap) = (cap - s) \div k
  <1>1. k \in Nat \ {0}
    BY FS_CardinalityType, FS_EmptySet
  <1>2. s \in Nat
    BY SumNat
  <1>3. k * lo \in Nat /\ k * hi \in Nat
    BY <1>1
  <1>4. cap - s \in Nat
    BY <1>2, <1>3
  <1> DEFINE q == (cap - s) \div k
  <1>5. q \in Nat /\ q * k <= cap - s /\ cap - s < q * k + k
    BY <1>1, <1>4, Division
  <1> HIDE DEF q
  <1>6. q * k \in Nat /\ k * q = q * k /\ k * (q + 1) = q * k + k /\ k * lo = lo * k /\ k * hi = hi * k
    BY <1>1, <1>5
  <1>7. lo <= q
    <2> SUFFICES ASSUME q < lo PROVE FALSE
      BY <1>5
    <2>1. q * k + k <= lo * k
      BY <1>1, <1>5, Scale
    <2> QED
      BY <1>1, <1>2, <1>3, <1>5, <1>6, <2>1
  <1>8. q <= hi
    <2> SUFFICES ASSUME hi < q PROVE FALSE
      BY <1>5
    <2>1. hi * k + k <= q * k
      BY <1>1, <1>5, Scale
    <2> QED
      BY <1>1, <1>2, <1>3, <1>5, <1>6, <2>1
  <1>9. ASSUME NEW x \in Nat, lo <= x, x <= hi PROVE HandedOut(V, x) = s + k * x
    <2>1. \A p \in A : p[2] <= x
      BY <1>9
    <2>2. \A p \in C : x <= p[2]
      BY <1>9
    <2> QED
      BY <2>1, <2>2, HandedOutSplit
  <1>10. HandedOut(V, q) = s + k * q
    BY <1>5, <1>7, <1>8, <1>9
  <1>11. HandedOut(V, q) <= cap
    BY <1>2, <1>5, <1>6, <1>10
  <1>12. IsFiniteSet(V) /\ V # {}
    BY FS_Union
  <1>13. \E p \in V : q <= p[2]
    <2>1. PICK p \in C : TRUE
      OBVIOUS
    <2>2. hi <= p[2] /\ p[2] \in Nat
      OBVIOUS
    <2> QED
      BY <1>5, <1>8, <2>2
  <1>14. (\A p \in V : p[2] <= q) \/ HandedOut(V, q + 1) > cap
    <2>1. CASE q < hi
      <3>1. q + 1 \in Nat /\ lo <= q + 1 /\ q + 1 <= hi
        BY <1>5, <1>7, <2>1
      <3>2. HandedOut(V, q + 1) = s + k * (q + 1)
        BY <1>9, <3>1
      <3> QED
        BY <1>1, <1>2, <1>5, <1>6, <3>2
    <2>2. CASE q = hi /\ \E p \in V : q < p[2]
      <3>1. HandedOut(V, q) \in Int /\ HandedOut(V, q + 1) \in Int /\ HandedOut(V, q) < HandedOut(V, q + 1)
        <4>1. q + 1 \in Nat /\ q <= q + 1 /\ q < q + 1
          BY <1>5
        <4> QED
          BY <1>5, <1>12, <2>2, <4>1, HandedOutMore
      <3>2. HandedOut(V, q) >= cap
        BY <1>2, <1>3, <1>10, <2>2
      <3> QED
        BY <3>1, <3>2
    <2> QED
      BY <1>5, <1>8, <2>1, <2>2
  <1>15. FairLevel(V, cap) = q
    BY <1>5, <1>11, <1>12, <1>13, <1>14, FairLevelIs
  <1> QED
    BY <1>15 DEF q

-----------------------------------------------------------------------------
(* The walk of fairshare down the tree.  *)

\* What fairshare gives at a node, from what it gives at the children.
LevelStep(f, n, leftSum, rightCount, cap) ==
  LET larger  == rightCount + n.R.count
      smaller == leftSum + n.L.sum + n.value
  IN  IF cap <= smaller + larger * n.value
      THEN IF IsNil(n.L) THEN (cap - leftSum) \div (1 + larger)
           ELSE f[n.L][leftSum][1 + larger]
      ELSE IF ~IsNil(n.R) THEN f[n.R][smaller][rightCount]
           ELSE IF rightCount = 0 THEN n.value
           ELSE (cap - smaller) \div rightCount

\* The same as a function of what is on the left and on the right.
Walk(f, n, cap) == [leftSum \in Int |-> [rightCount \in Int |-> LevelStep(f, n, leftSum, rightCount, cap)]]

\* A step depends on the nodes below only.
LEMMA WalkSame ==
  ASSUME NEW f, NEW g, NEW n, NEW cap,
         ~IsNil(n.L) => f[n.L] = g[n.L], ~IsNil(n.R) => f[n.R] = g[n.R]
  PROVE  Walk(f, n, cap) = Walk(g, n, cap)
  <1>1. ASSUME NEW leftSum \in Int, NEW rightCount \in Int
        PROVE  LevelStep(f, n, leftSum, rightCount, cap) = LevelStep(g, n, leftSum, rightCount, cap)
    BY DEF LevelStep
  <1> QED
    BY <1>1 DEF Walk

\* The recursion of fairshare has a solution.
LEMMA WalkExists ==
  ASSUME NEW n, Good(n), NEW cap
  PROVE  \E f : f = [m \in Inner(n) |-> Walk(f, m, cap)]
  <1> DEFINE N == NodesOf(n)
             I == Inner(n)
             Done(g, k) == \A m \in I : m.h < k => g[m] = Walk(g, m, cap)
             H == {k \in Nat : \E g : g = [m \in I |-> g[m]] /\ Done(g, k)}
  <1>1. n \in N /\ Closed(N) /\ \A m \in N : m.h <= n.h
    BY NodesClosed, NodesBelow
  <1>2. ASSUME NEW m \in I
        PROVE  /\ m.h \in Nat /\ m.h <= n.h /\ n.h \in Int
               /\ ~IsNil(m.L) => m.L \in I /\ m.L.h \in Int /\ m.L.h < m.h
               /\ ~IsNil(m.R) => m.R \in I /\ m.R.h \in Int /\ m.R.h < m.h
    <2>1. m \in N /\ m # Nil
      BY <1>1, ClosedFacts DEF Inner
    <2> HIDE DEF N
    <2>2. m.h \in Nat /\ m.L \in N /\ m.L.h < m.h /\ m.R \in N /\ m.R.h < m.h
      BY <1>1, <2>1, ClosedFacts
    <2>3. n.h \in Int /\ m.L.h \in Int /\ m.R.h \in Int /\ m.h <= n.h
      BY <1>1, <2>1, <2>2, ClosedFacts
    <2> QED
      BY <2>2, <2>3 DEF N, Inner
  <1> HIDE DEF N, I
  <1>3. ASSUME NEW g, NEW k \in Int, Done(g, k)
        PROVE  \E f : f = [m \in I |-> f[m]] /\ Done(f, k + 1)
    <2> DEFINE f == [m \in I |-> Walk(g, m, cap)]
    <2>1. ASSUME NEW m \in I, m.h < k PROVE f[m] = g[m]
      BY <1>3, <2>1
    <2>2. ASSUME NEW m \in I, m.h < k + 1 PROVE f[m] = Walk(f, m, cap)
      <3>1. f[m] = Walk(g, m, cap)
        OBVIOUS
      <3> HIDE DEF f
      <3>2. ~IsNil(m.L) => f[m.L] = g[m.L]
        BY <1>2, <2>1, <2>2
      <3>3. ~IsNil(m.R) => f[m.R] = g[m.R]
        BY <1>2, <2>1, <2>2
      <3> QED
        BY <3>1, <3>2, <3>3, WalkSame
    <2>3. f = [m \in I |-> f[m]]
      OBVIOUS
    <2> HIDE DEF f
    <2> QED
      BY <2>2, <2>3
  <1>4. 0 \in H
    <2> DEFINE g == [m \in I |-> 0]
    <2>1. Done(g, 0)
      BY <1>2
    <2>2. g = [m \in I |-> g[m]]
      OBVIOUS
    <2> HIDE DEF g, Done
    <2> QED
      BY <2>1, <2>2
  <1> HIDE DEF Done
  <1>5. ASSUME NEW k \in Nat, k \in H PROVE k + 1 \in H
    BY <1>3, <1>5
  <1> HIDE DEF H
  <1>6. Nat \subseteq H
    BY <1>4, <1>5, NatSetInduction
  <1>7. n.h + 1 \in Nat
    BY GoodFacts
  <1>8. PICK f : f = [m \in I |-> f[m]] /\ Done(f, n.h + 1)
    BY <1>6, <1>7 DEF H
  <1>9. ASSUME NEW m \in I PROVE f[m] = Walk(f, m, cap)
    <2>1. m.h < n.h + 1
      BY <1>2
    <2> QED
      BY <1>8, <2>1 DEF Done
  <1>10. f = [m \in I |-> Walk(f, m, cap)]
    BY <1>8, <1>9
  <1> QED
    BY <1>10 DEF I

\* The walk is at node m: the pairs of V outside its subtree are the small ones A, all at or
\* below lo, and the large ones B, all at or above hi; the level is at least lo, and at most
\* hi when there are large ones.
At(V, val, cap, m, A, B, lo, hi) ==
  /\ V = A \cup ValuesOf(m) \cup B
  /\ A \cap ValuesOf(m) = {} /\ A \cap B = {} /\ B \cap ValuesOf(m) = {}
  /\ \A p \in A : p[2] <= lo
  /\ \A p \in ValuesOf(m) \cup B : lo <= p[2]
  /\ SumOver(A, val) + (m.count + Cardinality(B)) * lo <= cap
  /\ B # {} => /\ \A p \in A \cup ValuesOf(m) : p[2] <= hi
               /\ \A p \in B : hi <= p[2]
               /\ cap <= SumOver(A, val) + m.sum + Cardinality(B) * hi

\* What the walk knows of a node.
LEMMA NodeNumbers ==
  ASSUME NEW m, Good(m), m # Nil, NEW val, \A p \in ValuesOf(m) : val[p] = p[2]
  PROVE  /\ m.value \in Nat /\ m.L.sum \in Nat /\ m.R.sum \in Nat /\ m.sum = m.value + m.L.sum + m.R.sum
         /\ m.L.count \in Nat /\ m.R.count \in Nat /\ m.count = 1 + m.L.count + m.R.count
         /\ m.L.sum = SumOver(ValuesOf(m.L), val) /\ m.R.sum = SumOver(ValuesOf(m.R), val)
         /\ m.L.count = Cardinality(ValuesOf(m.L)) /\ m.R.count = Cardinality(ValuesOf(m.R))
         /\ IsFiniteSet(ValuesOf(m.L)) /\ IsFiniteSet(ValuesOf(m.R))
         /\ (m.L = Nil <=> IsNil(m.L)) /\ (m.R = Nil <=> IsNil(m.R))
         /\ IsNil(m.L) => m.L.sum = 0 /\ m.L.count = 0 /\ ValuesOf(m.L) = {}
         /\ IsNil(m.R) => m.R.sum = 0 /\ m.R.count = 0 /\ ValuesOf(m.R) = {}
  <1>1. Good(m.L) /\ Good(m.R) /\ m = Mk(m.id, m.value, m.L, m.R) /\ m.value \in Nat
    BY NodeParts
  <1>2. m.sum = m.value + m.L.sum + m.R.sum /\ m.count = 1 + m.L.count + m.R.count
    BY <1>1, MkCaches
  <1>3. \A p \in ValuesOf(m.L) \cup ValuesOf(m.R) : val[p] = p[2]
    <2>1. ValuesOf(m) = {<<m.id, m.value>>} \cup ValuesOf(m.L) \cup ValuesOf(m.R)
      BY ValuesSplit
    <2> QED
      BY <2>1
  <1>4. /\ m.L.sum = SumOver(ValuesOf(m.L), val) /\ m.L.count = Cardinality(ValuesOf(m.L)) /\ IsFiniteSet(ValuesOf(m.L))
    BY <1>1, <1>3, NodeCounts
  <1>5. /\ m.R.sum = SumOver(ValuesOf(m.R), val) /\ m.R.count = Cardinality(ValuesOf(m.R)) /\ IsFiniteSet(ValuesOf(m.R))
    BY <1>1, <1>3, NodeCounts
  <1>6. m.L.sum \in Nat /\ m.R.sum \in Nat /\ m.L.count \in Nat /\ m.R.count \in Nat
    BY <1>1, GoodFacts
  <1>7. ASSUME NEW x, Good(x) PROVE (x = Nil <=> IsNil(x)) /\ (IsNil(x) => x.sum = 0 /\ x.count = 0 /\ ValuesOf(x) = {})
    BY <1>7, GoodFacts DEF ValuesOf
  <1> QED
    BY <1>1, <1>2, <1>4, <1>5, <1>6, <1>7

\* One more at a level.
LEMMA Spread ==
  ASSUME NEW k \in Nat, NEW v \in Nat
  PROVE  (1 + k) * v = v + k * v /\ k * v \in Nat /\ (k + 1) * v = v + k * v
  OBVIOUS

\* What the walk gives wherever it meets node m.
Right(f, V, val, cap, m) ==
  \A A, B \in SUBSET V : \A lo, hi \in Nat : At(V, val, cap, m, A, B, lo, hi) =>
     f[m][SumOver(A, val)][Cardinality(B)] = FairLevel(V, cap)

\* One step of the walk reaches the fair level or hands on to a side where the same holds.
LEMMA WalkStep ==
  ASSUME NEW V, IsFiniteSet(V), \A p \in V : p[2] \in Nat, NEW val, \A p \in V : val[p] = p[2],
         NEW cap \in Nat, NEW f, NEW m, Good(m), m # Nil,
         NEW A \in SUBSET V, NEW B \in SUBSET V, NEW lo \in Nat, NEW hi \in Nat,
         At(V, val, cap, m, A, B, lo, hi),
         ~IsNil(m.L) => Right(f, V, val, cap, m.L), ~IsNil(m.R) => Right(f, V, val, cap, m.R)
  PROVE  LevelStep(f, m, SumOver(A, val), Cardinality(B), cap) = FairLevel(V, cap)
  <1> DEFINE q == FairLevel(V, cap)
             s == SumOver(A, val)
             k == Cardinality(B)
             v == m.value
             w == <<m.id, m.value>>
             P == ValuesOf(m.L)
             Q == ValuesOf(m.R)
             larger == k + m.R.count
             smaller == s + m.L.sum + v
             A2 == A \cup P \cup {w}
             B2 == {w} \cup Q \cup B
  <1>1. /\ V = A \cup ValuesOf(m) \cup B
        /\ A \cap ValuesOf(m) = {} /\ A \cap B = {} /\ B \cap ValuesOf(m) = {}
        /\ \A p \in A : p[2] <= lo
        /\ \A p \in ValuesOf(m) \cup B : lo <= p[2]
        /\ s + (m.count + k) * lo <= cap
        /\ B # {} => /\ \A p \in A \cup ValuesOf(m) : p[2] <= hi
                     /\ \A p \in B : hi <= p[2]
                     /\ cap <= s + m.sum + k * hi
    BY DEF At
  <1>2. /\ ValuesOf(m) = {w} \cup P \cup Q /\ w \notin P /\ w \notin Q /\ P \cap Q = {}
        /\ \A p \in P : p[2] \in Nat /\ p[2] <= v
        /\ \A p \in Q : p[2] \in Nat /\ p[2] >= v
    BY ValuesSplit
  <1>3. /\ v \in Nat /\ m.L.sum \in Nat /\ m.R.sum \in Nat /\ m.sum = v + m.L.sum + m.R.sum
        /\ m.L.count \in Nat /\ m.R.count \in Nat /\ m.count = 1 + m.L.count + m.R.count
        /\ m.L.sum = SumOver(P, val) /\ m.R.sum = SumOver(Q, val)
        /\ m.L.count = Cardinality(P) /\ m.R.count = Cardinality(Q)
        /\ IsFiniteSet(P) /\ IsFiniteSet(Q)
        /\ IsNil(m.L) => m.L.sum = 0 /\ m.L.count = 0 /\ P = {}
        /\ IsNil(m.R) => m.R.sum = 0 /\ m.R.count = 0 /\ Q = {}
    <2>1. \A p \in ValuesOf(m) : val[p] = p[2]
      BY <1>1
    <2> QED
      BY <2>1, NodeNumbers
  <1>4. w[2] = v /\ w \in V /\ val[w] = v /\ w \in ValuesOf(m)
    BY <1>1, <1>2
  <1>5. /\ IsFiniteSet(A) /\ IsFiniteSet(B) /\ s \in Nat /\ k \in Nat /\ (B = {} <=> k = 0)
    <2>1. IsFiniteSet(A) /\ IsFiniteSet(B)
      BY FS_Subset
    <2>2. \A p \in A : val[p] \in Nat
      OBVIOUS
    <2> QED
      BY <2>1, <2>2, SumNat, FS_CardinalityType, FS_EmptySet
  <1>6. lo <= v
    BY <1>1, <1>2, <1>4
  <1>7. /\ A2 \in SUBSET V /\ IsFiniteSet(A2) /\ SumOver(A2, val) = smaller
        /\ \A p \in A2 : p[2] <= v
    <2>1. A2 \in SUBSET V
      BY <1>1, <1>2
    <2>2. \A p \in A2 : p[2] <= v
      <3>1. \A p \in A : p[2] <= lo /\ p[2] \in Nat
        BY <1>1
      <3> QED
        BY <1>2, <1>3, <1>4, <1>6, <3>1
    <2> DEFINE C == A \cup P
    <2>3. A \cap P = {} /\ w \notin C /\ C \in SUBSET V /\ A2 = C \cup {w}
      BY <1>1, <1>2
    <2>4. IsFiniteSet(C) /\ \A p \in C : val[p] \in Int
      BY <2>3, FS_Subset
    <2>5. SumOver(C, val) = s + m.L.sum
      BY <1>3, <1>5, <2>3, <2>4, SumUnion
    <2> HIDE DEF C
    <2>6. SumOver(C \cup {w}, val) = SumOver(C, val) + val[w] /\ IsFiniteSet(C \cup {w})
      <3>1. val[w] \in Int
        BY <1>3, <1>4
      <3>2. w \notin C
        BY <2>3
      <3> HIDE DEF w
      <3>3. SumOver(C \cup {w}, val) = SumOver(C, val) + val[w]
        BY <2>4, <3>1, <3>2, SumAdd
      <3> QED
        BY <2>4, <3>3, FS_AddElement
    <2> QED
      BY <1>4, <2>1, <2>2, <2>3, <2>5, <2>6
  <1>8. /\ B2 \in SUBSET V /\ IsFiniteSet(B2) /\ Cardinality(B2) = 1 + larger /\ B2 # {}
        /\ \A p \in B2 : v <= p[2]
    <2>1. B2 \in SUBSET V /\ B2 # {}
      BY <1>1, <1>2
    <2>2. w \notin B /\ Q \cap B = {}
      BY <1>1, <1>2
    <2>3. IsFiniteSet(B2) /\ Cardinality(B2) = 1 + Cardinality(Q) + Cardinality(B)
      <3> HIDE DEF w, Q
      <3> QED
        BY <1>2, <1>3, <1>5, <2>2, DisjointCount
    <2>4. \A p \in B : v <= p[2]
      <3> SUFFICES ASSUME NEW p \in B PROVE v <= p[2]
        OBVIOUS
      <3>1. hi <= p[2] /\ w[2] <= hi /\ p[2] \in Nat
        BY <1>1, <1>4
      <3> QED
        BY <1>3, <1>4, <3>1
    <2>5. \A p \in B2 : v <= p[2]
      BY <1>2, <1>3, <1>4, <2>4
    <2> QED
      BY <1>3, <1>5, <2>1, <2>3, <2>5
  <1>9. /\ larger \in Nat /\ smaller \in Nat /\ (1 + larger) * v = v + larger * v /\ larger * v \in Nat
        /\ m.count + k = m.L.count + (1 + larger)
    BY <1>3, <1>5, Spread
  <1>10. LevelStep(f, m, s, k, cap) =
           IF cap <= smaller + larger * v
           THEN IF IsNil(m.L) THEN (cap - s) \div (1 + larger) ELSE f[m.L][s][1 + larger]
           ELSE IF ~IsNil(m.R) THEN f[m.R][smaller][k]
                ELSE IF k = 0 THEN v ELSE (cap - smaller) \div k
    BY DEF LevelStep
  <1>11. V = A \cup P \cup B2 /\ V = A2 \cup Q \cup B
    BY <1>1, <1>2
  <1>12. A \cap P = {} /\ A \cap B2 = {} /\ B2 \cap P = {} /\ A2 \cap Q = {} /\ A2 \cap B = {} /\ B \cap Q = {}
    BY <1>1, <1>2
  <1> HIDE DEF q, s, k, v, w, P, Q, larger, smaller, A2, B2
  <1>13. CASE cap <= smaller + larger * v /\ IsNil(m.L)
    <2>1. s + (1 + larger) * lo <= cap
      <3>1. m.count + k = 1 + larger
        BY <1>3, <1>9, <1>13
      <3> QED
        BY <1>1, <3>1
    <2>2. cap <= s + (1 + larger) * v
      <3>1. smaller = s + v
        BY <1>3, <1>5, <1>13 DEF smaller
      <3> QED
        BY <1>3, <1>5, <1>9, <1>13, <3>1
    <2>3. V = A \cup B2
      BY <1>3, <1>11, <1>13
    <2>4. q = (cap - s) \div (1 + larger)
      <3> HIDE DEF At
      <3>1. s = SumOver(A, val) /\ 1 + larger = Cardinality(B2)
        BY <1>8 DEF s
      <3>2. \A p \in A : p[2] <= lo
        BY <1>1
      <3> QED
        BY <1>3, <1>5, <1>6, <1>8, <1>12, <2>1, <2>2, <2>3, <3>1, <3>2, WalkEnds DEF q
    <2> QED
      BY <1>10, <1>13, <2>4 DEF q, s, k
  <1>14. CASE cap <= smaller + larger * v /\ ~IsNil(m.L)
    <2>1. At(V, val, cap, m.L, A, B2, lo, v)
      <3>1. s + (m.L.count + Cardinality(B2)) * lo <= cap
        BY <1>1, <1>8, <1>9
      <3>2. cap <= s + m.L.sum + Cardinality(B2) * v
        <4>1. smaller + larger * v = s + m.L.sum + (1 + larger) * v
          <5>1. smaller = s + m.L.sum + v
            BY DEF smaller
          <5> QED
            BY <1>3, <1>5, <1>9, <5>1
        <4> QED
          BY <1>8, <1>14, <4>1
      <3>3. \A p \in A \cup P : p[2] <= v
        BY <1>7 DEF A2
      <3>4. \A p \in P \cup B2 : lo <= p[2]
        <4>1. \A p \in B2 : v <= p[2] /\ p[2] \in Nat
          BY <1>8
        <4>2. \A p \in B2 : lo <= p[2]
          BY <1>3, <1>6, <4>1
        <4> QED
          BY <1>1, <1>2, <4>2
      <3>5. \A p \in A : p[2] <= lo
        BY <1>1
      <3> QED
        BY <1>8, <1>11, <1>12, <3>1, <3>2, <3>3, <3>4, <3>5 DEF At, P, s
    <2>2. f[m.L][SumOver(A, val)][Cardinality(B2)] = q
      BY <1>3, <1>8, <1>14, <2>1 DEF q, Right
    <2> QED
      BY <1>8, <1>10, <1>14, <2>2 DEF q, s, k
  <1>15. CASE ~(cap <= smaller + larger * v)
    <2>0. smaller + larger * v <= cap
      BY <1>9, <1>15
    <2>1. CASE ~IsNil(m.R)
      <3>1. At(V, val, cap, m.R, A2, B, v, hi)
        <4>1. SumOver(A2, val) + (m.R.count + k) * v <= cap
          <5>1. m.R.count + k = larger
            BY <1>3, <1>5 DEF larger
          <5> QED
            BY <1>7, <2>0, <5>1
        <4>2. ASSUME B # {} PROVE cap <= SumOver(A2, val) + m.R.sum + k * hi
          <5>1. s + m.sum = smaller + m.R.sum
            BY <1>3, <1>5 DEF smaller
          <5>2. cap <= s + m.sum + k * hi
            BY <1>1, <4>2
          <5> QED
            BY <1>7, <5>1, <5>2
        <4>3. \A p \in Q \cup B : v <= p[2]
          BY <1>8 DEF B2
        <4>4. ASSUME B # {} PROVE (\A p \in A2 \cup Q : p[2] <= hi) /\ \A p \in B : hi <= p[2]
          BY <1>1, <1>2, <4>4 DEF A2
        <4> QED
          BY <1>7, <1>11, <1>12, <4>1, <4>2, <4>3, <4>4 DEF At, Q, k
      <3>2. f[m.R][SumOver(A2, val)][Cardinality(B)] = q
        BY <1>3, <1>7, <2>1, <3>1 DEF q, Right
      <3> QED
        BY <1>7, <1>10, <1>15, <2>1, <3>2 DEF q, s, k
    <2>2. CASE IsNil(m.R)
      <3>1. larger = k /\ smaller = s + m.sum
        BY <1>3, <1>5, <2>2 DEF larger, smaller
      <3>2. CASE k = 0
        <4>1. V = A2 /\ B = {} /\ V = V \cup {} /\ V \cap {} = {}
          BY <1>3, <1>5, <1>11, <2>2, <3>2
        <4>2. HandedOut(V, v) = SumOver(V, val) + Cardinality({}) * v
          <5>1. \A p \in V : p[2] <= v
            BY <1>7, <4>1
          <5>2. IsFiniteSet({}) /\ \A p \in {} : v <= p[2]
            BY FS_EmptySet
          <5> QED
            BY <1>3, <4>1, <5>1, <5>2, HandedOutSplit
        <4>3. HandedOut(V, v) = smaller
          <5>1. Cardinality({}) = 0 /\ SumOver(V, val) = smaller /\ 0 * v = 0
            BY <1>3, <1>7, <4>1, FS_EmptySet
          <5> QED
            BY <1>9, <4>2, <5>1
        <4>4. HandedOut(V, v) <= cap
          BY <1>9, <2>0, <4>3
        <4>5. (\A p \in V : p[2] <= v) /\ (\E p \in V : v <= p[2]) /\ V # {}
          BY <1>3, <1>4, <1>7, <4>1
        <4>6. q = v
          BY <1>3, <4>4, <4>5, FairLevelIs DEF q
        <4> QED
          BY <1>10, <1>15, <2>2, <3>2, <4>6 DEF q, s, k
      <3>3. CASE k # 0
        <4>1. B # {} /\ V = A2 \cup B
          BY <1>3, <1>5, <1>11, <2>2, <3>3
        <4>2. smaller + k * v <= cap /\ cap <= smaller + k * hi
          BY <1>1, <2>0, <3>1, <4>1
        <4>3. v <= hi /\ \A p \in B : hi <= p[2]
          BY <1>1, <1>4, <4>1
        <4>4. q = (cap - smaller) \div k
          <5>1. smaller = SumOver(A2, val) /\ k = Cardinality(B)
            BY <1>7 DEF k
          <5> QED
            BY <1>3, <1>5, <1>7, <1>12, <4>1, <4>2, <4>3, <5>1, WalkEnds DEF q
        <4> QED
          BY <1>10, <1>15, <2>2, <3>3, <4>4 DEF q, s, k
      <3> QED
        BY <3>2, <3>3
    <2> QED
      BY <2>1, <2>2
  <1> QED
    BY <1>13, <1>14, <1>15

\* The level the tree gives is the fair one.
LEMMA LevelIsFair ==
  ASSUME NEW n, Good(n), n # Nil, NEW cap \in Nat
  PROVE  Level(n, cap) = FairLevel(ValuesOf(n), cap)
  <1> DEFINE N == NodesOf(n)
             V == ValuesOf(n)
             val == [p \in V |-> p[2]]
             f == CHOOSE f : f = [m \in Inner(n) |-> Walk(f, m, cap)]
             G == {m \in N : m # Nil => Right(f, V, val, cap, m)}
  <1>1. Level(n, cap) = f[n][0][0]
    BY DEF Level, Walk, LevelStep
  <1>2. f = [m \in Inner(n) |-> Walk(f, m, cap)]
    BY WalkExists
  <1> HIDE DEF f
  <1>3. n \in N /\ Closed(N) /\ \A m \in N : Good(m) /\ Members(m) \subseteq Members(n)
    BY NodesClosed
  <1>4. ASSUME NEW m \in N, m # Nil PROVE f[m] = Walk(f, m, cap)
    <2>1. m \in Inner(n)
      BY <1>3, <1>4, ClosedFacts DEF Inner
    <2> QED
      BY <1>2, <2>1
  <1>5. \A p \in V : val[p] = p[2]
    OBVIOUS
  <1> HIDE DEF N, val
  <1>6. IsFiniteSet(V) /\ (\A p \in V : p[2] \in Nat) /\ n.sum = SumOver(V, val) /\ n.count = Cardinality(V)
    BY <1>5, NodeCounts
  <1> HIDE DEF V
  <1>7. ASSUME NEW m \in N, m # Nil => m.L \in G /\ m.R \in G PROVE m \in G
    <2> SUFFICES ASSUME m # Nil, NEW A \in SUBSET V, NEW B \in SUBSET V, NEW lo \in Nat, NEW hi \in Nat,
                        At(V, val, cap, m, A, B, lo, hi)
                 PROVE  f[m][SumOver(A, val)][Cardinality(B)] = FairLevel(V, cap)
      BY DEF Right
    <2>1. Good(m) /\ f[m] = Walk(f, m, cap)
      BY <1>3, <1>4
    <2>2. SumOver(A, val) \in Int /\ Cardinality(B) \in Int
      <3>1. IsFiniteSet(A) /\ IsFiniteSet(B) /\ \A p \in A : val[p] \in Int
        BY <1>5, <1>6, FS_Subset
      <3> QED
        BY <3>1, SumInt, FS_CardinalityType
    <2>3. f[m][SumOver(A, val)][Cardinality(B)] = LevelStep(f, m, SumOver(A, val), Cardinality(B), cap)
      BY <2>1, <2>2 DEF Walk
    <2>4. (~IsNil(m.L) => Right(f, V, val, cap, m.L)) /\ (~IsNil(m.R) => Right(f, V, val, cap, m.R))
      BY <1>7, NilFacts
    <2> HIDE DEF G
    <2>7. LevelStep(f, m, SumOver(A, val), Cardinality(B), cap) = FairLevel(V, cap)
      BY <1>5, <1>6, <2>1, <2>4, WalkStep
    <2> QED
      BY <2>3, <2>7
  <1> HIDE DEF G
  <1>8. N \subseteq G
    BY <1>3, <1>7, TreeInduction
  <1>9. Right(f, V, val, cap, n)
    BY <1>3, <1>8 DEF G
  <1>10. At(V, val, cap, n, {}, {}, 0, 0)
    <2>1. SumOver({}, val) = 0 /\ Cardinality({}) = 0
      BY SumEmpty, FS_EmptySet
    <2>2. n.count \in Nat
      BY GoodFacts
    <2>3. SumOver({}, val) + (n.count + Cardinality({})) * 0 <= cap
      BY <2>1, <2>2
    <2> QED
      BY <1>6, <2>3 DEF At, V
  <1>11. SumOver({}, val) = 0 /\ Cardinality({}) = 0
    BY SumEmpty, FS_EmptySet
  <1>12. f[n][SumOver({}, val)][Cardinality({})] = FairLevel(V, cap)
    BY <1>9, <1>10 DEF Right
  <1> QED
    BY <1>1, <1>11, <1>12 DEF V

\* The fair level fits in the capacity.
LEMMA FairLevelFits ==
  ASSUME NEW V, IsFiniteSet(V), \A p \in V : p[2] \in Nat, NEW cap \in Nat
  PROVE  FairLevel(V, cap) \in Nat /\ HandedOut(V, FairLevel(V, cap)) <= cap
  <1>1. HandedOut(V, 0) = 0
    <2>1. \A p \in V : Parts(V, 0)[p] = 0
      BY PartIs
    <2> QED
      BY <2>1, SumOfNothing, HandedOutIs
  <1>2. CASE V = {}
    BY <1>1, <1>2 DEF FairLevel
  <1>3. CASE V # {}
    <2> DEFINE W == {p[2] : p \in V}
               M == Max(W)
               F == {x \in 0 .. M : HandedOut(V, x) <= cap}
    <2>1. IsFiniteSet(W) /\ W # {} /\ \A x \in W : x \in Nat
      <3>1. IsFiniteSet({p[2] : p \in V})
        <4> DEFINE b == [p \in V |-> p[2]]
        <4>1. b \in Surjection(V, W)
          BY DEF Surjection
        <4> HIDE DEF b
        <4> QED
          BY <4>1, FS_Surjection
      <3> QED
        BY <1>3, <3>1
    <2>2. M \in Nat
      <3> HIDE DEF W
      <3> QED
        BY <2>1, LargestIn
    <2> HIDE DEF M
    <2>3. 0 \in F /\ \A x \in F : x \in Nat
      BY <1>1, <2>2
    <2>4. IsFiniteSet(F)
      <3>1. IsFiniteSet(0 .. M)
        BY <2>2, FS_Interval
      <3> QED
        BY <3>1, FS_Subset
    <2>5. Max(F) \in F
      <3> HIDE DEF F
      <3> QED
        BY <2>3, <2>4, LargestIn
    <2>6. FairLevel(V, cap) = Max(F)
      BY <1>3 DEF FairLevel, M
    <2>7. \A x \in F : HandedOut(V, x) <= cap
      OBVIOUS
    <2> HIDE DEF F
    <2> QED
      BY <2>3, <2>5, <2>6, <2>7
  <1> QED
    BY <1>2, <1>3

\* fairshare gives the fair level of the recorded values.
LEMMA FairshareIs ==
  ASSUME NEW a, Tidy(a), NEW cap \in Nat
  PROVE  LET V == ValuesOf(a.root)
         IN  /\ IsFiniteSet(V) /\ (\A p \in V : p[2] \in Nat)
             /\ AVLFairshare(a, cap) = FairLevel(V, cap)
             /\ FairLevel(V, cap) \in Nat /\ HandedOut(V, FairLevel(V, cap)) <= cap
  <1> DEFINE n == a.root
             V == ValuesOf(n)
  <1>1. Good(n)
    BY DEF Tidy
  <1>2. IsFiniteSet(V) /\ \A p \in V : p[2] \in Nat
    <2> DEFINE val == [p \in V |-> p[2]]
    <2>1. \A p \in V : val[p] = p[2]
      OBVIOUS
    <2> HIDE DEF val
    <2> QED
      BY <1>1, <2>1, NodeCounts
  <1>3. n = Nil <=> IsNil(n)
    BY <1>1, GoodFacts
  <1>4. CASE n = Nil
    <2>1. Members(n) = {}
      BY <1>1, <1>4, GoodFacts
    <2>2. V = {}
      BY <2>1 DEF ValuesOf
    <2>3. AVLFairshare(a, cap) = FairLevel(V, cap)
      BY <1>3, <1>4, <2>2 DEF AVLFairshare, FairLevel
    <2> QED
      BY <1>2, <2>3, FairLevelFits
  <1>5. CASE n # Nil
    <2>1. AVLFairshare(a, cap) = FairLevel(V, cap)
      BY <1>1, <1>3, <1>5, LevelIsFair DEF AVLFairshare
    <2> QED
      BY <1>2, <2>1, FairLevelFits
  <1> QED
    BY <1>4, <1>5

-----------------------------------------------------------------------------
(* What is promised and charged on destinations. *)

LEMMA DivisionIs ==
  ASSUME NEW a \in Nat, NEW g \in Nat \ {0}, NEW q \in Nat, q * g <= a, a < q * g + g
  PROVE  a \div g = q
  <1> DEFINE p == a \div g
  <1>1. p \in Nat /\ p * g <= a /\ a < p * g + g
    BY Division
  <1>2. q * g \in Int /\ p * g \in Int
    BY <1>1
  <1> HIDE DEF p
  <1>3. ~ (p + 1 <= q)
    <2>1. p + 1 <= q => p * g + g <= q * g
      BY <1>1, Scale
    <2> QED
      BY <1>1, <1>2, <2>1
  <1>4. ~ (q + 1 <= p)
    <2>1. q + 1 <= p => q * g + g <= p * g
      BY <1>1, Scale
    <2> QED
      BY <1>1, <1>2, <2>1
  <1> QED
    BY <1>1, <1>3, <1>4 DEF p

LEMMA DivisionMonotone ==
  ASSUME NEW a \in Nat, NEW b \in Nat, a <= b, NEW g \in Nat \ {0}
  PROVE  a \div g <= b \div g
  <1> DEFINE p == a \div g
             q == b \div g
  <1>1. p \in Nat /\ p * g <= a /\ a < p * g + g /\ q \in Nat /\ q * g <= b /\ b < q * g + g
    BY Division
  <1>2. q * g \in Int /\ p * g \in Int
    BY <1>1
  <1> HIDE DEF p, q
  <1>3. ~ (q + 1 <= p)
    <2>1. q + 1 <= p => q * g + g <= p * g
      BY <1>1, Scale
    <2> QED
      BY <1>1, <1>2, <2>1
  <1>4. p <= q
    BY <1>1, <1>3
  <1> QED
    BY <1>4 DEF p, q

LEMMA Remainder ==
  ASSUME NEW a \in Nat, NEW m \in Nat \ {0}
  PROVE  /\ a < m => a % m = a
         /\ m <= a /\ a < 2 * m => a % m = a - m
  OBVIOUS

-----------------------------------------------------------------------------
(* Windows and slots. *)

LEMMA RunFacts ==
  ASSUME NEW r \in Runs
  PROVE  /\ Floor[r] \in Nat /\ Start[r] \in Nat /\ Timeout[r] \in Nat /\ Timeout[r] <= MaxDuration
         /\ Owner[r] \in Owners /\ Route[r] \in Seq(Destinations)
         /\ Range(Route[r]) \subseteq Destinations /\ Keys(r) \subseteq Owners \cup Destinations
  <1>1. /\ Floor[r] \in Nat /\ Start[r] \in Nat /\ Timeout[r] \in Nat /\ Timeout[r] <= MaxDuration
        /\ Owner[r] \in Owners /\ Route[r] \in Seq(Destinations)
    BY CapacityAssumption
  <1>2. Range(Route[r]) \subseteq Destinations
    BY <1>1 DEF Range
  <1> QED
    BY <1>1, <1>2 DEF Keys

LEMMA ConstantFacts ==
  /\ Grace \in Nat /\ Grace <= MaxDuration /\ MaxDuration \in Nat
  /\ Granularity \in Nat \ {0} /\ LastSlot \in Nat /\ LastTime \in Nat /\ LastTime = LastSlot * Granularity
  /\ MaxTime \in Nat /\ MaxTime <= LastTime
  <1>1. LastTime = LastSlot * Granularity /\ LastTime \in Nat
    BY CapacityAssumption, SlotAssumption DEF LastTime
  <1> QED
    BY <1>1, CapacityAssumption, SlotAssumption

LEMMA TimeSlots ==
  /\ \A t \in 0 .. LastTime : SlotOf(t) \in Slots /\ EndSlotOf(t) \in Slots
  /\ EndSlotOf(LastTime) = LastSlot
  /\ \A t, x \in Nat : t <= x => SlotOf(t) <= SlotOf(x)
  /\ \A t, x \in Nat : t < x => SlotOf(t) <= EndSlotOf(x)
  <1> DEFINE g == Granularity
             L == LastSlot
  <1>1. g \in Nat \ {0} /\ L \in Nat /\ LastTime = L * g /\ LastTime \in Nat
    BY ConstantFacts
  <1> HIDE DEF g, L
  <1>2. \A t \in Nat : t \div g \in Nat
    BY <1>1, Division
  <1>3. \A t, x \in Nat : t <= x => t \div g <= x \div g
    BY <1>1, DivisionMonotone
  <1>4. (L * g) \div g = L
    BY <1>1, DivisionIs
  <1>5. ASSUME L # 0 PROVE LastTime - 1 \in Nat /\ (LastTime - 1) \div g = L - 1
    <2>1. (L - 1) * g + g = L * g /\ (L - 1) * g \in Nat /\ L - 1 \in Nat
      BY <1>1, <1>5
    <2>2. LastTime - 1 \in Nat /\ (L - 1) * g <= LastTime - 1 /\ LastTime - 1 < (L - 1) * g + g
      BY <1>1, <2>1
    <2> QED
      BY <1>1, <2>1, <2>2, DivisionIs
  <1>6. L = 0 => LastTime = 0
    BY <1>1
  <1>7. EndSlotOf(LastTime) = L
    <2>1. CASE L = 0
      BY <1>6, <2>1 DEF EndSlotOf
    <2>2. CASE L # 0
      BY <1>1, <1>5, <2>2 DEF EndSlotOf, g
    <2> QED
      BY <2>1, <2>2
  <1>8. \A t, x \in Nat : t <= x => EndSlotOf(t) \in Nat /\ EndSlotOf(t) <= EndSlotOf(x)
    <2> SUFFICES ASSUME NEW t \in Nat, NEW x \in Nat, t <= x
                 PROVE  EndSlotOf(t) \in Nat /\ EndSlotOf(t) <= EndSlotOf(x)
      OBVIOUS
    <2>1. CASE t = 0
      <3>1. x # 0 => x - 1 \in Nat /\ (x - 1) \div g \in Nat
        BY <1>2
      <3> QED
        BY <2>1, <3>1 DEF EndSlotOf, g
    <2>2. CASE t # 0
      <3>1. t - 1 \in Nat /\ x - 1 \in Nat /\ x # 0 /\ t - 1 <= x - 1
        BY <2>2
      <3>2. (t - 1) \div g \in Nat /\ (x - 1) \div g \in Nat /\ (t - 1) \div g <= (x - 1) \div g
        BY <1>2, <1>3, <3>1
      <3> QED
        BY <2>2, <3>1, <3>2 DEF EndSlotOf, g
    <2> QED
      BY <2>1, <2>2
  <1>9. ASSUME NEW t \in 0 .. LastTime PROVE SlotOf(t) \in Slots /\ EndSlotOf(t) \in Slots
    <2>1. t \in Nat /\ t <= LastTime
      BY <1>1
    <2>2. EndSlotOf(t) \in Nat /\ EndSlotOf(t) <= L
      BY <1>1, <1>7, <1>8, <2>1
    <2>3. SlotOf(t) \in Nat /\ SlotOf(t) <= L
      BY <1>1, <1>2, <1>3, <1>4, <2>1 DEF SlotOf, g
    <2> QED
      BY <1>1, <2>2, <2>3 DEF Slots, L
  <1>10. ASSUME NEW t \in Nat, NEW x \in Nat, t < x PROVE SlotOf(t) <= EndSlotOf(x)
    <2>1. x - 1 \in Nat /\ t <= x - 1 /\ x # 0
      BY <1>10
    <2>2. t \div g \in Nat /\ (x - 1) \div g \in Nat /\ t \div g <= (x - 1) \div g
      BY <1>2, <1>3, <2>1
    <2> QED
      BY <2>1, <2>2 DEF SlotOf, EndSlotOf, g
  <1>11. \A t, x \in Nat : t <= x => SlotOf(t) <= SlotOf(x)
    BY <1>3 DEF SlotOf, g
  <1> QED
    BY <1>7, <1>9, <1>10, <1>11 DEF L

\* A window that passes the checks of admission is the one that was asked for: the
\* duration did not wrap, and the schedule has a slot for all of it.
LEMMA WindowSlots ==
  ASSUME NEW r \in Runs, NEW f \in Nat, WindowFits(r, f)
  PROVE  /\ Budget(r) = Timeout[r] + Grace /\ Budget(r) \in Nat /\ f + Budget(r) \in 0 .. LastTime
         /\ f < f + Budget(r) /\ f \in 0 .. LastTime
         /\ SlotOf(f) \in Slots /\ EndSlotOf(f + Budget(r)) \in Slots
  <1> DEFINE n == Timeout[r] + Grace
             m == MaxDuration + 1
             b == WrapDuration(n)
  <1>1. n \in Nat /\ m \in Nat \ {0} /\ n + m \in Nat /\ 2 * m \in Nat \ {0} /\ n < 2 * m /\ Timeout[r] \in Nat
    <2>1. Timeout[r] \in Nat /\ Timeout[r] <= MaxDuration
      BY RunFacts
    <2> QED
      BY <2>1, ConstantFacts
  <1>2. b = ((n + m) % (2 * m)) - m
    <2>1. n + MaxDuration + 1 = n + m
      BY <1>1, ConstantFacts
    <2> HIDE DEF n
    <2> QED
      BY <2>1 DEF WrapDuration
  <1>3. b >= Timeout[r] /\ Budget(r) = b
    BY DEF WindowFits, Budget
  <1> HIDE DEF n, m, b
  <1>4. CASE n < m
    <2>1. (n + m) % (2 * m) = n + m
      <3>1. n + m < 2 * m
        BY <1>1, <1>4
      <3> QED
        BY <1>1, <3>1, Remainder
    <2>2. b = n
      BY <1>1, <1>2, <2>1
    <2>3. f + b > f /\ f + b <= LastTime
      BY <1>3 DEF WindowFits
    <2>4. f + b \in 0 .. LastTime /\ f \in 0 .. LastTime
      BY <1>1, <2>2, <2>3, ConstantFacts
    <2>5. SlotOf(f) \in Slots /\ EndSlotOf(f + b) \in Slots
      BY <2>4, TimeSlots
    <2> QED
      BY <1>1, <1>3, <2>2, <2>3, <2>4, <2>5 DEF n
  <1>5. CASE m <= n
    <2>1. (n + m) % (2 * m) = (n + m) - (2 * m)
      <3> DEFINE a == n + m
                 k == 2 * m
      <3>1. a \in Nat /\ k \in Nat \ {0} /\ k <= a /\ a < 2 * k
        BY <1>1, <1>5
      <3> HIDE DEF a, k
      <3>2. a % k = a - k
        BY <3>1, Remainder
      <3> QED
        BY <1>1, <3>2, Zenon DEF a, k
    <2>2. b < 0
      BY <1>1, <1>2, <2>1
    <2>3. b \in Int
      BY <1>1, <1>2, <2>1
    <2> QED
      BY <1>1, <1>3, <2>2, <2>3
  <1> QED
    BY <1>1, <1>4, <1>5

-----------------------------------------------------------------------------
(* What is booked: the floors of a set of runs. *)

Bookable == Owners \cup Destinations

\* Run r, with its window from f, is booked on k in slot s.
BookedIn(r, f, k, s) == k \in Keys(r) /\ SlotOf(f) <= s /\ s <= EndSlotOf(f + Budget(r))

\* The use of k when the runs T are booked, each from its time in fr.
UseOf(T, fr, k) == [s \in Slots |-> SumOver({r \in T : BookedIn(r, fr[r], k, s)}, Floor)]

\* The trees of b hold the floors of the runs T.
HoldsRuns(b, T, fr) ==
  /\ b = [k \in Bookable |-> b[k]]
  /\ \A k \in Bookable : Represents(b[k], UseOf(T, fr, k))

LEMMA UseOfType ==
  ASSUME NEW T \in SUBSET Runs, NEW fr, NEW k
  PROVE  UseOf(T, fr, k) \in [Slots -> Nat]
  <1> SUFFICES ASSUME NEW s \in Slots
               PROVE  SumOver({r \in T : BookedIn(r, fr[r], k, s)}, Floor) \in Nat
    BY DEF UseOf
  <1> DEFINE A == {r \in T : BookedIn(r, fr[r], k, s)}
  <1>1. A \in SUBSET Runs
    OBVIOUS
  <1> HIDE DEF A
  <1>2. IsFiniteSet(A) /\ \A x \in A : Floor[x] \in Nat
    BY <1>1, CapacityAssumption, FS_Subset, RunFacts
  <1>3. SumOver(A, Floor) \in Nat
    BY <1>2, SumNat
  <1> QED
    BY <1>3 DEF A

\* The runs U are the runs T and r; the others keep their times.
Joins(r, T, fr, U, fs) == r \in U /\ T = U \ {r} /\ \A x \in T : fs[x] = fr[x]

\* Between two bookings, the use of the window of r from f differs by use.
Differs(T, fr, U, fs, r, f, use) ==
  \A k \in Bookable : \A s \in Slots :
    UseOf(U, fs, k)[s] = IF BookedIn(r, f, k, s) THEN UseOf(T, fr, k)[s] + use ELSE UseOf(T, fr, k)[s]

\* One run more, or one less.
LEMMA UseOfAdd ==
  ASSUME NEW T \in SUBSET Runs, NEW U \in SUBSET Runs, NEW r \in Runs, NEW fr, NEW fs, Joins(r, T, fr, U, fs)
  PROVE  Differs(T, fr, U, fs, r, fs[r], Floor[r]) /\ Differs(U, fs, T, fr, r, fs[r], -Floor[r])
  <1>0. r \in U /\ T = U \ {r} /\ \A x \in T : fs[x] = fr[x]
    BY DEF Joins
  <1>1. ASSUME NEW k \in Bookable, NEW s \in Slots
        PROVE  /\ UseOf(T, fr, k)[s] \in Int /\ Floor[r] \in Int
               /\ BookedIn(r, fs[r], k, s) => UseOf(U, fs, k)[s] = UseOf(T, fr, k)[s] + Floor[r]
               /\ ~ BookedIn(r, fs[r], k, s) => UseOf(U, fs, k)[s] = UseOf(T, fr, k)[s]
    <2> DEFINE A == {x \in T : BookedIn(x, fr[x], k, s)}
               B == {x \in U : BookedIn(x, fs[x], k, s)}
    <2>1. UseOf(T, fr, k)[s] = SumOver(A, Floor) /\ UseOf(U, fs, k)[s] = SumOver(B, Floor)
      BY DEF UseOf
    <2>2. B = IF BookedIn(r, fs[r], k, s) THEN A \cup {r} ELSE A
      BY <1>0
    <2>3. A \in SUBSET Runs /\ r \notin A
      BY <1>0
    <2> HIDE DEF A, B
    <2>4. IsFiniteSet(A) /\ (\A x \in A : Floor[x] \in Int) /\ Floor[r] \in Int
      BY <2>3, CapacityAssumption, FS_Subset, RunFacts
    <2>5. SumOver(A \cup {r}, Floor) = SumOver(A, Floor) + Floor[r]
      BY <2>3, <2>4, SumAdd
    <2>6. SumOver(A, Floor) \in Int
      BY <2>4, SumInt
    <2> QED
      BY <2>1, <2>2, <2>4, <2>5, <2>6
  <1>2. Differs(T, fr, U, fs, r, fs[r], Floor[r])
    BY <1>1 DEF Differs
  <1>3. Differs(U, fs, T, fr, r, fs[r], -Floor[r])
    <2> SUFFICES ASSUME NEW k \in Bookable, NEW s \in Slots
                 PROVE  UseOf(T, fr, k)[s] = IF BookedIn(r, fs[r], k, s) THEN UseOf(U, fs, k)[s] + (-Floor[r])
                                             ELSE UseOf(U, fs, k)[s]
      BY DEF Differs
    <2> DEFINE v == UseOf(U, fs, k)[s]
               u == UseOf(T, fr, k)[s]
    <2>1. u \in Int /\ Floor[r] \in Int /\ v = IF BookedIn(r, fs[r], k, s) THEN u + Floor[r] ELSE u
      BY <1>1
    <2> HIDE DEF u, v
    <2>2. u = IF BookedIn(r, fs[r], k, s) THEN v + (-Floor[r]) ELSE v
      BY <2>1
    <2> QED
      BY <2>2 DEF u, v
  <1> QED
    BY <1>2, <1>3

\* Submit and Remove on every tree: the use of the window changes by the floor.
LEMMA BookedOne ==
  ASSUME NEW b, NEW T \in SUBSET Runs, NEW fr, HoldsRuns(b, T, fr), NEW U \in SUBSET Runs, NEW fs,
         NEW r \in Runs, NEW f \in Nat, WindowFits(r, f), NEW use \in Int, Differs(T, fr, U, fs, r, f, use)
  PROVE  HoldsRuns(Booked(b, r, f, use), U, fs)
  <1> DEFINE c == Booked(b, r, f, use)
             l == SlotOf(f)
             e == EndSlotOf(f + Budget(r))
  <1>1. l \in Slots /\ e \in Slots
    BY WindowSlots
  <1>2. DOMAIN b = Bookable
    BY DEF HoldsRuns
  <1>3. c = [k \in Bookable |-> IF k \in Keys(r) THEN Book(b[k], l, e, use) ELSE b[k]]
    BY <1>2 DEF Booked
  <1>4. c = [k \in Bookable |-> c[k]]
    <2> HIDE DEF c
    <2> QED
      BY <1>3
  <1>5. ASSUME NEW k \in Bookable PROVE Represents(c[k], UseOf(U, fs, k))
    <2>1. Represents(b[k], UseOf(T, fr, k)) /\ UseOf(U, fs, k) \in [Slots -> Nat]
      BY UseOfType DEF HoldsRuns
    <2> DEFINE u == UseOf(T, fr, k)
               v == UseOf(U, fs, k)
    <2>2. \A s \in Slots : v[s] = IF BookedIn(r, f, k, s) THEN u[s] + use ELSE u[s]
      BY DEF Differs
    <2>3. CASE k \in Keys(r)
      <3>1. c[k] = Book(b[k], l, e, use)
        BY <1>3, <2>3
      <3>2. \A s \in Slots : v[s] = IF l <= s /\ s <= e THEN u[s] + use ELSE u[s]
        BY <2>2, <2>3 DEF BookedIn
      <3>3. Represents(b[k], u) /\ v \in [Slots -> Nat]
        BY <2>1
      <3> HIDE DEF c, l, e, u, v
      <3>4. Represents(Book(b[k], l, e, use), v)
        BY <1>1, <3>2, <3>3, BookRepresents
      <3> QED
        BY <3>1, <3>4 DEF v
    <2>4. CASE k \notin Keys(r)
      <3>1. c[k] = b[k]
        BY <1>3, <2>4
      <3>2. \A s \in Slots : v[s] = u[s]
        BY <2>2, <2>4 DEF BookedIn
      <3>3. v = u
        <4>1. u \in [Slots -> Nat] /\ v \in [Slots -> Nat]
          BY UseOfType
        <4> HIDE DEF u, v
        <4> QED
          BY <3>2, <4>1
      <3> QED
        BY <2>1, <3>1, <3>3
    <2> QED
      BY <2>3, <2>4
  <1> HIDE DEF c
  <1>6. HoldsRuns(c, U, fs)
    BY <1>4, <1>5 DEF HoldsRuns
  <1> QED
    BY <1>6 DEF c

\* A run is booked, and gives its booking back.
LEMMA BookedAdd ==
  ASSUME NEW T \in SUBSET Runs, NEW fr, NEW U \in SUBSET Runs, NEW fs, NEW r \in Runs,
         Joins(r, T, fr, U, fs), NEW f, f = fs[r], f \in Nat, WindowFits(r, f), NEW b
  PROVE  /\ HoldsRuns(b, T, fr) => HoldsRuns(Booked(b, r, f, Floor[r]), U, fs)
         /\ HoldsRuns(b, U, fs) => HoldsRuns(Booked(b, r, f, -Floor[r]), T, fr)
  <1>1. Floor[r] \in Int /\ -Floor[r] \in Int
    BY RunFacts
  <1>2. Differs(T, fr, U, fs, r, f, Floor[r]) /\ Differs(U, fs, T, fr, r, f, -Floor[r])
    BY UseOfAdd
  <1>3. HoldsRuns(b, T, fr) => HoldsRuns(Booked(b, r, f, Floor[r]), U, fs)
    BY <1>1, <1>2, BookedOne
  <1>4. HoldsRuns(b, U, fs) => HoldsRuns(Booked(b, r, f, -Floor[r]), T, fr)
    BY <1>1, <1>2, BookedOne
  <1> QED
    BY <1>3, <1>4

\* Nothing is booked.
LEMMA BookedNone == ASSUME NEW fr PROVE HoldsRuns([k \in Bookable |-> Blank], {}, fr)
  <1> DEFINE b == [k \in Bookable |-> Blank]
  <1>1. b = [k \in Bookable |-> b[k]]
    OBVIOUS
  <1>2. ASSUME NEW k \in Bookable PROVE Represents(b[k], UseOf({}, fr, k))
    <2>1. b[k] = Blank
      OBVIOUS
    <2>2. UseOf({}, fr, k) = [s \in Slots |-> SumOver({}, Floor)]
      <3>1. \A s \in Slots : {r \in {} : BookedIn(r, fr[r], k, s)} = {}
        OBVIOUS
      <3> QED
        BY <3>1 DEF UseOf
    <2>3. UseOf({}, fr, k) = [s \in Slots |-> 0]
      BY <2>2, SumEmpty
    <2> QED
      BY <2>1, <2>3, BlankRepresents
  <1> HIDE DEF b
  <1>3. HoldsRuns(b, {}, fr)
    BY <1>1, <1>2 DEF HoldsRuns
  <1> QED
    BY <1>3 DEF b

-----------------------------------------------------------------------------
(* The trees of a restored schedule. *)

LEMMA AddTree ==
  ASSUME NEW i \in Spans, NEW n \in Tree, NEW c \in Cut(i), NEW use \in Int
  PROVE  Added[i][<<n, c, use>>] \in Tree
  <1> DEFINE G == {j \in Spans : \A x \in Tree \X Cut(j) \X Int : Added[j][x] \in Tree}
  <1>1. ASSUME NEW j \in Spans, j[1] < j[2] => LeftOf(j) \in G /\ RightOf(j) \in G PROVE j \in G
    <2> SUFFICES ASSUME NEW a \in Tree, NEW d \in Cut(j), NEW w \in Int PROVE Added[j][<<a, d, w>>] \in Tree
      OBVIOUS
    <2>1. Added[j][<<a, d, w>>] = AddStep(Added[LeftOf(j)], Added[RightOf(j)], j, a, d, w)
      BY AddEquation
    <2>2. j[1] < j[2] => /\ \A x \in Tree \X Cut(LeftOf(j)) \X Int : Added[LeftOf(j)][x] \in Tree
                         /\ \A x \in Tree \X Cut(RightOf(j)) \X Int : Added[RightOf(j)][x] \in Tree
      BY <1>1
    <2> DEFINE p == Added[LeftOf(j)]
               q == Added[RightOf(j)]
    <2> HIDE DEF p, q
    <2>3. AddStep(p, q, j, a, d, w) \in Tree
      BY <2>2, AddStepTree DEF p, q
    <2> QED
      BY <2>1, <2>3 DEF p, q
  <1> HIDE DEF G
  <1>2. Spans \subseteq G
    BY <1>1, SpanInduction
  <1> QED
    BY <1>2 DEF G

LEMMA BookTree ==
  ASSUME NEW n \in Tree, NEW l \in Slots, NEW r \in Slots, NEW use \in Int
  PROVE  Book(n, l, r, use) \in Tree
  <1>1. <<0, LastSlot>> \in Spans /\ <<l, r>> \in Cut(<<0, LastSlot>>)
    BY Whole
  <1> QED
    BY <1>1, AddTree DEF Book

\* Recursion over the subsets of a finite set, one element at a time.
Follows(f, F, e, T) == f[T] = IF T = {} THEN e ELSE F[<<First(T), f[T \ {First(T)}]>>]

LEMMA SubsetRecursion ==
  ASSUME NEW S, IsFiniteSet(S), NEW V, NEW e \in V, NEW F \in [S \X V -> V]
  PROVE  \E f \in [SUBSET S -> V] : \A T \in SUBSET S : Follows(f, F, e, T)
  <1> DEFINE H == {w \in Nat : \E f \in [SUBSET S -> V] :
                      \A T \in SUBSET S : Cardinality(T) <= w => Follows(f, F, e, T)}
  <1>0. ASSUME NEW T \in SUBSET S
        PROVE  /\ IsFiniteSet(T) /\ Cardinality(T) \in Nat
               /\ T # {} => /\ First(T) \in T /\ T \ {First(T)} \in SUBSET S
                            /\ Cardinality(T \ {First(T)}) = Cardinality(T) - 1
               /\ Cardinality(T) <= 0 => T = {}
    <2>1. IsFiniteSet(T) /\ Cardinality(T) \in Nat
      BY FS_Subset, FS_CardinalityType
    <2>2. T # {} => First(T) \in T
      BY FirstIn
    <2>3. ASSUME NEW x \in T PROVE Cardinality(T \ {x}) = Cardinality(T) - 1
      BY <2>1, FS_RemoveElement
    <2>4. Cardinality(T) = 0 <=> T = {}
      BY <2>1, FS_EmptySet
    <2> QED
      BY <2>1, <2>2, <2>3, <2>4
  <1>1. 0 \in H
    <2> DEFINE f == [T \in SUBSET S |-> e]
    <2>1. f \in [SUBSET S -> V] /\ \A T \in SUBSET S : Cardinality(T) <= 0 => Follows(f, F, e, T)
      BY <1>0 DEF Follows
    <2> HIDE DEF f
    <2> QED
      BY <2>1
  <1>2. ASSUME NEW w \in Nat, w \in H PROVE w + 1 \in H
    <2>1. PICK g \in [SUBSET S -> V] : \A T \in SUBSET S : Cardinality(T) <= w => Follows(g, F, e, T)
      BY <1>2
    <2> DEFINE new(T) == IF T = {} THEN e ELSE F[<<First(T), g[T \ {First(T)}]>>]
               f == [T \in SUBSET S |-> new(T)]
    <2>2. f \in [SUBSET S -> V]
      <3> SUFFICES ASSUME NEW T \in SUBSET S PROVE new(T) \in V
        OBVIOUS
      <3> QED
        BY <1>0
    <2>3. ASSUME NEW T \in SUBSET S, Cardinality(T) <= w PROVE f[T] = g[T]
      BY <2>1, <2>3 DEF Follows
    <2>4. ASSUME NEW T \in SUBSET S, Cardinality(T) <= w + 1 PROVE Follows(f, F, e, T)
      <3>1. CASE T = {}
        BY <3>1 DEF Follows
      <3>2. CASE T # {}
        <4>1. T \ {First(T)} \in SUBSET S /\ Cardinality(T \ {First(T)}) <= w
          BY <1>0, <2>4, <3>2
        <4>2. f[T \ {First(T)}] = g[T \ {First(T)}]
          BY <2>3, <4>1
        <4>3. f[T] = F[<<First(T), g[T \ {First(T)}]>>]
          BY <3>2
        <4> QED
          BY <3>2, <4>2, <4>3 DEF Follows
      <3> QED
        BY <3>1, <3>2
    <2> HIDE DEF f
    <2> QED
      BY <2>2, <2>4
  <1> HIDE DEF H
  <1>3. Nat \subseteq H
    BY <1>1, <1>2, NatSetInduction
  <1>4. Cardinality(S) \in H /\ Cardinality(S) \in Nat
    BY <1>0, <1>3
  <1>5. PICK f \in [SUBSET S -> V] : \A T \in SUBSET S : Cardinality(T) <= Cardinality(S) => Follows(f, F, e, T)
    BY <1>4 DEF H
  <1>6. \A T \in SUBSET S : Cardinality(T) <= Cardinality(S)
    BY FS_Subset
  <1> QED
    BY <1>5, <1>6

\* RestoreScheduler: the schedule holds the runs it was given.
LEMMA RestoredHolds ==
  ASSUME NEW S \in SUBSET Runs, \A r \in S : from[r] \in Nat /\ WindowFits(r, from[r])
  PROVE  HoldsRuns(Rebooked(S), S, from)
  <1> DEFINE V == [Bookable -> Tree]
             e == [k \in Bookable |-> Blank]
             step(x) == Booked(x[2], x[1], from[x[1]], Floor[x[1]])
             F == [x \in S \X V |-> step(x)]
             Body(g) == [T \in SUBSET S |->
                           IF T = {} THEN e
                           ELSE Booked(g[T \ {First(T)}], First(T), from[First(T)], Floor[First(T)])]
  <1>1. IsFiniteSet(S)
    BY CapacityAssumption, FS_Subset
  <1>2. e \in V
    BY DEF Blank, Tree, NilNode
  <1>3. ASSUME NEW r \in S, NEW b \in V PROVE Booked(b, r, from[r], Floor[r]) \in V
    <2> DEFINE l == SlotOf(from[r])
               x == EndSlotOf(from[r] + Budget(r))
    <2>1. l \in Slots /\ x \in Slots /\ Floor[r] \in Int
      BY WindowSlots, RunFacts
    <2>2. Booked(b, r, from[r], Floor[r]) =
             [k \in Bookable |-> IF k \in Keys(r) THEN Book(b[k], l, x, Floor[r]) ELSE b[k]]
      BY DEF Booked
    <2> HIDE DEF l, x
    <2>3. \A k \in Bookable : b[k] \in Tree /\ Book(b[k], l, x, Floor[r]) \in Tree
      BY <2>1, BookTree
    <2> QED
      BY <2>2, <2>3
  <1>4. F \in [S \X V -> V]
    <2>1. ASSUME NEW x \in S \X V PROVE step(x) \in V
      <3>1. x[1] \in S /\ x[2] \in V
        OBVIOUS
      <3> HIDE DEF V
      <3> QED
        BY <1>3, <3>1
    <2> HIDE DEF step, V
    <2> QED
      BY <2>1
  <1>5. PICK f \in [SUBSET S -> V] : \A T \in SUBSET S : Follows(f, F, e, T)
    <2> HIDE DEF V, F, e
    <2> QED
      BY <1>1, <1>2, <1>4, SubsetRecursion
  <1>6. f = Body(f)
    <2>1. ASSUME NEW T \in SUBSET S
          PROVE  f[T] = IF T = {} THEN e
                        ELSE Booked(f[T \ {First(T)}], First(T), from[First(T)], Floor[First(T)])
      <3>1. CASE T = {}
        BY <1>5, <3>1 DEF Follows
      <3>2. CASE T # {}
        <4> DEFINE x == <<First(T), f[T \ {First(T)}]>>
        <4>1. First(T) \in T
          BY <3>2, FirstIn
        <4>2. x \in S \X V
          <5>1. T \ {First(T)} \in SUBSET S /\ First(T) \in S
            BY <4>1
          <5> HIDE DEF V
          <5> QED
            BY <1>5, <5>1
        <4>3. f[T] = F[x]
          BY <1>5, <3>2 DEF Follows
        <4>4. F[x] = step(x)
          <5> HIDE DEF V, x, step
          <5> QED
            BY <4>2
        <4> QED
          BY <3>2, <4>3, <4>4
      <3> QED
        BY <3>1, <3>2
    <2>2. f = [T \in SUBSET S |-> f[T]]
      OBVIOUS
    <2> HIDE DEF V, e
    <2> QED
      BY <2>1, <2>2
  <1>7. Rebooked(S) = (CHOOSE h : h = Body(h))[S]
    BY DEF Rebooked, First, Bookable
  <1> DEFINE h == CHOOSE h : h = Body(h)
  <1>8. h = Body(h)
    <2> HIDE DEF Body
    <2> QED
      BY <1>6
  <1>9. Rebooked(S) = h[S]
    BY <1>7
  <1> HIDE DEF h
  <1>10. ASSUME NEW T \in SUBSET S
         PROVE  h[T] = IF T = {} THEN e
                       ELSE Booked(h[T \ {First(T)}], First(T), from[First(T)], Floor[First(T)])
    <2>1. Body(h)[T] = IF T = {} THEN e
                       ELSE Booked(h[T \ {First(T)}], First(T), from[First(T)], Floor[First(T)])
      OBVIOUS
    <2> HIDE DEF Body
    <2> QED
      BY <1>8, <2>1
  <1> DEFINE G == {T \in SUBSET S : HoldsRuns(h[T], T, from)}
  <1>11. ASSUME NEW T \in SUBSET S, \A U \in SUBSET T : U # T => U \in G PROVE T \in G
    <2>1. CASE T = {}
      <3>1. h[T] = e
        BY <1>10, <2>1
      <3> QED
        BY <2>1, <3>1, BookedNone
    <2>2. CASE T # {}
      <3> DEFINE r == First(T)
                 U == T \ {r}
      <3>1. r \in T
        BY <2>2, FirstIn
      <3>2. U \in SUBSET T /\ U # T
        BY <3>1
      <3>3. HoldsRuns(h[U], U, from)
        BY <1>11, <3>2
      <3>4. h[T] = Booked(h[U], r, from[r], Floor[r])
        BY <1>10, <2>2
      <3>5. /\ U \in SUBSET Runs /\ T \in SUBSET Runs /\ r \in Runs /\ Joins(r, U, from, T, from)
            /\ from[r] \in Nat /\ WindowFits(r, from[r])
        BY <3>1 DEF Joins
      <3> HIDE DEF r, U
      <3>6. HoldsRuns(Booked(h[U], r, from[r], Floor[r]), T, from)
        BY <3>3, <3>5, BookedAdd
      <3> QED
        BY <3>4, <3>6
    <2> QED
      BY <2>1, <2>2
  <1>12. SUBSET S \subseteq G
    <2> HIDE DEF G
    <2> QED
      BY <1>1, <1>11, SubsetInduction
  <1>13. S \in G
    BY <1>12
  <1> QED
    BY <1>9, <1>13

-----------------------------------------------------------------------------
(* What is charged: the floors of the runs that are recorded. *)

Charging(b, d) == {r \in Runs : <<r, d>> \in b.active}

ChargedExactly(b) ==
  /\ b.active \in SUBSET (Runs \X Destinations)
  /\ \A d \in Destinations : b.used[d] = SumOver(Charging(b, d), Floor)

LEMMA ChargingFacts ==
  ASSUME NEW b, NEW d
  PROVE  /\ Charging(b, d) \in SUBSET Runs /\ IsFiniteSet(Charging(b, d))
         /\ \A x \in Charging(b, d) : Floor[x] \in Nat
         /\ SumOver(Charging(b, d), Floor) \in Nat
  <1>1. Charging(b, d) \in SUBSET Runs
    BY DEF Charging
  <1>2. IsFiniteSet(Charging(b, d)) /\ \A x \in Charging(b, d) : Floor[x] \in Nat
    BY <1>1, CapacityAssumption, FS_Subset, RunFacts
  <1> QED
    BY <1>1, <1>2, SumNat

\* charge records the run on destinations where it was not recorded.
LEMMA ChargedIsExact ==
  ASSUME NEW b, ChargedExactly(b), NEW r \in Runs, NEW D \in SUBSET Destinations,
         \A d \in D : <<r, d>> \notin b.active
  PROVE  ChargedExactly(Charged(b, r, D))
  <1> DEFINE c == Charged(b, r, D)
  <1>1. /\ c.active = b.active \cup ({r} \X D)
        /\ \A d \in Destinations : c.used[d] = IF d \in D THEN b.used[d] + Floor[r] ELSE b.used[d]
    BY DEF Charged
  <1> HIDE DEF c
  <1>2. c.active \in SUBSET (Runs \X Destinations)
    BY <1>1 DEF ChargedExactly
  <1>3. ASSUME NEW d \in Destinations PROVE c.used[d] = SumOver(Charging(c, d), Floor)
    <2> DEFINE A == Charging(b, d)
    <2>1. b.used[d] = SumOver(A, Floor)
      BY DEF ChargedExactly
    <2>2. CASE d \in D
      <3>1. Charging(c, d) = A \cup {r} /\ r \notin A
        BY <1>1, <2>2 DEF Charging
      <3>2. IsFiniteSet(A) /\ (\A x \in A : Floor[x] \in Int) /\ Floor[r] \in Int
        BY ChargingFacts, RunFacts
      <3> HIDE DEF A
      <3>3. SumOver(A \cup {r}, Floor) = SumOver(A, Floor) + Floor[r]
        BY <3>1, <3>2, SumAdd
      <3> QED
        BY <1>1, <2>1, <2>2, <3>1, <3>3
    <2>3. CASE d \notin D
      <3>1. Charging(c, d) = A
        BY <1>1, <2>3 DEF Charging
      <3> QED
        BY <1>1, <2>1, <2>3, <3>1
    <2> QED
      BY <2>2, <2>3
  <1>4. ChargedExactly(c)
    BY <1>2, <1>3 DEF ChargedExactly
  <1> QED
    BY <1>4 DEF c

\* Remove gives back what was recorded.
LEMMA RemovedIsExact ==
  ASSUME NEW b, ChargedExactly(b), NEW r \in Runs, NEW D \in SUBSET Destinations
  PROVE  /\ ChargedExactly(Removed(b, r, D))
         /\ Removed(b, r, D).active = b.active \ ({r} \X D)
         /\ \A d \in Destinations : Removed(b, r, D).used[d] \in Nat /\ Removed(b, r, D).used[d] <= b.used[d]
  <1> DEFINE c == Removed(b, r, D)
             gone == {d \in D : <<r, d>> \in b.active}
  <1>1. /\ c.active = b.active \ ({r} \X gone)
        /\ \A d \in Destinations : c.used[d] = IF d \in gone THEN b.used[d] - Floor[r] ELSE b.used[d]
    BY DEF Removed
  <1>2. c.active = b.active \ ({r} \X D)
    BY <1>1
  <1> HIDE DEF c
  <1>3. c.active \in SUBSET (Runs \X Destinations)
    BY <1>1 DEF ChargedExactly
  <1>4. ASSUME NEW d \in Destinations
        PROVE  c.used[d] = SumOver(Charging(c, d), Floor) /\ c.used[d] \in Nat /\ c.used[d] <= b.used[d]
    <2> DEFINE A == Charging(b, d)
    <2>1. b.used[d] = SumOver(A, Floor)
      BY DEF ChargedExactly
    <2>2. CASE d \in gone
      <3>1. Charging(c, d) = A \ {r} /\ r \in A
        BY <1>2, <2>2 DEF Charging
      <3>2. IsFiniteSet(A) /\ (\A x \in A : Floor[x] \in Int) /\ Floor[r] \in Nat /\ SumOver(Charging(c, d), Floor) \in Nat
        BY ChargingFacts, RunFacts
      <3> HIDE DEF A
      <3>3. SumOver(A, Floor) = Floor[r] + SumOver(A \ {r}, Floor)
        BY <3>1, <3>2, SumRemove
      <3>4. c.used[d] = b.used[d] - Floor[r]
        BY <1>1, <2>2
      <3> QED
        BY <2>1, <3>1, <3>2, <3>3, <3>4
    <2>3. CASE d \notin gone
      <3>1. Charging(c, d) = A
        BY <1>2, <2>3 DEF Charging
      <3>2. c.used[d] = b.used[d]
        BY <1>1, <2>3
      <3>3. SumOver(A, Floor) \in Nat
        BY ChargingFacts
      <3> QED
        BY <2>1, <3>1, <3>2, <3>3
    <2> QED
      BY <2>2, <2>3
  <1>5. ChargedExactly(c)
    BY <1>3, <1>4 DEF ChargedExactly
  <1> QED
    BY <1>2, <1>4, <1>5 DEF c

\* Allocate: all the destinations of the run are charged, each within its capacity, or none.
LEMMA AllocatedIsExact ==
  ASSUME NEW r \in Runs, ChargedExactly(books), \A d \in Destinations : <<r, d>> \notin books.active
  PROVE  /\ ChargedExactly(Allocated(books, r))
         /\ Fails(books, r) =>
              /\ Allocated(books, r).active = books.active
              /\ \A d \in Destinations : Allocated(books, r).used[d] = books.used[d]
         /\ ~ Fails(books, r) =>
              /\ Allocated(books, r).active = books.active \cup ({r} \X Range(Route[r]))
              /\ \A d \in Destinations :
                   Allocated(books, r).used[d] = books.used[d] \/ Allocated(books, r).used[d] <= Cap(d)
  <1> DEFINE new == ChargedBefore(books, r)
             c == Charged(books, r, new)
             a == Allocated(books, r)
  <1>1. /\ Route[r] \in Seq(Destinations) /\ Range(Route[r]) \subseteq Destinations
        /\ Range(Route[r]) = {Route[r][i] : i \in DOMAIN Route[r]}
    BY RunFacts DEF Range
  <1>2. new \subseteq Range(Route[r]) /\ new \in SUBSET Destinations
    BY <1>1 DEF ChargedBefore
  <1>3. \A i \in DOMAIN Route[r] : Fresh(books, r, i)
    BY <1>1 DEF Fresh
  <1> HIDE DEF new
  <1>4. ChargedExactly(c)
    BY <1>2, ChargedIsExact
  <1>5. c.active = books.active \cup ({r} \X new)
    BY DEF Charged
  <1>6. CASE Fails(books, r)
    <2>1. a = Removed(c, r, new)
      BY <1>6 DEF Allocated, new
    <2> HIDE DEF a, c
    <2>2. ChargedExactly(a) /\ a.active = c.active \ ({r} \X new)
      BY <1>2, <1>4, <2>1, RemovedIsExact
    <2>3. a.active = books.active
      BY <1>2, <1>5, <2>2 DEF ChargedExactly
    <2>4. \A d \in Destinations : a.used[d] = books.used[d]
      <3>1. \A d \in Destinations : Charging(a, d) = Charging(books, d)
        BY <2>3 DEF Charging
      <3> QED
        BY <2>2, <3>1 DEF ChargedExactly
    <2> QED
      BY <1>6, <2>2, <2>3, <2>4 DEF a
  <1>7. CASE ~ Fails(books, r)
    <2>1. a = c
      BY <1>7 DEF Allocated, new
    <2>2. \A i \in DOMAIN Route[r] : ~ Refuses(books, r, i)
      BY <1>7 DEF Fails
    <2>3. \A i \in DOMAIN Route[r] : \A j \in 1 .. i : j \in DOMAIN Route[r]
      BY <1>1
    <2>4. new = Range(Route[r])
      BY <1>1, <1>3, <2>2, <2>3 DEF ChargedBefore, new
    <2>5. ASSUME NEW d \in Destinations PROVE a.used[d] = books.used[d] \/ a.used[d] <= Cap(d)
      <3>1. a.used[d] = IF d \in new THEN books.used[d] + Floor[r] ELSE books.used[d]
        BY <2>1 DEF Charged
      <3>2. ASSUME d \in new PROVE books.used[d] + Floor[r] <= Cap(d)
        <4>1. PICK i \in DOMAIN Route[r] : d = Route[r][i]
          BY <1>1, <2>4, <3>2
        <4>2. CanCharge(books, r, d)
          BY <1>3, <2>2, <4>1 DEF Refuses
        <4> QED
          BY <4>2 DEF CanCharge
      <3> QED
        BY <3>1, <3>2
    <2> HIDE DEF a, c
    <2> QED
      BY <1>4, <1>5, <1>7, <2>1, <2>4, <2>5 DEF a
  <1> QED
    BY <1>6, <1>7

-----------------------------------------------------------------------------
(* The totals and the trees of the shares. *)

\* The runs an executor has on a destination, what they add up to and what they can still use.
ChargingOf(b, e, d) == {r \in Charging(b, d) : Owner[r] = e}

TotalOf(S) == [minimum |-> SumOver(S, Floor), maximum |-> SumOver(S, Ceil), runs |-> Cardinality(S)]

Spare(S) == SumOver(S, Ceil) - SumOver(S, Floor)

SpareOn(b, d) == [e \in {e \in Owners : ChargingOf(b, e, d) # {}} |-> Spare(ChargingOf(b, e, d))]

SharedOn(b, d) ==
  /\ \A e \in Owners : b.total[e][d] = TotalOf(ChargingOf(b, e, d))
  /\ Tidy(b.share[d])
  /\ b.share[d].refs = SpareOn(b, d)

SharedExactly(b) ==
  /\ b.total = [e \in Owners |-> b.total[e]]
  /\ \A d \in Destinations : SharedOn(b, d)

\* The totals of a set of runs.
LEMMA TotalFacts ==
  ASSUME NEW S \in SUBSET Runs
  PROVE  /\ IsFiniteSet(S) /\ (\A x \in S : Floor[x] \in Int /\ Ceil[x] \in Int)
         /\ SumOver(S, Floor) \in Nat /\ SumOver(S, Ceil) \in Nat /\ SumOver(S, Floor) <= SumOver(S, Ceil)
         /\ Spare(S) \in Nat /\ Cardinality(S) \in Nat /\ (S = {} <=> Cardinality(S) = 0)
  <1>1. IsFiniteSet(S)
    BY CapacityAssumption, FS_Subset
  <1>2. \A x \in S : Floor[x] \in Nat /\ Ceil[x] \in Nat /\ Floor[x] <= Ceil[x]
    BY CapacityAssumption
  <1>3. SumOver(S, Floor) \in Nat /\ SumOver(S, Ceil) \in Nat
    BY <1>1, <1>2, SumNat
  <1>4. SumOver(S, Floor) <= SumOver(S, Ceil)
    BY <1>1, <1>2, SumLarger
  <1> QED
    BY <1>1, <1>2, <1>3, <1>4, FS_CardinalityType, FS_EmptySet DEF Spare

\* One run more, or one less.
LEMMA TotalOneMore ==
  ASSUME NEW S \in SUBSET Runs, NEW r \in Runs, r \notin S
  PROVE  /\ SumOver(S \cup {r}, Floor) = SumOver(S, Floor) + Floor[r]
         /\ SumOver(S \cup {r}, Ceil) = SumOver(S, Ceil) + Ceil[r]
         /\ Cardinality(S \cup {r}) = Cardinality(S) + 1
         /\ Floor[r] \in Nat /\ Ceil[r] \in Nat
  <1>1. IsFiniteSet(S) /\ \A x \in S : Floor[x] \in Int /\ Ceil[x] \in Int
    BY TotalFacts
  <1>2. Floor[r] \in Nat /\ Ceil[r] \in Nat
    BY CapacityAssumption
  <1>3. SumOver(S \cup {r}, Floor) = SumOver(S, Floor) + Floor[r]
    BY <1>1, <1>2, SumAdd
  <1>4. SumOver(S \cup {r}, Ceil) = SumOver(S, Ceil) + Ceil[r]
    BY <1>1, <1>2, SumAdd
  <1>5. Cardinality(S \cup {r}) = Cardinality(S) + 1
    BY <1>1, FS_AddElement
  <1> QED
    BY <1>2, <1>3, <1>4, <1>5

\* The totals with one more run.
LEMMA TotalWithMore ==
  ASSUME NEW b, NEW r \in Runs, NEW d, NEW S \in SUBSET Runs, r \notin S,
         b.total[Owner[r]][d] = TotalOf(S)
  PROVE  TotalWith(b, r, d, 1) = TotalOf(S \cup {r}) /\ Residual(TotalWith(b, r, d, 1)) = Spare(S \cup {r})
  <1>1. /\ SumOver(S \cup {r}, Floor) = SumOver(S, Floor) + Floor[r]
        /\ SumOver(S \cup {r}, Ceil) = SumOver(S, Ceil) + Ceil[r]
        /\ Cardinality(S \cup {r}) = Cardinality(S) + 1
        /\ Floor[r] \in Nat /\ Ceil[r] \in Nat
    BY TotalOneMore
  <1>2. SumOver(S, Floor) + 1 * Floor[r] = SumOver(S \cup {r}, Floor) /\ SumOver(S, Ceil) + 1 * Ceil[r] = SumOver(S \cup {r}, Ceil)
    BY <1>1
  <1>3. TotalWith(b, r, d, 1) = TotalOf(S \cup {r})
    BY <1>1, <1>2 DEF TotalWith, TotalOf
  <1> QED
    BY <1>3 DEF Residual, Spare, TotalOf

\* The totals with one run less.
LEMMA TotalWithLess ==
  ASSUME NEW b, NEW r \in Runs, NEW d, NEW S \in SUBSET Runs, r \in S,
         b.total[Owner[r]][d] = TotalOf(S)
  PROVE  TotalWith(b, r, d, -1) = TotalOf(S \ {r}) /\ Residual(TotalWith(b, r, d, -1)) = Spare(S \ {r})
  <1> DEFINE T == S \ {r}
  <1>1. T \in SUBSET Runs /\ r \notin T /\ T \cup {r} = S
    OBVIOUS
  <1> HIDE DEF T
  <1>2. /\ SumOver(S, Floor) = SumOver(T, Floor) + Floor[r]
        /\ SumOver(S, Ceil) = SumOver(T, Ceil) + Ceil[r]
        /\ Cardinality(S) = Cardinality(T) + 1
        /\ Floor[r] \in Nat /\ Ceil[r] \in Nat
    BY <1>1, TotalOneMore
  <1>3. SumOver(T, Floor) \in Nat /\ SumOver(T, Ceil) \in Nat /\ Cardinality(T) \in Nat
    BY <1>1, TotalFacts
  <1>4. /\ SumOver(S, Floor) + (-1) * Floor[r] = SumOver(T, Floor)
        /\ SumOver(S, Ceil) + (-1) * Ceil[r] = SumOver(T, Ceil)
        /\ Cardinality(S) + (-1) = Cardinality(T)
    BY <1>2, <1>3
  <1>5. TotalWith(b, r, d, -1) = TotalOf(T)
    BY <1>4 DEF TotalWith, TotalOf
  <1> QED
    BY <1>5 DEF Residual, Spare, TotalOf, T

\* A run joins a destination.
LEMMA SharedJoin ==
  ASSUME NEW b, NEW c, NEW d, SharedOn(b, d), NEW r \in Runs,
         r \notin Charging(b, d), Charging(c, d) = Charging(b, d) \cup {r},
         c.total[Owner[r]][d] = TotalWith(b, r, d, 1),
         \A e \in Owners \ {Owner[r]} : c.total[e][d] = b.total[e][d],
         c.share[d] = Replace(b.share[d], Owner[r], Residual(TotalWith(b, r, d, 1)))
  PROVE  SharedOn(c, d)
  <1> DEFINE o == Owner[r]
             S == ChargingOf(b, o, d)
  <1>1. o \in Owners
    BY RunFacts
  <1>2. S \in SUBSET Runs /\ r \notin S /\ ChargingOf(c, o, d) = S \cup {r}
    BY DEF ChargingOf, Charging
  <1>3. \A e \in Owners \ {o} : ChargingOf(c, e, d) = ChargingOf(b, e, d)
    BY DEF ChargingOf
  <1>4. b.total[o][d] = TotalOf(S)
    BY <1>1 DEF SharedOn
  <1> HIDE DEF S
  <1>5. TotalWith(b, r, d, 1) = TotalOf(S \cup {r}) /\ Residual(TotalWith(b, r, d, 1)) = Spare(S \cup {r})
    BY <1>2, <1>4, TotalWithMore
  <1>6. Spare(S \cup {r}) \in Nat
    <2>1. S \cup {r} \in SUBSET Runs
      BY <1>2
    <2> QED
      BY <2>1, TotalFacts
  <1>7. Tidy(b.share[d]) /\ b.share[d].refs = SpareOn(b, d)
    BY DEF SharedOn
  <1>8. Tidy(c.share[d]) /\ c.share[d].refs = With(SpareOn(b, d), o, Spare(S \cup {r}))
    BY <1>5, <1>6, <1>7, ReplaceTidy
  <1>9. With(SpareOn(b, d), o, Spare(S \cup {r})) = SpareOn(c, d)
    <2> DEFINE E == {e \in Owners : ChargingOf(b, e, d) # {}}
               F == {e \in Owners : ChargingOf(c, e, d) # {}}
    <2>1. F = E \cup {o}
      BY <1>1, <1>2, <1>3
    <2>2. DOMAIN SpareOn(b, d) = E
      BY DEF SpareOn
    <2>3. \A e \in F : SpareOn(c, d)[e] = IF e = o THEN Spare(S \cup {r}) ELSE SpareOn(b, d)[e]
      <3> SUFFICES ASSUME NEW e \in F PROVE SpareOn(c, d)[e] = IF e = o THEN Spare(S \cup {r}) ELSE SpareOn(b, d)[e]
        OBVIOUS
      <3>1. SpareOn(c, d)[e] = Spare(ChargingOf(c, e, d))
        BY DEF SpareOn
      <3>2. CASE e = o
        BY <1>2, <3>1, <3>2
      <3>3. CASE e # o
        <4>1. e \in E /\ ChargingOf(c, e, d) = ChargingOf(b, e, d)
          BY <1>3, <2>1, <3>3
        <4>2. SpareOn(b, d)[e] = Spare(ChargingOf(b, e, d))
          BY <4>1 DEF SpareOn
        <4> QED
          BY <3>1, <3>3, <4>1, <4>2
      <3> QED
        BY <3>2, <3>3
    <2>4. SpareOn(c, d) = [e \in F |-> SpareOn(c, d)[e]]
      BY DEF SpareOn
    <2>5. With(SpareOn(b, d), o, Spare(S \cup {r})) = [e \in F |-> IF e = o THEN Spare(S \cup {r}) ELSE SpareOn(b, d)[e]]
      BY <2>1, <2>2 DEF With
    <2> HIDE DEF E, F, o
    <2> QED
      BY <2>3, <2>4, <2>5
  <1>10. ASSUME NEW e \in Owners PROVE c.total[e][d] = TotalOf(ChargingOf(c, e, d))
    <2>1. CASE e = o
      BY <1>2, <1>5, <2>1
    <2>2. CASE e # o
      <3>1. c.total[e][d] = b.total[e][d] /\ ChargingOf(c, e, d) = ChargingOf(b, e, d)
        BY <1>3, <2>2
      <3> QED
        BY <3>1 DEF SharedOn
    <2> QED
      BY <2>1, <2>2
  <1> QED
    BY <1>8, <1>9, <1>10 DEF SharedOn

\* A run leaves a destination; with its last run there its executor leaves the tree.
LEMMA SharedLeave ==
  ASSUME NEW b, NEW c, NEW d, SharedOn(b, d), NEW r \in Runs,
         r \in Charging(b, d), Charging(c, d) = Charging(b, d) \ {r},
         c.total[Owner[r]][d] = TotalWith(b, r, d, -1),
         \A e \in Owners \ {Owner[r]} : c.total[e][d] = b.total[e][d],
         c.share[d] = IF TotalWith(b, r, d, -1).runs > 0
                      THEN Replace(b.share[d], Owner[r], Residual(TotalWith(b, r, d, -1)))
                      ELSE DeleteMember(b.share[d], Owner[r])
  PROVE  SharedOn(c, d)
  <1> DEFINE o == Owner[r]
             S == ChargingOf(b, o, d)
             T == S \ {r}
             E == {e \in Owners : ChargingOf(b, e, d) # {}}
             F == {e \in Owners : ChargingOf(c, e, d) # {}}
  <1>1. o \in Owners
    BY RunFacts
  <1>2. S \in SUBSET Runs /\ r \in S /\ ChargingOf(c, o, d) = T /\ T \in SUBSET Runs
    BY DEF ChargingOf, Charging
  <1>3. \A e \in Owners \ {o} : ChargingOf(c, e, d) = ChargingOf(b, e, d)
    BY DEF ChargingOf
  <1>4. b.total[o][d] = TotalOf(S)
    BY <1>1 DEF SharedOn
  <1>5. TotalWith(b, r, d, -1) = TotalOf(T) /\ Residual(TotalWith(b, r, d, -1)) = Spare(T)
    <2> HIDE DEF S
    <2> QED
      BY <1>2, <1>4, TotalWithLess
  <1>a. o \in E
    BY <1>1, <1>2
  <1> HIDE DEF S, T
  <1>6. Spare(T) \in Nat /\ Cardinality(T) \in Nat /\ (T = {} <=> Cardinality(T) = 0)
    BY <1>2, TotalFacts
  <1>7. TotalWith(b, r, d, -1).runs = Cardinality(T)
    BY <1>5 DEF TotalOf
  <1>8. Tidy(b.share[d]) /\ b.share[d].refs = SpareOn(b, d)
    BY DEF SharedOn
  <1>9. DOMAIN SpareOn(b, d) = E /\ SpareOn(c, d) = [e \in F |-> SpareOn(c, d)[e]]
    BY DEF SpareOn
  <1>10. \A e \in F : SpareOn(c, d)[e] = IF e = o THEN Spare(T) ELSE SpareOn(b, d)[e]
    <2> SUFFICES ASSUME NEW e \in F PROVE SpareOn(c, d)[e] = IF e = o THEN Spare(T) ELSE SpareOn(b, d)[e]
      OBVIOUS
    <2>1. SpareOn(c, d)[e] = Spare(ChargingOf(c, e, d))
      BY DEF SpareOn
    <2>2. CASE e = o
      BY <1>2, <2>1, <2>2
    <2>3. CASE e # o
      <3>1. e \in E /\ ChargingOf(c, e, d) = ChargingOf(b, e, d)
        BY <1>3, <2>3
      <3>2. SpareOn(b, d)[e] = Spare(ChargingOf(b, e, d))
        BY <3>1 DEF SpareOn
      <3> QED
        BY <2>1, <2>3, <3>1, <3>2
    <2> QED
      BY <2>2, <2>3
  <1>11. Tidy(c.share[d]) /\ c.share[d].refs = SpareOn(c, d)
    <2>1. CASE T # {}
      <3>1. F = E
        BY <1>1, <1>2, <1>3, <1>a, <2>1
      <3>2. c.share[d] = Replace(b.share[d], o, Spare(T))
        BY <1>5, <1>6, <1>7, <2>1
      <3>3. Tidy(c.share[d]) /\ c.share[d].refs = With(SpareOn(b, d), o, Spare(T))
        BY <1>6, <1>8, <3>2, ReplaceTidy
      <3>4. With(SpareOn(b, d), o, Spare(T)) = [e \in F |-> IF e = o THEN Spare(T) ELSE SpareOn(b, d)[e]]
        <4>1. E \cup {o} = F
          BY <1>a, <3>1
        <4> HIDE DEF E, F, o
        <4> QED
          BY <1>9, <4>1 DEF With
      <3> HIDE DEF E, F, o
      <3> QED
        BY <1>9, <1>10, <3>3, <3>4
    <2>2. CASE T = {}
      <3>1. F = E \ {o}
        BY <1>1, <1>2, <1>3, <1>a, <2>2
      <3>2. c.share[d] = DeleteMember(b.share[d], o)
        BY <1>5, <1>6, <1>7, <2>2
      <3>3. Tidy(c.share[d]) /\ c.share[d].refs = [i \in E \ {o} |-> SpareOn(b, d)[i]]
        <4> HIDE DEF E, o
        <4>1. o \in DOMAIN b.share[d].refs
          BY <1>a, <1>8, <1>9
        <4>2. Tidy(DeleteMember(b.share[d], o))
          BY <1>8, DeleteTidy
        <4>3. DeleteMember(b.share[d], o).refs = [i \in DOMAIN b.share[d].refs \ {o} |-> b.share[d].refs[i]]
          BY <1>8, <4>1, DeleteTidy
        <4> QED
          BY <1>8, <1>9, <3>2, <4>2, <4>3
      <3>4. o \notin F
        BY <3>1
      <3> HIDE DEF E, F, o
      <3> QED
        BY <1>9, <1>10, <3>1, <3>3, <3>4
    <2> QED
      BY <2>1, <2>2
  <1>12. ASSUME NEW e \in Owners PROVE c.total[e][d] = TotalOf(ChargingOf(c, e, d))
    <2>1. CASE e = o
      BY <1>2, <1>5, <2>1
    <2>2. CASE e # o
      <3>1. c.total[e][d] = b.total[e][d] /\ ChargingOf(c, e, d) = ChargingOf(b, e, d)
        BY <1>3, <2>2
      <3> QED
        BY <3>1 DEF SharedOn
    <2> QED
      BY <2>1, <2>2
  <1> QED
    BY <1>11, <1>12 DEF SharedOn

\* Nothing changes on a destination.
LEMMA SharedSame ==
  ASSUME NEW b, NEW c, NEW d, SharedOn(b, d), Charging(c, d) = Charging(b, d),
         \A e \in Owners : c.total[e][d] = b.total[e][d], c.share[d] = b.share[d]
  PROVE  SharedOn(c, d)
  <1>1. \A e : ChargingOf(c, e, d) = ChargingOf(b, e, d)
    BY DEF ChargingOf
  <1>2. SpareOn(c, d) = SpareOn(b, d)
    BY <1>1 DEF SpareOn
  <1> QED
    BY <1>1, <1>2 DEF SharedOn

\* Nothing is charged.
LEMMA NoneShared == SharedExactly(NoCharges)
  <1> DEFINE b == NoCharges
  <1>1. b.active = {} /\ b.total = [e \in Owners |-> [d \in Destinations |-> [minimum |-> 0, maximum |-> 0, runs |-> 0]]]
        /\ b.share = [d \in Destinations |-> NoTree]
    BY DEF NoCharges
  <1> HIDE DEF b
  <1>2. \A e, d : ChargingOf(b, e, d) = {}
    BY <1>1 DEF ChargingOf, Charging
  <1>3. TotalOf({}) = [minimum |-> 0, maximum |-> 0, runs |-> 0]
    BY SumEmpty, FS_EmptySet DEF TotalOf
  <1>4. ASSUME NEW d \in Destinations PROVE SharedOn(b, d)
    <2>1. \A e \in Owners : b.total[e][d] = TotalOf(ChargingOf(b, e, d))
      BY <1>1, <1>2, <1>3
    <2>2. b.share[d] = NoTree
      BY <1>1
    <2>3. SpareOn(b, d) = [i \in {} |-> 0]
      <3>1. {e \in Owners : ChargingOf(b, e, d) # {}} = {}
        BY <1>2
      <3> QED
        BY <3>1 DEF SpareOn
    <2> QED
      BY <2>1, <2>2, <2>3, NoTreeTidy DEF SharedOn
  <1>5. b.total = [e \in Owners |-> b.total[e]]
    BY <1>1
  <1> QED
    BY <1>4, <1>5 DEF SharedExactly, b

\* charge.
LEMMA ChargedShares ==
  ASSUME NEW b, SharedExactly(b), NEW r \in Runs, NEW D \in SUBSET Destinations,
         \A d \in D : <<r, d>> \notin b.active
  PROVE  SharedExactly(Charged(b, r, D))
  <1> DEFINE c == Charged(b, r, D)
             o == Owner[r]
  <1>1. /\ c.active = b.active \cup ({r} \X D)
        /\ c.total = [b.total EXCEPT ![o] = [d \in Destinations |-> IF d \in D THEN TotalWith(b, r, d, 1) ELSE b.total[o][d]]]
        /\ \A d \in Destinations : c.share[d] = IF d \in D THEN Replace(b.share[d], o, Residual(TotalWith(b, r, d, 1))) ELSE b.share[d]
    BY DEF Charged
  <1>2. o \in Owners /\ b.total = [e \in Owners |-> b.total[e]]
    BY RunFacts DEF SharedExactly
  <1> HIDE DEF c, o
  <1>3. /\ c.total = [e \in Owners |-> c.total[e]]
        /\ \A e \in Owners \ {o} : c.total[e] = b.total[e]
        /\ \A d \in Destinations : c.total[o][d] = IF d \in D THEN TotalWith(b, r, d, 1) ELSE b.total[o][d]
    BY <1>1, <1>2
  <1>4. ASSUME NEW d \in Destinations PROVE SharedOn(c, d)
    <2>0. SharedOn(b, d)
      BY DEF SharedExactly
    <2>1. CASE d \in D
      <3>1. r \notin Charging(b, d) /\ Charging(c, d) = Charging(b, d) \cup {r}
        BY <1>1, <2>1 DEF Charging
      <3>2. c.total[Owner[r]][d] = TotalWith(b, r, d, 1) /\ \A e \in Owners \ {Owner[r]} : c.total[e][d] = b.total[e][d]
        BY <1>3, <2>1 DEF o
      <3>3. c.share[d] = Replace(b.share[d], Owner[r], Residual(TotalWith(b, r, d, 1)))
        BY <1>1, <2>1 DEF o
      <3> QED
        BY <2>0, <3>1, <3>2, <3>3, SharedJoin
    <2>2. CASE d \notin D
      <3>1. Charging(c, d) = Charging(b, d)
        BY <1>1, <2>2 DEF Charging
      <3>2. c.share[d] = b.share[d] /\ \A e \in Owners : c.total[e][d] = b.total[e][d]
        BY <1>1, <1>3, <2>2
      <3> QED
        BY <2>0, <3>1, <3>2, SharedSame
    <2> QED
      BY <2>1, <2>2
  <1>5. SharedExactly(c)
    BY <1>3, <1>4 DEF SharedExactly
  <1> QED
    BY <1>5 DEF c

\* Remove.
LEMMA RemovedShares ==
  ASSUME NEW b, SharedExactly(b), NEW r \in Runs, NEW D \in SUBSET Destinations
  PROVE  SharedExactly(Removed(b, r, D))
  <1> DEFINE c == Removed(b, r, D)
             o == Owner[r]
             gone == {d \in D : <<r, d>> \in b.active}
  <1>1. /\ c.active = b.active \ ({r} \X gone)
        /\ c.total = [b.total EXCEPT ![o] = [d \in Destinations |-> IF d \in gone THEN TotalWith(b, r, d, -1) ELSE b.total[o][d]]]
        /\ \A d \in Destinations :
             c.share[d] = IF d \in gone
                          THEN IF TotalWith(b, r, d, -1).runs > 0
                               THEN Replace(b.share[d], o, Residual(TotalWith(b, r, d, -1)))
                               ELSE DeleteMember(b.share[d], o)
                          ELSE b.share[d]
    BY DEF Removed
  <1>2. o \in Owners /\ b.total = [e \in Owners |-> b.total[e]]
    BY RunFacts DEF SharedExactly
  <1>g. \A d \in gone : <<r, d>> \in b.active
    OBVIOUS
  <1> HIDE DEF c, o, gone
  <1>3. /\ c.total = [e \in Owners |-> c.total[e]]
        /\ \A e \in Owners \ {o} : c.total[e] = b.total[e]
        /\ \A d \in Destinations : c.total[o][d] = IF d \in gone THEN TotalWith(b, r, d, -1) ELSE b.total[o][d]
    BY <1>1, <1>2
  <1>4. ASSUME NEW d \in Destinations PROVE SharedOn(c, d)
    <2>0. SharedOn(b, d)
      BY DEF SharedExactly
    <2>1. CASE d \in gone
      <3>1. r \in Charging(b, d) /\ Charging(c, d) = Charging(b, d) \ {r}
        BY <1>1, <1>g, <2>1 DEF Charging
      <3>2. c.total[Owner[r]][d] = TotalWith(b, r, d, -1) /\ \A e \in Owners \ {Owner[r]} : c.total[e][d] = b.total[e][d]
        BY <1>3, <2>1 DEF o
      <3>3. c.share[d] = IF TotalWith(b, r, d, -1).runs > 0
                         THEN Replace(b.share[d], Owner[r], Residual(TotalWith(b, r, d, -1)))
                         ELSE DeleteMember(b.share[d], Owner[r])
        BY <1>1, <2>1 DEF o
      <3> QED
        BY <2>0, <3>1, <3>2, <3>3, SharedLeave
    <2>2. CASE d \notin gone
      <3>1. Charging(c, d) = Charging(b, d)
        BY <1>1, <2>2 DEF Charging
      <3>2. c.share[d] = b.share[d] /\ \A e \in Owners : c.total[e][d] = b.total[e][d]
        BY <1>1, <1>3, <2>2
      <3> QED
        BY <2>0, <3>1, <3>2, SharedSame
    <2> QED
      BY <2>1, <2>2
  <1>5. SharedExactly(c)
    BY <1>3, <1>4 DEF SharedExactly
  <1> QED
    BY <1>5 DEF c

\* Allocate.
LEMMA AllocatedShares ==
  ASSUME NEW r \in Runs, SharedExactly(books), \A d \in Destinations : <<r, d>> \notin books.active
  PROVE  SharedExactly(Allocated(books, r))
  <1> DEFINE new == ChargedBefore(books, r)
             c == Charged(books, r, new)
  <1>1. Range(Route[r]) \subseteq Destinations /\ Range(Route[r]) = {Route[r][i] : i \in DOMAIN Route[r]}
    BY RunFacts DEF Range
  <1>2. new \in SUBSET Destinations
    BY <1>1 DEF ChargedBefore
  <1> HIDE DEF new
  <1>3. SharedExactly(c)
    BY <1>2, ChargedShares
  <1>4. Allocated(books, r) = IF Fails(books, r) THEN Removed(c, r, new) ELSE c
    BY DEF Allocated, new
  <1> HIDE DEF c
  <1> QED
    BY <1>2, <1>3, <1>4, RemovedShares

\* The limit of an executor is its floors and its part of the level.
LEMMA LimitIs ==
  ASSUME NEW lo \in Nat, NEW hi \in Nat, lo <= hi, NEW level \in Nat
  PROVE  /\ Min({hi, level + lo}) = lo + Min({hi - lo, level})
         /\ Min({hi, level + lo}) \in lo .. hi /\ Min({hi - lo, level}) \in Nat
  <1> DEFINE x == level + lo
             y == hi - lo
  <1>1. y \in Nat /\ x \in Nat /\ hi \in Int /\ level \in Int /\ x = level + lo /\ y = hi - lo
    OBVIOUS
  <1> HIDE DEF x, y
  <1>2. Min({hi, x}) \in {hi, x} /\ Min({hi, x}) <= hi /\ Min({hi, x}) <= x
    BY <1>1, SmallerOf
  <1>3. Min({y, level}) \in {y, level} /\ Min({y, level}) <= y /\ Min({y, level}) <= level
    BY <1>1, SmallerOf
  <1>4. Min({hi, x}) = lo + Min({y, level}) /\ Min({hi, x}) \in lo .. hi /\ Min({y, level}) \in Nat
    BY <1>1, <1>2, <1>3
  <1> QED
    BY <1>4 DEF x, y

\* The limits on a destination are fair and stay within the capacity.
LEMMA SharesFair ==
  ASSUME ChargedExactly(books), SharedExactly(books), \A d \in Destinations : Cap(d) \in Nat
  PROVE  SharesAreFair
  <1> SUFFICES ASSUME NEW d \in Destinations
               PROVE  LET V    == ValuesOf(books.share[d].root)
                          free == Max({Cap(d) - books.used[d], 0})
                          at   == {p[1] : p \in V}
                      IN  /\ AVLFairshare(books.share[d], free) = FairLevel(V, free)
                          /\ ~Denied(d) =>
                                /\ \A e \in at : LimitOf(e, d) \in books.total[e][d].minimum..books.total[e][d].maximum
                                /\ Total(at, [e \in at |-> LimitOf(e, d)]) <= Max({Cap(d), books.used[d]})
    BY DEF SharesAreFair
  <1> DEFINE a == books.share[d]
             used == books.used[d]
             free == Max({Cap(d) - used, 0})
             V == ValuesOf(a.root)
             at == {p[1] : p \in V}
             E == {e \in Owners : ChargingOf(books, e, d) # {}}
             R == Charging(books, d)
             q == AVLFairshare(a, free)
  <1>1. R \in SUBSET Runs /\ used = SumOver(R, Floor)
    BY DEF ChargedExactly, Charging
  <1>2. used \in Nat /\ IsFiniteSet(R) /\ \A x \in R : Floor[x] \in Int
    <2> HIDE DEF R
    <2> QED
      BY <1>1, TotalFacts
  <1>3. Cap(d) \in Nat
    OBVIOUS
  <1>4. free \in Nat /\ used + free <= Max({Cap(d), used})
    <2> DEFINE c == Cap(d)
               x == c - used
               m == Max({c, used})
               f == Max({x, 0})
    <2> HIDE DEF used
    <2>1. c \in Int /\ used \in Int /\ x \in Int /\ 0 \in Int /\ x = c - used
      BY <1>2, <1>3
    <2> HIDE DEF c, x
    <2>2. f \in {x, 0} /\ f >= 0 /\ f \in Int
      BY <2>1, LargerOf
    <2>3. m >= c /\ m >= used /\ m \in Int
      BY <2>1, LargerOf
    <2> HIDE DEF m, f
    <2>4. f \in Nat /\ used + f <= m
      BY <2>1, <2>2, <2>3
    <2> QED
      BY <2>4 DEF c, x, m, f
  <1>5. SharedOn(books, d)
    BY DEF SharedExactly
  <1>6. Tidy(a) /\ a.refs = SpareOn(books, d) /\ \A e \in Owners : books.total[e][d] = TotalOf(ChargingOf(books, e, d))
    BY <1>5 DEF SharedOn
  <1> HIDE DEF used, free
  <1>7. /\ IsFiniteSet(V) /\ (\A p \in V : p[2] \in Nat) /\ q = FairLevel(V, free)
        /\ q \in Nat /\ HandedOut(V, q) <= free
    <2> HIDE DEF a
    <2> QED
      BY <1>4, <1>6, FairshareIs
  <1>8. V = {<<i, a.refs[i]>> : i \in DOMAIN a.refs}
    BY <1>6, TidySound
  <1>9. DOMAIN a.refs = E /\ \A e \in E : a.refs[e] = Spare(ChargingOf(books, e, d))
    BY <1>6 DEF SpareOn
  <1> HIDE DEF q, a
  <1>10. at = E /\ V = {<<e, a.refs[e]>> : e \in E}
    <2> HIDE DEF E, V
    <2>1. V = {<<e, a.refs[e]>> : e \in E}
      BY <1>8, <1>9
    <2>2. ASSUME NEW p \in V PROVE p[1] \in E
      BY <2>1
    <2>3. ASSUME NEW e \in E PROVE e \in at
      <3>1. <<e, a.refs[e]>> \in V /\ <<e, a.refs[e]>>[1] = e
        BY <2>1
      <3> QED
        BY <3>1
    <2> QED
      BY <2>1, <2>2, <2>3
  <1>11. ASSUME NEW e \in E
         PROVE  LET t == books.total[e][d]
                IN  /\ t.minimum \in Nat /\ t.maximum \in Nat /\ t.minimum <= t.maximum
                    /\ a.refs[e] = t.maximum - t.minimum
                    /\ t.minimum = SumOver(Group(R, Owner, e), Floor)
    <2> DEFINE S == ChargingOf(books, e, d)
    <2>1. S \in SUBSET Runs /\ S = Group(R, Owner, e)
      BY DEF Group, ChargingOf, Charging
    <2>2. books.total[e][d] = TotalOf(S) /\ a.refs[e] = Spare(S)
      BY <1>6, <1>9
    <2> HIDE DEF S
    <2>3. SumOver(S, Floor) \in Nat /\ SumOver(S, Ceil) \in Nat /\ SumOver(S, Floor) <= SumOver(S, Ceil)
      BY <2>1, TotalFacts
    <2> QED
      BY <2>1, <2>2, <2>3 DEF TotalOf, Spare
  <1>12. ASSUME ~Denied(d)
         PROVE  /\ \A e \in E : LimitOf(e, d) \in books.total[e][d].minimum .. books.total[e][d].maximum
                /\ Total(E, [e \in E |-> LimitOf(e, d)]) <= Max({Cap(d), used})
    <2> DEFINE lo == [e \in E |-> books.total[e][d].minimum]
               part == [e \in E |-> Min({a.refs[e], q})]
               lim == [e \in E |-> LimitOf(e, d)]
    <2>1. ASSUME NEW e \in E
          PROVE  /\ lo[e] \in Int /\ part[e] \in Int /\ lim[e] = lo[e] + part[e]
                 /\ LimitOf(e, d) \in books.total[e][d].minimum .. books.total[e][d].maximum
      <3> DEFINE t == books.total[e][d]
      <3>1. LimitOf(e, d) = Min({t.maximum, q + t.minimum})
        BY <1>12 DEF LimitOf, q, a, Shareable, free, used
      <3>2. t.minimum \in Nat /\ t.maximum \in Nat /\ t.minimum <= t.maximum /\ a.refs[e] = t.maximum - t.minimum
        BY <1>11
      <3>3. lo[e] = t.minimum /\ part[e] = Min({t.maximum - t.minimum, q}) /\ lim[e] = LimitOf(e, d)
        BY <3>2
      <3> HIDE DEF t, lo, part, lim
      <3>4. /\ Min({t.maximum, q + t.minimum}) = t.minimum + Min({t.maximum - t.minimum, q})
            /\ Min({t.maximum, q + t.minimum}) \in t.minimum .. t.maximum /\ Min({t.maximum - t.minimum, q}) \in Nat
        BY <1>7, <3>2, LimitIs
      <3> QED
        BY <3>1, <3>2, <3>3, <3>4 DEF t
    <2>2. IsFiniteSet(E)
      <3>1. [p \in V |-> p[1]] \in Surjection(V, at)
        BY DEF Surjection
      <3> QED
        BY <1>7, <1>10, <3>1, FS_Surjection
    <2>3. SumOver(E, lo) = used
      <3>1. \A r \in R : Owner[r] \in E
        BY RunFacts DEF ChargingOf, Charging
      <3>2. \A e \in E : lo[e] = SumOver(Group(R, Owner, e), Floor)
        BY <1>11
      <3> HIDE DEF E, R, lo
      <3> QED
        BY <1>1, <1>2, <2>2, <3>1, <3>2, SumGrouped
    <2>4. SumOver(E, part) = HandedOut(V, q)
      <3> DEFINE b == [e \in E |-> <<e, a.refs[e]>>]
                 g == Parts(V, q)
      <3>1. V = {b[e] : e \in E} /\ \A x, y \in E : b[x] = b[y] => x = y
        BY <1>10
      <3>2. \A e \in E : part[e] \in Int /\ g[b[e]] = part[e]
        <4>1. \A e \in E : b[e] \in V /\ b[e][2] = a.refs[e]
          BY <1>10
        <4>2. \A e \in E : g[b[e]] = Min({b[e][2], q})
          BY <4>1 DEF Parts
        <4> QED
          BY <2>1, <4>1, <4>2
      <3> HIDE DEF b, g, E, V, part
      <3>3. SumOver({b[e] : e \in E}, g) = SumOver(E, part)
        BY <2>2, <3>1, <3>2, SumRenamed
      <3> QED
        BY <3>1, <3>3, HandedOutIs DEF g
    <2>5. SumOver(E, lim) = SumOver(E, lo) + SumOver(E, part) /\ SumOver(E, part) \in Int
      <3> HIDE DEF E, lo, part, lim
      <3> QED
        BY <2>1, <2>2, SumBoth, SumInt
    <2>6. SumOver(E, lim) <= Max({Cap(d), used})
      <3>1. Max({Cap(d), used}) \in Int
        BY <1>2, <1>3, LargerOf
      <3> HIDE DEF E, lo, part, lim, V
      <3> QED
        BY <1>2, <1>4, <1>7, <2>3, <2>4, <2>5, <3>1
    <2>7. Total(E, lim) = SumOver(E, lim)
      BY DEF Total, SumOver
    <2> QED
      BY <2>1, <2>6, <2>7
  <1>13. AVLFairshare(a, free) = FairLevel(V, free)
    BY <1>7 DEF q
  <1> HIDE DEF E, V
  <1>14. ~Denied(d) => /\ \A e \in at : LimitOf(e, d) \in books.total[e][d].minimum .. books.total[e][d].maximum
                       /\ Total(at, [e \in at |-> LimitOf(e, d)]) <= Max({Cap(d), used})
    BY <1>10, <1>12
  <1> QED
    BY <1>13, <1>14 DEF V, a, free, used

-----------------------------------------------------------------------------
(* The inductive invariant. *)

CapacityTypes ==
  /\ now \in 0 .. MaxTime
  /\ stage \in [Runs -> Stages]
  /\ from \in [Runs -> 0 .. LastTime]
  /\ reserved \in SUBSET Runs
  /\ applied \in [Destinations -> Policies]

\* Who holds a reservation, and for which window.
WindowsHeld ==
  \A r \in Runs :
    /\ stage[r] \in Underway => WindowFits(r, from[r])
    /\ r \in reserved => stage[r] \in Underway
    /\ stage[r] \in {"admitted", "refused", "running"} => r \in reserved
    /\ stage[r] = "orphan" /\ from[r] + Budget(r) > now => r \in reserved
    /\ stage[r] = "running" => from[r] <= now

ScheduleHeld == HoldsRuns(schedule, reserved, from)

BooksHeld == ChargedExactly(books) /\ SharedExactly(books) /\ AllOrNothing

CapacityInv == CapacityTypes /\ WindowsHeld /\ ScheduleHeld /\ BooksHeld /\ LimitsAreKept

LEMMA FromType ==
  ASSUME NEW r \in Runs, now \in 0 .. MaxTime
  PROVE  From(r) \in Nat /\ now <= From(r) /\ now \in 0 .. LastTime /\ now \in Nat
  <1>1. now \in Int /\ Start[r] \in Int /\ now >= 0 /\ now <= LastTime
    BY RunFacts, ConstantFacts
  <1>2. From(r) \in Int /\ From(r) >= now
    BY <1>1, LargerOf DEF From
  <1> QED
    BY <1>1, <1>2, ConstantFacts

LEMMA TypesStep ==
  ASSUME CapacityTypes, CapacityNext
  PROVE  CapacityTypes'
  <1>1. ASSUME NEW r \in Runs, Submit(r) PROVE CapacityTypes'
    <2>1. From(r) \in 0 .. LastTime
      BY <1>1, FromType, WindowSlots DEF CapacityTypes, Submit, Admissible
    <2> QED
      BY <1>1, <2>1 DEF CapacityTypes, Submit, Stages, Underway
  <1>2. ASSUME NEW r \in Runs, SubmitFails(r) PROVE CapacityTypes'
    BY <1>2 DEF CapacityTypes, SubmitFails
  <1>3. ASSUME NEW r \in Runs, Allocate(r) PROVE CapacityTypes'
    BY <1>3 DEF CapacityTypes, Allocate, Stages, Underway
  <1>4. ASSUME NEW r \in Runs, Release(r) PROVE CapacityTypes'
    BY <1>4, ConstantFacts DEF CapacityTypes, Release, Stages, Underway
  <1>5. ASSUME NEW d \in Governed, NEW p \in Policies, SetPolicy(d, p) PROVE CapacityTypes'
    BY <1>5, CapacityAssumption DEF CapacityTypes, SetPolicy
  <1>6. ASSUME RestoreScheduler PROVE CapacityTypes'
    BY <1>6 DEF CapacityTypes, RestoreScheduler, StillOpen, Stages, Underway
  <1>7. ASSUME Tick PROVE CapacityTypes'
    BY <1>7, ConstantFacts DEF CapacityTypes, Tick
  <1> QED
    BY <1>1, <1>2, <1>3, <1>4, <1>5, <1>6, <1>7 DEF CapacityNext

LEMMA WindowsStep ==
  ASSUME CapacityTypes, WindowsHeld, CapacityNext
  PROVE  WindowsHeld'
  <1> SUFFICES ASSUME NEW x \in Runs
               PROVE  /\ stage'[x] \in Underway => WindowFits(x, from'[x])
                      /\ x \in reserved' => stage'[x] \in Underway
                      /\ stage'[x] \in {"admitted", "refused", "running"} => x \in reserved'
                      /\ stage'[x] = "orphan" /\ from'[x] + Budget(x) > now' => x \in reserved'
                      /\ stage'[x] = "running" => from'[x] <= now'
    BY DEF WindowsHeld
  <1>0. /\ stage[x] \in Underway => WindowFits(x, from[x])
        /\ x \in reserved => stage[x] \in Underway
        /\ stage[x] \in {"admitted", "refused", "running"} => x \in reserved
        /\ stage[x] = "orphan" /\ from[x] + Budget(x) > now => x \in reserved
        /\ stage[x] = "running" => from[x] <= now
    BY DEF WindowsHeld
  <1>t. /\ stage \in [Runs -> Stages] /\ from \in [Runs -> 0 .. LastTime] /\ now \in 0 .. MaxTime
        /\ from[x] \in Nat /\ now \in Nat
    BY ConstantFacts DEF CapacityTypes
  <1>1. ASSUME NEW r \in Runs, Submit(r) PROVE WindowsHeld'
    <2>1. WindowFits(r, From(r))
      BY <1>1 DEF Submit, Admissible
    <2> QED
      BY <1>1, <1>t, <2>1 DEF Submit, WindowsHeld, Underway
  <1>2. ASSUME NEW r \in Runs, SubmitFails(r) PROVE WindowsHeld'
    BY <1>2 DEF SubmitFails, WindowsHeld
  <1>3. ASSUME NEW r \in Runs, Allocate(r) PROVE WindowsHeld'
    BY <1>3, <1>t DEF Allocate, WindowsHeld, Underway
  <1>4. ASSUME NEW r \in Runs, Release(r) PROVE WindowsHeld'
    BY <1>4, <1>t DEF Release, WindowsHeld, Underway
  <1>5. ASSUME NEW d \in Governed, NEW p \in Policies, SetPolicy(d, p) PROVE WindowsHeld'
    BY <1>5 DEF SetPolicy, WindowsHeld
  <1>6. ASSUME RestoreScheduler PROVE WindowsHeld'
    BY <1>6, <1>t DEF RestoreScheduler, StillOpen, WindowsHeld, Underway
  <1>7. ASSUME Tick PROVE /\ stage'[x] \in Underway => WindowFits(x, from'[x])
                          /\ x \in reserved' => stage'[x] \in Underway
                          /\ stage'[x] \in {"admitted", "refused", "running"} => x \in reserved'
                          /\ stage'[x] = "orphan" /\ from'[x] + Budget(x) > now' => x \in reserved'
                          /\ stage'[x] = "running" => from'[x] <= now'
    <2>1. stage' = stage /\ from' = from /\ reserved' = reserved /\ now' = now + 1
      BY <1>7 DEF Tick
    <2>2. stage[x] = "orphan" => Budget(x) \in Nat
      BY <1>0, <1>t, WindowSlots DEF Underway
    <2>3. stage[x] = "orphan" /\ from[x] + Budget(x) > now + 1 => from[x] + Budget(x) > now
      BY <1>t, <2>2
    <2>4. stage[x] = "running" => from[x] <= now + 1
      BY <1>0, <1>t
    <2> QED
      BY <1>0, <2>1, <2>3, <2>4
  <1> QED
    BY <1>1, <1>2, <1>3, <1>4, <1>5, <1>6, <1>7 DEF CapacityNext, WindowsHeld

\* Runs whose times did not change.
LEMMA UseOfSame ==
  ASSUME NEW b, NEW T, NEW fr, NEW fs, \A x \in T : fs[x] = fr[x], HoldsRuns(b, T, fr)
  PROVE  HoldsRuns(b, T, fs)
  <1>1. ASSUME NEW k \in Bookable PROVE UseOf(T, fs, k) = UseOf(T, fr, k)
    <2>1. \A s \in Slots : {r \in T : BookedIn(r, fs[r], k, s)} = {r \in T : BookedIn(r, fr[r], k, s)}
      OBVIOUS
    <2> QED
      BY <2>1 DEF UseOf
  <1> QED
    BY <1>1 DEF HoldsRuns

LEMMA ScheduleStep ==
  ASSUME CapacityTypes, WindowsHeld, ScheduleHeld, CapacityNext
  PROVE  ScheduleHeld'
  <1>0. /\ stage \in [Runs -> Stages] /\ from \in [Runs -> 0 .. LastTime] /\ now \in 0 .. MaxTime
        /\ reserved \in SUBSET Runs /\ \A x \in Runs : from[x] \in Nat
    BY ConstantFacts DEF CapacityTypes
  <1>h. HoldsRuns(schedule, reserved, from)
    BY DEF ScheduleHeld
  <1>1. ASSUME NEW r \in Runs, stage[r] = "idle", Admissible(r)
        PROVE  LET fs == [from EXCEPT ![r] = From(r)]
                   U == reserved \cup {r}
               IN  /\ U \in SUBSET Runs /\ Joins(r, reserved, from, U, fs)
                   /\ From(r) = fs[r] /\ From(r) \in Nat /\ WindowFits(r, From(r))
    <2>1. r \notin reserved
      BY <1>1 DEF WindowsHeld, Underway
    <2>2. From(r) \in Nat
      BY <1>0, FromType
    <2> QED
      BY <1>0, <1>1, <2>1, <2>2 DEF Joins, Admissible
  <1>2. ASSUME NEW r \in Runs, Submit(r) PROVE ScheduleHeld'
    <2> DEFINE f == From(r)
               fs == [from EXCEPT ![r] = f]
               U == reserved \cup {r}
    <2>1. stage[r] = "idle" /\ Admissible(r)
      BY <1>2 DEF Submit
    <2>2. schedule' = Booked(schedule, r, f, Floor[r]) /\ reserved' = U /\ from' = fs
      BY <1>2 DEF Submit
    <2>3. U \in SUBSET Runs /\ Joins(r, reserved, from, U, fs) /\ f = fs[r] /\ f \in Nat /\ WindowFits(r, f)
      BY <1>1, <2>1
    <2> HIDE DEF f, fs, U
    <2>4. HoldsRuns(Booked(schedule, r, f, Floor[r]), U, fs)
      BY <1>0, <1>h, <2>3, BookedAdd
    <2>5. HoldsRuns(schedule', reserved', from')
      BY <2>2, <2>4
    <2> QED
      BY <2>5 DEF ScheduleHeld
  <1>3. ASSUME NEW r \in Runs, SubmitFails(r) PROVE ScheduleHeld'
    <2> DEFINE f == From(r)
               fs == [from EXCEPT ![r] = f]
               U == reserved \cup {r}
               b == Booked(schedule, r, f, Floor[r])
    <2>1. stage[r] = "idle" /\ Admissible(r)
      BY <1>3 DEF SubmitFails
    <2>2. schedule' = Booked(b, r, f, -Floor[r]) /\ reserved' = reserved /\ from' = from
      BY <1>3 DEF SubmitFails
    <2>3. U \in SUBSET Runs /\ Joins(r, reserved, from, U, fs) /\ f = fs[r] /\ f \in Nat /\ WindowFits(r, f)
      BY <1>1, <2>1
    <2> HIDE DEF f, fs, U
    <2>4. HoldsRuns(b, U, fs)
      BY <1>0, <1>h, <2>3, BookedAdd
    <2> HIDE DEF b
    <2>5. HoldsRuns(Booked(b, r, f, -Floor[r]), reserved, from)
      BY <1>0, <2>3, <2>4, BookedAdd
    <2>6. HoldsRuns(schedule', reserved', from')
      BY <2>2, <2>5
    <2> QED
      BY <2>6 DEF ScheduleHeld
  <1>4. ASSUME NEW r \in Runs, Release(r) PROVE ScheduleHeld'
    <2> DEFINE T == reserved \ {r}
               fr == [from EXCEPT ![r] = 0]
    <2>1. /\ schedule' = (IF r \in reserved THEN Booked(schedule, r, from[r], -Floor[r]) ELSE schedule)
          /\ reserved' = T /\ from' = fr /\ stage[r] \in Underway
      BY <1>4 DEF Release
    <2>2. /\ T \in SUBSET Runs /\ (r \in reserved => Joins(r, T, fr, reserved, from))
          /\ \A x \in T : fr[x] = from[x]
      BY <1>0 DEF Joins
    <2>3. from[r] \in Nat /\ WindowFits(r, from[r])
      BY <1>0, <2>1 DEF WindowsHeld
    <2> HIDE DEF fr
    <2>4. CASE r \in reserved
      <3> HIDE DEF T
      <3>1. HoldsRuns(Booked(schedule, r, from[r], -Floor[r]), T, fr)
        BY <1>0, <1>h, <2>2, <2>3, <2>4, BookedAdd
      <3>2. HoldsRuns(schedule', reserved', from')
        BY <2>1, <2>4, <3>1
      <3> QED
        BY <3>2 DEF ScheduleHeld
    <2>5. CASE r \notin reserved
      <3>1. T = reserved
        BY <2>5
      <3>2. HoldsRuns(schedule, T, fr)
        BY <1>h, <2>2, <3>1, UseOfSame
      <3>3. HoldsRuns(schedule', reserved', from')
        BY <2>1, <2>5, <3>2
      <3> QED
        BY <3>3 DEF ScheduleHeld
    <2> QED
      BY <2>4, <2>5
  <1>5. ASSUME RestoreScheduler PROVE ScheduleHeld'
    <2>1. schedule' = Rebooked(StillOpen) /\ reserved' = StillOpen /\ from' = from
      BY <1>5 DEF RestoreScheduler
    <2>2. StillOpen \in SUBSET Runs /\ \A r \in StillOpen : from[r] \in Nat /\ WindowFits(r, from[r])
      BY <1>0 DEF StillOpen, WindowsHeld
    <2>3. HoldsRuns(Rebooked(StillOpen), StillOpen, from)
      BY <2>2, RestoredHolds
    <2>4. HoldsRuns(schedule', reserved', from')
      BY <2>1, <2>3
    <2> QED
      BY <2>4 DEF ScheduleHeld
  <1>6. ASSUME UNCHANGED <<schedule, reserved, from>> PROVE ScheduleHeld'
    <2>1. HoldsRuns(schedule', reserved', from')
      BY <1>6, <1>h
    <2> QED
      BY <2>1 DEF ScheduleHeld
  <1> QED
    BY <1>2, <1>3, <1>4, <1>5, <1>6 DEF CapacityNext, Allocate, SetPolicy, Tick

LEMMA BooksStep ==
  ASSUME CapacityTypes, BooksHeld, CapacityNext
  PROVE  BooksHeld'
  <1>0. stage \in [Runs -> Stages] /\ ChargedExactly(books) /\ SharedExactly(books)
    BY DEF CapacityTypes, BooksHeld
  <1>a. ASSUME NEW x \in Runs
        PROVE  {d \in Destinations : <<x, d>> \in books.active} =
                  IF stage[x] = "running" THEN Range(Route[x]) ELSE {}
    BY DEF BooksHeld, AllOrNothing
  <1>b. ASSUME ChargedExactly(books'), SharedExactly(books'),
               \A x \in Runs : {d \in Destinations : <<x, d>> \in books'.active} =
                                  IF stage'[x] = "running" THEN Range(Route[x]) ELSE {}
        PROVE  BooksHeld'
    <2>1. ChargedExactly(books)'
      BY <1>b DEF ChargedExactly, Charging
    <2>2. SharedExactly(books)'
      BY <1>b DEF SharedExactly, SharedOn, SpareOn, ChargingOf, Charging
    <2> QED
      BY <1>b, <2>1, <2>2 DEF BooksHeld, AllOrNothing
  <1>1. ASSUME books' = books, \A x \in Runs : stage'[x] = "running" <=> stage[x] = "running" PROVE BooksHeld'
    BY <1>0, <1>1, <1>a, <1>b
  <1>2. ASSUME NEW r \in Runs, Submit(r) PROVE BooksHeld'
    <2>1. books' = books /\ \A x \in Runs : stage'[x] = "running" <=> stage[x] = "running"
      BY <1>0, <1>2 DEF Submit
    <2> QED
      BY <1>1, <2>1
  <1>3. ASSUME NEW r \in Runs, Allocate(r) PROVE BooksHeld'
    <2> DEFINE a == Allocated(books, r)
    <2>1. books' = a /\ stage' = [stage EXCEPT ![r] = IF Fails(books, r) THEN "refused" ELSE "running"]
      BY <1>3 DEF Allocate
    <2>2. \A d \in Destinations : <<r, d>> \notin books.active
      <3>1. stage[r] # "running"
        BY <1>3 DEF Allocate
      <3> QED
        BY <1>a, <3>1
    <2>3. /\ ChargedExactly(a)
          /\ Fails(books, r) => a.active = books.active
          /\ ~ Fails(books, r) => a.active = books.active \cup ({r} \X Range(Route[r]))
      BY <1>0, <2>2, AllocatedIsExact
    <2>s. SharedExactly(a)
      BY <1>0, <2>2, AllocatedShares
    <2> HIDE DEF a
    <2>4. ASSUME NEW x \in Runs
          PROVE  {d \in Destinations : <<x, d>> \in a.active} =
                    IF stage'[x] = "running" THEN Range(Route[x]) ELSE {}
      <3>0. Range(Route[r]) \subseteq Destinations
        BY RunFacts
      <3>1. CASE x # r
        <4>1. stage'[x] = stage[x] /\ \A d \in Destinations : <<x, d>> \in a.active <=> <<x, d>> \in books.active
          BY <1>0, <2>1, <2>3, <3>1
        <4> QED
          BY <1>a, <4>1
      <3>2. CASE x = r /\ Fails(books, r)
        <4>1. stage'[x] # "running" /\ \A d \in Destinations : <<x, d>> \notin a.active
          BY <1>0, <2>1, <2>2, <2>3, <3>2
        <4> QED
          BY <4>1
      <3>3. CASE x = r /\ ~ Fails(books, r)
        <4>1. stage'[x] = "running" /\ \A d \in Destinations : <<x, d>> \in a.active <=> d \in Range(Route[x])
          BY <1>0, <2>1, <2>2, <2>3, <3>3
        <4> QED
          BY <3>0, <3>3, <4>1
      <3> QED
        BY <3>1, <3>2, <3>3
    <2> QED
      BY <1>b, <2>1, <2>3, <2>4, <2>s
  <1>4. ASSUME NEW r \in Runs, Release(r) PROVE BooksHeld'
    <2> DEFINE D == Range(Route[r])
               c == Removed(books, r, D)
    <2>1. books' = c /\ stage' = [stage EXCEPT ![r] = "done"]
      BY <1>4 DEF Release
    <2>2. D \in SUBSET Destinations
      BY RunFacts
    <2> HIDE DEF D
    <2>3. ChargedExactly(c) /\ c.active = books.active \ ({r} \X D)
      BY <1>0, <2>2, RemovedIsExact
    <2>s. SharedExactly(c)
      BY <1>0, <2>2, RemovedShares
    <2> HIDE DEF c
    <2>4. ASSUME NEW x \in Runs
          PROVE  {d \in Destinations : <<x, d>> \in c.active} =
                    IF stage'[x] = "running" THEN Range(Route[x]) ELSE {}
      <3>1. CASE x # r
        <4>1. stage'[x] = stage[x] /\ \A d \in Destinations : <<x, d>> \in c.active <=> <<x, d>> \in books.active
          BY <1>0, <2>1, <2>3, <3>1
        <4> QED
          BY <1>a, <4>1
      <3>2. CASE x = r
        <4>1. stage'[x] # "running"
          BY <1>0, <2>1, <3>2
        <4>2. \A d \in Destinations : <<r, d>> \in books.active => d \in D
          BY <1>a DEF D
        <4>3. \A d \in Destinations : <<x, d>> \notin c.active
          BY <2>3, <3>2, <4>2
        <4> QED
          BY <4>1, <4>3
      <3> QED
        BY <3>1, <3>2
    <2> QED
      BY <1>b, <2>1, <2>3, <2>4, <2>s
  <1>5. ASSUME RestoreScheduler PROVE BooksHeld'
    <2>1. books' = NoCharges /\ \A x \in Runs : stage'[x] # "running"
      BY <1>0, <1>5 DEF RestoreScheduler, Underway
    <2>2. NoCharges.active = {} /\ \A d \in Destinations : NoCharges.used[d] = 0
      BY DEF NoCharges
    <2>3. \A d \in Destinations : Charging(NoCharges, d) = {}
      BY <2>2 DEF Charging
    <2>4. ChargedExactly(NoCharges)
      BY <2>2, <2>3, SumEmpty DEF ChargedExactly
    <2> QED
      BY <1>b, <2>1, <2>2, <2>4, NoneShared
  <1>6. ASSUME UNCHANGED <<books, stage>> PROVE BooksHeld'
    BY <1>1, <1>6
  <1> QED
    BY <1>2, <1>3, <1>4, <1>5, <1>6 DEF CapacityNext, SubmitFails, SetPolicy, Tick

-----------------------------------------------------------------------------
(* The limits. *)

\* querymax over trees that hold the runs T.
LEMMA QueryHeld ==
  ASSUME NEW b, NEW T, NEW fr, HoldsRuns(b, T, fr), NEW k \in Bookable, NEW l \in Slots, NEW r \in l .. LastSlot
  PROVE  /\ QueryMax(b[k], l, r) \in Nat
         /\ \A s \in l .. r : UseOf(T, fr, k)[s] \in Nat /\ UseOf(T, fr, k)[s] <= QueryMax(b[k], l, r)
         /\ \E s \in l .. r : UseOf(T, fr, k)[s] = QueryMax(b[k], l, r)
  <1>1. Represents(b[k], UseOf(T, fr, k))
    BY DEF HoldsRuns
  <1>2. l .. r \subseteq Slots
    BY SlotAssumption DEF Slots
  <1> QED
    BY <1>1, <1>2, QueryRepresents DEF Represents

\* What is reserved on d from time t on, by the runs T, stays within c.
Fits(T, fr, t, d, c) == \A s \in SlotOf(t) .. LastSlot : UseOf(T, fr, d)[s] <= c

LEMMA QueryFits ==
  ASSUME NEW b, NEW T, NEW fr, HoldsRuns(b, T, fr), NEW d \in Destinations, NEW t \in 0 .. LastTime, NEW c \in Int
  PROVE  QueryMax(b[d], SlotOf(t), EndSlotOf(LastTime)) <= c <=> Fits(T, fr, t, d, c)
  <1> DEFINE l == SlotOf(t)
             q == QueryMax(b[d], l, LastSlot)
  <1>1. l \in Slots /\ EndSlotOf(LastTime) = LastSlot /\ LastSlot \in l .. LastSlot /\ d \in Bookable
    BY TimeSlots, SlotAssumption DEF Slots, Bookable
  <1> HIDE DEF l
  <1>2. /\ q \in Nat
        /\ \A s \in l .. LastSlot : UseOf(T, fr, d)[s] \in Nat /\ UseOf(T, fr, d)[s] <= q
        /\ \E s \in l .. LastSlot : UseOf(T, fr, d)[s] = q
    BY <1>1, QueryHeld
  <1> HIDE DEF q
  <1>3. q <= c <=> \A s \in l .. LastSlot : UseOf(T, fr, d)[s] <= c
    BY <1>2
  <1> QED
    BY <1>1, <1>3 DEF Fits, l, q

\* Fewer runs use no more.
LEMMA UseOfFewer ==
  ASSUME NEW T \in SUBSET Runs, NEW U \in SUBSET T, NEW fr, NEW fs, \A x \in U : fs[x] = fr[x],
         NEW k, NEW s \in Slots
  PROVE  /\ UseOf(U, fs, k)[s] \in Nat /\ UseOf(T, fr, k)[s] \in Nat
         /\ UseOf(U, fs, k)[s] <= UseOf(T, fr, k)[s]
  <1> DEFINE A == {r \in T : BookedIn(r, fr[r], k, s)}
             B == {r \in U : BookedIn(r, fs[r], k, s)}
  <1>1. UseOf(T, fr, k)[s] = SumOver(A, Floor) /\ UseOf(U, fs, k)[s] = SumOver(B, Floor)
    BY DEF UseOf
  <1>2. A \in SUBSET Runs /\ B \in SUBSET A
    OBVIOUS
  <1> HIDE DEF A, B
  <1>3. IsFiniteSet(A) /\ \A x \in A : Floor[x] \in Nat
    BY <1>2, CapacityAssumption, FS_Subset, RunFacts
  <1>4. SumOver(A, Floor) = SumOver(B, Floor) + SumOver(A \ B, Floor)
        /\ SumOver(B, Floor) \in Nat /\ SumOver(A \ B, Floor) \in Nat
    BY <1>2, <1>3, SumPart
  <1> QED
    BY <1>1, <1>4

\* The capacity of a destination under policy p.
CapOf(p) == IF p.kind = "limit" THEN p.limit ELSE DefaultCap

LEMMA CapType ==
  ASSUME NEW p \in Policies
  PROVE  CapOf(p) \in Nat
  <1>1. CASE p.kind = "limit"
    BY <1>1, CapacityAssumption DEF Policies, NoPolicy, CapOf
  <1>2. CASE p.kind # "limit"
    BY <1>2, CapacityAssumption DEF CapOf
  <1> QED
    BY <1>1, <1>2

LEMMA OvercommittedMeans ==
  ASSUME CapacityTypes, ScheduleHeld, NEW d \in Destinations
  PROVE  /\ Cap(d) = CapOf(applied[d]) /\ Cap(d) \in Nat
         /\ ~ Overcommitted(d) <=> Fits(reserved, from, now, d, Cap(d))
  <1>1. Cap(d) = CapOf(applied[d]) /\ CapOf(applied[d]) \in Nat
    BY CapType DEF Cap, CapOf, CapacityTypes
  <1>2. now \in 0 .. LastTime /\ HoldsRuns(schedule, reserved, from)
    BY ConstantFacts DEF CapacityTypes, ScheduleHeld
  <1> DEFINE q == QueryMax(schedule[d], SlotOf(now), EndSlotOf(LastTime))
  <1>3. q <= Cap(d) <=> Fits(reserved, from, now, d, Cap(d))
    BY <1>1, <1>2, QueryFits
  <1>4. q \in Nat
    <2>1. SlotOf(now) \in Slots /\ LastSlot \in SlotOf(now) .. LastSlot /\ d \in Bookable
      BY <1>2, TimeSlots, SlotAssumption DEF Slots, Bookable
    <2> QED
      BY <1>2, <2>1, QueryHeld, TimeSlots
  <1>5. Overcommitted(d) <=> q > Cap(d)
    BY DEF Overcommitted, MaxReserved
  <1> HIDE DEF q
  <1> QED
    BY <1>1, <1>3, <1>4, <1>5

\* The same after a step.
LEMMA LimitsAfter ==
  ASSUME CapacityTypes', ScheduleHeld',
         \A d \in Destinations : applied'[d].kind = "limit" \/ d \notin Governed =>
            /\ Fits(reserved', from', now', d, CapOf(applied'[d]))
            /\ books'.used[d] <= CapOf(applied'[d])
  PROVE  LimitsAreKept'
  <1> SUFFICES ASSUME NEW d \in Destinations, applied'[d].kind = "limit" \/ d \notin Governed
               PROVE  ~ Overcommitted(d)' /\ books'.used[d] <= Cap(d)'
    BY DEF LimitsAreKept
  <1> DEFINE c == CapOf(applied'[d])
             q == QueryMax(schedule'[d], SlotOf(now'), EndSlotOf(LastTime))
  <1>1. Cap(d)' = c /\ c \in Nat
    BY CapType DEF Cap, CapOf, CapacityTypes
  <1>2. now' \in 0 .. LastTime /\ HoldsRuns(schedule', reserved', from')
    BY ConstantFacts DEF CapacityTypes, ScheduleHeld
  <1>3. Fits(reserved', from', now', d, c) /\ books'.used[d] <= c
    OBVIOUS
  <1>4. Overcommitted(d)' <=> q > c
    BY <1>1 DEF Overcommitted, MaxReserved
  <1> HIDE DEF c
  <1>5. q <= c
    BY <1>1, <1>2, <1>3, QueryFits
  <1>6. q \in Nat
    <2>1. SlotOf(now') \in Slots /\ LastSlot \in SlotOf(now') .. LastSlot /\ d \in Bookable
      BY <1>2, TimeSlots, SlotAssumption DEF Slots, Bookable
    <2> QED
      BY <1>2, <2>1, QueryHeld, TimeSlots
  <1> HIDE DEF q
  <1> QED
    BY <1>1, <1>3, <1>4, <1>5, <1>6

LEMMA LimitsStep ==
  ASSUME CapacityTypes, WindowsHeld, ScheduleHeld, BooksHeld, LimitsAreKept, CapacityNext
  PROVE  LimitsAreKept'
  <1> DEFINE Bound(d) == applied[d].kind = "limit" \/ d \notin Governed
             Kept(d) == /\ Fits(reserved', from', now', d, CapOf(applied'[d]))
                        /\ books'.used[d] <= CapOf(applied'[d])
  <1>0. CapacityTypes' /\ ScheduleHeld'
    BY TypesStep, ScheduleStep
  <1>t. /\ reserved \in SUBSET Runs /\ now \in 0 .. LastTime /\ now \in Nat
        /\ stage \in [Runs -> Stages] /\ from \in [Runs -> 0 .. LastTime] /\ \A x \in Runs : from[x] \in Nat
        /\ applied \in [Destinations -> Policies] /\ HoldsRuns(schedule, reserved, from) /\ ChargedExactly(books)
    BY ConstantFacts DEF CapacityTypes, ScheduleHeld, BooksHeld
  <1>k. ASSUME NEW d \in Destinations
        PROVE  /\ Cap(d) = CapOf(applied[d]) /\ CapOf(applied[d]) \in Nat
               /\ Bound(d) => /\ Fits(reserved, from, now, d, CapOf(applied[d]))
                              /\ books.used[d] <= CapOf(applied[d])
    BY OvercommittedMeans DEF LimitsAreKept
  <1>s. \A s \in SlotOf(now) .. LastSlot : s \in Slots
    BY <1>t, TimeSlots, SlotAssumption DEF Slots
  <1>1. ASSUME NEW r \in Runs, Submit(r), NEW d \in Destinations, Bound(d) PROVE Kept(d)
    <2> DEFINE f == From(r)
               fs == [from EXCEPT ![r] = f]
               U == reserved \cup {r}
               c == CapOf(applied[d])
    <2>1. /\ reserved' = U /\ from' = fs /\ now' = now /\ applied' = applied /\ books' = books
          /\ stage[r] = "idle" /\ Admissible(r)
      BY <1>1 DEF Submit
    <2>2. f \in Nat /\ WindowFits(r, f) /\ r \notin reserved
      BY <1>t, <2>1, FromType DEF CapacityTypes, Admissible, WindowsHeld, Underway
    <2>3. Joins(r, reserved, from, U, fs) /\ fs[r] = f /\ U \in SUBSET Runs
      BY <1>t, <2>2 DEF Joins
    <2> HIDE DEF U, fs, f
    <2>4. Differs(reserved, from, U, fs, r, f, Floor[r])
      BY <1>t, <2>3, UseOfAdd
    <2>5. ASSUME NEW s \in SlotOf(now) .. LastSlot PROVE UseOf(U, fs, d)[s] <= c
      <3>1. s \in Slots /\ d \in Bookable
        BY <1>s DEF Bookable
      <3>2. UseOf(U, fs, d)[s] = IF BookedIn(r, f, d, s) THEN UseOf(reserved, from, d)[s] + Floor[r]
                                 ELSE UseOf(reserved, from, d)[s]
        BY <2>4, <3>1 DEF Differs
      <3>3. UseOf(reserved, from, d)[s] <= c
        BY <1>1, <1>k DEF Fits
      <3>4. ASSUME BookedIn(r, f, d, s) PROVE UseOf(reserved, from, d)[s] + Floor[r] <= c
        <4> DEFINE l == SlotOf(f)
                   e == EndSlotOf(f + Budget(r))
                   q == QueryMax(schedule[d], l, e)
        <4>1. d \in Range(Route[r])
          <5>1. d \notin Owners /\ Owner[r] \in Owners
            BY CapacityAssumption, RunFacts
          <5> QED
            BY <3>4, <5>1 DEF BookedIn, Keys
        <4>2. q + Floor[r] <= c
          BY <1>k, <2>1, <4>1 DEF Admissible, MaxReserved, f
        <4>3. l \in Slots /\ e \in Slots /\ l <= s /\ s <= e
          BY <2>2, <3>4, WindowSlots DEF BookedIn
        <4> HIDE DEF l, e
        <4>4. e \in l .. LastSlot /\ s \in l .. e
          BY <3>1, <4>3, SlotAssumption DEF Slots
        <4>5. q \in Nat /\ UseOf(reserved, from, d)[s] \in Nat /\ UseOf(reserved, from, d)[s] <= q
          BY <1>t, <3>1, <4>3, <4>4, QueryHeld
        <4> HIDE DEF q
        <4>6. Floor[r] \in Nat /\ c \in Nat
          BY <1>k, RunFacts
        <4> HIDE DEF c
        <4> QED
          BY <4>2, <4>5, <4>6
      <3> QED
        BY <3>2, <3>3, <3>4
    <2>6. Fits(U, fs, now, d, c)
      BY <2>5 DEF Fits
    <2> QED
      BY <1>1, <1>k, <2>1, <2>6
  <1>2. ASSUME NEW r \in Runs, Allocate(r), NEW d \in Destinations, Bound(d) PROVE Kept(d)
    <2> DEFINE a == Allocated(books, r)
    <2>1. /\ books' = a /\ reserved' = reserved /\ from' = from /\ now' = now /\ applied' = applied
          /\ stage[r] = "admitted"
      BY <1>2 DEF Allocate
    <2>2. \A x \in Destinations : <<r, x>> \notin books.active
      BY <2>1 DEF BooksHeld, AllOrNothing
    <2>3. a.used[d] = books.used[d] \/ a.used[d] <= Cap(d)
      BY <1>t, <2>2, AllocatedIsExact
    <2> HIDE DEF a
    <2> QED
      BY <1>2, <1>k, <2>1, <2>3
  <1>3. ASSUME NEW r \in Runs, Release(r), NEW d \in Destinations, Bound(d) PROVE Kept(d)
    <2> DEFINE D == Range(Route[r])
               c == CapOf(applied[d])
    <2>1. /\ books' = Removed(books, r, D) /\ reserved' = reserved \ {r} /\ from' = [from EXCEPT ![r] = 0]
          /\ now' = now /\ applied' = applied
      BY <1>3 DEF Release
    <2>2. D \in SUBSET Destinations
      BY RunFacts
    <2> HIDE DEF D
    <2>3. books'.used[d] \in Nat /\ books'.used[d] <= books.used[d]
      BY <1>t, <2>1, <2>2, RemovedIsExact
    <2>4. books.used[d] \in Nat /\ c \in Nat
      BY <1>k, <1>t, ChargingFacts DEF ChargedExactly
    <2>5. reserved' \in SUBSET reserved /\ \A x \in reserved' : from'[x] = from[x]
      BY <1>t, <2>1
    <2>6. ASSUME NEW s \in SlotOf(now) .. LastSlot PROVE UseOf(reserved', from', d)[s] <= c
      <3>1. s \in Slots /\ UseOf(reserved, from, d)[s] <= c
        BY <1>3, <1>k, <1>s DEF Fits
      <3>2. /\ UseOf(reserved', from', d)[s] \in Nat /\ UseOf(reserved, from, d)[s] \in Nat
            /\ UseOf(reserved', from', d)[s] <= UseOf(reserved, from, d)[s]
        BY <1>t, <2>5, <3>1, UseOfFewer
      <3> HIDE DEF c
      <3> QED
        BY <2>4, <3>1, <3>2
    <2>7. Fits(reserved', from', now', d, c)
      BY <2>1, <2>6 DEF Fits
    <2>8. books'.used[d] <= c
      <3>1. books.used[d] <= c
        BY <1>3, <1>k
      <3> HIDE DEF c
      <3> QED
        BY <2>3, <2>4, <3>1
    <2> QED
      BY <2>1, <2>7, <2>8
  <1>4. ASSUME NEW g \in Governed, NEW p \in Policies, SetPolicy(g, p), NEW d \in Destinations,
               applied'[d].kind = "limit" \/ d \notin Governed
        PROVE  Kept(d)
    <2>1. /\ applied' = [applied EXCEPT ![g] = p] /\ books' = books /\ reserved' = reserved
          /\ from' = from /\ now' = now
      BY <1>4 DEF SetPolicy
    <2>2. CASE d = g
      <3>1. applied'[d] = p /\ p.kind = "limit"
        BY <1>4, <1>t, <2>1, <2>2
      <3>2. LimitCovers(d, p.limit) /\ CapOf(p) = p.limit /\ CapOf(p) \in Nat
        BY <1>4, <2>2, <3>1, CapType DEF SetPolicy, CapOf
      <3> DEFINE q == QueryMax(schedule[d], SlotOf(now), EndSlotOf(LastTime))
      <3>3. CapOf(p) >= q /\ CapOf(p) >= books.used[d]
        BY <3>2 DEF LimitCovers, MaxReserved
      <3>4. q \in Nat
        <4>1. SlotOf(now) \in Slots /\ LastSlot \in SlotOf(now) .. LastSlot /\ d \in Bookable
          BY <1>t, TimeSlots, SlotAssumption DEF Slots, Bookable
        <4> QED
          BY <1>t, <4>1, QueryHeld, TimeSlots
      <3>5. books.used[d] \in Nat
        BY <1>t, ChargingFacts DEF ChargedExactly
      <3>6. q <= CapOf(p) /\ books.used[d] <= CapOf(p)
        <4> HIDE DEF q
        <4> QED
          BY <3>2, <3>3, <3>4, <3>5
      <3>7. Fits(reserved, from, now, d, CapOf(p))
        BY <1>t, <3>2, <3>6, QueryFits
      <3> QED
        BY <2>1, <3>1, <3>6, <3>7
    <2>3. CASE d # g
      <3>1. applied'[d] = applied[d]
        BY <1>t, <2>1, <2>3
      <3> QED
        BY <1>4, <1>k, <2>1, <3>1
    <2> QED
      BY <2>2, <2>3
  <1>5. ASSUME RestoreScheduler, NEW d \in Destinations, Bound(d) PROVE Kept(d)
    <2> DEFINE c == CapOf(applied[d])
    <2>1. books' = NoCharges /\ reserved' = StillOpen /\ from' = from /\ now' = now /\ applied' = applied
      BY <1>5 DEF RestoreScheduler
    <2>2. StillOpen \in SUBSET reserved
      BY DEF StillOpen, WindowsHeld, Underway
    <2>3. NoCharges.used[d] = 0 /\ c \in Nat
      BY <1>k DEF NoCharges
    <2>4. ASSUME NEW s \in SlotOf(now) .. LastSlot PROVE UseOf(StillOpen, from, d)[s] <= c
      <3>1. s \in Slots /\ UseOf(reserved, from, d)[s] <= c
        BY <1>5, <1>k, <1>s DEF Fits
      <3>2. /\ UseOf(StillOpen, from, d)[s] \in Nat /\ UseOf(reserved, from, d)[s] \in Nat
            /\ UseOf(StillOpen, from, d)[s] <= UseOf(reserved, from, d)[s]
        BY <1>t, <2>2, <3>1, UseOfFewer
      <3> HIDE DEF c
      <3> QED
        BY <2>3, <3>1, <3>2
    <2>5. Fits(StillOpen, from, now, d, c) /\ 0 <= c
      BY <2>3, <2>4 DEF Fits
    <2> QED
      BY <2>1, <2>3, <2>5
  <1>6. ASSUME Tick, NEW d \in Destinations, Bound(d) PROVE Kept(d)
    <2>1. /\ books' = books /\ reserved' = reserved /\ from' = from /\ now' = now + 1 /\ applied' = applied
      BY <1>6 DEF Tick
    <2>2. SlotOf(now) \in Nat /\ SlotOf(now + 1) \in Nat /\ SlotOf(now) <= SlotOf(now + 1)
      <3>1. now + 1 \in 0 .. LastTime /\ now + 1 \in Nat /\ now <= now + 1
        BY <1>0, <1>t, <2>1, ConstantFacts DEF CapacityTypes
      <3> QED
        BY <1>t, <3>1, TimeSlots, SlotAssumption DEF Slots
    <2>3. \A s \in SlotOf(now + 1) .. LastSlot : s \in SlotOf(now) .. LastSlot
      BY <2>2, SlotAssumption
    <2>4. Fits(reserved, from, now + 1, d, CapOf(applied[d]))
      BY <1>6, <1>k, <2>3 DEF Fits
    <2> QED
      BY <1>6, <1>k, <2>1, <2>4
  <1>7. ASSUME NEW r \in Runs, SubmitFails(r), NEW d \in Destinations, Bound(d) PROVE Kept(d)
    <2>1. UNCHANGED <<now, from, reserved, books, applied>>
      BY <1>7 DEF SubmitFails
    <2> QED
      BY <1>7, <1>k, <2>1
  <1>8. ASSUME NEW d \in Destinations, applied'[d].kind = "limit" \/ d \notin Governed PROVE Kept(d)
    <2>1. (\E g \in Governed : \E p \in Policies : SetPolicy(g, p)) \/ applied' = applied
      BY DEF CapacityNext, Submit, SubmitFails, Allocate, Release, RestoreScheduler, Tick
    <2>2. CASE \E g \in Governed : \E p \in Policies : SetPolicy(g, p)
      BY <1>4, <1>8, <2>2
    <2>3. CASE applied' = applied /\ ~ (\E g \in Governed : \E p \in Policies : SetPolicy(g, p))
      <3>1. Bound(d)
        BY <1>8, <2>3
      <3> HIDE DEF Bound, Kept
      <3> QED
        BY <1>1, <1>2, <1>3, <1>5, <1>6, <1>7, <2>3, <3>1 DEF CapacityNext
    <2> QED
      BY <2>1, <2>2, <2>3
  <1> QED
    BY <1>0, <1>8, LimitsAfter

LEMMA CapacityInitially == CapacityInit => CapacityInv
  <1> SUFFICES ASSUME CapacityInit PROVE CapacityInv
    OBVIOUS
  <1>0. /\ now = 0 /\ stage = [r \in Runs |-> "idle"] /\ from = [r \in Runs |-> 0]
        /\ schedule = [k \in Bookable |-> Blank] /\ reserved = {} /\ books = NoCharges
        /\ applied = [d \in Destinations |-> NoPolicy]
    BY DEF CapacityInit, Bookable
  <1>1. CapacityTypes
    BY <1>0, ConstantFacts DEF CapacityTypes, Stages, Policies
  <1>2. WindowsHeld
    BY <1>0 DEF WindowsHeld, Underway
  <1>3. ScheduleHeld
    BY <1>0, BookedNone DEF ScheduleHeld
  <1>4. NoCharges.active = {} /\ \A d \in Destinations : NoCharges.used[d] = 0
    BY DEF NoCharges
  <1>5. BooksHeld
    <2>1. \A d \in Destinations : Charging(NoCharges, d) = {}
      BY <1>4 DEF Charging
    <2>2. ChargedExactly(NoCharges)
      BY <1>4, <2>1, SumEmpty DEF ChargedExactly
    <2> QED
      BY <1>0, <1>4, <2>2, NoneShared DEF BooksHeld, AllOrNothing
  <1>6. LimitsAreKept
    <2> SUFFICES ASSUME NEW d \in Destinations PROVE ~ Overcommitted(d) /\ books.used[d] <= Cap(d)
      BY DEF LimitsAreKept
    <2>1. Cap(d) \in Nat /\ (~ Overcommitted(d) <=> Fits(reserved, from, now, d, Cap(d)))
      BY <1>1, <1>3, OvercommittedMeans
    <2>2. ASSUME NEW s \in SlotOf(now) .. LastSlot PROVE UseOf(reserved, from, d)[s] <= Cap(d)
      <3>1. s \in Slots
        BY <1>0, TimeSlots, ConstantFacts DEF Slots
      <3>2. UseOf({}, from, d)[s] = SumOver({}, Floor)
        <4>1. {r \in {} : BookedIn(r, from[r], d, s)} = {}
          OBVIOUS
        <4> QED
          BY <3>1, <4>1 DEF UseOf
      <3> QED
        BY <1>0, <2>1, <3>2, SumEmpty
    <2>3. Fits(reserved, from, now, d, Cap(d))
      BY <2>2 DEF Fits
    <2> QED
      BY <1>0, <1>4, <2>1, <2>3
  <1> QED
    BY <1>1, <1>2, <1>3, <1>5, <1>6 DEF CapacityInv

LEMMA CapacityStep == CapacityInv /\ [CapacityNext]_capacityVars => CapacityInv'
  <1>1. ASSUME CapacityInv, CapacityNext PROVE CapacityInv'
    BY <1>1, TypesStep, WindowsStep, ScheduleStep, BooksStep, LimitsStep DEF CapacityInv
  <1>2. ASSUME CapacityInv, UNCHANGED capacityVars PROVE CapacityInv'
    <2>1. /\ now' = now /\ stage' = stage /\ from' = from /\ schedule' = schedule
          /\ reserved' = reserved /\ books' = books /\ applied' = applied
      BY <1>2 DEF capacityVars
    <2>2. CapacityTypes' /\ WindowsHeld' /\ ScheduleHeld'
      BY <1>2, <2>1 DEF CapacityInv, CapacityTypes, WindowsHeld, ScheduleHeld
    <2>3. BooksHeld'
      <3>0. ChargedExactly(books) /\ SharedExactly(books) /\ AllOrNothing
        BY <1>2 DEF CapacityInv, BooksHeld
      <3>1. ChargedExactly(books)'
        BY <2>1, <3>0 DEF ChargedExactly, Charging
      <3>2. SharedExactly(books)'
        <4>1. SharedExactly(books')
          BY <2>1, <3>0
        <4> QED
          BY <4>1 DEF SharedExactly, SharedOn, SpareOn, ChargingOf, Charging
      <3>3. AllOrNothing'
        BY <2>1, <3>0 DEF AllOrNothing
      <3> QED
        BY <3>1, <3>2, <3>3 DEF BooksHeld
    <2>4. LimitsAreKept'
      BY <1>2, <2>1 DEF CapacityInv, LimitsAreKept, Overcommitted, MaxReserved, Cap
    <2> QED
      BY <2>2, <2>3, <2>4 DEF CapacityInv
  <1> QED
    BY <1>1, <1>2

LEMMA CapacityInvariant == CapacitySpec => []CapacityInv
  BY CapacityInitially, CapacityStep, PTL DEF CapacitySpec

\* The floors promised in a slot are the floors that are booked there.
LEMMA PromisedIsBooked ==
  ASSUME CapacityInv, NEW k \in Bookable, NEW s \in Slots
  PROVE  PromisedIn(k, s) = UseOf(reserved, from, k)[s]
  <1>1. ASSUME NEW r \in reserved
        PROVE  BookedIn(r, from[r], k, s) <=>
                 k \in Keys(r) /\ s \in SlotOf(from[r]) .. EndSlotOf(from[r] + Timeout[r] + Grace)
    <2>1. r \in Runs /\ from[r] \in Nat /\ WindowFits(r, from[r])
      BY ConstantFacts DEF CapacityInv, CapacityTypes, WindowsHeld
    <2>2. /\ Budget(r) = Timeout[r] + Grace
          /\ SlotOf(from[r]) \in Slots /\ EndSlotOf(from[r] + Budget(r)) \in Slots
      BY <2>1, WindowSlots
    <2>3. from[r] + Timeout[r] + Grace = from[r] + Budget(r)
      <3>1. Timeout[r] \in Nat
        BY <2>1, RunFacts
      <3> QED
        BY <2>1, <2>2, <3>1, ConstantFacts
    <2>4. \A a, b \in Slots : s \in a .. b <=> a <= s /\ s <= b
      BY SlotAssumption DEF Slots
    <2> QED
      BY <2>2, <2>3, <2>4 DEF BookedIn
  <1>2. Promising(k, s) = {r \in reserved : BookedIn(r, from[r], k, s)}
    BY <1>1 DEF Promising
  <1>3. PromisedIn(k, s) = SumOver({r \in reserved : BookedIn(r, from[r], k, s)}, Floor)
    BY <1>2 DEF PromisedIn, Total, SumOver
  <1> QED
    BY <1>3 DEF UseOf

\* The books of the destinations are exact: each charge is the floors of the runs recorded
\* there, the totals of an executor and its place in the fairshare tree are those of its runs,
\* a running run is charged on all of its destinations and any other on none, and the limits
\* handed out are max-min fair and within the capacity (Allocate, Remove, Fairshare, the
\* balanced tree with its rotations, deletions and cached sums), for any number of executors,
\* runs, destinations and changes of policy, through refusals and restarts.
THEOREM BooksStayExact == CapacitySpec => []BooksAreExact
  <1>1. ASSUME CapacityInv PROVE BooksAreExact
    <2>1. CapacityTypes /\ ScheduleHeld /\ ChargedExactly(books) /\ SharedExactly(books) /\ AllOrNothing
      BY <1>1 DEF CapacityInv, BooksHeld
    <2>2. \A d \in Destinations : Cap(d) \in Nat
      BY <2>1, OvercommittedMeans
    <2>3. SharesAreFair
      BY <2>1, <2>2, SharesFair
    <2>4. \A d \in Destinations : books.used[d] = SumOver(Charging(books, d), Floor) /\ books.used[d] \in Nat
      BY <2>1, ChargingFacts DEF ChargedExactly
    <2>5. CapacityTypeOK
      <3>1. DOMAIN schedule = Owners \cup Destinations
        BY <2>1 DEF ScheduleHeld, HoldsRuns, Bookable
      <3>2. \A d \in Destinations : books.used[d] >= 0
        BY <2>4
      <3>3. books.active \subseteq Runs \X Destinations
        BY <2>1 DEF ChargedExactly
      <3> QED
        BY <2>1, <3>1, <3>2, <3>3 DEF CapacityTypeOK, CapacityTypes
    <2>6. ChargesAreExact
      <3> SUFFICES ASSUME NEW d \in Destinations
                   PROVE  /\ books.used[d] = Total({r \in Runs : <<r, d>> \in books.active}, Floor)
                          /\ \A e \in Owners :
                               books.total[e][d] = [minimum |-> Total(RunsAt(e, d), Floor),
                                                    maximum |-> Total(RunsAt(e, d), Ceil),
                                                    runs    |-> Cardinality(RunsAt(e, d))]
                          /\ Sound(books.share[d])
                          /\ books.share[d].refs =
                               [e \in {e \in Owners : RunsAt(e, d) # {}} |->
                                  Total(RunsAt(e, d), Ceil) - Total(RunsAt(e, d), Floor)]
        BY DEF ChargesAreExact
      <3>1. \A e : RunsAt(e, d) = ChargingOf(books, e, d)
        BY DEF RunsAt, ChargingOf, Charging
      <3>2. \A S, f : Total(S, f) = SumOver(S, f)
        BY DEF Total, SumOver
      <3>3. SharedOn(books, d)
        BY <2>1 DEF SharedExactly
      <3>4. Sound(books.share[d])
        BY <3>3, TidySound DEF SharedOn
      <3>5. books.used[d] = Total({r \in Runs : <<r, d>> \in books.active}, Floor)
        BY <2>4, <3>2 DEF Charging
      <3> QED
        BY <3>1, <3>2, <3>3, <3>4, <3>5 DEF SharedOn, TotalOf, SpareOn, Spare
    <2> QED
      BY <2>1, <2>3, <2>5, <2>6 DEF BooksAreExact
  <1> QED
    BY <1>1, CapacityInvariant, PTL

\* The schedule of every executor and destination answers every query with the largest
\* sum of floors promised to the runs that hold a reservation, over the whole window each
\* asked for: adding, taking back, lazily pushing and pruning nodes (dyn.add, querymax)
\* and restoring after a restart lose and invent nothing, for any number of slots.
THEOREM ReservationsStayExact == CapacitySpec => []ReservationsAreExact
  <1>1. ASSUME CapacityInv PROVE ReservationsAreExact
    <2> SUFFICES ASSUME NEW k \in Bookable, NEW l \in Slots, NEW r \in l .. LastSlot
                 PROVE  \A promised \in {[s \in Slots |-> PromisedIn(k, s)]} :
                          QueryMax(schedule[k], l, r) = Max({promised[s] : s \in l .. r})
      BY DEF ReservationsAreExact, Bookable
    <2> DEFINE p == [s \in Slots |-> PromisedIn(k, s)]
               q == QueryMax(schedule[k], l, r)
               u == UseOf(reserved, from, k)
    <2>1. HoldsRuns(schedule, reserved, from)
      BY <1>1 DEF CapacityInv, ScheduleHeld
    <2>2. /\ q \in Nat
          /\ \A s \in l .. r : u[s] \in Nat /\ u[s] <= q
          /\ \E s \in l .. r : u[s] = q
      BY <2>1, QueryHeld
    <2>3. \A s \in l .. r : p[s] = u[s]
      <3>1. l .. r \subseteq Slots
        BY SlotAssumption DEF Slots
      <3> QED
        BY <1>1, <3>1, PromisedIsBooked
    <2> HIDE DEF q, p, u
    <2>4. q \in {p[s] : s \in l .. r} /\ \A x \in {p[s] : s \in l .. r} : x \in Nat /\ x <= q
      BY <2>2, <2>3
    <2>5. Max({p[s] : s \in l .. r}) = q
      <3> DEFINE S == {p[s] : s \in l .. r}
      <3>1. q \in S /\ \A x \in S : x \in Nat /\ x <= q
        BY <2>4
      <3> HIDE DEF S
      <3>2. Max(S) \in S /\ \A y \in S : Max(S) >= y
        BY <2>2, <3>1 DEF Max
      <3> DEFINE m == Max(S)
      <3> HIDE DEF m
      <3>3. m \in Nat /\ m <= q /\ m >= q
        BY <3>1, <3>2 DEF m
      <3>4. m = q
        BY <2>2, <3>3
      <3> QED
        BY <3>4 DEF S, m
    <2> QED
      BY <2>5 DEF p, q
  <1> QED
    BY <1>1, CapacityInvariant, PTL

\* A run charged on d, or about to be, whose window is open holds a reservation that
\* covers the slot of now.
LEMMA ReservedNow ==
  ASSUME CapacityInv, NEW x \in Runs, NEW d \in Range(Route[x]), stage[x] \in {"admitted", "running"},
         from[x] <= now, now < from[x] + Budget(x)
  PROVE  x \in reserved /\ BookedIn(x, from[x], d, SlotOf(now))
  <1>1. x \in reserved /\ WindowFits(x, from[x])
    BY DEF CapacityInv, WindowsHeld, Underway
  <1>2. from[x] \in Nat /\ now \in Nat
    BY ConstantFacts DEF CapacityInv, CapacityTypes
  <1>3. from[x] + Budget(x) \in Nat
    BY <1>1, <1>2, WindowSlots, ConstantFacts
  <1>4. SlotOf(from[x]) <= SlotOf(now) /\ SlotOf(now) <= EndSlotOf(from[x] + Budget(x))
    BY <1>2, <1>3, TimeSlots
  <1> QED
    BY <1>1, <1>4 DEF BookedIn, Keys

LEMMA AdmittedFits == CapacityInv => AdmittedRunFits
  <1> SUFFICES ASSUME CapacityInv, NEW r \in Runs, NEW d \in Range(Route[r]), stage[r] = "admitted",
                      now >= from[r], now < from[r] + Budget(r), ~ Denied(d), ~ Overcommitted(d),
                      \A x \in Runs : <<x, d>> \in books.active => from[x] + Budget(x) > now
               PROVE  books.used[d] + Floor[r] <= Cap(d)
    BY DEF AdmittedRunFits, CanCharge
  <1> DEFINE A == Charging(books, d)
             s == SlotOf(now)
             B == {x \in reserved : BookedIn(x, from[x], d, s)}
  <1>0. /\ now \in Nat /\ now \in 0 .. LastTime /\ \A x \in Runs : from[x] \in Nat
        /\ reserved \in SUBSET Runs /\ d \in Destinations /\ Floor[r] \in Nat
    BY ConstantFacts, RunFacts DEF CapacityInv, CapacityTypes
  <1>1. s \in Slots /\ s \in s .. LastSlot
    BY <1>0, TimeSlots, SlotAssumption DEF Slots
  <1>2. ASSUME NEW x \in A PROVE x \in B /\ x # r
    <2>1. x \in Runs /\ <<x, d>> \in books.active
      BY <1>2 DEF Charging
    <2>2. stage[x] = "running" /\ d \in Range(Route[x])
      BY <1>0, <2>1 DEF CapacityInv, BooksHeld, AllOrNothing
    <2>3. from[x] <= now /\ WindowFits(x, from[x])
      BY <2>1, <2>2 DEF CapacityInv, WindowsHeld, Underway
    <2>4. now < from[x] + Budget(x)
      <3>1. from[x] + Budget(x) > now /\ from[x] \in Nat /\ Budget(x) \in Nat
        BY <1>0, <2>1, <2>3, WindowSlots
      <3> QED
        BY <1>0, <3>1
    <2> QED
      BY <2>1, <2>2, <2>3, <2>4, ReservedNow
  <1>3. r \in B
    <2>1. from[r] <= now
      BY <1>0
    <2> QED
      BY <2>1, ReservedNow
  <1>4. A \cup {r} \in SUBSET B /\ r \notin A /\ B \in SUBSET Runs
    BY <1>0, <1>2, <1>3
  <1>5. UseOf(reserved, from, d)[s] = SumOver(B, Floor)
    BY <1>1 DEF UseOf
  <1>6. SumOver(B, Floor) <= Cap(d) /\ Cap(d) \in Nat
    BY <1>0, <1>1, <1>5, OvercommittedMeans DEF CapacityInv, Fits
  <1>7. books.used[d] = SumOver(A, Floor)
    BY <1>0 DEF CapacityInv, BooksHeld, ChargedExactly
  <1>8. IsFiniteSet(A) /\ (\A x \in A : Floor[x] \in Int) /\ SumOver(A, Floor) \in Nat
    BY ChargingFacts
  <1> HIDE DEF A, B, s
  <1>9. SumOver(A \cup {r}, Floor) = SumOver(A, Floor) + Floor[r]
    BY <1>0, <1>4, <1>8, SumAdd
  <1> DEFINE C == A \cup {r}
  <1>10. IsFiniteSet(B) /\ (\A x \in B : Floor[x] \in Nat) /\ C \in SUBSET B
    BY <1>4, CapacityAssumption, FS_Subset, RunFacts
  <1>11. SumOver(C, Floor) = SumOver(A, Floor) + Floor[r]
    BY <1>9
  <1> HIDE DEF C
  <1>12. /\ SumOver(B, Floor) = SumOver(C, Floor) + SumOver(B \ C, Floor)
         /\ SumOver(C, Floor) \in Nat /\ SumOver(B \ C, Floor) \in Nat
    BY <1>10, SumPart
  <1> QED
    BY <1>0, <1>6, <1>7, <1>8, <1>11, <1>12

\* Admission promises what allocation and policy later keep: a run that was admitted is not
\* refused for capacity while its window is open, and a limit an operator set (or a default
\* nobody changed) is never overcommitted, through every rollback, restart and change of
\* policy (validateDebugletSpec, DestinationsUsage.Allocate, changeDestinationPolicy).
THEOREM PromisesStayKept == CapacitySpec => []PromisesAreKept
  <1>1. CapacityInv => PromisesAreKept
    BY AdmittedFits DEF CapacityInv, PromisesAreKept
  <1> QED
    BY <1>1, CapacityInvariant, PTL

-----------------------------------------------------------------------------
(* How policies are delivered. *)

USE DeliveryAssumption

-----------------------------------------------------------------------------
(* Types, in parts. *)
Entries    == [sess : Nat, version : Nat, pending : BOOLEAN, rev : Nat, tail : Nat]
Changes    == [st : WorkStates, kind : WorkKinds, org : Executors \cup {"none"}, err : BOOLEAN]
Deliveries == [st : DeliveryStates, sess : Nat, rev : Nat, after : Nat, snap : Snapshots]
Messages   == [to : Executors, sess : Nat, rev : Nat, wire : Nat, snap : Snapshots]
Objects    == [rev : Nat, applied : Nat, published : Nat, snap : Snapshots]

PolicyTypes == event \in Events /\ lapsed \in BOOLEAN /\ policy \in Events /\ due \in Nat
BookTypes   == held \subseteq Executors \X Nat /\ entry \in [Executors -> Entries]
SessTypes   == sess \in [Executors -> Nat] /\ live \in [Executors -> BOOLEAN]
SendTypes   ==
  /\ work \in [Works -> Changes] /\ del \in [Works -> [Executors -> Deliveries]]
  /\ net \subseteq Messages
ExecTypes   == exec \in [Executors -> Objects] /\ changes \in Nat /\ faults \in Nat
TypeParts   == PolicyTypes /\ BookTypes /\ SessTypes /\ SendTypes /\ ExecTypes

-----------------------------------------------------------------------------
(* The inductive invariant.  *)

\* Charges are of sessions that were opened.
HeldInv == IsFiniteSet(held) /\ \A h \in held : 1 <= h[2] /\ h[2] <= sess[h[1]]

\* A live session is the registered one, and an executor object lives as long as its
\* session.
SessAt(e) ==
  /\ sess[e] <= MaxSessions
  /\ live[e] => sess[e] # 0 /\ entry[e].sess = sess[e]
  /\ Registered(e) => entry[e].sess = sess[e]
  /\ ~live[e] => exec[e] = NewExecutor
SessInv == \A e \in Executors : SessAt(e)

\* A change on its way delivers to the latest session of each recipient; a denial that
\* retires sessions may be behind, and calls nobody.
PlaceAt(w, e) ==
  del[w][e].st # "none" =>
    \/ work[w].st = "sending" /\ del[w][e].sess = sess[e]
    \/ work[w].st = "retiring" /\ ~Open(del[w][e]) /\ del[w][e].sess <= sess[e]
PlaceInv == \A w \in Works, e \in Executors : PlaceAt(w, e)

\* No delivery, request or executor is ahead of the entry's revision.
RevAt(w, e) ==
  Registered(e) /\ del[w][e].st # "none" /\ del[w][e].sess = sess[e] => del[w][e].rev <= entry[e].rev
RevInv == \A w \in Works, e \in Executors : RevAt(w, e)
MessageAt(m) ==
  /\ live[m.to] /\ m.sess = sess[m.to] /\ m.rev <= entry[m.to].rev
  /\ m.wire = IF ordered(m.to) THEN m.rev ELSE 0
NetInv == \A m \in net : MessageAt(m)
ExecAt(e) ==
  /\ exec[e].published = exec[e].applied /\ exec[e].applied <= exec[e].rev
  /\ live[e] => exec[e].rev <= entry[e].rev
ExecInv == \A e \in Executors : ExecAt(e)

\* What was answered is applied, and so is what the dispatcher holds for reconciled.
AckAt(w, e) ==
  live[e] /\ ordered(e) /\ del[w][e].st \in {"answered", "acked"} /\ del[w][e].sess = sess[e] =>
    del[w][e].rev <= exec[e].applied
AckInv == \A w \in Works, e \in Executors : AckAt(w, e)
BeliefAt(e) == live[e] /\ ordered(e) /\ ~entry[e].pending => entry[e].rev <= exec[e].applied
BeliefInv == \A e \in Executors : BeliefAt(e)

\* Whatever has the entry's revision, received, on the wire or waiting, is the current
\* snapshot, unless a change is still to be captured.
Settled(e) ==
  live[e] /\ ordered(e) /\ <<e, sess[e]>> \in held /\ \A w \in Works : work[w].st # "charged"
SnapAt(e) ==
  Settled(e) =>
    /\ exec[e].rev = entry[e].rev => exec[e].snap = Snapshot(e, held, policy)
    /\ \A w \in Works : del[w][e].st = "wait" /\ del[w][e].rev = entry[e].rev =>
         del[w][e].snap = Snapshot(e, held, policy)
    /\ \A m \in net : m.to = e /\ m.rev = entry[e].rev => m.snap = Snapshot(e, held, policy)
SnapInv == \A e \in Executors : SnapAt(e)

\* Everything on its way to e from revision n on denies.
DeniesFrom(e, n) ==
  /\ \A w \in Works : del[w][e].st = "wait" /\ n <= del[w][e].rev => del[w][e].snap.kind = "deny"
  /\ \A m \in net : m.to = e /\ n <= m.rev => m.snap.kind = "deny"

\* The denial is in force at e for good, or a change that denies has yet to look at e.
InForce(e) == entry[e].version >= 2 /\ exec[e].snap.kind = "deny" /\ DeniesFrom(e, exec[e].rev)
Watched(w, e) ==
  /\ work[w].kind = "deny" /\ del[w][e].st # "none" /\ del[w][e].sess = sess[e]
  /\ DeniesFrom(e, del[w][e].rev)
  /\ entry[e].version >= 2 /\ del[w][e].rev <= exec[e].rev => exec[e].snap.kind = "deny"
DenyAt(e) ==
  policy.kind = "deny" /\ live[e] /\ <<e, sess[e]>> \in held =>
    InForce(e) \/ \E w \in Works : Watched(w, e)
DenyInv == \A e \in Executors : DenyAt(e)

\* The policy in force is the recorded one but for its kind, and what the sweep found
\* due has expired unless another event followed.
DueInv ==
  /\ policy.rev = event.rev /\ policy.exp = event.exp /\ due <= event.rev
  /\ due # 0 /\ due = event.rev => event.exp /\ lapsed

IInv ==
  /\ TypeParts /\ HeldInv /\ SessInv /\ PlaceInv /\ RevInv /\ NetInv /\ ExecInv /\ AckInv
  /\ BeliefInv /\ SnapInv /\ DenyInv /\ DueInv

-----------------------------------------------------------------------------
(* A step that leaves the variables of a conjunct alone keeps it.  *)

\* PolicyTypes rests on these variables alone.
LEMMA PolicyTypesUnchanged ==
  ASSUME PolicyTypes, UNCHANGED <<event, lapsed, policy, due>>
  PROVE  PolicyTypes'
  BY DEF PolicyTypes

\* BookTypes rests on these variables alone.
LEMMA BookTypesUnchanged ==
  ASSUME BookTypes, UNCHANGED <<held, entry>>
  PROVE  BookTypes'
  BY DEF BookTypes

\* SessTypes rests on these variables alone.
LEMMA SessTypesUnchanged ==
  ASSUME SessTypes, UNCHANGED <<sess, live>>
  PROVE  SessTypes'
  BY DEF SessTypes

\* SendTypes rests on these variables alone.
LEMMA SendTypesUnchanged ==
  ASSUME SendTypes, UNCHANGED <<work, del, net>>
  PROVE  SendTypes'
  BY DEF SendTypes

\* ExecTypes rests on these variables alone.
LEMMA ExecTypesUnchanged ==
  ASSUME ExecTypes, UNCHANGED <<exec, changes, faults>>
  PROVE  ExecTypes'
  BY DEF ExecTypes

\* HeldInv rests on these variables alone.
LEMMA HeldInvUnchanged ==
  ASSUME HeldInv, UNCHANGED <<held, sess>>
  PROVE  HeldInv'
  BY DEF HeldInv

\* SessInv rests on these variables alone.
LEMMA SessInvUnchanged ==
  ASSUME SessInv, UNCHANGED <<sess, live, entry, exec>>
  PROVE  SessInv'
  BY DEF SessInv, SessAt, Registered

\* PlaceInv rests on these variables alone.
LEMMA PlaceInvUnchanged ==
  ASSUME PlaceInv, UNCHANGED <<work, del, sess>>
  PROVE  PlaceInv'
  BY DEF PlaceInv, PlaceAt, Open

\* RevInv rests on these variables alone.
LEMMA RevInvUnchanged ==
  ASSUME RevInv, UNCHANGED <<entry, del, sess>>
  PROVE  RevInv'
  BY DEF RevInv, RevAt, Registered

\* NetInv rests on these variables alone.
LEMMA NetInvUnchanged ==
  ASSUME NetInv, UNCHANGED <<net, live, sess, entry>>
  PROVE  NetInv'
  BY DEF NetInv, MessageAt, ordered

\* ExecInv rests on these variables alone.
LEMMA ExecInvUnchanged ==
  ASSUME ExecInv, UNCHANGED <<exec, live, entry>>
  PROVE  ExecInv'
  BY DEF ExecInv, ExecAt

\* AckInv rests on these variables alone.
LEMMA AckInvUnchanged ==
  ASSUME AckInv, UNCHANGED <<del, live, sess, entry, exec>>
  PROVE  AckInv'
  BY DEF AckInv, AckAt, ordered

\* BeliefInv rests on these variables alone.
LEMMA BeliefInvUnchanged ==
  ASSUME BeliefInv, UNCHANGED <<live, entry, exec>>
  PROVE  BeliefInv'
  BY DEF BeliefInv, BeliefAt, ordered

\* SnapInv rests on these variables alone.
LEMMA SnapInvUnchanged ==
  ASSUME SnapInv, UNCHANGED <<live, entry, held, work, exec, del, sess, net, policy>>
  PROVE  SnapInv'
  BY DEF SnapInv, SnapAt, Settled, ordered, Snapshot, Holds

\* DenyInv rests on these variables alone.
LEMMA DenyInvUnchanged ==
  ASSUME DenyInv, UNCHANGED <<policy, live, held, entry, exec, del, net, work, sess>>
  PROVE  DenyInv'
  BY DEF DenyInv, DenyAt, InForce, Watched, DeniesFrom

\* DueInv rests on these variables alone.
LEMMA DueInvUnchanged ==
  ASSUME DueInv, UNCHANGED <<policy, event, due, lapsed>>
  PROVE  DueInv'
  BY DEF DueInv

-----------------------------------------------------------------------------
(* What the operators of the capture and of the end of a session do. *)

\* A snapshot of finite books.
LEMMA SnapshotType ==
  ASSUME NEW h, IsFiniteSet(h), NEW p \in Events, NEW e \in Executors
  PROVE  /\ Snapshot(e, h, p) \in Snapshots
         /\ Holds(h, e) => Snapshot(e, h, p).kind = p.kind
  BY FS_CardinalityType DEF Snapshot, Snapshots, Events, Kinds

\* With a session go its requests and its executor object.
LEMMA EndedEffect ==
  ASSUME BookTypes, SessTypes, SendTypes, ExecTypes, NEW E, Ended(E)
  PROVE  /\ live' \in [Executors -> BOOLEAN] /\ net' \subseteq net /\ exec' \in [Executors -> Objects]
         /\ \A m \in net' : m.to \notin E
         /\ \A x \in Executors : x \in E => ~live'[x] /\ exec'[x] = NewExecutor
         /\ \A x \in Executors : x \notin E => live'[x] = live[x] /\ exec'[x] = exec[x]
         /\ \A m \in net : m.to \notin E => m \in net'
  <1>1. NewExecutor \in Objects
    BY DEF NewExecutor, Objects, Snapshots, Kinds
  <1>2. exec' \in [Executors -> Objects]
    BY <1>1 DEF Ended, ExecTypes
  <1>3. live' \in [Executors -> BOOLEAN]
    BY DEF Ended, SessTypes
  <1>4. \A x \in Executors : x \notin E => live'[x] = live[x]
    BY Zenon DEF Ended, SessTypes
  <1>5. \A x \in Executors : x \in E => ~live'[x]
    BY Zenon DEF Ended, SessTypes
  <1> QED
    BY <1>2, <1>3, <1>4, <1>5 DEF Ended

\* A free slot delivers nothing.
LEMMA FreeEffect ==
  ASSUME IInv, NEW w \in Works, Free(w) \/ work[w].st = "charged"
  PROVE  work[w].st \in {"idle", "charged"} /\ \A e \in Executors : del[w][e].st = "none"
  BY DEF IInv, PlaceInv, PlaceAt, Free, NoWork

\* What a capture does: a new revision for each registered recipient, which owes an
\* acknowledgement, and for each live one a delivery of the snapshot under it.
LEMMA CaptureEffect ==
  ASSUME IInv, NEW w \in Works, NEW org \in Executors \cup {"none"}, NEW kind \in WorkKinds,
         NEW h, IsFiniteSet(h), NEW p \in Events, NEW to \in SUBSET Executors,
         Capture(w, org, kind, h, p, to)
  PROVE  /\ entry' \in [Executors -> Entries] /\ work' \in [Works -> Changes]
         /\ del' \in [Works -> [Executors -> Deliveries]]
         /\ \A e \in Executors :
              /\ entry'[e].sess = entry[e].sess /\ entry'[e].version = entry[e].version
              /\ entry[e].rev <= entry'[e].rev
              /\ e \notin to \/ ~Registered(e) => entry'[e] = entry[e]
              /\ e \in to /\ Registered(e) => entry'[e].rev = entry[e].rev + 1 /\ entry'[e].pending
         /\ \A v \in Works : v # w => del'[v] = del[v] /\ work'[v] = work[v]
         /\ work'[w].st = "sending" /\ work'[w].kind = kind
         /\ \A e \in Executors : del'[w][e].st # "none" =>
              /\ e \in to /\ Registered(e) /\ del'[w][e].st = "wait" /\ del'[w][e].sess = entry[e].sess
              /\ del'[w][e].rev = entry[e].rev + 1 /\ del'[w][e].snap = Snapshot(e, h, p)
         /\ \A e \in Executors : e \in to /\ Registered(e) /\ live[e] => del'[w][e].st = "wait"
  <1> USE DEF IInv, TypeParts
  <1>1. /\ entry \in [Executors -> Entries] /\ work \in [Works -> Changes]
        /\ del \in [Works -> [Executors -> Deliveries]]
    BY DEF BookTypes, SendTypes
  <1>2. \A e \in Executors : Snapshot(e, h, p) \in Snapshots
    BY SnapshotType
  <1>3. NoDelivery \in Deliveries /\ NoDelivery.st = "none"
    BY DEF NoDelivery, Deliveries, DeliveryStates, Snapshots, Kinds
  <1>4. ASSUME NEW e \in Executors
        PROVE  /\ Bumped(entry[e]) \in Entries /\ Bumped(entry[e]).sess = entry[e].sess
               /\ Bumped(entry[e]).version = entry[e].version
               /\ Bumped(entry[e]).rev = entry[e].rev + 1 /\ Bumped(entry[e]).pending
    <2>1. entry[e] \in Entries
      BY <1>1
    <2>2. Bumped(entry[e]).pending = TRUE
      BY <2>1 DEF Bumped, Entries
    <2>3. Bumped(entry[e]) \in Entries
      <3>1. ASSUME NEW en \in Entries, NEW b \in BOOLEAN PROVE [en EXCEPT !.pending = b] \in Entries
        BY DEF Entries
      <3>2. ASSUME NEW en \in Entries, NEW n \in Nat PROVE [en EXCEPT !.rev = n] \in Entries
        BY DEF Entries
      <3>3. [[entry[e] EXCEPT !.pending = TRUE] EXCEPT !.rev = entry[e].rev + 1] \in Entries
        <4>1. entry[e].rev + 1 \in Nat
          BY <2>1 DEF Entries
        <4>2. [entry[e] EXCEPT !.pending = TRUE] \in Entries
          BY <2>1, <3>1
        <4> QED
          BY <3>2, <4>1, <4>2
      <3> QED
        BY <2>1, <3>3 DEF Bumped, Entries
    <2>4. Bumped(entry[e]).rev = entry[e].rev + 1
      BY <2>1 DEF Bumped, Entries
    <2>5. Bumped(entry[e]).sess = entry[e].sess /\ Bumped(entry[e]).version = entry[e].version
      BY <2>1 DEF Bumped, Entries
    <2> QED
      BY <2>2, <2>3, <2>4, <2>5
  <1>5. ASSUME NEW e \in Executors, e \in to, Registered(e)
        PROVE  /\ entry'[e] \in Entries /\ entry'[e].sess = entry[e].sess
               /\ entry'[e].version = entry[e].version
               /\ entry'[e].rev = entry[e].rev + 1 /\ entry'[e].pending
    <2>1. CASE Admits(e, org)
      <3>1. entry'[e] = [Bumped(entry[e]) EXCEPT !.tail = Bumped(entry[e]).rev]
        BY <1>5, <2>1 DEF Capture
      <3> QED
        BY <1>1, <1>4, <3>1 DEF Entries
    <2>2. CASE ~Admits(e, org)
      <3>1. entry'[e] = Bumped(entry[e])
        BY <1>5, <2>2 DEF Capture
      <3> QED
        BY <1>4, <3>1
    <2> QED
      BY <2>1, <2>2
  <1>6. \A e \in Executors : e \notin to \/ ~Registered(e) => entry'[e] = entry[e]
    BY DEF Capture
  <1>7. entry' \in [Executors -> Entries]
    <2>1. \A e \in Executors : entry'[e] \in Entries
      BY <1>1, <1>5, <1>6
    <2> QED
      BY <2>1 DEF Capture
  <1>8. \A e \in Executors : entry[e].rev <= entry'[e].rev
    BY <1>1, <1>5, <1>6 DEF Entries
  <1>9. ASSUME NEW e \in Executors
        PROVE  /\ del'[w][e] \in Deliveries
               /\ del'[w][e].st # "none" =>
                    /\ e \in to /\ Registered(e) /\ del'[w][e].st = "wait"
                    /\ del'[w][e].sess = entry[e].sess /\ del'[w][e].rev = entry[e].rev + 1
                    /\ del'[w][e].snap = Snapshot(e, h, p)
               /\ e \in to /\ Registered(e) /\ live[e] => del'[w][e].st = "wait"
    <2> DEFINE D == [st |-> "wait", sess |-> entry[e].sess, rev |-> entry[e].rev + 1,
                     after |-> entry[e].tail, snap |-> Snapshot(e, h, p)]
    <2>1. del'[w][e] = IF e \in to /\ Admits(e, org) THEN D ELSE NoDelivery
      BY <1>1 DEF Capture
    <2>2. D \in Deliveries
      BY <1>1, <1>2 DEF Deliveries, DeliveryStates, Entries
    <2>3. D.st = "wait" /\ D.sess = entry[e].sess /\ D.rev = entry[e].rev + 1 /\ D.snap = Snapshot(e, h, p)
      OBVIOUS
    <2> HIDE DEF D
    <2> QED
      BY <1>3, <2>1, <2>2, <2>3 DEF Admits
  <1>10. /\ del' \in [Works -> [Executors -> Deliveries]]
         /\ \A v \in Works : v # w => del'[v] = del[v]
    <2> DEFINE F == [e \in Executors |->
                       IF e \in to /\ Admits(e, org)
                       THEN [st |-> "wait", sess |-> entry[e].sess, rev |-> entry[e].rev + 1,
                             after |-> entry[e].tail, snap |-> Snapshot(e, h, p)]
                       ELSE NoDelivery]
    <2>1. del' = [del EXCEPT ![w] = F]
      BY DEF Capture
    <2>2. del'[w] = F
      BY <1>1, <2>1
    <2>3. F \in [Executors -> Deliveries]
      BY <1>9, <2>2
    <2> HIDE DEF F
    <2> QED
      BY <1>1, <2>1, <2>3
  <1>11. /\ work' \in [Works -> Changes] /\ work'[w].st = "sending" /\ work'[w].kind = kind
         /\ \A v \in Works : v # w => work'[v] = work[v]
    <2>1. PICK err \in BOOLEAN : work' = [work EXCEPT ![w] = [st |-> "sending", kind |-> kind, org |-> org, err |-> err]]
      BY DEF Capture
    <2> QED
      BY <1>1, <2>1 DEF Changes, WorkStates
  <1> HIDE DEF IInv, TypeParts
  <1> QED
    BY <1>5, <1>6, <1>7, <1>8, <1>9, <1>10, <1>11

\* A capture in a slot that delivers nothing keeps what is said of deliveries.
LEMMA CaptureKeeps ==
  ASSUME IInv, NEW w \in Works, NEW org \in Executors \cup {"none"}, NEW kind \in WorkKinds,
         NEW h, IsFiniteSet(h), NEW p \in Events, NEW to \in SUBSET Executors,
         Capture(w, org, kind, h, p, to), UNCHANGED <<sess, live, exec, net>>
  PROVE  SessInv' /\ PlaceInv' /\ RevInv' /\ NetInv' /\ ExecInv' /\ AckInv' /\ BeliefInv'
  <1> USE DEF IInv, TypeParts
  <1>1. /\ entry \in [Executors -> Entries] /\ sess \in [Executors -> Nat] /\ net \subseteq Messages
        /\ del \in [Works -> [Executors -> Deliveries]] /\ exec \in [Executors -> Objects]
    BY DEF BookTypes, SessTypes, SendTypes, ExecTypes
  <1>2. /\ entry' \in [Executors -> Entries]
        /\ \A e \in Executors :
             /\ entry'[e].sess = entry[e].sess /\ entry'[e].version = entry[e].version
             /\ entry[e].rev <= entry'[e].rev
             /\ e \notin to \/ ~Registered(e) => entry'[e] = entry[e]
             /\ e \in to /\ Registered(e) => entry'[e].rev = entry[e].rev + 1 /\ entry'[e].pending
        /\ \A v \in Works : v # w => del'[v] = del[v] /\ work'[v] = work[v]
        /\ work'[w].st = "sending"
        /\ \A e \in Executors : del'[w][e].st # "none" =>
             /\ e \in to /\ Registered(e) /\ del'[w][e].st = "wait" /\ del'[w][e].sess = entry[e].sess
             /\ del'[w][e].rev = entry[e].rev + 1
    BY CaptureEffect
  <1> HIDE DEF TypeParts
  <1>3. SessInv'
    BY <1>2 DEF SessInv, SessAt, Registered
  <1>4. PlaceInv'
    <2> SUFFICES ASSUME NEW v \in Works, NEW e \in Executors PROVE PlaceAt(v, e)'
      BY DEF PlaceInv
    <2>1. CASE v = w
      BY <1>2, <2>1 DEF SessInv, SessAt, PlaceAt, Registered
    <2>2. CASE v # w
      BY <1>2, <2>2 DEF PlaceInv, PlaceAt, Open
    <2> QED
      BY <2>1, <2>2
  <1>5. RevInv'
    <2> SUFFICES ASSUME NEW v \in Works, NEW e \in Executors PROVE RevAt(v, e)'
      BY DEF RevInv
    <2>1. CASE v = w
      BY <1>1, <1>2, <2>1 DEF RevAt, Registered, Entries
    <2>2. CASE v # w
      BY <1>1, <1>2, <2>2 DEF RevInv, RevAt, Registered, Entries, Deliveries
    <2> QED
      BY <2>1, <2>2
  <1>6. NetInv'
    BY <1>1, <1>2 DEF NetInv, MessageAt, ordered, Messages, Entries
  <1>7. ExecInv'
    BY <1>1, <1>2 DEF ExecInv, ExecAt, Objects, Entries
  <1>8. AckInv'
    <2> SUFFICES ASSUME NEW v \in Works, NEW e \in Executors PROVE AckAt(v, e)'
      BY DEF AckInv
    <2>1. CASE v = w
      BY <1>2, <2>1 DEF AckAt
    <2>2. CASE v # w
      BY <1>2, <2>2 DEF AckInv, AckAt, ordered
    <2> QED
      BY <2>1, <2>2
  <1>9. BeliefInv'
    <2> SUFFICES ASSUME NEW e \in Executors PROVE BeliefAt(e)'
      BY DEF BeliefInv
    <2>1. CASE e \in to /\ Registered(e)
      BY <1>2, <2>1 DEF BeliefAt
    <2>2. CASE ~(e \in to /\ Registered(e))
      BY <1>2, <2>2 DEF BeliefInv, BeliefAt, ordered
    <2> QED
      BY <2>1, <2>2
  <1> QED
    BY <1>3, <1>4, <1>5, <1>6, <1>7, <1>8, <1>9

\* A capture for everyone that shares the destination makes the current snapshot the
\* only one under the new revisions; one for a single executor leaves the others alone.
LEMMA CaptureSnaps ==
  ASSUME IInv, NEW w \in Works, NEW org \in Executors \cup {"none"}, NEW kind \in WorkKinds,
         NEW p \in Events, NEW to \in SUBSET Executors,
         Capture(w, org, kind, held, p, to), Free(w) \/ work[w].st = "charged",
         UNCHANGED <<sess, live, exec, net, held>>, policy' = p,
         to = Fairshare(held) \/ (p = policy /\ Free(w))
  PROVE  SnapInv'
  <1> USE DEF IInv, TypeParts
  <1>1. /\ entry \in [Executors -> Entries] /\ sess \in [Executors -> Nat] /\ net \subseteq Messages
        /\ del \in [Works -> [Executors -> Deliveries]] /\ exec \in [Executors -> Objects]
    BY DEF BookTypes, SessTypes, SendTypes, ExecTypes
  <1>2. /\ \A e \in Executors :
             /\ entry'[e].version = entry[e].version
             /\ e \notin to \/ ~Registered(e) => entry'[e] = entry[e]
             /\ e \in to /\ Registered(e) => entry'[e].rev = entry[e].rev + 1
        /\ \A v \in Works : v # w => del'[v] = del[v] /\ work'[v] = work[v]
        /\ \A e \in Executors : del'[w][e].st # "none" =>
             e \in to /\ Registered(e) /\ del'[w][e].snap = Snapshot(e, held, p)
    <2>1. IsFiniteSet(held)
      BY DEF HeldInv
    <2> HIDE DEF IInv, TypeParts
    <2>2. ASSUME NEW e \in Executors
          PROVE  /\ entry'[e].version = entry[e].version
                 /\ e \notin to \/ ~Registered(e) => entry'[e] = entry[e]
                 /\ e \in to /\ Registered(e) => entry'[e].rev = entry[e].rev + 1
      BY <2>1, CaptureEffect
    <2>3. ASSUME NEW v \in Works, v # w PROVE del'[v] = del[v] /\ work'[v] = work[v]
      BY <2>1, <2>3, CaptureEffect
    <2>4. ASSUME NEW e \in Executors, del'[w][e].st # "none"
          PROVE  e \in to /\ Registered(e) /\ del'[w][e].snap = Snapshot(e, held, p)
      BY <2>1, <2>4, CaptureEffect
    <2> QED
      BY <2>2, <2>3, <2>4
  <1> SUFFICES ASSUME NEW e \in Executors, Settled(e)' PROVE SnapAt(e)'
    BY DEF SnapInv, SnapAt
  <1>3. /\ live[e] /\ ordered(e) /\ <<e, sess[e]>> \in held /\ Registered(e)
        /\ Snapshot(e, held, policy)' = Snapshot(e, held, p)
    BY <1>2 DEF Settled, ordered, SessInv, SessAt, Registered, Snapshot, Holds
  <1>4. e \in Fairshare(held)
    <2>1. sess[e] \in 0..MaxSessions
      BY <1>1 DEF SessInv, SessAt
    <2> QED
      BY <1>3, <2>1 DEF Fairshare, Holds
  <1> HIDE DEF TypeParts
  <1>5. CASE e \in to
    <2>1. entry'[e].rev = entry[e].rev + 1 /\ entry[e].rev \in Nat
      BY <1>1, <1>2, <1>3, <1>5 DEF Entries
    <2>2. exec'[e].rev # entry'[e].rev
      BY <1>1, <1>3, <2>1 DEF ExecInv, ExecAt, Objects
    <2>3. \A m \in net' : m.to = e => m.rev # entry'[e].rev
      BY <1>1, <2>1 DEF NetInv, MessageAt, Messages
    <2>4. ASSUME NEW v \in Works, del'[v][e].st = "wait", del'[v][e].rev = entry'[e].rev
          PROVE  del'[v][e].snap = Snapshot(e, held, p)
      <3>1. CASE v = w
        BY <1>2, <2>4, <3>1
      <3>2. CASE v # w
        <4>1. del[v][e].st = "wait" /\ del[v][e].rev = entry[e].rev + 1
          BY <1>2, <2>1, <2>4, <3>2
        <4>2. del[v][e].sess = sess[e]
          BY <4>1 DEF PlaceInv, PlaceAt, Open
        <4>3. del[v][e].rev <= entry[e].rev
          BY <1>3, <4>1, <4>2 DEF RevInv, RevAt
        <4> QED
          BY <2>1, <4>1, <4>3
      <3> QED
        BY <3>1, <3>2
    <2> QED
      BY <1>3, <2>2, <2>3, <2>4 DEF SnapAt
  <1>6. CASE e \notin to
    <2>1. p = policy /\ Free(w) /\ entry'[e] = entry[e]
      BY <1>2, <1>4, <1>6
    <2>2. \A v \in Works : work[v].st # "charged"
      <3>1. work[w].st # "charged"
        BY <2>1 DEF Free, NoWork
      <3> QED
        BY <1>2, <3>1 DEF Settled
    <2>3. Settled(e)
      BY <1>3, <2>2 DEF Settled
    <2>4. \A v \in Works : del'[v][e].st = "wait" => del'[v][e] = del[v][e]
      BY <1>2, <1>6
    <2> QED
      BY <1>3, <2>1, <2>3, <2>4 DEF SnapInv, SnapAt
  <1> QED
    BY <1>5, <1>6

\* While the destination stays denied, a capture adds denials.
LEMMA CaptureDenies ==
  ASSUME IInv, NEW w \in Works, NEW org \in Executors \cup {"none"}, NEW kind \in WorkKinds,
         NEW to \in SUBSET Executors, NEW p \in Events, p = policy,
         Capture(w, org, kind, held, p, to), Free(w) \/ work[w].st = "charged",
         UNCHANGED <<sess, live, exec, net, held, policy>>
  PROVE  DenyInv'
  <1> USE DEF IInv, TypeParts
  <1>1. /\ sess \in [Executors -> Nat] /\ del \in [Works -> [Executors -> Deliveries]]
    BY DEF SessTypes, SendTypes
  <1>2. /\ \A e \in Executors : entry'[e].version = entry[e].version
        /\ \A v \in Works : v # w => del'[v] = del[v] /\ work'[v] = work[v]
        /\ \A e \in Executors : del'[w][e].st # "none" => del'[w][e].snap = Snapshot(e, held, p)
    <2>1. IsFiniteSet(held)
      BY DEF HeldInv
    <2> HIDE DEF IInv, TypeParts
    <2> QED
      BY <2>1, CaptureEffect
  <1>3. \A e \in Executors : del[w][e].st = "none"
    BY FreeEffect
  <1> SUFFICES ASSUME NEW e \in Executors, policy.kind = "deny", live[e], <<e, sess[e]>> \in held
               PROVE  InForce(e)' \/ \E v \in Works : Watched(v, e)'
    BY DEF DenyInv, DenyAt
  <1>4. Snapshot(e, held, p).kind = "deny"
    <2>1. sess[e] \in 0..MaxSessions
      BY <1>1 DEF SessInv, SessAt
    <2> QED
      BY <2>1, SnapshotType DEF Holds, HeldInv
  <1> HIDE DEF TypeParts
  <1>5. ASSUME NEW n, DeniesFrom(e, n) PROVE (\A v \in Works : del'[v][e].st = "wait" /\ n <= del'[v][e].rev => del'[v][e].snap.kind = "deny") /\ (\A m \in net : m.to = e /\ n <= m.rev => m.snap.kind = "deny")
    BY <1>2, <1>4, <1>5 DEF DeniesFrom
  <1>6. CASE InForce(e)
    BY <1>2, <1>5, <1>6 DEF InForce, DeniesFrom
  <1>7. ASSUME NEW v \in Works, Watched(v, e) PROVE Watched(v, e)'
    <2>1. v # w
      BY <1>3, <1>7 DEF Watched
    <2> QED
      BY ZenonT(30), <1>2, <1>5, <1>7, <2>1 DEF Watched, DeniesFrom
  <1> QED
    BY <1>6, <1>7 DEF DenyInv, DenyAt

\* A denial is captured for every live session that holds an allocation, under a
\* revision nothing else has yet.
LEMMA DenialIsWatched ==
  ASSUME IInv, NEW w \in Works, NEW p \in Events, p.kind = "deny",
         Capture(w, "none", "deny", held, p, Fairshare(held)),
         UNCHANGED <<sess, live, exec, net, held>>
  PROVE  DenyInv'
  <1> USE DEF IInv, TypeParts
  <1>1. /\ entry \in [Executors -> Entries] /\ sess \in [Executors -> Nat] /\ net \subseteq Messages
        /\ del \in [Works -> [Executors -> Deliveries]] /\ exec \in [Executors -> Objects]
    BY DEF BookTypes, SessTypes, SendTypes, ExecTypes
  <1>0. "deny" \in WorkKinds /\ "none" \in Executors \cup {"none"} /\ Fairshare(held) \in SUBSET Executors
    BY DEF WorkKinds, Fairshare
  <1>2. /\ work'[w].kind = "deny"
        /\ \A v \in Works : v # w => del'[v] = del[v]
        /\ \A e \in Executors : del'[w][e].st # "none" =>
             /\ del'[w][e].sess = entry[e].sess /\ del'[w][e].rev = entry[e].rev + 1
             /\ del'[w][e].snap = Snapshot(e, held, p)
        /\ \A e \in Executors : e \in Fairshare(held) /\ Registered(e) /\ live[e] => del'[w][e].st = "wait"
    BY <1>0, CaptureEffect DEF HeldInv
  <1> SUFFICES ASSUME NEW e \in Executors, live[e], <<e, sess[e]>> \in held
               PROVE  Watched(w, e)'
    BY DEF DenyInv, DenyAt
  <1>3. Holds(held, e) /\ e \in Fairshare(held) /\ Registered(e) /\ entry[e].sess = sess[e]
    <2>1. sess[e] \in 0..MaxSessions
      BY <1>1 DEF SessInv, SessAt
    <2> QED
      BY <2>1 DEF Holds, Fairshare, SessInv, SessAt, Registered
  <1>4. Snapshot(e, held, p).kind = "deny"
    BY <1>3, SnapshotType DEF HeldInv
  <1> HIDE DEF TypeParts
  <1>5. del'[w][e].st = "wait" /\ del'[w][e].sess = sess[e] /\ del'[w][e].rev = entry[e].rev + 1
    BY <1>2, <1>3
  <1>6. \A v \in Works : del'[v][e].st = "wait" /\ entry[e].rev + 1 <= del'[v][e].rev =>
          del'[v][e].snap.kind = "deny"
    <2> SUFFICES ASSUME NEW v \in Works, del'[v][e].st = "wait", entry[e].rev + 1 <= del'[v][e].rev
                 PROVE  del'[v][e].snap.kind = "deny"
      OBVIOUS
    <2>1. CASE v = w
      BY <1>2, <1>4, <2>1
    <2>2. CASE v # w
      BY <1>1, <1>2, <1>3, <2>2 DEF RevInv, RevAt, PlaceInv, PlaceAt, Open, Deliveries, Entries
    <2> QED
      BY <2>1, <2>2
  <1>7. \A m \in net : m.to = e => ~(entry[e].rev + 1 <= m.rev)
    BY <1>1 DEF NetInv, MessageAt, Messages, Entries
  <1>8. ~(entry[e].rev + 1 <= exec[e].rev)
    BY <1>1 DEF ExecInv, ExecAt, Objects, Entries
  <1> QED
    BY <1>2, <1>5, <1>6, <1>7, <1>8 DEF Watched, DeniesFrom

-----------------------------------------------------------------------------
(* What each step does to the conjuncts it disturbs.  *)

\* A new session starts with a fresh entry, a fresh executor and nothing on its way.
LEMMA RegisterKeeps ==
  ASSUME IInv, NEW e \in Executors, NEW ver \in Versions, Register(e, ver)
  PROVE  IInv'
  <1> USE DEF IInv, TypeParts
  <1>1. UNCHANGED <<event, lapsed, policy, due, held, work, del, net, exec, changes, faults>>
    BY DEF Register, disk, registry, session, sending
  <1>2. /\ sess \in [Executors -> Nat]
        /\ live \in [Executors -> BOOLEAN]
        /\ entry \in [Executors -> Entries]
        /\ net \subseteq Messages
        /\ del \in [Works -> [Executors -> Deliveries]]
        /\ exec \in [Executors -> Objects]
    BY DEF SessTypes, BookTypes, SendTypes, ExecTypes
  <1>3. ~live[e] /\ sess[e] < MaxSessions /\ Drained(e)
    BY DEF Register
  <1>4. /\ \A x \in Executors : x # e => sess'[x] = sess[x] /\ live'[x] = live[x] /\ entry'[x] = entry[x]
        /\ sess'[e] = sess[e] + 1 /\ live'[e]
    BY <1>2 DEF Register
  <1>5. /\ entry'[e].sess = sess[e] + 1 /\ entry'[e].version = ver /\ entry'[e].rev = 0
        /\ entry'[e] \in Entries
    <2>1. NoEntry \in Entries /\ NoEntry.rev = 0
      BY DEF NoEntry, Entries
    <2>2. entry'[e] = [NoEntry EXCEPT !.sess = sess[e] + 1, !.version = ver]
      BY <1>2 DEF Register
    <2>3. ver \in Nat /\ sess[e] + 1 \in Nat
      BY <1>2
    <2> QED
      BY <2>1, <2>2, <2>3 DEF Entries
  <1>6. exec[e].rev = 0 /\ exec[e].applied = 0
    BY <1>3 DEF SessInv, SessAt, NewExecutor
  <1>7. \A w \in Works : del[w][e].st # "none" => ~Open(del[w][e]) /\ work[w].st = "retiring" /\ del[w][e].sess <= sess[e]
    BY <1>3 DEF PlaceInv, PlaceAt, Drained
  <1>8. \A m \in net : m.to # e
    BY <1>3 DEF NetInv, MessageAt
  <1>9. <<e, sess[e] + 1>> \notin held
    BY <1>2 DEF HeldInv
  <1>10. BookTypes'
    BY <1>1, <1>2, <1>5 DEF Register, BookTypes, SessTypes
  <1>11. SessTypes'
    BY <1>1, <1>2, <1>5 DEF Register, BookTypes, SessTypes
  <1>12. HeldInv'
    <2>1. \A x \in Executors : sess[x] <= sess'[x]
      BY <1>2, <1>4
    <2>2. \A h \in held : h[1] \in Executors /\ h[2] \in Nat
      BY DEF BookTypes
    <2>3. sess' \in [Executors -> Nat]
      BY <1>2 DEF Register
    <2> QED
      BY <1>1, <1>2, <1>4, <2>1, <2>2, <2>3 DEF HeldInv
  <1>13. SessInv'
    BY <1>1, <1>2, <1>3, <1>4, <1>5 DEF SessInv, SessAt, Registered
  <1>14. PlaceInv'
    <2>1. sess[e] \in Nat /\ \A w \in Works : del[w][e].sess \in Nat
      BY <1>2 DEF Deliveries
    <2> QED
      BY <1>1, <1>3, <1>4, <1>7, <2>1 DEF PlaceInv, PlaceAt, Open
  <1>15. RevInv'
    <2> SUFFICES ASSUME NEW w \in Works, NEW x \in Executors PROVE RevAt(w, x)'
      BY DEF RevInv
    <2>1. CASE x = e
      <3>1. del[w][e].st # "none" => del[w][e].sess # sess'[e]
        <4>1. sess[e] \in Nat /\ del[w][e].sess \in Nat
          BY <1>2 DEF Deliveries
        <4>2. sess'[e] = sess[e] + 1
          BY <1>4
        <4>3. del[w][e].st # "none" => del[w][e].sess <= sess[e]
          BY <1>7
        <4> QED
          BY <4>1, <4>2, <4>3
      <3> QED
        BY <1>1, <2>1, <3>1 DEF RevAt
    <2>2. CASE x # e
      BY <1>1, <1>4, <2>2 DEF RevInv, RevAt, Registered
    <2> QED
      BY <2>1, <2>2
  <1>16. NetInv'
    BY <1>1, <1>2, <1>4, <1>8 DEF NetInv, MessageAt, ordered, Messages
  <1>17. ExecInv'
    BY <1>1, <1>2, <1>4, <1>5, <1>6 DEF ExecInv, ExecAt
  <1>18. AckInv'
    <2>1. sess[e] \in Nat /\ \A w \in Works : del[w][e].sess \in Nat
      BY <1>2 DEF Deliveries
    <2> QED
      BY <1>1, <1>3, <1>4, <1>7, <2>1 DEF AckInv, AckAt, ordered
  <1>19. BeliefInv'
    BY <1>1, <1>4, <1>5, <1>6 DEF BeliefInv, BeliefAt, ordered
  <1>20. SnapInv'
    <2> SUFFICES ASSUME NEW x \in Executors, Settled(x)' PROVE SnapAt(x)'
      BY DEF SnapInv, SnapAt
    <2>1. x # e
      BY <1>1, <1>4, <1>9 DEF Settled
    <2> QED
      BY SMTT(20), <1>1, <1>4, <2>1 DEF SnapInv, SnapAt, Settled, ordered, Snapshot, Holds
  <1>21. DenyInv'
    <2> SUFFICES ASSUME NEW x \in Executors, policy'.kind = "deny", live'[x], <<x, sess'[x]>> \in held'
                 PROVE  InForce(x)' \/ \E v \in Works : Watched(v, x)'
      BY DEF DenyInv, DenyAt
    <2>0. x # e
      BY <1>1, <1>4, <1>9
    <2>1. InForce(x) \/ \E v \in Works : Watched(v, x)
      BY <1>1, <1>4, <1>9, <2>0 DEF DenyInv, DenyAt
    <2>2. CASE InForce(x)
      BY <1>1, <1>4, <2>0, <2>2 DEF InForce, DeniesFrom
    <2>3. ASSUME NEW v \in Works, Watched(v, x) PROVE Watched(v, x)'
      BY <1>1, <1>4, <2>0, <2>3 DEF Watched, DeniesFrom
    <2> QED
      BY <2>1, <2>2, <2>3
  <1> QED
    BY <1>1, <1>10, <1>11, <1>12, <1>13, <1>14, <1>15, <1>16, <1>17, <1>18, <1>19, <1>20, <1>21,
      PolicyTypesUnchanged, SendTypesUnchanged, ExecTypesUnchanged, DueInvUnchanged

\* With the session goes all that is said of it.
LEMMA RetireKeeps ==
  ASSUME IInv, NEW e \in Executors, Retire(e)
  PROVE  IInv'
  <1> USE DEF IInv, TypeParts
  <1>1. UNCHANGED <<event, lapsed, policy, due, held, entry, sess, work, del, changes, faults>>
    BY DEF Retire, Ended, disk, registry, session, sending
  <1>2. /\ live \in [Executors -> BOOLEAN]
        /\ net \subseteq Messages
        /\ exec \in [Executors -> Objects]
        /\ entry \in [Executors -> Entries]
        /\ sess \in [Executors -> Nat]
        /\ del \in [Works -> [Executors -> Deliveries]]
    BY DEF SessTypes, SendTypes, ExecTypes, BookTypes
  <1>3. /\ live' \in [Executors -> BOOLEAN] /\ net' \subseteq net /\ exec' \in [Executors -> Objects]
        /\ \A x \in Executors : ~live'[x] => exec'[x] = NewExecutor \/ (exec'[x] = exec[x] /\ ~live[x])
        /\ \A x \in Executors : live'[x] => live[x] /\ exec'[x] = exec[x]
        /\ \A m \in net' : live[m.to] => live'[m.to]
        /\ \A x \in Executors : exec'[x] = exec[x] \/ exec'[x] = NewExecutor
    <2>1. Ended({e})
      BY DEF Retire
    <2> QED
      BY <2>1, EndedEffect, <1>2 DEF SendTypes, Messages
  <1>4. SessTypes'
    BY <1>1, <1>2, <1>3 DEF SessTypes
  <1>5. SendTypes'
    BY <1>1, <1>2, <1>3 DEF SendTypes
  <1>6. ExecTypes'
    BY <1>1, <1>2, <1>3 DEF ExecTypes
  <1>7. SessInv'
    BY <1>1, <1>2, <1>3 DEF SessInv, SessAt, Registered
  <1>8. NetInv'
    BY <1>1, <1>2, <1>3 DEF NetInv, MessageAt, ordered
  <1>9. ExecInv'
    BY <1>1, <1>2, <1>3 DEF ExecInv, ExecAt, NewExecutor
  <1>10. AckInv'
    BY <1>1, <1>2, <1>3 DEF AckInv, AckAt, ordered
  <1>11. BeliefInv'
    BY <1>1, <1>2, <1>3 DEF BeliefInv, BeliefAt, ordered
  <1>12. SnapInv'
    BY <1>1, <1>2, <1>3 DEF SnapInv, SnapAt, Settled, ordered, Snapshot, Holds
  <1>13. DenyInv'
    <2> SUFFICES ASSUME NEW x \in Executors, policy'.kind = "deny", live'[x], <<x, sess'[x]>> \in held'
                 PROVE  InForce(x)' \/ \E v \in Works : Watched(v, x)'
      BY DEF DenyInv, DenyAt
    <2>1. InForce(x) \/ \E v \in Works : Watched(v, x)
      BY <1>1, <1>3 DEF DenyInv, DenyAt
    <2>2. CASE InForce(x)
      BY <1>1, <1>3, <2>2 DEF InForce, DeniesFrom
    <2>3. ASSUME NEW v \in Works, Watched(v, x) PROVE Watched(v, x)'
      BY <1>1, <1>3, <2>3 DEF Watched, DeniesFrom
    <2> QED
      BY <2>1, <2>2, <2>3
  <1> QED
    BY <1>1, <1>4, <1>5, <1>6, <1>7, <1>8, <1>9, <1>10, <1>11, <1>12, <1>13, PolicyTypesUnchanged,
      BookTypesUnchanged, HeldInvUnchanged, PlaceInvUnchanged, RevInvUnchanged, DueInvUnchanged

\* Nothing is said of an entry whose session has ended.
LEMMA OnExecutorDisconnectedKeeps ==
  ASSUME IInv, NEW e \in Executors, OnExecutorDisconnected(e)
  PROVE  IInv'
  <1> USE DEF IInv, TypeParts
  <1>1. UNCHANGED <<event, lapsed, policy, due, held, sess, live, work, del, net, exec, changes,
            faults>>
    BY DEF OnExecutorDisconnected, disk, registry, session, sending
  <1>2. /\ entry \in [Executors -> Entries]
        /\ sess \in [Executors -> Nat]
        /\ net \subseteq Messages
        /\ del \in [Works -> [Executors -> Deliveries]]
        /\ exec \in [Executors -> Objects]
    BY DEF BookTypes, SessTypes, SendTypes, ExecTypes
  <1>3. /\ ~live[e] /\ entry'[e] = NoEntry /\ entry' \in [Executors -> Entries]
        /\ \A x \in Executors : x # e => entry'[x] = entry[x]
    BY <1>2 DEF OnExecutorDisconnected, NoEntry, Entries
  <1>4. NoEntry.sess = 0
    BY DEF NoEntry
  <1>5. BookTypes'
    BY <1>1, <1>3 DEF BookTypes
  <1>6. SessInv'
    BY <1>1, <1>2, <1>3, <1>4 DEF SessInv, SessAt, Registered
  <1>7. RevInv'
    BY <1>1, <1>2, <1>3, <1>4 DEF RevInv, RevAt, Registered
  <1>8. NetInv'
    <2>1. \A m \in net : m.to \in Executors /\ m.to # e
      BY <1>2, <1>3 DEF NetInv, MessageAt, Messages
    <2> QED
      BY <1>1, <1>3, <2>1 DEF NetInv, MessageAt, ordered
  <1>9. ExecInv'
    BY <1>1, <1>2, <1>3, <1>4 DEF ExecInv, ExecAt
  <1>10. AckInv'
    BY <1>1, <1>2, <1>3, <1>4 DEF AckInv, AckAt, ordered
  <1>11. BeliefInv'
    BY <1>1, <1>2, <1>3, <1>4 DEF BeliefInv, BeliefAt, ordered
  <1>12. SnapInv'
    BY <1>1, <1>2, <1>3, <1>4 DEF SnapInv, SnapAt, Settled, ordered, Snapshot, Holds
  <1>13. DenyInv'
    <2> SUFFICES ASSUME NEW x \in Executors, policy'.kind = "deny", live'[x], <<x, sess'[x]>> \in held'
                 PROVE  InForce(x)' \/ \E v \in Works : Watched(v, x)'
      BY DEF DenyInv, DenyAt
    <2>1. InForce(x) \/ \E v \in Works : Watched(v, x)
      BY <1>1 DEF DenyInv, DenyAt
    <2>2. CASE InForce(x)
      BY <1>1, <1>3, <2>2 DEF InForce, DeniesFrom
    <2>3. ASSUME NEW v \in Works, Watched(v, x) PROVE Watched(v, x)'
      BY <1>1, <1>3, <2>3 DEF Watched, DeniesFrom
    <2> QED
      BY <2>1, <2>2, <2>3
  <1> QED
    BY <1>1, <1>5, <1>6, <1>7, <1>8, <1>9, <1>10, <1>11, <1>12, <1>13, PolicyTypesUnchanged,
      SessTypesUnchanged, SendTypesUnchanged, ExecTypesUnchanged, HeldInvUnchanged,
      PlaceInvUnchanged, DueInvUnchanged

\* A charge waits for its capture, and no charge is made while the destination is
\* denied.
LEMMA OnDebugletAllocateKeeps ==
  ASSUME IInv, NEW w \in Works, NEW e \in Executors, OnDebugletAllocate(w, e)
  PROVE  IInv'
  <1> USE DEF IInv, TypeParts
  <1>1. UNCHANGED <<event, lapsed, policy, due, entry, sess, live, del, net, exec, faults>>
    BY DEF OnDebugletAllocate, disk, registry, session, sending
  <1>2. /\ held \subseteq Executors \X Nat
        /\ work \in [Works -> Changes]
        /\ changes \in Nat
        /\ sess \in [Executors -> Nat]
    BY DEF BookTypes, SendTypes, ExecTypes, SessTypes
  <1>3. /\ work' \in [Works -> Changes] /\ work'[w].st = "charged"
        /\ \A v \in Works : v # w => work'[v] = work[v]
    BY <1>2 DEF OnDebugletAllocate, Changes, WorkStates, WorkKinds
  <1>4. \A x \in Executors : del[w][x].st = "none"
    BY FreeEffect DEF OnDebugletAllocate
  <1>5. /\ held' = held \cup {<<e, sess[e]>>} /\ live[e] /\ policy.kind # "deny"
    BY DEF OnDebugletAllocate
  <1>6. BookTypes'
    BY <1>1, <1>2, <1>5 DEF BookTypes
  <1>7. SendTypes'
    BY <1>1, <1>3 DEF SendTypes
  <1>8. ExecTypes'
    BY <1>1, <1>2 DEF OnDebugletAllocate, ExecTypes
  <1>9. HeldInv'
    <2>1. IsFiniteSet(held')
      BY <1>5, FS_AddElement DEF HeldInv
    <2>2. sess[e] \in Nat /\ sess[e] # 0
      BY <1>2, <1>5 DEF SessInv, SessAt
    <2> QED
      BY <1>1, <1>5, <2>1, <2>2 DEF HeldInv
  <1>10. PlaceInv'
    <2> SUFFICES ASSUME NEW v \in Works, NEW x \in Executors PROVE PlaceAt(v, x)'
      BY DEF PlaceInv
    <2>1. PlaceAt(v, x)
      BY DEF PlaceInv
    <2>2. CASE v = w
      BY <1>1, <1>4, <2>2 DEF PlaceAt
    <2>3. CASE v # w
      BY <1>1, <1>3, <2>1, <2>3 DEF PlaceAt, Open
    <2> QED
      BY <2>2, <2>3
  <1>11. SnapInv'
    BY <1>3 DEF SnapInv, SnapAt, Settled
  <1>12. DenyInv'
    BY <1>1, <1>5 DEF DenyInv, DenyAt
  <1> QED
    BY <1>1, <1>6, <1>7, <1>8, <1>9, <1>10, <1>11, <1>12, PolicyTypesUnchanged, SessTypesUnchanged,
      SessInvUnchanged, RevInvUnchanged, NetInvUnchanged, ExecInvUnchanged, AckInvUnchanged,
      BeliefInvUnchanged, DueInvUnchanged

\* A release waits for its capture.
LEMMA OnDebugletExitKeeps ==
  ASSUME IInv, NEW w \in Works, NEW e \in Executors, OnDebugletExit(w, e)
  PROVE  IInv'
  <1> USE DEF IInv, TypeParts
  <1>1. UNCHANGED <<event, lapsed, policy, due, entry, sess, live, del, net, exec, changes, faults>>
    BY DEF OnDebugletExit, disk, registry, session, sending
  <1>2. /\ held \subseteq Executors \X Nat
        /\ work \in [Works -> Changes]
        /\ sess \in [Executors -> Nat]
    BY DEF BookTypes, SendTypes, SessTypes
  <1>3. /\ work' \in [Works -> Changes] /\ work'[w].st = "charged"
        /\ \A v \in Works : v # w => work'[v] = work[v]
    BY <1>2 DEF OnDebugletExit, Changes, WorkStates, WorkKinds
  <1>4. \A x \in Executors : del[w][x].st = "none"
    BY FreeEffect DEF OnDebugletExit
  <1>5. /\ held' \subseteq held /\ \E h : held' = held \ {h}
    BY DEF OnDebugletExit
  <1>6. BookTypes'
    BY <1>1, <1>2, <1>5 DEF BookTypes
  <1>7. SendTypes'
    BY <1>1, <1>3 DEF SendTypes
  <1>8. HeldInv'
    BY <1>1, <1>5, FS_RemoveElement DEF HeldInv
  <1>9. PlaceInv'
    <2> SUFFICES ASSUME NEW v \in Works, NEW x \in Executors PROVE PlaceAt(v, x)'
      BY DEF PlaceInv
    <2>1. PlaceAt(v, x)
      BY DEF PlaceInv
    <2>2. CASE v = w
      BY <1>1, <1>4, <2>2 DEF PlaceAt
    <2>3. CASE v # w
      BY <1>1, <1>3, <2>1, <2>3 DEF PlaceAt, Open
    <2> QED
      BY <2>2, <2>3
  <1>10. SnapInv'
    BY <1>3 DEF SnapInv, SnapAt, Settled
  <1>11. DenyInv'
    <2> SUFFICES ASSUME NEW x \in Executors, policy'.kind = "deny", live'[x], <<x, sess'[x]>> \in held'
                 PROVE  InForce(x)' \/ \E v \in Works : Watched(v, x)'
      BY DEF DenyInv, DenyAt
    <2>1. InForce(x) \/ \E v \in Works : Watched(v, x)
      BY <1>1, <1>5 DEF DenyInv, DenyAt
    <2>2. CASE InForce(x)
      BY <1>1, <2>2 DEF InForce, DeniesFrom
    <2>3. ASSUME NEW v \in Works, Watched(v, x) PROVE Watched(v, x)'
      <3>1. v # w
        BY <1>4, <2>3 DEF Watched
      <3> QED
        BY <1>1, <1>3, <2>3, <3>1 DEF Watched, DeniesFrom
    <2> QED
      BY <2>1, <2>2, <2>3
  <1> QED
    BY <1>1, <1>6, <1>7, <1>8, <1>9, <1>10, <1>11, PolicyTypesUnchanged, SessTypesUnchanged,
      ExecTypesUnchanged, SessInvUnchanged, RevInvUnchanged, NetInvUnchanged, ExecInvUnchanged,
      AckInvUnchanged, BeliefInvUnchanged, DueInvUnchanged

\* A release waits for its capture.
LEMMA ReclaimKeeps ==
  ASSUME IInv, NEW w \in Works, NEW e \in Executors, Reclaim(w, e)
  PROVE  IInv'
  <1> USE DEF IInv, TypeParts
  <1>1. UNCHANGED <<event, lapsed, policy, due, entry, sess, live, del, net, exec, changes, faults>>
    BY DEF Reclaim, disk, registry, session, sending
  <1>2. /\ held \subseteq Executors \X Nat
        /\ work \in [Works -> Changes]
        /\ sess \in [Executors -> Nat]
    BY DEF BookTypes, SendTypes, SessTypes
  <1>3. /\ work' \in [Works -> Changes] /\ work'[w].st = "charged"
        /\ \A v \in Works : v # w => work'[v] = work[v]
    BY <1>2 DEF Reclaim, Changes, WorkStates, WorkKinds
  <1>4. \A x \in Executors : del[w][x].st = "none"
    BY FreeEffect DEF Reclaim
  <1>5. /\ held' \subseteq held /\ \E h : held' = held \ {h}
    BY DEF Reclaim
  <1>6. BookTypes'
    BY <1>1, <1>2, <1>5 DEF BookTypes
  <1>7. SendTypes'
    BY <1>1, <1>3 DEF SendTypes
  <1>8. HeldInv'
    BY <1>1, <1>5, FS_RemoveElement DEF HeldInv
  <1>9. PlaceInv'
    <2> SUFFICES ASSUME NEW v \in Works, NEW x \in Executors PROVE PlaceAt(v, x)'
      BY DEF PlaceInv
    <2>1. PlaceAt(v, x)
      BY DEF PlaceInv
    <2>2. CASE v = w
      BY <1>1, <1>4, <2>2 DEF PlaceAt
    <2>3. CASE v # w
      BY <1>1, <1>3, <2>1, <2>3 DEF PlaceAt, Open
    <2> QED
      BY <2>2, <2>3
  <1>10. SnapInv'
    BY <1>3 DEF SnapInv, SnapAt, Settled
  <1>11. DenyInv'
    <2> SUFFICES ASSUME NEW x \in Executors, policy'.kind = "deny", live'[x], <<x, sess'[x]>> \in held'
                 PROVE  InForce(x)' \/ \E v \in Works : Watched(v, x)'
      BY DEF DenyInv, DenyAt
    <2>1. InForce(x) \/ \E v \in Works : Watched(v, x)
      BY <1>1, <1>5 DEF DenyInv, DenyAt
    <2>2. CASE InForce(x)
      BY <1>1, <2>2 DEF InForce, DeniesFrom
    <2>3. ASSUME NEW v \in Works, Watched(v, x) PROVE Watched(v, x)'
      <3>1. v # w
        BY <1>4, <2>3 DEF Watched
      <3> QED
        BY <1>1, <1>3, <2>3, <3>1 DEF Watched, DeniesFrom
    <2> QED
      BY <2>1, <2>2, <2>3
  <1> QED
    BY <1>1, <1>6, <1>7, <1>8, <1>9, <1>10, <1>11, PolicyTypesUnchanged, SessTypesUnchanged,
      ExecTypesUnchanged, SessInvUnchanged, RevInvUnchanged, NetInvUnchanged, ExecInvUnchanged,
      AckInvUnchanged, BeliefInvUnchanged, DueInvUnchanged

\* Everyone that shares the destination is sent the new snapshot.
LEMMA CaptureChargedKeeps ==
  ASSUME IInv, NEW w \in Works, CaptureCharged(w)
  PROVE  IInv'
  <1> USE DEF IInv, TypeParts
  <1>1. UNCHANGED <<event, lapsed, policy, due, held, sess, live, net, exec, changes, faults>>
    BY DEF CaptureCharged, disk, registry, session, sending
  <1>2. /\ entry \in [Executors -> Entries]
        /\ del \in [Works -> [Executors -> Deliveries]]
        /\ work \in [Works -> Changes]
    BY DEF BookTypes, SendTypes
  <1>3. /\ work[w].st = "charged" /\ work[w].org \in Executors \cup {"none"} /\ work[w].kind \in WorkKinds
        /\ Capture(w, work[w].org, work[w].kind, held, policy, Fairshare(held))
    BY <1>2 DEF CaptureCharged, Changes
  <1>4. IsFiniteSet(held) /\ policy \in Events /\ Fairshare(held) \in SUBSET Executors
    BY DEF HeldInv, PolicyTypes, Fairshare
  <1>5. /\ entry' \in [Executors -> Entries] /\ work' \in [Works -> Changes]
        /\ del' \in [Works -> [Executors -> Deliveries]]
    <2> HIDE DEF IInv, TypeParts
    <2> QED
      BY <1>3, <1>4, CaptureEffect
  <1>6. SessInv' /\ PlaceInv' /\ RevInv' /\ NetInv' /\ ExecInv' /\ AckInv' /\ BeliefInv'
    <2> HIDE DEF IInv, TypeParts
    <2> QED
      BY <1>1, <1>3, <1>4, CaptureKeeps
  <1>7. BookTypes'
    BY <1>1, <1>5 DEF BookTypes, SendTypes
  <1>8. SendTypes'
    BY <1>1, <1>5 DEF BookTypes, SendTypes
  <1>9. SessInv'
    BY <1>6
  <1>10. PlaceInv'
    BY <1>6
  <1>11. RevInv'
    BY <1>6
  <1>12. NetInv'
    BY <1>6
  <1>13. ExecInv'
    BY <1>6
  <1>14. AckInv'
    BY <1>6
  <1>15. BeliefInv'
    BY <1>6
  <1>16. SnapInv'
    <2> HIDE DEF IInv, TypeParts
    <2> QED
      BY <1>1, <1>3, <1>4, CaptureSnaps
  <1>17. DenyInv'
    <2> HIDE DEF IInv, TypeParts
    <2> QED
      BY <1>1, <1>3, <1>4, CaptureDenies
  <1> QED
    BY <1>1, <1>7, <1>8, <1>9, <1>10, <1>11, <1>12, <1>13, <1>14, <1>15, <1>16, <1>17,
      PolicyTypesUnchanged, SessTypesUnchanged, ExecTypesUnchanged, HeldInvUnchanged,
      DueInvUnchanged

\* One session is sent the current snapshot under a new revision.
LEMMA ReconcileFairshareKeeps ==
  ASSUME IInv, NEW w \in Works, NEW e \in Executors, reconcileFairshare(w, e)
  PROVE  IInv'
  <1> USE DEF IInv, TypeParts
  <1>1. UNCHANGED <<event, lapsed, policy, due, held, sess, live, net, exec, changes, faults>>
    BY DEF reconcileFairshare, disk, registry, session, sending
  <1>2. /\ entry \in [Executors -> Entries]
        /\ del \in [Works -> [Executors -> Deliveries]]
        /\ work \in [Works -> Changes]
    BY DEF BookTypes, SendTypes
  <1>3. /\ Free(w) /\ "reconcile" \in WorkKinds /\ {e} \in SUBSET Executors
        /\ Capture(w, e, "reconcile", held, policy, {e})
    BY DEF reconcileFairshare, WorkKinds
  <1>4. IsFiniteSet(held) /\ policy \in Events
    BY DEF HeldInv, PolicyTypes
  <1>5. /\ entry' \in [Executors -> Entries] /\ work' \in [Works -> Changes]
        /\ del' \in [Works -> [Executors -> Deliveries]]
    <2> HIDE DEF IInv, TypeParts
    <2> QED
      BY <1>3, <1>4, CaptureEffect
  <1>6. SessInv' /\ PlaceInv' /\ RevInv' /\ NetInv' /\ ExecInv' /\ AckInv' /\ BeliefInv'
    <2> HIDE DEF IInv, TypeParts
    <2> QED
      BY <1>1, <1>3, <1>4, CaptureKeeps
  <1>7. BookTypes'
    BY <1>1, <1>5 DEF BookTypes, SendTypes
  <1>8. SendTypes'
    BY <1>1, <1>5 DEF BookTypes, SendTypes
  <1>9. SessInv'
    BY <1>6
  <1>10. PlaceInv'
    BY <1>6
  <1>11. RevInv'
    BY <1>6
  <1>12. NetInv'
    BY <1>6
  <1>13. ExecInv'
    BY <1>6
  <1>14. AckInv'
    BY <1>6
  <1>15. BeliefInv'
    BY <1>6
  <1>16. SnapInv'
    <2> HIDE DEF IInv, TypeParts
    <2> QED
      BY <1>1, <1>3, <1>4, CaptureSnaps
  <1>17. DenyInv'
    <2> HIDE DEF IInv, TypeParts
    <2> QED
      BY <1>1, <1>3, <1>4, CaptureDenies
  <1> QED
    BY <1>1, <1>7, <1>8, <1>9, <1>10, <1>11, <1>12, <1>13, <1>14, <1>15, <1>16, <1>17,
      PolicyTypesUnchanged, SessTypesUnchanged, ExecTypesUnchanged, HeldInvUnchanged,
      DueInvUnchanged

\* A denial is watched from its capture on; the event before it is over.
LEMMA SetDestinationPolicyKeeps ==
  ASSUME IInv, NEW w \in Works, NEW req \in Requests, SetDestinationPolicy(w, req)
  PROVE  IInv'
  <1> USE DEF IInv, TypeParts
  <1>1. UNCHANGED <<due, held, sess, live, net, exec, faults>>
    BY DEF SetDestinationPolicy, disk, registry, session, sending
  <1>2. /\ event \in Events
        /\ lapsed \in BOOLEAN
        /\ policy \in Events
        /\ entry \in [Executors -> Entries]
        /\ del \in [Works -> [Executors -> Deliveries]]
        /\ work \in [Works -> Changes]
        /\ changes \in Nat
        /\ due \in Nat
    BY DEF PolicyTypes, BookTypes, SendTypes, ExecTypes
  <1>3. /\ Free(w) /\ req.kind \in {"deny", "limit"} /\ req.kind \in WorkKinds /\ req.exp \in BOOLEAN
        /\ Record(req.kind, req.exp) /\ Capture(w, "none", req.kind, held, policy', Fairshare(held))
    BY DEF SetDestinationPolicy, WorkKinds
  <1>4. /\ policy' \in Events /\ event' = policy' /\ policy'.kind = req.kind
        /\ policy'.rev = event.rev + 1 /\ lapsed' = FALSE
    BY <1>2, <1>3 DEF Record, Events, Kinds
  <1>5. IsFiniteSet(held) /\ Fairshare(held) \in SUBSET Executors /\ "none" \in Executors \cup {"none"}
    BY DEF HeldInv, Fairshare
  <1>6. /\ entry' \in [Executors -> Entries] /\ work' \in [Works -> Changes]
        /\ del' \in [Works -> [Executors -> Deliveries]]
    <2> HIDE DEF IInv, TypeParts
    <2> QED
      BY <1>3, <1>4, <1>5, CaptureEffect
  <1>7. SessInv' /\ PlaceInv' /\ RevInv' /\ NetInv' /\ ExecInv' /\ AckInv' /\ BeliefInv'
    <2> HIDE DEF IInv, TypeParts
    <2> QED
      BY <1>1, <1>3, <1>4, <1>5, CaptureKeeps
  <1>8. PolicyTypes'
    BY <1>1, <1>2, <1>4 DEF PolicyTypes
  <1>9. BookTypes'
    BY <1>1, <1>6 DEF BookTypes, SendTypes
  <1>10. SendTypes'
    BY <1>1, <1>6 DEF BookTypes, SendTypes
  <1>11. ExecTypes'
    BY <1>1, <1>2 DEF SetDestinationPolicy, ExecTypes
  <1>12. SessInv'
    BY <1>7
  <1>13. PlaceInv'
    BY <1>7
  <1>14. RevInv'
    BY <1>7
  <1>15. NetInv'
    BY <1>7
  <1>16. ExecInv'
    BY <1>7
  <1>17. AckInv'
    BY <1>7
  <1>18. BeliefInv'
    BY <1>7
  <1>19. SnapInv'
    <2> HIDE DEF IInv, TypeParts
    <2> QED
      BY <1>1, <1>3, <1>4, <1>5, CaptureSnaps
  <1>20. DenyInv'
    <2> HIDE DEF IInv, TypeParts
    <2>1. CASE req.kind = "deny"
      BY <1>1, <1>3, <1>4, <1>5, <2>1, DenialIsWatched
    <2>2. CASE req.kind # "deny"
      BY <1>4, <2>2 DEF DenyInv, DenyAt
    <2> QED
      BY <2>1, <2>2
  <1>21. DueInv'
    BY <1>1, <1>2, <1>4 DEF DueInv, Events
  <1> QED
    BY <1>1, <1>8, <1>9, <1>10, <1>11, <1>12, <1>13, <1>14, <1>15, <1>16, <1>17, <1>18, <1>19,
      <1>20, <1>21, SessTypesUnchanged, HeldInvUnchanged

\* A failed write changes nothing.
LEMMA SetDestinationPolicyFailsKeeps ==
  ASSUME IInv, SetDestinationPolicyFails
  PROVE  IInv'
  <1> USE DEF IInv, TypeParts
  <1>1. UNCHANGED <<event, lapsed, policy, due, held, entry, sess, live, work, del, net, exec>>
    BY DEF SetDestinationPolicyFails, disk, registry, session, sending
  <1>2. /\ changes \in Nat
        /\ faults \in Nat
    BY DEF ExecTypes
  <1>3. ExecTypes'
    BY <1>1, <1>2 DEF SetDestinationPolicyFails, ExecTypes
  <1> QED
    BY <1>1, <1>3, PolicyTypesUnchanged, BookTypesUnchanged, SessTypesUnchanged,
      SendTypesUnchanged, HeldInvUnchanged, SessInvUnchanged, PlaceInvUnchanged,
      RevInvUnchanged, NetInvUnchanged, ExecInvUnchanged, AckInvUnchanged, BeliefInvUnchanged,
      SnapInvUnchanged, DenyInvUnchanged, DueInvUnchanged

\* What is due stays due.
LEMMA LapseKeeps ==
  ASSUME IInv, Lapse
  PROVE  IInv'
  <1> USE DEF IInv, TypeParts
  <1>1. UNCHANGED <<event, policy, due, held, entry, sess, live, work, del, net, exec, changes, faults>>
    BY DEF Lapse, disk, registry, session, sending
  <1>2. /\ lapsed \in BOOLEAN
        /\ event \in Events
        /\ due \in Nat
    BY DEF PolicyTypes
  <1>3. PolicyTypes'
    BY <1>1, <1>2 DEF Lapse, PolicyTypes
  <1>4. DueInv'
    BY <1>1, <1>2 DEF Lapse, DueInv
  <1> QED
    BY <1>1, <1>3, <1>4, BookTypesUnchanged, SessTypesUnchanged, SendTypesUnchanged,
      ExecTypesUnchanged, HeldInvUnchanged, SessInvUnchanged, PlaceInvUnchanged,
      RevInvUnchanged, NetInvUnchanged, ExecInvUnchanged, AckInvUnchanged, BeliefInvUnchanged,
      SnapInvUnchanged, DenyInvUnchanged

\* The revision read is the recorded one, and it has expired.
LEMMA ExpiryReadKeeps ==
  ASSUME IInv, ExpiryRead
  PROVE  IInv'
  <1> USE DEF IInv, TypeParts
  <1>1. UNCHANGED <<event, lapsed, policy, held, entry, sess, live, work, del, net, exec, changes,
            faults>>
    BY DEF ExpiryRead, disk, registry, session, sending
  <1>2. /\ due \in Nat
        /\ policy \in Events
        /\ event \in Events
    BY DEF PolicyTypes
  <1>3. PolicyTypes'
    BY <1>1, <1>2 DEF ExpiryRead, PolicyTypes, Events
  <1>4. DueInv'
    <2>1. due' = policy.rev /\ policy.exp /\ lapsed
      BY DEF ExpiryRead
    <2>2. policy.rev = event.rev /\ policy.exp = event.exp
      BY DEF DueInv
    <2>3. event.exp
      BY <2>1, <2>2, Zenon
    <2>4. due' <= event.rev
      BY <1>2, <2>1, <2>2 DEF Events
    <2> QED
      BY <1>1, <2>1, <2>2, <2>3, <2>4 DEF DueInv
  <1> QED
    BY <1>1, <1>3, <1>4, BookTypesUnchanged, SessTypesUnchanged, SendTypesUnchanged,
      ExecTypesUnchanged, HeldInvUnchanged, SessInvUnchanged, PlaceInvUnchanged,
      RevInvUnchanged, NetInvUnchanged, ExecInvUnchanged, AckInvUnchanged, BeliefInvUnchanged,
      SnapInvUnchanged, DenyInvUnchanged

\* The default is recorded only over the event that was read.
LEMMA ExpiryChangeKeeps ==
  ASSUME IInv, NEW w \in Works, ExpiryChange(w)
  PROVE  IInv'
  <1> USE DEF IInv, TypeParts
  <1>1. UNCHANGED <<held, sess, live, net, exec, changes>>
    BY DEF ExpiryChange, disk, registry, session, sending
  <1>2. /\ due \in Nat
        /\ event \in Events
        /\ lapsed \in BOOLEAN
        /\ policy \in Events
        /\ entry \in [Executors -> Entries]
        /\ del \in [Works -> [Executors -> Deliveries]]
        /\ work \in [Works -> Changes]
        /\ faults \in Nat
        /\ changes \in Nat
        /\ exec \in [Executors -> Objects]
    BY DEF PolicyTypes, BookTypes, SendTypes, ExecTypes
  <1>3. due # 0 /\ Free(w) /\ due' = 0
    BY DEF ExpiryChange
  <1>4. \/ UNCHANGED <<event, lapsed, policy, entry, work, del>>
        \/ Expected(due) /\ Record("allow", FALSE) /\ Capture(w, "none", "expire", held, policy', Fairshare(held))
    BY DEF ExpiryChange, disk
  <1>5. faults' \in Nat
    <2>1. faults' = faults \/ faults' = faults + 1
      BY Zenon DEF ExpiryChange
    <2> QED
      BY <1>2, <2>1
  <1>6. IsFiniteSet(held) /\ Fairshare(held) \in SUBSET Executors /\ "none" \in Executors \cup {"none"}
        /\ "expire" \in WorkKinds
    BY DEF HeldInv, Fairshare, WorkKinds
  <1>7. ASSUME Record("allow", FALSE), Capture(w, "none", "expire", held, policy', Fairshare(held)) PROVE IInv'
    <2>1. /\ policy' \in Events /\ event' = policy' /\ policy'.kind = "allow"
          /\ policy'.rev = event.rev + 1 /\ lapsed' = FALSE
      BY <1>2, <1>7 DEF Record, Events, Kinds
    <2>2. /\ entry' \in [Executors -> Entries] /\ work' \in [Works -> Changes]
          /\ del' \in [Works -> [Executors -> Deliveries]]
      <3> HIDE DEF IInv, TypeParts
      <3> QED
        BY <1>6, <1>7, <2>1, CaptureEffect
    <2>3. SessInv' /\ PlaceInv' /\ RevInv' /\ NetInv' /\ ExecInv' /\ AckInv' /\ BeliefInv'
      <3> HIDE DEF IInv, TypeParts
      <3> QED
        BY <1>1, <1>6, <1>7, <2>1, CaptureKeeps
    <2>4. SnapInv'
      <3> HIDE DEF IInv, TypeParts
      <3> QED
        BY <1>1, <1>3, <1>6, <1>7, <2>1, CaptureSnaps
    <2>5. DenyInv'
      BY <2>1 DEF DenyInv, DenyAt
    <2>6. DueInv'
      BY <1>2, <1>3, <2>1 DEF DueInv, Events
    <2>7. TypeParts'
      BY <1>1, <1>2, <1>3, <1>5, <2>1, <2>2 DEF PolicyTypes, BookTypes, SessTypes, SendTypes, ExecTypes
    <2> QED
      BY <1>1, <2>3, <2>4, <2>5, <2>6, <2>7, HeldInvUnchanged
  <1>8. ASSUME UNCHANGED <<event, lapsed, policy, entry, work, del>> PROVE IInv'
    <2>1. PolicyTypes' /\ ExecTypes'
      BY <1>1, <1>2, <1>3, <1>5, <1>8 DEF PolicyTypes, ExecTypes
    <2>2. DueInv'
      BY <1>2, <1>3, <1>8 DEF DueInv, Events
    <2> QED
      BY <1>1, <1>8, <2>1, <2>2, BookTypesUnchanged, SessTypesUnchanged, SendTypesUnchanged, HeldInvUnchanged,
          SessInvUnchanged, PlaceInvUnchanged, RevInvUnchanged, NetInvUnchanged,
          ExecInvUnchanged, AckInvUnchanged, BeliefInvUnchanged, SnapInvUnchanged,
          DenyInvUnchanged
  <1> QED
    BY <1>4, <1>7, <1>8

\* The request carries what waited.
LEMMA CallKeeps ==
  ASSUME IInv, NEW w \in Works, NEW e \in Executors, Call(w, e)
  PROVE  IInv'
  <1> USE DEF IInv, TypeParts
  <1>1. UNCHANGED <<event, lapsed, policy, due, held, entry, sess, live, work, exec, changes, faults>>
    BY DEF Call, disk, registry, session, sending
  <1>2. /\ del \in [Works -> [Executors -> Deliveries]]
        /\ net \subseteq Messages
        /\ entry \in [Executors -> Entries]
        /\ sess \in [Executors -> Nat]
        /\ exec \in [Executors -> Objects]
    BY DEF SendTypes, BookTypes, SessTypes, ExecTypes
  <1>3. del[w][e].st = "wait" /\ live[e] /\ Registered(e)
    BY DEF Call
  <1>4. /\ \A v \in Works, x \in Executors : ~(v = w /\ x = e) => del'[v][x] = del[v][x]
        /\ del' \in [Works -> [Executors -> Deliveries]]
        /\ del'[w][e].st = "call" /\ del'[w][e].sess = del[w][e].sess /\ del'[w][e].rev = del[w][e].rev
    <2>1. del[w] \in [Executors -> Deliveries] /\ del[w][e] \in Deliveries
      BY <1>2
    <2>2. del' = [del EXCEPT ![w] = [del[w] EXCEPT ![e] = [del[w][e] EXCEPT !.st = "call", !.after = 0]]]
      BY <1>2, <2>1 DEF Call
    <2> DEFINE D == [del[w][e] EXCEPT !.st = "call", !.after = 0]
    <2>3. D \in Deliveries /\ D.st = "call" /\ D.sess = del[w][e].sess /\ D.rev = del[w][e].rev
      BY <2>1 DEF Deliveries, DeliveryStates
    <2> HIDE DEF D
    <2> QED
      BY <1>2, <2>1, <2>2, <2>3 DEF D
  <1>5. del[w][e].sess = sess[e] /\ del[w][e].rev <= entry[e].rev /\ work[w].st = "sending"
    BY <1>3 DEF PlaceInv, PlaceAt, Open, RevInv, RevAt
  <1>6. \E m \in Messages : /\ net' = net \cup {m} /\ m.to = e /\ m.sess = sess[e] /\ m.rev = del[w][e].rev
                               /\ m.snap = del[w][e].snap /\ m.wire = IF ordered(e) THEN m.rev ELSE 0
    <2> DEFINE M == [to |-> e, sess |-> del[w][e].sess, rev |-> del[w][e].rev,
                     wire |-> wireRevision(w, e), snap |-> del[w][e].snap]
    <2>1. net' = net \cup {M}
      BY DEF Call
    <2>2. M \in Messages
      BY <1>2 DEF Messages, Deliveries, wireRevision
    <2> QED
      BY <1>5, <2>1, <2>2 DEF wireRevision
  <1>7. SendTypes'
    BY <1>1, <1>2, <1>4, <1>6 DEF SendTypes
  <1>8. PlaceInv'
    BY <1>1, <1>4, <1>5 DEF PlaceInv, PlaceAt, Open
  <1>9. RevInv'
    BY <1>1, <1>4, <1>3 DEF RevInv, RevAt, Registered
  <1>10. NetInv'
    <2>1. PICK m \in Messages : /\ net' = net \cup {m} /\ m.to = e /\ m.sess = sess[e] /\ m.rev = del[w][e].rev
                                /\ m.snap = del[w][e].snap /\ m.wire = IF ordered(e) THEN m.rev ELSE 0
      BY <1>6
    <2>2. MessageAt(m)'
      BY <1>1, <1>3, <1>5, <2>1 DEF MessageAt, ordered
    <2>3. \A k \in net : MessageAt(k)'
      BY <1>1 DEF NetInv, MessageAt, ordered
    <2> QED
      BY <2>1, <2>2, <2>3 DEF NetInv
  <1>11. AckInv'
    BY <1>1, <1>4 DEF AckInv, AckAt, ordered
  <1>12. SnapInv'
    <2> SUFFICES ASSUME NEW x \in Executors, Settled(x)' PROVE SnapAt(x)'
      BY DEF SnapInv, SnapAt
    <2>1. Settled(x) /\ SnapAt(x) /\ Snapshot(x, held, policy)' = Snapshot(x, held, policy)
      BY <1>1 DEF Settled, ordered, SnapInv, Snapshot, Holds
    <2>2. \A m \in net' : m.to = x /\ m.rev = entry[x].rev => m.snap = Snapshot(x, held, policy)
      BY <1>3, <1>6, <2>1 DEF SnapAt
    <2>3. \A v \in Works : del'[v][x].st = "wait" => del'[v][x] = del[v][x]
      BY <1>4
    <2> QED
      BY <1>1, <2>1, <2>2, <2>3 DEF SnapAt
  <1>13. DenyInv'
    <2> SUFFICES ASSUME NEW x \in Executors, policy'.kind = "deny", live'[x], <<x, sess'[x]>> \in held'
                 PROVE  InForce(x)' \/ \E v \in Works : Watched(v, x)'
      BY DEF DenyInv, DenyAt
    <2>0. ASSUME NEW n, DeniesFrom(x, n)
          PROVE  /\ \A v \in Works : del'[v][x].st = "wait" /\ n <= del'[v][x].rev => del'[v][x].snap.kind = "deny"
                 /\ \A m \in net' : m.to = x /\ n <= m.rev => m.snap.kind = "deny"
      <3>1. PICK m \in Messages : net' = net \cup {m} /\ m.to = e /\ m.rev = del[w][e].rev /\ m.snap = del[w][e].snap
        BY <1>6
      <3>2. \A k \in net' : k.to = x /\ n <= k.rev => k.snap.kind = "deny"
        BY <1>3, <2>0, <3>1 DEF DeniesFrom
      <3> QED
        BY <1>4, <2>0, <3>2 DEF DeniesFrom
    <2>1. InForce(x) \/ \E v \in Works : Watched(v, x)
      BY <1>1 DEF DenyInv, DenyAt
    <2>2. CASE InForce(x)
      BY <1>1, <2>0, <2>2 DEF InForce, DeniesFrom
    <2>3. ASSUME NEW v \in Works, Watched(v, x) PROVE Watched(v, x)'
      BY <1>1, <1>3, <1>4, <2>0, <2>3 DEF Watched, DeniesFrom
    <2> QED
      BY <2>1, <2>2, <2>3
  <1> QED
    BY <1>1, <1>7, <1>8, <1>9, <1>10, <1>11, <1>12, <1>13, PolicyTypesUnchanged,
      BookTypesUnchanged, SessTypesUnchanged, ExecTypesUnchanged, HeldInvUnchanged,
      SessInvUnchanged, ExecInvUnchanged, BeliefInvUnchanged, DueInvUnchanged

\* A delivery that failed proves nothing.
LEMMA CancelledKeeps ==
  ASSUME IInv, NEW w \in Works, NEW e \in Executors, Cancelled(w, e)
  PROVE  IInv'
  <1> USE DEF IInv, TypeParts
  <1>1. UNCHANGED <<event, lapsed, policy, due, held, entry, sess, live, work, exec, changes>>
    BY DEF Cancelled, disk, registry, session, sending
  <1>2. /\ del \in [Works -> [Executors -> Deliveries]]
        /\ faults \in Nat
        /\ net \subseteq Messages
        /\ entry \in [Executors -> Entries]
        /\ sess \in [Executors -> Nat]
        /\ exec \in [Executors -> Objects]
    BY DEF SendTypes, ExecTypes, BookTypes, SessTypes
  <1>3. Open(del[w][e]) /\ del[w][e].st # "none"
    BY DEF Cancelled, Open
  <1>4. /\ \A v \in Works, x \in Executors : ~(v = w /\ x = e) => del'[v][x] = del[v][x]
        /\ del' \in [Works -> [Executors -> Deliveries]]
        /\ del'[w][e].st = "failed" /\ del'[w][e].sess = del[w][e].sess /\ del'[w][e].rev = del[w][e].rev
    <2>1. del' = [del EXCEPT ![w][e] = Returned(@, "failed")]
      BY DEF Cancelled
    <2>2. ASSUME NEW d \in Deliveries
          PROVE  /\ Returned(d, "failed") \in Deliveries /\ Returned(d, "failed").st = "failed"
                 /\ Returned(d, "failed").sess = d.sess /\ Returned(d, "failed").rev = d.rev
      BY DEF Returned, NoDelivery, Deliveries, DeliveryStates, Snapshots, Kinds
    <2> HIDE DEF IInv, TypeParts
    <2> QED
      BY <1>2, <2>1, <2>2
  <1>5. net' \subseteq net /\ faults' \in Nat
    BY <1>2 DEF Cancelled
  <1>6. SendTypes'
    BY <1>1, <1>2, <1>4, <1>5 DEF SendTypes
  <1>7. ExecTypes'
    BY <1>1, <1>2, <1>5 DEF ExecTypes
  <1>8. PlaceInv'
    BY <1>1, <1>3, <1>4 DEF PlaceInv, PlaceAt, Open
  <1>9. RevInv'
    <2> SUFFICES ASSUME NEW v \in Works, NEW x \in Executors PROVE RevAt(v, x)'
      BY DEF RevInv
    <2>1. RevAt(v, x)
      BY DEF RevInv
    <2>2. CASE v = w /\ x = e
      BY <1>1, <1>3, <1>4, <2>1, <2>2 DEF RevAt, Registered
    <2>3. CASE ~(v = w /\ x = e)
      BY <1>1, <1>4, <2>1, <2>3 DEF RevAt, Registered
    <2> QED
      BY <2>2, <2>3
  <1>10. NetInv'
    BY <1>1, <1>5 DEF NetInv, MessageAt, ordered
  <1>11. AckInv'
    BY <1>1, <1>4 DEF AckInv, AckAt, ordered
  <1>12. SnapInv'
    BY SMTT(20), <1>1, <1>4, <1>5 DEF SnapInv, SnapAt, Settled, ordered, Snapshot, Holds
  <1>13. DenyInv'
    <2> SUFFICES ASSUME NEW x \in Executors, policy'.kind = "deny", live'[x], <<x, sess'[x]>> \in held'
                 PROVE  InForce(x)' \/ \E v \in Works : Watched(v, x)'
      BY DEF DenyInv, DenyAt
    <2>0. ASSUME NEW n, DeniesFrom(x, n)
          PROVE  /\ \A v \in Works : del'[v][x].st = "wait" /\ n <= del'[v][x].rev => del'[v][x].snap.kind = "deny"
                 /\ \A m \in net' : m.to = x /\ n <= m.rev => m.snap.kind = "deny"
      BY <1>4, <1>5, <2>0 DEF DeniesFrom
    <2>1. InForce(x) \/ \E v \in Works : Watched(v, x)
      BY <1>1 DEF DenyInv, DenyAt
    <2>2. CASE InForce(x)
      BY <1>1, <2>0, <2>2 DEF InForce, DeniesFrom
    <2>3. ASSUME NEW v \in Works, Watched(v, x) PROVE Watched(v, x)'
      <3>1. del'[v][x].sess = del[v][x].sess /\ del'[v][x].rev = del[v][x].rev /\ del'[v][x].st # "none"
        BY <1>3, <1>4, <2>3 DEF Watched
      <3>2. DeniesFrom(x, del[v][x].rev)'
        BY <2>0, <2>3, <3>1 DEF Watched, DeniesFrom
      <3> HIDE DEF IInv, TypeParts
      <3> QED
        BY <1>1, <2>3, <3>1, <3>2 DEF Watched
    <2> QED
      BY <2>1, <2>2, <2>3
  <1> QED
    BY <1>1, <1>6, <1>7, <1>8, <1>9, <1>10, <1>11, <1>12, <1>13, PolicyTypesUnchanged,
      BookTypesUnchanged, SessTypesUnchanged, HeldInvUnchanged, SessInvUnchanged,
      ExecInvUnchanged, BeliefInvUnchanged, DueInvUnchanged

\* An executor takes the newest it has seen; what it answers it has applied.
LEMMA ApplyBandwidthKeeps ==
  ASSUME IInv, NEW m \in net, applyBandwidth(m)
  PROVE  IInv'
  <1> USE DEF IInv, TypeParts
  <1>1. UNCHANGED <<event, lapsed, policy, due, held, entry, sess, live, work, changes>>
    BY DEF applyBandwidth, disk, registry, session, sending
  <1>2. /\ net \subseteq Messages
        /\ del \in [Works -> [Executors -> Deliveries]]
        /\ exec \in [Executors -> Objects]
        /\ faults \in Nat
        /\ entry \in [Executors -> Entries]
        /\ sess \in [Executors -> Nat]
    BY DEF SendTypes, ExecTypes, BookTypes, SessTypes
  <1>3. m \in Messages /\ m.to \in Executors /\ m.rev \in Nat /\ m.wire \in Nat /\ m.snap \in Snapshots
    BY <1>2 DEF Messages
  <1>4. MessageAt(m) /\ net' = net \ {m} /\ faults' \in Nat
    <2>1. MessageAt(m) /\ net' = net \ {m}
      BY DEF applyBandwidth, NetInv
    <2>2. faults' = faults \/ faults' = faults + 1
      BY DEF applyBandwidth
    <2> QED
      BY <1>2, <2>1, <2>2
  <1>5. \A e \in Executors : e # m.to => exec'[e] = exec[e]
    BY <1>2 DEF applyBandwidth
  <1>6. \/ /\ exec' = exec /\ m.wire < exec[m.to].rev /\ Answer(m, Covers(m.to, m))
        \/ \E ok \in BOOLEAN :
             /\ m.wire >= exec[m.to].rev /\ Answer(m, ok)
             /\ exec'[m.to].rev = m.wire /\ exec'[m.to].snap = m.snap
             /\ exec'[m.to].applied = IF ok THEN m.wire ELSE exec[m.to].applied
             /\ exec'[m.to].published = IF ok THEN m.wire ELSE exec[m.to].published
    <2>1. CASE Superseded(m.to, m) /\ Answer(m, Covers(m.to, m)) /\ UNCHANGED <<exec, faults>>
      BY <2>1 DEF Superseded
    <2>2. ASSUME NEW ok \in BOOLEAN, ~Superseded(m.to, m), Answer(m, Applies(ok)),
                 exec' = [exec EXCEPT ![m.to] =
                  [rev |-> m.wire, snap |-> m.snap, published |-> IF ok THEN m.wire ELSE @.published,
                   applied |-> IF Applies(ok) THEN m.wire ELSE @.applied]]
          PROVE  /\ m.wire >= exec[m.to].rev /\ Answer(m, ok)
                 /\ exec'[m.to].rev = m.wire /\ exec'[m.to].snap = m.snap
                 /\ exec'[m.to].applied = IF ok THEN m.wire ELSE exec[m.to].applied
                 /\ exec'[m.to].published = IF ok THEN m.wire ELSE exec[m.to].published
      BY <1>2, <1>3, <2>2 DEF Superseded, Applies, Objects
    <2> QED
      BY <2>1, <2>2 DEF applyBandwidth
  <1>7. exec' \in [Executors -> Objects]
    <2>1. exec[m.to] \in Objects
      BY <1>2, <1>3
    <2>2. CASE UNCHANGED exec
      BY <1>2, <2>2
    <2>3. ASSUME NEW ok \in BOOLEAN,
                 exec' = [exec EXCEPT ![m.to] =
                  [rev |-> m.wire, snap |-> m.snap, published |-> IF ok THEN m.wire ELSE @.published,
                   applied |-> IF Applies(ok) THEN m.wire ELSE @.applied]]
          PROVE  exec' \in [Executors -> Objects]
      BY <1>2, <1>3, <2>1, <2>3 DEF Objects
    <2> QED
      BY <2>2, <2>3 DEF applyBandwidth
  <1>8. /\ exec'[m.to].rev >= exec[m.to].rev /\ exec'[m.to].applied \in Nat /\ exec'[m.to].rev \in Nat
        /\ exec'[m.to].applied >= exec[m.to].applied \/ ~ordered(m.to)
        /\ exec'[m.to].published = exec'[m.to].applied /\ exec'[m.to].applied <= exec'[m.to].rev
        /\ exec'[m.to].rev <= entry[m.to].rev
    <2>1. /\ exec[m.to].published = exec[m.to].applied /\ exec[m.to].applied <= exec[m.to].rev
          /\ exec[m.to].rev <= entry[m.to].rev
      BY <1>3, <1>4 DEF ExecInv, ExecAt, MessageAt
    <2>2. entry[m.to].rev \in Nat /\ exec[m.to].applied \in Nat /\ exec[m.to].rev \in Nat
      BY <1>2, <1>3 DEF Entries, Objects
    <2>3. m.wire <= entry[m.to].rev
      BY <1>3, <1>4, <2>2 DEF MessageAt
    <2> QED
      BY <1>3, <1>6, <2>1, <2>2, <2>3
  <1>9. /\ del' \in [Works -> [Executors -> Deliveries]]
        /\ \A v \in Works, x \in Executors :
             /\ del'[v][x].sess = del[v][x].sess /\ del'[v][x].rev = del[v][x].rev
             /\ del'[v][x].st # "none" <=> del[v][x].st # "none"
             /\ del'[v][x].st = "wait" => del'[v][x] = del[v][x]
             /\ Open(del'[v][x]) => Open(del[v][x])
             /\ del'[v][x].st \in {"answered", "acked"} =>
                  \/ del'[v][x] = del[v][x]
                  \/ x = m.to /\ del[v][x].rev = m.rev /\ (ordered(m.to) => m.rev <= exec'[m.to].applied)
    <2>1. PICK ok \in BOOLEAN : Answer(m, ok) /\ (ok /\ ordered(m.to) => m.rev <= exec'[m.to].applied)
      <3>1. ordered(m.to) => m.wire = m.rev
        BY <1>4 DEF MessageAt
      <3>2. exec[m.to].applied \in Nat
        BY <1>2, <1>3 DEF Objects
      <3>3. CASE exec' = exec /\ Answer(m, Covers(m.to, m))
        <4>1. Covers(m.to, m) \in BOOLEAN
          BY DEF Covers
        <4>2. Covers(m.to, m) /\ ordered(m.to) => m.rev <= exec'[m.to].applied
          BY <1>3, <3>2, <3>3 DEF Covers
        <4> QED
          BY <3>3, <4>1, <4>2, Zenon
      <3>4. ASSUME NEW ok \in BOOLEAN, Answer(m, ok), exec'[m.to].applied = IF ok THEN m.wire ELSE exec[m.to].applied
            PROVE  ok /\ ordered(m.to) => m.rev <= exec'[m.to].applied
        BY <1>3, <3>1, <3>4
      <3> QED
        BY <1>6, <3>3, <3>4 DEF Covers
    <2>2. ASSUME NEW v \in Works, NEW x \in Executors
          PROVE  \/ del'[v][x] = del[v][x]
                 \/ /\ x = m.to /\ del[v][x].st = "call" /\ del[v][x].rev = m.rev
                    /\ del'[v][x] = Returned(del[v][x], IF ok THEN "answered" ELSE "failed")
      BY <2>1 DEF Answer
    <2>3. ASSUME NEW v \in Works, NEW x \in Executors, NEW s \in {"answered", "failed"}
          PROVE  /\ Returned(del[v][x], s) \in Deliveries /\ Returned(del[v][x], s).st = s
                 /\ Returned(del[v][x], s).sess = del[v][x].sess /\ Returned(del[v][x], s).rev = del[v][x].rev
      <3>1. del[v][x] \in Deliveries
        BY <1>2
      <3> QED
        BY <3>1 DEF Returned, NoDelivery, Deliveries, DeliveryStates, Snapshots, Kinds
    <2>4. del' \in [Works -> [Executors -> Deliveries]]
      <3>1. \A v \in Works, x \in Executors : del'[v][x] \in Deliveries
        BY <1>2, <2>2, <2>3
      <3> QED
        BY <2>1, <3>1 DEF Answer
    <2> QED
      BY <2>1, <2>2, <2>3, <2>4 DEF Open
  <1>10. SendTypes'
    BY <1>1, <1>2, <1>4, <1>9 DEF SendTypes
  <1>11. ExecTypes'
    BY <1>1, <1>4, <1>7 DEF ExecTypes
  <1>12. SessInv'
    BY <1>1, <1>3, <1>4, <1>5 DEF SessInv, SessAt, Registered, MessageAt
  <1>13. PlaceInv'
    BY <1>1, <1>9 DEF PlaceInv, PlaceAt
  <1>14. RevInv'
    BY <1>1, <1>9 DEF RevInv, RevAt, Registered
  <1>15. NetInv'
    BY <1>1, <1>4 DEF NetInv, MessageAt, ordered
  <1>16. ExecInv'
    BY <1>1, <1>3, <1>5, <1>8 DEF ExecInv, ExecAt
  <1>17. AckInv'
    <2> SUFFICES ASSUME NEW v \in Works, NEW x \in Executors PROVE AckAt(v, x)'
      BY DEF AckInv
    <2>1. del[v][x].rev \in Nat /\ exec[x].applied \in Nat /\ exec'[x].applied \in Nat
      BY <1>2, <1>7 DEF Deliveries, Objects
    <2>2. ordered(x) => exec[x].applied <= exec'[x].applied
      BY <1>5, <1>8, <2>1
    <2>3. CASE del'[v][x] = del[v][x]
      BY <1>1, <2>1, <2>2, <2>3 DEF AckInv, AckAt, ordered
    <2>4. CASE x = m.to /\ del[v][x].rev = m.rev /\ (ordered(m.to) => m.rev <= exec'[m.to].applied)
      BY <1>1, <1>9, <2>4 DEF AckAt, ordered
    <2> QED
      BY <1>9, <2>3, <2>4 DEF AckAt
  <1>18. BeliefInv'
    <2> SUFFICES ASSUME NEW x \in Executors PROVE BeliefAt(x)'
      BY DEF BeliefInv
    <2>1. entry[x].rev \in Nat /\ exec[x].applied \in Nat /\ exec'[x].applied \in Nat
      BY <1>2, <1>7 DEF Entries, Objects
    <2>2. ordered(x) => exec[x].applied <= exec'[x].applied
      BY <1>5, <1>8, <2>1
    <2> QED
      BY <1>1, <2>1, <2>2 DEF BeliefInv, BeliefAt, ordered
  <1>19. SnapInv'
    <2> SUFFICES ASSUME NEW x \in Executors, Settled(x)' PROVE SnapAt(x)'
      BY DEF SnapInv, SnapAt
    <2>1. /\ Settled(x) /\ SnapAt(x) /\ ordered(x)
          /\ Snapshot(x, held, policy)' = Snapshot(x, held, policy)
      BY <1>1 DEF Settled, ordered, SnapInv, Snapshot, Holds
    <2>2. exec'[x].rev = entry[x].rev => exec'[x].snap = Snapshot(x, held, policy)
      <3>1. CASE exec'[x] = exec[x]
        BY <2>1, <3>1 DEF SnapAt
      <3>2. CASE x = m.to /\ exec'[x].rev = m.wire /\ exec'[x].snap = m.snap
        BY <1>4, <2>1, <3>2 DEF SnapAt, MessageAt
      <3> QED
        BY <1>5, <1>6, <3>1, <3>2
    <2>3. \A v \in Works : del'[v][x].st = "wait" => del'[v][x] = del[v][x]
      BY <1>9
    <2> QED
      BY <1>1, <1>4, <2>1, <2>2, <2>3 DEF SnapAt
  <1>20. DenyInv'
    <2> SUFFICES ASSUME NEW x \in Executors, policy'.kind = "deny", live'[x], <<x, sess'[x]>> \in held'
                 PROVE  InForce(x)' \/ \E v \in Works : Watched(v, x)'
      BY DEF DenyInv, DenyAt
    <2>1. InForce(x) \/ \E v \in Works : Watched(v, x)
      BY <1>1 DEF DenyInv, DenyAt
    <2>2. ASSUME NEW n, DeniesFrom(x, n)
          PROVE  /\ \A v \in Works : del'[v][x].st = "wait" /\ n <= del'[v][x].rev => del'[v][x].snap.kind = "deny"
                 /\ \A k \in net' : k.to = x /\ n <= k.rev => k.snap.kind = "deny"
      BY <1>4, <1>9, <2>2 DEF DeniesFrom
    <2>3. \/ exec'[x] = exec[x]
          \/ x = m.to /\ exec'[x].rev = m.wire /\ exec'[x].snap = m.snap /\ exec[x].rev <= m.wire
      <3>1. exec[m.to].rev \in Nat
        BY <1>2, <1>3 DEF Objects
      <3> QED
        BY <1>3, <1>5, <1>6, <3>1
    <2>4. entry[x].version >= 2 => ordered(x)
      BY <1>2 DEF ordered, Entries
    <2>5. CASE InForce(x)
      <3>1. CASE exec'[x] = exec[x]
        BY <1>1, <2>2, <2>5, <3>1 DEF InForce, DeniesFrom
      <3>2. CASE x = m.to /\ exec'[x].rev = m.wire /\ exec'[x].snap = m.snap /\ exec[x].rev <= m.wire
        <4>1. m.wire = m.rev /\ m.snap.kind = "deny"
          BY <1>4, <2>4, <2>5, <3>2 DEF InForce, DeniesFrom, MessageAt
        <4>2. DeniesFrom(x, m.wire)
          <5>1. /\ exec[x].rev \in Nat /\ \A v \in Works : del[v][x].rev \in Nat
                /\ \A k \in net : k.rev \in Nat
            BY <1>2 DEF Objects, Deliveries, Messages
          <5> QED
            BY <1>3, <2>5, <3>2, <5>1 DEF InForce, DeniesFrom
        <4> QED
          BY <1>1, <2>2, <2>5, <3>2, <4>1, <4>2 DEF InForce, DeniesFrom
      <3> QED
        BY <2>3, <3>1, <3>2
    <2>6. ASSUME NEW v \in Works, Watched(v, x) PROVE Watched(v, x)'
      <3>1. entry[x].version >= 2 /\ del[v][x].rev <= exec'[x].rev => exec'[x].snap.kind = "deny"
        <4>1. CASE exec'[x] = exec[x]
          BY <2>6, <4>1 DEF Watched
        <4>2. CASE x = m.to /\ exec'[x].rev = m.wire /\ exec'[x].snap = m.snap
          BY <1>4, <2>4, <2>6, <4>2 DEF Watched, DeniesFrom, MessageAt
        <4> QED
          BY <2>3, <4>1, <4>2
      <3> QED
        BY <1>1, <1>9, <2>2, <2>6, <3>1 DEF Watched, DeniesFrom
    <2> QED
      BY <2>1, <2>5, <2>6
  <1> QED
    BY <1>1, <1>10, <1>11, <1>12, <1>13, <1>14, <1>15, <1>16, <1>17, <1>18, <1>19, <1>20,
      PolicyTypesUnchanged, BookTypesUnchanged, SessTypesUnchanged, HeldInvUnchanged,
      DueInvUnchanged

\* An acknowledgement settles the entry only under the entry's own revision.
LEMMA AcknowledgedKeeps ==
  ASSUME IInv, NEW w \in Works, NEW e \in Executors, Acknowledged(w, e)
  PROVE  IInv'
  <1> USE DEF IInv, TypeParts
  <1>1. UNCHANGED <<event, lapsed, policy, due, held, sess, live, work, net, exec, changes, faults>>
    BY DEF Acknowledged, disk, registry, session, sending
  <1>2. /\ del \in [Works -> [Executors -> Deliveries]]
        /\ entry \in [Executors -> Entries]
        /\ sess \in [Executors -> Nat]
        /\ net \subseteq Messages
        /\ exec \in [Executors -> Objects]
    BY DEF SendTypes, BookTypes, SessTypes, ExecTypes
  <1>3. del[w][e].st = "answered" /\ work[w].st = "sending" /\ del[w][e].sess = sess[e]
    BY DEF Acknowledged, PlaceInv, PlaceAt, Open
  <1>4. /\ \A v \in Works, x \in Executors : ~(v = w /\ x = e) => del'[v][x] = del[v][x]
        /\ del' \in [Works -> [Executors -> Deliveries]]
        /\ del'[w][e].st \in {"acked", "failed"} /\ del'[w][e].sess = del[w][e].sess /\ del'[w][e].rev = del[w][e].rev
    <2>1. del[w] \in [Executors -> Deliveries] /\ del[w][e] \in Deliveries
      BY <1>2
    <2>2. PICK s \in {"acked", "failed"} : del' = [del EXCEPT ![w] = [del[w] EXCEPT ![e] = Returned(del[w][e], s)]]
      BY <1>2, <2>1 DEF Acknowledged
    <2>3. /\ Returned(del[w][e], s) \in Deliveries /\ Returned(del[w][e], s).st = s
          /\ Returned(del[w][e], s).sess = del[w][e].sess /\ Returned(del[w][e], s).rev = del[w][e].rev
      BY <2>1 DEF Returned, NoDelivery, Deliveries, DeliveryStates, Snapshots, Kinds
    <2> QED
      BY <1>2, <2>1, <2>2, <2>3
  <1>5. /\ entry' \in [Executors -> Entries] /\ \A x \in Executors : x # e => entry'[x] = entry[x]
        /\ entry'[e].sess = entry[e].sess /\ entry'[e].version = entry[e].version /\ entry'[e].rev = entry[e].rev
    <2>1. entry[e] \in Entries
      BY <1>2
    <2>2. CASE UNCHANGED entry
      BY <1>2, <2>2
    <2>3. CASE entry' = [entry EXCEPT ![e].pending = @ /\ ~Current(w, e)]
      <3>1. PICK b \in BOOLEAN : entry' = [entry EXCEPT ![e] = [entry[e] EXCEPT !.pending = b]]
        BY <1>2, <2>3
      <3>2. [entry[e] EXCEPT !.pending = b] \in Entries
        BY <2>1 DEF Entries
      <3> QED
        BY <1>2, <2>1, <3>1, <3>2 DEF Entries
    <2> QED
      BY <2>2, <2>3 DEF Acknowledged
  <1>6. ~entry'[e].pending => ~entry[e].pending \/ Current(w, e)
    <2>1. CASE UNCHANGED entry
      BY <2>1
    <2>2. CASE entry' = [entry EXCEPT ![e].pending = @ /\ ~Current(w, e)]
      <3>1. entry'[e].pending = (entry[e].pending /\ ~Current(w, e))
        BY <1>2, <2>2 DEF Entries
      <3> QED
        BY <3>1
    <2> QED
      BY <2>1, <2>2 DEF Acknowledged
  <1>7. BookTypes'
    BY <1>1, <1>2, <1>4, <1>5 DEF BookTypes, SendTypes
  <1>8. SendTypes'
    BY <1>1, <1>2, <1>4, <1>5 DEF BookTypes, SendTypes
  <1>9. SessInv'
    BY <1>1, <1>5 DEF SessInv, SessAt, Registered
  <1>10. PlaceInv'
    BY <1>1, <1>3, <1>4 DEF PlaceInv, PlaceAt, Open
  <1>11. RevInv'
    BY <1>1, <1>3, <1>4, <1>5 DEF RevInv, RevAt, Registered
  <1>12. NetInv'
    BY <1>1, <1>2, <1>5 DEF NetInv, MessageAt, ordered, Messages
  <1>13. ExecInv'
    BY <1>1, <1>5 DEF ExecInv, ExecAt
  <1>14. AckInv'
    <2> SUFFICES ASSUME NEW v \in Works, NEW x \in Executors PROVE AckAt(v, x)'
      BY DEF AckInv
    <2>1. AckAt(v, x) /\ ordered(x)' = ordered(x)
      BY <1>5 DEF AckInv, ordered
    <2>2. CASE v = w /\ x = e
      BY <1>1, <1>3, <1>4, <2>1, <2>2 DEF AckAt
    <2>3. CASE ~(v = w /\ x = e)
      BY <1>1, <1>4, <2>1, <2>3 DEF AckAt
    <2> QED
      BY <2>2, <2>3
  <1>15. BeliefInv'
    <2> SUFFICES ASSUME NEW x \in Executors PROVE BeliefAt(x)'
      BY DEF BeliefInv
    <2>1. CASE x # e
      BY <1>1, <1>5, <2>1 DEF BeliefInv, BeliefAt, ordered
    <2>2. CASE x = e /\ ~entry[e].pending
      BY <1>1, <1>5, <2>2 DEF BeliefInv, BeliefAt, ordered
    <2>3. CASE x = e /\ Current(w, e)
      BY <1>1, <1>3, <1>5, <2>3 DEF BeliefAt, AckInv, AckAt, Current, ordered
    <2> QED
      BY <1>6, <2>1, <2>2, <2>3 DEF BeliefAt
  <1>16. SnapInv'
    <2> SUFFICES ASSUME NEW x \in Executors, Settled(x)' PROVE SnapAt(x)'
      BY DEF SnapInv, SnapAt
    <2>1. /\ Settled(x) /\ SnapAt(x) /\ Snapshot(x, held, policy)' = Snapshot(x, held, policy)
          /\ entry'[x].rev = entry[x].rev
      BY <1>1, <1>5 DEF Settled, ordered, SnapInv, Snapshot, Holds
    <2>2. \A v \in Works : del'[v][x].st = "wait" => del'[v][x] = del[v][x]
      BY <1>4
    <2> QED
      BY <1>1, <2>1, <2>2 DEF SnapAt
  <1>17. DenyInv'
    <2> SUFFICES ASSUME NEW x \in Executors, policy'.kind = "deny", live'[x], <<x, sess'[x]>> \in held'
                 PROVE  InForce(x)' \/ \E v \in Works : Watched(v, x)'
      BY DEF DenyInv, DenyAt
    <2>0. ASSUME NEW n, DeniesFrom(x, n)
          PROVE  /\ \A v \in Works : del'[v][x].st = "wait" /\ n <= del'[v][x].rev => del'[v][x].snap.kind = "deny"
                 /\ \A m \in net' : m.to = x /\ n <= m.rev => m.snap.kind = "deny"
      BY <1>1, <1>4, <2>0 DEF DeniesFrom
    <2>1. InForce(x) \/ \E v \in Works : Watched(v, x)
      BY <1>1 DEF DenyInv, DenyAt
    <2>2. CASE InForce(x)
      BY <1>1, <1>5, <2>0, <2>2 DEF InForce, DeniesFrom
    <2>3. ASSUME NEW v \in Works, Watched(v, x) PROVE Watched(v, x)'
      BY <1>1, <1>3, <1>4, <1>5, <2>0, <2>3 DEF Watched, DeniesFrom
    <2> QED
      BY <2>1, <2>2, <2>3
  <1> QED
    BY <1>1, <1>7, <1>8, <1>9, <1>10, <1>11, <1>12, <1>13, <1>14, <1>15, <1>16, <1>17,
      PolicyTypesUnchanged, SessTypesUnchanged, ExecTypesUnchanged, HeldInvUnchanged,
      DueInvUnchanged

\* A change that is over and denied nothing watched nobody.
LEMMA SendReturnsKeeps ==
  ASSUME IInv, NEW w \in Works, SendReturns(w)
  PROVE  IInv'
  <1> USE DEF IInv, TypeParts
  <1>1. UNCHANGED <<event, lapsed, policy, due, held, entry, sess, live, net, exec, changes, faults>>
    BY DEF SendReturns, disk, registry, session, sending
  <1>2. /\ work \in [Works -> Changes]
        /\ del \in [Works -> [Executors -> Deliveries]]
    BY DEF SendTypes
  <1>3. /\ work[w].st = "sending" /\ work[w].kind # "deny"
        /\ work' \in [Works -> Changes] /\ \A v \in Works : v # w => work'[v] = work[v]
        /\ work'[w].st = "idle"
    BY <1>2 DEF SendReturns, Joined, NoWork, Changes, WorkStates, WorkKinds
  <1>4. /\ del' \in [Works -> [Executors -> Deliveries]] /\ \A v \in Works : v # w => del'[v] = del[v]
        /\ \A x \in Executors : del'[w][x].st = "none"
    BY <1>2 DEF SendReturns, NoDelivery, Deliveries, DeliveryStates, Snapshots, Kinds
  <1>5. SendTypes'
    BY <1>2, <1>1, <1>3, <1>4 DEF SendTypes
  <1>6. PlaceInv'
    <2> SUFFICES ASSUME NEW v \in Works, NEW x \in Executors PROVE PlaceAt(v, x)'
      BY DEF PlaceInv
    <2>1. CASE v # w
      BY <1>1, <1>3, <1>4, <2>1 DEF PlaceInv, PlaceAt, Open
    <2>2. CASE v = w
      BY <1>2, <1>1, <1>3, <1>4, <2>2 DEF PlaceInv, PlaceAt, Open, Deliveries
    <2> QED
      BY <2>1, <2>2
  <1>7. RevInv'
    BY <1>1, <1>3, <1>4 DEF RevInv, RevAt, Registered
  <1>8. AckInv'
    BY <1>1, <1>3, <1>4 DEF AckInv, AckAt, ordered
  <1>9. SnapInv'
    BY SMTT(20), <1>1, <1>3, <1>4 DEF SnapInv, SnapAt, Settled, ordered, Snapshot, Holds, Open
  <1>10. DenyInv'
    <2> SUFFICES ASSUME NEW x \in Executors, policy'.kind = "deny", live'[x], <<x, sess'[x]>> \in held'
                 PROVE  InForce(x)' \/ \E v \in Works : Watched(v, x)'
      BY DEF DenyInv, DenyAt
    <2>0. ASSUME NEW n, DeniesFrom(x, n)
          PROVE  /\ \A v \in Works : del'[v][x].st = "wait" /\ n <= del'[v][x].rev => del'[v][x].snap.kind = "deny"
                 /\ \A m \in net' : m.to = x /\ n <= m.rev => m.snap.kind = "deny"
      BY <1>1, <1>4, <2>0 DEF DeniesFrom
    <2>1. InForce(x) \/ \E v \in Works : Watched(v, x)
      BY <1>1 DEF DenyInv, DenyAt
    <2>2. CASE InForce(x)
      BY <1>1, <2>0, <2>2 DEF InForce, DeniesFrom
    <2>3. ASSUME NEW v \in Works, Watched(v, x) PROVE Watched(v, x)'
      <3>1. v # w
        BY <1>3, <2>3 DEF Watched
      <3> QED
        BY <1>1, <1>3, <1>4, <2>0, <2>3, <3>1 DEF Watched, DeniesFrom
    <2> QED
      BY <2>1, <2>2, <2>3
  <1> QED
    BY <1>1, <1>5, <1>6, <1>7, <1>8, <1>9, <1>10, PolicyTypesUnchanged, BookTypesUnchanged,
      SessTypesUnchanged, ExecTypesUnchanged, HeldInvUnchanged, SessInvUnchanged,
      NetInvUnchanged, ExecInvUnchanged, BeliefInvUnchanged, DueInvUnchanged

\* Who is not listed has the denial in force.
LEMMA ListStaleKeeps ==
  ASSUME IInv, NEW w \in Works, ListStale(w)
  PROVE  IInv'
  <1> USE DEF IInv, TypeParts
  <1>1. UNCHANGED <<event, lapsed, policy, due, held, entry, sess, live, net, exec, changes, faults>>
    BY DEF ListStale, disk, registry, session, sending
  <1>2. /\ work \in [Works -> Changes]
        /\ del \in [Works -> [Executors -> Deliveries]]
        /\ entry \in [Executors -> Entries]
        /\ sess \in [Executors -> Nat]
        /\ net \subseteq Messages
        /\ exec \in [Executors -> Objects]
    BY DEF SendTypes, BookTypes, SessTypes, ExecTypes
  <1>3. /\ work[w].st = "sending" /\ \A x \in Executors : ~Open(del[w][x])
        /\ work' \in [Works -> Changes] /\ \A v \in Works : v # w => work'[v] = work[v]
        /\ work'[w].st = "retiring" /\ work'[w].kind = work[w].kind
    BY <1>2 DEF ListStale, Joined, Changes, WorkStates
  <1>4. /\ del' \in [Works -> [Executors -> Deliveries]] /\ \A v \in Works : v # w => del'[v] = del[v]
        /\ \A x \in Executors : IF x \in Stale(w) THEN del'[w][x] = del[w][x] ELSE del'[w][x].st = "none"
    BY <1>2 DEF ListStale, NoDelivery, Deliveries, DeliveryStates, Snapshots, Kinds
  <1>5. SendTypes'
    BY <1>2, <1>1, <1>3, <1>4 DEF SendTypes
  <1>6. PlaceInv'
    <2> SUFFICES ASSUME NEW v \in Works, NEW x \in Executors PROVE PlaceAt(v, x)'
      BY DEF PlaceInv
    <2>1. CASE v # w
      BY <1>1, <1>3, <1>4, <2>1 DEF PlaceInv, PlaceAt, Open
    <2>2. CASE v = w
      BY <1>2, <1>1, <1>3, <1>4, <2>2 DEF PlaceInv, PlaceAt, Open, Deliveries
    <2> QED
      BY <2>1, <2>2
  <1>7. RevInv'
    BY <1>1, <1>3, <1>4 DEF RevInv, RevAt, Registered
  <1>8. AckInv'
    BY <1>1, <1>3, <1>4 DEF AckInv, AckAt, ordered
  <1>9. SnapInv'
    BY SMTT(20), <1>1, <1>3, <1>4 DEF SnapInv, SnapAt, Settled, ordered, Snapshot, Holds, Open
  <1>10. DenyInv'
    <2> SUFFICES ASSUME NEW x \in Executors, policy'.kind = "deny", live'[x], <<x, sess'[x]>> \in held'
                 PROVE  InForce(x)' \/ \E v \in Works : Watched(v, x)'
      BY DEF DenyInv, DenyAt
    <2>0. ASSUME NEW n, DeniesFrom(x, n) PROVE DeniesFrom(x, n)'
      BY <1>1, <1>3, <1>4, <2>0 DEF DeniesFrom, Open
    <2>1. InForce(x) \/ \E v \in Works : Watched(v, x)
      BY <1>1 DEF DenyInv, DenyAt
    <2>2. ASSUME InForce(x) PROVE InForce(x)'
      BY <1>1, <1>3, <1>4, <2>2 DEF InForce, DeniesFrom, Open
    <2>3. ASSUME NEW v \in Works, Watched(v, x), v # w \/ x \in Stale(w) PROVE Watched(v, x)'
      BY <1>1, <1>3, <1>4, <2>3 DEF Watched, DeniesFrom, Open
    <2>4. ASSUME Watched(w, x), x \notin Stale(w) PROVE InForce(x)
      <3>1. live[x] /\ entry[x].sess = sess[x]
        BY <1>1 DEF SessInv, SessAt
      <3>2. Confirmed(w, x)
        BY <2>4, <3>1 DEF Stale, Watched
      <3>3. ~entry[x].pending /\ entry[x].version >= 2 /\ del[w][x].rev <= entry[x].rev
        <4>1. entry[x].rev \in Nat /\ del[w][x].rev \in Nat
          BY <1>2 DEF Entries, Deliveries
        <4> QED
          BY <3>2, <4>1 DEF Confirmed
      <3>4. entry[x].rev <= exec[x].applied
        <4>1. ordered(x)
          BY <1>2, <3>3 DEF ordered, Entries
        <4> QED
          BY <3>1, <3>3, <4>1 DEF BeliefInv, BeliefAt
      <3>5. del[w][x].rev <= exec[x].rev
        <4>1. /\ entry[x].rev \in Nat /\ del[w][x].rev \in Nat
              /\ exec[x].rev \in Nat /\ exec[x].applied \in Nat
          BY <1>2 DEF Entries, Deliveries, Objects
        <4> QED
          BY <3>3, <3>4, <4>1 DEF ExecInv, ExecAt
      <3>6. DeniesFrom(x, exec[x].rev)
        <4>1. del[w][x].rev \in Nat /\ exec[x].rev \in Nat
          BY <1>2 DEF Deliveries, Objects
        <4>2. /\ \A v \in Works : del[v][x].rev \in Nat
              /\ \A m \in net : m.rev \in Nat
          BY <1>2 DEF Deliveries, Messages
        <4> QED
          BY <2>4, <3>5, <4>1, <4>2 DEF Watched, DeniesFrom
      <3> QED
        BY <2>4, <3>3, <3>5, <3>6 DEF Watched, InForce
    <2> QED
      BY <2>1, <2>2, <2>3, <2>4
  <1> QED
    BY <1>1, <1>5, <1>6, <1>7, <1>8, <1>9, <1>10, PolicyTypesUnchanged, BookTypesUnchanged,
      SessTypesUnchanged, ExecTypesUnchanged, HeldInvUnchanged, SessInvUnchanged,
      NetInvUnchanged, ExecInvUnchanged, BeliefInvUnchanged, DueInvUnchanged

\* Who was listed is gone, or was replaced.
LEMMA RemoveClientKeeps ==
  ASSUME IInv, NEW w \in Works, NEW e \in Executors, RemoveClient(w, e)
  PROVE  IInv'
  <1> USE DEF IInv, TypeParts
  <1>1. UNCHANGED <<event, lapsed, policy, due, held, entry, sess, work, changes, faults>>
    BY DEF RemoveClient, Ended, disk, registry, session, sending
  <1>2. /\ live \in [Executors -> BOOLEAN]
        /\ net \subseteq Messages
        /\ exec \in [Executors -> Objects]
        /\ del \in [Works -> [Executors -> Deliveries]]
        /\ entry \in [Executors -> Entries]
        /\ sess \in [Executors -> Nat]
    BY DEF SessTypes, SendTypes, ExecTypes, BookTypes
  <1>3. /\ live' \in [Executors -> BOOLEAN] /\ net' \subseteq net /\ exec' \in [Executors -> Objects]
        /\ \A x \in Executors : ~live'[x] => exec'[x] = NewExecutor \/ (exec'[x] = exec[x] /\ ~live[x])
        /\ \A x \in Executors : live'[x] => live[x] /\ exec'[x] = exec[x]
        /\ \A m \in net' : live[m.to] => live'[m.to]
        /\ \A x \in Executors : exec'[x] = exec[x] \/ exec'[x] = NewExecutor
    <2>1. Ended({x \in {e} : sess[e] = del[w][e].sess})
      BY DEF RemoveClient
    <2> QED
      BY <2>1, EndedEffect, <1>2 DEF SendTypes, Messages
  <1>4. /\ \A v \in Works, x \in Executors : del'[v][x] = IF v = w /\ x = e THEN NoDelivery ELSE del[v][x]
        /\ del' \in [Works -> [Executors -> Deliveries]]
    BY <1>2 DEF RemoveClient, NoDelivery, Deliveries, DeliveryStates, Snapshots, Kinds
  <1>5. del[w][e].sess = sess[e] => ~live'[e]
    <2> SUFFICES ASSUME del[w][e].sess = sess[e] PROVE ~live'[e]
      OBVIOUS
    <2>1. Ended({x \in {e} : sess[e] = del[w][e].sess})
      BY DEF RemoveClient
    <2> QED
      BY <2>1, EndedEffect
  <1>6. work[w].st = "retiring" /\ NoDelivery.st = "none"
    BY DEF RemoveClient, NoDelivery
  <1>7. SessTypes'
    BY <1>1, <1>2, <1>3 DEF SessTypes
  <1>8. SendTypes'
    BY <1>1, <1>2, <1>3, <1>4 DEF SendTypes
  <1>9. ExecTypes'
    BY <1>1, <1>2, <1>3 DEF ExecTypes
  <1>10. SessInv'
    BY <1>1, <1>2, <1>3 DEF SessInv, SessAt, Registered
  <1>11. PlaceInv'
    BY <1>1, <1>4, <1>6 DEF PlaceInv, PlaceAt, Open
  <1>12. RevInv'
    BY <1>1, <1>4, <1>6 DEF RevInv, RevAt, Registered
  <1>13. NetInv'
    BY <1>1, <1>2, <1>3 DEF NetInv, MessageAt, ordered
  <1>14. ExecInv'
    BY <1>1, <1>2, <1>3 DEF ExecInv, ExecAt, NewExecutor
  <1>15. AckInv'
    BY <1>1, <1>2, <1>3, <1>4, <1>6 DEF AckInv, AckAt, ordered
  <1>16. BeliefInv'
    BY <1>1, <1>2, <1>3 DEF BeliefInv, BeliefAt, ordered
  <1>17. SnapInv'
    <2> SUFFICES ASSUME NEW x \in Executors, Settled(x)' PROVE SnapAt(x)'
      BY DEF SnapInv, SnapAt
    <2>1. /\ Settled(x) /\ SnapAt(x) /\ Snapshot(x, held, policy)' = Snapshot(x, held, policy)
          /\ exec'[x] = exec[x]
      BY <1>1, <1>3 DEF Settled, ordered, SnapInv, Snapshot, Holds
    <2>2. \A v \in Works : del'[v][x].st = "wait" => del'[v][x] = del[v][x]
      BY <1>4, <1>6
    <2> QED
      BY <1>1, <1>3, <2>1, <2>2 DEF SnapAt
  <1>18. DenyInv'
    <2> SUFFICES ASSUME NEW x \in Executors, policy'.kind = "deny", live'[x], <<x, sess'[x]>> \in held'
                 PROVE  InForce(x)' \/ \E v \in Works : Watched(v, x)'
      BY DEF DenyInv, DenyAt
    <2>0. ASSUME NEW n, DeniesFrom(x, n)
          PROVE  /\ \A v \in Works : del'[v][x].st = "wait" /\ n <= del'[v][x].rev => del'[v][x].snap.kind = "deny"
                 /\ \A m \in net' : m.to = x /\ n <= m.rev => m.snap.kind = "deny"
      BY <1>3, <1>4, <1>6, <2>0 DEF DeniesFrom
    <2>1. InForce(x) \/ \E v \in Works : Watched(v, x)
      BY <1>1, <1>3 DEF DenyInv, DenyAt
    <2>2. CASE InForce(x)
      BY <1>1, <1>3, <2>0, <2>2 DEF InForce, DeniesFrom
    <2>3. ASSUME NEW v \in Works, Watched(v, x) PROVE Watched(v, x)'
      <3>1. ~(v = w /\ x = e)
        BY <1>1, <1>5, <2>3 DEF Watched
      <3>2. del'[v][x] = del[v][x] /\ exec'[x] = exec[x]
        BY <1>3, <1>4, <3>1
      <3> QED
        BY <1>1, <2>0, <2>3, <3>2 DEF Watched, DeniesFrom
    <2> QED
      BY <2>1, <2>2, <2>3
  <1> QED
    BY <1>1, <1>7, <1>8, <1>9, <1>10, <1>11, <1>12, <1>13, <1>14, <1>15, <1>16, <1>17, <1>18,
      PolicyTypesUnchanged, BookTypesUnchanged, HeldInvUnchanged, DueInvUnchanged

\* Nobody is left to look at.
LEMMA DenyReturnsKeeps ==
  ASSUME IInv, NEW w \in Works, DenyReturns(w)
  PROVE  IInv'
  <1> USE DEF IInv, TypeParts
  <1>1. UNCHANGED <<event, lapsed, policy, due, held, entry, sess, live, del, net, exec, changes,
            faults>>
    BY DEF DenyReturns, disk, registry, session, sending
  <1>2. /\ work \in [Works -> Changes]
    BY DEF SendTypes
  <1>3. /\ work[w].st = "retiring" /\ \A x \in Executors : del[w][x].st = "none"
        /\ work' \in [Works -> Changes] /\ \A v \in Works : v # w => work'[v] = work[v]
        /\ work'[w].st = "idle"
    BY <1>2 DEF DenyReturns, NoWork, Changes, WorkStates, WorkKinds
  <1>4. SendTypes'
    BY <1>2, <1>1, <1>3 DEF SendTypes
  <1>5. PlaceInv'
    <2> SUFFICES ASSUME NEW v \in Works, NEW x \in Executors PROVE PlaceAt(v, x)'
      BY DEF PlaceInv
    <2>1. CASE v # w
      BY <1>1, <1>3, <2>1 DEF PlaceInv, PlaceAt, Open
    <2>2. CASE v = w
      BY <1>2, <1>1, <1>3, <2>2 DEF PlaceInv, PlaceAt, Open, Deliveries
    <2> QED
      BY <2>1, <2>2
  <1>6. SnapInv'
    BY <1>1, <1>3 DEF SnapInv, SnapAt, Settled, ordered, Snapshot, Holds, Open
  <1>7. DenyInv'
    <2> SUFFICES ASSUME NEW x \in Executors, policy'.kind = "deny", live'[x], <<x, sess'[x]>> \in held'
                 PROVE  InForce(x)' \/ \E v \in Works : Watched(v, x)'
      BY DEF DenyInv, DenyAt
    <2>1. InForce(x) \/ \E v \in Works : Watched(v, x)
      BY <1>1 DEF DenyInv, DenyAt
    <2>2. CASE InForce(x)
      BY <1>1, <2>2 DEF InForce, DeniesFrom
    <2>3. ASSUME NEW v \in Works, Watched(v, x) PROVE Watched(v, x)'
      <3>1. v # w
        BY <1>3, <2>3 DEF Watched
      <3> QED
        BY <1>1, <1>3, <2>3, <3>1 DEF Watched, DeniesFrom
    <2> QED
      BY <2>1, <2>2, <2>3
  <1> QED
    BY <1>1, <1>4, <1>5, <1>6, <1>7, PolicyTypesUnchanged, BookTypesUnchanged, SessTypesUnchanged,
      ExecTypesUnchanged, HeldInvUnchanged, SessInvUnchanged, RevInvUnchanged, NetInvUnchanged,
      ExecInvUnchanged, AckInvUnchanged, BeliefInvUnchanged, DueInvUnchanged

\* No session survives the dispatcher.
LEMMA RestartKeeps ==
  ASSUME IInv, Restart
  PROVE  IInv'
  <1> USE DEF IInv, TypeParts
  <1>1. UNCHANGED <<event, lapsed, sess, changes, faults>>
    BY DEF Restart, Ended, disk, registry, session, sending
  <1>2. /\ policy \in Events
        /\ held \subseteq Executors \X Nat
        /\ due \in Nat
        /\ entry \in [Executors -> Entries]
        /\ live \in [Executors -> BOOLEAN]
        /\ net \subseteq Messages
        /\ exec \in [Executors -> Objects]
        /\ work \in [Works -> Changes]
        /\ del \in [Works -> [Executors -> Deliveries]]
        /\ sess \in [Executors -> Nat]
    BY DEF PolicyTypes, BookTypes, SessTypes, SendTypes, ExecTypes
  <1>3. /\ live' \in [Executors -> BOOLEAN] /\ net' \subseteq net /\ exec' \in [Executors -> Objects]
        /\ \A x \in Executors : ~live'[x] => exec'[x] = NewExecutor \/ (exec'[x] = exec[x] /\ ~live[x])
        /\ \A x \in Executors : live'[x] => live[x] /\ exec'[x] = exec[x]
        /\ \A m \in net' : live[m.to] => live'[m.to]
        /\ \A x \in Executors : exec'[x] = exec[x] \/ exec'[x] = NewExecutor
    <2>1. Ended(Executors)
      BY DEF Restart
    <2> QED
      BY <2>1, EndedEffect, <1>2 DEF SendTypes, Messages
  <1>4. /\ \A x \in Executors : ~live'[x] /\ exec'[x] = NewExecutor
        /\ net' = {}
    <2>1. Ended(Executors)
      BY DEF Restart
    <2> QED
      BY <1>2, <2>1, EndedEffect DEF Messages
  <1>5. /\ \A w \in Works, x \in Executors : del'[w][x].st = "none"
        /\ entry' = [x \in Executors |-> NoEntry] /\ held' = {} /\ due' = 0
    BY DEF Restart, NoDelivery
  <1>6. policy' \in Events /\ policy'.rev = event.rev /\ policy'.exp = event.exp
    <2>1. event \in Events
      BY DEF PolicyTypes
    <2>2. policy' = Restored
      BY DEF Restart
    <2> QED
      BY <2>1, <2>2 DEF Restored, Events, Kinds
  <1>7. PolicyTypes'
    BY <1>1, <1>5, <1>6 DEF PolicyTypes
  <1>8. BookTypes'
    BY <1>5 DEF BookTypes, NoEntry, Entries
  <1>9. SessTypes'
    BY <1>1, <1>2, <1>3 DEF SessTypes
  <1>10. SendTypes'
    BY <1>4 DEF Restart, SendTypes, NoWork, Changes, WorkStates, WorkKinds, NoDelivery,
      Deliveries, DeliveryStates, Snapshots, Kinds
  <1>11. ExecTypes'
    BY <1>1, <1>2, <1>3 DEF ExecTypes
  <1>12. HeldInv'
    BY <1>5, FS_EmptySet DEF HeldInv
  <1>13. SessInv'
    BY <1>1, <1>4, <1>5 DEF SessInv, SessAt, Registered, NoEntry
  <1>14. PlaceInv'
    BY <1>5 DEF PlaceInv, PlaceAt, RevInv, RevAt
  <1>15. RevInv'
    BY <1>5 DEF PlaceInv, PlaceAt, RevInv, RevAt
  <1>16. NetInv'
    BY <1>4 DEF NetInv
  <1>17. ExecInv'
    BY <1>4 DEF ExecInv, ExecAt, NewExecutor
  <1>18. AckInv'
    BY <1>4 DEF AckInv, AckAt
  <1>19. BeliefInv'
    BY <1>4 DEF BeliefInv, BeliefAt
  <1>20. SnapInv'
    BY <1>4 DEF SnapInv, SnapAt, Settled
  <1>21. DenyInv'
    BY <1>4 DEF DenyInv, DenyAt
  <1>22. DueInv'
    BY <1>1, <1>5, <1>6 DEF DueInv, PolicyTypes, Events
  <1> QED
    BY <1>1, <1>7, <1>8, <1>9, <1>10, <1>11, <1>12, <1>13, <1>14, <1>15, <1>16, <1>17, <1>18,
      <1>19, <1>20, <1>21, <1>22

-----------------------------------------------------------------------------
(* The theorems. *)

\* Every step keeps the invariant.
LEMMA StepKeeps ==
  ASSUME IInv, [Next]_vars
  PROVE  IInv'
  <1>1. CASE UNCHANGED vars
    <2>1. UNCHANGED <<event, lapsed, policy, due, held, entry, sess, live, work, del, net, exec,
                      changes, faults>>
      BY <1>1 DEF vars, disk, registry, session, sending
    <2> QED
      BY <2>1,
        PolicyTypesUnchanged, BookTypesUnchanged, SessTypesUnchanged, SendTypesUnchanged,
          ExecTypesUnchanged, HeldInvUnchanged, SessInvUnchanged, PlaceInvUnchanged,
          RevInvUnchanged, NetInvUnchanged, ExecInvUnchanged, AckInvUnchanged,
          BeliefInvUnchanged, SnapInvUnchanged, DenyInvUnchanged, DueInvUnchanged
        DEF IInv, TypeParts
  <1>2. ASSUME NEW e \in Executors, SessionStep(e) PROVE IInv'
    BY <1>2, RegisterKeeps, RetireKeeps, OnExecutorDisconnectedKeeps DEF SessionStep
  <1>3. ASSUME NEW w \in Works, ChangeStep(w) PROVE IInv'
    BY <1>3, OnDebugletAllocateKeeps, OnDebugletExitKeeps, ReclaimKeeps, SetDestinationPolicyKeeps,
       ExpiryChangeKeeps DEF ChangeStep
  <1>4. ASSUME NEW w \in Works, SendStep(w) PROVE IInv'
    BY <1>4, CaptureChargedKeeps, SendReturnsKeeps, ListStaleKeeps, DenyReturnsKeeps, CallKeeps,
       AcknowledgedKeeps, RemoveClientKeeps DEF SendStep
  <1> QED
    BY <1>1, <1>2, <1>3, <1>4, ReconcileFairshareKeeps, CancelledKeeps, ApplyBandwidthKeeps,
       SetDestinationPolicyFailsKeeps, LapseKeeps, ExpiryReadKeeps, RestartKeeps DEF Next

\* The invariant the other theorems rest on: nothing is ahead of the entry's revision,
\* what has that revision is the current snapshot, and a denial is in force or watched.
THEOREM DeliveryInvariant == Spec => []IInv
  <1>1. Init => IInv
    <2> SUFFICES ASSUME Init PROVE IInv
      OBVIOUS
    <2>1. NoWork \in Changes /\ NoWork.st = "idle"
      BY DEF NoWork, Changes, WorkStates, WorkKinds
    <2>2. NoDelivery \in Deliveries /\ NoDelivery.st = "none"
      BY DEF NoDelivery, Deliveries, DeliveryStates, Snapshots, Kinds
    <2>3. NoEntry \in Entries /\ NoEntry.sess = 0
      BY DEF NoEntry, Entries
    <2>4. NewExecutor \in Objects /\ NewExecutor.published = NewExecutor.applied /\ NewExecutor.applied <= NewExecutor.rev
      BY DEF NewExecutor, Objects, Snapshots, Kinds
    <2>5. PolicyTypes
      <3>1. [kind |-> "allow", exp |-> FALSE, rev |-> 0] \in Events
        BY DEF Events, Kinds
      <3>2. lapsed \in BOOLEAN
        BY Zenon DEF Init
      <3> QED
        BY <3>1, <3>2 DEF Init, PolicyTypes
    <2>6. BookTypes /\ SessTypes
      <3>1. live \in [Executors -> BOOLEAN]
        BY Zenon DEF Init
      <3> QED
        BY <2>3, <3>1 DEF Init, BookTypes, SessTypes
    <2>7. SendTypes /\ ExecTypes
      BY <2>1, <2>2, <2>4 DEF Init, SendTypes, ExecTypes
    <2>8. \A e \in Executors : ~live[e] /\ entry[e] = NoEntry /\ exec[e] = NewExecutor /\ sess[e] = 0
      BY DEF Init
    <2>9. \A w \in Works, e \in Executors : del[w][e].st = "none"
      BY <2>2 DEF Init
    <2>10. HeldInv
      BY FS_EmptySet DEF Init, HeldInv
    <2>11. SessInv /\ ExecInv
      BY <2>3, <2>4, <2>8 DEF SessInv, SessAt, Registered, ExecInv, ExecAt
    <2>12. PlaceInv /\ RevInv
      BY <2>9 DEF PlaceInv, PlaceAt, RevInv, RevAt
    <2>13. NetInv
      BY DEF Init, NetInv
    <2>14. AckInv /\ BeliefInv /\ SnapInv /\ DenyInv
      BY <2>8 DEF AckInv, AckAt, BeliefInv, BeliefAt, SnapInv, SnapAt, Settled, DenyInv, DenyAt
    <2>15. DueInv
      <3>1. event.rev = 0 /\ policy = event /\ due = 0
        BY DEF Init
      <3> QED
        BY <3>1 DEF DueInv
    <2> QED
      BY <2>5, <2>6, <2>7, <2>10, <2>11, <2>12, <2>13, <2>14, <2>15 DEF IInv, TypeParts
  <1> QED
    BY <1>1, StepKeeps, PTL DEF Spec

\* What the dispatcher believes of a session is so, for every number of executors,
\* sessions, changes and failures: a session held for reconciled has the current share
\* and policy in force, and when a denial has returned no live session with an
\* allocation there goes on without enforcing it (captureFairshareAfter, send,
\* applyBandwidth, changeDestinationPolicy).
THEOREM BeliefsAreRight == Spec => []BeliefIsRight
  <1>1. IInv => BeliefIsRight
    <2> SUFFICES ASSUME IInv PROVE BeliefIsRight
      OBVIOUS
    <2> USE DEF IInv
    <2>1. TypeOK
      BY DEF TypeParts, PolicyTypes, BookTypes, SessTypes, SendTypes, ExecTypes, Entries, Changes,
         Deliveries, Messages, Objects, TypeOK
    <2>2. ReconciledIsCurrent
      <3> SUFFICES ASSUME NEW e \in Executors, live[e], ordered(e), ~entry[e].pending,
                          <<e, sess[e]>> \in held, \A w \in Works : work[w].st # "charged"
                   PROVE  exec[e].snap = Snapshot(e, held, policy) /\ exec[e].published = entry[e].rev
        BY DEF ReconciledIsCurrent
      <3>1. entry[e].rev \in Nat /\ exec[e].rev \in Nat /\ exec[e].applied \in Nat
        BY DEF TypeParts, BookTypes, ExecTypes, Entries, Objects
      <3>2. exec[e].applied = entry[e].rev /\ exec[e].rev = entry[e].rev /\ exec[e].published = entry[e].rev
        BY <3>1 DEF BeliefInv, BeliefAt, ExecInv, ExecAt
      <3> QED
        BY <3>2 DEF SnapInv, SnapAt, Settled
    <2>3. DenialIsEnforced
      <3> SUFFICES ASSUME policy.kind = "deny", \A w \in Works : work[w].kind # "deny",
                          NEW e \in Executors, live[e], <<e, sess[e]>> \in held
                   PROVE  entry[e].version >= 2 /\ exec[e].snap.kind = "deny"
        BY DEF DenialIsEnforced
      <3> QED
        BY DEF DenyInv, DenyAt, Watched, InForce
    <2> QED
      BY <2>1, <2>2, <2>3 DEF BeliefIsRight
  <1> QED
    BY <1>1, DeliveryInvariant, PTL

\* Within a session no executor goes back to an older snapshot (applyBandwidth).
LEMMA SnapshotsOnlyGrow ==
  ASSUME IInv, [Next]_vars
  PROVE  NeverBack
  <1> USE DEF IInv, TypeParts
  <1>1. /\ exec \in [Executors -> Objects] /\ entry \in [Executors -> Entries] /\ net \subseteq Messages
        /\ sess \in [Executors -> Nat]
    BY DEF BookTypes, SendTypes, ExecTypes, SessTypes
  <1>2. \A e \in Executors : exec[e].rev \in Nat /\ exec[e].applied \in Nat
    BY <1>1 DEF Objects
  <1>3. CASE UNCHANGED exec
    BY <1>2, <1>3 DEF NeverBack
  <1>4. ASSUME NEW E, Ended(E) PROVE NeverBack
    <2> SUFFICES ASSUME NEW e \in Executors, live'[e]
                 PROVE  exec'[e].rev >= exec[e].rev /\ exec'[e].applied >= exec[e].applied
      BY DEF NeverBack
    <2>1. exec'[e] = exec[e]
      BY <1>4, EndedEffect
    <2> QED
      BY <1>2, <2>1
  <1>5. ASSUME NEW m \in net, applyBandwidth(m) PROVE NeverBack
    <2>1. MessageAt(m) /\ m.to \in Executors /\ m.wire \in Nat /\ m.rev \in Nat
      BY <1>1 DEF NetInv, Messages
    <2>2. \A e \in Executors : e # m.to => exec'[e] = exec[e]
      BY <1>1, <1>5 DEF applyBandwidth
    <2>3. \/ exec' = exec
          \/ /\ m.wire >= exec[m.to].rev /\ exec'[m.to].rev = m.wire
             /\ exec'[m.to].applied \in {m.wire, exec[m.to].applied}
      <3>1. CASE UNCHANGED exec
        BY <3>1
      <3>2. ASSUME NEW ok \in BOOLEAN, ~Superseded(m.to, m),
                   exec' = [exec EXCEPT ![m.to] =
                     [rev |-> m.wire, snap |-> m.snap, published |-> IF ok THEN m.wire ELSE @.published,
                      applied |-> IF Applies(ok) THEN m.wire ELSE @.applied]]
            PROVE  /\ m.wire >= exec[m.to].rev /\ exec'[m.to].rev = m.wire
                   /\ exec'[m.to].applied \in {m.wire, exec[m.to].applied}
        BY <1>1, <1>2, <2>1, <3>2 DEF Superseded
      <3> QED
        BY <1>5, <3>1, <3>2 DEF applyBandwidth
    <2>4. exec[m.to].applied <= exec[m.to].rev
      BY <2>1 DEF ExecInv, ExecAt
    <2>5. exec'[m.to].rev >= exec[m.to].rev /\ exec'[m.to].applied >= exec[m.to].applied
      BY <1>2, <2>1, <2>3, <2>4
    <2> QED
      BY <1>2, <2>2, <2>5 DEF NeverBack
  <1>6. ASSUME NEW e \in Executors, SessionStep(e) PROVE NeverBack
    BY <1>3, <1>4, <1>6 DEF SessionStep, Register, Retire, OnExecutorDisconnected
  <1>7. ASSUME NEW w \in Works, ChangeStep(w) PROVE NeverBack
    BY <1>3, <1>7 DEF ChangeStep, OnDebugletAllocate, OnDebugletExit, Reclaim, SetDestinationPolicy, ExpiryChange
  <1>8. ASSUME NEW w \in Works, SendStep(w) PROVE NeverBack
    BY <1>3, <1>4, <1>8 DEF SendStep, CaptureCharged, SendReturns, ListStale, DenyReturns, Call,
       Acknowledged, RemoveClient
  <1> QED
    BY <1>3, <1>4, <1>5, <1>6, <1>7, <1>8 DEF Next, reconcileFairshare, Cancelled,
       SetDestinationPolicyFails, Lapse, ExpiryRead, Restart, vars

\* The default is recorded by the sweep only, over the expired event it read
\* (expireDestinationPolicies, recordDestinationPolicy).
LEMMA OnlyExpiredEventsEnd ==
  ASSUME IInv, [Next]_vars
  PROVE  ExpiryEndsItsPolicy
  <1> USE DEF IInv
  <1>1. CASE UNCHANGED event
    BY <1>1 DEF ExpiryEndsItsPolicy
  <1>2. ASSUME NEW w \in Works, NEW req \in Requests, SetDestinationPolicy(w, req)
        PROVE  ExpiryEndsItsPolicy
    <2>1. event'.kind = req.kind /\ req.kind # "allow"
      BY <1>2 DEF SetDestinationPolicy, Record
    <2> QED
      BY <2>1 DEF ExpiryEndsItsPolicy
  <1>3. ASSUME NEW w \in Works, ExpiryChange(w) PROVE ExpiryEndsItsPolicy
    <2>1. CASE Expected(due) /\ due # 0
      <3>1. event.exp /\ lapsed
        BY <2>1 DEF DueInv, Expected
      <3> QED
        BY <3>1 DEF ExpiryEndsItsPolicy
    <2>2. CASE UNCHANGED disk
      BY <1>1, <2>2 DEF disk
    <2> QED
      BY <1>3, <2>1, <2>2 DEF ExpiryChange, disk
  <1>4. ASSUME NEW e \in Executors, SessionStep(e) PROVE ExpiryEndsItsPolicy
    BY <1>1, <1>4 DEF SessionStep, Register, Retire, OnExecutorDisconnected, disk
  <1>5. ASSUME NEW w \in Works, ChangeStep(w) PROVE ExpiryEndsItsPolicy
    BY <1>1, <1>2, <1>3, <1>5 DEF ChangeStep, OnDebugletAllocate, OnDebugletExit, Reclaim, disk
  <1>6. ASSUME NEW w \in Works, SendStep(w) PROVE ExpiryEndsItsPolicy
    BY <1>1, <1>6 DEF SendStep, CaptureCharged, SendReturns, ListStale, DenyReturns, Call,
       Acknowledged, RemoveClient, disk
  <1> QED
    BY <1>1, <1>4, <1>5, <1>6 DEF Next, reconcileFairshare, Cancelled, applyBandwidth,
       SetDestinationPolicyFails, Lapse, ExpiryRead, Restart, vars, disk

\* No step takes back what was delivered, answered or decided: executors never return
\* to an older snapshot, an allocation answered without an error is published wherever
\* it was acknowledged, and the sweep ends expired policies only.
THEOREM NothingIsTakenBack == Spec => NothingGoesBack
  <1>1. ASSUME IInv PROVE AllocationIsDelivered
    <2> USE <1>1 DEF IInv
    <2> SUFFICES ASSUME NEW w \in Works, NEW e \in Executors, del[w][e].st = "acked", live[e],
                        entry[e].sess = del[w][e].sess, ordered(e)
                 PROVE  exec[e].published >= del[w][e].rev
      BY DEF AllocationIsDelivered
    <2>1. del[w][e].rev <= exec[e].applied
      BY DEF SessInv, SessAt, AckInv, AckAt
    <2>2. del[w][e].rev \in Nat
      BY DEF TypeParts, SendTypes, Deliveries
    <2>3. exec[e].applied \in Nat
      BY DEF TypeParts, ExecTypes, Objects
    <2>4. exec[e].published = exec[e].applied
      BY DEF ExecInv, ExecAt
    <2> HIDE DEF IInv
    <2> QED
      BY <2>1, <2>2, <2>3, <2>4
  <1>2. IInv /\ [Next]_vars => [NeverBack /\ AllocationIsDelivered /\ ExpiryEndsItsPolicy]_vars
    BY <1>1, SnapshotsOnlyGrow, OnlyExpiredEventsEnd
  <1> QED
    BY <1>2, DeliveryInvariant, PTL DEF Spec, NothingGoesBack
==============================================================================
