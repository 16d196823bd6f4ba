-------------------------- MODULE ReservationTree --------------------------
(***************************************************************************)
(* The dynamic segment tree of internal/dispatcher/resource/schedule/dyn:  *)
(* the reserved bandwidth of every time slot 0..LastSlot.  A node is known *)
(* by the slots it spans; it holds the largest use of its slots (t) and    *)
(* what it still owes its children (lazy).  A tree gives the node of every *)
(* span: a nil pointer is a node with nothing in it.                       *)
(***************************************************************************)
EXTENDS Integers, FiniteSetsExt

CONSTANT LastSlot   \* math.MaxInt in the code

ASSUME SlotAssumption == LastSlot \in Nat

Slots == 0 .. LastSlot

Spans == {i \in Slots \X Slots : i[1] <= i[2]}

Tree == [Spans -> [t : Int, lazy : Int]]

NilNode == [t |-> 0, lazy |-> 0]

Blank == [i \in Spans |-> NilNode]

Middle(i) == i[1] + (i[2] - i[1]) \div 2

LeftOf(i) == <<i[1], Middle(i)>>

RightOf(i) == <<Middle(i) + 1, i[2]>>

Lift(n, i, use) == [n EXCEPT ![i] = [t |-> @.t + use, lazy |-> @.lazy + use]]

(* push: hand what a node owes to its children, before either is read. *)
PushDown(n, i) ==
    IF n[i].lazy = 0 \/ i[1] = i[2] THEN n
    ELSE Lift(Lift([n EXCEPT ![i].lazy = 0], LeftOf(i), n[i].lazy), RightOf(i), n[i].lazy)

(* The end of add: the largest use is the larger child's, and a node *)
(* without use lets its children go.                                 *)
Largest(n, i) == Max({n[LeftOf(i)].t, n[RightOf(i)].t})

Settle(n, i) ==
    [j \in Spans |->
        IF j = i THEN [n[i] EXCEPT !.t = Largest(n, i)]
        ELSE IF Largest(n, i) = 0 /\ i[1] <= j[1] /\ j[2] <= i[2] THEN NilNode
        ELSE n[j]]

(* Slots l..r as a node is asked for them: cut to its own. *)
Cut(i) == (i[1] .. LastSlot) \X (0 .. i[2])

(* add: use more (or less) bandwidth in the slots l..r, below one node. *)
Added[i \in Spans] ==
    [x \in Tree \X Cut(i) \X Int |->
        LET n == x[1]  l == x[2][1]  r == x[2][2]  use == x[3]
            lc == Added[LeftOf(i)][<<PushDown(n, i), <<l, Min({r, Middle(i)})>>, use>>]
            rc == Added[RightOf(i)][<<lc, <<Max({l, Middle(i) + 1}), r>>, use>>]
        IN  IF l > r THEN n
            ELSE IF l = i[1] /\ r = i[2] THEN Lift(n, i, use)
            ELSE Settle(rc, i)]

Book(n, l, r, use) == Added[<<0, LastSlot>>][<<n, <<l, r>>, use>>]

(* querymax: the largest use in l..r, below one node of n.  The pushes on the *)
(* way move no use between slots: what they hand down is carried along.       *)
MaxIn(n) ==
    LET max[i \in Spans] ==
            [x \in Cut(i) \X Int |->
                LET l == x[1][1]  r == x[1][2]  owed == x[2] + n[i].lazy
                IN  IF l > r THEN 0
                    ELSE IF l <= i[1] /\ i[2] <= r THEN n[i].t + x[2]
                    ELSE Max({max[LeftOf(i)][<<<<l, Min({r, Middle(i)})>>, owed>>],
                              max[RightOf(i)][<<<<Max({l, Middle(i) + 1}), r>>, owed>>]})]
    IN  max

QueryMax(n, l, r) == MaxIn(n)[<<0, LastSlot>>][<<<<l, r>>, 0>>]
============================================================================
