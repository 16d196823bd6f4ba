--------------------------- MODULE FairshareTree ---------------------------
(***************************************************************************)
(* The balanced tree of internal/avl that shares a capacity between its    *)
(* members: pure operators on a tree value.  A node is a record of its     *)
(* member, its value, what it caches about its subtree (sum, count, height *)
(* and balance) and its two children; Nil is the nil pointer.  The parent  *)
(* pointers are written by the code and never read, and are left out.      *)
(* What the code does by recursion is a function on the nodes of a tree.   *)
(***************************************************************************)
EXTENDS Integers, FiniteSets, FiniteSetsExt

Nil == [count |-> 0, sum |-> 0, h |-> -1]

IsNil(n) == n.count = 0

(* newNode: a leaf. *)
Leaf(id, v) ==
    [id |-> id, value |-> v, sum |-> v, count |-> 1, bal |-> 0, h |-> 0,
     L |-> Nil, R |-> Nil]

(* recompute: what a node caches, from its children (h of Nil is -1). *)
Recompute(n) ==
    [n EXCEPT !.bal   = n.R.h - n.L.h,
              !.h     = Max({n.L.h, n.R.h}) + 1,
              !.sum   = n.value + n.L.sum + n.R.sum,
              !.count = 1 + n.L.count + n.R.count]

RotLeft(n) ==
    Recompute([n.R EXCEPT !.L = Recompute([n EXCEPT !.R = n.R.L])])

RotRight(n) ==
    Recompute([n.L EXCEPT !.R = Recompute([n EXCEPT !.L = n.L.R])])

(* A heavy child leaning the other way is turned first. *)
Rotate(n) ==
    CASE n.bal = 2  -> RotLeft(IF n.R.bal < 0 THEN [n EXCEPT !.R = RotRight(n.R)] ELSE n)
      [] n.bal = -2 -> RotRight(IF n.L.bal > 0 THEN [n EXCEPT !.L = RotLeft(n.L)] ELSE n)
      [] OTHER      -> n

Rebalance(n) == Rotate(Recompute(n))

(* The nodes of a tree, the nil pointers included: level by level. *)
LevelsOf(n) ==
    LET level[k \in Nat] ==
            IF k = 0 THEN {n}
            ELSE LET above == {m \in level[k - 1] : ~IsNil(m)}
                 IN  {m.L : m \in above} \union {m.R : m \in above}
    IN  level

NodesOf(n) == UNION {LevelsOf(n)[k] : k \in 0 .. n.h + 1}

Inner(n) == {m \in NodesOf(n) : ~IsNil(m)}

Insert(n, id, v) ==
    LET insert[m \in NodesOf(n)] ==
            IF IsNil(m) THEN Leaf(id, v)
            ELSE Rebalance(IF v <= m.value THEN [m EXCEPT !.L = insert[m.L]]
                                           ELSE [m EXCEPT !.R = insert[m.R]])
    IN  insert[n]

MinNode(n) ==
    LET leftmost[m \in Inner(n)] == IF IsNil(m.L) THEN m ELSE leftmost[m.L]
    IN  leftmost[n]

(* Where delete looks next: to the left of a value not above the node's, and *)
(* to the right of one not below it.  An equal value is on either side, since *)
(* rebalancing moves equal values across.                                     *)
SearchesLeft(n, v) == v <= n.value

(* Mutant: an equal value is looked for on the left only. *)
SearchesLarger(n, v) == v > n.value

SearchesRight(n, v) == v >= n.value

(* delete, and deleteNode for the node found: a node with two children takes *)
(* the place of the smallest on its right.  A side that did not hold the      *)
(* member comes back as it was.                                               *)
Member(n) == [id |-> n.id, value |-> n.value]

Members(n) == {Member(m) : m \in Inner(n)}

Delete(n, id, v) ==
    LET sought == Members(n) \union {[id |-> id, value |-> v]}
        delete[m \in NodesOf(n)] == [x \in sought |->
            LET left  == delete[m.L][x]
                right == delete[m.R][x]
                heir  == MinNode(m.R)
            IN  IF IsNil(m) THEN m
                ELSE IF m.id = x.id THEN
                    IF IsNil(m.L) THEN m.R
                    ELSE IF IsNil(m.R) THEN m.L
                    ELSE Rebalance([m EXCEPT !.id = heir.id, !.value = heir.value,
                                             !.R = delete[m.R][Member(heir)]])
                ELSE IF SearchesLeft(m, x.value) /\ left # m.L THEN Rebalance([m EXCEPT !.L = left])
                ELSE IF SearchesRight(m, x.value) /\ right # m.R THEN Rebalance([m EXCEPT !.R = right])
                ELSE m]
    IN  delete[n][[id |-> id, value |-> v]]

(* The tree and its references: refs gives the value of each member's node. *)
NoTree == [root |-> Nil, refs |-> <<>>]

AddMember(a, id, v) ==
    [root |-> Insert(a.root, id, v),
     refs |-> [i \in DOMAIN a.refs \union {id} |-> IF i = id THEN v ELSE a.refs[i]]]

(* A member whose node is not found keeps its reference. *)
DeleteMember(a, id) ==
    LET root == Delete(a.root, id, a.refs[id])
    IN  IF id \notin DOMAIN a.refs \/ root = a.root THEN a
        ELSE [root |-> root, refs |-> [i \in DOMAIN a.refs \ {id} |-> a.refs[i]]]

Replace(a, id, v) == AddMember(DeleteMember(a, id), id, v)

(* fairshare: the level to which a capacity fills the members of a tree, *)
(* walking down with the sum on the left and the count on the right.     *)
Level(root, cap) ==
    LET level[n \in Inner(root)] == [leftSum \in Int |-> [rightCount \in Int |->
            LET larger  == rightCount + n.R.count
                smaller == leftSum + n.L.sum + n.value
            IN  IF cap <= smaller + larger * n.value
                THEN IF IsNil(n.L) THEN (cap - leftSum) \div (1 + larger)
                     ELSE level[n.L][leftSum][1 + larger]
                ELSE IF ~IsNil(n.R) THEN level[n.R][smaller][rightCount]
                     ELSE IF rightCount = 0 THEN n.value
                     ELSE (cap - smaller) \div rightCount]]
    IN  level[root][0][0]

AVLFairshare(a, cap) == IF IsNil(a.root) THEN 0 ELSE Level(a.root, cap)

-----------------------------------------------------------------------------
(* What a tree must be, stated without its caches. *)

ValuesOf(n) == {<<m.id, m.value>> : m \in Members(n)}

Balanced(n) ==
    \A m \in Inner(n) :
        /\ Recompute(m) = m
        /\ m.bal \in -1..1
        /\ \A p \in Members(m.L) : p.value <= m.value
        /\ \A p \in Members(m.R) : p.value >= m.value

(* Every member has one node, and its references say what the nodes hold. *)
Sound(a) ==
    /\ Balanced(a.root)
    /\ a.root.count = Cardinality(DOMAIN a.refs)
    /\ ValuesOf(a.root) = {<<i, a.refs[i]>> : i \in DOMAIN a.refs}

Total(S, f) == MapThenSumSet(LAMBDA x : f[x], S)

(* The share of the capacity a level hands out to the pairs in V, and the *)
(* max-min fair level: the highest that fits, or the highest value of all. *)
HandedOut(V, level) == Total(V, [p \in V |-> Min({p[2], level})])

FairLevel(V, cap) ==
    IF V = {} THEN 0
    ELSE Max({x \in 0..Max({p[2] : p \in V}) : HandedOut(V, x) <= cap})
============================================================================
